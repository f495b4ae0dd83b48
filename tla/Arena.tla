-------------------------------- MODULE Arena --------------------------------
(***************************************************************************)
(* The headless evaluation server, backend/cmd/arena/main.go, and a        *)
(* trainer that has it play one batch of jobs (ArenaClient._post in        *)
(* training/zhuch_train/arena_client.py).                                  *)
(*                                                                         *)
(* Each attempt of the trainer is a request with a goroutine for each job  *)
(* and a semaphore of its own; a trainer that gives up on an attempt sends *)
(* the next while the server still plays the last.  The server may restart *)
(* at any time and forgets everything.                                     *)
(*                                                                         *)
(* Of an episode it matters who is seen dead after which tick.  Nothing    *)
(* more is kept of a tank: one that the collisions killed may regenerate   *)
(* before the next sweep looks, so after every tick any tank may be        *)
(* either.                                                                 *)
(***************************************************************************)
EXTENDS Brain

CONSTANTS
    NumJobs, NumTanks,   \* of the batch, and of each of its jobs
    Workers,             \* GOMAXPROCS: the capacity of a request's semaphore
    MaxAttempts,         \* ArenaClient.retries + 1
    MaxTicks,            \* max_ticks of the jobs
    MLPSizes,            \* mlpSizes
    Weights,             \* bound: the weights_b64 that jobs come with
    MaxRestarts          \* bound

ASSUME ArenaAssumption ==
    /\ {NumJobs, NumTanks, Workers, MaxAttempts, MaxTicks} \subseteq Nat \ {0}
    /\ MaxRestarts \in Nat
    /\ Weights \subseteq [base64 : BOOLEAN, bytes : Nat]
    /\ MLPSizes \in Seq(Nat \ {0}) /\ Len(MLPSizes) >= 2

Job == 1 .. NumJobs
TankNo == 1 .. NumTanks
Attempt == 1 .. MaxAttempts

VARIABLES
    weights,     \* each job's weights, none for a request that lists no tanks
    attempt,     \* the trainer's attempt
    trainer,     \* "waiting" for the answer, in "backoff", "served" or "gaveUp"
    answer,      \* what it was served: the outcome of each job
    handler,     \* each request: "none", "running" or "replied"
    episode,     \* each job of each request: "none", "queued" behind the semaphore,
                 \* "playing", "doomed" to an error return, "done" or "failed"
    tick,        \* ... g.CurrentTick
    deathTick,   \* ... deathTick of each tank, -1 for none yet
    inflight,    \* ArenaInflightEvals
    restarts

serverVars == <<handler, episode, tick, deathTick, inflight>>
vars == <<weights, attempt, trainer, answer, serverVars, restarts>>

Idle(value) == [j \in Job |-> value]
Fresh(value) == [a \in Attempt |-> Idle(value)]

ServerInit ==
    /\ handler = [a \in Attempt |-> "none"]
    /\ episode = Fresh("none") /\ tick = Fresh(0)
    /\ deathTick = Fresh([i \in TankNo |-> -1])
    /\ inflight = 0

Init ==
    /\ weights \in [Job -> Weights]
    /\ attempt = 0 /\ trainer = "backoff" /\ answer = <<>> /\ restarts = 0
    /\ ServerInit

-----------------------------------------------------------------------------
(* The trainer.                                                            *)

\* requests.post: handleEvalBatch starts a goroutine for each job.
Post ==
    /\ trainer = "backoff" /\ attempt < MaxAttempts
    /\ attempt' = attempt + 1 /\ trainer' = "waiting"
    /\ handler' = [handler EXCEPT ![attempt + 1] = "running"]
    /\ episode' = [episode EXCEPT ![attempt + 1] = Idle("queued")]
    /\ UNCHANGED <<weights, answer, tick, deathTick, inflight, restarts>>

Retry == "backoff"                              \* mutant of AfterFailure
\* An attempt that failed, for whatever reason, a refusal included.
AfterFailure == IF attempt < MaxAttempts THEN "backoff" ELSE "gaveUp"

Timeout ==
    /\ trainer = "waiting"
    /\ trainer' = AfterFailure
    /\ UNCHANGED <<weights, attempt, answer, restarts>> /\ UNCHANGED serverVars

-----------------------------------------------------------------------------
(* The server: the goroutine of job j of request a.                        *)

NotDone(a) == {j \in Job : episode[a][j] \in {"playing", "doomed", "failed"}}   \* mutant of Held
\* Who is between sem <- and <-sem.
Held(a) == {j \in Job : episode[a][j] \in {"playing", "doomed"}}

HasWorker(a) == Cardinality(Held(a)) < Workers

\* runEpisode refuses a request without tanks before it counts it as in flight; one
\* whose weights turn out bad fails when it is already counted.
Begin(a, j) ==
    /\ episode[a][j] = "queued" /\ HasWorker(a)
    /\ IF weights[j].bytes = 0
       THEN episode' = [episode EXCEPT ![a][j] = "failed"] /\ UNCHANGED inflight
       ELSE /\ episode' = [episode EXCEPT ![a][j] =
                              IF Decodes(weights[j], MLPSizes) THEN "playing" ELSE "doomed"]
            /\ inflight' = inflight + 1
    /\ UNCHANGED <<weights, attempt, trainer, answer, handler, tick, deathTick, restarts>>

StillCounted == inflight                        \* mutant of Uncounted
Uncounted == inflight - 1

\* The error return: the deferred function takes it out of the gauge.
Abort(a, j) ==
    /\ episode[a][j] = "doomed"
    /\ episode' = [episode EXCEPT ![a][j] = "failed"]
    /\ inflight' = Uncounted
    /\ UNCHANGED <<weights, attempt, trainer, answer, handler, tick, deathTick, restarts>>

LatestDeath(a, j, dead) ==                      \* mutant of Deaths
    [i \in TankNo |-> IF i \in dead THEN tick[a][j] + 1 ELSE deathTick[a][j][i]]
\* The tick at which each tank was first seen dead.
Deaths(a, j, dead) ==
    [i \in TankNo |-> IF deathTick[a][j][i] = -1 /\ i \in dead
                      THEN tick[a][j] + 1 ELSE deathTick[a][j][i]]

OneMore(a, j, deaths) == deaths[1] # -1 \/ tick[a][j] = MaxTicks      \* mutant of Over
\* The candidate, tank 1, has died or the ticks are up.
Over(a, j, deaths) == deaths[1] # -1 \/ tick[a][j] + 1 = MaxTicks

\* One round of the loop, and the return behind its last.
PlayTick(a, j) ==
    /\ episode[a][j] = "playing"
    /\ \E dead \in SUBSET TankNo :
         LET deaths == Deaths(a, j, dead)
             over == Over(a, j, deaths)
         IN  /\ deathTick' = [deathTick EXCEPT ![a][j] = deaths]
             /\ episode' = [episode EXCEPT ![a][j] = IF over THEN "done" ELSE @]
             /\ inflight' = IF over THEN Uncounted ELSE inflight
    /\ tick' = [tick EXCEPT ![a][j] = @ + 1]
    /\ UNCHANGED <<weights, attempt, trainer, answer, handler, restarts>>

Returned(a) == \A j \in Job : episode[a][j] \in {"done", "failed"}

AnyReturned(a) == \E j \in Job : episode[a][j] \in {"done", "failed"}   \* mutant of WaitOver
\* wg.Wait.
WaitOver(a) == Returned(a)

\* The response to job j: what became of each tank and after how many ticks.
Outcome(a, j) == [ticks |-> tick[a][j], deaths |-> deathTick[a][j]]

\* The handler answers, with all the results or with an error when a job failed, and
\* forgets the request.
Reply(a) ==
    /\ handler[a] = "running" /\ WaitOver(a)
    /\ handler' = [handler EXCEPT ![a] = "replied"]
    /\ IF trainer = "waiting" /\ attempt = a
       THEN IF \E j \in Job : episode[a][j] = "failed"
            THEN trainer' = AfterFailure /\ UNCHANGED answer
            ELSE trainer' = "served" /\ answer' = [j \in Job |-> Outcome(a, j)]
       ELSE UNCHANGED <<trainer, answer>>
    /\ episode' = [episode EXCEPT ![a] = Idle("none")]
    /\ tick' = [tick EXCEPT ![a] = Idle(0)]
    /\ deathTick' = [deathTick EXCEPT ![a] = Idle([i \in TankNo |-> -1])]
    /\ UNCHANGED <<weights, attempt, inflight, restarts>>

\* The server restarts: its requests are lost and their connections fail.
Restart ==
    /\ restarts < MaxRestarts
    /\ restarts' = restarts + 1
    /\ trainer' = IF trainer = "waiting" THEN AfterFailure ELSE trainer
    /\ handler' = [a \in Attempt |-> "none"]
    /\ episode' = Fresh("none") /\ tick' = Fresh(0)
    /\ deathTick' = Fresh([i \in TankNo |-> -1])
    /\ inflight' = 0
    /\ UNCHANGED <<weights, attempt, answer>>

Serve(a) == Reply(a) \/ \E j \in Job : Begin(a, j) \/ Abort(a, j) \/ PlayTick(a, j)

Next == Post \/ Timeout \/ Restart \/ \E a \in Attempt : Serve(a)

Spec == Init /\ [][Next]_vars

\* The server's goroutines run and the trainer sends what it decided to; a timeout or
\* a restart never has to come.
FairSpec == Spec /\ WF_vars(Post) /\ \A a \in Attempt : WF_vars(Serve(a))

-----------------------------------------------------------------------------
(* Properties.                                                             *)

TypeOK ==
    /\ weights \in [Job -> Weights]
    /\ attempt \in 0 .. MaxAttempts /\ restarts \in 0 .. MaxRestarts
    /\ trainer \in {"waiting", "backoff", "served", "gaveUp"}
    /\ answer = <<>> \/ answer \in [Job -> [ticks : 0 .. MaxTicks, deaths : [TankNo -> {-1} \cup 1 .. MaxTicks]]]
    /\ handler \in [Attempt -> {"none", "running", "replied"}]
    /\ episode \in [Attempt -> [Job -> {"none", "queued", "playing", "doomed", "done", "failed"}]]
    /\ tick \in [Attempt -> [Job -> 0 .. MaxTicks]]
    /\ deathTick \in [Attempt -> [Job -> [TankNo -> {-1} \cup 1 .. MaxTicks]]]
    /\ inflight \in Int

Unfinished == {p \in Attempt \X Job : episode[p[1]][p[2]] \in {"playing", "doomed"}}

\* The gauge counts the episodes in progress, of every request, whatever way they
\* end: it is back at 0 when the server is idle.
GaugeExact == inflight = Cardinality(Unfinished)

\* What the trainer is served is the whole batch and all of one request: every job's
\* weights were playable, every episode had ended, by the candidate's death or at the
\* last tick, and no tank died after the end.
AnswerWhole ==
    trainer = "served" =>
        \A j \in Job :
           /\ weights[j].bytes > 0 /\ Decodes(weights[j], MLPSizes)
           /\ LET out == answer[j]
              IN  /\ out.ticks = IF out.deaths[1] = -1 THEN MaxTicks ELSE out.deaths[1]
                  /\ \A i \in TankNo : out.deaths[i] = -1 \/ out.deaths[i] \in 1 .. out.ticks

\* The check of the length is the only one between a trainer's bytes and Forward: in
\* every network that is played each weight is read by exactly one neuron, and none
\* reads beyond the end.
WeightsReadOnce ==
    \A a \in Attempt, j \in Job :
        episode[a][j] = "playing" => WeightsPartitioned(MLPSizes, weights[j].bytes \div 4)

\* A tank's first death is what is reported, though it may be revived and die again.
FirstDeathKept ==
    [][\A a \in Attempt, j \in Job, i \in TankNo :
         (episode'[a][j] # "none" /\ deathTick[a][j][i] # -1) =>
            deathTick'[a][j][i] = deathTick[a][j][i]]_vars

\* Every request is answered, unless the server restarts: no job waits forever for
\* the semaphore, and none that fails keeps its place.
EveryRequestEnds == \A a \in Attempt : handler[a] = "running" ~> handler[a] # "running"

\* The trainer gets its batch or gives up; no timeout or restart leaves it between.
TrainerEnds == <>(trainer \in {"served", "gaveUp"})
=============================================================================
