----------------------------- MODULE ArenaProofs -----------------------------
(***************************************************************************)
(* Proofs about Arena, for any batch, number of tanks, workers, attempts,  *)
(* ticks, restarts and weights.                                            *)
(***************************************************************************)
EXTENDS Arena, FiniteSetTheorems, WellFoundedInduction, TLAPS

\* What is known of an episode in each of its states.
EpisodeSound(a, j) ==
    /\ \A i \in TankNo : deathTick[a][j][i] = -1 \/ deathTick[a][j][i] \in 1 .. tick[a][j]
    /\ episode[a][j] \in {"none", "queued"} =>
          tick[a][j] = 0 /\ \A i \in TankNo : deathTick[a][j][i] = -1
    /\ episode[a][j] \in {"playing", "done"} =>
          weights[j].bytes > 0 /\ Decodes(weights[j], MLPSizes)
    /\ episode[a][j] = "playing" => tick[a][j] < MaxTicks /\ deathTick[a][j][1] = -1
    /\ episode[a][j] = "done" =>
          tick[a][j] = IF deathTick[a][j][1] = -1 THEN MaxTicks ELSE deathTick[a][j][1]

\* A request that is not being handled has no episodes; later attempts are not made yet.
RequestSound(a) ==
    /\ handler[a] # "running" => \A j \in Job : episode[a][j] = "none"
    /\ a > attempt => handler[a] = "none"

AInv ==
    /\ TypeOK /\ GaugeExact /\ AnswerWhole
    /\ \A a \in Attempt : RequestSound(a) /\ \A j \in Job : EpisodeSound(a, j)

-----------------------------------------------------------------------------
(* Counting.                                                               *)

LEMMA ArenaConstants ==
  ASSUME ArenaAssumption
  PROVE  /\ NumJobs \in Nat /\ NumTanks \in Nat /\ Workers \in Nat
         /\ MaxAttempts \in Nat /\ MaxTicks \in Nat /\ MaxRestarts \in Nat
         /\ NumJobs > 0 /\ NumTanks > 0 /\ Workers > 0 /\ MaxAttempts > 0 /\ MaxTicks > 0
BY DEF ArenaAssumption

LEMMA UnfinishedFinite ==
  ASSUME ArenaAssumption
  PROVE  IsFiniteSet(Unfinished) /\ Cardinality(Unfinished) \in Nat
<1>1. IsFiniteSet(Attempt) /\ IsFiniteSet(Job)
  <2>1. 1 \in Int /\ NumJobs \in Int /\ MaxAttempts \in Int
    BY ArenaConstants
  <2>2. QED
    BY <2>1, FS_Interval DEF Attempt, Job
<1>2. IsFiniteSet(Attempt \X Job)
  BY <1>1, FS_Product
<1>3. Unfinished \in SUBSET (Attempt \X Job)
  BY DEF Unfinished
<1>4. IsFiniteSet(Unfinished)
  BY <1>2, <1>3, FS_Subset
<1>5. QED
  BY <1>4, FS_CardinalityType

\* One episode changes its state: how many are unfinished.
LEMMA OneEpisode ==
  ASSUME ArenaAssumption, TypeOK, NEW a \in Attempt, NEW j \in Job, NEW s,
         episode' = [episode EXCEPT ![a][j] = s],
         s \in {"none", "queued", "playing", "doomed", "done", "failed"}
  PROVE  LET before == episode[a][j] \in {"playing", "doomed"}
             after  == s \in {"playing", "doomed"}
         IN  /\ (before <=> after) => Unfinished' = Unfinished
             /\ before /\ ~after => Cardinality(Unfinished)' = Cardinality(Unfinished) - 1
             /\ ~before /\ after => Cardinality(Unfinished)' = Cardinality(Unfinished) + 1
<1> DEFINE before == episode[a][j] \in {"playing", "doomed"}
           after  == s \in {"playing", "doomed"}
<1>1. \A b \in Attempt, k \in Job :
        episode'[b][k] = IF b = a /\ k = j THEN s ELSE episode[b][k]
  BY DEF TypeOK
<1>2. CASE before <=> after
  BY <1>1, <1>2 DEF Unfinished
<1>3. CASE before /\ ~after
  <2>1. Unfinished' = Unfinished \ {<<a, j>>} /\ <<a, j>> \in Unfinished
    BY <1>1, <1>3 DEF Unfinished
  <2>2. Cardinality(Unfinished') = Cardinality(Unfinished) - 1
    BY <2>1, UnfinishedFinite, FS_RemoveElement
  <2>3. QED
    BY <2>2, <1>3
<1>4. CASE ~before /\ after
  <2>1. Unfinished' = Unfinished \cup {<<a, j>>} /\ <<a, j>> \notin Unfinished
    BY <1>1, <1>4 DEF Unfinished
  <2>2. Cardinality(Unfinished') = Cardinality(Unfinished) + 1
    BY <2>1, UnfinishedFinite, FS_AddElement
  <2>3. QED
    BY <2>2, <1>4
<1>5. QED
  BY <1>2, <1>3, <1>4

-----------------------------------------------------------------------------
(* The invariant.                                                          *)

LEMMA InitAInv ==
  ASSUME ArenaAssumption, Init
  PROVE  AInv
<1>1. TypeOK
  BY ArenaConstants DEF Init, ServerInit, TypeOK, Fresh, Idle, Attempt, Job, TankNo
<1>2. Unfinished = {}
  BY DEF Init, ServerInit, Fresh, Idle, Unfinished
<1>3. Cardinality({}) = 0
  BY FS_EmptySet
<1>4. GaugeExact
  BY <1>2, <1>3 DEF GaugeExact, Init, ServerInit
<1>5. AnswerWhole /\ \A a \in Attempt : RequestSound(a)
  BY DEF AnswerWhole, RequestSound, Init, ServerInit, Fresh, Idle
<1>6. ASSUME NEW a \in Attempt, NEW j \in Job
      PROVE  EpisodeSound(a, j)
  BY DEF EpisodeSound, Init, ServerInit, Fresh, Idle
<1>7. QED
  BY <1>1, <1>4, <1>5, <1>6 DEF AInv

\* Who is unfinished stays: so does the gauge.
LEMMA SameGauge ==
  ASSUME GaugeExact, UNCHANGED inflight, Unfinished' = Unfinished
  PROVE  GaugeExact'
BY DEF GaugeExact

LEMMA PostAInv ==
  ASSUME ArenaAssumption, AInv, Post
  PROVE  AInv'
<1> DEFINE next == attempt + 1
<1>1. next \in Attempt /\ attempt \in Int
  BY DEF ArenaAssumption, AInv, TypeOK, Post, Attempt
<1>2. \A j \in Job : episode[next][j] = "none"
  BY <1>1 DEF AInv, RequestSound
<1>3. /\ \A a \in Attempt, j \in Job :
            episode'[a][j] = IF a = next THEN "queued" ELSE episode[a][j]
      /\ \A a \in Attempt : handler'[a] = IF a = next THEN "running" ELSE handler[a]
  BY <1>1 DEF AInv, TypeOK, Post, Idle
<1>4. TypeOK'
  <2>1. next \in 0 .. MaxAttempts
    BY <1>1, ArenaConstants DEF Attempt
  <2>2. handler' \in [Attempt -> {"none", "running", "replied"}]
    BY <1>1 DEF AInv, TypeOK, Post
  <2>3. Idle("queued") \in [Job -> {"none", "queued", "playing", "doomed", "done", "failed"}]
    BY DEF Idle
  <2>4. episode' \in [Attempt -> [Job -> {"none", "queued", "playing", "doomed", "done", "failed"}]]
    BY <1>1, <2>3 DEF AInv, TypeOK, Post
  <2>5. QED
    BY <2>1, <2>2, <2>4 DEF AInv, TypeOK, Post
<1>5. Unfinished' = Unfinished
  BY <1>2, <1>3 DEF Unfinished
<1>7. GaugeExact'
  BY <1>5, SameGauge DEF AInv, Post
<1>8. AnswerWhole'
  BY DEF AnswerWhole, Post
<1>9. ASSUME NEW a \in Attempt
      PROVE  RequestSound(a)'
  BY <1>1, <1>3 DEF RequestSound, AInv, Post, Attempt, ArenaAssumption
<1>10. ASSUME NEW a \in Attempt, NEW j \in Job
       PROVE  EpisodeSound(a, j)'
  BY <1>2, <1>3 DEF EpisodeSound, AInv, Post
<1>11. QED
  BY <1>4, <1>7, <1>8, <1>9, <1>10 DEF AInv

LEMMA TimeoutAInv ==
  ASSUME ArenaAssumption, AInv, Timeout
  PROVE  AInv'
<1>1. TypeOK'
  BY DEF AInv, TypeOK, Timeout, AfterFailure, serverVars
<1>2. Unfinished' = Unfinished
  BY DEF Timeout, serverVars, Unfinished
<1>3. GaugeExact'
  BY <1>2, SameGauge DEF AInv, Timeout, serverVars
<1>4. AnswerWhole'
  BY DEF AnswerWhole, Timeout, AfterFailure
<1>5. ASSUME NEW a \in Attempt
      PROVE  RequestSound(a)' /\ \A j \in Job : EpisodeSound(a, j)'
  BY DEF RequestSound, EpisodeSound, AInv, Timeout, serverVars
<1>6. QED
  BY <1>1, <1>3, <1>4, <1>5 DEF AInv

LEMMA RestartAInv ==
  ASSUME ArenaAssumption, AInv, Restart
  PROVE  AInv'
<1>1. TypeOK'
  BY ArenaConstants DEF AInv, TypeOK, Restart, AfterFailure, Fresh, Idle, Attempt, Job, TankNo
<1>2. Unfinished' = {}
  BY DEF Restart, Fresh, Idle, Unfinished
<1>3. Cardinality({}) = 0
  BY FS_EmptySet
<1>4. GaugeExact'
  BY <1>2, <1>3 DEF GaugeExact, Restart
<1>5. AnswerWhole'
  BY DEF AnswerWhole, AInv, Restart, AfterFailure
<1>6. ASSUME NEW a \in Attempt
      PROVE  RequestSound(a)' /\ \A j \in Job : EpisodeSound(a, j)'
  BY DEF RequestSound, EpisodeSound, Restart, Fresh, Idle
<1>7. QED
  BY <1>1, <1>4, <1>5, <1>6 DEF AInv

LEMMA BeginAInv ==
  ASSUME ArenaAssumption, AInv, NEW a \in Attempt, NEW j \in Job, Begin(a, j)
  PROVE  AInv'
<1> DEFINE s == IF weights[j].bytes = 0 THEN "failed"
                ELSE IF Decodes(weights[j], MLPSizes) THEN "playing" ELSE "doomed"
<1>1. episode' = [episode EXCEPT ![a][j] = s] /\ episode[a][j] = "queued"
  BY DEF Begin
<1>2. s \in {"failed", "playing", "doomed"}
  OBVIOUS
<1>3. \A b \in Attempt, k \in Job :
        episode'[b][k] = IF b = a /\ k = j THEN s ELSE episode[b][k]
  BY <1>1 DEF AInv, TypeOK
<1>4. inflight \in Int /\ inflight' = IF s = "failed" THEN inflight ELSE inflight + 1
  BY DEF Begin, AInv, TypeOK
<1>5. TypeOK'
  <2>1. inflight' \in Int
    BY <1>4
  <2>2. episode' \in [Attempt -> [Job -> {"none", "queued", "playing", "doomed", "done", "failed"}]]
    BY <1>1, <1>2 DEF AInv, TypeOK
  <2>3. QED
    BY <2>1, <2>2 DEF AInv, TypeOK, Begin
<1>6. GaugeExact'
  <2>1. CASE s = "failed"
    <3>1. Unfinished' = Unfinished
      BY <1>1, <1>2, <2>1, OneEpisode DEF AInv
    <3>2. QED
      BY <3>1, <2>1, <1>4, SameGauge DEF AInv
  <2>2. CASE s # "failed"
    <3>1. Cardinality(Unfinished)' = Cardinality(Unfinished) + 1
      BY <1>1, <1>2, <2>2, OneEpisode DEF AInv
    <3>2. QED
      BY <3>1, <2>2, <1>4 DEF GaugeExact, AInv
  <2>3. QED
    BY <2>1, <2>2
<1>7. AnswerWhole'
  BY DEF AnswerWhole, AInv, Begin
<1>8. ASSUME NEW b \in Attempt
      PROVE  RequestSound(b)'
  <2>1. handler[a] = "running"
    BY <1>1 DEF AInv, RequestSound
  <2>2. QED
    BY <2>1, <1>3 DEF AInv, RequestSound, Begin
<1>9. ASSUME NEW b \in Attempt, NEW k \in Job
      PROVE  EpisodeSound(b, k)'
  <2>1. CASE b = a /\ k = j
    <3>1. weights[j].bytes \in Nat
      BY DEF AInv, TypeOK, ArenaAssumption
    <3>2. tick[a][j] = 0 /\ \A i \in TankNo : deathTick[a][j][i] = -1
      BY <1>1 DEF AInv, EpisodeSound
    <3>3. 1 \in TankNo /\ MaxTicks \in Nat \ {0}
      BY DEF ArenaAssumption, TankNo
    <3>4. episode'[a][j] = s /\ UNCHANGED <<tick, deathTick, weights>>
      BY <1>3 DEF Begin
    <3>5. s = "playing" => weights[j].bytes > 0 /\ Decodes(weights[j], MLPSizes)
      BY <3>1
    <3>6. QED
      BY <3>2, <3>3, <3>4, <3>5, <1>2, <2>1 DEF EpisodeSound
  <2>2. CASE ~(b = a /\ k = j)
    BY <2>2, <1>3 DEF AInv, EpisodeSound, Begin
  <2>3. QED
    BY <2>1, <2>2
<1>10. QED
  BY <1>5, <1>6, <1>7, <1>8, <1>9 DEF AInv

LEMMA AbortAInv ==
  ASSUME ArenaAssumption, AInv, NEW a \in Attempt, NEW j \in Job, Abort(a, j)
  PROVE  AInv'
<1>1. episode' = [episode EXCEPT ![a][j] = "failed"] /\ episode[a][j] = "doomed"
  BY DEF Abort
<1>2. \A b \in Attempt, k \in Job :
        episode'[b][k] = IF b = a /\ k = j THEN "failed" ELSE episode[b][k]
  BY <1>1 DEF AInv, TypeOK
<1>3. TypeOK'
  BY <1>1 DEF AInv, TypeOK, Abort, Uncounted
<1> DEFINE s == "failed"
<1>0. /\ episode' = [episode EXCEPT ![a][j] = s]
      /\ s \in {"none", "queued", "playing", "doomed", "done", "failed"}
      /\ s \notin {"playing", "doomed"}
  BY <1>1
<1> HIDE DEF s
<1>4. Cardinality(Unfinished)' = Cardinality(Unfinished) - 1
  BY <1>0, <1>1, OneEpisode DEF AInv
<1>5. GaugeExact'
  BY <1>4 DEF GaugeExact, AInv, Abort, Uncounted
<1>7. AnswerWhole'
  BY DEF AnswerWhole, AInv, Abort
<1>8. ASSUME NEW b \in Attempt
      PROVE  RequestSound(b)' /\ \A k \in Job : EpisodeSound(b, k)'
  <2>1. handler[a] = "running"
    BY <1>1 DEF AInv, RequestSound
  <2>2. RequestSound(b)'
    BY <2>1, <1>2 DEF AInv, RequestSound, Abort
  <2>3. ASSUME NEW k \in Job
        PROVE  EpisodeSound(b, k)'
    BY <1>2 DEF AInv, EpisodeSound, Abort
  <2>4. QED
    BY <2>2, <2>3
<1>9. QED
  BY <1>3, <1>5, <1>7, <1>8 DEF AInv

LEMMA PlayTickAInv ==
  ASSUME ArenaAssumption, AInv, NEW a \in Attempt, NEW j \in Job, PlayTick(a, j)
  PROVE  AInv'
<1>1. PICK dead \in SUBSET TankNo :
        LET deaths == Deaths(a, j, dead)
            over == Over(a, j, deaths)
        IN  /\ deathTick' = [deathTick EXCEPT ![a][j] = deaths]
            /\ episode' = [episode EXCEPT ![a][j] = IF over THEN "done" ELSE @]
            /\ inflight' = IF over THEN Uncounted ELSE inflight
  BY DEF PlayTick
<1> DEFINE deaths == Deaths(a, j, dead)
           over == Over(a, j, deaths)
           t == tick[a][j]
           s == IF over THEN "done" ELSE "playing"
<1>2. /\ episode[a][j] = "playing" /\ handler[a] = "running"
      /\ deathTick[a][j][1] = -1 /\ t \in Nat /\ t < MaxTicks
      /\ weights[j].bytes > 0 /\ Decodes(weights[j], MLPSizes)
      /\ 1 \in TankNo
  BY ArenaConstants DEF PlayTick, AInv, TypeOK, RequestSound, EpisodeSound, TankNo
<1>3. deaths \in [TankNo -> {-1} \cup 1 .. MaxTicks]
  <2>1. deathTick[a][j] \in [TankNo -> {-1} \cup 1 .. MaxTicks]
    BY DEF AInv, TypeOK
  <2>2. t + 1 \in 1 .. MaxTicks
    <3>1. t \in Nat /\ MaxTicks \in Nat /\ t < MaxTicks
      BY <1>2, ArenaConstants
    <3> HIDE DEF t
    <3>2. QED
      BY <3>1
  <2>3. QED
    BY <2>1, <2>2 DEF Deaths
<1>4. \A i \in TankNo : deaths[i] = -1 \/ deaths[i] \in 1 .. t + 1
  <2>1. \A i \in TankNo : deathTick[a][j][i] = -1 \/ deathTick[a][j][i] \in 1 .. t
    BY DEF AInv, EpisodeSound
  <2>2. \A n \in 1 .. t : n \in 1 .. t + 1
    BY <1>2
  <2>3. t + 1 \in 1 .. t + 1
    BY <1>2
  <2>4. QED
    BY <2>1, <2>2, <2>3 DEF Deaths
<1>5. deaths[1] = -1 \/ deaths[1] = t + 1
  BY <1>2 DEF Deaths
<1>6. /\ over => t + 1 = IF deaths[1] = -1 THEN MaxTicks ELSE deaths[1]
      /\ ~over => t + 1 < MaxTicks /\ deaths[1] = -1
  BY <1>2, <1>5, ArenaConstants DEF Over
<1>7. /\ episode' = [episode EXCEPT ![a][j] = s]
      /\ deathTick' = [deathTick EXCEPT ![a][j] = deaths]
      /\ inflight' = IF over THEN inflight - 1 ELSE inflight
  BY <1>1, <1>2 DEF Uncounted
<1>8. tick' = [tick EXCEPT ![a][j] = t + 1]
  BY DEF PlayTick
<1>9. s \in {"playing", "done"} /\ (s = "done" <=> over)
  OBVIOUS
<1>10. \A b \in Attempt, k \in Job :
         /\ episode'[b][k] = IF b = a /\ k = j THEN s ELSE episode[b][k]
         /\ deathTick'[b][k] = IF b = a /\ k = j THEN deaths ELSE deathTick[b][k]
         /\ tick'[b][k] = IF b = a /\ k = j THEN t + 1 ELSE tick[b][k]
  BY <1>7, <1>8 DEF AInv, TypeOK
<1> HIDE DEF deaths, over, t, s
<1>11. TypeOK'
  <2>1. episode' \in [Attempt -> [Job -> {"none", "queued", "playing", "doomed", "done", "failed"}]]
    BY <1>7, <1>9 DEF AInv, TypeOK
  <2>2. t + 1 \in 0 .. MaxTicks
    BY <1>2, ArenaConstants
  <2>3. tick' \in [Attempt -> [Job -> 0 .. MaxTicks]]
    BY <2>2, <1>8 DEF AInv, TypeOK
  <2>4. deathTick' \in [Attempt -> [Job -> [TankNo -> {-1} \cup 1 .. MaxTicks]]]
    BY <1>3, <1>7 DEF AInv, TypeOK
  <2>5. inflight' \in Int
    BY <1>7 DEF AInv, TypeOK
  <2>6. QED
    BY <2>1, <2>3, <2>4, <2>5 DEF AInv, TypeOK, PlayTick
<1>12. GaugeExact'
  <2>1. s \in {"none", "queued", "playing", "doomed", "done", "failed"}
    BY <1>9
  <2>2. CASE over
    <3>1. s \notin {"playing", "doomed"}
      BY <1>9, <2>2
    <3>2. Cardinality(Unfinished)' = Cardinality(Unfinished) - 1
      BY <1>2, <1>7, <2>1, <3>1, OneEpisode DEF AInv
    <3>3. QED
      BY <3>2, <2>2, <1>7 DEF GaugeExact, AInv
  <2>3. CASE ~over
    <3>1. s \in {"playing", "doomed"}
      BY <1>9, <2>3
    <3>2. Unfinished' = Unfinished
      BY <1>2, <1>7, <2>1, <3>1, OneEpisode DEF AInv
    <3>3. QED
      BY <3>2, <2>3, <1>7, SameGauge DEF AInv
  <2>4. QED
    BY <2>2, <2>3
<1>13. AnswerWhole'
  BY DEF AnswerWhole, AInv, PlayTick
<1>14. ASSUME NEW b \in Attempt
       PROVE  RequestSound(b)'
  BY <1>2, <1>10 DEF AInv, RequestSound, PlayTick
<1>15. ASSUME NEW b \in Attempt, NEW k \in Job
       PROVE  EpisodeSound(b, k)'
  <2>1. CASE b = a /\ k = j
    <3>1. episode'[a][j] = s /\ deathTick'[a][j] = deaths /\ tick'[a][j] = t + 1
      BY <1>10
    <3>2. UNCHANGED weights
      BY DEF PlayTick
    <3>3. QED
      BY <3>1, <3>2, <2>1, <1>2, <1>4, <1>6, <1>9 DEF EpisodeSound
  <2>2. CASE ~(b = a /\ k = j)
    BY <2>2, <1>10 DEF AInv, EpisodeSound, PlayTick
  <2>3. QED
    BY <2>1, <2>2
<1>16. QED
  BY <1>11, <1>12, <1>13, <1>14, <1>15 DEF AInv

LEMMA ReplyAInv ==
  ASSUME ArenaAssumption, AInv, NEW a \in Attempt, Reply(a)
  PROVE  AInv'
<1> DEFINE none == [i \in TankNo |-> -1]
<1>1. \A j \in Job : episode[a][j] \in {"done", "failed"}
  BY DEF Reply, WaitOver, Returned
<1>2. \A b \in Attempt, k \in Job :
        /\ episode'[b][k] = IF b = a THEN "none" ELSE episode[b][k]
        /\ deathTick'[b][k] = IF b = a THEN none ELSE deathTick[b][k]
        /\ tick'[b][k] = IF b = a THEN 0 ELSE tick[b][k]
  BY DEF AInv, TypeOK, Reply, Idle
<1>3. \A j \in Job : Outcome(a, j) \in [ticks : 0 .. MaxTicks, deaths : [TankNo -> {-1} \cup 1 .. MaxTicks]]
  BY DEF Outcome, AInv, TypeOK
<1>4. TypeOK'
  <2>1. none \in [TankNo -> {-1} \cup 1 .. MaxTicks] /\ 0 \in 0 .. MaxTicks
    BY ArenaConstants
  <2>2. /\ Idle("none") \in [Job -> {"none", "queued", "playing", "doomed", "done", "failed"}]
        /\ Idle(0) \in [Job -> 0 .. MaxTicks]
        /\ Idle(none) \in [Job -> [TankNo -> {-1} \cup 1 .. MaxTicks]]
    BY <2>1 DEF Idle
  <2>3. /\ episode' \in [Attempt -> [Job -> {"none", "queued", "playing", "doomed", "done", "failed"}]]
        /\ tick' \in [Attempt -> [Job -> 0 .. MaxTicks]]
        /\ deathTick' \in [Attempt -> [Job -> [TankNo -> {-1} \cup 1 .. MaxTicks]]]
    BY <2>2 DEF AInv, TypeOK, Reply
  <2>4. handler' \in [Attempt -> {"none", "running", "replied"}]
    BY DEF AInv, TypeOK, Reply
  <2>5. trainer' \in {"waiting", "backoff", "served", "gaveUp"}
    BY DEF AInv, TypeOK, Reply, AfterFailure
  <2>6. \/ answer' = <<>>
        \/ answer' \in [Job -> [ticks : 0 .. MaxTicks, deaths : [TankNo -> {-1} \cup 1 .. MaxTicks]]]
    BY <1>3 DEF AInv, TypeOK, Reply
  <2>7. QED
    BY <2>3, <2>4, <2>5, <2>6 DEF AInv, TypeOK, Reply
<1>5. Unfinished' = Unfinished
  BY <1>1, <1>2 DEF Unfinished
<1>7. GaugeExact'
  BY <1>5, SameGauge DEF AInv, Reply
<1>8. AnswerWhole'
  <2>1. CASE trainer = "waiting" /\ attempt = a /\ \A j \in Job : episode[a][j] # "failed"
    <3>1. answer' = [j \in Job |-> Outcome(a, j)]
      BY <2>1 DEF Reply
    <3>2. ASSUME NEW j \in Job
          PROVE  /\ weights[j].bytes > 0 /\ Decodes(weights[j], MLPSizes)
                 /\ answer'[j].ticks =
                      IF answer'[j].deaths[1] = -1 THEN MaxTicks ELSE answer'[j].deaths[1]
                 /\ \A i \in TankNo : \/ answer'[j].deaths[i] = -1
                                      \/ answer'[j].deaths[i] \in 1 .. answer'[j].ticks
      <4>1. episode[a][j] = "done"
        BY <1>1, <2>1
      <4>2. answer'[j].ticks = tick[a][j] /\ answer'[j].deaths = deathTick[a][j]
        BY <3>1 DEF Outcome
      <4>3. QED
        BY <4>1, <4>2 DEF AInv, EpisodeSound
    <3>3. UNCHANGED weights
      BY DEF Reply
    <3>4. QED
      BY <3>2, <3>3 DEF AnswerWhole
  <2>2. CASE ~(trainer = "waiting" /\ attempt = a /\ \A j \in Job : episode[a][j] # "failed")
    BY <2>2 DEF AInv, AnswerWhole, Reply, AfterFailure
  <2>3. QED
    BY <2>1, <2>2
<1>9. ASSUME NEW b \in Attempt
      PROVE  RequestSound(b)'
  BY <1>2, <1>1 DEF AInv, RequestSound, Reply, TypeOK
<1>10. ASSUME NEW b \in Attempt, NEW k \in Job
       PROVE  EpisodeSound(b, k)'
  <2>1. CASE b = a
    <3>1. episode'[b][k] = "none" /\ tick'[b][k] = 0 /\ \A i \in TankNo : deathTick'[b][k][i] = -1
      BY <1>2, <2>1
    <3>2. QED
      BY <3>1 DEF EpisodeSound
  <2>2. CASE b # a
    <3>1. /\ episode'[b][k] = episode[b][k] /\ tick'[b][k] = tick[b][k]
          /\ deathTick'[b][k] = deathTick[b][k] /\ UNCHANGED weights
      BY <1>2, <2>2 DEF Reply
    <3>2. QED
      BY <3>1 DEF AInv, EpisodeSound
  <2>3. QED
    BY <2>1, <2>2
<1>11. QED
  BY <1>4, <1>7, <1>8, <1>9, <1>10 DEF AInv

LEMMA NextAInv ==
  ASSUME ArenaAssumption, AInv, [Next]_vars
  PROVE  AInv'
<1>1. CASE UNCHANGED vars
  BY <1>1 DEF AInv, TypeOK, GaugeExact, AnswerWhole, RequestSound, EpisodeSound,
              Unfinished, vars, serverVars
<1>2. CASE Post
  BY <1>2, PostAInv
<1>3. CASE Timeout
  BY <1>3, TimeoutAInv
<1>4. CASE Restart
  BY <1>4, RestartAInv
<1>5. CASE \E a \in Attempt : Serve(a)
  BY <1>5, BeginAInv, AbortAInv, PlayTickAInv, ReplyAInv DEF Serve
<1>6. QED
  BY <1>1, <1>2, <1>3, <1>4, <1>5 DEF Next

-----------------------------------------------------------------------------
(* Which weights a network reads.                                          *)

\* The least-number principle.
LEMMA LeastNumber ==
  ASSUME NEW S \in SUBSET Nat, S # {}
  PROVE  \E m \in S : \A k \in S : m <= k
<1>1. PICK m \in S : \A k \in S : <<k, m>> \notin OpToRel(<, Nat)
  BY WFMin, NatLessThanWellFounded, Zenon
<1>2. \A k \in S : ~ (k < m)
  BY <1>1, Zenon DEF OpToRel
<1>3. \A k \in S : m <= k
  BY <1>2, SMT
<1>4. QED
  BY <1>3

\* The function Idx is built on, up to the n-th layer.
IsIdx(idx, sizes, n) ==
    idx = [l \in 1 .. n |-> IF l = 1 THEN 0 ELSE idx[l - 1] + LayerCount(sizes, l - 1)]

LEMMA IdxExists ==
  ASSUME NEW sizes, NEW n \in Nat
  PROVE  \E idx : IsIdx(idx, sizes, n)
<1> DEFINE Bad == {m \in Nat : ~ \E idx : IsIdx(idx, sizes, m)}
<1>1. SUFFICES ASSUME Bad # {} PROVE FALSE
  OBVIOUS
<1>2. PICK m \in Bad : \A k \in Bad : m <= k
  BY <1>1, LeastNumber
<1>3. CASE m = 0
  <2>1. IsIdx([l \in 1 .. 0 |-> 0], sizes, 0)
    BY DEF IsIdx
  <2>2. QED
    BY <1>2, <1>3, <2>1
<1>4. CASE m # 0
  <2>1. m - 1 \in Nat /\ m - 1 \notin Bad
    BY <1>2, <1>4
  <2>2. PICK before : IsIdx(before, sizes, m - 1)
    BY <2>1
  <2> DEFINE value(l) == IF l = 1 THEN 0 ELSE before[l - 1] + LayerCount(sizes, l - 1)
             idx == [l \in 1 .. m |-> value(l)]
  <2>3. ASSUME NEW l \in 1 .. m
        PROVE  idx[l] = IF l = 1 THEN 0 ELSE idx[l - 1] + LayerCount(sizes, l - 1)
    <3>1. CASE l = 1
      BY <3>1
    <3>2. CASE l # 1
      <4>1. l - 1 \in 1 .. m - 1 /\ l - 1 \in 1 .. m
        BY <1>2, <3>2
      <4>2. before[l - 1] = value(l - 1)
        BY <2>2, <4>1 DEF IsIdx
      <4>3. idx[l - 1] = value(l - 1) /\ idx[l] = value(l)
        BY <4>1
      <4>4. QED
        BY <3>2, <4>2, <4>3
    <3>3. QED
      BY <3>1, <3>2
  <2>4. idx = [l \in 1 .. m |-> idx[l]]
    OBVIOUS
  <2> HIDE DEF idx
  <2>5. IsIdx(idx, sizes, m)
    BY <2>3, <2>4 DEF IsIdx
  <2>6. QED
    BY <1>2, <2>5
<1>5. QED
  BY <1>3, <1>4

LEMMA LayerFacts ==
  ASSUME NEW sizes \in Seq(Nat), NEW l \in 1 .. Len(sizes) - 1
  PROVE  /\ sizes[l] \in Nat /\ sizes[l + 1] \in Nat /\ l + 1 \in 1 .. Len(sizes)
         /\ sizes[l] * sizes[l + 1] \in Nat /\ LayerCount(sizes, l) \in Nat
<1>1. sizes[l] \in Nat /\ sizes[l + 1] \in Nat /\ l + 1 \in 1 .. Len(sizes)
  OBVIOUS
<1>2. \A a, b \in Nat : a * b \in Nat /\ a * b + b \in Nat
  OBVIOUS
<1>3. QED
  BY <1>1, <1>2 DEF LayerCount

\* Layers lie one behind the other.
LEMMA IdxFacts ==
  ASSUME NEW sizes \in Seq(Nat), Len(sizes) >= 2
  PROVE  /\ Idx(sizes)[1] = 0
         /\ \A l \in 1 .. Len(sizes) - 1 : Idx(sizes)[l + 1] = Idx(sizes)[l] + LayerCount(sizes, l)
         /\ \A l \in 1 .. Len(sizes) : Idx(sizes)[l] \in Nat
         /\ \A k, l \in 1 .. Len(sizes) : k <= l => Idx(sizes)[k] <= Idx(sizes)[l]
<1> DEFINE n == Len(sizes)
           idx == Idx(sizes)
<1>1. n \in Nat /\ n >= 2
  OBVIOUS
<1>2. idx = CHOOSE f : IsIdx(f, sizes, n)
  BY DEF Idx, IsIdx
<1>3. IsIdx(idx, sizes, n)
  BY <1>1, <1>2, IdxExists
<1>4. ASSUME NEW l \in 1 .. n - 1
      PROVE  LayerCount(sizes, l) \in Nat /\ l + 1 \in 1 .. n /\ l \in 1 .. n
  BY <1>1, LayerFacts
<1> HIDE DEF idx, n
<1>5. \A l \in 1 .. n : idx[l] = IF l = 1 THEN 0 ELSE idx[l - 1] + LayerCount(sizes, l - 1)
  BY <1>3 DEF IsIdx
<1>6. idx[1] = 0
  BY <1>1, <1>5
<1>7. ASSUME NEW l \in 1 .. n - 1
      PROVE  idx[l + 1] = idx[l] + LayerCount(sizes, l)
  <2>1. l + 1 \in 1 .. n /\ l + 1 # 1 /\ (l + 1) - 1 = l
    BY <1>1
  <2>2. QED
    BY <1>5, <2>1
<1>8. \A l \in 1 .. n : idx[l] \in Nat
  <2> DEFINE Bad == {l \in 1 .. n : idx[l] \notin Nat}
  <2>1. SUFFICES ASSUME Bad # {} PROVE FALSE
    OBVIOUS
  <2>2. Bad \in SUBSET Nat
    BY <1>1
  <2>3. PICK m \in Bad : \A k \in Bad : m <= k
    BY <2>1, <2>2, LeastNumber
  <2>4. m \in 1 .. n /\ idx[m] \notin Nat /\ m # 1
    BY <1>6
  <2>5. m - 1 \in 1 .. n - 1 /\ m - 1 \in 1 .. n /\ (m - 1) + 1 = m /\ ~ (m <= m - 1)
    BY <1>1, <2>4
  <2>6. idx[m - 1] \in Nat
    BY <2>3, <2>5
  <2>7. idx[m] = idx[m - 1] + LayerCount(sizes, m - 1) /\ LayerCount(sizes, m - 1) \in Nat
    BY <1>4, <1>7, <2>5
  <2>8. QED
    BY <2>4, <2>6, <2>7
<1>9. ASSUME NEW k \in 1 .. n
      PROVE  \A l \in 1 .. n : k <= l => idx[k] <= idx[l]
  <2> DEFINE Bad == {l \in 1 .. n : k <= l /\ ~ (idx[k] <= idx[l])}
  <2>1. SUFFICES ASSUME Bad # {} PROVE FALSE
    OBVIOUS
  <2>2. Bad \in SUBSET Nat
    BY <1>1
  <2>3. PICK m \in Bad : \A l \in Bad : m <= l
    BY <2>1, <2>2, LeastNumber
  <2>4. m \in 1 .. n /\ k <= m /\ ~ (idx[k] <= idx[m]) /\ idx[k] \in Nat /\ idx[m] \in Nat
    BY <1>8, <2>3
  <2>5. m # k
    BY <2>4
  <2>6. m - 1 \in 1 .. n - 1 /\ m - 1 \in 1 .. n /\ (m - 1) + 1 = m /\ ~ (m <= m - 1) /\ k <= m - 1
    BY <1>1, <2>4, <2>5
  <2>7. idx[k] <= idx[m - 1] /\ idx[m - 1] \in Nat
    BY <1>8, <2>3, <2>6
  <2>8. idx[m] = idx[m - 1] + LayerCount(sizes, m - 1) /\ LayerCount(sizes, m - 1) \in Nat
    BY <1>4, <1>7, <2>6
  <2>9. QED
    BY <2>4, <2>7, <2>8
<1>10. QED
  BY <1>6, <1>7, <1>8, <1>9 DEF idx, n

\* A position lies in one layer.
LEMMA InOneLayer ==
  ASSUME NEW sizes \in Seq(Nat), Len(sizes) >= 2, NEW p \in 0 .. ParamCount(sizes) - 1
  PROVE  \E l \in 1 .. Len(sizes) - 1 : Idx(sizes)[l] <= p /\ p < Idx(sizes)[l + 1]
<1> DEFINE n == Len(sizes)
           idx == Idx(sizes)
<1>1. /\ n \in Nat /\ n >= 2 /\ idx[1] = 0 /\ \A l \in 1 .. n : idx[l] \in Nat
      /\ p \in 0 .. idx[n] - 1
  BY IdxFacts DEF ParamCount
<1> HIDE DEF n, idx
<1> DEFINE Beyond == {l \in 1 .. n : p < idx[l]}
<1>2. n \in Beyond /\ Beyond \in SUBSET Nat
  BY <1>1
<1>3. PICK m \in Beyond : \A k \in Beyond : m <= k
  BY <1>2, LeastNumber
<1>4. m \in 1 .. n /\ p < idx[m] /\ m # 1
  BY <1>1, <1>3
<1>5. m - 1 \in 1 .. n - 1 /\ m - 1 \in 1 .. n /\ (m - 1) + 1 = m /\ ~ (m <= m - 1)
  BY <1>1, <1>4
<1>6. ~ (p < idx[m - 1])
  BY <1>3, <1>5
<1>7. idx[m - 1] <= p
  BY <1>1, <1>5, <1>6
<1>8. QED
  BY <1>4, <1>5, <1>7 DEF n, idx

\* Rows of a, one after the other.
LEMMA RowArithmetic ==
  ASSUME NEW a \in Nat, NEW b \in Nat
  PROVE  /\ \A j \in 0 .. b - 1, i \in 0 .. a - 1 : j * a + i \in 0 .. a * b - 1
         /\ \A j, k \in 0 .. b - 1, i, h \in 0 .. a - 1 : j * a + i = k * a + h => j = k /\ i = h
         /\ \A q \in 0 .. a * b - 1 : \E j \in 0 .. b - 1, i \in 0 .. a - 1 : q = j * a + i
<1>1. ASSUME NEW j \in Nat, NEW k \in Nat, j < k
      PROVE  j * a + a <= k * a /\ j * a \in Nat /\ k * a \in Nat
  <2>1. PICK d \in Nat : k = j + 1 + d
    <3>1. k - j - 1 \in Nat /\ k = j + 1 + (k - j - 1)
      BY <1>1
    <3>2. QED
      BY <3>1
  <2>2. (j + 1 + d) * a = j * a + a + d * a /\ d * a \in Nat /\ j * a \in Nat /\ (j + 1 + d) * a \in Nat
    OBVIOUS
  <2>3. QED
    BY <2>1, <2>2
<1>2. ASSUME NEW j \in 0 .. b - 1, NEW i \in 0 .. a - 1
      PROVE  j * a + i \in 0 .. a * b - 1
  <2>1. j * a + a <= b * a /\ j * a \in Nat /\ b * a = a * b /\ b * a \in Nat
    BY <1>1
  <2>2. QED
    BY <2>1
<1>3. ASSUME NEW j \in 0 .. b - 1, NEW k \in 0 .. b - 1, NEW i \in 0 .. a - 1, NEW h \in 0 .. a - 1,
             j * a + i = k * a + h
      PROVE  j = k /\ i = h
  <2>1. ~ (j < k)
    <3> SUFFICES ASSUME j < k PROVE FALSE
      OBVIOUS
    <3>1. j * a + a <= k * a /\ j * a \in Nat /\ k * a \in Nat
      BY <1>1
    <3>2. QED
      BY <1>3, <3>1
  <2>2. ~ (k < j)
    <3> SUFFICES ASSUME k < j PROVE FALSE
      OBVIOUS
    <3>1. k * a + a <= j * a /\ j * a \in Nat /\ k * a \in Nat
      BY <1>1
    <3>2. QED
      BY <1>3, <3>1
  <2>3. j = k
    BY <2>1, <2>2
  <2>4. j * a \in Nat
    OBVIOUS
  <2>5. QED
    BY <1>3, <2>3, <2>4
<1>4. ASSUME NEW q \in 0 .. a * b - 1
      PROVE  \E j \in 0 .. b - 1, i \in 0 .. a - 1 : q = j * a + i
  <2>1. a * b \in Nat /\ a # 0 /\ q \in Nat /\ q < a * b
    <3>1. a * b \in Nat
      OBVIOUS
    <3>2. a # 0
      <4>1. a = 0 => a * b = 0
        OBVIOUS
      <4>2. QED
        BY <3>1, <4>1
    <3>3. QED
      BY <3>1, <3>2
  <2> DEFINE j == q \div a
             i == q % a
  <2>2. j \in Nat /\ i \in 0 .. a - 1 /\ q = a * j + i
    BY <2>1
  <2>3. a * j = j * a
    BY <2>2
  <2> HIDE DEF j, i
  <2>4. j < b
    <3> SUFFICES ASSUME b <= j PROVE FALSE
      BY <2>2
    <3>1. PICK d \in Nat : j = b + d
      <4>1. j - b \in Nat /\ j = b + (j - b)
        BY <2>2
      <4>2. QED
        BY <4>1
    <3>2. a * (b + d) = a * b + a * d /\ a * d \in Nat
      OBVIOUS
    <3>3. QED
      BY <2>1, <2>2, <3>1, <3>2
  <2>5. QED
    BY <2>2, <2>3, <2>4
<1>5. QED
  BY <1>2, <1>3, <1>4

\* In a layer of b neurons on a inputs, which begins at base: the row of neuron j, and all
\* that it reads.
RowAt(base, a, j) == {base + (j * a + i) : i \in 0 .. a - 1}
Part(base, a, b, j) == RowAt(base, a, j) \cup {base + (a * b + j)}

LEMMA Regroup ==
  ASSUME NEW base \in Nat, NEW a \in Nat, NEW b \in Nat, NEW j \in Nat
  PROVE  /\ {base + j * a + i : i \in 0 .. a - 1} = RowAt(base, a, j)
         /\ base + a * b + j = base + (a * b + j)
<1>1. PICK x \in Int : x = j * a
  OBVIOUS
<1>2. PICK y \in Int : y = a * b
  OBVIOUS
<1>3. \A i \in 0 .. a - 1 : base + x + i = base + (x + i)
  OBVIOUS
<1>4. {base + x + i : i \in 0 .. a - 1} = {base + (x + i) : i \in 0 .. a - 1}
  BY <1>3, Zenon
<1>5. base + y + j = base + (y + j)
  OBVIOUS
<1>6. QED
  BY <1>1, <1>2, <1>4, <1>5, Zenon DEF RowAt

\* What a neuron reads: its row, and its bias behind the rows.
LEMMA ReadsAre ==
  ASSUME NEW sizes, NEW l, NEW j \in Nat,
         Idx(sizes)[l] \in Nat, sizes[l] \in Nat, sizes[l + 1] \in Nat
  PROVE  Reads(sizes, <<l, j>>) = Part(Idx(sizes)[l], sizes[l], sizes[l + 1], j)
<1>1. PICK base \in Nat : base = Idx(sizes)[l]
  OBVIOUS
<1>2. PICK a \in Nat : a = sizes[l]
  OBVIOUS
<1>3. PICK b \in Nat : b = sizes[l + 1]
  OBVIOUS
<1>4. Row(sizes, l, j) = {base + j * a + i : i \in 0 .. a - 1}
  BY <1>1, <1>2, Zenon DEF Row
<1>5. Bias(sizes, l, j) = base + a * b + j
  BY <1>1, <1>2, <1>3, Zenon DEF Bias
<1>6. <<l, j>>[1] = l /\ <<l, j>>[2] = j
  OBVIOUS
<1>7. Reads(sizes, <<l, j>>) = Row(sizes, l, j) \cup {Bias(sizes, l, j)}
  BY <1>6, Zenon DEF Reads
<1>8. Row(sizes, l, j) = RowAt(base, a, j) /\ Bias(sizes, l, j) = base + (a * b + j)
  <2>1. {base + j * a + i : i \in 0 .. a - 1} = RowAt(base, a, j)
    BY Regroup
  <2>2. base + a * b + j = base + (a * b + j)
    BY Regroup
  <2>3. QED
    BY <1>4, <1>5, <2>1, <2>2, Zenon
<1>9. QED
  BY <1>1, <1>2, <1>3, <1>7, <1>8, Zenon DEF Part

LEMMA PartFacts ==
  ASSUME NEW base \in Nat, NEW a \in Nat, NEW b \in Nat
  PROVE  /\ \A j \in 0 .. b - 1 : /\ Part(base, a, b, j) \subseteq base .. base + (a * b + b) - 1
                                  /\ Cardinality(Part(base, a, b, j)) = a + 1
         /\ \A j, k \in 0 .. b - 1 : j # k => Part(base, a, b, j) \cap Part(base, a, b, k) = {}
         /\ \A p \in base .. base + (a * b + b) - 1 : \E j \in 0 .. b - 1 : p \in Part(base, a, b, j)
<1> DEFINE m == a * b
<1>1. m \in Nat
  OBVIOUS
<1>2. /\ \A j \in 0 .. b - 1, i \in 0 .. a - 1 : j * a + i \in 0 .. m - 1
      /\ \A j, k \in 0 .. b - 1, i, h \in 0 .. a - 1 : j * a + i = k * a + h => j = k /\ i = h
      /\ \A q \in 0 .. m - 1 : \E j \in 0 .. b - 1, i \in 0 .. a - 1 : q = j * a + i
  BY RowArithmetic
<1>3. ASSUME NEW j
      PROVE  Part(base, a, b, j) = RowAt(base, a, j) \cup {base + (m + j)}
  BY Zenon DEF Part
<1> HIDE DEF m
<1>4. ASSUME NEW j \in 0 .. b - 1
      PROVE  RowAt(base, a, j) \subseteq base .. base + m - 1
  <2>1. \A q \in 0 .. m - 1 : base + q \in base .. base + m - 1
    BY <1>1
  <2>2. \A i \in 0 .. a - 1 : j * a + i \in 0 .. m - 1
    BY <1>2
  <2>3. \A i \in 0 .. a - 1 : base + (j * a + i) \in base .. base + m - 1
    BY <2>1, <2>2, Zenon
  <2>4. QED
    BY <2>3, Zenon DEF RowAt
<1>5. ASSUME NEW j \in 0 .. b - 1
      PROVE  /\ Part(base, a, b, j) \subseteq base .. base + (m + b) - 1
             /\ base + (m + j) \notin RowAt(base, a, j)
  <2>1. base + (m + j) \in base + m .. base + (m + b) - 1
    BY <1>1
  <2>2. base .. base + m - 1 \subseteq base .. base + (m + b) - 1
    BY <1>1
  <2>3. base + (m + j) \in base .. base + (m + b) - 1 /\ base + (m + j) \notin base .. base + m - 1
    BY <1>1
  <2>4. QED
    BY <1>3, <1>4, <2>2, <2>3
<1>6. ASSUME NEW j \in 0 .. b - 1
      PROVE  Cardinality(Part(base, a, b, j)) = a + 1
  <2> DEFINE nth == [i \in 0 .. a - 1 |-> base + (j * a + i)]
  <2>1. \A i, h \in 0 .. a - 1 : nth[i] = nth[h] => i = h
    <3> SUFFICES ASSUME NEW i \in 0 .. a - 1, NEW h \in 0 .. a - 1, nth[i] = nth[h] PROVE i = h
      OBVIOUS
    <3>1. j * a + i \in Int /\ j * a + h \in Int /\ base + (j * a + i) = base + (j * a + h)
      BY <1>2
    <3>2. j * a + i = j * a + h
      BY <3>1
    <3>3. QED
      BY <1>2, <3>2
  <2>2. nth \in Bijection(0 .. a - 1, RowAt(base, a, j))
    BY <2>1 DEF Bijection, Injection, Surjection, IsInjective, RowAt
  <2>3. IsFiniteSet(0 .. a - 1) /\ Cardinality(0 .. a - 1) = a
    BY FS_Interval
  <2> HIDE DEF nth
  <2>4. IsFiniteSet(RowAt(base, a, j)) /\ Cardinality(RowAt(base, a, j)) = a
    BY <2>2, <2>3, FS_Bijection DEF ExistsBijection
  <2>5. QED
    BY <1>3, <1>5, <2>4, FS_AddElement
<1>7. ASSUME NEW j \in 0 .. b - 1, NEW k \in 0 .. b - 1, j # k
      PROVE  Part(base, a, b, j) \cap Part(base, a, b, k) = {}
  <2>1. RowAt(base, a, j) \cap RowAt(base, a, k) = {}
    <3> SUFFICES ASSUME NEW i \in 0 .. a - 1, NEW h \in 0 .. a - 1,
                        base + (j * a + i) = base + (k * a + h)
                 PROVE  FALSE
      BY DEF RowAt
    <3>1. j * a + i \in Int /\ k * a + h \in Int
      BY <1>2
    <3>2. j * a + i = k * a + h
      BY <3>1
    <3>3. QED
      BY <1>2, <1>7, <3>2
  <2>2. base + (m + j) # base + (m + k)
    BY <1>1, <1>7
  <2>3. base + (m + j) \notin base .. base + m - 1 /\ base + (m + k) \notin base .. base + m - 1
    BY <1>1
  <2>4. RowAt(base, a, j) \subseteq base .. base + m - 1 /\ RowAt(base, a, k) \subseteq base .. base + m - 1
    BY <1>4
  <2>5. QED
    BY <1>3, <2>1, <2>2, <2>3, <2>4
<1>8. ASSUME NEW p \in base .. base + (m + b) - 1
      PROVE  \E j \in 0 .. b - 1 : p \in Part(base, a, b, j)
  <2>1. CASE p < base + m
    <3>1. p - base \in 0 .. m - 1
      BY <1>1, <2>1
    <3>2. PICK j \in 0 .. b - 1, i \in 0 .. a - 1 : p - base = j * a + i
      BY <1>2, <3>1
    <3>3. p = base + (j * a + i)
      BY <1>2, <3>2
    <3>4. p \in RowAt(base, a, j)
      BY <3>3 DEF RowAt
    <3>5. QED
      BY <1>3, <3>4
  <2>2. CASE ~ (p < base + m)
    <3> DEFINE j == p - base - m
    <3>1. j \in 0 .. b - 1 /\ p = base + (m + j)
      BY <1>1, <2>2
    <3> HIDE DEF j
    <3>2. QED
      BY <1>3, <3>1
  <2>3. QED
    BY <2>1, <2>2
<1>9. QED
  BY <1>5, <1>6, <1>7, <1>8 DEF m

\* A neuron's part of the weights.
LEMMA ReadsPart ==
  ASSUME NEW sizes \in Seq(Nat), Len(sizes) >= 2, NEW n \in Neurons(sizes)
  PROVE  /\ n[1] \in 1 .. Len(sizes) - 1 /\ n[2] \in 0 .. sizes[n[1] + 1] - 1 /\ n = <<n[1], n[2]>>
         /\ Reads(sizes, n) = Part(Idx(sizes)[n[1]], sizes[n[1]], sizes[n[1] + 1], n[2])
<1>1. n[1] \in 1 .. Len(sizes) - 1 /\ n[2] \in 0 .. sizes[n[1] + 1] - 1 /\ n = <<n[1], n[2]>>
  BY DEF Neurons
<1>2. PICK l \in 1 .. Len(sizes) - 1 : l = n[1]
  BY <1>1
<1>3. PICK j \in 0 .. sizes[l + 1] - 1 : j = n[2]
  BY <1>1, <1>2
<1>4. PICK base \in Nat : base = Idx(sizes)[l]
  <2>1. l \in 1 .. Len(sizes)
    OBVIOUS
  <2>2. QED
    BY <2>1, IdxFacts
<1>5. PICK a \in Nat : a = sizes[l]
  BY LayerFacts
<1>6. PICK b \in Nat : b = sizes[l + 1]
  BY LayerFacts
<1>7. j \in Nat
  BY <1>6
<1>8. Reads(sizes, <<l, j>>) = Part(base, a, b, j)
  BY <1>4, <1>5, <1>6, <1>7, ReadsAre, Zenon
<1>9. QED
  BY <1>1, <1>2, <1>3, <1>4, <1>5, <1>6, <1>8

LEMMA LayerPart ==
  ASSUME NEW sizes \in Seq(Nat), Len(sizes) >= 2, NEW l \in 1 .. Len(sizes) - 1
  PROVE  /\ Idx(sizes)[l] \in Nat /\ Idx(sizes)[l + 1] \in Nat
         /\ sizes[l] \in Nat /\ sizes[l + 1] \in Nat
         /\ Idx(sizes)[l + 1] = Idx(sizes)[l] + (sizes[l] * sizes[l + 1] + sizes[l + 1])
         /\ Idx(sizes)[l + 1] <= ParamCount(sizes) /\ ParamCount(sizes) \in Nat
<1>1. l \in 1 .. Len(sizes) /\ l + 1 \in 1 .. Len(sizes) /\ l + 1 <= Len(sizes)
      /\ Len(sizes) \in 1 .. Len(sizes)
  BY LayerFacts
<1>2. QED
  BY <1>1, IdxFacts, LayerFacts DEF LayerCount, ParamCount

\* Whatever the sizes, in a network that is accepted each weight is read by one neuron.
LEMMA Partitioned ==
  ASSUME NEW sizes \in Seq(Nat), NEW count, FromFlat(sizes, count)
  PROVE  WeightsPartitioned(sizes, count)
<1>1. Len(sizes) >= 2 /\ count = ParamCount(sizes) /\ Len(sizes) \in Nat
  BY DEF FromFlat
<1> DEFINE layer(l) == Idx(sizes)[l] .. Idx(sizes)[l + 1] - 1
<1>2. ASSUME NEW n \in Neurons(sizes)
      PROVE  /\ Reads(sizes, n) \subseteq layer(n[1])
             /\ Cardinality(Reads(sizes, n)) = sizes[n[1]] + 1
  <2>1. n[1] \in 1 .. Len(sizes) - 1
    BY <1>1, ReadsPart
  <2>2. PICK base \in Nat : base = Idx(sizes)[n[1]]
    BY <1>1, <2>1, LayerPart
  <2>3. PICK a \in Nat : a = sizes[n[1]]
    BY <1>1, <2>1, LayerPart
  <2>4. PICK b \in Nat : b = sizes[n[1] + 1]
    BY <1>1, <2>1, LayerPart
  <2>5. Idx(sizes)[n[1] + 1] = base + (a * b + b)
    BY <1>1, <2>1, <2>2, <2>3, <2>4, LayerPart
  <2>6. Reads(sizes, n) = Part(base, a, b, n[2]) /\ n[2] \in 0 .. b - 1
    BY <1>1, <2>2, <2>3, <2>4, ReadsPart
  <2>7. /\ Part(base, a, b, n[2]) \subseteq base .. base + (a * b + b) - 1
        /\ Cardinality(Part(base, a, b, n[2])) = a + 1
    BY <2>6, PartFacts
  <2>8. layer(n[1]) = base .. base + (a * b + b) - 1
    BY <2>2, <2>5
  <2> HIDE DEF layer
  <2>9. Reads(sizes, n) \subseteq layer(n[1])
    BY <2>6, <2>7, <2>8
  <2>10. Cardinality(Reads(sizes, n)) = sizes[n[1]] + 1
    BY <2>3, <2>6, <2>7
  <2>11. QED
    BY <2>9, <2>10
<1>3. \A l \in 1 .. Len(sizes) - 1 : layer(l) \subseteq 0 .. count - 1
  <2> TAKE l \in 1 .. Len(sizes) - 1
  <2>1. PICK from \in Nat, to \in Nat, all \in Nat :
          from = Idx(sizes)[l] /\ to = Idx(sizes)[l + 1] /\ all = count /\ to <= all
    BY <1>1, LayerPart
  <2>2. from .. to - 1 \subseteq 0 .. all - 1
    BY <2>1
  <2>3. QED
    BY <2>1, <2>2
<1>4. ASSUME NEW p \in 0 .. count - 1
      PROVE  \E n \in Neurons(sizes) : p \in Reads(sizes, n)
  <2>1. PICK l \in 1 .. Len(sizes) - 1 : Idx(sizes)[l] <= p /\ p < Idx(sizes)[l + 1]
    BY <1>1, InOneLayer
  <2>2. PICK base \in Nat : base = Idx(sizes)[l]
    BY <1>1, LayerPart
  <2>3. PICK a \in Nat : a = sizes[l]
    BY <1>1, LayerPart
  <2>4. PICK b \in Nat : b = sizes[l + 1]
    BY <1>1, LayerPart
  <2>5. p \in base .. base + (a * b + b) - 1
    <3>1. Idx(sizes)[l + 1] = base + (a * b + b)
      BY <1>1, <2>2, <2>3, <2>4, LayerPart
    <3>2. PICK size \in Nat : size = a * b + b
      OBVIOUS
    <3>3. p \in Nat /\ base <= p /\ p < base + size
      BY <2>1, <2>2, <3>1, <3>2
    <3>4. p \in base .. base + size - 1
      BY <3>3
    <3>5. QED
      BY <3>2, <3>4
  <2>6. PICK j \in 0 .. b - 1 : p \in Part(base, a, b, j)
    BY <2>5, PartFacts
  <2>7. <<l, j>> \in Neurons(sizes)
    <3>1. <<l, j>> \in {l} \X (0 .. sizes[l + 1] - 1)
      BY <2>4
    <3>2. QED
      BY <3>1, Zenon DEF Neurons
  <2>8. Reads(sizes, <<l, j>>) = Part(base, a, b, j)
    <3>1. j \in Nat
      OBVIOUS
    <3>2. QED
      BY <2>2, <2>3, <2>4, <3>1, ReadsAre, Zenon
  <2>9. QED
    BY <2>6, <2>7, <2>8
<1>5. ASSUME NEW m \in Neurons(sizes), NEW n \in Neurons(sizes), m # n
      PROVE  Reads(sizes, m) \cap Reads(sizes, n) = {}
  <2>1. /\ m[1] \in 1 .. Len(sizes) - 1 /\ n[1] \in 1 .. Len(sizes) - 1
        /\ m[2] \in 0 .. sizes[m[1] + 1] - 1 /\ n[2] \in 0 .. sizes[n[1] + 1] - 1
        /\ m = <<m[1], m[2]>> /\ n = <<n[1], n[2]>>
    BY <1>1, ReadsPart
  <2>2. ASSUME NEW k \in 1 .. Len(sizes) - 1, NEW l \in 1 .. Len(sizes) - 1, k < l
        PROVE  layer(k) \cap layer(l) = {}
    <3>1. k + 1 \in 1 .. Len(sizes) /\ l \in 1 .. Len(sizes) /\ k + 1 <= l
      BY <1>1, <2>2
    <3>2. Idx(sizes)[k + 1] <= Idx(sizes)[l] /\ Idx(sizes)[k + 1] \in Nat /\ Idx(sizes)[l] \in Nat
          /\ Idx(sizes)[k] \in Nat /\ Idx(sizes)[l + 1] \in Nat
      BY <1>1, <3>1, IdxFacts, LayerPart
    <3>3. QED
      BY <3>2
  <2>3. CASE m[1] = n[1]
    <3>1. PICK l \in 1 .. Len(sizes) - 1 : l = m[1] /\ l = n[1]
      BY <2>1, <2>3
    <3>2. PICK base \in Nat : base = Idx(sizes)[l]
      BY <1>1, LayerPart
    <3>3. PICK a \in Nat : a = sizes[l]
      BY <1>1, LayerPart
    <3>4. PICK b \in Nat : b = sizes[l + 1]
      BY <1>1, LayerPart
    <3>5. /\ Reads(sizes, m) = Part(base, a, b, m[2]) /\ Reads(sizes, n) = Part(base, a, b, n[2])
      BY <1>1, <3>1, <3>2, <3>3, <3>4, ReadsPart
    <3>6. m[2] \in 0 .. b - 1 /\ n[2] \in 0 .. b - 1 /\ m[2] # n[2]
      BY <1>5, <2>1, <2>3, <3>1, <3>4
    <3>7. QED
      BY <3>5, <3>6, PartFacts
  <2>4. CASE m[1] # n[1]
    <3>1. Reads(sizes, m) \subseteq layer(m[1]) /\ Reads(sizes, n) \subseteq layer(n[1])
      BY <1>2
    <3>2. layer(m[1]) \cap layer(n[1]) = {}
      <4>1. m[1] < n[1] \/ n[1] < m[1]
        BY <2>1, <2>4
      <4> HIDE DEF layer
      <4>2. QED
        BY <2>1, <2>2, <4>1
    <3> HIDE DEF layer
    <3>3. QED
      BY <3>1, <3>2
  <2>5. QED
    BY <2>3, <2>4
<1> HIDE DEF layer
<1>6. UNION {Reads(sizes, n) : n \in Neurons(sizes)} = 0 .. count - 1
  <2>1. \A n \in Neurons(sizes) : Reads(sizes, n) \subseteq 0 .. count - 1
    BY <1>1, <1>2, <1>3, ReadsPart
  <2>2. QED
    BY <1>4, <2>1
<1>7. QED
  BY <1>2, <1>5, <1>6 DEF WeightsPartitioned

-----------------------------------------------------------------------------
(* The theorems.                                                           *)

LEMMA AlwaysAInv ==
  ASSUME ArenaAssumption
  PROVE  Spec => []AInv
<1>1. Init => AInv
  BY InitAInv
<1>2. AInv /\ [Next]_vars => AInv'
  BY NextAInv
<1>3. QED
  BY <1>1, <1>2, PTL DEF Spec

\* Every counter, tick and answer stays in its range.
THEOREM ArenaTypeOK == Spec => []TypeOK
<1>1. AInv => TypeOK
  BY DEF AInv
<1>2. QED
  BY <1>1, ArenaAssumption, AlwaysAInv, PTL

\* The gauge counts the episodes in progress, for any number of requests and whatever
\* way each episode ends.
THEOREM ArenaGaugeExact == Spec => []GaugeExact
<1>1. AInv => GaugeExact
  BY DEF AInv
<1>2. QED
  BY <1>1, ArenaAssumption, AlwaysAInv, PTL

\* What the trainer is served is the whole batch, each episode played to its end, of
\* one request, whatever timeouts, failures and restarts came before.
THEOREM ArenaAnswerWhole == Spec => []AnswerWhole
<1>1. AInv => AnswerWhole
  BY DEF AInv
<1>2. QED
  BY <1>1, ArenaAssumption, AlwaysAInv, PTL

\* A tank's first death is what is reported.
THEOREM ArenaFirstDeathKept == Spec => FirstDeathKept
<1> DEFINE Kept == \A a \in Attempt, j \in Job, i \in TankNo :
                     (episode'[a][j] # "none" /\ deathTick[a][j][i] # -1) =>
                        deathTick'[a][j][i] = deathTick[a][j][i]
<1>1. ASSUME AInv, Next
      PROVE  Kept
  <2>1. CASE Post \/ Timeout
    BY <2>1 DEF Post, Timeout, serverVars
  <2>2. CASE Restart
    BY <2>2 DEF Restart, Fresh, Idle
  <2>3. ASSUME NEW b \in Attempt, NEW k \in Job, Begin(b, k) \/ Abort(b, k)
        PROVE  Kept
    BY <2>3 DEF Begin, Abort
  <2>4. ASSUME NEW b \in Attempt, NEW k \in Job, PlayTick(b, k)
        PROVE  Kept
    <3>1. PICK dead \in SUBSET TankNo :
            deathTick' = [deathTick EXCEPT ![b][k] = Deaths(b, k, dead)]
      BY <2>4 DEF PlayTick
    <3>2. \A i \in TankNo : deathTick[b][k][i] # -1 =>
             Deaths(b, k, dead)[i] = deathTick[b][k][i]
      BY DEF Deaths
    <3>3. \A a \in Attempt, j \in Job :
            deathTick'[a][j] = IF a = b /\ j = k THEN Deaths(b, k, dead) ELSE deathTick[a][j]
      BY <1>1, <3>1 DEF AInv, TypeOK
    <3>4. QED
      BY <3>2, <3>3
  <2>5. ASSUME NEW b \in Attempt, Reply(b)
        PROVE  Kept
    <3>1. \A a \in Attempt, j \in Job :
            /\ a = b => episode'[a][j] = "none"
            /\ a # b => deathTick'[a][j] = deathTick[a][j]
      BY <1>1, <2>5 DEF AInv, TypeOK, Reply, Idle
    <3>2. QED
      BY <3>1
  <2>6. QED
    BY <1>1, <2>1, <2>2, <2>3, <2>4, <2>5 DEF Next, Serve
<1>2. AInv /\ [Next]_vars => [Kept]_vars
  BY <1>1
<1>3. QED
  BY <1>2, ArenaAssumption, AlwaysAInv, PTL DEF Spec, FirstDeathKept

\* Nothing but the length of what a trainer sends is checked, and that is enough: in a
\* network that is played each weight is read by exactly one neuron, and none beyond
\* the end, whatever the sizes of its layers.
THEOREM ArenaWeightsReadOnce == Spec => []WeightsReadOnce
<1>1. AInv => WeightsReadOnce
  <2> SUFFICES ASSUME AInv, NEW a \in Attempt, NEW j \in Job, episode[a][j] = "playing"
               PROVE  WeightsPartitioned(MLPSizes, weights[j].bytes \div 4)
    BY DEF WeightsReadOnce
  <2>1. Decodes(weights[j], MLPSizes)
    BY DEF AInv, EpisodeSound
  <2>2. FromFlat(MLPSizes, weights[j].bytes \div 4)
    BY <2>1 DEF Decodes, WeightsFromBytes
  <2>3. MLPSizes \in Seq(Nat)
    <3>1. MLPSizes \in Seq(Nat \ {0})
      BY ArenaAssumption DEF ArenaAssumption
    <3>2. QED
      BY <3>1
  <2>4. QED
    BY <2>2, <2>3, Partitioned
<1>2. QED
  BY <1>1, ArenaAssumption, AlwaysAInv, PTL
=============================================================================
