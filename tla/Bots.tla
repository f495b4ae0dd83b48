-------------------------------- MODULE Bots --------------------------------
(***************************************************************************)
(* The bots of one room: BotSet in backend/internal/bots/spawner.go, with  *)
(* as much of the game as it depends on.                                   *)
(*                                                                         *)
(* In each tick the room calls BotSet.Act, which decides by Tank.IsAlive   *)
(* whom to give up and whom to spawn, and then Game.Tick.  Collisions come *)
(* last in Game.Tick, so Act finds the tanks they killed still in the game *)
(* and not yet swept; and the sweep lets a tank regenerate before it asks  *)
(* IsAlive, so one that was killed by a hair lives on.                     *)
(***************************************************************************)
EXTENDS Integers, SequencesExt

CONSTANTS
    Bot,            \* tanks for bots; one that is out of the game can come again
    None,
    Target,         \* BotSet.Target (zombies, practice)
    WaveSize, WaveInterval,          \* zombies
    BossDelay, PracticeDelay,        \* bossRespawnDelay, practiceRespawnDelay
    MaxStrays       \* bound: tanks in the game that no entry has any more

ASSUME BotsAssumption ==
    /\ None \notin Bot \cup Nat
    /\ {Target, WaveSize, WaveInterval, BossDelay, PracticeDelay} \subseteq Nat \ {0}
    /\ MaxStrays \in Nat

VARIABLES
    mode,           \* Mode; ffa has no bots
    entries,        \* BotSet.entries: the bot's tank, and the ticks left until
                    \* respawnAt (None when respawnAt is 0)
    phase,          \* the tick, modulo WaveInterval
    condition,      \* each tank: "alive", "weak" (alive, no more than a hit away from
                    \* "down"), "grazed" (Health <= 0, but one regeneration takes it
                    \* above), "down" (below that), "out" of the game
    deadFor         \* history: ticks for which the tank of an entry has not been alive
                    \* (a practice bot's, up to PracticeDelay; 0 for any other tank)

vars == <<mode, entries, phase, condition, deadFor>>

Conditions == {"alive", "weak", "grazed", "down", "out"}

Tracked == {entries[i].tank : i \in DOMAIN entries}
InGame == {t \in Bot : condition[t] # "out"}
IsAlive(t) == condition[t] \in {"alive", "weak"}

Init ==
    /\ mode \in {"zombies", "boss", "practice"}
    /\ entries = <<>>
    /\ phase = 0
    /\ condition = [t \in Bot |-> "out"]
    /\ deadFor = [t \in Bot |-> 0]

-----------------------------------------------------------------------------
(* BotSet.Act: the entries it leaves, with no tank where one is spawned.   *)

Vacant == [tank |-> None, wait |-> None]

\* The entries whose tank is alive, in their order.
StillAlive ==
    LET alive[n \in 0 .. Len(entries)] ==
            IF n = 0 THEN <<>>
            ELSE IF IsAlive(entries[n].tank) THEN Append(alive[n - 1], entries[n])
            ELSE alive[n - 1]
    IN  alive[Len(entries)]

FullWave ==                                     \* mutant of ActZombies
    IF phase # 0 \/ Len(StillAlive) >= Target THEN entries
    ELSE StillAlive \o [i \in 1 .. WaveSize |-> Vacant]

\* actZombies: on a wave tick forget the dead, and top up to the target.
ActZombies ==
    LET wave == Min({WaveSize, Target - Len(StillAlive)})
    IN  IF phase # 0 THEN entries ELSE StillAlive \o [i \in 1 .. wave |-> Vacant]

Rescheduling(e, delay) ==                       \* mutant of Respawning
    IF e.wait = 0 THEN Vacant ELSE [e EXCEPT !.wait = delay]
\* A dead bot's entry: schedule the respawn, wait for it, respawn.
Respawning(e, delay) ==
    IF e.wait = None THEN [e EXCEPT !.wait = delay]
    ELSE IF e.wait = 0 THEN Vacant ELSE e

\* actBoss: an existing boss that lives is left as it is, schedule included.
ActBoss ==
    IF entries = <<>> THEN <<Vacant>>
    ELSE IF IsAlive(entries[1].tank) THEN entries
    ELSE <<Respawning(entries[1], BossDelay)>>

KeepSchedule(e) == e                            \* mutant of Unscheduled
Unscheduled(e) == [e EXCEPT !.wait = None]

\* actPractice: fill the roster; a bot that lives has its schedule cleared.
ActPractice ==
    [i \in 1 .. Target |->
        IF i > Len(entries) THEN Vacant
        ELSE IF IsAlive(entries[i].tank) THEN Unscheduled(entries[i])
        ELSE Respawning(entries[i], PracticeDelay)]

Act ==
    CASE mode = "zombies" -> ActZombies
      [] mode = "boss" -> ActBoss
      [] mode = "practice" -> ActPractice

-----------------------------------------------------------------------------
(* Game.Tick: what becomes of a tank.  A newly spawned one is far from the *)
(* map's edge.  One that was revived has no more health than a tick's      *)
(* regeneration and stays weak until it has regained what a hit costs; a   *)
(* hit costs more than two regenerations (5 or more against 0.82 in        *)
(* DefaultConfig).                                                         *)

Fate(t, new) ==
    IF t \in new THEN {"alive", "grazed", "down"}
    ELSE CASE condition[t] = "alive" -> {"alive", "grazed", "down", "out"}
           [] condition[t] = "weak" -> {"alive", "weak", "down", "out"}
           [] condition[t] = "grazed" -> {"weak", "down", "out"}
           [] condition[t] = "down" -> {"out"}

\* respawnAt comes nearer.
Sooner(e) == IF e.wait = None \/ e.wait = 0 THEN e ELSE [e EXCEPT !.wait = @ - 1]

Vacancies(left) == {i \in DOMAIN left : left[i] = Vacant}

\* Tanks for the vacancies.  Which of the free ones is immaterial: one way, if any.
Spawns(left) ==
    LET ways == Injection(Vacancies(left), Bot \ (InGame \cup Tracked))
    IN  IF ways = {} THEN {} ELSE {CHOOSE f \in ways : TRUE}

\* One tick of the room: Act leaves these entries and spawns these tanks, new being
\* who they are, and Game.Tick decides what becomes of everyone.  Bound: there are
\* never more than MaxStrays strays.
Turn(left, spawn, new) ==
    /\ entries' = [i \in DOMAIN left |->
          IF i \in DOMAIN spawn THEN [tank |-> spawn[i], wait |-> None] ELSE Sooner(left[i])]
    /\ \E fate \in [InGame \cup new -> Conditions] :
          /\ \A t \in DOMAIN fate : fate[t] \in Fate(t, new)
          /\ condition' = [t \in Bot |-> IF t \in DOMAIN fate THEN fate[t] ELSE "out"]
    /\ phase' = (phase + 1) % WaveInterval
    /\ deadFor' = [t \in Bot |->
          IF mode # "practice" \/ condition'[t] \in {"alive", "weak"} \/ t \notin Tracked'
          THEN 0 ELSE Min({1 + IF t \in new THEN 0 ELSE deadFor[t], PracticeDelay})]
    /\ Cardinality({t \in Bot \ Tracked' : condition'[t] # "out"}) <= MaxStrays
    /\ UNCHANGED mode

\* Bound: there is no tick when Bot has no tank left to spawn.
Tick == \E left \in {Act} : \E spawn \in Spawns(left) : \E new \in {Range(spawn)} :
            Turn(left, spawn, new)

Spec == Init /\ [][Tick]_vars

\* The ticker keeps ticking.
LiveSpec == Spec /\ WF_vars(Tick)
-----------------------------------------------------------------------------
(* Properties.                                                             *)

TypeOK ==
    /\ mode \in {"zombies", "boss", "practice"}
    /\ entries \in Seq([tank : Bot, wait : 0 .. Max({BossDelay, PracticeDelay}) \cup {None}])
    /\ \A i, j \in DOMAIN entries : entries[i].tank = entries[j].tank => i = j
    /\ Len(entries) <= IF mode = "boss" THEN 1 ELSE Target
    /\ phase \in 0 .. WaveInterval - 1
    /\ condition \in [Bot -> Conditions]
    /\ deadFor \in [Bot -> 0 .. PracticeDelay]

Living == {t \in Bot : IsAlive(t)}

\* No more bots live than the mode wants: Target, and one boss ("desired bot
\* count (zombies/practice); boss is always 1").
PopulationBound == Cardinality(Living) <= IF mode = "boss" THEN 1 ELSE Target

\* In practice mode that is so, although bots are taken for dead, replaced and
\* revived in any combination: whoever was replaced is out of the fight.
PracticePopulation == mode = "practice" => Living \subseteq Tracked /\ PopulationBound

\* "each bot respawns practiceRespawnDelay ticks after its own death": nobody is
\* replaced who has not been dead for that long without a break.
PracticeDelayKept ==
    [][mode = "practice" =>
         \A i \in DOMAIN entries :
            entries'[i].tank # entries[i].tank => deadFor[entries[i].tank] >= PracticeDelay]_vars

Absent(i) == i \in DOMAIN entries /\ entries[i].tank \notin InGame

\* A practice bot that died comes back: its entry gets a tank in the game.
PracticeBotReturns ==
    \A i \in 1 .. Target : (mode = "practice" /\ Absent(i)) ~> ~ Absent(i)
=============================================================================
