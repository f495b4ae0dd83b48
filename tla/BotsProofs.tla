----------------------------- MODULE BotsProofs -----------------------------
(***************************************************************************)
(* Proofs about Bots, for any target, delay and set of tanks: the practice *)
(* mode's population and respawn delays, and the type invariant, in which  *)
(* no two entries of a mode share a tank and none has more than its share. *)
(***************************************************************************)
EXTENDS Bots, FiniteSetTheorems, WellFoundedInduction, TLAPS

LEMMA BotsConstants ==
  ASSUME BotsAssumption
  PROVE  /\ Target \in Nat /\ Target > 0 /\ PracticeDelay \in Nat /\ PracticeDelay > 0
         /\ None \notin Bot /\ None \notin Nat
BY DEF BotsAssumption

\* An entry of the roster.  One that is scheduled has a tank that died in an earlier
\* tick: it is not grazed any more, so either it has been revived, or it is gone by
\* the end of the next tick; and if it was not revived, its delay has run since.
Waiting(e) ==
    e.wait # None =>
        /\ condition[e.tank] \in {"weak", "down", "out"}
        /\ ~ IsAlive(e.tank) => deadFor[e.tank] + e.wait >= PracticeDelay

Roster == [1 .. Target -> [tank : Bot, wait : 0 .. PracticeDelay \cup {None}]]

PracticeSound ==
    /\ entries = <<>> \/ entries \in Roster
    /\ InGame \subseteq Tracked
    /\ \A i \in DOMAIN entries : Waiting(entries[i])

BInv ==
    /\ condition \in [Bot -> Conditions]
    /\ deadFor \in [Bot -> 0 .. PracticeDelay]
    /\ mode = "practice" => PracticeSound

LEMMA InitBInv ==
  ASSUME BotsAssumption, Init
  PROVE  BInv
<1>1. condition \in [Bot -> Conditions] /\ deadFor \in [Bot -> 0 .. PracticeDelay]
  BY BotsConstants DEF Init, Conditions
<1>2. PracticeSound
  BY DEF Init, PracticeSound, InGame
<1>3. QED
  BY <1>1, <1>2 DEF BInv

\* What actPractice makes of entry i.
LEMMA Roll ==
  ASSUME BotsAssumption, BInv, mode = "practice", NEW i \in 1 .. Target
  PROVE  /\ ActPractice[i] = Vacant <=>
              i \notin DOMAIN entries \/ (entries[i].wait = 0 /\ ~ IsAlive(entries[i].tank))
         /\ ActPractice[i] # Vacant =>
              /\ i \in DOMAIN entries /\ entries[i].tank \in Bot
              /\ ActPractice[i].tank = entries[i].tank
              /\ ActPractice[i] =
                   [tank |-> entries[i].tank,
                    wait |-> IF IsAlive(entries[i].tank) THEN None
                             ELSE IF entries[i].wait = None THEN PracticeDelay ELSE entries[i].wait]
<1>1. Len(entries) \in {0, Target} /\ DOMAIN entries = 1 .. Len(entries)
  BY BotsConstants DEF BInv, PracticeSound, Roster
<1>2. CASE entries = <<>>
  BY <1>2, BotsConstants DEF ActPractice
<1>3. CASE entries \in Roster
  <2>1. DOMAIN entries = 1 .. Target /\ Len(entries) = Target
    BY <1>1, <1>3, BotsConstants DEF Roster
  <2>2. entries[i] \in [tank : Bot, wait : 0 .. PracticeDelay \cup {None}]
    BY <1>3 DEF Roster
  <2>3. ActPractice[i] = IF IsAlive(entries[i].tank) THEN Unscheduled(entries[i])
                         ELSE Respawning(entries[i], PracticeDelay)
    BY <2>1 DEF ActPractice
  <2>4. \A w : [entries[i] EXCEPT !.wait = w] = [tank |-> entries[i].tank, wait |-> w]
    BY <2>2
  <2>5. entries[i] = [tank |-> entries[i].tank, wait |-> entries[i].wait]
    BY <2>2
  <2>6. entries[i].tank \in Bot /\ entries[i].tank # None
    BY <2>2, BotsConstants
  <2>7. 0 # None
    BY BotsConstants
  <2>8. QED
    BY <2>1, <2>3, <2>4, <2>5, <2>6, <2>7 DEF Unscheduled, Respawning, Vacant
<1>4. QED
  BY <1>2, <1>3 DEF BInv, PracticeSound

\* The wait of an entry that keeps its tank, after a tick.
NextWait(e) ==
    IF IsAlive(e.tank) THEN None
    ELSE IF e.wait = None THEN PracticeDelay - 1 ELSE e.wait - 1

Replaced(i) == ActPractice[i] = Vacant

\* A tick in practice mode: who gets the vacant places, and what becomes of everyone.
PracticeTurn(spawn, new) ==
    /\ new \subseteq Bot \ (InGame \cup Tracked)
    /\ \A t \in new : \E i \in 1 .. Target : Replaced(i) /\ spawn[i] = t
    /\ entries' = [i \in 1 .. Target |-> entries'[i]]
    /\ \A i \in 1 .. Target :
          /\ Replaced(i) => spawn[i] \in new /\ entries'[i] = [tank |-> spawn[i], wait |-> None]
          /\ ~ Replaced(i) => entries'[i] = [tank |-> entries[i].tank, wait |-> NextWait(entries[i])]
    /\ condition' \in [Bot -> Conditions]
    /\ \A t \in Bot : /\ t \in InGame \cup new => condition'[t] \in Fate(t, new)
                      /\ t \notin InGame \cup new => condition'[t] = "out"
    /\ deadFor' = [t \in Bot |->
          IF condition'[t] \in {"alive", "weak"} \/ t \notin Tracked'
          THEN 0 ELSE Min({1 + IF t \in new THEN 0 ELSE deadFor[t], PracticeDelay})]

LEMMA PracticeTick ==
  ASSUME BotsAssumption, BInv, mode = "practice", Tick
  PROVE  \E spawn, new : PracticeTurn(spawn, new)
<1> DEFINE left == ActPractice
           free == Bot \ (InGame \cup Tracked)
<1>1. Act = left
  BY DEF Act
<1>2. \E l \in {Act} : \E s \in Spawns(l) : \E n \in {Range(s)} : Turn(l, s, n)
  BY DEF Tick
<1>3. PICK spawn \in Spawns(left) : Turn(left, spawn, Range(spawn))
  BY <1>1, <1>2
<1>4. spawn \in [Vacancies(left) -> free]
  <2>1. \A S, T : Injection(S, T) \subseteq [S -> T]
    BY DEF Injection, IsInjective
  <2>2. spawn \in Injection(Vacancies(left), free)
    <3> DEFINE ways == Injection(Vacancies(left), free)
    <3>1. Spawns(left) = IF ways = {} THEN {} ELSE {CHOOSE f \in ways : TRUE}
      BY DEF Spawns
    <3> HIDE DEF ways
    <3>2. ways # {} /\ spawn = CHOOSE f \in ways : TRUE
      BY <1>3, <3>1
    <3>3. spawn \in ways
      BY <3>2
    <3>4. QED
      BY <3>3 DEF ways
  <2>3. QED
    BY <2>1, <2>2
<1> DEFINE new == Range(spawn)
<1>5. DOMAIN left = 1 .. Target /\ Vacancies(left) = {i \in 1 .. Target : Replaced(i)}
  BY DEF ActPractice, Vacancies, Replaced
<1>6. new \subseteq free /\ \A t \in new : \E i \in 1 .. Target : Replaced(i) /\ spawn[i] = t
  BY <1>4, <1>5 DEF Range
<1>7. entries' = [i \in 1 .. Target |-> entries'[i]]
  BY <1>3, <1>5 DEF Turn
<1>8. ASSUME NEW i \in 1 .. Target
      PROVE  /\ Replaced(i) => spawn[i] \in new /\ entries'[i] = [tank |-> spawn[i], wait |-> None]
             /\ ~ Replaced(i) => entries'[i] = [tank |-> entries[i].tank, wait |-> NextWait(entries[i])]
  <2>1. CASE Replaced(i)
    BY <2>1, <1>3, <1>4, <1>5 DEF Range, Turn
  <2>2. CASE ~ Replaced(i)
    <3>1. i \notin DOMAIN spawn /\ entries'[i] = Sooner(left[i])
      BY <2>2, <1>3, <1>4, <1>5 DEF Turn
    <3> DEFINE w == IF IsAlive(entries[i].tank) THEN None
                    ELSE IF entries[i].wait = None THEN PracticeDelay ELSE entries[i].wait
    <3>2. left[i] = [tank |-> entries[i].tank, wait |-> w]
      BY <2>2, Roll DEF Replaced
    <3>3. ~ (entries[i].wait = 0 /\ ~ IsAlive(entries[i].tank))
      BY <2>2, Roll DEF Replaced
    <3>4. w # 0
      BY <3>3, BotsConstants
    <3> HIDE DEF w
    <3>5. \A t, n : [[tank |-> t, wait |-> n] EXCEPT !.wait = @ - 1] = [tank |-> t, wait |-> n - 1]
      OBVIOUS
    <3>6. Sooner(left[i]) = [tank |-> entries[i].tank, wait |-> IF w = None THEN None ELSE w - 1]
      BY <3>2, <3>4, <3>5 DEF Sooner
    <3>7. (IF w = None THEN None ELSE w - 1) = NextWait(entries[i])
      BY BotsConstants DEF w, NextWait
    <3>8. QED
      BY <2>2, <3>1, <3>6, <3>7
  <2>3. QED
    BY <2>1, <2>2
<1>9. /\ condition' \in [Bot -> Conditions]
      /\ \A t \in Bot : /\ t \in InGame \cup new => condition'[t] \in Fate(t, new)
                        /\ t \notin InGame \cup new => condition'[t] = "out"
  <2>1. PICK fate \in [InGame \cup new -> Conditions] :
          /\ \A t \in DOMAIN fate : fate[t] \in Fate(t, new)
          /\ condition' = [t \in Bot |-> IF t \in DOMAIN fate THEN fate[t] ELSE "out"]
    BY <1>3 DEF Turn
  <2>2. "out" \in Conditions /\ DOMAIN fate = InGame \cup new
    BY DEF Conditions
  <2>3. QED
    BY <2>1, <2>2
<1>10. deadFor' = [t \in Bot |->
                 IF condition'[t] \in {"alive", "weak"} \/ t \notin Tracked'
                 THEN 0 ELSE Min({1 + IF t \in new THEN 0 ELSE deadFor[t], PracticeDelay})]
  BY <1>3 DEF Turn
<1> HIDE DEF new, left, free
<1>11. new \subseteq Bot \ (InGame \cup Tracked)
  BY <1>6 DEF free
<1>12. PracticeTurn(spawn, new)
  BY <1>6, <1>7, <1>8, <1>9, <1>10, <1>11 DEF PracticeTurn
<1>13. QED
  BY <1>12

LEMMA MinOfTwo ==
  ASSUME NEW a \in Int, NEW b \in Int
  PROVE  Min({a, b}) = IF a <= b THEN a ELSE b
BY DEF Min

LEMMA TickTypes ==
  ASSUME BotsAssumption, BInv, Tick
  PROVE  /\ condition' \in [Bot -> Conditions]
         /\ deadFor' \in [Bot -> 0 .. PracticeDelay]
         /\ mode' = mode
<1>1. PICK left, spawn, new : Turn(left, spawn, new)
  BY DEF Tick
<1>2. mode' = mode
  BY <1>1 DEF Turn
<1>3. condition' \in [Bot -> Conditions]
  BY <1>1 DEF Turn, Conditions
<1>4. ASSUME NEW t \in Bot
      PROVE  Min({1 + IF t \in new THEN 0 ELSE deadFor[t], PracticeDelay}) \in 0 .. PracticeDelay
  <2>1. (1 + IF t \in new THEN 0 ELSE deadFor[t]) \in Int
    BY DEF BInv
  <2>2. (1 + IF t \in new THEN 0 ELSE deadFor[t]) >= 0
    BY DEF BInv
  <2>3. PracticeDelay \in Int /\ PracticeDelay >= 0
    BY BotsConstants
  <2> DEFINE n == 1 + IF t \in new THEN 0 ELSE deadFor[t]
  <2> HIDE DEF n
  <2>4. Min({n, PracticeDelay}) = IF n <= PracticeDelay THEN n ELSE PracticeDelay
    BY <2>1, <2>3, MinOfTwo DEF n
  <2>5. Min({n, PracticeDelay}) \in 0 .. PracticeDelay
    BY <2>1, <2>2, <2>3, <2>4 DEF n
  <2>6. QED
    BY <2>5 DEF n
<1>5. 0 \in 0 .. PracticeDelay
  BY BotsConstants
<1>6. deadFor' \in [Bot -> 0 .. PracticeDelay]
  BY <1>1, <1>4, <1>5 DEF Turn
<1>7. QED
  BY <1>2, <1>3, <1>6

\* An entry of a roster, and what Act and the tick make of it unless its tank is replaced.
LEMMA KeptEntry ==
  ASSUME BotsAssumption, BInv, mode = "practice", NEW i \in 1 .. Target, ~ Replaced(i)
  PROVE  /\ i \in DOMAIN entries
         /\ entries[i].tank \in Bot /\ entries[i].tank \in Tracked
         /\ entries[i].wait \in 0 .. PracticeDelay \cup {None}
         /\ entries[i].wait = 0 => IsAlive(entries[i].tank)
         /\ Waiting(entries[i])
<1>1. i \in DOMAIN entries /\ (entries[i].wait = 0 => IsAlive(entries[i].tank))
  BY Roll DEF Replaced
<1>2. entries \in Roster /\ Waiting(entries[i])
  BY <1>1 DEF BInv, PracticeSound
<1>3. entries[i].tank \in Bot /\ entries[i].wait \in 0 .. PracticeDelay \cup {None}
  BY <1>2 DEF Roster
<1>4. QED
  BY <1>1, <1>2, <1>3 DEF Tracked

LEMMA PracticeStep ==
  ASSUME BotsAssumption, BInv, mode = "practice", NEW spawn, NEW new, PracticeTurn(spawn, new)
  PROVE  PracticeSound'
<1>1. ASSUME NEW i \in 1 .. Target
      PROVE  entries'[i] \in [tank : Bot, wait : 0 .. PracticeDelay \cup {None}]
  <2>1. CASE Replaced(i)
    BY <2>1 DEF PracticeTurn
  <2>2. CASE ~ Replaced(i)
    <3>1. entries'[i] = [tank |-> entries[i].tank, wait |-> NextWait(entries[i])]
      BY <2>2 DEF PracticeTurn
    <3>2. NextWait(entries[i]) \in 0 .. PracticeDelay \cup {None}
      BY <2>2, KeptEntry, BotsConstants DEF NextWait
    <3>3. QED
      BY <2>2, <3>1, <3>2, KeptEntry
  <2>3. QED
    BY <2>1, <2>2
<1>2. entries' \in Roster'
  BY <1>1 DEF PracticeTurn, Roster
<1>3. ASSUME NEW i \in 1 .. Target
      PROVE  i \in DOMAIN entries' /\ entries'[i].tank \in Tracked'
  BY <1>2 DEF Roster, Tracked
<1>4. ASSUME NEW t \in Bot, condition'[t] # "out"
      PROVE  t \in Tracked'
  <2>1. t \in InGame \cup new
    BY <1>4 DEF PracticeTurn
  <2>2. CASE t \in new
    <3>1. PICK i \in 1 .. Target : Replaced(i) /\ spawn[i] = t
      BY <2>2 DEF PracticeTurn
    <3>2. entries'[i].tank = t
      BY <3>1 DEF PracticeTurn
    <3>3. QED
      BY <3>2, <1>3
  <2>3. CASE t \in InGame /\ t \notin new
    <3>1. PICK i \in DOMAIN entries : entries[i].tank = t
      BY <2>3 DEF BInv, PracticeSound, Tracked
    <3>2. i \in 1 .. Target /\ Waiting(entries[i])
      BY <3>1 DEF BInv, PracticeSound, Roster
    <3>3. ~ Replaced(i)
      <4> SUFFICES ASSUME Replaced(i) PROVE FALSE
        OBVIOUS
      <4>1. entries[i].wait = 0 /\ ~ IsAlive(t)
        BY <3>1, <3>2, Roll DEF Replaced
      <4>2. condition[t] \in {"weak", "down", "out"}
        BY <3>1, <3>2, <4>1, BotsConstants DEF Waiting
      <4>3. condition[t] = "down"
        BY <2>3, <4>1, <4>2 DEF IsAlive, InGame
      <4>4. condition'[t] \in Fate(t, new)
        BY <2>1 DEF PracticeTurn
      <4>5. QED
        BY <2>3, <4>3, <4>4, <1>4 DEF Fate
    <3>4. entries'[i].tank = t
      BY <3>1, <3>2, <3>3 DEF PracticeTurn
    <3>5. QED
      BY <3>2, <3>4, <1>3
  <2>4. QED
    BY <2>1, <2>2, <2>3
<1>5. ASSUME NEW i \in 1 .. Target
      PROVE  Waiting(entries[i])'
  <2>1. CASE Replaced(i)
    <3>1. entries'[i].wait = None
      BY <2>1 DEF PracticeTurn
    <3>2. QED
      BY <3>1 DEF Waiting
  <2>2. CASE ~ Replaced(i)
    <3> DEFINE t == entries[i].tank
               wait == entries[i].wait
    <3>1. entries'[i].tank = t /\ entries'[i].wait = NextWait(entries[i])
      BY <2>2 DEF PracticeTurn
    <3>2. t \in Bot /\ t \in Tracked /\ t \in Tracked' /\ Waiting(entries[i])
      BY <2>2, <3>1, <1>3, KeptEntry
    <3>3. wait \in 0 .. PracticeDelay \cup {None} /\ (wait = 0 => IsAlive(t))
      BY <2>2, KeptEntry
    <3>4. t \notin new
      BY <3>2 DEF PracticeTurn
    <3>5. SUFFICES ASSUME NextWait(entries[i]) # None
                   PROVE  /\ condition'[t] \in {"weak", "down", "out"}
                          /\ condition'[t] \notin {"alive", "weak"} =>
                                deadFor'[t] + NextWait(entries[i]) >= PracticeDelay
      BY <3>1 DEF Waiting, IsAlive
    <3>6. ~ IsAlive(t)
      BY <3>5 DEF NextWait
    <3>7. condition'[t] \in {"weak", "down", "out"}
      <4>1. condition[t] \in {"grazed", "down", "out"}
        BY <3>2, <3>6 DEF BInv, Conditions, IsAlive
      <4>2. CASE condition[t] = "out"
        BY <3>2, <3>4, <4>2 DEF InGame, PracticeTurn
      <4>3. CASE condition[t] # "out"
        <5>1. condition'[t] \in Fate(t, new)
          BY <3>2, <4>3 DEF InGame, PracticeTurn
        <5>2. QED
          BY <3>4, <4>1, <4>3, <5>1 DEF Fate
      <4>4. QED
        BY <4>2, <4>3
    <3>8. ASSUME condition'[t] \notin {"alive", "weak"}
          PROVE  deadFor'[t] + NextWait(entries[i]) >= PracticeDelay
      <4>1. deadFor'[t] = Min({1 + deadFor[t], PracticeDelay})
        BY <3>2, <3>4, <3>8 DEF PracticeTurn
      <4>2. deadFor[t] \in Nat
        BY <3>2 DEF BInv
      <4>3. Min({1 + deadFor[t], PracticeDelay})
              = IF 1 + deadFor[t] <= PracticeDelay THEN 1 + deadFor[t] ELSE PracticeDelay
        BY <4>2, MinOfTwo, BotsConstants
      <4>4. CASE wait = None
        <5>1. NextWait(entries[i]) = PracticeDelay - 1
          BY <3>6, <4>4 DEF NextWait
        <5>2. QED
          BY <4>1, <4>2, <4>3, <5>1, BotsConstants
      <4>5. CASE wait # None
        <5>1. NextWait(entries[i]) = wait - 1
          BY <3>6, <4>5 DEF NextWait
        <5>2. deadFor[t] + wait >= PracticeDelay
          BY <3>2, <3>6, <4>5 DEF Waiting
        <5>3. wait \in Nat /\ wait > 0
          BY <3>3, <3>6, <4>5, BotsConstants
        <5> HIDE DEF t, wait
        <5>4. QED
          BY <4>1, <4>2, <4>3, <5>1, <5>2, <5>3, BotsConstants
      <4>6. QED
        BY <4>4, <4>5
    <3>9. QED
      BY <3>7, <3>8
  <2>3. QED
    BY <2>1, <2>2
<1>6. InGame' \subseteq Tracked'
  BY <1>4 DEF InGame
<1>7. \A i \in DOMAIN entries' : Waiting(entries[i])'
  BY <1>2, <1>5 DEF Roster
<1>8. QED
  BY <1>2, <1>6, <1>7 DEF PracticeSound

LEMMA NextBInv ==
  ASSUME BotsAssumption, BInv, [Tick]_vars
  PROVE  BInv'
<1>1. CASE UNCHANGED vars
  BY <1>1 DEF vars, BInv, PracticeSound, Roster, Waiting, InGame, Tracked, IsAlive
<1>2. CASE Tick
  <2>1. mode = "practice" => PracticeSound'
    BY <1>2, PracticeTick, PracticeStep
  <2>2. QED
    BY <1>2, <2>1, TickTypes DEF BInv
<1>3. QED
  BY <1>1, <1>2

THEOREM BotsInductive == ASSUME BotsAssumption PROVE Spec => []BInv
<1>1. Init => BInv
  BY InitBInv
<1>2. BInv /\ [Tick]_vars => BInv'
  BY NextBInv
<1>3. QED
  BY <1>1, <1>2, PTL DEF Spec

LEMMA TrackedFinite ==
  ASSUME BotsAssumption, BInv, mode = "practice"
  PROVE  IsFiniteSet(Tracked) /\ Cardinality(Tracked) <= Target
<1>1. CASE entries = <<>>
  <2>1. Tracked = {}
    BY <1>1 DEF Tracked
  <2>2. QED
    BY <2>1, FS_EmptySet, BotsConstants
<1>2. CASE entries \in Roster
  <2> DEFINE tank == [i \in 1 .. Target |-> entries[i].tank]
  <2>1. tank \in Surjection(1 .. Target, Tracked)
    BY <1>2 DEF Roster, Tracked, Surjection
  <2>2. IsFiniteSet(1 .. Target) /\ Cardinality(1 .. Target) = Target
    BY FS_Interval, BotsConstants
  <2>3. QED
    BY <2>1, <2>2, FS_Surjection
<1>3. QED
  BY <1>1, <1>2 DEF BInv, PracticeSound

\* In practice mode there are never more living bots than the mode wants, whatever the
\* target, and every one of them has an entry.
THEOREM BotsPracticePopulation == ASSUME BotsAssumption PROVE Spec => []PracticePopulation
<1>1. BInv => PracticePopulation
  <2> SUFFICES ASSUME BInv, mode = "practice" PROVE Living \subseteq Tracked /\ PopulationBound
    BY DEF PracticePopulation
  <2>1. Living \subseteq Tracked
    BY DEF Living, IsAlive, BInv, PracticeSound, InGame
  <2>2. IsFiniteSet(Tracked) /\ Cardinality(Tracked) <= Target
    BY TrackedFinite
  <2>3. Cardinality(Living) <= Cardinality(Tracked) /\ IsFiniteSet(Living)
    BY <2>1, <2>2, FS_Subset
  <2>4. Cardinality(Living) \in Nat /\ Cardinality(Tracked) \in Nat
    BY <2>2, <2>3, FS_CardinalityType
  <2>5. Cardinality(Living) <= Target
    BY <2>2, <2>3, <2>4, BotsConstants
  <2>6. QED
    BY <2>1, <2>5 DEF PopulationBound
<1>2. QED
  BY <1>1, BotsInductive, PTL

\* No practice bot is replaced before its own respawn delay has run, however often it is
\* killed and revived meanwhile.
THEOREM BotsPracticeDelayKept == ASSUME BotsAssumption PROVE Spec => PracticeDelayKept
<1> DEFINE Kept ==
        mode = "practice" =>
          \A i \in DOMAIN entries :
             entries'[i].tank # entries[i].tank => deadFor[entries[i].tank] >= PracticeDelay
<1>1. BInv /\ [Tick]_vars => [Kept]_vars
  <2> SUFFICES ASSUME BInv, Tick, mode = "practice", NEW i \in DOMAIN entries,
                      entries'[i].tank # entries[i].tank
               PROVE  deadFor[entries[i].tank] >= PracticeDelay
    BY DEF Kept
  <2>1. PICK spawn, new : PracticeTurn(spawn, new)
    BY PracticeTick
  <2>2. i \in 1 .. Target /\ Waiting(entries[i]) /\ entries[i].tank \in Bot
    BY DEF BInv, PracticeSound, Roster
  <2>3. Replaced(i)
    BY <2>1, <2>2 DEF PracticeTurn
  <2>4. entries[i].wait = 0 /\ ~ IsAlive(entries[i].tank)
    BY <2>2, <2>3, Roll DEF Replaced
  <2>5. deadFor[entries[i].tank] + 0 >= PracticeDelay
    BY <2>2, <2>4, BotsConstants DEF Waiting
  <2>6. QED
    BY <2>2, <2>5 DEF BInv
<1>2. QED
  BY <1>1, BotsInductive, PTL DEF Spec, PracticeDelayKept

-----------------------------------------------------------------------------
(* Who has the entries, in every mode.                                     *)

\* The least-number principle.
LEMMA LeastNumber ==
  ASSUME NEW S \in SUBSET Nat, S # {}
  PROVE  \E m \in S : \A k \in S : m <= k
<1>1. PICK m \in S : \A k \in S : <<k, m>> \notin OpToRel(<, Nat)
  BY WFMin, NatLessThanWellFounded, Zenon
<1>2. \A k \in S : ~ (k < m)
  BY <1>1, Zenon DEF OpToRel
<1>3. \A k \in S : m <= k
  BY <1>2, SMT
<1>4. QED
  BY <1>3

Longest == Max({BossDelay, PracticeDelay})
Entry == [tank : Bot, wait : 0 .. Longest \cup {None}]
Limit == IF mode = "boss" THEN 1 ELSE Target

LEMMA Delays ==
  ASSUME BotsAssumption
  PROVE  /\ Longest \in Nat /\ BossDelay \in Nat /\ PracticeDelay \in Nat
         /\ BossDelay <= Longest /\ PracticeDelay <= Longest
         /\ Limit \in Nat /\ 1 <= Limit /\ Target \in Nat /\ WaveSize \in Nat /\ 1 <= Target
         /\ WaveInterval \in Nat /\ 1 <= WaveInterval
<1>1. /\ BossDelay \in Nat /\ PracticeDelay \in Nat /\ Target \in Nat /\ WaveSize \in Nat
      /\ WaveInterval \in Nat /\ 1 <= Target /\ 1 <= WaveInterval
  BY DEF BotsAssumption
<1>2. \A a, b \in Nat : Max({a, b}) = IF a <= b THEN b ELSE a
  BY DEF Max
<1>3. QED
  BY <1>1, <1>2 DEF Longest, Limit

\* The function StillAlive is built on, for the first n entries.
IsKept(kept, n) ==
    kept = [k \in 0 .. n |->
              IF k = 0 THEN <<>>
              ELSE IF IsAlive(entries[k].tank) THEN Append(kept[k - 1], entries[k])
              ELSE kept[k - 1]]

LEMMA KeptExists ==
  ASSUME NEW n \in Nat
  PROVE  \E kept : IsKept(kept, n)
<1> DEFINE Bad == {m \in Nat : ~ \E kept : IsKept(kept, m)}
<1>1. SUFFICES ASSUME Bad # {} PROVE FALSE
  OBVIOUS
<1>2. PICK m \in Bad : \A k \in Bad : m <= k
  BY <1>1, LeastNumber
<1>3. CASE m = 0
  <2>1. IsKept([k \in 0 .. 0 |-> <<>>], 0)
    BY DEF IsKept
  <2>2. QED
    BY <1>2, <1>3, <2>1
<1>4. CASE m # 0
  <2>1. m - 1 \in Nat /\ m - 1 \notin Bad
    BY <1>2, <1>4
  <2>2. PICK before : IsKept(before, m - 1)
    BY <2>1
  <2> DEFINE value(k) == IF k = 0 THEN <<>>
                         ELSE IF IsAlive(entries[k].tank) THEN Append(before[k - 1], entries[k])
                         ELSE before[k - 1]
             kept == [k \in 0 .. m |-> value(k)]
  <2>3. ASSUME NEW k \in 0 .. m
        PROVE  kept[k] = IF k = 0 THEN <<>>
                         ELSE IF IsAlive(entries[k].tank) THEN Append(kept[k - 1], entries[k])
                         ELSE kept[k - 1]
    <3>1. CASE k = 0
      BY <3>1
    <3>2. CASE k # 0
      <4>1. k - 1 \in 0 .. m - 1 /\ k - 1 \in 0 .. m
        BY <1>2, <3>2
      <4>2. before[k - 1] = value(k - 1)
        BY <2>2, <4>1 DEF IsKept
      <4>3. kept[k - 1] = value(k - 1) /\ kept[k] = value(k)
        BY <4>1
      <4> HIDE DEF kept
      <4>4. QED
        BY <3>2, <4>2, <4>3
    <3>3. QED
      BY <3>1, <3>2
  <2>4. kept = [k \in 0 .. m |-> kept[k]]
    OBVIOUS
  <2> HIDE DEF kept
  <2>5. IsKept(kept, m)
    BY <2>3, <2>4 DEF IsKept
  <2>6. QED
    BY <1>2, <2>5
<1>5. QED
  BY <1>3, <1>4

NoTwins(s) == \A i, j \in DOMAIN s : s[i].tank = s[j].tank => i = j

\* Some of the first n entries, each once.
Some(s, n) ==
    /\ s \in Seq(Entry) /\ Len(s) <= n
    /\ \A i \in DOMAIN s : \E k \in 1 .. n : s[i] = entries[k]
    /\ NoTwins(s)

LEMMA OneMore ==
  ASSUME entries \in Seq(Entry), NoTwins(entries), NEW n \in 1 .. Len(entries),
         NEW s, Some(s, n - 1)
  PROVE  Some(s, n) /\ Some(Append(s, entries[n]), n)
<1> DEFINE e == entries[n]
           r == Append(s, e)
<1>1. e \in Entry /\ n \in DOMAIN entries /\ n \in Nat
  OBVIOUS
<1>2. s \in Seq(Entry) /\ Len(s) <= n - 1 /\ NoTwins(s)
  BY DEF Some
<1>3. \A i \in DOMAIN s : \E k \in 1 .. n - 1 : s[i] = entries[k]
  BY DEF Some
<1>4. r \in Seq(Entry) /\ Len(r) = Len(s) + 1 /\ r[Len(s) + 1] = e
  BY <1>1, <1>2
<1>5. \A i \in 1 .. Len(s) : r[i] = s[i]
  BY <1>1, <1>2
<1>6. DOMAIN s = 1 .. Len(s) /\ DOMAIN r = 1 .. Len(s) + 1 /\ Len(s) \in Nat
  BY <1>2, <1>4
<1>7. \A i \in DOMAIN s : s[i].tank # e.tank
  <2> SUFFICES ASSUME NEW i \in DOMAIN s PROVE s[i].tank # e.tank
    OBVIOUS
  <2>1. PICK k \in 1 .. n - 1 : s[i] = entries[k]
    BY <1>3
  <2>2. k \in DOMAIN entries /\ k # n
    BY <1>1
  <2>3. entries[k].tank # entries[n].tank
    BY <1>1, <2>2 DEF NoTwins
  <2>4. QED
    BY <2>1, <2>3
<1> HIDE DEF e, r
<1>8. NoTwins(r)
  <2> SUFFICES ASSUME NEW i \in DOMAIN r, NEW j \in DOMAIN r, r[i].tank = r[j].tank
               PROVE  i = j
    BY DEF NoTwins
  <2>1. CASE i \in DOMAIN s /\ j \in DOMAIN s
    BY <1>2, <1>5, <1>6, <2>1 DEF NoTwins
  <2>2. CASE i \notin DOMAIN s \/ j \notin DOMAIN s
    BY <1>4, <1>5, <1>6, <1>7, <2>2
  <2>3. QED
    BY <2>1, <2>2
<1>9. \A i \in DOMAIN r : \E k \in 1 .. n : r[i] = entries[k]
  <2> SUFFICES ASSUME NEW i \in DOMAIN r PROVE \E k \in 1 .. n : r[i] = entries[k]
    OBVIOUS
  <2>1. CASE i \in DOMAIN s
    <3>1. PICK k \in 1 .. n - 1 : s[i] = entries[k]
      BY <1>3, <2>1
    <3>2. k \in 1 .. n /\ r[i] = entries[k]
      BY <1>1, <1>5, <1>6, <2>1, <3>1
    <3>3. QED
      BY <3>2
  <2>2. CASE i \notin DOMAIN s
    BY <1>1, <1>4, <1>6, <2>2 DEF e
  <2>3. QED
    BY <2>1, <2>2
<1>10. Some(s, n)
  BY <1>1, <1>2, <1>3 DEF Some
<1>11. Some(r, n)
  BY <1>1, <1>2, <1>4, <1>6, <1>8, <1>9 DEF Some
<1>12. QED
  BY <1>10, <1>11 DEF r, e

LEMMA StillAliveFacts ==
  ASSUME entries \in Seq(Entry), NoTwins(entries)
  PROVE  Some(StillAlive, Len(entries))
<1> DEFINE n == Len(entries)
           kept == CHOOSE f : IsKept(f, n)
<1>1. n \in Nat
  OBVIOUS
<1>2. StillAlive = kept[n]
  BY DEF StillAlive, IsKept
<1>3. IsKept(kept, n)
  BY <1>1, KeptExists
<1> HIDE DEF kept
<1> DEFINE Bad == {k \in 0 .. n : ~ Some(kept[k], k)}
<1>4. SUFFICES ASSUME Bad # {} PROVE FALSE
  BY <1>1, <1>2
<1>5. Bad \in SUBSET Nat
  BY <1>1
<1>6. PICK m \in Bad : \A k \in Bad : m <= k
  BY <1>4, <1>5, LeastNumber
<1>7. CASE m = 0
  <2>1. kept[0] = <<>>
    BY <1>1, <1>3 DEF IsKept
  <2>2. Some(<<>>, 0)
    BY DEF Some, NoTwins
  <2>3. QED
    BY <1>6, <1>7, <2>1, <2>2
<1>8. CASE m # 0
  <2>1. m \in 1 .. n /\ m - 1 \in 0 .. n /\ m - 1 \notin Bad
    BY <1>1, <1>6, <1>8
  <2>2. Some(kept[m - 1], m - 1)
    BY <2>1
  <2>3. Some(kept[m - 1], m) /\ Some(Append(kept[m - 1], entries[m]), m)
    BY <2>1, <2>2, OneMore
  <2>4. kept[m] = IF IsAlive(entries[m].tank) THEN Append(kept[m - 1], entries[m])
                  ELSE kept[m - 1]
    BY <1>3, <1>8, <2>1 DEF IsKept
  <2>5. QED
    BY <1>6, <2>3, <2>4
<1>9. QED
  BY <1>7, <1>8

\* What Act may leave: entries with tanks that had one before, each once, and vacancies.
LeftSound(left) ==
    /\ left \in Seq(Entry \cup {Vacant})
    /\ Len(left) <= Limit
    /\ \A i \in DOMAIN left : left[i] # Vacant => left[i] \in Entry /\ left[i].tank \in Tracked
    /\ \A i, j \in DOMAIN left :
          left[i] # Vacant /\ left[j] # Vacant /\ left[i].tank = left[j].tank => i = j

LEMMA EntryFacts ==
  ASSUME BotsAssumption, TypeOK
  PROVE  /\ entries \in Seq(Entry) /\ NoTwins(entries) /\ Len(entries) <= Limit
         /\ DOMAIN entries = 1 .. Len(entries) /\ Len(entries) \in Nat
         /\ \A i \in DOMAIN entries :
              /\ entries[i] \in Entry /\ entries[i].tank \in Bot /\ entries[i].tank \in Tracked
              /\ entries[i].wait \in 0 .. Longest \cup {None}
              /\ entries[i] = [tank |-> entries[i].tank, wait |-> entries[i].wait]
<1>1. entries \in Seq(Entry) /\ NoTwins(entries) /\ Len(entries) <= Limit
  BY DEF TypeOK, Entry, Longest, Limit, NoTwins
<1>2. ASSUME NEW i \in DOMAIN entries
      PROVE  /\ entries[i] \in Entry /\ entries[i].tank \in Bot /\ entries[i].tank \in Tracked
             /\ entries[i].wait \in 0 .. Longest \cup {None}
             /\ entries[i] = [tank |-> entries[i].tank, wait |-> entries[i].wait]
  <2>1. entries[i] \in Entry
    BY <1>1
  <2>2. QED
    BY <2>1 DEF Entry, Tracked
<1>3. QED
  BY <1>1, <1>2

LEMMA Joined ==
  ASSUME NEW S, NEW a \in Seq(S), NEW b \in Seq(S)
  PROVE  /\ a \o b \in Seq(S) /\ Len(a \o b) = Len(a) + Len(b)
         /\ \A i \in 1 .. Len(a \o b) : (a \o b)[i] = IF i <= Len(a) THEN a[i] ELSE b[i - Len(a)]
OBVIOUS

LEMMA ZombiesLeft ==
  ASSUME BotsAssumption, TypeOK, mode = "zombies"
  PROVE  LeftSound(ActZombies)
<1>1. /\ entries \in Seq(Entry) /\ NoTwins(entries) /\ Len(entries) <= Limit /\ Limit = Target
      /\ DOMAIN entries = 1 .. Len(entries)
  BY EntryFacts DEF Limit
<1>2. CASE phase # 0
  <2>1. ActZombies = entries
    BY <1>2 DEF ActZombies
  <2>2. entries \in Seq(Entry \cup {Vacant})
    BY <1>1
  <2>3. QED
    BY <1>1, <2>1, <2>2, EntryFacts DEF LeftSound, NoTwins
<1>3. CASE phase = 0
  <2> DEFINE s == StillAlive
             wave == Min({WaveSize, Target - Len(s)})
             new == [i \in 1 .. wave |-> Vacant]
             left == s \o new
  <2>1. ActZombies = left
    BY <1>3 DEF ActZombies
  <2>2. Some(s, Len(entries))
    BY <1>1, StillAliveFacts
  <2> HIDE DEF s
  <2>3. s \in Seq(Entry) /\ Len(s) <= Len(entries) /\ NoTwins(s)
    BY <2>2 DEF Some
  <2>4. ASSUME NEW i \in DOMAIN s
        PROVE  s[i] \in Entry /\ s[i].tank \in Tracked
    <3>1. PICK k \in 1 .. Len(entries) : s[i] = entries[k]
      BY <2>2 DEF Some
    <3>2. QED
      BY <1>1, <3>1, EntryFacts
  <2>5. Len(s) \in Nat /\ Len(s) <= Target /\ Len(entries) \in Nat
    BY <1>1, <2>3, Delays
  <2>6. wave \in Nat /\ wave <= Target - Len(s)
    <3>1. Target - Len(s) \in Nat /\ WaveSize \in Nat
      BY <2>5, Delays
    <3>2. \A a, b \in Nat : Min({a, b}) \in Nat /\ Min({a, b}) <= b
      BY DEF Min
    <3>3. QED
      BY <3>1, <3>2
  <2> HIDE DEF wave
  <2>7. new \in Seq(Entry \cup {Vacant}) /\ Len(new) = wave
    BY <2>6
  <2>8. s \in Seq(Entry \cup {Vacant})
    BY <2>3
  <2>9. /\ left \in Seq(Entry \cup {Vacant}) /\ Len(left) = Len(s) + wave
        /\ \A i \in 1 .. Len(left) : left[i] = IF i <= Len(s) THEN s[i] ELSE new[i - Len(s)]
    <3>1. /\ s \o new \in Seq(Entry \cup {Vacant}) /\ Len(s \o new) = Len(s) + Len(new)
          /\ \A i \in 1 .. Len(s \o new) :
                (s \o new)[i] = IF i <= Len(s) THEN s[i] ELSE new[i - Len(s)]
      BY <2>7, <2>8, Joined
    <3>2. QED
      BY <2>7, <3>1
  <2>10. Len(left) <= Limit
    BY <1>1, <2>5, <2>6, <2>9, Delays
  <2>11. ASSUME NEW i \in DOMAIN left, left[i] # Vacant
         PROVE  i \in DOMAIN s /\ left[i] = s[i]
    <3>1. i \in 1 .. Len(s) + wave /\ i \in Nat
      BY <2>5, <2>6, <2>9
    <3>2. CASE i <= Len(s)
      BY <2>3, <2>5, <2>9, <3>1, <3>2
    <3>3. CASE i > Len(s)
      <4>1. left[i] = new[i - Len(s)] /\ i - Len(s) \in 1 .. wave
        BY <2>5, <2>6, <2>9, <3>1, <3>3
      <4>2. left[i] = Vacant
        BY <4>1
      <4>3. QED
        BY <2>11, <4>2
    <3>4. QED
      BY <2>5, <3>1, <3>2, <3>3
  <2> HIDE DEF left, new
  <2>12. LeftSound(left)
    BY <2>3, <2>4, <2>9, <2>10, <2>11 DEF LeftSound, NoTwins
  <2>13. QED
    BY <2>1, <2>12
<1>4. QED
  BY <1>2, <1>3

LEMMA BossLeft ==
  ASSUME BotsAssumption, TypeOK, mode = "boss"
  PROVE  LeftSound(ActBoss)
<1>1. /\ entries \in Seq(Entry) /\ NoTwins(entries) /\ Len(entries) <= 1 /\ Limit = 1
      /\ DOMAIN entries = 1 .. Len(entries) /\ Len(entries) \in Nat
  BY EntryFacts DEF Limit
<1>2. CASE entries = <<>>
  <2>1. ActBoss = <<Vacant>>
    BY <1>2 DEF ActBoss
  <2>2. \A v : /\ <<v>> \in Seq(Entry \cup {v}) /\ Len(<<v>>) = 1
               /\ \A i \in DOMAIN <<v>> : i = 1 /\ <<v>>[i] = v
    OBVIOUS
  <2>3. QED
    BY <1>1, <2>1, <2>2 DEF LeftSound
<1>3. CASE entries # <<>> /\ IsAlive(entries[1].tank)
  <2>1. ActBoss = entries
    BY <1>3 DEF ActBoss
  <2>2. entries \in Seq(Entry \cup {Vacant})
    BY <1>1
  <2>3. QED
    BY <1>1, <2>1, <2>2, EntryFacts DEF LeftSound, NoTwins
<1>4. CASE entries # <<>> /\ ~ IsAlive(entries[1].tank)
  <2> DEFINE e == entries[1]
             r == Respawning(e, BossDelay)
  <2>1. ActBoss = <<r>>
    BY <1>4 DEF ActBoss
  <2>2. 1 \in DOMAIN entries
    BY <1>1, <1>4
  <2>3. r = Vacant \/ (r \in Entry /\ r.tank = e.tank)
    <3>1. /\ e = [tank |-> e.tank, wait |-> e.wait] /\ e.tank \in Bot /\ e \in Entry
      BY <2>2, EntryFacts
    <3>2. [e EXCEPT !.wait = BossDelay] = [tank |-> e.tank, wait |-> BossDelay]
      BY <3>1
    <3>3. BossDelay \in 0 .. Longest \cup {None}
      BY Delays
    <3> HIDE DEF e
    <3>4. QED
      BY <3>1, <3>2, <3>3 DEF Respawning, Entry
  <2>4. e.tank \in Tracked
    BY <2>2, EntryFacts
  <2> HIDE DEF r, e
  <2>5. r \in Entry \cup {Vacant} /\ (r # Vacant => r \in Entry /\ r.tank \in Tracked)
    BY <2>3, <2>4
  <2>6. \A v : /\ v \in Entry \cup {Vacant} => <<v>> \in Seq(Entry \cup {Vacant})
               /\ Len(<<v>>) = 1 /\ \A i \in DOMAIN <<v>> : i = 1 /\ <<v>>[i] = v
    OBVIOUS
  <2>7. QED
    BY <1>1, <2>1, <2>5, <2>6 DEF LeftSound
<1>5. QED
  BY <1>2, <1>3, <1>4

LEMMA PracticeLeft ==
  ASSUME BotsAssumption, TypeOK, mode = "practice"
  PROVE  LeftSound(ActPractice)
<1> DEFINE left == ActPractice
<1>1. /\ entries \in Seq(Entry) /\ NoTwins(entries) /\ Limit = Target /\ Target \in Nat
      /\ DOMAIN entries = 1 .. Len(entries) /\ Len(entries) \in Nat
  BY EntryFacts, Delays DEF Limit
<1>2. ASSUME NEW i \in 1 .. Target
      PROVE  \/ left[i] = Vacant
             \/ i \in DOMAIN entries /\ left[i] \in Entry /\ left[i].tank = entries[i].tank
  <2>1. CASE i > Len(entries)
    BY <2>1 DEF ActPractice
  <2>2. CASE ~ (i > Len(entries))
    <3> DEFINE e == entries[i]
    <3>1. i \in DOMAIN entries
      BY <1>1, <2>2
    <3>2. left[i] = IF IsAlive(e.tank) THEN Unscheduled(e) ELSE Respawning(e, PracticeDelay)
      BY <2>2 DEF ActPractice
    <3>3. e = [tank |-> e.tank, wait |-> e.wait] /\ e.tank \in Bot /\ e \in Entry
      BY <3>1, EntryFacts
    <3>4. \A w : [e EXCEPT !.wait = w] = [tank |-> e.tank, wait |-> w]
      BY <3>3
    <3>5. None \in 0 .. Longest \cup {None} /\ PracticeDelay \in 0 .. Longest \cup {None}
      BY Delays
    <3> HIDE DEF e, left
    <3>6. left[i] = Vacant \/ (left[i] \in Entry /\ left[i].tank = e.tank)
      BY <3>2, <3>3, <3>4, <3>5 DEF Respawning, Unscheduled, Entry
    <3>7. QED
      BY <3>1, <3>6 DEF e
  <2>3. QED
    BY <2>1, <2>2
<1>3. left = [i \in 1 .. Target |-> left[i]]
  BY DEF ActPractice
<1> HIDE DEF left
<1>4. \A i \in 1 .. Target : left[i] \in Entry \cup {Vacant}
  BY <1>2
<1>5. left \in Seq(Entry \cup {Vacant}) /\ Len(left) = Target /\ DOMAIN left = 1 .. Target
  BY <1>1, <1>3, <1>4
<1>6. \A i \in 1 .. Target :
         left[i] # Vacant => /\ i \in DOMAIN entries /\ left[i] \in Entry
                             /\ left[i].tank = entries[i].tank /\ left[i].tank \in Tracked
  BY <1>2, EntryFacts
<1>7. LeftSound(left)
  BY <1>1, <1>5, <1>6 DEF LeftSound, NoTwins
<1>8. QED
  BY <1>7 DEF left

LEMMA ActLeft ==
  ASSUME BotsAssumption, TypeOK
  PROVE  LeftSound(Act)
<1>1. mode \in {"zombies", "boss", "practice"}
  BY DEF TypeOK
<1>2. QED
  BY <1>1, ZombiesLeft, BossLeft, PracticeLeft DEF Act

\* The vacancies go to tanks that are neither in the game nor any entry's, each to one.
LEMMA SpawnFacts ==
  ASSUME NEW left, NEW spawn \in Spawns(left)
  PROVE  /\ spawn \in [Vacancies(left) -> Bot \ (InGame \cup Tracked)]
         /\ \A i, j \in Vacancies(left) : spawn[i] = spawn[j] => i = j
<1> DEFINE ways == Injection(Vacancies(left), Bot \ (InGame \cup Tracked))
<1>1. Spawns(left) = IF ways = {} THEN {} ELSE {CHOOSE f \in ways : TRUE}
  BY DEF Spawns
<1> HIDE DEF ways
<1>2. ways # {} /\ spawn = CHOOSE f \in ways : TRUE
  BY <1>1
<1>3. spawn \in ways
  BY <1>2
<1>4. QED
  BY <1>3 DEF ways, Injection, IsInjective

LEMMA EntriesStep ==
  ASSUME BotsAssumption, NEW left, LeftSound(left), NEW spawn \in Spawns(left),
         Turn(left, spawn, Range(spawn))
  PROVE  entries' \in Seq(Entry) /\ NoTwins(entries') /\ Len(entries') <= Limit
<1>1. /\ left \in Seq(Entry \cup {Vacant}) /\ Len(left) <= Limit
      /\ \A i \in DOMAIN left : left[i] # Vacant => left[i] \in Entry /\ left[i].tank \in Tracked
      /\ \A i, j \in DOMAIN left :
            left[i] # Vacant /\ left[j] # Vacant /\ left[i].tank = left[j].tank => i = j
  BY DEF LeftSound
<1>2. DOMAIN left = 1 .. Len(left) /\ Len(left) \in Nat
  BY <1>1
<1>3. /\ spawn \in [Vacancies(left) -> Bot \ (InGame \cup Tracked)]
      /\ \A i, j \in Vacancies(left) : spawn[i] = spawn[j] => i = j
  BY SpawnFacts
<1>4. entries' = [i \in DOMAIN left |->
         IF i \in DOMAIN spawn THEN [tank |-> spawn[i], wait |-> None] ELSE Sooner(left[i])]
  BY DEF Turn
<1>5. ASSUME NEW i \in DOMAIN left, left[i] = Vacant
      PROVE  /\ entries'[i] \in Entry /\ entries'[i].tank = spawn[i]
             /\ entries'[i].tank \notin Tracked /\ i \in Vacancies(left)
  <2>1. i \in Vacancies(left)
    BY <1>5 DEF Vacancies
  <2>2. entries'[i] = [tank |-> spawn[i], wait |-> None] /\ spawn[i] \in Bot \ (InGame \cup Tracked)
    BY <1>3, <1>4, <2>1
  <2>3. QED
    BY <2>1, <2>2 DEF Entry
<1>6. ASSUME NEW i \in DOMAIN left, left[i] # Vacant
      PROVE  /\ entries'[i] \in Entry /\ entries'[i].tank = left[i].tank
             /\ entries'[i].tank \in Tracked
  <2> DEFINE e == left[i]
  <2>1. i \notin DOMAIN spawn
    BY <1>3, <1>6 DEF Vacancies
  <2>2. entries'[i] = Sooner(e)
    BY <1>4, <2>1
  <2>3. e \in Entry /\ e.tank \in Tracked
    BY <1>1, <1>6
  <2> HIDE DEF e
  <2>4. /\ e = [tank |-> e.tank, wait |-> e.wait] /\ e.tank \in Bot
        /\ e.wait \in 0 .. Longest \cup {None}
    BY <2>3 DEF Entry
  <2>5. [e EXCEPT !.wait = @ - 1] = [tank |-> e.tank, wait |-> e.wait - 1]
    BY <2>4
  <2>6. e.wait # None /\ e.wait # 0 => e.wait - 1 \in 0 .. Longest \cup {None}
    BY <2>4, Delays
  <2>7. Sooner(e) \in Entry /\ Sooner(e).tank = e.tank
    BY <2>3, <2>4, <2>5, <2>6 DEF Sooner, Entry
  <2>8. QED
    BY <2>2, <2>3, <2>7 DEF e
<1>7. DOMAIN entries' = 1 .. Len(left) /\ entries' = [i \in 1 .. Len(left) |-> entries'[i]]
  BY <1>2, <1>4
<1>8. \A i \in 1 .. Len(left) : entries'[i] \in Entry
  BY <1>2, <1>5, <1>6
<1>9. entries' \in Seq(Entry) /\ Len(entries') = Len(left)
  BY <1>2, <1>7, <1>8
<1>10. NoTwins(entries')
  <2> SUFFICES ASSUME NEW i \in DOMAIN left, NEW j \in DOMAIN left,
                      entries'[i].tank = entries'[j].tank
               PROVE  i = j
    BY <1>2, <1>7 DEF NoTwins
  <2>1. CASE left[i] = Vacant /\ left[j] = Vacant
    BY <1>3, <1>5, <2>1
  <2>2. CASE left[i] # Vacant /\ left[j] # Vacant
    BY <1>1, <1>6, <2>2
  <2>3. CASE (left[i] = Vacant) # (left[j] = Vacant)
    BY <1>5, <1>6, <2>3
  <2>4. QED
    BY <2>1, <2>2, <2>3
<1>11. QED
  BY <1>1, <1>9, <1>10

LEMMA InitTypeOK ==
  ASSUME BotsAssumption, Init
  PROVE  TypeOK
<1>1. entries \in Seq(Entry) /\ Len(entries) = 0 /\ DOMAIN entries = {}
  BY DEF Init
<1>2. mode \in {"zombies", "boss", "practice"} /\ phase = 0
  BY DEF Init
<1>3. phase \in 0 .. WaveInterval - 1 /\ Len(entries) <= Limit
  BY <1>1, <1>2, Delays
<1>4. condition \in [Bot -> Conditions] /\ deadFor \in [Bot -> 0 .. PracticeDelay]
  BY InitBInv DEF BInv
<1>5. QED
  BY <1>1, <1>2, <1>3, <1>4 DEF TypeOK, Entry, Longest, Limit

LEMMA NextTypeOK ==
  ASSUME BotsAssumption, BInv, TypeOK, [Tick]_vars
  PROVE  TypeOK'
<1>1. CASE UNCHANGED vars
  BY <1>1 DEF vars, TypeOK
<1>2. CASE Tick
  <2>1. PICK spawn \in Spawns(Act) : Turn(Act, spawn, Range(spawn))
    BY <1>2 DEF Tick
  <2>2. entries' \in Seq(Entry) /\ NoTwins(entries') /\ Len(entries') <= Limit
    BY <2>1, ActLeft, EntriesStep
  <2>3. /\ condition' \in [Bot -> Conditions] /\ deadFor' \in [Bot -> 0 .. PracticeDelay]
        /\ mode' = mode
    BY <1>2, TickTypes
  <2>4. phase' \in 0 .. WaveInterval - 1
    <3>1. phase' = (phase + 1) % WaveInterval
      BY <2>1 DEF Turn
    <3>2. phase \in Nat /\ WaveInterval \in Nat /\ WaveInterval > 0
      BY Delays DEF TypeOK
    <3>3. QED
      BY <3>1, <3>2
  <2>5. mode \in {"zombies", "boss", "practice"}
    BY DEF TypeOK
  <2>6. QED
    BY <2>2, <2>3, <2>4, <2>5 DEF TypeOK, Entry, Longest, Limit, NoTwins
<1>3. QED
  BY <1>1, <1>2

\* The roster keeps its shape in every mode: at most one boss, at most Target zombies or
\* practice bots, no tank in two entries, and no respawn further off than the longer delay.
THEOREM BotsTypeOK == ASSUME BotsAssumption PROVE Spec => []TypeOK
<1>1. Init => TypeOK
  BY InitTypeOK
<1>2. BInv /\ TypeOK /\ [Tick]_vars => TypeOK'
  BY NextTypeOK
<1>3. QED
  BY <1>1, <1>2, BotsInductive, PTL DEF Spec
=============================================================================
