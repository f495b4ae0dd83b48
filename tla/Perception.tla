----------------------------- MODULE Perception -----------------------------
(***************************************************************************)
(* What a bot sees and what the scripted bot makes of it:                  *)
(* backend/pkg/bots/obs.go and scripted.go, with Game.GetVisibleEntities,  *)
(* by which the room decides what a player is shown.                       *)
(*                                                                         *)
(* Of a slot only whose it is is kept: its ten floats are that thing's     *)
(* numbers, scaled.  A bot looks between two ticks.                        *)
(***************************************************************************)
EXTENDS Physics, SequencesExt

CONSTANTS
    Obstacles,       \* Arena.Obstacles, in its order
    ViewRange,
    NumSlots         \* numSlots

ASSUME PerceptionAssumption ==
    /\ IsInjective(Entities)                       \* nobody is in play twice: Engine!TypeOK
    /\ Obstacles \in Seq(Rock) /\ IsInjective(Obstacles) /\ Rock \subseteq ToSet(Obstacles)
    /\ ViewRange \in Nat /\ NumSlots \in Nat

Tank == {c \in Body : Kind[c] = "tank"}

D2(t, c) == DistanceSquaredTo(at[t], at[c])
InRange(t, c) == D2(t, c) <= ViewRange * ViewRange

\* GetVisibleEntities around t; t is one of them.
VisibleEntities(t) == {c \in Body : InRange(t, c)}

\* What the observation goes through, in the order in which it is stored.
Stored == Entities \o Obstacles

\* cands: the places of what is in range, other than t.
Candidates(t) == {i \in DOMAIN Stored : Stored[i] # t /\ InRange(t, Stored[i])}

NewestFirst(t, i, j) ==                                             \* mutant of Precedes
    D2(t, Stored[i]) < D2(t, Stored[j]) \/ (D2(t, Stored[i]) = D2(t, Stored[j]) /\ i > j)
\* SliceStable by distance.
Precedes(t, i, j) ==
    D2(t, Stored[i]) < D2(t, Stored[j]) \/ (D2(t, Stored[i]) = D2(t, Stored[j]) /\ i < j)

\* BuildObservation: the slots of t, nearest first.
Slots(t) ==
    LET before(i) == Cardinality({j \in Candidates(t) : Precedes(t, j, i)})
        place(k) == CHOOSE i \in Candidates(t) : before(i) = k - 1
    IN  [k \in 1 .. Min({NumSlots, Cardinality(Candidates(t))}) |-> Stored[place(k)]]

LastOf(slots, kind) ==                                              \* mutant of FirstOf
    SelectLastInSeq(slots, LAMBDA c : Kind[c] = kind)
\* The loops over the slots, which stop at the first of the kind.
FirstOf(slots, kind) == SelectInSeq(slots, LAMBDA c : Kind[c] = kind)

\* Scripted.Act: the slot it aims at, 0 for none.  (On the very spot of its target it
\* coasts all the same.)
Target(slots) ==
    IF FirstOf(slots, "tank") # 0 THEN FirstOf(slots, "tank") ELSE FirstOf(slots, "food")

-----------------------------------------------------------------------------
(* Properties.                                                             *)

\* When bots look: no collisions are under way.
BetweenTicks == todo = {} /\ done \in {{}, Body}

\* A slot is never wasted: a bot's slots hold different things, none of them the bot,
\* no farther than a player in its place would be shown, and what is in range and got
\* no slot is no nearer than what did; among equals the one stored first.
SlotsNearest ==
    BetweenTicks => \A t \in Tank :
        LET slots == Slots(t)
            shown == ToSet(slots)
            inView == {c \in Rock : InRange(t, c)} \cup (VisibleEntities(t) \ {t})
        IN  /\ IsInjective(slots) /\ shown \subseteq inView
            /\ Len(slots) = Min({NumSlots, Cardinality(inView)})
            /\ \A i, j \in DOMAIN Stored :
                 Stored[i] \in shown /\ Stored[j] \in inView \ shown =>
                   \/ D2(t, Stored[i]) < D2(t, Stored[j])
                   \/ D2(t, Stored[i]) = D2(t, Stored[j]) /\ i < j

\* The scripted bot knows only its slots, yet what it aims at is the nearest of its kind
\* of all that is in view: a tank if any has a slot, however much food is nearer, and
\* else a food.
ScriptedFightsNearest ==
    BetweenTicks => \A t \in Tank :
        LET slots == Slots(t)
            k == Target(slots)
            kinds == {Kind[c] : c \in ToSet(slots)}
        IN  /\ k = 0 <=> "tank" \notin kinds /\ "food" \notin kinds
            /\ k # 0 =>
                 /\ Kind[slots[k]] = IF "tank" \in kinds THEN "tank" ELSE "food"
                 /\ \A c \in VisibleEntities(t) \ {t} :
                      Kind[c] = Kind[slots[k]] => D2(t, slots[k]) <= D2(t, c)
=============================================================================
