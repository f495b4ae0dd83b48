------------------------------ MODULE Sessions ------------------------------
(***************************************************************************)
(* What a room promises a player, without channels, pumps or timers.       *)
(*                                                                         *)
(* Under a name there is at most one session: offline, online (a client    *)
(* is registered), or in its grace period.  A session has at most one      *)
(* tank, which nobody else ever gets.  Who disconnects keeps the tank for  *)
(* the grace period; who comes back in time gets the same tank, if it is   *)
(* still alive, and a new one otherwise; when the period ends the tank     *)
(* leaves the game.                                                        *)
(***************************************************************************)
EXTENDS TLAPS

CONSTANTS Name, Tank, None

VARIABLES
    session,     \* the state of the session under each name
    tank,        \* its tank in play, or None
    used         \* tanks that were ever handed out

vars == <<session, tank, used>>

TypeOK ==
    /\ session \in [Name -> {"offline", "online", "grace"}]
    /\ tank \in [Name -> Tank \cup {None}]
    /\ used \in SUBSET Tank

Init ==
    /\ session = [n \in Name |-> "offline"]
    /\ tank = [n \in Name |-> None]
    /\ used = {}

\* n comes online, in a tank never used before: a newcomer, or a returning
\* player whose tank has died.
Spawn(n) ==
    /\ \/ session[n] = "offline"
       \/ session[n] = "grace" /\ tank[n] = None
    /\ \E t \in Tank \ used :
         /\ tank' = [tank EXCEPT ![n] = t]
         /\ used' = used \cup {t}
    /\ session' = [session EXCEPT ![n] = "online"]

\* n returns within its grace period to a living tank.
Return(n) ==
    /\ session[n] = "grace" /\ tank[n] # None
    /\ session' = [session EXCEPT ![n] = "online"]
    /\ UNCHANGED <<tank, used>>

\* One turn of the room: the tanks in dead die, the sessions in lost go into
\* their grace period.
Turn(dead, lost) ==
    /\ \A n \in lost : session[n] = "online"
    /\ session' = [n \in Name |-> IF n \in lost THEN "grace" ELSE session[n]]
    /\ tank' = [n \in Name |-> IF tank[n] \in dead THEN None ELSE tank[n]]
    /\ UNCHANGED used

\* The grace period of n ends.
Expire(n) ==
    /\ session[n] = "grace"
    /\ session' = [session EXCEPT ![n] = "offline"]
    /\ tank' = [tank EXCEPT ![n] = None]
    /\ UNCHANGED used

Next ==
    \/ \E n \in Name : Spawn(n) \/ Return(n) \/ Expire(n)
    \/ \E dead \in SUBSET Tank, lost \in SUBSET Name : Turn(dead, lost)

Spec == Init /\ [][Next]_vars

-----------------------------------------------------------------------------
Exclusive ==
    /\ \A n \in Name : session[n] = "offline" => tank[n] = None
    /\ \A m, n \in Name : tank[m] # None /\ tank[m] = tank[n] => m = n
    /\ \A n \in Name : tank[n] # None => tank[n] \in used

\* The promise excludes that an offline player is in the game and that two
\* players share a tank: what registerClient hands over is nobody else's.
THEOREM SessionsExclusive == Spec => [](TypeOK /\ Exclusive)
<1>1. Init => TypeOK /\ Exclusive
  BY DEF Init, TypeOK, Exclusive
<1>2. TypeOK /\ Exclusive /\ [Next]_vars => (TypeOK /\ Exclusive)'
  <2> SUFFICES ASSUME TypeOK, Exclusive, [Next]_vars
               PROVE  TypeOK' /\ Exclusive'
    OBVIOUS
  <2>1. CASE \E n \in Name : Spawn(n)
    BY <2>1 DEF Spawn, TypeOK, Exclusive
  <2>2. CASE \E n \in Name : Return(n)
    BY <2>2 DEF Return, TypeOK, Exclusive
  <2>3. CASE \E n \in Name : Expire(n)
    BY <2>3 DEF Expire, TypeOK, Exclusive
  <2>4. CASE \E dead \in SUBSET Tank, lost \in SUBSET Name : Turn(dead, lost)
    BY <2>4 DEF Turn, TypeOK, Exclusive
  <2>5. CASE UNCHANGED vars
    BY <2>5 DEF vars, TypeOK, Exclusive
  <2>6. QED
    BY <2>1, <2>2, <2>3, <2>4, <2>5 DEF Next
<1>3. QED
  BY <1>1, <1>2, PTL DEF Spec
=============================================================================
