---------------------------- MODULE RoomSessions ----------------------------
(***************************************************************************)
(* Room implements Sessions, for players who greet the room serially.      *)
(***************************************************************************)
EXTENDS Room

\* The session under n as the room's maps hold it.
Client(n) == CHOOSE c \in clients : NameOf[c] = n

SessionOf(n) ==
    IF n \in NameOfClients THEN "online"
    ELSE IF grace[n] # None THEN "grace" ELSE "offline"

\* The connection that speaks for n: its client, or the one that left last.
Holder(n) == IF n \in NameOfClients THEN Client(n) ELSE grace[n]

InPlay(c) == c # None /\ tankOf[c] \in tanks

TankOf(n) == IF InPlay(Holder(n)) THEN tankOf[Holder(n)] ELSE None

sessions == [n \in Name |-> SessionOf(n)]
tanksOfSessions == [n \in Name |-> TankOf(n)]
handedOut == {c \in Conn : tankOf[c] = c}

Promised == INSTANCE Sessions WITH
    Tank <- Conn, session <- sessions, tank <- tanksOfSessions, used <- handedOut

\* Every step of the serial room is a step of the promised sessions, or none:
\* whatever the channels hold, a returning player gets the tank they left (if
\* it lives), a tank changes hands in no other way, and it leaves the game only
\* by dying or when its session's grace period ends.
ImplementsSessions == Promised!Spec
=============================================================================
