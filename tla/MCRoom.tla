------------------------------- MODULE MCRoom -------------------------------
\* Values for the constants of Room and RoomSessions, for TLC.
EXTENDS RoomSessions, TLC
CONSTANTS c1, c2, c3, alice

\* All connections are one player's.
AllAlice == [c \in Conn |-> alice]

\* Connections of the same player are interchangeable.
Symmetry == Permutations(Conn)

\* Bound on the runs with three connections: a room that is removed goes no
\* further.  The runs with two connections have no such bound.
NotRemoved == room = "running"
=============================================================================
