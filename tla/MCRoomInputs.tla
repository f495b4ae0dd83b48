---------------------------- MODULE MCRoomInputs ----------------------------
\* Values for the constants of RoomInputs, for TLC.
EXTENDS RoomInputs
CONSTANTS c1, c2, alice

AllAlice == [c \in Conn |-> alice]
=============================================================================
