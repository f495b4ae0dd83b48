----------------------------- MODULE RoomInputs -----------------------------
(***************************************************************************)
(* Room with the players' inputs: ReadPump forwards them through InputCh,  *)
(* each under the tank ID it finds in Client.TankID, and the room applies  *)
(* what is waiting at the start of a tick (drainInputs).  Of an input only *)
(* its vector is kept, and of that only whether it is zero.                *)
(*                                                                         *)
(* Client.TankID is written by the room goroutine and read by ReadPump     *)
(* with nothing to order the two.  It is a string, two words: a read that  *)
(* straddles the write can pair the nil pointer with the new length, and   *)
(* comparing that string with a tank's ID dereferences nil, which no one   *)
(* recovers.                                                               *)
(***************************************************************************)
EXTENDS Room

CONSTANTS InputCap,    \* capacity of InputCh
          Torn         \* the half-written TankID

VARIABLES
    inputs,      \* InputCh: [tank, push], push = is the vector not zero?
    half,        \* ReadPumps that have read one word of an empty TankID
    moving,      \* the tanks whose InputVector is not zero
    process      \* the server process

inputVars == <<inputs, half, moving, process>>

InputsInit == Init /\ inputs = <<>> /\ half = {} /\ moving = {} /\ process = "up"

\* ReadPump has an input and reads the first word of an empty TankID.
LoadTankID(c) ==
    /\ reader[c] = "reading"
    /\ tankOf[c] = None /\ c \notin half
    /\ half' = half \cup {c}
    /\ UNCHANGED <<inputs, moving, process>> /\ UNCHANGED vars

\* What ReadPump has for a tank ID when it has read the second word.
Loaded(c) ==
    IF c \notin half THEN {tankOf[c]}
    ELSE IF tankOf[c] = None THEN {None} ELSE {None, Torn}

\* A full InputCh drops the input.
SendInput(c) ==
    /\ reader[c] = "reading"
    /\ tankOf[c] # None \/ c \in half
    /\ \E id \in Loaded(c), p \in BOOLEAN :
         inputs' = IF Len(inputs) < InputCap
                   THEN Append(inputs, [tank |-> id, push |-> p]) ELSE inputs
    /\ half' = half \ {c}
    /\ UNCHANGED <<moving, process>> /\ UNCHANGED vars

\* drainInputs: the last input for a tank in play counts.
Drained ==
    {t \in tanks :
        IF \E i \in DOMAIN inputs : inputs[i].tank = t
        THEN \E i \in DOMAIN inputs :
               /\ inputs[i].tank = t /\ inputs[i].push
               /\ \A j \in DOMAIN inputs : j > i => inputs[j].tank # t
        ELSE t \in moving}

\* The tanks of the clients that left in this step: their input is zeroed.
Halted == {tankOf[c] : c \in clients \ clients'}

\* The tick drains the inputs before the game and the broadcast.
TickWithInputs ==
    /\ \A i \in DOMAIN inputs : inputs[i].tank # Torn \/ tanks = {}
    /\ Tick
    /\ inputs' = <<>>
    /\ moving' = (Drained \cap tanks') \ Halted
    /\ UNCHANGED <<half, process>>

\* ... unless a torn ID is compared with a tank's.
Crash ==
    /\ Looping /\ tanks # {}
    /\ \E i \in DOMAIN inputs : inputs[i].tank = Torn
    /\ process' = "crashed"
    /\ UNCHANGED <<inputs, half, moving>> /\ UNCHANGED vars

InputsNext ==
    /\ process = "up"
    /\ \/ \E c \in Conn : LoadTankID(c) \/ SendInput(c)
       \/ TickWithInputs \/ Crash
       \/ /\ UnregisterClient /\ moving' = moving \ Halted
          /\ UNCHANGED <<inputs, half, process>>
       \/ /\ ExpireGrace /\ moving' = moving \cap tanks'
          /\ UNCHANGED <<inputs, half, process>>
       \/ /\ \/ \E c \in Conn : Dial(c) \/ Reject(c) \/ Accept(c) \/ EnqueueRegister(c) \/ Pumps(c)
             \/ RegisterClient \/ RemoveRoom \/ StopRoom
          /\ UNCHANGED inputVars

InputsSpec == InputsInit /\ [][InputsNext]_<<vars, inputVars>>

-----------------------------------------------------------------------------
\* "Zero input so the tank coasts to a stop during the grace window": a tank in
\* its grace period has no input.
GraceTankCoasts ==
    \A n \in Name : grace[n] # None => tankOf[grace[n]] \notin moving

\* "All external goroutines communicate via Hub channels": no input carries a
\* tank ID read while the room was writing it.
NoTornTankID == \A i \in DOMAIN inputs : inputs[i].tank # Torn
=============================================================================
