-------------------------------- MODULE Room --------------------------------
(***************************************************************************)
(* The session core of one game room: backend/internal/socket.             *)
(*                                                                         *)
(* A connection is handled by three goroutines of its own (the HTTP        *)
(* handler that greets it and then becomes its ReadPump, its WritePump,    *)
(* and the grace timer started when it leaves) and by the room's single    *)
(* goroutine, Room.Start, which selects over the hub's channels.  The      *)
(* steps below are the points where those goroutines meet: channel sends   *)
(* and receives, the names table and closing a connection.                 *)
(*                                                                         *)
(* A connection registers once and leaves once, so it also names what is   *)
(* created then: the tank spawned when it registered, and the timer (and   *)
(* grace entry) created when it left.                                      *)
(***************************************************************************)
EXTENDS Naturals, Sequences, FiniteSets

CONSTANTS
    Conn,        \* the websocket connections the room will ever be offered
    Name,        \* player names
    NameOf,      \* NameOf[c]: the name connection c sends as its greeting
    None,        \* "no tank yet", "no grace entry"
    RegisterCap, UnregisterCap, GraceCap,   \* channel capacities of the hub
    SendCap      \* capacity of a client's Send channel

ASSUME RoomAssumption ==
    /\ NameOf \in [Conn -> Name]
    /\ None \notin Conn
    /\ RegisterCap \in Nat \ {0} /\ UnregisterCap \in Nat \ {0}
    /\ GraceCap \in Nat \ {0}    /\ SendCap \in Nat \ {0}

VARIABLES
    reader,      \* HandleWebSocket, then ReadPump: where c's goroutine stands
    link,        \* c's websocket: while it is open its WritePump runs; once it
                 \* is closed the next write fails and WritePump has nothing to do
    sent,        \* messages waiting in c.Send
    register, unregister, graceExpired,     \* the hub's channels
    names,       \* Hub.names
    clients,     \* the room goroutine's clients map
    grace,       \* name -> the connection whose departure made the grace entry
    timer,       \* the grace timer started when c left
    tankOf,      \* Client.TankID
    tanks,       \* the player tanks in Game.Entities
    room         \* the room: listed by the manager, removed, goroutine ended

hubVars   == <<register, unregister, graceExpired>>
pumpVars  == <<reader, link>>
stateVars == <<names, clients, grace, timer, tankOf, tanks>>
vars == <<reader, link, sent, register, unregister, graceExpired,
          names, clients, grace, timer, tankOf, tanks, room>>

Init ==
    /\ reader = [c \in Conn |-> "idle"]
    /\ link = [c \in Conn |-> "open"]
    /\ sent = [c \in Conn |-> 0]
    /\ register = <<>> /\ unregister = <<>> /\ graceExpired = <<>>
    /\ names = {} /\ clients = {}
    /\ grace = [n \in Name |-> None]
    /\ timer = [c \in Conn |-> "none"]
    /\ tankOf = [c \in Conn |-> None]
    /\ tanks = {}
    /\ room = "running"

-----------------------------------------------------------------------------
(* The HTTP handler: HandleWebSocket up to `Register <- client`.           *)

\* GetRoom finds the room (so it is not removed yet) and the upgrade succeeds.
Dial(c) ==
    /\ reader[c] = "idle"
    /\ room = "running"
    /\ reader' = [reader EXCEPT ![c] = "greeting"]
    /\ UNCHANGED <<link, sent, room>> /\ UNCHANGED hubVars /\ UNCHANGED stateVars

NeverTaken(n) == FALSE                          \* mutant of IsNameTaken
IsNameTaken(n) == n \in names

\* The greeting cannot be read, or the name it carries is taken.
Reject(c) ==
    /\ reader[c] = "greeting"
    /\ link[c] = "closed" \/ IsNameTaken(NameOf[c])
    /\ reader' = [reader EXCEPT ![c] = "gone"]
    /\ link' = [link EXCEPT ![c] = "closed"]
    /\ UNCHANGED <<sent, room>> /\ UNCHANGED hubVars /\ UNCHANGED stateVars

\* The name is free at this moment.  Nothing is claimed yet: the room goroutine
\* claims the name when it receives the registration.
Accept(c) ==
    /\ reader[c] = "greeting"
    /\ ~ IsNameTaken(NameOf[c])
    /\ reader' = [reader EXCEPT ![c] = "checked"]
    /\ UNCHANGED <<link, sent, room>> /\ UNCHANGED hubVars /\ UNCHANGED stateVars

\* `Register <- client` blocks while the channel is full; then the pumps start.
EnqueueRegister(c) ==
    /\ reader[c] = "checked"
    /\ Len(register) < RegisterCap
    /\ register' = Append(register, c)
    /\ reader' = [reader EXCEPT ![c] = "reading"]
    /\ UNCHANGED <<link, sent, unregister, graceExpired, room>> /\ UNCHANGED stateVars

-----------------------------------------------------------------------------
(* The connection's own goroutines and its peer.                           *)

\* The peer goes away (or the network does).
Drop(c) ==
    /\ reader[c] \in {"greeting", "checked", "reading"}
    /\ link[c] = "open"
    /\ link' = [link EXCEPT ![c] = "closed"]
    /\ UNCHANGED <<reader, sent, room>> /\ UNCHANGED hubVars /\ UNCHANGED stateVars

\* closeOnce has closed c.Send: when c left, or when the room goroutine ended.
SendClosed(c) ==
    \/ timer[c] # "none"
    \/ room = "stopped" /\ c \in clients

\* safeSend: false when the buffer is full or closed.
CanSend(c) == sent[c] < SendCap /\ ~ SendClosed(c)

SendUnchecked(c) == sent[c] + 1                 \* mutant of AfterSend
AfterSend(c) == IF CanSend(c) THEN sent[c] + 1 ELSE sent[c]

\* ReadPump answers a ping with a pong, unless the buffer is full or closed.
Pong(c) ==
    /\ reader[c] = "reading"
    /\ CanSend(c)
    /\ sent' = [sent EXCEPT ![c] = AfterSend(c)]
    /\ UNCHANGED <<room>> /\ UNCHANGED pumpVars /\ UNCHANGED hubVars /\ UNCHANGED stateVars

\* ReadMessage fails: the connection is closed, or the peer said goodbye or sent
\* too much, and it can still be written to.  The deferred function is about to
\* send to Unregister.
ReadFails(c) ==
    /\ reader[c] = "reading"
    /\ reader' = [reader EXCEPT ![c] = "leaving"]
    /\ UNCHANGED <<link, sent, room>> /\ UNCHANGED hubVars /\ UNCHANGED stateVars

\* `Unregister <- c`, blocking while the channel is full, then Conn.Close.
EnqueueUnregister(c) ==
    /\ reader[c] = "leaving"
    /\ Len(unregister) < UnregisterCap
    /\ unregister' = Append(unregister, c)
    /\ reader' = [reader EXCEPT ![c] = "gone"]
    /\ link' = [link EXCEPT ![c] = "closed"]
    /\ UNCHANGED <<sent, register, graceExpired, room>> /\ UNCHANGED stateVars

\* WritePump takes a message from Send and writes it.
WriteMessage(c) ==
    /\ link[c] = "open" /\ sent[c] > 0
    /\ sent' = [sent EXCEPT ![c] = @ - 1]
    /\ UNCHANGED <<room>> /\ UNCHANGED pumpVars /\ UNCHANGED hubVars /\ UNCHANGED stateVars

\* WritePump returns and closes the connection: the write failed (its deadline
\* passed, say), or Send is closed and drained.
WritePumpEnds(c) ==
    /\ link[c] = "open"
    /\ sent[c] > 0 \/ SendClosed(c)
    /\ link' = [link EXCEPT ![c] = "closed"]
    /\ UNCHANGED <<reader, sent, room>> /\ UNCHANGED hubVars /\ UNCHANGED stateVars

-----------------------------------------------------------------------------
(* The grace timer of a connection that left.                              *)

\* The period is over and the timer's function starts: Stop no longer helps.
TimerFires(c) ==
    /\ timer[c] = "armed"
    /\ timer' = [timer EXCEPT ![c] = "firing"]
    /\ UNCHANGED <<sent, names, clients, grace, tankOf, tanks, room>>
    /\ UNCHANGED pumpVars /\ UNCHANGED hubVars

\* `GraceExpired <- name`, blocking while the channel is full.
EnqueueExpired(c) ==
    /\ timer[c] = "firing"
    /\ Len(graceExpired) < GraceCap
    /\ graceExpired' = Append(graceExpired, NameOf[c])
    /\ timer' = [timer EXCEPT ![c] = "done"]
    /\ UNCHANGED <<sent, register, unregister, names, clients, grace, tankOf, tanks, room>>
    /\ UNCHANGED pumpVars

\* timer.Stop: what becomes of a timer that may have fired already.
Stopped(status) == IF status = "armed" THEN "done" ELSE status

-----------------------------------------------------------------------------
(* The room goroutine: the cases of Room.Start's select.                   *)

Looping == room # "stopped"

\* registerClient: the tank c will drive.
Reusable(n) == grace[n] # None /\ tankOf[grace[n]] \in tanks

AlwaysNewTank(c) == c                           \* mutant of TankFor
TankFor(c) == IF Reusable(NameOf[c]) THEN tankOf[grace[NameOf[c]]] ELSE c

KeepEntry(n) == grace                           \* mutant of WithoutEntry
WithoutEntry(n) == [grace EXCEPT ![n] = None]

StopTimerOf(n) ==
    [c \in Conn |-> IF c = grace[n] THEN Stopped(timer[c]) ELSE timer[c]]

RegisterClient ==
    /\ Looping /\ register # <<>>
    /\ LET c == Head(register)
           n == NameOf[c]
       IN  /\ register' = Tail(register)
           /\ tankOf' = [tankOf EXCEPT ![c] = TankFor(c)]
           /\ tanks' = tanks \cup {TankFor(c)}
           /\ grace' = WithoutEntry(n)
           /\ timer' = StopTimerOf(n)
           /\ clients' = clients \cup {c}
           /\ names' = names \cup {n}
           /\ sent' = [sent EXCEPT ![c] = AfterSend(c)]
    /\ UNCHANGED <<unregister, graceExpired, room>> /\ UNCHANGED pumpVars

NothingReleased(Left) == {}                     \* mutant of ReleasedBy
ReleasedBy(Left) == {NameOf[c] : c \in Left}

\* unregisterClient for every member of Left, clients all: each gives up its
\* name and leaves a grace entry with a running timer.  Of several with one
\* name the entry of whichever was handled last stays.
Depart(Left) ==
    /\ clients' = clients \ Left
    /\ names' = names \ ReleasedBy(Left)
    /\ timer' = [c \in Conn |-> IF c \in Left THEN "armed" ELSE timer[c]]
    /\ \E last \in [{NameOf[c] : c \in Left} -> Left] :
         /\ \A n \in DOMAIN last : NameOf[last[n]] = n
         /\ grace' = [n \in Name |-> IF n \in DOMAIN last THEN last[n] ELSE grace[n]]

\* A connection that is not in clients is ignored.
UnregisterClient ==
    /\ Looping /\ unregister # <<>>
    /\ unregister' = Tail(unregister)
    /\ Depart({Head(unregister)} \cap clients)
    /\ UNCHANGED <<sent, register, graceExpired, tankOf, tanks, room>>
    /\ UNCHANGED pumpVars

\* expireGrace: the entry under the name, if there is one, goes with its tank.
ExpireGrace ==
    /\ Looping /\ graceExpired # <<>>
    /\ graceExpired' = Tail(graceExpired)
    /\ LET n == Head(graceExpired)
       IN  /\ grace' = WithoutEntry(n)
           /\ tanks' = IF grace[n] = None THEN tanks ELSE tanks \ {tankOf[grace[n]]}
    /\ UNCHANGED <<sent, register, unregister, names, clients, timer, tankOf, room>>
    /\ UNCHANGED pumpVars

\* One tick: tanks die in Game.Tick, then broadcastState sends to every client
\* and unregisters those whose Send buffer is full.
NobodyDropped == {}                             \* mutant of Full
Full == {c \in clients : ~ CanSend(c)}

TickWith(dead) ==
    /\ Looping
    /\ tanks' = tanks \ dead
    /\ sent' = [c \in Conn |-> IF c \in clients THEN AfterSend(c) ELSE sent[c]]
    /\ Depart(Full)
    /\ UNCHANGED <<tankOf, room>> /\ UNCHANGED pumpVars /\ UNCHANGED hubVars

Tick == \E dead \in SUBSET tanks : TickWith(dead)

\* Manager.RemoveRoom closes StopCh and forgets the room.
RemoveRoom ==
    /\ room = "running"
    /\ room' = "removed"
    /\ UNCHANGED <<sent>> /\ UNCHANGED pumpVars /\ UNCHANGED hubVars /\ UNCHANGED stateVars

\* The StopCh case: stop the timers of the grace entries, close what the clients
\* map holds, return.
StopRoom ==
    /\ room = "removed"
    /\ room' = "stopped"
    /\ timer' = [c \in Conn |-> IF grace[NameOf[c]] = c THEN Stopped(timer[c]) ELSE timer[c]]
    /\ link' = [c \in Conn |-> IF c \in clients THEN "closed" ELSE link[c]]
    /\ UNCHANGED <<reader, sent, names, clients, grace, tankOf, tanks>>
    /\ UNCHANGED hubVars

-----------------------------------------------------------------------------
Pumps(c) ==
    \/ Drop(c) \/ Pong(c) \/ ReadFails(c) \/ EnqueueUnregister(c)
    \/ WriteMessage(c) \/ WritePumpEnds(c)
    \/ TimerFires(c) \/ EnqueueExpired(c)

Loop ==
    \/ RegisterClient \/ UnregisterClient \/ ExpireGrace \/ Tick
    \/ RemoveRoom \/ StopRoom

Next ==
    \/ \E c \in Conn : Dial(c) \/ Reject(c) \/ Accept(c) \/ EnqueueRegister(c) \/ Pumps(c)
    \/ Loop

Spec == Init /\ [][Next]_vars

(***************************************************************************)
(* Fairness.  Every goroutine that can run is scheduled.  Go's select      *)
(* picks at random among the ready cases, so a case that stays ready is    *)
(* taken (weak fairness of each case, with probability one); a channel     *)
(* serves its blocked senders first come first served, so a sender whose   *)
(* channel keeps being drained gets through (strong fairness).  Nothing is *)
(* assumed of the peers (Dial, Drop, Pong) nor of RemoveRoom, and a tick   *)
(* need not kill anybody: what must happen is its broadcast.               *)
(***************************************************************************)
Fairness ==
    /\ WF_vars(RegisterClient) /\ WF_vars(UnregisterClient)
    /\ WF_vars(ExpireGrace) /\ WF_vars(TickWith({})) /\ WF_vars(StopRoom)
    /\ \A c \in Conn :
         /\ WF_vars(Accept(c) \/ Reject(c))
         /\ SF_vars(EnqueueRegister(c)) /\ SF_vars(EnqueueUnregister(c))
         /\ SF_vars(EnqueueExpired(c))
         /\ WF_vars(link[c] = "closed" /\ ReadFails(c)) /\ WF_vars(TimerFires(c))
         /\ WF_vars(WriteMessage(c) \/ WritePumpEnds(c))

LiveSpec == Spec /\ Fairness

(***************************************************************************)
(* The same room with players who greet it one at a time: no connection is *)
(* let past the name check while another of the same name is between its   *)
(* own check and its registration.  The code does not ensure this, the     *)
(* players may: it is what a single tab that reconnects does.              *)
(***************************************************************************)
Pending(c) == reader[c] = "checked" \/ \E i \in 1 .. Len(register) : register[i] = c

NoRival(c) == \A d \in Conn : NameOf[d] = NameOf[c] => ~ Pending(d)

SerialNext ==
    \/ \E c \in Conn : NoRival(c) /\ Accept(c)
    \/ \E c \in Conn : Dial(c) \/ Reject(c) \/ EnqueueRegister(c) \/ Pumps(c)
    \/ Loop

SerialSpec == Init /\ [][SerialNext]_vars

SerialLiveSpec == SerialSpec /\ Fairness
-----------------------------------------------------------------------------
(* Properties.                                                             *)

NameOfClients == {NameOf[c] : c \in clients}

TypeOK ==
    /\ reader \in [Conn -> {"idle", "greeting", "checked", "reading", "leaving", "gone"}]
    /\ link \in [Conn -> {"open", "closed"}]
    /\ sent \in [Conn -> 0 .. SendCap]
    /\ register \in Seq(Conn) /\ unregister \in Seq(Conn) /\ graceExpired \in Seq(Name)
    /\ names \in SUBSET Name /\ clients \in SUBSET Conn
    /\ grace \in [Name -> Conn \cup {None}]
    /\ timer \in [Conn -> {"none", "armed", "firing", "done"}]
    /\ tankOf \in [Conn -> Conn \cup {None}]
    /\ tanks \in SUBSET Conn
    /\ room \in {"running", "removed", "stopped"}

\* A tank has one owner: no two clients drive the same tank, no client drives a
\* tank that is waiting out a grace period, and no two grace entries keep the
\* same tank; and a tank never passes to another player name.  registerClient
\* hands tanks over through the grace map, whatever order registrations,
\* departures and expiries are received in.
TankExclusive ==
    /\ \A c \in clients : NameOf[tankOf[c]] = NameOf[c]
    /\ \A c, d \in clients : tankOf[c] = tankOf[d] => c = d
    /\ \A c \in clients, n \in Name : grace[n] # None => tankOf[grace[n]] # tankOf[c]
    /\ \A m, n \in Name :
         grace[m] # None /\ grace[n] # None /\ tankOf[grace[m]] = tankOf[grace[n]] => m = n

\* Every grace entry has something on its way that will resolve it: its own
\* timer, running or with its function started, or a message in GraceExpired
\* under its name.  Entries are replaced, cancelled and expired by stale
\* messages; none may be left behind with nothing to wake the room for it.
GraceHasWakeup ==
    \A n \in Name : Looping /\ grace[n] # None =>
        \/ timer[grace[n]] \in {"armed", "firing"}
        \/ \E i \in 1 .. Len(graceExpired) : graceExpired[i] = n

\* A name is refused to newcomers only while a client holds it: claimName and
\* releaseName never leave a name behind that nobody is connected under.
NoGhostName == names \subseteq NameOfClients

\* PlayerCount (the size of the names table) is the number of clients.  Only
\* true when two connections cannot pass the name check together.
PlayerCountExact == Cardinality(names) = Cardinality(clients)

\* Every tank in play is driven by a client or is waiting out a grace period:
\* otherwise nothing will ever remove it.  True of players who greet serially.
NoOrphanTank ==
    \A t \in tanks : \/ \E c \in clients : tankOf[c] = t
                    \/ \E n \in Name : grace[n] # None /\ tankOf[grace[n]] = t

\* A client whose connection is closed is unregistered, even when the room
\* received its Unregister before its Register and ignored it.
DeadConnectionLeaves ==
    \A c \in Conn :
        (c \in clients /\ link[c] = "closed") ~> (c \notin clients \/ room = "stopped")

\* "The server starts a grace period on disconnect, then removes the tank":
\* a tank that no client drives is removed or driven again.
Driven(t) == \E c \in clients : tankOf[c] = t

AbandonedTankRemoved ==
    \A t \in Conn : (t \in tanks /\ ~ Driven(t))
                        ~> (t \notin tanks \/ Driven(t) \/ room = "stopped")
=============================================================================
