----------------------------- MODULE RoomProofs -----------------------------
(***************************************************************************)
(* Proofs about Room, for every set of connections and names and every     *)
(* channel capacity.                                                       *)
(***************************************************************************)
EXTENDS Room, SequenceTheorems, FiniteSetTheorems, TLAPS

-----------------------------------------------------------------------------
(* Queues.                                                                 *)

\* What remains of a queue after a receive: every later element, one place on.
LEMMA TailFacts ==
    ASSUME NEW S, NEW q \in Seq(S), q # <<>>
    PROVE  /\ Head(q) \in S /\ Head(q) = q[1]
           /\ Tail(q) \in Seq(S) /\ Len(q) \in Nat
           /\ Len(Tail(q)) = Len(q) - 1 /\ 1 \in 1 .. Len(q)
           /\ \A i \in 1 .. Len(Tail(q)) : i + 1 \in 1 .. Len(q) /\ Tail(q)[i] = q[i + 1]
           /\ \A i \in 1 .. Len(q) : i # 1 => i - 1 \in 1 .. Len(Tail(q))
<1>1. /\ Head(q) \in S /\ Tail(q) \in Seq(S) /\ Len(Tail(q)) = Len(q) - 1
      /\ \A i \in 1 .. Len(Tail(q)) : Tail(q)[i] = q[i + 1]
  BY HeadTailProperties
<1>2. Len(q) \in Nat \ {0}
  BY EmptySeq
<1>3. Head(q) = q[1]
  OBVIOUS
<1>4. QED
  BY <1>1, <1>2, <1>3

\* A send adds one element at the end.
LEMMA AppendFacts ==
    ASSUME NEW S, NEW q \in Seq(S), NEW x \in S
    PROVE  /\ Append(q, x) \in Seq(S)
           /\ Len(q) \in Nat /\ Len(Append(q, x)) = Len(q) + 1
           /\ Append(q, x)[Len(q) + 1] = x
           /\ \A i \in 1 .. Len(q) : Append(q, x)[i] = q[i]
  BY LenProperties

-----------------------------------------------------------------------------
(* Type correctness.                                                       *)

\* Departures leave the room's tables well-typed.
LEMMA DepartType ==
    ASSUME RoomAssumption, TypeOK, NEW Left \in SUBSET clients, Depart(Left)
    PROVE  /\ clients' \in SUBSET Conn /\ names' \in SUBSET Name
           /\ timer' \in [Conn -> {"none", "armed", "firing", "done"}]
           /\ grace' \in [Name -> Conn \cup {None}]
<1>1. clients' \in SUBSET Conn /\ names' \in SUBSET Name
  BY DEF Depart, TypeOK, ReleasedBy
<1>2. timer' \in [Conn -> {"none", "armed", "firing", "done"}]
  BY DEF Depart, TypeOK
<1>3. grace' \in [Name -> Conn \cup {None}]
  <2>1. PICK last \in [{NameOf[c] : c \in Left} -> Left] :
           grace' = [n \in Name |-> IF n \in DOMAIN last THEN last[n] ELSE grace[n]]
    BY DEF Depart
  <2>2. \A n \in DOMAIN last : last[n] \in Conn
    BY DEF TypeOK
  <2>3. QED
    BY <2>1, <2>2 DEF TypeOK
<1>4. QED
  BY <1>1, <1>2, <1>3

\* A send never overfills a client's buffer.
LEMMA AfterSendType ==
    ASSUME RoomAssumption, TypeOK, NEW c \in Conn
    PROVE  AfterSend(c) \in 0 .. SendCap
  BY DEF RoomAssumption, TypeOK, AfterSend, CanSend

LEMMA TypeOKInductive ==
    ASSUME RoomAssumption, TypeOK, [Next]_vars
    PROVE  TypeOK'
<1> USE DEF hubVars, pumpVars, stateVars
<1>1. ASSUME NEW c \in Conn, Dial(c) PROVE TypeOK'
  BY <1>1 DEF Dial, TypeOK
<1>2. ASSUME NEW c \in Conn, Reject(c) PROVE TypeOK'
  BY <1>2 DEF Reject, TypeOK
<1>3. ASSUME NEW c \in Conn, Accept(c) PROVE TypeOK'
  BY <1>3 DEF Accept, TypeOK
<1>4. ASSUME NEW c \in Conn, EnqueueRegister(c) PROVE TypeOK'
  <2>1. register' \in Seq(Conn)
    BY <1>4, AppendFacts DEF EnqueueRegister, TypeOK
  <2>2. QED
    BY <1>4, <2>1 DEF EnqueueRegister, TypeOK
<1>5. ASSUME NEW c \in Conn, Drop(c) PROVE TypeOK'
  BY <1>5 DEF Drop, TypeOK
<1>6. ASSUME NEW c \in Conn, Pong(c) PROVE TypeOK'
  BY <1>6, AfterSendType DEF Pong, TypeOK
<1>7. ASSUME NEW c \in Conn, ReadFails(c) PROVE TypeOK'
  BY <1>7 DEF ReadFails, TypeOK
<1>8. ASSUME NEW c \in Conn, EnqueueUnregister(c) PROVE TypeOK'
  <2>1. unregister' \in Seq(Conn)
    BY <1>8, AppendFacts DEF EnqueueUnregister, TypeOK
  <2>2. QED
    BY <1>8, <2>1 DEF EnqueueUnregister, TypeOK
<1>9. ASSUME NEW c \in Conn, WriteMessage(c) PROVE TypeOK'
  BY <1>9 DEF WriteMessage, TypeOK, RoomAssumption
<1>10. ASSUME NEW c \in Conn, WritePumpEnds(c) PROVE TypeOK'
  BY <1>10 DEF WritePumpEnds, TypeOK
<1>11. ASSUME NEW c \in Conn, TimerFires(c) PROVE TypeOK'
  BY <1>11 DEF TimerFires, TypeOK
<1>12. ASSUME NEW c \in Conn, EnqueueExpired(c) PROVE TypeOK'
  <2>1. graceExpired' \in Seq(Name)
    BY <1>12, AppendFacts DEF EnqueueExpired, TypeOK, RoomAssumption
  <2>2. QED
    BY <1>12, <2>1 DEF EnqueueExpired, TypeOK
<1>13. CASE RegisterClient
  <2> DEFINE c == Head(register)
  <2>1. c \in Conn /\ register' \in Seq(Conn)
    BY <1>13, TailFacts DEF RegisterClient, TypeOK
  <2>2. NameOf[c] \in Name
    BY <2>1 DEF RoomAssumption
  <2>3. TankFor(c) \in Conn
    BY <2>1, <2>2 DEF TankFor, Reusable, TypeOK
  <2>4. timer' \in [Conn -> {"none", "armed", "firing", "done"}]
    BY <1>13 DEF RegisterClient, StopTimerOf, Stopped, TypeOK
  <2>5. sent' \in [Conn -> 0 .. SendCap]
    BY <1>13, <2>1, AfterSendType DEF RegisterClient, TypeOK
  <2>6. tankOf' \in [Conn -> Conn \cup {None}] /\ tanks' \in SUBSET Conn
    BY <1>13, <2>3 DEF RegisterClient, TypeOK
  <2>7. grace' \in [Name -> Conn \cup {None}]
    BY <1>13 DEF RegisterClient, WithoutEntry, TypeOK
  <2>8. clients' \in SUBSET Conn /\ names' \in SUBSET Name
    BY <1>13, <2>1, <2>2 DEF RegisterClient, TypeOK
  <2>9. QED
    BY <1>13, <2>1, <2>4, <2>5, <2>6, <2>7, <2>8 DEF RegisterClient, TypeOK
<1>14. CASE UnregisterClient
  <2>1. unregister' \in Seq(Conn)
    BY <1>14, TailFacts DEF UnregisterClient, TypeOK
  <2>2. Depart({Head(unregister)} \cap clients)
    BY <1>14 DEF UnregisterClient
  <2>3. QED
    BY <1>14, <2>1, <2>2, DepartType DEF UnregisterClient, TypeOK
<1>15. CASE ExpireGrace
  <2>1. graceExpired' \in Seq(Name)
    BY <1>15, TailFacts DEF ExpireGrace, TypeOK
  <2>2. QED
    BY <1>15, <2>1 DEF ExpireGrace, WithoutEntry, TypeOK
<1>16. CASE Tick
  <2>1. PICK dead \in SUBSET tanks : TickWith(dead)
    BY <1>16 DEF Tick
  <2>2. sent' \in [Conn -> 0 .. SendCap]
    BY <2>1, AfterSendType DEF TickWith, TypeOK
  <2>3. Full \in SUBSET clients /\ Depart(Full)
    BY <2>1 DEF TickWith, Full
  <2>4. QED
    BY <2>1, <2>2, <2>3, DepartType DEF TickWith, TypeOK
<1>17. CASE RemoveRoom
  BY <1>17 DEF RemoveRoom, TypeOK
<1>18. CASE StopRoom
  BY <1>18 DEF StopRoom, Stopped, TypeOK
<1>19. CASE UNCHANGED vars
  BY <1>19 DEF vars, TypeOK
<1>20. QED
  BY <1>1, <1>2, <1>3, <1>4, <1>5, <1>6, <1>7, <1>8, <1>9, <1>10, <1>11, <1>12,
     <1>13, <1>14, <1>15, <1>16, <1>17, <1>18, <1>19 DEF Next, Pumps, Loop

\* Every variable keeps its type: no queue holds a stranger, no buffer is
\* overfilled.
THEOREM RoomTypeOK ==
    ASSUME RoomAssumption
    PROVE  Spec => []TypeOK
<1>1. Init => TypeOK
  BY EmptySeq DEF Init, TypeOK, RoomAssumption
<1>2. TypeOK /\ [Next]_vars => TypeOK'
  BY TypeOKInductive
<1>3. QED
  BY <1>1, <1>2, PTL DEF Spec
-----------------------------------------------------------------------------
(* Who holds what.                                                         *)

\* A connection has been served once its handler queued it for registration.
Served == {"reading", "leaving", "gone"}

\* The books behind the ownership of tanks: a connection waits in Register at
\* most once and before it has a tank; clients and grace entries have tanks; an
\* entry stands under its own name; and the tank of a connection was spawned
\* for a connection of the same name.
Bookkeeping ==
    /\ \A i, j \in 1 .. Len(register) : register[i] = register[j] => i = j
    /\ \A i \in 1 .. Len(register) :
         tankOf[register[i]] = None /\ reader[register[i]] \in Served
    /\ \A c \in Conn : tankOf[c] # None => reader[c] \in Served
    /\ \A c \in clients : tankOf[c] # None
    /\ \A n \in Name : grace[n] # None => tankOf[grace[n]] # None /\ NameOf[grace[n]] = n
    /\ \A c \in Conn : tankOf[c] # None =>
         tankOf[tankOf[c]] = tankOf[c] /\ NameOf[tankOf[c]] = NameOf[c]

\* What departures do to the grace map: the names that lost a client get an entry
\* of one of those who left, the others keep what they had.
LEMMA DepartGrace ==
    ASSUME RoomAssumption, TypeOK, NEW Left \in SUBSET clients, Depart(Left)
    PROVE  \A n \in Name :
             IF n \in {NameOf[c] : c \in Left}
             THEN grace'[n] \in Left /\ NameOf[grace'[n]] = n
             ELSE grace'[n] = grace[n]
<1>1. PICK last \in [{NameOf[c] : c \in Left} -> Left] :
         /\ \A n \in DOMAIN last : NameOf[last[n]] = n
         /\ grace' = [n \in Name |-> IF n \in DOMAIN last THEN last[n] ELSE grace[n]]
  BY DEF Depart
<1>2. QED
  BY <1>1

\* The tank a registering connection is given is its own, fresh one, or the tank
\* kept under its name.
LEMMA TankForCases ==
    ASSUME NEW c
    PROVE  \/ TankFor(c) = c
           \/ /\ grace[NameOf[c]] # None
              /\ TankFor(c) = tankOf[grace[NameOf[c]]]
              /\ TankFor(c) \in tanks
  BY DEF TankFor, Reusable

LEMMA BookkeepingInductive ==
    ASSUME RoomAssumption, TypeOK, Bookkeeping, [Next]_vars
    PROVE  Bookkeeping'
<1> USE DEF hubVars, pumpVars, stateVars, Served
<1>1. ASSUME NEW c \in Conn, Dial(c) \/ Reject(c) \/ Accept(c) PROVE Bookkeeping'
  <2>1. UNCHANGED <<register, tankOf, clients, grace>>
    BY <1>1 DEF Dial, Reject, Accept
  <2>2. \A d \in Conn : reader[d] \in Served => reader'[d] \in Served
    BY <1>1 DEF Dial, Reject, Accept, TypeOK
  <2>3. \A i \in 1 .. Len(register) : register[i] \in Conn
    BY ElementOfSeq DEF TypeOK
  <2>4. QED
    BY <2>1, <2>2, <2>3 DEF Bookkeeping
<1>2. ASSUME NEW c \in Conn, EnqueueRegister(c) PROVE Bookkeeping'
  <2>1. UNCHANGED <<tankOf, clients, grace>> /\ register' = Append(register, c)
    BY <1>2 DEF EnqueueRegister
  <2>2. tankOf[c] = None /\ \A i \in 1 .. Len(register) : register[i] # c
    BY <1>2 DEF EnqueueRegister, Bookkeeping
  <2>3. \A d \in Conn : reader'[d] = IF d = c THEN "reading" ELSE reader[d]
    BY <1>2 DEF EnqueueRegister, TypeOK
  <2>4. \A i \in 1 .. Len(register) : register[i] \in Conn
    BY ElementOfSeq DEF TypeOK
  <2>5. /\ Len(register) \in Nat /\ Len(register') = Len(register) + 1
        /\ register'[Len(register) + 1] = c
        /\ \A i \in 1 .. Len(register) : register'[i] = register[i]
    BY <2>1, AppendFacts DEF TypeOK
  <2>6. \A i \in 1 .. Len(register') : i \in 1 .. Len(register) \/ i = Len(register) + 1
    BY <2>5
  <2>7. \A i, j \in 1 .. Len(register') : register'[i] = register'[j] => i = j
    BY <2>2, <2>5, <2>6 DEF Bookkeeping
  <2>8. \A i \in 1 .. Len(register') :
          tankOf'[register'[i]] = None /\ reader'[register'[i]] \in Served
    BY <2>1, <2>2, <2>3, <2>4, <2>5, <2>6 DEF Bookkeeping
  <2>9. QED
    BY <2>1, <2>3, <2>7, <2>8 DEF Bookkeeping
<1>3. ASSUME NEW c \in Conn, ReadFails(c) \/ EnqueueUnregister(c) PROVE Bookkeeping'
  <2>1. UNCHANGED <<register, tankOf, clients, grace>>
    BY <1>3 DEF ReadFails, EnqueueUnregister
  <2>2. \A d \in Conn : reader[d] \in Served => reader'[d] \in Served
    BY <1>3 DEF ReadFails, EnqueueUnregister, TypeOK
  <2>3. \A i \in 1 .. Len(register) : register[i] \in Conn
    BY ElementOfSeq DEF TypeOK
  <2>4. QED
    BY <2>1, <2>2, <2>3 DEF Bookkeeping
<1>4. ASSUME NEW c \in Conn,
             \/ Drop(c) \/ Pong(c) \/ WriteMessage(c) \/ WritePumpEnds(c)
             \/ TimerFires(c) \/ EnqueueExpired(c)
      PROVE  Bookkeeping'
  <2>1. UNCHANGED <<register, tankOf, clients, grace, reader>>
    BY <1>4 DEF Drop, Pong, WriteMessage, WritePumpEnds, TimerFires, EnqueueExpired
  <2>2. QED
    BY <2>1 DEF Bookkeeping
<1>5. CASE RegisterClient
  <2> DEFINE c == Head(register)
  <2>1. /\ c \in Conn /\ c = register[1] /\ 1 \in 1 .. Len(register)
        /\ Len(register) \in Nat /\ register' = Tail(register)
        /\ \A i \in 1 .. Len(register') :
             i + 1 \in 1 .. Len(register) /\ register'[i] = register[i + 1]
    BY <1>5, TailFacts DEF RegisterClient, TypeOK
  <2>2. /\ UNCHANGED reader
        /\ tankOf' = [tankOf EXCEPT ![c] = TankFor(c)]
        /\ grace' = WithoutEntry(NameOf[c])
        /\ clients' = clients \cup {c}
    BY <1>5 DEF RegisterClient
  <2>3. \A i \in 1 .. Len(register') : register'[i] \in Conn /\ register'[i] # c
    <3>1. \A i \in 1 .. Len(register) : register[i] \in Conn
      BY ElementOfSeq DEF TypeOK
    <3>2. \A i \in 1 .. Len(register') : i + 1 # 1
      BY <2>1
    <3>3. QED
      BY <2>1, <3>1, <3>2 DEF Bookkeeping
  <2>4. tankOf[c] = None /\ reader[c] \in Served
    BY <2>1 DEF Bookkeeping
  <2>5. /\ tankOf'[c] = TankFor(c)
        /\ \A d \in Conn : d # c => tankOf'[d] = tankOf[d]
    BY <2>1, <2>2 DEF TypeOK
  <2>6. /\ TankFor(c) \in Conn /\ NameOf[TankFor(c)] = NameOf[c]
        /\ TankFor(c) = c \/ tankOf[TankFor(c)] = TankFor(c)
    <3>1. NameOf[c] \in Name
      BY <2>1 DEF RoomAssumption
    <3>2. QED
      BY <2>1, <3>1, TankForCases DEF Bookkeeping, TypeOK, RoomAssumption
  <2>7. \A i, j \in 1 .. Len(register') : register'[i] = register'[j] => i = j
    <3>1. \A i, j \in 1 .. Len(register') : i + 1 = j + 1 => i = j
      BY <2>1
    <3>2. QED
      BY <2>1, <3>1 DEF Bookkeeping
  <2>8. \A i \in 1 .. Len(register') :
          tankOf'[register'[i]] = None /\ reader'[register'[i]] \in Served
    BY <2>1, <2>2, <2>3, <2>5 DEF Bookkeeping
  <2>9. TankFor(c) # None /\ c # None
    BY <2>1, <2>6 DEF RoomAssumption
  <2>10. \A d \in Conn : tankOf'[d] # None => reader'[d] \in Served
    BY <2>2, <2>4, <2>5 DEF Bookkeeping
  <2>11. \A d \in clients' : tankOf'[d] # None
    BY <2>2, <2>5, <2>9 DEF Bookkeeping, TypeOK
  <2>12. \A n \in Name : grace'[n] # None => tankOf'[grace'[n]] # None /\ NameOf[grace'[n]] = n
    BY <2>2, <2>4, <2>5 DEF Bookkeeping, TypeOK, WithoutEntry
  <2>13. \A d \in Conn : tankOf'[d] # None =>
           tankOf'[tankOf'[d]] = tankOf'[d] /\ NameOf[tankOf'[d]] = NameOf[d]
    <3>1. \A d \in Conn : d # c /\ tankOf[d] # None => tankOf[d] # c /\ tankOf[d] \in Conn
      BY <2>4, <2>9 DEF Bookkeeping, TypeOK
    <3>2. tankOf'[TankFor(c)] = TankFor(c)
      BY <2>4, <2>5, <2>6
    <3>3. QED
      BY <2>5, <2>6, <3>1, <3>2 DEF Bookkeeping
  <2>14. QED
    BY <2>7, <2>8, <2>10, <2>11, <2>12, <2>13 DEF Bookkeeping
<1>6. ASSUME NEW Left \in SUBSET clients, Depart(Left), UNCHANGED <<register, reader, tankOf>>
      PROVE  Bookkeeping'
  <2>1. clients' \subseteq clients
    BY <1>6 DEF Depart
  <2>2. \A n \in Name : grace'[n] # None => tankOf[grace'[n]] # None /\ NameOf[grace'[n]] = n
    BY <1>6, DepartGrace DEF Bookkeeping
  <2>3. QED
    BY <1>6, <2>1, <2>2 DEF Bookkeeping
<1>7. CASE UnregisterClient
  BY <1>6, <1>7 DEF UnregisterClient
<1>8. CASE ExpireGrace
  <2>1. UNCHANGED <<register, reader, tankOf, clients>>
    BY <1>8 DEF ExpireGrace
  <2>2. \A n \in Name : grace'[n] # None => grace'[n] = grace[n]
    BY <1>8 DEF ExpireGrace, WithoutEntry, TypeOK
  <2>3. QED
    BY <2>1, <2>2 DEF Bookkeeping
<1>9. CASE Tick
  BY <1>6, <1>9 DEF Tick, TickWith, Full
<1>10. CASE RemoveRoom \/ StopRoom \/ UNCHANGED vars
  <2>1. UNCHANGED <<register, reader, tankOf, clients, grace>>
    BY <1>10 DEF RemoveRoom, StopRoom, vars
  <2>2. QED
    BY <2>1 DEF Bookkeeping
<1>11. QED
  BY <1>1, <1>2, <1>3, <1>4, <1>5, <1>7, <1>8, <1>9, <1>10 DEF Next, Pumps, Loop
-----------------------------------------------------------------------------
(* One owner per tank.                                                     *)

\* TankExclusive with the books it rests on.
OwnershipInv == TypeOK /\ Bookkeeping /\ TankExclusive

LEMMA TankExclusiveInductive ==
    ASSUME RoomAssumption, OwnershipInv, [Next]_vars
    PROVE  TankExclusive'
<1> USE DEF hubVars, pumpVars, stateVars
<1> TypeOK /\ Bookkeeping /\ TankExclusive
  BY DEF OwnershipInv
<1>1. ASSUME UNCHANGED <<clients, tankOf>>, \A n \in Name : grace'[n] # None => grace'[n] = grace[n]
      PROVE  TankExclusive'
  BY <1>1 DEF TankExclusive
<1>2. ASSUME NEW c \in Conn,
             \/ Dial(c) \/ Reject(c) \/ Accept(c) \/ EnqueueRegister(c) \/ Pumps(c)
      PROVE  TankExclusive'
  BY <1>1, <1>2 DEF Dial, Reject, Accept, EnqueueRegister, Pumps, Drop, Pong, ReadFails,
     EnqueueUnregister, WriteMessage, WritePumpEnds, TimerFires, EnqueueExpired
<1>3. CASE RegisterClient
  <2> DEFINE c == Head(register)
             t == TankFor(c)
             n == NameOf[c]
  <2>1. c \in Conn /\ c = register[1] /\ 1 \in 1 .. Len(register)
    BY <1>3, TailFacts DEF RegisterClient, TypeOK
  <2>2. tankOf[c] = None /\ c \notin clients /\ n \in Name
    BY <2>1 DEF Bookkeeping, RoomAssumption
  <2>3. /\ tankOf'[c] = t /\ clients' = clients \cup {c}
        /\ \A d \in Conn : d # c => tankOf'[d] = tankOf[d]
        /\ grace'[n] = None /\ \A m \in Name : m # n => grace'[m] = grace[m]
    BY <1>3, <2>1, <2>2 DEF RegisterClient, WithoutEntry, TypeOK
  <2>4. \A d \in clients : d \in Conn /\ d # c /\ tankOf[d] # t
    <3>1. \A d \in clients : d \in Conn /\ d # c /\ tankOf[d] # c
      BY <2>2 DEF Bookkeeping, TypeOK, RoomAssumption
    <3>2. QED
      BY <2>2, <3>1, TankForCases DEF TankExclusive
  <2>5. \A m \in Name : m # n /\ grace[m] # None =>
          grace[m] \in Conn /\ grace[m] # c /\ tankOf[grace[m]] # t
    <3>1. \A m \in Name : grace[m] # None =>
            grace[m] \in Conn /\ grace[m] # c /\ tankOf[grace[m]] # c
      BY <2>2 DEF Bookkeeping, TypeOK, RoomAssumption
    <3>2. QED
      BY <2>2, <3>1, TankForCases DEF TankExclusive
  <2>6. NameOf[t] = NameOf[c]
    <3>1. NameOf[c] \in Name /\ grace[NameOf[c]] \in Conn \cup {None}
      BY <2>1 DEF RoomAssumption, TypeOK
    <3>2. QED
      BY <2>1, <3>1, TankForCases DEF Bookkeeping
  <2>7. \A d \in clients' : NameOf[tankOf'[d]] = NameOf[d]
    BY <2>3, <2>4, <2>6 DEF TankExclusive
  <2>8. \A d, e \in clients' : tankOf'[d] = tankOf'[e] => d = e
    BY <2>3, <2>4 DEF TankExclusive
  <2>9. \A d \in clients', m \in Name : grace'[m] # None => tankOf'[grace'[m]] # tankOf'[d]
    BY <2>3, <2>4, <2>5 DEF TankExclusive
  <2>10. \A k, m \in Name :
           grace'[k] # None /\ grace'[m] # None /\ tankOf'[grace'[k]] = tankOf'[grace'[m]] => k = m
    BY <2>3, <2>5 DEF TankExclusive
  <2>11. QED
    BY <2>7, <2>8, <2>9, <2>10 DEF TankExclusive
<1>4. ASSUME NEW Left \in SUBSET clients, Depart(Left), UNCHANGED tankOf
      PROVE  TankExclusive'
  <2>1. clients' = clients \ Left
    BY <1>4 DEF Depart
  <2>2. \A m \in Name : \/ grace'[m] = grace[m]
                        \/ grace'[m] \in Left /\ NameOf[grace'[m]] = m
    BY <1>4, DepartGrace
  <2>3. \A d \in clients', m \in Name : grace'[m] # None => tankOf[grace'[m]] # tankOf[d]
    BY <2>1, <2>2 DEF TankExclusive
  <2>4. \A k, m \in Name :
          grace'[k] # None /\ grace'[m] # None /\ tankOf[grace'[k]] = tankOf[grace'[m]] => k = m
    BY <2>2 DEF TankExclusive, Bookkeeping
  <2>5. QED
    BY <1>4, <2>1, <2>3, <2>4 DEF TankExclusive
<1>5. CASE UnregisterClient
  BY <1>4, <1>5 DEF UnregisterClient
<1>6. CASE Tick
  BY <1>4, <1>6 DEF Tick, TickWith, Full
<1>7. CASE ExpireGrace
  BY <1>1, <1>7 DEF ExpireGrace, WithoutEntry, TypeOK
<1>8. CASE RemoveRoom \/ StopRoom \/ UNCHANGED vars
  BY <1>1, <1>8 DEF RemoveRoom, StopRoom, vars
<1>9. QED
  BY <1>2, <1>3, <1>5, <1>6, <1>7, <1>8 DEF Next, Loop

LEMMA OwnershipInvariant ==
    ASSUME RoomAssumption
    PROVE  Spec => []OwnershipInv
<1>1. Init => OwnershipInv
  BY EmptySeq DEF Init, OwnershipInv, TypeOK, Bookkeeping, TankExclusive, RoomAssumption
<1>2. OwnershipInv /\ [Next]_vars => OwnershipInv'
  BY TypeOKInductive, BookkeepingInductive, TankExclusiveInductive DEF OwnershipInv
<1>3. QED
  BY <1>1, <1>2, PTL DEF Spec

\* No two players ever share a tank, and no player gets another's: whatever the
\* order in which registrations, departures, expiries and ticks reach the room.
THEOREM RoomTankExclusive ==
    ASSUME RoomAssumption
    PROVE  Spec => []TankExclusive
<1>1. OwnershipInv => TankExclusive
  BY DEF OwnershipInv
<1>2. QED
  BY <1>1, OwnershipInvariant, PTL

-----------------------------------------------------------------------------
(* No grace entry is forgotten.                                            *)

\* Something will resolve the grace entry under n.
Awake(n) ==
    \/ timer[grace[n]] \in {"armed", "firing"}
    \/ \E i \in 1 .. Len(graceExpired) : graceExpired[i] = n

LEMMA GraceHasWakeupInductive ==
    ASSUME RoomAssumption, TypeOK, Bookkeeping, GraceHasWakeup, [Next]_vars
    PROVE  GraceHasWakeup'
<1> USE DEF hubVars, pumpVars, stateVars, Looping
<1>0. GraceHasWakeup <=> \A n \in Name : Looping /\ grace[n] # None => Awake(n)
  BY DEF GraceHasWakeup, Awake
<1>1. ASSUME UNCHANGED <<grace, timer, graceExpired>>, room' # "stopped" => room # "stopped"
      PROVE  GraceHasWakeup'
  BY <1>1 DEF GraceHasWakeup
<1>2. ASSUME NEW c \in Conn,
             \/ Dial(c) \/ Reject(c) \/ Accept(c) \/ EnqueueRegister(c) \/ Drop(c) \/ Pong(c)
             \/ ReadFails(c) \/ EnqueueUnregister(c) \/ WriteMessage(c) \/ WritePumpEnds(c)
      PROVE  GraceHasWakeup'
  BY <1>1, <1>2 DEF Dial, Reject, Accept, EnqueueRegister, Drop, Pong, ReadFails,
     EnqueueUnregister, WriteMessage, WritePumpEnds
<1>3. ASSUME NEW c \in Conn, TimerFires(c) PROVE GraceHasWakeup'
  <2>1. \A n \in Name : timer[grace[n]] \in {"armed", "firing"} /\ grace[n] # None
                          => timer'[grace[n]] \in {"armed", "firing"}
    BY <1>3 DEF TimerFires, TypeOK
  <2>2. UNCHANGED <<grace, graceExpired, room>>
    BY <1>3 DEF TimerFires
  <2>3. QED
    BY <2>1, <2>2 DEF GraceHasWakeup
<1>4. ASSUME NEW c \in Conn, EnqueueExpired(c) PROVE GraceHasWakeup'
  <2>1. /\ UNCHANGED <<grace, room>> /\ NameOf[c] \in Name
        /\ timer' = [timer EXCEPT ![c] = "done"]
        /\ graceExpired' = Append(graceExpired, NameOf[c])
    BY <1>4 DEF EnqueueExpired, RoomAssumption
  <2>2. /\ Len(graceExpired) \in Nat /\ Len(graceExpired') = Len(graceExpired) + 1
        /\ graceExpired'[Len(graceExpired) + 1] = NameOf[c]
        /\ \A i \in 1 .. Len(graceExpired) : graceExpired'[i] = graceExpired[i]
    BY <2>1, AppendFacts DEF TypeOK
  <2>3. ASSUME NEW n \in Name, grace[n] # None, room # "stopped" PROVE Awake(n)'
    <3>1. CASE grace[n] = c
      <4>1. NameOf[c] = n
        BY <2>3, <3>1 DEF Bookkeeping
      <4>2. Len(graceExpired) + 1 \in 1 .. Len(graceExpired')
        BY <2>2
      <4>3. QED
        BY <2>2, <4>1, <4>2 DEF Awake
    <3>2. CASE grace[n] # c
      <4>1. timer'[grace'[n]] = timer[grace[n]]
        BY <2>1, <2>3, <3>2 DEF TypeOK
      <4>2. \A i \in 1 .. Len(graceExpired) : i \in 1 .. Len(graceExpired')
        BY <2>2
      <4>3. Awake(n)
        BY <1>0, <2>3
      <4>4. QED
        BY <2>2, <4>1, <4>2, <4>3 DEF Awake
    <3>3. QED
      BY <3>1, <3>2
  <2>4. QED
    BY <2>1, <2>3 DEF GraceHasWakeup, Awake
<1>5. CASE RegisterClient
  <2> DEFINE c == Head(register)
  <2>1. c \in Conn /\ NameOf[c] \in Name
    BY <1>5, TailFacts DEF RegisterClient, TypeOK, RoomAssumption
  <2>2. /\ UNCHANGED <<graceExpired, room>>
        /\ grace' = WithoutEntry(NameOf[c]) /\ timer' = StopTimerOf(NameOf[c])
    BY <1>5 DEF RegisterClient
  <2>3. ASSUME NEW n \in Name, grace'[n] # None
        PROVE  grace'[n] = grace[n] /\ timer'[grace'[n]] = timer[grace[n]]
    <3>1. n # NameOf[c] /\ grace'[n] = grace[n] /\ grace[n] \in Conn
      BY <2>1, <2>2, <2>3 DEF WithoutEntry, TypeOK
    <3>2. grace[n] # grace[NameOf[c]]
      BY <2>1, <2>3, <3>1 DEF Bookkeeping
    <3>3. QED
      BY <2>2, <3>1, <3>2 DEF StopTimerOf
  <2>4. QED
    BY <2>2, <2>3 DEF GraceHasWakeup
<1>6. ASSUME NEW Left \in SUBSET clients, Depart(Left), UNCHANGED <<graceExpired, room>>
      PROVE  GraceHasWakeup'
  <2>1. \A d \in Conn : timer'[d] = IF d \in Left THEN "armed" ELSE timer[d]
    BY <1>6 DEF Depart
  <2>2. \A n \in Name : grace'[n] \in Left \/ grace'[n] = grace[n]
    BY <1>6, DepartGrace
  <2>3. \A n \in Name : grace[n] # None => grace[n] \in Conn
    BY DEF TypeOK
  <2>4. QED
    BY <1>6, <2>1, <2>2, <2>3 DEF GraceHasWakeup, TypeOK
<1>7. CASE UnregisterClient
  BY <1>6, <1>7 DEF UnregisterClient
<1>8. CASE Tick
  BY <1>6, <1>8 DEF Tick, TickWith, Full
<1>9. CASE ExpireGrace
  <2> DEFINE m == Head(graceExpired)
  <2>1. /\ m = graceExpired[1] /\ graceExpired' = Tail(graceExpired)
        /\ \A i \in 1 .. Len(graceExpired) : i # 1 => i - 1 \in 1 .. Len(graceExpired')
        /\ \A i \in 1 .. Len(graceExpired') : graceExpired'[i] = graceExpired[i + 1]
        /\ Len(graceExpired) \in Nat
    BY <1>9, TailFacts DEF ExpireGrace, TypeOK
  <2>2. UNCHANGED <<timer, room>> /\ grace' = WithoutEntry(m)
    BY <1>9 DEF ExpireGrace
  <2>3. ASSUME NEW n \in Name, grace'[n] # None, room # "stopped" PROVE Awake(n)'
    <3>1. n # m /\ grace'[n] = grace[n]
      BY <2>2, <2>3 DEF WithoutEntry, TypeOK
    <3>2. Awake(n)
      BY <1>0, <2>3, <3>1
    <3>3. \A i \in 1 .. Len(graceExpired) : graceExpired[i] = n =>
            i - 1 \in 1 .. Len(graceExpired') /\ graceExpired'[i - 1] = n
      <4>1. ASSUME NEW i \in 1 .. Len(graceExpired), graceExpired[i] = n
            PROVE  i - 1 \in 1 .. Len(graceExpired') /\ graceExpired'[i - 1] = n
        <5>1. i # 1
          BY <2>1, <3>1, <4>1
        <5>2. i - 1 \in 1 .. Len(graceExpired') /\ (i - 1) + 1 = i
          BY <2>1, <5>1
        <5>3. QED
          BY <2>1, <4>1, <5>2
      <4>2. QED
        BY <4>1
    <3>4. QED
      BY <2>2, <3>1, <3>2, <3>3 DEF Awake
  <2>4. QED
    BY <2>2, <2>3 DEF GraceHasWakeup, Awake
<1>10. CASE RemoveRoom \/ StopRoom \/ UNCHANGED vars
  <2>1. CASE StopRoom
    BY <2>1 DEF StopRoom, GraceHasWakeup
  <2>2. CASE RemoveRoom \/ UNCHANGED vars
    BY <1>1, <2>2 DEF RemoveRoom, vars
  <2>3. QED
    BY <1>10, <2>1, <2>2
<1>11. QED
  BY <1>2, <1>3, <1>4, <1>5, <1>7, <1>8, <1>9, <1>10 DEF Next, Pumps, Loop

\* While the room runs, every grace entry has a timer of its own, or a message
\* under its name, that will resolve it: no interleaving of timers that fire,
\* are stopped too late or are replaced leaves an entry behind for good.
THEOREM RoomGraceHasWakeup ==
    ASSUME RoomAssumption
    PROVE  Spec => []GraceHasWakeup
<1>1. Init => GraceHasWakeup
  BY DEF Init, GraceHasWakeup
<1>2. OwnershipInv /\ GraceHasWakeup /\ [Next]_vars => GraceHasWakeup'
  BY GraceHasWakeupInductive DEF OwnershipInv
<1>3. QED
  BY <1>1, <1>2, OwnershipInvariant, PTL DEF Spec
-----------------------------------------------------------------------------
(* The names table.                                                        *)

LEMMA NoGhostNameInductive ==
    ASSUME TypeOK, NoGhostName, [Next]_vars
    PROVE  NoGhostName'
<1> USE DEF hubVars, pumpVars, stateVars, NoGhostName, NameOfClients
<1>1. ASSUME UNCHANGED <<names, clients>> PROVE NoGhostName'
  BY <1>1
<1>2. ASSUME NEW Left \in SUBSET clients, Depart(Left) PROVE NoGhostName'
  <2>1. clients' = clients \ Left /\ names' = names \ {NameOf[c] : c \in Left}
    BY <1>2 DEF Depart, ReleasedBy
  <2>2. QED
    BY <2>1
<1>3. CASE RegisterClient
  <2>1. clients' = clients \cup {Head(register)} /\ names' = names \cup {NameOf[Head(register)]}
    BY <1>3 DEF RegisterClient
  <2>2. QED
    BY <2>1
<1>4. CASE UnregisterClient
  BY <1>2, <1>4 DEF UnregisterClient
<1>5. CASE Tick
  BY <1>2, <1>5 DEF Tick, TickWith, Full
<1>6. ASSUME NEW c \in Conn,
             \/ Dial(c) \/ Reject(c) \/ Accept(c) \/ EnqueueRegister(c) \/ Pumps(c)
      PROVE  NoGhostName'
  BY <1>1, <1>6 DEF Dial, Reject, Accept, EnqueueRegister, Pumps, Drop, Pong, ReadFails,
     EnqueueUnregister, WriteMessage, WritePumpEnds, TimerFires, EnqueueExpired
<1>7. CASE ExpireGrace \/ RemoveRoom \/ StopRoom \/ UNCHANGED vars
  BY <1>1, <1>7 DEF ExpireGrace, RemoveRoom, StopRoom, vars
<1>8. QED
  BY <1>3, <1>4, <1>5, <1>6, <1>7 DEF Next, Loop

\* No name stays claimed once nobody is connected under it, so no player is
\* locked out of a name by a connection that is gone.
THEOREM RoomNoGhostName ==
    ASSUME RoomAssumption
    PROVE  Spec => []NoGhostName
<1>1. Init => NoGhostName
  BY DEF Init, NoGhostName
<1>2. TypeOK /\ NoGhostName /\ [Next]_vars => NoGhostName'
  BY NoGhostNameInductive
<1>3. QED
  BY <1>1, <1>2, RoomTypeOK, PTL DEF Spec

-----------------------------------------------------------------------------
(* Players who greet the room serially.                                    *)

\* A name has one client or one connection on its way to register, never two and
\* never both; the names table says exactly which have a client; a name with a
\* client has no grace entry; and every tank has an owner.
SerialBooks ==
    /\ names = NameOfClients
    /\ \A c, d \in clients : NameOf[c] = NameOf[d] => c = d
    /\ \A c \in Conn : Pending(c) => NameOf[c] \notin names
    /\ \A c, d \in Conn : Pending(c) /\ Pending(d) /\ NameOf[c] = NameOf[d] => c = d
    /\ \A n \in names : grace[n] = None

SerialInv == OwnershipInv /\ SerialBooks /\ NoOrphanTank

LEMMA SerialIsNext == [SerialNext]_vars => [Next]_vars
  BY DEF SerialNext, Next

LEMMA SerialBooksInductive ==
    ASSUME RoomAssumption, OwnershipInv, SerialBooks, [SerialNext]_vars
    PROVE  SerialBooks'
<1> USE DEF hubVars, pumpVars, stateVars
<1> TypeOK /\ Bookkeeping
  BY DEF OwnershipInv
<1>1. ASSUME UNCHANGED <<names, clients>>,
             \A n \in names : grace[n] = None => grace'[n] = None,
             \A c \in Conn : Pending(c)' => Pending(c)
      PROVE  SerialBooks'
  BY <1>1 DEF SerialBooks, NameOfClients
<1>2. ASSUME NEW c \in Conn, NoRival(c), Accept(c) PROVE SerialBooks'
  <2>1. UNCHANGED <<names, clients, grace, register>> /\ NameOf[c] \notin names
    BY <1>2 DEF Accept, IsNameTaken
  <2>2. \A d \in Conn : Pending(d)' => Pending(d) \/ d = c
    BY <1>2, <2>1 DEF Accept, Pending, TypeOK
  <2>3. \A d \in Conn : Pending(d) => NameOf[d] # NameOf[c]
    BY <1>2 DEF NoRival
  <2>4. QED
    BY <2>1, <2>2, <2>3 DEF SerialBooks, NameOfClients
<1>3. ASSUME NEW c \in Conn, EnqueueRegister(c) PROVE SerialBooks'
  <2>1. /\ UNCHANGED <<names, clients, grace>> /\ reader[c] = "checked"
        /\ register' = Append(register, c)
        /\ \A d \in Conn : d # c => reader'[d] = reader[d]
    BY <1>3 DEF EnqueueRegister, TypeOK
  <2>2. \A i \in 1 .. Len(register') :
          register'[i] = c \/ (i \in 1 .. Len(register) /\ register'[i] = register[i])
    <3>1. /\ Len(register) \in Nat /\ Len(register') = Len(register) + 1
          /\ register'[Len(register) + 1] = c
          /\ \A i \in 1 .. Len(register) : register'[i] = register[i]
      BY <2>1, AppendFacts DEF TypeOK
    <3>2. QED
      BY <3>1
  <2>3. \A d \in Conn : Pending(d)' => Pending(d)
    BY <2>1, <2>2 DEF Pending
  <2>4. QED
    BY <1>1, <2>1, <2>3
<1>4. ASSUME NEW c \in Conn, Dial(c) \/ Reject(c) \/ Pumps(c) PROVE SerialBooks'
  <2>1. UNCHANGED <<names, clients, grace, register>>
    BY <1>4 DEF Dial, Reject, Pumps, Drop, Pong, ReadFails, EnqueueUnregister,
       WriteMessage, WritePumpEnds, TimerFires, EnqueueExpired
  <2>2. \A d \in Conn : reader'[d] = "checked" => reader[d] = "checked"
    BY <1>4 DEF Dial, Reject, Pumps, Drop, Pong, ReadFails, EnqueueUnregister,
       WriteMessage, WritePumpEnds, TimerFires, EnqueueExpired, TypeOK
  <2>3. \A d \in Conn : Pending(d)' => Pending(d)
    BY <2>1, <2>2 DEF Pending
  <2>4. QED
    BY <1>1, <2>1, <2>3
<1>5. CASE RegisterClient
  <2> DEFINE c == Head(register)
  <2>1. /\ c \in Conn /\ c = register[1] /\ 1 \in 1 .. Len(register)
        /\ register' = Tail(register) /\ Len(register) \in Nat
        /\ \A i \in 1 .. Len(register') :
             i + 1 \in 1 .. Len(register) /\ register'[i] = register[i + 1]
    BY <1>5, TailFacts DEF RegisterClient, TypeOK
  <2>2. /\ UNCHANGED reader
        /\ grace' = WithoutEntry(NameOf[c])
        /\ clients' = clients \cup {c} /\ names' = names \cup {NameOf[c]}
    BY <1>5 DEF RegisterClient
  <2>3. Pending(c) /\ NameOf[c] \in Name
    BY <2>1 DEF Pending, RoomAssumption
  <2>4. \A d \in Conn : Pending(d)' => Pending(d) /\ d # c
    <3>1. reader[c] # "checked"
      BY <2>1 DEF Bookkeeping, Served
    <3>2. \A i \in 1 .. Len(register') : register'[i] # c
      <4>1. \A i \in 1 .. Len(register') : i + 1 # 1
        BY <2>1
      <4>2. QED
        BY <2>1, <4>1 DEF Bookkeeping
    <3>3. \A d \in Conn : (\E i \in 1 .. Len(register') : register'[i] = d)
                            => (\E i \in 1 .. Len(register) : register[i] = d)
      BY <2>1
    <3>4. QED
      BY <2>2, <3>1, <3>2, <3>3 DEF Pending
  <2>5. names' = NameOfClients'
    BY <2>2 DEF SerialBooks, NameOfClients
  <2>6. \A d, e \in clients' : NameOf[d] = NameOf[e] => d = e
    BY <2>1, <2>2, <2>3 DEF SerialBooks, NameOfClients
  <2>7. \A d \in Conn : Pending(d)' => NameOf[d] \notin names'
    BY <2>1, <2>2, <2>3, <2>4 DEF SerialBooks
  <2>8. \A d, e \in Conn : Pending(d)' /\ Pending(e)' /\ NameOf[d] = NameOf[e] => d = e
    BY <2>4 DEF SerialBooks
  <2>9. \A n \in names' : grace'[n] = None
    BY <2>2, <2>3 DEF SerialBooks, WithoutEntry, TypeOK
  <2>10. QED
    BY <2>5, <2>6, <2>7, <2>8, <2>9 DEF SerialBooks
<1>6. ASSUME NEW Left \in SUBSET clients, Depart(Left), UNCHANGED <<register, reader>>
      PROVE  SerialBooks'
  <2>1. clients' = clients \ Left /\ names' = names \ {NameOf[c] : c \in Left}
    BY <1>6 DEF Depart, ReleasedBy
  <2>2. \A d \in Conn : Pending(d)' <=> Pending(d)
    BY <1>6 DEF Pending
  <2>3. \A n \in names' : grace'[n] = grace[n]
    BY <1>6, <2>1, DepartGrace DEF TypeOK
  <2>4. names' = NameOfClients'
    BY <2>1 DEF SerialBooks, NameOfClients
  <2>5. QED
    BY <2>1, <2>2, <2>3, <2>4 DEF SerialBooks
<1>7. CASE UnregisterClient
  BY <1>6, <1>7 DEF UnregisterClient
<1>8. CASE Tick
  BY <1>6, <1>8 DEF Tick, TickWith, Full
<1>9. CASE ExpireGrace
  <2>1. UNCHANGED <<names, clients, register, reader>>
    BY <1>9 DEF ExpireGrace
  <2>2. \A n \in names : grace[n] = None => grace'[n] = None
    BY <1>9 DEF ExpireGrace, WithoutEntry, TypeOK
  <2>3. QED
    BY <1>1, <2>1, <2>2 DEF Pending
<1>10. CASE RemoveRoom \/ StopRoom \/ UNCHANGED vars
  <2>1. UNCHANGED <<names, clients, grace, register, reader>>
    BY <1>10 DEF RemoveRoom, StopRoom, vars
  <2>2. QED
    BY <1>1, <2>1 DEF Pending
<1>11. QED
  BY <1>2, <1>3, <1>4, <1>5, <1>7, <1>8, <1>9, <1>10 DEF SerialNext, Loop

LEMMA NoOrphanTankInductive ==
    ASSUME RoomAssumption, SerialInv, [SerialNext]_vars
    PROVE  NoOrphanTank'
<1> USE DEF hubVars, pumpVars, stateVars
<1> TypeOK /\ Bookkeeping /\ SerialBooks /\ NoOrphanTank
  BY DEF SerialInv, OwnershipInv
<1>1. ASSUME UNCHANGED <<clients, grace, tankOf, tanks>> PROVE NoOrphanTank'
  BY <1>1 DEF NoOrphanTank
<1>2. ASSUME NEW c \in Conn,
             \/ Dial(c) \/ Reject(c) \/ Accept(c) \/ EnqueueRegister(c) \/ Pumps(c)
      PROVE  NoOrphanTank'
  BY <1>1, <1>2 DEF Dial, Reject, Accept, EnqueueRegister, Pumps, Drop, Pong, ReadFails,
     EnqueueUnregister, WriteMessage, WritePumpEnds, TimerFires, EnqueueExpired
<1>3. CASE RegisterClient
  <2> DEFINE c == Head(register)
             n == NameOf[c]
  <2>1. c \in Conn /\ n \in Name /\ tankOf[c] = None
    BY <1>3, TailFacts DEF RegisterClient, TypeOK, RoomAssumption, Bookkeeping
  <2>2. /\ tankOf'[c] = TankFor(c) /\ clients' = clients \cup {c}
        /\ tanks' = tanks \cup {TankFor(c)}
        /\ \A d \in Conn : d # c => tankOf'[d] = tankOf[d]
        /\ \A m \in Name : m # n => grace'[m] = grace[m]
    BY <1>3, <2>1 DEF RegisterClient, WithoutEntry, TypeOK
  <2>3. ASSUME NEW t \in tanks
        PROVE  \/ \E d \in clients' : tankOf'[d] = t
               \/ \E m \in Name : grace'[m] # None /\ tankOf'[grace'[m]] = t
    <3>1. CASE \E d \in clients : tankOf[d] = t
      <4>1. PICK d \in clients : tankOf[d] = t
        BY <3>1
      <4>2. d \in Conn /\ d # c
        BY <2>1, <4>1 DEF Bookkeeping, TypeOK
      <4>3. QED
        BY <2>2, <4>1, <4>2
    <3>2. CASE \E m \in Name : grace[m] # None /\ tankOf[grace[m]] = t
      <4>1. PICK m \in Name : grace[m] # None /\ tankOf[grace[m]] = t
        BY <3>2
      <4>2. grace[m] \in Conn /\ grace[m] # c
        BY <2>1, <4>1 DEF Bookkeeping, TypeOK
      <4>3. CASE m # n
        BY <2>2, <4>1, <4>2, <4>3
      <4>4. CASE m = n
        <5>1. TankFor(c) = t
          BY <2>3, <4>1, <4>4 DEF TankFor, Reusable
        <5>2. QED
          BY <2>2, <5>1
      <4>5. QED
        BY <4>3, <4>4
    <3>3. QED
      BY <3>1, <3>2 DEF NoOrphanTank
  <2>4. QED
    BY <2>2, <2>3 DEF NoOrphanTank
<1>4. ASSUME NEW Left \in SUBSET clients, Depart(Left), UNCHANGED tankOf, tanks' \subseteq tanks
      PROVE  NoOrphanTank'
  <2>1. clients' = clients \ Left
    BY <1>4 DEF Depart
  <2>2. ASSUME NEW c \in Left PROVE grace'[NameOf[c]] = c
    <3>1. NameOf[c] \in Name
      BY DEF TypeOK, RoomAssumption
    <3>2. QED
      BY <1>4, <3>1, DepartGrace DEF SerialBooks
  <2>3. ASSUME NEW m \in Name, grace[m] # None PROVE grace'[m] = grace[m]
    <3>1. \A c \in Left : NameOf[c] # m
      BY <2>3 DEF SerialBooks, NameOfClients
    <3>2. QED
      BY <1>4, <3>1, DepartGrace
  <2>4. ASSUME NEW t \in tanks
        PROVE  \/ \E d \in clients' : tankOf[d] = t
               \/ \E m \in Name : grace'[m] # None /\ tankOf[grace'[m]] = t
    <3>1. CASE \E m \in Name : grace[m] # None /\ tankOf[grace[m]] = t
      BY <2>3, <3>1
    <3>2. CASE \E d \in clients : tankOf[d] = t
      <4>1. PICK d \in clients : tankOf[d] = t
        BY <3>2
      <4>2. CASE d \in Left
        <5>1. d \in Conn /\ NameOf[d] \in Name /\ d # None
          BY DEF TypeOK, RoomAssumption
        <5>2. QED
          BY <2>2, <4>1, <4>2, <5>1
      <4>3. CASE d \notin Left
        BY <2>1, <4>1, <4>3
      <4>4. QED
        BY <4>2, <4>3
    <3>3. QED
      BY <3>1, <3>2 DEF NoOrphanTank
  <2>5. QED
    BY <1>4, <2>4 DEF NoOrphanTank
<1>5. CASE UnregisterClient
  BY <1>4, <1>5 DEF UnregisterClient
<1>6. CASE Tick
  BY <1>4, <1>6 DEF Tick, TickWith, Full
<1>7. CASE ExpireGrace
  <2> DEFINE n == Head(graceExpired)
  <2>1. UNCHANGED <<clients, tankOf>> /\ n \in Name
    BY <1>7, TailFacts DEF ExpireGrace, TypeOK
  <2>2. \A m \in Name : m # n => grace'[m] = grace[m]
    BY <1>7 DEF ExpireGrace, WithoutEntry, TypeOK
  <2>3. tanks' \subseteq tanks /\ (grace[n] # None => tankOf[grace[n]] \notin tanks')
    BY <1>7 DEF ExpireGrace
  <2>4. QED
    BY <2>1, <2>2, <2>3 DEF NoOrphanTank
<1>8. CASE RemoveRoom \/ StopRoom \/ UNCHANGED vars
  BY <1>1, <1>8 DEF RemoveRoom, StopRoom, vars
<1>9. QED
  BY <1>2, <1>3, <1>5, <1>6, <1>7, <1>8 DEF SerialNext, Loop

LEMMA SerialInvariant ==
    ASSUME RoomAssumption
    PROVE  SerialSpec => []SerialInv
<1>1. Init => SerialInv
  BY EmptySeq DEF Init, SerialInv, OwnershipInv, TypeOK, Bookkeeping, TankExclusive,
     SerialBooks, NoOrphanTank, NameOfClients, Pending, RoomAssumption
<1>2. SerialInv /\ [SerialNext]_vars => SerialInv'
  BY SerialIsNext, TypeOKInductive, BookkeepingInductive, TankExclusiveInductive,
     SerialBooksInductive, NoOrphanTankInductive DEF SerialInv, OwnershipInv
<1>3. QED
  BY <1>1, <1>2, PTL DEF SerialSpec

\* When two connections never pass the name check together, every tank in play is
\* driven or in a grace period, so something will always remove it.
THEOREM SerialNoOrphanTank ==
    ASSUME RoomAssumption
    PROVE  SerialSpec => []NoOrphanTank
<1>1. SerialInv => NoOrphanTank
  BY DEF SerialInv
<1>2. QED
  BY <1>1, SerialInvariant, PTL

\* ... and then PlayerCount, the size of the names table, is the number of
\* clients.
THEOREM SerialPlayerCount ==
    ASSUME RoomAssumption, IsFiniteSet(Conn)
    PROVE  SerialSpec => []PlayerCountExact
<1>1. SerialInv => PlayerCountExact
  <2> SUFFICES ASSUME SerialInv PROVE PlayerCountExact
    OBVIOUS
  <2>1. /\ clients \subseteq Conn /\ names = {NameOf[c] : c \in clients}
        /\ \A c, d \in clients : NameOf[c] = NameOf[d] => c = d
    BY DEF SerialInv, OwnershipInv, SerialBooks, TypeOK, NameOfClients
  <2>2. IsFiniteSet(clients)
    BY <2>1, FS_Subset
  <2> DEFINE f == [c \in clients |-> NameOf[c]]
  <2>3. f \in Bijection(clients, names)
    <3>1. f \in [clients -> names]
      BY <2>1
    <3>2. \A c, d \in clients : f[c] = f[d] => c = d
      BY <2>1
    <3>3. \A n \in names : \E c \in clients : f[c] = n
      BY <2>1
    <3>4. QED
      BY <3>1, <3>2, <3>3 DEF Bijection, Injection, Surjection, IsInjective
  <2>4. QED
    BY <2>2, <2>3, FS_Bijection DEF ExistsBijection, PlayerCountExact
<1>2. QED
  BY <1>1, SerialInvariant, PTL
=============================================================================
