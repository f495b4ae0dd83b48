------------------------- MODULE RoomSessionsProofs -------------------------
(***************************************************************************)
(* The proof that the serial room implements Sessions: each step of the    *)
(* room is a step of one session, a turn of the room, or invisible.        *)
(***************************************************************************)
EXTENDS RoomSessions, RoomProofs

\* The books of a serial room, spelled out for the steps below.
LEMMA SerialFacts ==
    ASSUME RoomAssumption, SerialInv
    PROVE  /\ clients \subseteq Conn /\ tanks \subseteq Conn /\ None \notin Conn
           /\ grace \in [Name -> Conn \cup {None}]
           /\ tankOf \in [Conn -> Conn \cup {None}]
           /\ \A c \in clients : Client(NameOf[c]) = c /\ NameOf[c] \in Name
           /\ \A c \in clients : tankOf[c] # None /\ grace[NameOf[c]] = None
           /\ \A n \in Name : grace[n] # None => NameOf[grace[n]] = n /\ tankOf[grace[n]] # None
           /\ \A c \in Conn : tankOf[c] # None => tankOf[tankOf[c]] = tankOf[c]
<1>1. TypeOK /\ Bookkeeping /\ SerialBooks
  BY DEF SerialInv, OwnershipInv
<1>2. ASSUME NEW c \in clients
      PROVE  Client(NameOf[c]) = c /\ NameOf[c] \in Name /\ grace[NameOf[c]] = None
  <2>1. c \in Conn /\ NameOf[c] \in Name
    BY <1>1 DEF TypeOK, RoomAssumption
  <2>2. Client(NameOf[c]) \in clients /\ NameOf[Client(NameOf[c])] = NameOf[c]
    BY DEF Client
  <2>3. Client(NameOf[c]) = c
    BY <1>1, <2>2 DEF SerialBooks
  <2>4. grace[NameOf[c]] = None
    BY <1>1 DEF SerialBooks, NameOfClients
  <2>5. QED
    BY <2>1, <2>3, <2>4
<1>3. QED
  BY <1>1, <1>2 DEF TypeOK, Bookkeeping, RoomAssumption

\* Who speaks for a session: its client, or who left last.
LEMMA HolderFacts ==
    ASSUME RoomAssumption, SerialInv, NEW n \in Name
    PROVE  /\ Holder(n) \in Conn \cup {None}
           /\ Holder(n) # None => NameOf[Holder(n)] = n /\ tankOf[Holder(n)] # None
           /\ SessionOf(n) = "online" <=> n \in NameOfClients
           /\ SessionOf(n) = "grace" <=> n \notin NameOfClients /\ grace[n] # None
           /\ SessionOf(n) = "offline" <=> n \notin NameOfClients /\ grace[n] = None
           /\ SessionOf(n) = "offline" => TankOf(n) = None
           /\ TankOf(n) \in tanks \cup {None}
<1>1. CASE n \in NameOfClients
  <2>1. PICK c \in clients : NameOf[c] = n
    BY <1>1 DEF NameOfClients
  <2>2. Holder(n) = c
    BY <1>1, <2>1, SerialFacts DEF Holder
  <2>3. QED
    BY <1>1, <2>1, <2>2, SerialFacts DEF SessionOf, TankOf, InPlay
<1>2. CASE n \notin NameOfClients
  <2>1. Holder(n) = grace[n]
    BY <1>2 DEF Holder
  <2>2. QED
    BY <1>2, <2>1, SerialFacts DEF SessionOf, TankOf, InPlay
<1>3. QED
  BY <1>1, <1>2

\* A step of the room that leaves the tables alone is invisible.
LEMMA InvisibleStep ==
    ASSUME UNCHANGED <<clients, grace, tankOf, tanks>>
    PROVE  UNCHANGED Promised!vars
<1>1. \A n : SessionOf(n)' = SessionOf(n) /\ TankOf(n)' = TankOf(n)
  BY DEF SessionOf, TankOf, Holder, Client, InPlay, NameOfClients
<1>2. QED
  BY <1>1 DEF Promised!vars, sessions, tanksOfSessions, handedOut

\* Clients leave: their sessions enter the grace period, in the same tanks.
LEMMA DepartSessions ==
    ASSUME RoomAssumption, SerialInv, SerialInv', NEW Left \in SUBSET clients, Depart(Left),
           UNCHANGED tankOf, NEW dead \in SUBSET tanks, tanks' = tanks \ dead
    PROVE  Promised!Turn(dead, {NameOf[c] : c \in Left})
<1> DEFINE lost == {NameOf[c] : c \in Left}
<1>1. clients' = clients \ Left
  BY DEF Depart
<1>2. OwnershipInv /\ TypeOK
  BY DEF SerialInv, OwnershipInv
<1>3. ASSUME NEW n \in lost
      PROVE  /\ n \in Name /\ SessionOf(n) = "online" /\ SessionOf(n)' = "grace"
             /\ Holder(n)' = Holder(n)
  <2>1. PICK c \in Left : NameOf[c] = n
    BY DEF lost
  <2>2. n \in Name /\ Client(n) = c /\ n \in NameOfClients
    BY <2>1, SerialFacts DEF NameOfClients
  <2>3. grace'[n] \in Left /\ NameOf[grace'[n]] = n
    BY <1>2, <2>2, DepartGrace
  <2>4. grace'[n] = c /\ c \in Conn
    BY <2>2, <2>3, SerialFacts
  <2>5. n \notin NameOfClients'
    BY <1>1, <2>1, <2>2, SerialFacts DEF NameOfClients
  <2>6. SessionOf(n)' = "grace" /\ Holder(n)' = c
    BY <2>4, <2>5 DEF SessionOf, Holder, RoomAssumption
  <2>7. QED
    BY <2>2, <2>6 DEF SessionOf, Holder
<1>4. ASSUME NEW n \in Name \ lost
      PROVE  SessionOf(n)' = SessionOf(n) /\ Holder(n)' = Holder(n)
  <2>1. grace'[n] = grace[n]
    BY <1>2, DepartGrace
  <2>2. \A c : c \in clients' /\ NameOf[c] = n <=> c \in clients /\ NameOf[c] = n
    BY <1>1 DEF lost
  <2>3. (n \in NameOfClients' <=> n \in NameOfClients) /\ Client(n)' = Client(n)
    BY <2>2 DEF NameOfClients, Client
  <2>4. QED
    BY <2>1, <2>3 DEF SessionOf, Holder
<1>5. ASSUME NEW n \in Name
      PROVE  TankOf(n)' = IF TankOf(n) \in dead THEN None ELSE TankOf(n)
  <2>1. Holder(n)' = Holder(n)
    BY <1>3, <1>4
  <2>2. None \notin dead
    BY SerialFacts
  <2>3. QED
    BY <2>1, <2>2 DEF TankOf, InPlay
<1>6. sessions' = [n \in Name |-> IF n \in lost THEN "grace" ELSE sessions[n]]
  BY <1>3, <1>4 DEF sessions
<1>7. tanksOfSessions' = [n \in Name |-> IF tanksOfSessions[n] \in dead THEN None
                                                                   ELSE tanksOfSessions[n]]
  BY <1>5 DEF tanksOfSessions
<1>8. \A n \in lost : sessions[n] = "online"
  BY <1>3 DEF sessions
<1>9. handedOut' = handedOut
  BY DEF handedOut
<1>10. QED
  BY <1>6, <1>7, <1>8, <1>9 DEF Promised!Turn

\* A registration: the session of the name comes online, in the tank it left if
\* that is still in play, and in a new one otherwise.
LEMMA RegisterSession ==
    ASSUME RoomAssumption, SerialInv, SerialInv', RegisterClient,
           NEW c \in Conn, c = Head(register)
    PROVE  NameOf[c] \in Name /\ (Promised!Spawn(NameOf[c]) \/ Promised!Return(NameOf[c]))
<1> DEFINE n == NameOf[c]
           t == TankFor(c)
<1>1. TypeOK /\ Bookkeeping /\ SerialBooks /\ TankExclusive
  BY DEF SerialInv, OwnershipInv
<1>2. c \in Conn /\ c = register[1] /\ 1 \in 1 .. Len(register)
  BY <1>1, TailFacts DEF RegisterClient, TypeOK
<1>3. n \in Name /\ tankOf[c] = None /\ c # None /\ n \notin NameOfClients
  BY <1>1, <1>2 DEF Bookkeeping, SerialBooks, Pending, RoomAssumption
<1>4. /\ clients' = clients \cup {c} /\ tanks' = tanks \cup {t}
      /\ tankOf'[c] = t /\ \A d \in Conn : d # c => tankOf'[d] = tankOf[d]
      /\ grace'[n] = None /\ \A m \in Name : m # n => grace'[m] = grace[m]
  BY <1>1, <1>2, <1>3 DEF RegisterClient, WithoutEntry, TypeOK
<1>5. \A d \in Conn : tankOf[d] # c
  BY <1>1, <1>3 DEF Bookkeeping
<1>6. t \in Conn /\ (t = c \/ t \in tanks)
  BY <1>2, <1>3, TankForCases, SerialFacts
<1>7. SessionOf(n)' = "online" /\ TankOf(n)' = t
  <2>1. c \in clients' /\ n \in NameOfClients'
    BY <1>4 DEF NameOfClients
  <2>2. Client(n)' = c
    <3>1. Client(n)' \in clients' /\ NameOf[Client(n)'] = n
      BY <2>1 DEF Client
    <3>2. SerialBooks'
      BY DEF SerialInv
    <3>3. QED
      BY <2>1, <3>1, <3>2 DEF SerialBooks
  <2>3. QED
    BY <1>3, <1>4, <1>6, <2>1, <2>2 DEF SessionOf, TankOf, Holder, InPlay
<1>8. ASSUME NEW m \in Name, m # n
      PROVE  SessionOf(m)' = SessionOf(m) /\ TankOf(m)' = TankOf(m)
  <2>1. \A d : d \in clients' /\ NameOf[d] = m <=> d \in clients /\ NameOf[d] = m
    BY <1>4, <1>8
  <2>2. (m \in NameOfClients' <=> m \in NameOfClients) /\ Client(m)' = Client(m)
    BY <2>1 DEF NameOfClients, Client
  <2>3. Holder(m)' = Holder(m) /\ Holder(m) \in Conn \cup {None}
    BY <1>4, <1>8, <2>2, HolderFacts DEF Holder
  <2>4. Holder(m) # None => Holder(m) # c /\ tankOf'[Holder(m)] = tankOf[Holder(m)]
    BY <1>4, <1>8, <2>3, HolderFacts
  <2>5. Holder(m) # None => (tankOf[Holder(m)] \in tanks' <=> tankOf[Holder(m)] \in tanks)
    BY <1>4, <1>5, <1>6, <2>3
  <2>6. QED
    BY <1>4, <1>8, <2>2, <2>3, <2>4, <2>5 DEF SessionOf, TankOf, InPlay
<1>9. /\ sessions' = [sessions EXCEPT ![n] = "online"]
      /\ tanksOfSessions' = [tanksOfSessions EXCEPT ![n] = t]
  BY <1>7, <1>8 DEF sessions, tanksOfSessions
<1>10. Holder(n) = grace[n]
  BY <1>3 DEF Holder
<1>11. CASE Reusable(n)
  <2>1. t = tankOf[grace[n]] /\ grace[n] # None /\ t \in tanks
    BY <1>11 DEF TankFor, Reusable
  <2>2. TankOf(n) = t /\ SessionOf(n) = "grace" /\ t # None
    BY <1>3, <1>10, <2>1, SerialFacts DEF TankOf, InPlay, SessionOf
  <2>3. tanksOfSessions' = tanksOfSessions
    BY <1>3, <1>9, <2>2 DEF tanksOfSessions
  <2>4. t # c
    BY <1>5, <1>3, <2>1, SerialFacts
  <2>5. \A d \in Conn : tankOf'[d] = d <=> tankOf[d] = d
    BY <1>3, <1>4, <2>4
  <2>6. handedOut' = handedOut
    BY <2>5 DEF handedOut
  <2>7. QED
    BY <1>3, <1>9, <2>2, <2>3, <2>6 DEF Promised!Return, sessions, tanksOfSessions
<1>12. CASE ~ Reusable(n)
  <2>1. t = c
    BY <1>12 DEF TankFor
  <2>2. SessionOf(n) = "offline" \/ (SessionOf(n) = "grace" /\ TankOf(n) = None)
    BY <1>3, <1>10, <1>12 DEF SessionOf, TankOf, InPlay, Reusable
  <2>3. c \in Conn \ handedOut
    BY <1>2, <1>3 DEF handedOut
  <2>4. \A d \in Conn : tankOf'[d] = d <=> tankOf[d] = d \/ d = c
    BY <1>4, <2>1
  <2>5. handedOut' = handedOut \cup {c}
    BY <1>2, <2>4 DEF handedOut
  <2>6. QED
    BY <1>3, <1>9, <2>1, <2>2, <2>3, <2>5 DEF Promised!Spawn, sessions, tanksOfSessions
<1>13. QED
  BY <1>3, <1>11, <1>12

\* The end of a grace period, or a message about one that is long over.
LEMMA ExpireSession ==
    ASSUME RoomAssumption, SerialInv, SerialInv', ExpireGrace,
           NEW n \in Name, n = Head(graceExpired)
    PROVE  \/ UNCHANGED Promised!vars
           \/ Promised!Expire(n)
<1>1. TypeOK /\ SerialBooks /\ TankExclusive
  BY DEF SerialInv, OwnershipInv
<1>2. /\ n \in Name /\ UNCHANGED <<clients, tankOf>> /\ grace' = WithoutEntry(n)
      /\ tanks' = IF grace[n] = None THEN tanks ELSE tanks \ {tankOf[grace[n]]}
  BY <1>1, TailFacts DEF ExpireGrace, TypeOK
<1>3. CASE grace[n] = None
  <2>1. grace' = grace
    BY <1>1, <1>2, <1>3 DEF WithoutEntry, TypeOK
  <2>2. QED
    BY <1>2, <1>3, <2>1, InvisibleStep
<1>4. CASE grace[n] # None
  <2>1. n \notin NameOfClients
    BY <1>1, <1>4 DEF SerialBooks
  <2>2. /\ \A m : Client(m)' = Client(m) /\ NameOfClients' = NameOfClients
        /\ grace'[n] = None /\ \A m \in Name : m # n => grace'[m] = grace[m]
    BY <1>1, <1>2 DEF Client, NameOfClients, WithoutEntry, TypeOK
  <2>3. SessionOf(n) = "grace" /\ SessionOf(n)' = "offline" /\ TankOf(n)' = None
    BY <1>4, <2>1, <2>2 DEF SessionOf, TankOf, Holder, InPlay
  <2>4. ASSUME NEW m \in Name, m # n
        PROVE  SessionOf(m)' = SessionOf(m) /\ TankOf(m)' = TankOf(m)
    <3>1. Holder(m)' = Holder(m)
      BY <2>2, <2>4 DEF Holder
    <3>2. Holder(m) # None => tankOf[Holder(m)] # tankOf[grace[n]]
      <4>1. CASE m \in NameOfClients
        <5>1. PICK d \in clients : NameOf[d] = m
          BY <4>1 DEF NameOfClients
        <5>2. Holder(m) = d
          BY <4>1, <5>1, SerialFacts DEF Holder
        <5>3. QED
          BY <1>1, <1>2, <1>4, <5>2 DEF TankExclusive
      <4>2. CASE m \notin NameOfClients
        BY <1>1, <1>2, <1>4, <2>4, <4>2 DEF TankExclusive, Holder
      <4>3. QED
        BY <4>1, <4>2
    <3>3. InPlay(Holder(m))' <=> InPlay(Holder(m))
      BY <1>2, <3>1, <3>2 DEF InPlay
    <3>4. QED
      BY <1>2, <2>2, <2>4, <3>1, <3>3 DEF SessionOf, TankOf
  <2>5. /\ sessions' = [sessions EXCEPT ![n] = "offline"]
        /\ tanksOfSessions' = [tanksOfSessions EXCEPT ![n] = None]
    BY <2>3, <2>4 DEF sessions, tanksOfSessions
  <2>6. handedOut' = handedOut
    BY <1>2 DEF handedOut
  <2>7. QED
    BY <1>2, <2>3, <2>5, <2>6 DEF Promised!Expire, sessions
<1>5. QED
  BY <1>3, <1>4

\* The serial room keeps the promise to its players: it implements Sessions.
THEOREM RoomImplementsSessions ==
    ASSUME RoomAssumption
    PROVE  SerialSpec => ImplementsSessions
<1> USE DEF hubVars, pumpVars, stateVars
<1>1. Init => Promised!Init
  BY DEF Init, Promised!Init, sessions, tanksOfSessions, handedOut, SessionOf, TankOf,
     Holder, InPlay, NameOfClients, RoomAssumption
<1>2. ASSUME SerialInv, SerialInv', [SerialNext]_vars
      PROVE  [Promised!Next]_(Promised!vars)
  <2>1. ASSUME NEW c \in Conn,
               Dial(c) \/ Reject(c) \/ Accept(c) \/ EnqueueRegister(c) \/ Pumps(c)
        PROVE  UNCHANGED Promised!vars
    BY <2>1, InvisibleStep DEF Dial, Reject, Accept, EnqueueRegister, Pumps, Drop, Pong,
       ReadFails, EnqueueUnregister, WriteMessage, WritePumpEnds, TimerFires, EnqueueExpired
  <2>2. CASE RegisterClient
    <3>1. Head(register) \in Conn
      BY <1>2, <2>2, TailFacts DEF RegisterClient, SerialInv, OwnershipInv, TypeOK
    <3>2. QED
      BY <1>2, <2>2, <3>1, RegisterSession DEF Promised!Next
  <2>3. ASSUME NEW Left \in SUBSET clients, NEW dead \in SUBSET tanks, Depart(Left),
               UNCHANGED tankOf, tanks' = tanks \ dead
        PROVE  Promised!Next
    <3>1. dead \in SUBSET Conn /\ {NameOf[c] : c \in Left} \in SUBSET Name
      BY <1>2, SerialFacts
    <3>2. Promised!Turn(dead, {NameOf[c] : c \in Left})
      BY <1>2, <2>3, DepartSessions
    <3>3. QED
      BY <3>1, <3>2 DEF Promised!Next
  <2>4. CASE UnregisterClient
    <3>1. /\ Depart({Head(unregister)} \cap clients) /\ UNCHANGED tankOf
          /\ tanks' = tanks \ {}
      BY <2>4 DEF UnregisterClient
    <3>2. QED
      BY <2>3, <3>1
  <2>5. CASE Tick
    <3>1. PICK dead \in SUBSET tanks : TickWith(dead)
      BY <2>5 DEF Tick
    <3>2. Full \in SUBSET clients /\ Depart(Full) /\ UNCHANGED tankOf /\ tanks' = tanks \ dead
      BY <3>1 DEF TickWith, Full
    <3>3. QED
      BY <2>3, <3>2
  <2>6. CASE ExpireGrace
    <3>1. Head(graceExpired) \in Name
      BY <1>2, <2>6, TailFacts DEF ExpireGrace, SerialInv, OwnershipInv, TypeOK
    <3>2. QED
      BY <1>2, <2>6, <3>1, ExpireSession DEF Promised!Next
  <2>7. CASE RemoveRoom \/ StopRoom \/ UNCHANGED vars
    BY <2>7, InvisibleStep DEF RemoveRoom, StopRoom, vars
  <2>8. QED
    BY <1>2, <2>1, <2>2, <2>4, <2>5, <2>6, <2>7 DEF SerialNext, Loop
<1>3. QED
  BY <1>1, <1>2, SerialInvariant, PTL DEF SerialSpec, ImplementsSessions, Promised!Spec
=============================================================================
