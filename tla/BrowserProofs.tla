--------------------------- MODULE BrowserProofs ---------------------------
(***************************************************************************)
(* Proofs about Browser, for any number of sockets and any limits.         *)
(***************************************************************************)
EXTENDS Browser, TLAPS

\* The pages that handlers compute with: the bound on timers is a guard of the actions.
Pages ==
  [state : GameState, ws : Sock \cup {NoSock}, attempts : 0..MaxAttempts,
   retries : 0..MaxRetries, intentional : BOOLEAN, timers : Nat, doomed : BOOLEAN,
   session : BOOLEAN]

\* What awaits a socket that has not opened, and this.ws once there are sockets.
Awaited ==
  \A s \in Sock :
    /\ sock[s].link = "connecting" => sock[s].caller # "settled"
    /\ sock[s].link # "free" => tab.ws \in Sock

\* While the flag is up, a socket that was open is on its way out.
FlagBacked ==
  tab.intentional => \E s \in Sock : sock[s].link \in {"refused", "closing"}

BInv == TypeOK /\ Awaited /\ FlagBacked /\ ReconnectHasWakeup /\ LossNoticed

-----------------------------------------------------------------------------
(* The handlers' helpers.                                                  *)

\* Scheduling gives up, or leaves a timer running.
LEMMA ScheduleFacts ==
  ASSUME BrowserAssumption, NEW t \in Pages
  PROVE  /\ Schedule(t) \in Pages
         /\ Schedule(t).ws = t.ws /\ Schedule(t).intentional = t.intentional
         /\ \/ Schedule(t).state = "ERROR" /\ Schedule(t).timers = t.timers
            \/ Schedule(t).state = "RECONNECTING" /\ Schedule(t).timers = t.timers + 1
<1>1. CASE t.attempts >= MaxAttempts
  BY <1>1 DEF Schedule, Pages, GameState
<1>2. CASE ~(t.attempts >= MaxAttempts)
  <2>1. t.attempts + 1 \in 0..MaxAttempts /\ t.timers + 1 \in Nat
    BY <1>2 DEF Pages, BrowserAssumption
  <2>2. QED
    BY <1>2, <2>1 DEF Schedule, Pages, GameState
<1>3. QED
  BY <1>1, <1>2

\* A catch leaves the page alone, leaves the game, or schedules.
LEMMA RejectedFacts ==
  ASSUME BrowserAssumption, NEW t \in Pages, NEW c \in Caller
  PROVE  /\ Rejected(t, c) \in Pages
         /\ Rejected(t, c).ws = t.ws /\ Rejected(t, c).intentional = t.intentional
         /\ \/ c = "settled" /\ Rejected(t, c) = t
            \/ Rejected(t, c).state \in {"MENU", "ERROR"}
            \/ Rejected(t, c).state = "RECONNECTING" /\ Rejected(t, c).timers > 0
<1>1. CASE c = "reconnect"
  <2>1. Rejected(t, c) = Schedule(t)
    BY <1>1 DEF Rejected
  <2>2. t.timers \in Nat
    BY DEF Pages
  <2>3. QED
    BY <2>1, <2>2, ScheduleFacts
<1>2. CASE c # "reconnect"
  BY <1>2 DEF Rejected, Caller, Pages, GameState
<1>3. QED
  BY <1>1, <1>2

\* onclose takes the flag down, or takes the page out of the game.
LEMMA OnCloseFacts ==
  ASSUME BrowserAssumption, NEW t \in Pages
  PROVE  /\ OnClose(t) \in Pages
         /\ OnClose(t).ws = t.ws /\ ~OnClose(t).intentional
         /\ OnClose(t).state = "PLAYING" => t.state = "PLAYING" /\ t.intentional
         /\ OnClose(t).state = "RECONNECTING" =>
              \/ OnClose(t).timers > 0
              \/ t.state = "RECONNECTING" /\ OnClose(t).timers = t.timers
<1>1. t.timers \in Nat /\ t.intentional \in BOOLEAN
  BY DEF Pages
<1>2. CASE t.intentional
  BY <1>2 DEF OnClose, Pages
<1>3. CASE ~t.intentional /\ Engaged(t)
  BY <1>1, <1>3, ScheduleFacts DEF OnClose
<1>4. CASE ~t.intentional /\ ~Engaged(t)
  BY <1>4 DEF OnClose, Engaged
<1>5. QED
  BY <1>2, <1>3, <1>4

\* A connection has ended: the page is well-typed, the flag is down, and a page that
\* still plays or still waits owes it to another connection or a timer.
LEMMA EndsFacts ==
  ASSUME BrowserAssumption, TypeOK, NEW s \in Sock, NEW failed \in BOOLEAN, Ends(s, failed)
  PROVE  /\ TypeOK' /\ tab'.ws = tab.ws /\ ~tab'.intentional
         /\ sock' = [sock EXCEPT ![s] = Free]
         /\ tab'.state = "PLAYING" => tab.state = "PLAYING" /\ tab.intentional
         /\ tab'.state = "RECONNECTING" =>
              \/ tab'.timers > 0
              \/ /\ tab.state = "RECONNECTING" /\ tab'.timers = tab.timers
                 /\ ~failed \/ sock[s].caller = "settled"
<1> DEFINE t == IF failed THEN Rejected(tab, sock[s].caller) ELSE tab
<1>1. tab \in Pages /\ sock[s].caller \in Caller
  BY DEF TypeOK, Pages, BrowserAssumption
<1>2. /\ t \in Pages /\ t.ws = tab.ws /\ t.intentional = tab.intentional
      /\ \/ t = tab /\ (~failed \/ sock[s].caller = "settled")
         \/ t.state \in {"MENU", "ERROR"}
         \/ t.state = "RECONNECTING" /\ t.timers > 0
  BY <1>1, RejectedFacts
<1>3. tab' = OnClose(t) /\ tab'.timers <= MaxTimers /\ sock' = [sock EXCEPT ![s] = Free]
  BY DEF Ends
<1> HIDE DEF t
<1>4. tab' \in Pages
  BY <1>2, <1>3, OnCloseFacts
<1>5. TypeOK'
  <2>1. tab'.timers \in 0..MaxTimers
    BY <1>3, <1>4 DEF Pages, BrowserAssumption
  <2>2. sock' \in [Sock -> [link : Link, caller : Caller]]
    BY <1>3 DEF TypeOK, Free, Link, Caller
  <2>3. QED
    BY <1>4, <2>1, <2>2 DEF TypeOK, Pages
<1>6. tab'.ws = tab.ws /\ ~tab'.intentional
  BY <1>2, <1>3, OnCloseFacts
<1>7. tab'.state = "PLAYING" => tab.state = "PLAYING" /\ tab.intentional
  BY <1>2, <1>3, OnCloseFacts
<1>8. tab'.state = "RECONNECTING" =>
        \/ tab'.timers > 0
        \/ /\ tab.state = "RECONNECTING" /\ tab'.timers = tab.timers
           /\ ~failed \/ sock[s].caller = "settled"
  BY <1>2, <1>3, OnCloseFacts
<1>9. QED
  BY <1>3, <1>5, <1>6, <1>7, <1>8

\* this.ws.close() changes no caller, frees nothing and opens nothing.
LEMMA CloseWsFacts ==
  ASSUME TypeOK
  PROVE  /\ CloseWs \in [Sock -> [link : Link, caller : Caller]]
         /\ \A s \in Sock :
              /\ CloseWs[s].caller = sock[s].caller
              /\ CloseWs[s].link = "connecting" => sock[s].link = "connecting"
              /\ CloseWs[s].link = "free" <=> sock[s].link = "free"
              /\ sock[s].link \in {"refused", "closing"} =>
                   CloseWs[s].link \in {"refused", "closing"}
<1>1. ASSUME NEW s \in Sock
      PROVE  /\ CloseWs[s] \in [link : Link, caller : Caller]
             /\ CloseWs[s].caller = sock[s].caller
             /\ CloseWs[s].link = "connecting" => sock[s].link = "connecting"
             /\ CloseWs[s].link = "free" <=> sock[s].link = "free"
             /\ sock[s].link \in {"refused", "closing"} =>
                  CloseWs[s].link \in {"refused", "closing"}
  <2>1. sock[s] \in [link : Link, caller : Caller]
    BY DEF TypeOK
  <2>2. CASE s # tab.ws
    BY <2>1, <2>2 DEF CloseWs
  <2>3. CASE s = tab.ws /\ sock[s].link \in {"free", "aborting"}
    BY <2>1, <2>3 DEF CloseWs
  <2>4. CASE s = tab.ws /\ sock[s].link = "connecting"
    BY <2>1, <2>4 DEF CloseWs, Link
  <2>5. CASE s = tab.ws /\ sock[s].link \notin {"free", "aborting", "connecting"}
    BY <2>1, <2>5 DEF CloseWs, Link
  <2>6. QED
    BY <2>2, <2>3, <2>4, <2>5
<1>2. CloseWs \in [Sock -> [link : Link, caller : Caller]]
  BY <1>1 DEF CloseWs
<1>3. QED
  BY <1>1, <1>2

\* A new connection, from a page that connects or reconnects.
LEMMA ConnectStep ==
  ASSUME BrowserAssumption, NEW t \in Pages, t.timers <= MaxTimers,
         t.state \in {"CONNECTING", "RECONNECTING"},
         NEW links \in [Sock -> [link : Link, caller : Caller]],
         \A x \in Sock : links[x].link = "connecting" => links[x].caller # "settled",
         t.intentional => \E x \in Sock : links[x].link \in {"refused", "closing"},
         NEW s \in Sock, NEW c \in Caller \ {"settled"}, Connect(t, links, s, c)
  PROVE  BInv'
<1>1. /\ links[s].link = "free"
      /\ tab' = [t EXCEPT !.ws = s]
      /\ sock' = [links EXCEPT ![s] = [link |-> "connecting", caller |-> c]]
  BY DEF Connect
<1>2. TypeOK'
  <2>1. t.timers \in 0..MaxTimers
    BY DEF Pages, BrowserAssumption
  <2>2. tab'.timers \in 0..MaxTimers /\ tab' \in Pages
    BY <1>1, <2>1 DEF Pages
  <2>3. sock' \in [Sock -> [link : Link, caller : Caller]]
    BY <1>1 DEF Link
  <2>4. QED
    BY <2>2, <2>3 DEF TypeOK, Pages
<1>3. /\ tab'.ws = s /\ tab'.state = t.state /\ tab'.intentional = t.intentional
      /\ sock'[s] = [link |-> "connecting", caller |-> c]
      /\ \A x \in Sock \ {s} : sock'[x] = links[x]
  BY <1>1 DEF Pages
<1>4. Awaited'
  BY <1>3 DEF Awaited
<1>5. FlagBacked'
  BY <1>1, <1>3 DEF FlagBacked
<1>6. ReconnectHasWakeup' /\ LossNoticed'
  BY <1>3 DEF ReconnectHasWakeup, LossNoticed
<1>7. QED
  BY <1>2, <1>4, <1>5, <1>6 DEF BInv

\* A connection that ends.
LEMMA EndsStep ==
  ASSUME BrowserAssumption, BInv, NEW s \in Sock, NEW failed \in BOOLEAN, Ends(s, failed),
         sock[s].link = "connecting" => failed
  PROVE  BInv'
<1>1. TypeOK /\ Awaited /\ ReconnectHasWakeup /\ LossNoticed
  BY DEF BInv
<1>2. /\ TypeOK' /\ tab'.ws = tab.ws /\ ~tab'.intentional
      /\ sock' = [sock EXCEPT ![s] = Free]
      /\ tab'.state = "PLAYING" => tab.state = "PLAYING" /\ tab.intentional
      /\ tab'.state = "RECONNECTING" =>
           \/ tab'.timers > 0
           \/ /\ tab.state = "RECONNECTING" /\ tab'.timers = tab.timers
              /\ ~failed \/ sock[s].caller = "settled"
  BY <1>1, EndsFacts
<1>3. sock'[s] = Free /\ \A x \in Sock \ {s} : sock'[x] = sock[x]
  BY <1>1, <1>2 DEF TypeOK
<1>4. Awaited'
  BY <1>1, <1>2, <1>3 DEF Awaited, Free
<1>5. FlagBacked'
  BY <1>2 DEF FlagBacked
<1>6. ReconnectHasWakeup'
  BY <1>1, <1>2, <1>3 DEF ReconnectHasWakeup, Awaited
<1>7. LossNoticed'
  <2>1. SUFFICES ASSUME tab'.state = "PLAYING"
                 PROVE  \E x \in Sock : sock'[x].link # "free"
    BY <1>2 DEF LossNoticed
  <2>2. \E x \in Sock : /\ sock[x].link # "free"
                        /\ \E y \in Sock \ {x} : sock[y].link # "free"
    BY <1>1, <1>2, <2>1 DEF LossNoticed
  <2>3. QED
    BY <1>3, <2>2
<1>8. QED
  BY <1>2, <1>4, <1>5, <1>6, <1>7 DEF BInv

-----------------------------------------------------------------------------
(* The invariant.                                                          *)

LEMMA BInvInit ==
  ASSUME BrowserAssumption, Init
  PROVE  BInv
<1>1. TypeOK
  BY DEF Init, TypeOK, Page, Free, GameState, Link, Caller, BrowserAssumption
<1>2. Awaited /\ FlagBacked /\ ReconnectHasWakeup /\ LossNoticed
  BY DEF Init, Page, Free, Awaited, FlagBacked, ReconnectHasWakeup, LossNoticed
<1>3. QED
  BY <1>1, <1>2 DEF BInv

\* The steps that touch only the page, and do not take it into the game.
LEMMA PageStep ==
  ASSUME BInv, UNCHANGED sock, TypeOK', tab'.ws = tab.ws,
         tab'.intentional = tab.intentional,
         tab'.state = "PLAYING" => tab.state = "PLAYING",
         tab'.state = "RECONNECTING" => tab'.timers > 0
  PROVE  BInv'
  BY DEF BInv, Awaited, FlagBacked, ReconnectHasWakeup, LossNoticed

\* The steps of the page and its player.
LEMMA PlayerStep ==
  ASSUME BrowserAssumption, BInv, Boot \/ Join \/ Respawn \/ LeaveRoom \/ Reload
  PROVE  BInv'
<1> USE DEF BInv
<1>1. tab \in Pages /\ tab.timers <= MaxTimers
  BY DEF TypeOK, Pages, BrowserAssumption
<1> DEFINE c == [tab EXCEPT !.state = "CONNECTING"]
<1>2. /\ c \in Pages /\ c.timers <= MaxTimers /\ c.state = "CONNECTING"
      /\ c.intentional = tab.intentional
  BY <1>1 DEF Pages, GameState
<1>3. /\ sock \in [Sock -> [link : Link, caller : Caller]]
      /\ \A x \in Sock : sock[x].link = "connecting" => sock[x].caller # "settled"
      /\ c.intentional => \E x \in Sock : sock[x].link \in {"refused", "closing"}
  BY <1>2 DEF TypeOK, Awaited, FlagBacked
<1>4. /\ CloseWs \in [Sock -> [link : Link, caller : Caller]]
      /\ \A x \in Sock : CloseWs[x].link = "connecting" => CloseWs[x].caller # "settled"
      /\ c.intentional => \E x \in Sock : CloseWs[x].link \in {"refused", "closing"}
  BY <1>3, CloseWsFacts
<1>5. {"resume", "join"} \subseteq Caller \ {"settled"}
  BY DEF Caller
<1> HIDE DEF c
<1>6. CASE Boot
  <2>1. CASE ~tab.session /\ tab' = [tab EXCEPT !.state = "MENU"] /\ UNCHANGED sock
    <3>1. /\ tab'.ws = tab.ws /\ tab'.intentional = tab.intentional
          /\ tab'.state = "MENU" /\ TypeOK'
      BY <2>1 DEF TypeOK, GameState
    <3>2. QED
      BY <2>1, <3>1, PageStep
  <2>2. CASE \E s \in Sock : Connect(c, sock, s, "resume")
    BY <1>2, <1>3, <1>5, <2>2, ConnectStep
  <2>3. QED
    BY <1>6, <2>1, <2>2 DEF Boot, c
<1>7. CASE Join
  <2>1. \E s \in Sock : Connect(c, sock, s, "join")
    BY <1>7 DEF Join, c
  <2>2. QED
    BY <1>2, <1>3, <1>5, <2>1, ConnectStep
<1>8. CASE Respawn
  <2>1. \E s \in Sock : Connect(c, CloseWs, s, "join")
    BY <1>8 DEF Respawn, c
  <2>2. QED
    BY <1>2, <1>4, <1>5, <2>1, ConnectStep
<1>9. CASE LeaveRoom
  <2>1. tab' = [tab EXCEPT !.session = FALSE, !.state = "MENU"] /\ sock' = CloseWs
    BY <1>9 DEF LeaveRoom
  <2>2. /\ TypeOK' /\ tab'.ws = tab.ws /\ tab'.intentional = tab.intentional
        /\ tab'.state = "MENU"
    BY <1>4, <2>1 DEF TypeOK, GameState
  <2>3. Awaited' /\ FlagBacked'
    BY <1>2, <1>4, <2>1, <2>2, CloseWsFacts DEF Awaited, FlagBacked
  <2>4. QED
    BY <2>2, <2>3 DEF ReconnectHasWakeup, LossNoticed
<1>10. CASE Reload
  <2>1. tab' = Page(tab.session) /\ sock' = [s \in Sock |-> Free]
    BY <1>10 DEF Reload
  <2>2. TypeOK'
    BY <2>1 DEF TypeOK, Page, Free, GameState, Link, Caller, BrowserAssumption
  <2>3. QED
    BY <2>1, <2>2
       DEF Page, Free, Awaited, FlagBacked, ReconnectHasWakeup, LossNoticed
<1>11. QED
  BY <1>6, <1>7, <1>8, <1>9, <1>10

\* The timers and the visibility of the tab.
LEMMA TimerStep ==
  ASSUME BrowserAssumption, BInv, Visible \/ DoReconnect \/ DeathShown
  PROVE  BInv'
<1> USE DEF BInv
<1>1. tab \in Pages /\ tab.timers <= MaxTimers
  BY DEF TypeOK, Pages, BrowserAssumption
<1>2. CASE Visible
  <2> DEFINE t == [tab EXCEPT !.attempts = 0]
  <2>1. /\ t \in Pages /\ t.ws = tab.ws /\ t.intentional = tab.intentional
        /\ t.timers \in Nat
    BY <1>1 DEF Pages, BrowserAssumption
  <2>2. tab' = Schedule(t) /\ tab'.timers <= MaxTimers /\ UNCHANGED sock
    BY <1>2 DEF Visible
  <2> HIDE DEF t
  <2>3. /\ tab' \in Pages /\ tab'.ws = tab.ws /\ tab'.intentional = tab.intentional
        /\ tab'.state # "PLAYING" /\ (tab'.state = "RECONNECTING" => tab'.timers > 0)
    BY <2>1, <2>2, ScheduleFacts
  <2>4. tab'.timers \in 0..MaxTimers
    BY <2>2, <2>3 DEF Pages, BrowserAssumption
  <2>5. TypeOK'
    BY <2>2, <2>3, <2>4 DEF TypeOK, Pages
  <2>6. QED
    BY <2>2, <2>3, <2>5, PageStep
<1>3. CASE DoReconnect
  <2> DEFINE t == [tab EXCEPT !.timers = @ - 1]
  <2>1. tab.timers > 0
    BY <1>3 DEF DoReconnect
  <2>2. /\ t \in Pages /\ t.timers <= MaxTimers /\ t.state = tab.state
        /\ t.ws = tab.ws /\ t.intentional = tab.intentional /\ t.timers \in 0..MaxTimers
    BY <1>1, <2>1 DEF Pages, BrowserAssumption
  <2>3. CASE tab.state # "RECONNECTING" /\ tab' = t /\ UNCHANGED sock
    <3>1. TypeOK'
      BY <2>2, <2>3 DEF TypeOK, Pages
    <3>2. QED
      BY <2>2, <2>3, <3>1, PageStep
  <2>4. CASE tab.state = "RECONNECTING" /\ \E s \in Sock : Connect(t, sock, s, "reconnect")
    <3>1. /\ sock \in [Sock -> [link : Link, caller : Caller]]
          /\ \A x \in Sock : sock[x].link = "connecting" => sock[x].caller # "settled"
          /\ t.intentional => \E x \in Sock : sock[x].link \in {"refused", "closing"}
          /\ "reconnect" \in Caller \ {"settled"}
      BY <2>2 DEF TypeOK, Awaited, FlagBacked, Caller
    <3> HIDE DEF t
    <3>2. QED
      BY <2>2, <2>4, <3>1, ConnectStep
  <2>5. QED
    BY <1>3, <2>3, <2>4 DEF DoReconnect
<1>4. CASE DeathShown
  <2>1. tab' = [tab EXCEPT !.doomed = FALSE, !.state = "MENU"] /\ UNCHANGED sock
    BY <1>4 DEF DeathShown
  <2>2. /\ TypeOK' /\ tab'.ws = tab.ws /\ tab'.intentional = tab.intentional
        /\ tab'.state = "MENU"
    BY <2>1 DEF TypeOK, GameState
  <2>3. QED
    BY <2>1, <2>2, PageStep
<1>5. QED
  BY <1>2, <1>3, <1>4

\* A connection opens: whether its name goes to it, to another one, or the send throws.
LEMMA OpenStep ==
  ASSUME BrowserAssumption, BInv, NEW s \in Sock, OnOpen(s)
  PROVE  BInv'
<1> USE DEF BInv
<1>1. sock[s].link = "connecting" /\ tab.ws \in Sock
  BY DEF OnOpen, Awaited
<1>2. CASE /\ tab.ws # s /\ sock[tab.ws].link = "connecting" /\ UNCHANGED tab
           /\ sock' = [sock EXCEPT ![s].link = "mute"]
  <2>1. /\ TypeOK' /\ sock'[s].link = "mute"
        /\ \A x \in Sock \ {s} : sock'[x] = sock[x]
    BY <1>2 DEF TypeOK, Link
  <2>2. Awaited' /\ FlagBacked'
    BY <1>1, <1>2, <2>1 DEF Awaited, FlagBacked
  <2>3. ReconnectHasWakeup' /\ LossNoticed'
    BY <1>1, <1>2, <2>1 DEF ReconnectHasWakeup, LossNoticed
  <2>4. QED
    BY <2>1, <2>2, <2>3
<1>3. CASE /\ sock' = [sock EXCEPT ![s] =
                         [link |-> IF tab.ws = s THEN "greeted" ELSE "mute",
                          caller |-> "settled"]]
           /\ tab' = [tab EXCEPT !.attempts = 0, !.session = TRUE, !.state = "PLAYING"]
  <2>1. /\ TypeOK' /\ sock'[s].link \in {"greeted", "mute"}
        /\ \A x \in Sock \ {s} : sock'[x] = sock[x]
        /\ tab'.ws = tab.ws /\ tab'.intentional = tab.intentional
        /\ tab'.state = "PLAYING"
    <3>1. /\ sock' \in [Sock -> [link : Link, caller : Caller]]
          /\ sock'[s].link \in {"greeted", "mute"}
          /\ \A x \in Sock \ {s} : sock'[x] = sock[x]
      BY <1>3 DEF TypeOK, Link, Caller
    <3>2. 0 \in 0..MaxAttempts
      BY DEF BrowserAssumption
    <3>3. QED
      BY <1>3, <3>1, <3>2 DEF TypeOK, GameState
  <2>2. Awaited' /\ FlagBacked'
    BY <1>1, <2>1 DEF Awaited, FlagBacked
  <2>3. ReconnectHasWakeup'
    BY <2>1 DEF ReconnectHasWakeup
  <2>4. LossNoticed'
    <3>1. ASSUME tab'.intentional
          PROVE  \E x \in Sock \ {s} : sock'[x].link # "free"
      BY <1>1, <2>1, <3>1 DEF FlagBacked
    <3>2. QED
      BY <2>1, <3>1 DEF LossNoticed
  <2>5. QED
    BY <2>1, <2>2, <2>3, <2>4
<1>4. QED
  BY <1>2, <1>3 DEF OnOpen

\* The server refuses a name.
LEMMA ErrorStep ==
  ASSUME BrowserAssumption, BInv, NEW s \in Sock, OnError(s)
  PROVE  BInv'
<1> USE DEF BInv
<1>1. PICK retryable \in BOOLEAN : tab' = Refused(tab, retryable)
  BY DEF OnError
<1>2. /\ sock[s].link = "greeted" /\ tab'.timers <= MaxTimers
      /\ sock' = [sock EXCEPT ![s].link = "refused"]
  BY DEF OnError
<1>3. /\ tab' \in Pages /\ tab'.ws = tab.ws /\ tab'.state # "PLAYING"
      /\ tab'.state = "RECONNECTING" => tab'.timers > 0
  <2>1. tab \in Pages
    BY DEF TypeOK, Pages, BrowserAssumption
  <2> DEFINE t == [tab EXCEPT !.retries = @ + 1, !.intentional = TRUE]
  <2>2. CASE tab.retries < MaxRetries /\ tab' = Schedule(t)
    <3>1. tab.retries + 1 \in 0..MaxRetries
      BY <2>1, <2>2 DEF Pages, BrowserAssumption
    <3>2. t \in Pages /\ t.ws = tab.ws /\ t.timers \in Nat
      BY <2>1, <3>1 DEF Pages
    <3> HIDE DEF t
    <3>3. QED
      BY <2>2, <3>2, ScheduleFacts
  <2>3. CASE tab' = [tab EXCEPT !.retries = 0, !.session = FALSE, !.state = "MENU"]
    <3>1. 0 \in 0..MaxRetries
      BY DEF BrowserAssumption
    <3>2. QED
      BY <2>1, <2>3, <3>1 DEF Pages, GameState
  <2>4. \/ tab.retries < MaxRetries /\ tab' = Schedule(t)
        \/ tab' = [tab EXCEPT !.retries = 0, !.session = FALSE, !.state = "MENU"]
    <3>1. CASE retryable /\ Engaged(tab) /\ tab.retries < MaxRetries
      BY <1>1, <3>1 DEF Refused
    <3>2. CASE ~(retryable /\ Engaged(tab) /\ tab.retries < MaxRetries)
      BY <1>1, <3>2 DEF Refused
    <3>3. QED
      BY <3>1, <3>2
  <2> HIDE DEF t
  <2>5. QED
    BY <2>2, <2>3, <2>4
<1>4. TypeOK'
  <2>1. tab'.timers \in 0..MaxTimers
    BY <1>2, <1>3 DEF Pages, BrowserAssumption
  <2>2. QED
    BY <1>2, <1>3, <2>1 DEF TypeOK, Pages, Link
<1>5. /\ sock'[s].link = "refused" /\ sock'[s].caller = sock[s].caller
      /\ \A x \in Sock \ {s} : sock'[x] = sock[x]
  BY <1>2 DEF TypeOK
<1>6. Awaited' /\ FlagBacked'
  BY <1>2, <1>3, <1>5 DEF Awaited, FlagBacked
<1>7. ReconnectHasWakeup' /\ LossNoticed'
  BY <1>3 DEF ReconnectHasWakeup, LossNoticed
<1>8. QED
  BY <1>4, <1>6, <1>7

\* The server accepts, and the tank's life ends.
LEMMA TankStep ==
  ASSUME BrowserAssumption, BInv, NEW s \in Sock, OnInit(s) \/ TankDies(s) \/ OnDead(s)
  PROVE  BInv'
<1> USE DEF BInv
<1>1. CASE OnDead(s)
  <2>1. /\ TypeOK' /\ tab'.ws = tab.ws /\ tab'.intentional = tab.intentional
        /\ tab'.state = "DEAD" /\ UNCHANGED sock
    BY <1>1 DEF OnDead, TypeOK, GameState
  <2>2. QED
    BY <2>1, PageStep
<1>2. CASE OnInit(s) \/ TankDies(s)
  <2>1. /\ sock[s].link \in {"greeted", "accepted"}
        /\ \E l \in {"accepted", "dead"} : sock' = [sock EXCEPT ![s].link = l]
        /\ \/ UNCHANGED tab
           \/ tab' = [tab EXCEPT !.retries = 0]
           \/ tab' = [tab EXCEPT !.doomed = TRUE]
    BY <1>2 DEF OnInit, TankDies
  <2>2. /\ TypeOK' /\ tab'.ws = tab.ws /\ tab'.intentional = tab.intentional
        /\ tab'.state = tab.state /\ tab'.timers = tab.timers
        /\ sock'[s].link \in {"accepted", "dead"}
        /\ \A x \in Sock \ {s} : sock'[x] = sock[x]
    <3>1. /\ sock' \in [Sock -> [link : Link, caller : Caller]]
          /\ sock'[s].link \in {"accepted", "dead"}
          /\ \A x \in Sock \ {s} : sock'[x] = sock[x]
      BY <2>1 DEF TypeOK, Link
    <3>2. 0 \in 0..MaxRetries
      BY DEF BrowserAssumption
    <3>3. QED
      BY <2>1, <3>1, <3>2 DEF TypeOK
  <2>3. Awaited' /\ FlagBacked'
    BY <2>1, <2>2 DEF Awaited, FlagBacked
  <2>4. ReconnectHasWakeup' /\ LossNoticed'
    BY <2>1, <2>2 DEF ReconnectHasWakeup, LossNoticed
  <2>5. QED
    BY <2>2, <2>3, <2>4
<1>3. QED
  BY <1>1, <1>2

LEMMA BInvStep ==
  ASSUME BrowserAssumption, BInv, [Next]_vars
  PROVE  BInv'
<1>1. CASE UNCHANGED vars
  BY <1>1 DEF vars, BInv, TypeOK, Awaited, FlagBacked, ReconnectHasWakeup, LossNoticed
<1>2. CASE Boot \/ Join \/ Respawn \/ LeaveRoom \/ Reload
  BY <1>2, PlayerStep
<1>3. CASE Visible \/ DoReconnect \/ DeathShown
  BY <1>3, TimerStep
<1>4. ASSUME NEW s \in Sock, OnFail(s) \/ OnDrop(s)
      PROVE  BInv'
  <2>1. PICK failed \in BOOLEAN :
           Ends(s, failed) /\ (sock[s].link = "connecting" => failed)
    BY <1>4 DEF OnFail, OnDrop, Opened
  <2>2. QED
    BY <2>1, EndsStep
<1>5. ASSUME NEW s \in Sock,
             OnOpen(s) \/ OnError(s) \/ OnInit(s) \/ TankDies(s) \/ OnDead(s)
      PROVE  BInv'
  BY <1>5, OpenStep, ErrorStep, TankStep
<1>6. QED
  BY <1>1, <1>2, <1>3, <1>4, <1>5 DEF Next

-----------------------------------------------------------------------------
\* Type correctness of the page and its sockets.
THEOREM BrowserTypeOK == Spec => []TypeOK
<1>1. Init => BInv
  BY BInvInit, BrowserAssumption
<1>2. BInv /\ [Next]_vars => BInv'
  BY BInvStep, BrowserAssumption
<1>3. BInv => TypeOK
  BY DEF BInv
<1>4. QED
  BY <1>1, <1>2, <1>3, PTL DEF Spec

\* A playing page notices the loss of its last connection, though one flag stands
\* for the intentional closes of all of them (onclose in Socket.connect).
THEOREM BrowserLossNoticed == Spec => []LossNoticed
<1>1. Init => BInv
  BY BInvInit, BrowserAssumption
<1>2. BInv /\ [Next]_vars => BInv'
  BY BInvStep, BrowserAssumption
<1>3. BInv => LossNoticed
  BY DEF BInv
<1>4. QED
  BY <1>1, <1>2, <1>3, PTL DEF Spec

\* A page that waits to reconnect has a timer or an attempt under way, through all
\* the early returns and catches of _doReconnect, onclose and leaveRoom.
THEOREM BrowserReconnectHasWakeup == Spec => []ReconnectHasWakeup
<1>1. Init => BInv
  BY BInvInit, BrowserAssumption
<1>2. BInv /\ [Next]_vars => BInv'
  BY BInvStep, BrowserAssumption
<1>3. BInv => ReconnectHasWakeup
  BY DEF BInv
<1>4. QED
  BY <1>1, <1>2, <1>3, PTL DEF Spec
=============================================================================
