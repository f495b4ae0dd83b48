------------------------------ MODULE Browser ------------------------------
(***************************************************************************)
(* The browser's side of a session: frontend/src/core/Socket.js and Game.js.*)
(* One tab, its game state, its reconnect timers and every WebSocket it has *)
(* opened and not yet seen closed.  JavaScript runs one task at a time, so  *)
(* an action is one task with the promise continuations it releases.        *)
(***************************************************************************)
EXTENDS Naturals

CONSTANTS
  Sock,          \* slots for sockets; a closed socket frees its slot
  NoSock,        \* Socket.ws of a page that never connected
  MaxAttempts,   \* Socket.maxReconnectAttempts
  MaxRetries,    \* Socket.maxNameRetries
  MaxTimers      \* bound: pending reconnect timers

ASSUME BrowserAssumption ==
  NoSock \notin Sock /\ MaxAttempts \in Nat /\ MaxRetries \in Nat /\ MaxTimers \in Nat

VARIABLES
  tab,   \* the fields of Game and Socket
  sock   \* each slot's connection and the caller awaiting its promise

vars == <<tab, sock>>

GameState == {"INITIALIZING", "MENU", "CONNECTING", "PLAYING", "RECONNECTING",
              "DEAD", "ERROR"}

\* "free": none or closed.  "aborting": closed by the page before it opened.
\* "mute": open, no name sent on it.  "greeted": the name is sent on it.
\* "accepted", "dead": the server answered "init"; its tank is alive, or gone.
\* "refused": the server answered with an error and will close.
\* "closing": closed by the page after it opened; its messages are dropped.
Link == {"free", "connecting", "aborting", "mute", "greeted", "accepted", "dead",
         "refused", "closing"}
Opened == {"mute", "greeted", "accepted", "dead", "refused", "closing"}

\* Who awaits Socket.connect: resumeSession, joinGame or Game.connect, _doReconnect.
\* "settled" when the promise is resolved or rejected.
Caller == {"settled", "resume", "join", "reconnect"}

Free == [link |-> "free", caller |-> "settled"]

\* A page just loaded; localStorage is all that is left of the one before.
Page(session) ==
  [state |-> "INITIALIZING", ws |-> NoSock, attempts |-> 0, retries |-> 0,
   intentional |-> FALSE, timers |-> 0, doomed |-> FALSE, session |-> session]

TypeOK ==
  /\ tab \in [state : GameState, ws : Sock \cup {NoSock}, attempts : 0..MaxAttempts,
              retries : 0..MaxRetries, intentional : BOOLEAN, timers : 0..MaxTimers,
              doomed : BOOLEAN, session : BOOLEAN]
  /\ sock \in [Sock -> [link : Link, caller : Caller]]

Init ==
  /\ tab = Page(FALSE)
  /\ sock = [s \in Sock |-> Free]

-----------------------------------------------------------------------------
(* What the handlers do to the page.                                       *)

\* The states in which Socket reconnects: playing, or already retrying.
Engaged(t) == t.state \in {"PLAYING", "RECONNECTING"}

Schedule(t) ==
  IF t.attempts >= MaxAttempts
  THEN [t EXCEPT !.state = "ERROR"]
  ELSE [t EXCEPT !.state = "RECONNECTING", !.attempts = @ + 1, !.timers = @ + 1]

\* A wrong version, for the mutants: the catch of _doReconnect gives up silently.
RejectedQuietly(t, caller) ==
  CASE caller = "resume" -> [t EXCEPT !.state = "MENU", !.session = FALSE]
    [] caller = "join"   -> [t EXCEPT !.state = "ERROR"]
    [] OTHER             -> t

\* The catch of whoever awaits the connection.
Rejected(t, caller) ==
  CASE caller = "settled"   -> t
    [] caller = "resume"    -> [t EXCEPT !.state = "MENU", !.session = FALSE]
    [] caller = "join"      -> [t EXCEPT !.state = "ERROR"]
    [] caller = "reconnect" -> Schedule(t)

\* A wrong version, for the mutants: onclose leaves the flag set.
OnCloseSticky(t) ==
  IF ~t.intentional /\ Engaged(t) THEN Schedule(t) ELSE t

OnClose(t) ==
  IF t.intentional THEN [t EXCEPT !.intentional = FALSE]
  ELSE IF Engaged(t) THEN Schedule(t)
  ELSE t

\* new WebSocket(url), as this.ws, from the page t.
Connect(t, links, s, caller) ==
  /\ links[s].link = "free"
  /\ tab' = [t EXCEPT !.ws = s]
  /\ sock' = [links EXCEPT ![s] = [link |-> "connecting", caller |-> caller]]

\* this.ws.close().
CloseWs ==
  [s \in Sock |->
    IF s # tab.ws THEN sock[s]
    ELSE [sock[s] EXCEPT !.link =
            CASE @ \in {"free", "aborting"} -> @
              [] @ = "connecting"           -> "aborting"
              [] OTHER                      -> "closing"]]

-----------------------------------------------------------------------------
(* The page and its player.                                                *)

\* Game.initialize, resumeSession.
Boot ==
  /\ tab.state = "INITIALIZING"
  /\ \/ /\ ~tab.session
        /\ tab' = [tab EXCEPT !.state = "MENU"]
        /\ UNCHANGED sock
     \/ /\ tab.session
        /\ \E s \in Sock : Connect([tab EXCEPT !.state = "CONNECTING"], sock, s, "resume")

\* A reload loses everything but the stored session.
Reload ==
  /\ tab' = Page(tab.session)
  /\ sock' = [s \in Sock |-> Free]

Join ==
  /\ tab.state = "MENU"
  /\ \E s \in Sock : Connect([tab EXCEPT !.state = "CONNECTING"], sock, s, "join")

Respawn ==
  /\ tab.state = "DEAD"
  /\ \E s \in Sock : Connect([tab EXCEPT !.state = "CONNECTING"], CloseWs, s, "join")

LeaveRoom ==
  /\ tab.state \notin {"MENU", "INITIALIZING"}
  /\ tab' = [tab EXCEPT !.session = FALSE, !.state = "MENU"]
  /\ sock' = CloseWs

\* visibilitychange: the tab is shown again.
Visible ==
  /\ tab.state = "RECONNECTING"
  /\ tab' = Schedule([tab EXCEPT !.attempts = 0])
  /\ tab'.timers <= MaxTimers
  /\ UNCHANGED sock

\* A timer of _scheduleReconnect runs _doReconnect.
DoReconnect ==
  /\ tab.timers > 0
  /\ LET t == [tab EXCEPT !.timers = @ - 1]
     IN \/ /\ tab.state # "RECONNECTING"
           /\ tab' = t
           /\ UNCHANGED sock
        \/ /\ tab.state = "RECONNECTING"
           /\ \E s \in Sock : Connect(t, sock, s, "reconnect")

\* The local tank's death, 1500 ms after it was drawn: EntityBase.updateData.
DeathShown ==
  /\ tab.doomed
  /\ tab' = [tab EXCEPT !.doomed = FALSE, !.state = "MENU"]
  /\ UNCHANGED sock

-----------------------------------------------------------------------------
(* The network and the server.                                             *)

\* onopen greets this.ws, which may be a later socket than s.  Sending on one that
\* is still connecting throws, and nothing after the send runs.  No two mute
\* sockets at once: a bound.
OnOpen(s) ==
  LET Throws == tab.ws # s /\ sock[tab.ws].link = "connecting"
  IN /\ sock[s].link = "connecting"
     /\ tab.ws = s \/ \A t \in Sock : sock[t].link # "mute"
     /\ IF Throws
        THEN /\ sock' = [sock EXCEPT ![s].link = "mute"]
             /\ UNCHANGED tab
        ELSE /\ sock' = [sock EXCEPT ![s] =
                           [link |-> IF tab.ws = s THEN "greeted" ELSE "mute",
                            caller |-> "settled"]]
             /\ tab' = [tab EXCEPT !.attempts = 0, !.session = TRUE, !.state = "PLAYING"]

\* A connection ends: onerror if it failed, then onclose.
Ends(s, failed) ==
  /\ tab' = OnClose(IF failed THEN Rejected(tab, sock[s].caller) ELSE tab)
  /\ tab'.timers <= MaxTimers
  /\ sock' = [sock EXCEPT ![s] = Free]

OnFail(s) ==
  /\ sock[s].link \in {"connecting", "aborting"}
  /\ Ends(s, TRUE)

\* An open connection breaks, or is closed by either side.
OnDrop(s) ==
  /\ sock[s].link \in Opened
  /\ \E failed \in BOOLEAN : Ends(s, failed)

\* The server sends "init".  The player keeps to one name, which one connection holds.
OnInit(s) ==
  /\ sock[s].link = "greeted"
  /\ \A t \in Sock : sock[t].link \notin {"accepted", "dead"}
  /\ sock' = [sock EXCEPT ![s].link = "accepted"]
  /\ tab' = [tab EXCEPT !.retries = 0]

\* A wrong version, for the mutants: reconnectAttempts alone bounds the retries.
RefusedAgain(t, retryable) ==
  IF retryable /\ Engaged(t)
  THEN Schedule([t EXCEPT !.retries = 1, !.intentional = TRUE])
  ELSE [t EXCEPT !.retries = 0, !.session = FALSE, !.state = "MENU"]

\* A wrong version, for the mutants: the retries have no bound.
RefusedForever(t, retryable) ==
  IF retryable /\ Engaged(t)
  THEN Schedule([t EXCEPT !.retries = @ + 1, !.intentional = TRUE])
  ELSE [t EXCEPT !.retries = 0, !.session = FALSE, !.state = "MENU"]

\* The server refuses the name: in use (retryable), or not acceptable.
Refused(t, retryable) ==
  IF retryable /\ Engaged(t) /\ t.retries < MaxRetries
  THEN Schedule([t EXCEPT !.retries = @ + 1, !.intentional = TRUE])
  ELSE [t EXCEPT !.retries = 0, !.session = FALSE, !.state = "MENU"]

OnError(s) ==
  /\ sock[s].link = "greeted"
  /\ \E retryable \in BOOLEAN : tab' = Refused(tab, retryable)
  /\ tab'.timers <= MaxTimers
  /\ sock' = [sock EXCEPT ![s].link = "refused"]

\* The tank dies.  Its last frame may show it dead, if that is not lost.
TankDies(s) ==
  /\ sock[s].link = "accepted"
  /\ sock' = [sock EXCEPT ![s].link = "dead"]
  /\ \/ UNCHANGED tab
     \/ /\ ~tab.doomed
        /\ tab' = [tab EXCEPT !.doomed = TRUE]

\* From then on every frame says "dead".
OnDead(s) ==
  /\ sock[s].link = "dead"
  /\ tab.state = "PLAYING"
  /\ tab' = [tab EXCEPT !.state = "DEAD"]
  /\ UNCHANGED sock

-----------------------------------------------------------------------------
Next ==
  \/ Boot \/ Reload \/ Join \/ Respawn \/ LeaveRoom \/ Visible \/ DoReconnect \/ DeathShown
  \/ \E s \in Sock : \/ OnOpen(s) \/ OnFail(s) \/ OnDrop(s)
                     \/ OnInit(s) \/ OnError(s) \/ TankDies(s) \/ OnDead(s)

Spec == Init /\ [][Next]_vars

\* Timers fire.  A connection opens or fails.  The server closes what it refused,
\* and answers if it is asked again and again.
Fairness ==
  /\ WF_vars(DoReconnect)
  /\ \A s \in Sock : /\ WF_vars(OnOpen(s) \/ OnFail(s))
                     /\ WF_vars(sock[s].link \in {"refused", "closing"} /\ OnDrop(s))
                     /\ SF_vars(OnInit(s) \/ OnError(s))

LiveSpec == Spec /\ Fairness

-----------------------------------------------------------------------------
(* A playing page notices the loss of its last connection: even if the next *)
(* close is taken for an intentional one (_intentionalClose is one flag for *)
(* all sockets), there is another connection whose close is not.            *)
LossNoticed ==
  tab.state = "PLAYING" =>
    \E s \in Sock : /\ sock[s].link # "free"
                    /\ tab.intentional => \E t \in Sock \ {s} : sock[t].link # "free"

(* A page that shows "Reconnecting..." has a reconnect timer or a connection *)
(* attempt that will take it out of that state: _doReconnect returns, catches *)
(* and onclose ignores, but never the last of them.                         *)
ReconnectHasWakeup ==
  tab.state = "RECONNECTING" =>
    tab.timers > 0 \/ \E s \in Sock : sock[s].link = "connecting"

(* Retrying a name that is in use ends (maxNameRetries), however often the  *)
(* connection opens and resets reconnectAttempts: the server accepts, or the *)
(* page leaves PLAYING and RECONNECTING -- unless a connection opened on     *)
(* which the name was never sent, or the tab is shown again and again.      *)
RetriesEnd ==
  <>[][~Visible]_vars =>
    (tab.retries > 0 ~>
      tab.retries = 0 \/ ~Engaged(tab) \/ \E s \in Sock : sock[s].link = "mute")

(* Leaving is final: a page that shows the menu does not play or reconnect   *)
(* again before its player joins.  Game.js:114: "Resign: leave the room, drop *)
(* the stored session, and return to the menu."                             *)
LeaveIsFinal ==
  [][tab.state = "MENU" => tab'.state \notin {"PLAYING", "RECONNECTING"}]_vars
=============================================================================
