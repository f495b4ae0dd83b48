# Zhuch: specifications and proofs

TLA+ models of the zhuch game server, checked with TLC on small instances, and
theorems about them proved with TLAPS for every instance. Paths below are
relative to the repository; `manager.go`, `client.go`, `controller.go`, `hub.go`
are in `backend/internal/socket`, `game.go`, `entities.go`, `physics.go` and
`geom.go` in `backend/pkg/engine`, `spawner.go` in `backend/internal/bots`, `obs.go`
and `scripted.go` in `backend/pkg/bots`, `mlp.go` in `backend/pkg/brain`, `arena_client.py`
in `training/zhuch_train`; the arena is `backend/cmd/arena/main.go`.

## 1. The system

A server process (`backend/cmd/server`) holds rooms. A room is a game with its
own goroutine; players reach it over websockets, bots live inside it. A second
server (`backend/cmd/arena`) plays the same engine headless for the Python
trainers. A browser client, an analytics pipeline and a promotion job surround
them.

| Component | State it keeps | Operations | Talks to | What makes it correct |
|---|---|---|---|---|
| Room goroutine and hub | clients, grace entries, names, the hub's channels | register, unregister, expire, tick, stop | connections (channels, `Send`), timers, engine, bots | a tank has one owner; every tank left behind is eventually removed; names are free when nobody uses them |
| Connection | three goroutines, socket, `Send`, `TankID` | greet, read, pong, leave, write | room | it always leaves the room; it never blocks the room |
| Manager, HTTP API | map of rooms | create, list, remove | room (`StopCh`) | removal closes everything |
| Engine | entities, health, score, attackers, counters | spawn, fire, tick (recover, sweep, reward, refill, collide) | room, bots | rewards are consistent, a bullet hits once, no self-damage |
| BotSet | entries with a respawn tick | Act in three modes | engine (`IsAlive`, `SpawnTank`) | the population the mode promises; respawn after the delay |
| Geometry, movement | positions, shapes, the grid of a tick | intersect, look up the neighbours, push apart | engine | contacts agree with the shapes; a pair meets once; nobody in reach is missed |
| Policies, observations, MLP | weights, strafe state | fill the slots, aim, forward | engine | the nearest things get the slots; every weight is read by one neuron |
| Arena | requests, episodes, a worker semaphore, a gauge | eval, eval_batch | engine, trainers | an answer is a whole batch played to its end; the gauge returns to 0; every request is answered |
| Browser connection | socket, reconnect timers, game state | connect, reconnect, resume, respawn, leave | room | one live socket; leaving is final; retries end |
| Browser rendering, input, UI | interpolated entities, DOM | draw | connection | presentation |
| Training | population, league, checkpoint files | generations, gauntlets, save, resume | arena | a resumed run continues the one that stopped |
| Promotion, nightly job | champion file | evaluate, promote | training | never promote a worse model |
| Metrics, telemetry, analytics | counters, buffers, partitions | emit, flush | all | counts mean what they say |

What is hard about it:

- **The handshake and the room disagree about time.** A name is checked by the
  HTTP handler and claimed by the room goroutine, later.
- **Grace periods.** A departed player's tank waits under the player's name; the
  timer's message travels through a channel like any other, so it may arrive
  after the player came back, or left again.
- **`select` orders nothing.** Register, Unregister, GraceExpired and ticks are
  received in any order; a connection can be unregistered before it is
  registered.
- **Everything is bounded.** Channels and send buffers block or drop.
- **One tick is not one instant.** Collisions are the last thing in a tick and the
  sweep is the first thing in the next; bots decide in between, when a tank can be
  dead without being gone. The sweep overwrites the array it searches for killers.
- **Contacts change what is still to be compared.** Each one pushes two things at once,
  while the grid still files them where the tick began.
- **A trainer's timeout does not stop the server.** It plays the old attempt on next to
  the new one, each with a semaphore of its own, and a restart forgets both.

`PROJECT.json` lists the hazards line by line, with the property that covers
each, or why none does yet.

## 2. Modules

| Module | Models | Role |
|---|---|---|
| `Sessions` | what `registerClient`, `unregisterClient` and `expireGrace` promise a player | abstract specification, with its theorem |
| `Room` | hub.go, client.go, `HandleWebSocket`, `Room.Start`, `RemoveRoom` | the detailed model |
| `RoomSessions` | refinement mapping from `Room` to `Sessions` | composition |
| `RoomInputs` | `InputCh`, `drainInputs`, the unsynchronised `Client.TankID` | extends `Room` |
| `Engine` | game.go, entities.go, `CheckAllCollisions` | its own component |
| `Bots` | spawner.go and the part of a tick it depends on | its own component |
| `Geometry` | geom.go | operators for `Physics` |
| `Physics` | `CheckAllCollisions`, `OnCollision`'s push, the layout of obstacles | extends `Geometry` |
| `Perception` | obs.go, scripted.go, `GetVisibleEntities` | extends `Physics` |
| `Brain` | mlp.go | operators for `Arena` |
| `Arena` | the arena server and `ArenaClient._post` | its own component |
| `Browser` | Socket.js, Game.js, `joinGame`, the death timer of EntityBase.js | its own component |
| `RoomProofs`, `RoomSessionsProofs` | | theorems about `Room` and the refinement |
| `EngineProofs`, `BotsProofs`, `ArenaProofs`, `BrowserProofs` | | theorems about the module each is named after, `ArenaProofs` also about `Brain` |
| `PhysicsProofs` | | theorems about `Geometry`, `Physics` and `Perception` (it extends the last) |
| `MCRoom`, `MCRoomInputs`, `MCEngine`, `MCWorld`, `MCArena` | | values and symmetry for TLC |

### Room

A connection is an element of `Conn`. `reader[c]` is where its handler/ReadPump
goroutine stands: `idle`, `greeting` (upgraded, waiting for the name), `checked`
(past the name check, about to send to `Register`), `reading`, `leaving` (in the
deferred function), `gone`. `link[c]` is the socket; while it is open a WritePump
may take from `sent[c]`, the number of messages in `Send`. `register`,
`unregister` and `graceExpired` are the channels, with capacities; a blocking send
is a guard. The room goroutine has one action for each case of its select
(`RegisterClient`, `UnregisterClient`, `ExpireGrace`, `Tick`, `StopRoom`), each the
whole handler. `timer[c]` is the timer started when c left: `armed`, `firing` (its
function runs and may be blocked on the channel; `Stop` no longer helps), `done`.
As a connection registers once and leaves once, it also names the tank spawned for
it and its grace entry. Greetings that are empty or too long end like one that
cannot be read. Tanks die in `Tick` at will, which is all `Room` needs of the
engine.

`SerialSpec` is the same room when no connection passes the name check while
another of its name is between its own check and its registration. The code
does not enforce this (that is the first finding), but a single tab that
reconnects behaves so; properties that need it are stated under it.

### Sessions and the refinement

In `Sessions` a name is offline, online or in its grace period and has at most one
tank. `RoomSessions` maps the room's tables to it: a session is online when its
name has a client, and its tank is the one of the client or of the grace entry.
`ImplementsSessions` says every step of the serial room is one of: a session
spawns, returns to its own tank, expires, or a turn in which tanks die and
sessions are lost; or is invisible.

### RoomInputs

Inputs are pairs of a tank ID and whether the vector is non-zero. ReadPump's read
of `TankID` is two steps while the room may write it. Firing is left to `Engine`.

### Engine

Every operation runs on the room goroutine and is one action: `SpawnTank`, `Fire`,
`RemoveTank` (expireGrace), `Tick`. Positions are left out: a tick chooses which
pairs touch (at most `MaxContacts` that matter), which bullets meet an obstacle,
and which entity is beyond the edge (one at most); `Physics` has the positions. The
sweep is `Sweep(h)`, a recursive function over `entities` that carries the survivors
written so far, so that the lookup of a killer sees the half-overwritten array as
`processDeath` does. When several foes
hurt an entity in one tick, its last attacker is any of them. Numbers are integers;
the code's are floats, so `Score / 2` is an integer division here, which rounds
down and can only lower a score.

### Bots

`condition[t]` abstracts a tank's health to what `IsAlive` and one regeneration
tell apart: `alive`, `weak`, `grazed` (not alive, but one regeneration revives
it), `down`, `out`. `Tick` is one room tick: `Act`, then the sweep and collisions
(`Fate`). `entries[i].wait` is `respawnAt` as a countdown. A tank that left the
game can come again, so `Bot` bounds how many are known at once, not how many are
ever spawned; `MaxStrays` bounds how many tanks the set may have lost track of.
`StillAlive` is the loop in which `actZombies` filters its entries.

### Geometry and Physics

`Geometry` has the contacts of all shapes on a lattice of whole numbers, where touching
is exact; square roots and quotients are rounded down. An overlap is the sum of the radii
less the distance, so it can differ from the code's by less than 1, either way: the
distance is rounded down, and in `genericIntersects`, which compares in thousandths (a
square's bounding radius is 1.414 of its half side), so is the sum. `Physics` is one tick's
collisions: `start` is where each thing was when the grid was filed, `at` where it is
now. `NextTurn` takes the next entity of `Entities`, which looks through nine cells at
what has a greater ID; `Meet` compares it with one of them, in any order (a Go map has
none), and pushes both at once. `Rank` is the order of the ID strings. Only entities
take turns: an obstacle is met when its ID comes later. What a contact costs is in
`Engine`; velocities, and with them the next tick's movement, are left out.

### Perception

`Stored` is what an observation goes through, entities and then obstacles. The
candidates are the places in it of what is in range; the slots are the candidates
ordered by distance and among equals by place; of a slot only whose it is is kept.
`Target` is the slot the scripted bot aims at. Both read the positions of `Physics`
between two ticks. `PerceptionAssumption` says that nobody is in play twice, which
`Engine!TypeOK` says of the game.

### Brain and Arena

`Brain` has which networks are accepted and which weights each neuron reads; `Idx` is
where each layer begins, the value of `idx` in `Forward` when the layer's turn comes.
In `Arena`
a trainer sends an attempt (`Post`), may give up on it (`Timeout`) and retries after any
failure, a refusal included. Each attempt is a request whose jobs are goroutines behind
a semaphore that is the request's own: `Begin`, `Abort`, `PlayTick`, `Reply`. Of an
episode it matters who is seen dead after which tick; as a tank that the collisions
killed may regenerate before the sweep, any tank may be dead after any tick and alive
after the next. `Restart` forgets every request; the gauge starts at 0 again.

### Browser

`tab` holds the fields of `Game` and `Socket` that decide anything, `sock` every
WebSocket the page has opened and not seen closed: a socket that is replaced in
`this.ws` still calls its handlers. An action is one JavaScript task together with
the promise continuations it releases; `onerror`, the `catch` it reaches and
`onclose` are one task (`Ends`). `caller` is who awaits the socket's promise. What
the server does is left open, except that a name is held by one connection. Closing
a socket that is connecting fails it (`aborting`); messages to a socket that the
page has closed are dropped (`closing`). Reconnect timers are interchangeable: their
delays are left open. At most one socket at a time is open without a name on it.

## 3. Runs

| Run | Instance | Checks | Result |
|---|---|---|---|
| `room` | 3 connections, 1 name, all capacities 1, symmetric | `TypeOK`, `TankExclusive`, `GraceHasWakeup`, `NoGhostName` | pass, 1.4 M states |
| `room_serial` | 2 connections, `SerialLiveSpec` | `NoOrphanTank`, `PlayerCountExact`, `ImplementsSessions`, `DeadConnectionLeaves`, `AbandonedTankRemoved` | pass, 50 k |
| `room_abandoned` | 2 connections, `LiveSpec` | `AbandonedTankRemoved` | violated |
| `inputs_coast` | 2 connections, 2 inputs | `GraceTankCoasts` | violated |
| `engine` | 2 tanks, 2 bullets, 2 foods, 2 contacts a tick | `TypeOK`, `ScoreBacked`, `OwnBulletHarmless`, `FoodSteady`, `BulletScoresOnce`, `KillersPaid` | pass, 190 k |
| `bots` | 4 tanks, target 2, delays 2, waves of 2 every 2 ticks, 1 stray | `TypeOK`, `PracticePopulation`, `PracticeDelayKept`, `PracticeBotReturns` | pass, 7.5 k |
| `bots_population` | same | `PopulationBound` | violated |
| `browser` | 3 sockets, 2 attempts, 1 name retry, 2 timers, `LiveSpec` | `TypeOK`, `LossNoticed`, `ReconnectHasWakeup`, `RetriesEnd` | pass, 321 k |
| `browser_leave` | same, `Spec` | `LeaveIsFinal` | violated |
| `world` | two bots, a player, a bullet, a food and 2 rocks; 4 spots and 2 for rocks, cells of 5, range 8, 2 slots | `TypeOK`, `PairOnce`, `ContactsSound`, `SlotsNearest`, `ScriptedFightsNearest`, `ContactsFound` | pass, 520 k |
| `world_rocks` | same, with a bullet and a food only | `RocksEndBullets` | violated |
| `arena` | 2 jobs of 2 tanks, 1 worker, 2 attempts, 2 ticks, 7 weights, 1 restart, `FairSpec` | `TypeOK`, `GaugeExact`, `AnswerWhole`, `WeightsReadOnce`, `FirstDeathKept`, `EveryRequestEnds`, `TrainerEnds` | pass, 108 k |

**Bounds.** Three connections of one name are what the hard cases of the room take:
one that left (its entry and timer), one that returns, and one that races it or
leaves again; with capacity 1 every channel is full and every sender blocks at
some point. What passes between different names is not left to TLC: the theorems hold
for all sets of names. The 3-connection run carries the constraint `NotRemoved`: it
checks the states in which the hub has just removed the room and does not go on
from there; the 2-connection runs go on. Two tanks with two bullets reach mutual kills in one sweep,
a bullet with two targets, and a killer that is swept before its victim; two foods
with `MaxFood` 1 let one be eaten and replaced. In `bots` two entries can be
scheduled, revived and replaced independently.

In `world` the five bodies are of each kind that matters: IDs that sort before the
obstacles' (a player's) and behind them (two bots'), a light one and a square. Every
placing of them on four spots, on both sides of the edges of cells, is an initial state,
so that chains of pushes carry things over those edges; one rock is wider than a cell.
`ContactsSound` asks of every pair of forms at the positions so reached. Each tank has
two others to aim at, near and far, and two slots for up to six candidates, so the order
in which slots are filled decides who is seen and who is shot at. In `arena` one worker for two
jobs makes the semaphore bind, two attempts let the server play an abandoned one beside
the next, and the weights are a network, one that is a byte short, and none.

In `browser` three sockets are one that is refused or stale, one that is connecting
and one more attempt; two timers are what one failed reconnect leaves behind. The
code's limits of 5 attempts and 5 retries are 2 and 1: the counters only compare.

**Deadlock** is not checked, except in `Browser`, whose player can always reload. In the
others every instance stops by construction: connections come once, the IDs of the
engine run out, a tick's collisions end, and so do a trainer's attempts. That the room
and the arena go on is what the liveness properties say.

**Fairness** (`Fairness` in `Room`). Weak fairness of each case of the select: Go
picks at random among the ready cases, so one that stays ready is taken. Strong
fairness of the blocking channel sends: a Go channel serves blocked senders in
order. Weak fairness of the pumps and timers. The peer is never obliged to do
anything: a connection that stays open is not read to its end, and no tick has to
kill a tank. For `Bots`: the ticker keeps ticking.
For `Arena`: each request's goroutines run and the trainer sends what it decided to
send; a timeout or a restart never has to come.
For `Browser`: timers fire, a connection attempt opens or fails, a connection that
either side has closed is seen closed, and a server that is asked for a name again
and again answers. A connection that stays open is not obliged to end.

## 4. What is wrong in the code

Five disagreements have a run that shows them and an entry in `PROJECT.json`:

1. Two connections of one name can pass the name check together; then a tank stays
   in the game for ever (`room_abandoned`).
2. An input queued before the departure drives the tank on through the grace period
   (`inputs_coast`).
3. A bot killed by a hair is replaced and then revived: two bosses, or zombies
   beyond the target (`bots_population`).
4. A player who leaves during a reconnect attempt is taken back into the game
   (`browser_leave`).
5. An obstacle is filed only under the cell of its centre, but is up to 140 in radius
   where a cell is 100: a bullet in its rim can be two cells away, does not collide with
   it and flies on (`world_rocks`: the rock of size 6 at (15, 3) is filed under cell
   (3, 0), the bullet at (9, 0) is in cell (1, 0) and looks at cells 0 to 2).

Seen while modelling, without a run of its own:

- Bots' and arena tanks' IDs, "tank-N", sort behind an obstacle's "static_(x, y)", pairs are
  visited from the smaller ID and only entities visit (physics.go:118-124): they drive
  through obstacles, which players' tanks do not. Nothing in the repository says that
  bots must not, so no run states it.
- A grace timer that fired before it was stopped ends the player's *next* grace period
  at once: an expiry does not say which departure it belongs to (manager.go:157).
- Removing a room closes the registered clients only; a connection received too late, or
  never, stays open (manager.go:109 against 325-326).
- One bullet may hit several targets in a tick and counts each (entities.go:255), so the
  misses that `fitness.py:18` takes as shots minus hits can be negative.
- metrics.go:44 calls a counter "Total tank kills.", but manager.go:57 counts every
  `kill` event, and a tank that rams food to death sends one, while one that was shot
  sends none.
- geom.go:231-252: the branch for a circle whose centre is in a square is under the
  condition that the centre is far away, and never runs; such a contact pushes along
  (1, 0) wherever the square is.
- obs.go:21 speaks of living entities, but slots also hold those that collisions
  killed and the sweep has not yet taken.
- The second of two bounces of a pair uses a velocity the first has already changed.
- A model that bots load has its weights counted against its own `Sizes`, but those are not
  compared with the length of an observation (spawner.go:121).
- metrics.go:80: one failing request can be counted once for each job.
- The trainer retries refusals (400) as often as timeouts (arena_client.py:25-34).

## 5. Proofs

All theorems assume only the named assumption of the module: `RoomAssumption` (names are
assigned, `None` is not a connection, capacities are positive; `SerialPlayerCount` also
that there are finitely many connections), `BrowserAssumption` (limits are naturals,
`NoSock` is no socket), `EngineAssumption` (IDs of different kinds differ, rates are
naturals), `BotsAssumption`, `PhysicsAssumption` (shapes and weights have their types,
IDs differ, obstacles are circles), `PerceptionAssumption` (nobody is in play twice, the
obstacles are listed once each), `ArenaAssumption` (the numbers are positive, a
network has two layers or more).

| Theorem | States | Argument |
|---|---|---|
| `RoomTypeOK` | `Spec => []TypeOK` | inductive as it stands |
| `RoomTankExclusive` | `Spec => []TankExclusive` | with `Bookkeeping`: a connection waits in `Register` at most once and before it has a tank; clients and entries have tanks; an entry stands under its own name; a tank's name is the name of the connection it was spawned for |
| `RoomGraceHasWakeup` | `Spec => []GraceHasWakeup` | with `Bookkeeping`: an entry's maker is of the entry's name, so an expiry message it sends carries the right one |
| `RoomNoGhostName` | `Spec => []NoGhostName` | inductive with `TypeOK` |
| `SerialNoOrphanTank`, `SerialPlayerCount` | `SerialSpec => []...` | with `SerialBooks`: a name has one client or one pending connection, never both; `names` is exactly the clients' names; a name with a client has no grace entry |
| `RoomImplementsSessions` | `SerialSpec => ImplementsSessions` | one lemma per kind of step: invisible, departures, registration (spawn or return), expiry |
| `BrowserTypeOK`, `BrowserLossNoticed`, `BrowserReconnectHasWakeup` | `Spec => []...` in `Browser` | one invariant `BInv`: `TypeOK`, both properties, `Awaited` (a connecting socket has someone awaiting it) and `FlagBacked` (while the flag is up, an opened socket is on its way out) |
| `EngineTypeOK`, `EngineOwnBulletHarmless`, `EngineFoodSteady`, `EngineBulletScoresOnce` | `Spec => []...` or `[][...]_vars` in `Engine` | one invariant `EInv`: `TypeOK`, `FoodSteady`, `OwnersSpared` (no attacker of an entity is its owner or its own bullet), `Unused` (IDs yet to come appear nowhere) and `Spent` (a bullet that has hit is out of health and cannot recover it). `Sweep` is proved to be a function of the entities by a least counterexample, and so is what it keeps (`SweptWell`) |
| `EngineKillersPaid` | `Spec => [][...]_vars` in `Engine` | the sweep has kept no more than it has read, so what it overwrites is behind it: a survivor is either kept already or still in its place (`OverwrittenHolds`). A victim's worth never shrinks before its turn (`WorthGrows`), and what was paid stays paid (`PaysStep`, `SweepPays`) |
| `EngineScoreBacked` | `Spec => []ScoreBacked` in `Engine` | `ScoreSound`: a food that was credited was spawned and is out of play, a tank yet to come has score 0, and what the tanks in play hold is at most the worth of the credited foods. Through a sweep it is kept for who remains (`Remaining`): a kill passes on no more than the victim held (`BackedKill`), and who leaves otherwise takes the score along (`BackedFewer`) |
| `BotsTypeOK` | `Spec => []TypeOK` in `Bots` | what `Act` leaves are entries of before, each once, and vacancies, no more than the mode wants (`LeftSound`, one lemma per mode); vacancies go to tanks nobody has an entry for, so no tank gets two |
| `BotsPracticePopulation`, `BotsPracticeDelayKept` | `Spec => []...`, `Spec => [][...]_vars` in `Bots` | `BInv`: in practice mode the roster has an entry for each bot, whoever is in the game is tracked, and an entry that is scheduled has a tank that was just revived or has been dead for what has passed of the delay (`Waiting`) |
| `PhysicsTypeOK`, `PhysicsPairOnce`, `PhysicsContactsFound` | the same in `Physics` | `PInv`: a pair that has met has had the turn of its smaller ID, and is not in what is still to be compared. `ContactsFound` is geometry: two things that touch are within their reaches on each axis (`CoordinateBound`), what is within a cell differs by at most one in `GetCoord`, and the code's lookup is of the positions filed |
| `ShapesSound`, `PhysicsContactsSound` | `ContactSound` of any two shapes of positive sizes; `Spec => []ContactsSound` | one lemma per kind of pair: circles that share a point by the triangle inequality, a circle and a square by the square's closest point, squares by their intervals on each axis, all others by their bounding circles |
| `PerceptionSlotsNearest`, `PerceptionScriptedFightsNearest` | `Spec => []...` in `Perception` | the number of candidates before a place (`Ahead`) is injective and less than their number, so it is a permutation and `Place` is its inverse; what has a slot is no farther than what has none (`ShownNearer`), so the first slot of a kind is the nearest of that kind in view |
| `ArenaWeightsReadOnce` | `Spec => []WeightsReadOnce` in `Arena` | layers lie one behind the other (`IdxFacts`), so a weight is in one layer, and in it in one row or among the biases (`RowArithmetic`, `Partitioned`); the length is all that is checked, and it is enough |
| `ArenaTypeOK`, `ArenaGaugeExact`, `ArenaAnswerWhole`, `ArenaFirstDeathKept` | the same in `Arena` | `AInv`: these, `RequestSound` (a request that is not handled has no episodes) and `EpisodeSound` (what is known of an episode in each state); one lemma counts what a single episode's change does to the gauge |
| `SessionsExclusive` | `Spec => [](TypeOK /\ Exclusive)` in `Sessions` | inductive |

`TankExclusive` alone is not inductive: a registration looks up the grace map, and
without knowing that the entry's tank exists and is of the same name, the handover
could create a second owner. `NoOrphanTank` is not inductive without `SerialBooks`:
a second client of a name would overwrite the only entry of the first one's tank,
which is precisely finding 1. `LossNoticed` is not inductive without `FlagBacked`: a
connection that opens under a raised flag could be the only one, and its close would
then be ignored. `ReconnectHasWakeup` needs `Awaited`: an attempt that fails must
reach a catch. `BulletScoresOnce` needs `Spent`: only
that a bullet cannot regenerate keeps a sweep from leaving a spent one in play.
`PracticeDelayKept` needs the schedule and the tank's condition together: a bot that the
sweep revives may still be scheduled, and only the next `Act` clears that.
`ScoreBacked` is not inductive within a tick: between two kills of one sweep the killer
may be out of play already, so the bound is kept for who remains.
Recursive functions (`Sweep`, `StillAlive`, `Idx`) are shown to exist, and to do what is
said of them, by a least counterexample: the least-number principle follows from the
well-foundedness of `<` on the naturals.
`AnswerWhole` speaks of the answer; `EpisodeSound` is what makes it true on arrival.

Every invariant and action property that a passing run checks is thereby a theorem.
Only model-checked, and why:

- the liveness properties `DeadConnectionLeaves`, `AbandonedTankRemoved`,
  `PracticeBotReturns`, `RetriesEnd`, `EveryRequestEnds` and `TrainerEnds`: fairness and
  `ENABLED` are beyond the prover;
- the five violations, which a counterexample settles.

What the theorems do not say: `ContactsSound` and the slots are about whole numbers, as
`Geometry` is; that contacts in floating point agree with these is not modelled.

## 6. Not modelled, and why

- Velocities: the bounce and the next tick's movement are floating-point arithmetic. Every
  position a tick can begin with is an initial state of `Physics` instead, within its bounds.
- What a network or the scripted bot computes: numbers, compared with Python by the
  repository's tests. Any action they can cause is allowed in `Engine`.
- Reading a greeting is modelled without its text; creating and listing rooms are
  single operations under a lock.
- Rendering, input and UI of the browser: presentation.
- The training loops, checkpoints and promotion: sequential programs over files. That a
  checkpoint is four files written in place, so that a crash in between leaves a mixture,
  is listed as a hazard.
- The analytics sink and reports: what is lost or repeated depends on when the Kafka
  client library commits, which is not in the repository. Listed as a hazard.
- Metrics and telemetry other than the arena's gauge: written and never read.
