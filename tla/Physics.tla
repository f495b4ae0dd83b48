------------------------------ MODULE Physics -------------------------------
(***************************************************************************)
(* Who is found to touch whom in one tick: Game.CheckAllCollisions         *)
(* (backend/pkg/engine/physics.go) among the obstacles that                *)
(* generateObstacles (game.go) laid out.                                   *)
(*                                                                         *)
(* Every entity and obstacle is filed once under the cell of its centre.   *)
(* Then each entity in turn looks through the nine cells around the one it *)
(* is in by then, at whatever is filed there under a greater ID, and each  *)
(* contact pushes both apart at once: later contacts find other positions  *)
(* than those that were filed.  Velocities are left out (the next tick     *)
(* moves by them), and so is what a contact costs, which is in Engine.     *)
(***************************************************************************)
EXTENDS Geometry, Sequences

CONSTANTS
    Body,            \* the entities of the game
    Rock,            \* its obstacles
    None,
    Entities,        \* Game.Entities, all of Body in its order
    Form, Size,      \* each thing's geometry, as in Geometry!Shape
    Weight,          \* each body's weight
    Kind,            \* what each thing is: "tank", "bullet", "food" or "obstacle"
    Rank,            \* where its ID comes in the order of strings: "bullet-1", "food-1",
                     \* "static_(x, y)", "tank-1"; players' tanks and bullets have UUIDs
    CellSize,
    Spots, RockSpots \* bound: where things are when the tick's collisions begin

Thing == Body \cup Rock

ASSUME PhysicsAssumption ==
    /\ Body \cap Rock = {} /\ None \notin Body \cup Rock
    /\ Entities \in Seq(Body) /\ \A c \in Body : \E i \in 1 .. Len(Entities) : Entities[i] = c
    /\ Form \in [Thing -> {"circle", "square", "triangle", "pentagon"}]
    /\ Size \in [Thing -> Nat] /\ \A r \in Rock : Form[r] = "circle"
    /\ Weight \in [Body -> Nat \ {0}]
    /\ Rank \in [Thing -> Nat] /\ \A a, b \in Thing : Rank[a] = Rank[b] => a = b
    /\ CellSize \in Nat \ {0}
    /\ Spots \subseteq Vector2 /\ RockSpots \subseteq Vector2

VARIABLES
    start,       \* where each thing was when the grid was built
    at,          \* where it is now
    done,        \* the bodies whose turn has come
    turn,        \* the last of them: c1 of the outer loop
    todo,        \* what it still has to look at
    met          \* for each pair of things, how often OnCollision was called on both

vars == <<start, at, done, turn, todo, met>>

ShapeAt(c, p) == [form |-> Form[c], center |-> p, size |-> Size[c]]
Geom(c) == ShapeAt(c, at[c])

\* obstacleOverlaps: two circles whose centres are nearer than their radii's sum.
ObstacleOverlaps(a, b, pos) ==
    DistanceSquaredTo(pos[a], pos[b]) < (Size[a] + Size[b]) * (Size[a] + Size[b])

\* What generateObstacles may come to: it retries or gives up an obstacle that
\* would overlap an earlier one.
ObstacleLayouts ==
    {pos \in [Rock -> RockSpots] : \A a, b \in Rock : a # b => ~ ObstacleOverlaps(a, b, pos)}

Init ==
    /\ \E rocks \in ObstacleLayouts, bodies \in [Body -> Spots] :
         start = [c \in Thing |-> IF c \in Rock THEN rocks[c] ELSE bodies[c]]
    /\ at = start
    /\ done = {} /\ turn = None /\ todo = {}
    /\ met = [p \in Thing \X Thing |-> 0]

-----------------------------------------------------------------------------
NearbyPlus(a, b) == Abs(a[1] - b[1]) + Abs(a[2] - b[2]) <= 1        \* mutant of Nearby
\* The nine offsets.
Nearby(a, b) == Abs(a[1] - b[1]) <= 1 /\ Abs(a[2] - b[2]) <= 1

UnequalID(c1, c2) == Rank[c1] # Rank[c2]                            \* mutant of Before
Before(c1, c2) == Rank[c1] < Rank[c2]

\* What c1 looks at: filed in the cells around it, and later in the order of IDs.
Lookup(c1) ==
    {c2 \in Thing : /\ Before(c1, c2)
                    /\ Nearby(GetCoord(at[c1], CellSize), GetCoord(start[c2], CellSize))}

\* The outer loop takes the next entity; obstacles are passed over.
NextTurn(i) ==
    /\ todo = {} /\ Entities[i] \notin done
    /\ \A j \in 1 .. i - 1 : Entities[j] \in done
    /\ done' = done \cup {Entities[i]} /\ turn' = Entities[i]
    /\ todo' = Lookup(Entities[i])
    /\ UNCHANGED <<start, at, met>>

\* OnCollision's push: away from the other, by the share of the overlap that the
\* weights give; all of it from an obstacle, none for an obstacle.
Share(c, other, n) ==
    IF other \in Rock THEN n ELSE (n * Weight[other]) \div (Weight[c] + Weight[other])

PushedAlike(c, other, contact) ==                                   \* mutant of Pushed
    <<at[c][1] - contact.along[1] * contact.overlap, at[c][2] - contact.along[2] * contact.overlap>>
Pushed(c, other, contact) ==
    LET by == Share(c, other, contact.overlap)
    IN  IF c \in Rock THEN at[c]
        ELSE <<at[c][1] - Trunc(contact.along[1] * by, contact.length),
               at[c][2] - Trunc(contact.along[2] * by, contact.length)>>

\* The inner loop: if they touch, OnCollision on both.
Meet(c2) ==
    /\ c2 \in todo
    /\ todo' = todo \ {c2}
    /\ LET contact == Intersects(Geom(turn), Geom(c2))
       IN  IF contact.hit
           THEN /\ at' = [at EXCEPT ![turn] = Pushed(turn, c2, contact),
                                    ![c2] = Pushed(c2, turn, Flip(contact))]
                /\ met' = [met EXCEPT ![<<turn, c2>>] = @ + 1]
           ELSE UNCHANGED <<at, met>>
    /\ UNCHANGED <<start, done, turn>>

Next ==
    \/ \E i \in 1 .. Len(Entities) : NextTurn(i)
    \/ \E c2 \in todo : Meet(c2)

Spec == Init /\ [][Next]_vars

-----------------------------------------------------------------------------
(* Properties.                                                             *)

TypeOK ==
    /\ start \in [Thing -> Vector2] /\ at \in [Thing -> Vector2]
    /\ done \subseteq Body /\ turn \in Body \cup {None} /\ todo \subseteq Thing
    /\ \A r \in Rock : at[r] = start[r]
    /\ met \in [Thing \X Thing -> Nat]

\* In one tick two things collide with each other at most once, though each may be
\* found from the other's side and both move meanwhile: no damage is dealt twice.
PairOnce == \A a, b \in Thing : met[<<a, b>>] + met[<<b, a>>] <= 1

\* Wherever the pushes have put two things and whatever their shapes, the contact
\* between them is sound; asked of the last body of a tick and every other.
ContactsSound ==
    done = Body /\ todo = {} =>
        \A c \in Body \ {turn} : \A f, g \in {"circle", "square", "triangle", "pentagon"} :
            ContactSound([form |-> f, center |-> at[turn], size |-> 2],
                         [form |-> g, center |-> at[c], size |-> 1])

\* How far c is, on either axis, from where it is filed.
Drift(c) ==
    LET d == Sub(at[c], start[c]) IN IF Abs(d[1]) < Abs(d[2]) THEN Abs(d[2]) ELSE Abs(d[1])

Reach(c) == BoundingRadius(Geom(c)) + 1

\* The broad phase misses nobody who is small enough: what touches the body whose
\* turn begins, later in the order of IDs, no farther than a cell even with how
\* far it was pushed from where it is filed, is among what that body looks at.
ContactsFound ==
    [][turn' # turn =>
         \A c2 \in Thing :
            (/\ Before(turn', c2)
             /\ Intersects(Geom(turn'), Geom(c2)).hit
             /\ Reach(turn') + Reach(c2) + Drift(c2) <= CellSize) => c2 \in todo']_vars

\* "an obstacle hit is a miss and must end the bullet": a bullet that is in an obstacle
\* when its turn is over has collided with an obstacle in this tick, unless a contact
\* moved it there.
RocksEndBullets ==
    \A b \in done :
        (/\ Kind[b] = "bullet" /\ todo = {} /\ at[b] = start[b]
         /\ \E r \in Rock : Intersects(Geom(b), Geom(r)).hit) => \E r \in Rock : met[<<b, r>>] > 0
=============================================================================
