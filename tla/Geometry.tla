------------------------------ MODULE Geometry ------------------------------
(***************************************************************************)
(* Shapes and their contacts: backend/pkg/engine/geom.go.                  *)
(*                                                                         *)
(* Lengths are whole numbers, so a shape is one with a whole radius or a   *)
(* whole half side, at a lattice point.  Whether two shapes touch is then  *)
(* exact.  A normal is kept as the vector it is the direction of, with its *)
(* length; square roots and quotients are rounded down.                    *)
(***************************************************************************)
EXTENDS Integers

Vector2 == Int \X Int

Add(v, w) == <<v[1] + w[1], v[2] + w[2]>>
Sub(v, w) == <<v[1] - w[1], v[2] - w[2]>>
DistanceSquaredTo(v, w) == (v[1] - w[1]) * (v[1] - w[1]) + (v[2] - w[2]) * (v[2] - w[2])

Abs(n) == IF n < 0 THEN -n ELSE n
Length(distSq) == CHOOSE k \in 0 .. distSq : k * k <= distSq /\ distSq < (k + 1) * (k + 1)

\* A shape: its form, its centre, and its size: the radius of a circle, half the
\* side of a square, the distance from the centre to a vertex of the others.
Shape == [form : {"circle", "square", "triangle", "pentagon"}, center : Vector2, size : Nat]

\* Contains, of a circle and of a square.
ContainsPoint(s, p) ==
    IF s.form = "circle" THEN DistanceSquaredTo(s.center, p) <= s.size * s.size
    ELSE Abs(p[1] - s.center[1]) <= s.size /\ Abs(p[2] - s.center[2]) <= s.size

\* A contact: the normal is along / length, from the first shape to the second.
Miss == [hit |-> FALSE, along |-> <<0, 0>>, length |-> 1, overlap |-> 0]
Contact(along, length, overlap) ==
    [hit |-> TRUE, along |-> along, length |-> length, overlap |-> overlap]
Flip(contact) == [contact EXCEPT !.along = <<- @[1], - @[2]>>]

\* What circles and genericIntersects have in common: two discs with these centres,
\* whose radii add up to reach, have been found to touch.
DiscPush(c, d, reach) ==
    LET distSq == DistanceSquaredTo(c, d)
    IN  IF distSq = 0 THEN Contact(<<1, 0>>, 1, reach)
        ELSE Contact(Sub(d, c), Length(distSq), reach - Length(distSq))

DiscContact(c, d, reach) ==
    IF DistanceSquaredTo(c, d) > reach * reach THEN Miss ELSE DiscPush(c, d, reach)

\* getBoundingRadius: 0.707 of a square's side.
BoundingRadius(s) == IF s.form = "square" THEN (1414 * s.size) \div 1000 ELSE s.size

\* The same in thousandths, where genericIntersects compares.
Thousandths(s) == IF s.form = "square" THEN 1414 * s.size ELSE 1000 * s.size

GenericIntersects(a, b) ==
    LET reach == Thousandths(a) + Thousandths(b)
    IN  IF 1000000 * DistanceSquaredTo(a.center, b.center) > reach * reach THEN Miss
        ELSE DiscPush(a.center, b.center, reach \div 1000)

\* The point of [low, high] next to n.
Clamp(n, low, high) == IF n < low THEN low ELSE IF n > high THEN high ELSE n

ClosestPoint(s, p) ==
    <<Clamp(p[1], s.center[1] - s.size, s.center[1] + s.size),
      Clamp(p[2], s.center[2] - s.size, s.center[2] + s.size)>>

CentreOnly(c, s) == DiscContact(c.center, s.center, c.size)         \* mutant of CircleSquare
\* intersectsCircleSquare.  The centre of a circle that is inside the square is its
\* own closest point, at distance 0: the code's branch for that case, "find the
\* closest edge and push out", is under distSq > Radius^2 and never runs.
CircleSquare(c, s) == DiscContact(c.center, ClosestPoint(s, c.center), c.size)

\* Two squares: along the axis on which they overlap least.
SquareSquare(a, b) ==
    LET gap == Sub(b.center, a.center)
        overlap == [i \in 1 .. 2 |-> a.size + b.size - Abs(gap[i])]
        sign == [i \in 1 .. 2 |-> IF gap[i] < 0 THEN -1 ELSE 1]
    IN  IF overlap[1] <= 0 \/ overlap[2] <= 0 THEN Miss
        ELSE IF overlap[1] < overlap[2] THEN Contact(<<sign[1], 0>>, 1, overlap[1])
        ELSE Contact(<<0, sign[2]>>, 1, overlap[2])

\* Intersects, by the forms of the two shapes.
Intersects(a, b) ==
    CASE a.form = "circle" /\ b.form = "circle" -> DiscContact(a.center, b.center, a.size + b.size)
      [] a.form = "circle" /\ b.form = "square" -> CircleSquare(a, b)
      [] a.form = "square" /\ b.form = "circle" -> Flip(CircleSquare(b, a))
      [] a.form = "square" /\ b.form = "square" -> SquareSquare(a, b)
      [] OTHER -> GenericIntersects(a, b)

\* int(pos.X / cellSize): rounded towards zero.
Trunc(n, cell) == IF n >= 0 THEN n \div cell ELSE - ((- n) \div cell)

GetCoord(p, cell) == <<Trunc(p[1], cell), Trunc(p[2], cell)>>

-----------------------------------------------------------------------------
\* What the collisions rely on, of two shapes: it does not matter which is asked;
\* the normal points from the first to the second, so that the push parts them;
\* circles and squares touch where a point is in both, by their own Contains (two
\* squares: more than an edge).  Not so for a circle whose centre is in a square: its
\* normal is (1, 0), wherever the square is.
LatticeAround(s) ==
    (s.center[1] - s.size .. s.center[1] + s.size) \X (s.center[2] - s.size .. s.center[2] + s.size)

Shared(a, b) == {p \in LatticeAround(a) : ContainsPoint(a, p) /\ ContainsPoint(b, p)}

Engulfed(a, b) == a.form # b.form /\ (ContainsPoint(a, b.center) \/ ContainsPoint(b, a.center))

ContactSound(a, b) ==
    LET contact == Intersects(a, b)
        apart == Sub(b.center, a.center)
    IN  /\ contact.hit = Intersects(b, a).hit
        /\ contact.hit /\ ~ Engulfed(a, b) =>
              contact.along[1] * apart[1] + contact.along[2] * apart[2] >= 0
        /\ {a.form, b.form} = {"circle"} => (Shared(a, b) # {} => contact.hit)
        /\ {a.form, b.form} = {"circle", "square"} => (Shared(a, b) # {} <=> contact.hit)
        /\ {a.form, b.form} = {"square"} =>
              (contact.hit <=> \E p \in Shared(a, b) : Add(p, <<1, 1>>) \in Shared(a, b))
=============================================================================
