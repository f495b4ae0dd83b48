---------------------------- MODULE PhysicsProofs ----------------------------
(***************************************************************************)
(* Proofs about Geometry, Physics and Perception, for any entities,        *)
(* obstacles, sizes, weights, cell size, positions and slots.              *)
(***************************************************************************)
EXTENDS Perception, FiniteSetTheorems, SequenceTheorems, WellFoundedInduction, TLAPS

Shapes == [form : {"circle", "square", "triangle", "pentagon"}, center : Vector2, size : Nat]

Contacts == [hit : BOOLEAN, along : Vector2, length : Nat \ {0}, overlap : Int]

-----------------------------------------------------------------------------
(* Arithmetic.                                                             *)

\* The least-number principle.
LEMMA LeastNumber ==
  ASSUME NEW S \in SUBSET Nat, S # {}
  PROVE  \E m \in S : \A k \in S : m <= k
<1>1. PICK m \in S : \A k \in S : <<k, m>> \notin OpToRel(<, Nat)
  BY WFMin, NatLessThanWellFounded, Zenon
<1>2. \A k \in S : ~ (k < m)
  BY <1>1, Zenon DEF OpToRel
<1>3. \A k \in S : m <= k
  BY <1>2, SMT
<1>4. QED
  BY <1>3

\* Products keep the order.
LEMMA Squares ==
  ASSUME NEW x \in Nat, NEW y \in Nat, x * x <= y * y
  PROVE  x <= y
<1>1. SUFFICES ASSUME y < x PROVE FALSE
  OBVIOUS
<1>2. y * y <= y * x /\ y * x < x * x
  BY <1>1, SMT
<1>3. x * x \in Nat /\ y * y \in Nat /\ y * x \in Nat
  OBVIOUS
<1>4. QED
  BY <1>2, <1>3

LEMMA AbsFacts ==
  ASSUME NEW n \in Int
  PROVE  Abs(n) \in Nat /\ Abs(n) * Abs(n) = n * n /\ n <= Abs(n) /\ - n <= Abs(n)
BY DEF Abs

\* A vector's coordinates are no longer than the vector.
LEMMA CoordinateBound ==
  ASSUME NEW x \in Int, NEW y \in Int, NEW r \in Nat, x * x + y * y <= r * r
  PROVE  Abs(x) <= r /\ Abs(y) <= r
<1>1. Abs(x) \in Nat /\ Abs(x) * Abs(x) = x * x /\ Abs(y) \in Nat /\ Abs(y) * Abs(y) = y * y
  BY AbsFacts
<1>2. x * x \in Nat /\ y * y \in Nat /\ r * r \in Nat
  <2>1. \A n \in Nat : n * n \in Nat
    OBVIOUS
  <2>2. QED
    BY <1>1, <2>1
<1>3. x * x <= r * r /\ y * y <= r * r
  BY <1>2
<1>4. Abs(x) * Abs(x) <= r * r /\ Abs(y) * Abs(y) <= r * r
  BY <1>1, <1>3
<1>5. QED
  BY <1>1, <1>4, Squares

\* The square root rounded down.
LEMMA LengthFacts ==
  ASSUME NEW d \in Nat
  PROVE  Length(d) \in Nat /\ (d > 0 => Length(d) > 0)
<1> DEFINE S == {k \in Nat : d < (k + 1) * (k + 1)}
<1>1. d \in S
  <2>1. (d + 1) * (d + 1) = d * d + 2 * d + 1 /\ d * d \in Nat
    OBVIOUS
  <2>2. QED
    BY <2>1
<1>2. PICK m \in S : \A k \in S : m <= k
  BY <1>1, LeastNumber
<1>3. m * m <= d
  <2>1. CASE m = 0
    BY <2>1
  <2>2. CASE m > 0
    <3>1. m - 1 \in Nat /\ m - 1 \notin S
      BY <1>2, <2>2
    <3>2. (m - 1) + 1 = m
      BY <1>2
    <3>3. ~ (d < m * m) /\ m * m \in Nat
      BY <3>1, <3>2
    <3>4. QED
      BY <3>3
  <2>3. QED
    BY <1>2, <2>1, <2>2
<1>4. m \in 0 .. d
  BY <1>1, <1>2
<1>5. \E k \in 0 .. d : k * k <= d /\ d < (k + 1) * (k + 1)
  BY <1>2, <1>3, <1>4
<1>6. Length(d) \in 0 .. d /\ d < (Length(d) + 1) * (Length(d) + 1)
  BY <1>5 DEF Length
<1>7. d > 0 => Length(d) # 0
  BY <1>6
<1>8. QED
  BY <1>6, <1>7

\* What rounding down towards zero does to neighbours.
LEMMA TruncFacts ==
  ASSUME NEW cell \in Nat \ {0}, NEW m \in Int, NEW n \in Int
  PROVE  /\ Trunc(m, cell) \in Int
         /\ Abs(m - n) <= cell => Abs(Trunc(m, cell) - Trunc(n, cell)) <= 1
<1> DEFINE Q(k) == Trunc(k, cell)
<1>1. ASSUME NEW k \in Int
      PROVE  /\ Q(k) \in Int
             /\ k >= 0 => Q(k) >= 0 /\ cell * Q(k) <= k /\ k < cell * Q(k) + cell
             /\ k < 0 => Q(k) <= 0 /\ k <= cell * Q(k) /\ cell * Q(k) - cell < k
  <2>1. \A i \in Nat : /\ i \div cell \in Nat
                       /\ cell * (i \div cell) <= i /\ i < cell * (i \div cell) + cell
    OBVIOUS
  <2>2. CASE k >= 0
    <3>1. k \in Nat /\ Q(k) = k \div cell
      BY <2>2 DEF Trunc
    <3>2. QED
      BY <2>1, <2>2, <3>1
  <2>3. CASE k < 0
    <3> DEFINE i == - k
    <3>1. i \in Nat /\ Q(k) = - (i \div cell)
      BY <2>3 DEF Trunc
    <3>2. cell * (- (i \div cell)) = - (cell * (i \div cell))
      BY <2>1, <3>1
    <3> HIDE DEF Q
    <3>3. cell * Q(k) = - (cell * (i \div cell))
      BY <3>1, <3>2
    <3>4. i \div cell \in Nat /\ cell * (i \div cell) \in Int
      BY <2>1, <3>1
    <3>5. QED
      BY <2>1, <2>3, <3>1, <3>3, <3>4
  <2>4. QED
    BY <2>2, <2>3
<1> HIDE DEF Q
<1>2. ASSUME NEW p \in Int, NEW q \in Int, p >= q + 2
      PROVE  cell * p >= cell * q + 2 * cell
  <2>1. PICK d \in Nat : p = q + 2 + d
    <3>1. p - q - 2 \in Nat /\ p = q + 2 + (p - q - 2)
      BY <1>2
    <3>2. QED
      BY <3>1
  <2>2. cell * (q + 2 + d) = cell * q + 2 * cell + cell * d /\ cell * d \in Nat
    OBVIOUS
  <2>3. QED
    BY <2>1, <2>2
<1>3. ASSUME NEW a \in Int, NEW b \in Int, Q(a) >= Q(b) + 2, Abs(a - b) <= cell
      PROVE  FALSE
  <2>1. cell * Q(a) >= cell * Q(b) + 2 * cell
    BY <1>1, <1>2, <1>3
  <2>2. cell * Q(a) \in Int /\ cell * Q(b) \in Int /\ Q(a) \in Int /\ Q(b) \in Int
    BY <1>1
  <2>3. a - b <= cell /\ b - a <= cell
    BY <1>3 DEF Abs
  <2>4. CASE a >= 0 /\ b >= 0
    BY <1>1, <2>1, <2>2, <2>3, <2>4
  <2>5. CASE a < 0 /\ b < 0
    BY <1>1, <2>1, <2>2, <2>3, <2>5
  <2>6. CASE a >= 0 /\ b < 0
    BY <1>1, <2>1, <2>2, <2>3, <2>6
  <2>7. CASE a < 0 /\ b >= 0
    BY <1>1, <1>3, <2>2, <2>7
  <2>8. QED
    BY <2>4, <2>5, <2>6, <2>7
<1>4. Abs(m - n) = Abs(n - m)
  BY DEF Abs
<1>5. ASSUME Abs(m - n) <= cell
      PROVE  Abs(Q(m) - Q(n)) <= 1
  <2>1. ~ (Q(m) >= Q(n) + 2) /\ ~ (Q(n) >= Q(m) + 2)
    BY <1>3, <1>4, <1>5
  <2>2. QED
    BY <1>1, <2>1 DEF Abs
<1>6. QED
  BY <1>1, <1>5 DEF Q

-----------------------------------------------------------------------------
(* Shapes.                                                                 *)

LEMMA DistanceType ==
  ASSUME NEW v \in Vector2, NEW w \in Vector2
  PROVE  DistanceSquaredTo(v, w) \in Nat
<1>1. \A n \in Int : n * n \in Nat
  BY AbsFacts
<1>2. v[1] - w[1] \in Int /\ v[2] - w[2] \in Int
  BY DEF Vector2
<1>3. QED
  BY <1>1, <1>2 DEF DistanceSquaredTo

LEMMA ZeroDistance ==
  ASSUME NEW c \in Vector2, NEW d \in Vector2, DistanceSquaredTo(c, d) = 0
  PROVE  c = d
<1>1. \A m, n \in Int : (m - n) * (m - n) \in Nat /\ ((m - n) * (m - n) = 0 => m = n)
  <2> SUFFICES ASSUME NEW m \in Int, NEW n \in Int
               PROVE  (m - n) * (m - n) \in Nat /\ ((m - n) * (m - n) = 0 => m = n)
    OBVIOUS
  <2>1. PICK e \in Int : e = m - n
    OBVIOUS
  <2>2. e * e \in Nat /\ (e * e = 0 => e = 0)
    OBVIOUS
  <2>3. QED
    BY <2>1, <2>2
<1>2. /\ c[1] \in Int /\ c[2] \in Int /\ d[1] \in Int /\ d[2] \in Int
      /\ c = <<c[1], c[2]>> /\ d = <<d[1], d[2]>>
  BY DEF Vector2
<1>3. (c[1] - d[1]) * (c[1] - d[1]) = 0 /\ (c[2] - d[2]) * (c[2] - d[2]) = 0
  <2>1. PICK x \in Nat : x = (c[1] - d[1]) * (c[1] - d[1])
    BY <1>1, <1>2
  <2>2. PICK y \in Nat : y = (c[2] - d[2]) * (c[2] - d[2])
    BY <1>1, <1>2
  <2>3. x + y = 0
    BY <2>1, <2>2 DEF DistanceSquaredTo
  <2>4. QED
    BY <2>1, <2>2, <2>3
<1>4. QED
  BY <1>1, <1>2, <1>3

\* Discs that touch are pushed apart along the line of their centres.
LEMMA PushFacts ==
  ASSUME NEW c \in Vector2, NEW d \in Vector2, NEW reach \in Nat
  PROVE  /\ DiscPush(c, d, reach) \in Contacts /\ DiscPush(c, d, reach).hit = TRUE
         /\ \/ DiscPush(c, d, reach).along = Sub(d, c)
            \/ c = d /\ DiscPush(c, d, reach).along = <<1, 0>>
<1> DEFINE distSq == DistanceSquaredTo(c, d)
<1>1. distSq \in Nat
  BY DistanceType
<1>2. Length(distSq) \in Nat /\ (distSq > 0 => Length(distSq) > 0)
  BY <1>1, LengthFacts
<1>3. Sub(d, c) \in Vector2
  BY DEF Vector2, Sub
<1>4. CASE distSq = 0
  <2>1. DiscPush(c, d, reach) = Contact(<<1, 0>>, 1, reach)
    BY <1>4 DEF DiscPush
  <2>2. c = d
    BY <1>4, ZeroDistance
  <2>3. QED
    BY <2>1, <2>2 DEF Contact, Contacts, Vector2
<1>5. CASE distSq # 0
  <2>1. DiscPush(c, d, reach) = Contact(Sub(d, c), Length(distSq), reach - Length(distSq))
    BY <1>5 DEF DiscPush
  <2>2. Length(distSq) \in Nat \ {0} /\ reach - Length(distSq) \in Int
    BY <1>1, <1>2, <1>5
  <2> HIDE DEF distSq
  <2>3. QED
    BY <1>3, <2>1, <2>2 DEF Contact, Contacts
<1>6. QED
  BY <1>4, <1>5

\* Two discs touch no farther apart than their reach.
LEMMA DiscFacts ==
  ASSUME NEW c \in Vector2, NEW d \in Vector2, NEW reach \in Nat
  PROVE  /\ DiscContact(c, d, reach) \in Contacts
         /\ DiscContact(c, d, reach).hit =>
               Abs(c[1] - d[1]) <= reach /\ Abs(c[2] - d[2]) <= reach
<1> DEFINE distSq == DistanceSquaredTo(c, d)
<1>1. distSq \in Nat
  BY DistanceType
<1>2. c[1] - d[1] \in Int /\ c[2] - d[2] \in Int
  BY DEF Vector2
<1>3. CASE distSq > reach * reach
  BY <1>3 DEF DiscContact, Miss, Contacts, Vector2
<1>4. CASE ~ (distSq > reach * reach)
  <2>1. distSq = (c[1] - d[1]) * (c[1] - d[1]) + (c[2] - d[2]) * (c[2] - d[2])
    BY DEF DistanceSquaredTo
  <2>2. distSq <= reach * reach
    <3>1. reach * reach \in Nat
      OBVIOUS
    <3>2. QED
      BY <1>1, <1>4, <3>1
  <2>3. Abs(c[1] - d[1]) <= reach /\ Abs(c[2] - d[2]) <= reach
    <3> HIDE DEF distSq
    <3> QED BY <1>2, <2>1, <2>2, CoordinateBound
  <2>4. DiscContact(c, d, reach) = DiscPush(c, d, reach)
    BY <1>4 DEF DiscContact
  <2>5. QED
    BY <2>3, <2>4, PushFacts
<1>5. QED
  BY <1>3, <1>4

LEMMA FlipFacts ==
  ASSUME NEW k \in Contacts
  PROVE  Flip(k) \in Contacts /\ Flip(k).hit = k.hit
<1>1. k.along \in Vector2 /\ k.along[1] \in Int /\ k.along[2] \in Int
  BY DEF Contacts, Vector2
<1>2. Flip(k) = [k EXCEPT !.along = <<- k.along[1], - k.along[2]>>]
  BY DEF Flip
<1>3. <<- k.along[1], - k.along[2]>> \in Vector2
  BY <1>1 DEF Vector2
<1>4. QED
  BY <1>2, <1>3 DEF Contacts

\* How far a shape extends from its centre, at most.
Extent(s) == BoundingRadius(s) + 1

LEMMA ExtentFacts ==
  ASSUME NEW s \in Shapes
  PROVE  /\ Extent(s) \in Nat /\ s.size <= Extent(s)
         /\ Thousandths(s) \in Nat /\ Thousandths(s) <= 1000 * Extent(s)
<1>1. s.size \in Nat
  BY DEF Shapes
<1>2. CASE s.form = "square"
  <2>1. BoundingRadius(s) = (1414 * s.size) \div 1000 /\ Thousandths(s) = 1414 * s.size
    BY <1>2 DEF BoundingRadius, Thousandths
  <2>2. QED
    BY <1>1, <2>1 DEF Extent
<1>3. CASE s.form # "square"
  BY <1>1, <1>3 DEF BoundingRadius, Thousandths, Extent
<1>4. QED
  BY <1>2, <1>3

LEMMA GenericFacts ==
  ASSUME NEW a \in Shapes, NEW b \in Shapes
  PROVE  /\ GenericIntersects(a, b) \in Contacts
         /\ GenericIntersects(a, b).hit =>
               /\ Abs(a.center[1] - b.center[1]) <= Extent(a) + Extent(b)
               /\ Abs(a.center[2] - b.center[2]) <= Extent(a) + Extent(b)
<1> DEFINE reach == Thousandths(a) + Thousandths(b)
           distSq == DistanceSquaredTo(a.center, b.center)
           dx == a.center[1] - b.center[1]
           dy == a.center[2] - b.center[2]
<1>1. a.center \in Vector2 /\ b.center \in Vector2 /\ dx \in Int /\ dy \in Int
  BY DEF Shapes, Vector2
<1>2. reach \in Nat /\ reach <= 1000 * (Extent(a) + Extent(b))
      /\ Extent(a) \in Nat /\ Extent(b) \in Nat
  BY ExtentFacts
<1>3. distSq \in Nat /\ distSq = dx * dx + dy * dy
  BY <1>1, DistanceType DEF DistanceSquaredTo
<1>4. CASE 1000000 * distSq > reach * reach
  BY <1>4 DEF GenericIntersects, Miss, Contacts, Vector2
<1>5. CASE ~ (1000000 * distSq > reach * reach)
  <2>1. GenericIntersects(a, b) = DiscPush(a.center, b.center, reach \div 1000)
    BY <1>5 DEF GenericIntersects
  <2>2. PICK near \in Nat : near = reach \div 1000
    BY <1>2
  <2>3. (1000 * dx) * (1000 * dx) + (1000 * dy) * (1000 * dy) <= reach * reach
    <3>1. (1000 * dx) * (1000 * dx) = 1000000 * (dx * dx)
          /\ (1000 * dy) * (1000 * dy) = 1000000 * (dy * dy)
      BY <1>1
    <3>2. dx * dx \in Int /\ dy * dy \in Int /\ reach * reach \in Int
      BY <1>1, <1>2
    <3> HIDE DEF dx, dy, reach, distSq
    <3>3. QED
      BY <1>3, <1>5, <3>1, <3>2
  <2>4. Abs(1000 * dx) <= reach /\ Abs(1000 * dy) <= reach
    <3>1. 1000 * dx \in Int /\ 1000 * dy \in Int
      BY <1>1
    <3> HIDE DEF dx, dy, reach
    <3>2. QED
      BY <1>2, <2>3, <3>1, CoordinateBound
  <2>5. Abs(dx) <= Extent(a) + Extent(b) /\ Abs(dy) <= Extent(a) + Extent(b)
    <3> HIDE DEF dx, dy, reach
    <3> QED BY <1>1, <1>2, <2>4 DEF Abs
  <2>6. GenericIntersects(a, b) \in Contacts
    <3>1. DiscPush(a.center, b.center, near) \in Contacts
      BY <1>1, PushFacts
    <3>2. QED
      BY <2>1, <2>2, <3>1
  <2>7. QED
    BY <2>5, <2>6
<1>6. QED
  BY <1>4, <1>5

LEMMA CircleSquareFacts ==
  ASSUME NEW c \in Shapes, NEW s \in Shapes
  PROVE  /\ CircleSquare(c, s) \in Contacts
         /\ CircleSquare(c, s).hit =>
               /\ Abs(c.center[1] - s.center[1]) <= Extent(c) + Extent(s)
               /\ Abs(c.center[2] - s.center[2]) <= Extent(c) + Extent(s)
<1> DEFINE p == ClosestPoint(s, c.center)
<1>1. c.center \in Vector2 /\ s.center \in Vector2 /\ c.size \in Nat /\ s.size \in Nat
  BY DEF Shapes
<1>2. \A m, n \in Int, w \in Nat :
         /\ Clamp(n, m - w, m + w) \in Int
         /\ Abs(Clamp(n, m - w, m + w) - m) <= w
  BY DEF Clamp, Abs
<1>3. p \in Vector2 /\ Abs(p[1] - s.center[1]) <= s.size /\ Abs(p[2] - s.center[2]) <= s.size
  BY <1>1, <1>2 DEF ClosestPoint, Vector2
<1>4. /\ CircleSquare(c, s) \in Contacts
      /\ CircleSquare(c, s).hit =>
            Abs(c.center[1] - p[1]) <= c.size /\ Abs(c.center[2] - p[2]) <= c.size
  BY <1>1, <1>3, DiscFacts DEF CircleSquare
<1>5. \A x, y, z \in Int, v, w \in Nat :
         Abs(x - y) <= v /\ Abs(y - z) <= w => Abs(x - z) <= v + w
  BY DEF Abs
<1>6. c.size <= Extent(c) /\ s.size <= Extent(s) /\ Extent(c) \in Nat /\ Extent(s) \in Nat
  BY ExtentFacts
<1>7. ASSUME CircleSquare(c, s).hit
      PROVE  /\ Abs(c.center[1] - s.center[1]) <= c.size + s.size
             /\ Abs(c.center[2] - s.center[2]) <= c.size + s.size
  <2>1. c.center[1] \in Int /\ c.center[2] \in Int /\ s.center[1] \in Int /\ s.center[2] \in Int
        /\ p[1] \in Int /\ p[2] \in Int
    BY <1>1, <1>3 DEF Vector2
  <2> HIDE DEF p
  <2>2. QED
    BY <1>1, <1>3, <1>4, <1>5, <1>7, <2>1
<1>8. c.center[1] - s.center[1] \in Int /\ c.center[2] - s.center[2] \in Int
  BY <1>1 DEF Vector2
<1>9. Abs(c.center[1] - s.center[1]) \in Nat /\ Abs(c.center[2] - s.center[2]) \in Nat
  BY <1>8, AbsFacts
<1>10. QED
  BY <1>1, <1>4, <1>6, <1>7, <1>9

LEMMA SquareSquareFacts ==
  ASSUME NEW a \in Shapes, NEW b \in Shapes
  PROVE  /\ SquareSquare(a, b) \in Contacts
         /\ SquareSquare(a, b).hit =>
               /\ Abs(a.center[1] - b.center[1]) <= Extent(a) + Extent(b)
               /\ Abs(a.center[2] - b.center[2]) <= Extent(a) + Extent(b)
<1> DEFINE gap == Sub(b.center, a.center)
           overlap(i) == a.size + b.size - Abs(gap[i])
           sign(i) == IF gap[i] < 0 THEN -1 ELSE 1
<1>1. a.center \in Vector2 /\ b.center \in Vector2 /\ a.size \in Nat /\ b.size \in Nat
  BY DEF Shapes
<1>2. /\ gap[1] = b.center[1] - a.center[1] /\ gap[2] = b.center[2] - a.center[2]
      /\ gap[1] \in Int /\ gap[2] \in Int
  BY <1>1 DEF Sub, Vector2
<1>3. Abs(gap[1]) \in Nat /\ Abs(gap[2]) \in Nat
  BY <1>2, AbsFacts
<1>4. overlap(1) \in Int /\ overlap(2) \in Int /\ sign(1) \in Int /\ sign(2) \in Int
  BY <1>1, <1>3
<1>5. SquareSquare(a, b) =
         IF overlap(1) <= 0 \/ overlap(2) <= 0 THEN Miss
         ELSE IF overlap(1) < overlap(2) THEN Contact(<<sign(1), 0>>, 1, overlap(1))
         ELSE Contact(<<0, sign(2)>>, 1, overlap(2))
  BY DEF SquareSquare
<1>6. SquareSquare(a, b) \in Contacts
  <2> HIDE DEF overlap, sign
  <2> QED BY <1>4, <1>5 DEF Miss, Contact, Contacts, Vector2
<1>7. SquareSquare(a, b).hit => overlap(1) > 0 /\ overlap(2) > 0
  <2> HIDE DEF overlap, sign
  <2> QED BY <1>4, <1>5 DEF Miss, Contact
<1>8. SquareSquare(a, b).hit => Abs(gap[1]) <= a.size + b.size /\ Abs(gap[2]) <= a.size + b.size
  BY <1>1, <1>3, <1>7
<1>9. /\ Abs(a.center[1] - b.center[1]) = Abs(gap[1])
      /\ Abs(a.center[2] - b.center[2]) = Abs(gap[2])
  BY <1>1, <1>2 DEF Abs, Vector2
<1>10. a.size <= Extent(a) /\ b.size <= Extent(b) /\ Extent(a) \in Nat /\ Extent(b) \in Nat
  BY ExtentFacts
<1>11. QED
  <2> HIDE DEF gap, overlap, sign
  <2> QED BY <1>1, <1>3, <1>6, <1>8, <1>9, <1>10

\* Whatever their shapes, things that touch are no farther apart than they extend.
LEMMA IntersectsFacts ==
  ASSUME NEW a \in Shapes, NEW b \in Shapes
  PROVE  /\ Intersects(a, b) \in Contacts
         /\ Intersects(a, b).hit =>
               /\ Abs(a.center[1] - b.center[1]) <= Extent(a) + Extent(b)
               /\ Abs(a.center[2] - b.center[2]) <= Extent(a) + Extent(b)
<1>1. a.center \in Vector2 /\ b.center \in Vector2 /\ a.size \in Nat /\ b.size \in Nat
  BY DEF Shapes
<1>2. CASE a.form = "circle" /\ b.form = "circle"
  <2>1. Intersects(a, b) = DiscContact(a.center, b.center, a.size + b.size)
    BY <1>2 DEF Intersects
  <2>2. a.size + b.size \in Nat
    BY <1>1
  <2>3. a.size <= Extent(a) /\ b.size <= Extent(b) /\ Extent(a) \in Nat /\ Extent(b) \in Nat
    BY ExtentFacts
  <2>4. a.center[1] - b.center[1] \in Int /\ a.center[2] - b.center[2] \in Int
    BY <1>1 DEF Vector2
  <2>5. Abs(a.center[1] - b.center[1]) \in Nat /\ Abs(a.center[2] - b.center[2]) \in Nat
    BY <2>4, AbsFacts
  <2>6. /\ Intersects(a, b) \in Contacts
        /\ Intersects(a, b).hit =>
              /\ Abs(a.center[1] - b.center[1]) <= a.size + b.size
              /\ Abs(a.center[2] - b.center[2]) <= a.size + b.size
    BY <1>1, <2>1, <2>2, DiscFacts
  <2>7. QED
    BY <1>1, <2>3, <2>5, <2>6
<1>3. CASE a.form = "circle" /\ b.form = "square"
  <2>1. Intersects(a, b) = CircleSquare(a, b)
    BY <1>3 DEF Intersects
  <2>2. QED
    BY <2>1, CircleSquareFacts
<1>4. CASE a.form = "square" /\ b.form = "circle"
  <2>1. Intersects(a, b) = Flip(CircleSquare(b, a))
    BY <1>4 DEF Intersects
  <2>2. /\ CircleSquare(b, a) \in Contacts
        /\ CircleSquare(b, a).hit =>
              /\ Abs(b.center[1] - a.center[1]) <= Extent(b) + Extent(a)
              /\ Abs(b.center[2] - a.center[2]) <= Extent(b) + Extent(a)
    BY CircleSquareFacts
  <2>3. Intersects(a, b) \in Contacts /\ Intersects(a, b).hit = CircleSquare(b, a).hit
    BY <2>1, <2>2, FlipFacts
  <2>4. /\ Abs(b.center[1] - a.center[1]) = Abs(a.center[1] - b.center[1])
        /\ Abs(b.center[2] - a.center[2]) = Abs(a.center[2] - b.center[2])
    BY <1>1 DEF Abs, Vector2
  <2>5. Extent(b) + Extent(a) = Extent(a) + Extent(b)
    BY ExtentFacts
  <2>6. QED
    BY <2>2, <2>3, <2>4, <2>5
<1>5. CASE a.form = "square" /\ b.form = "square"
  <2>1. Intersects(a, b) = SquareSquare(a, b)
    BY <1>5 DEF Intersects
  <2>2. QED
    BY <2>1, SquareSquareFacts
<1>6. CASE ~ (a.form \in {"circle", "square"} /\ b.form \in {"circle", "square"})
  <2>1. Intersects(a, b) = GenericIntersects(a, b)
    BY <1>6 DEF Intersects
  <2>2. QED
    BY <2>1, GenericFacts
<1>7. QED
  BY <1>2, <1>3, <1>4, <1>5, <1>6

-----------------------------------------------------------------------------
(* One tick's collisions.                                                  *)

\* A pair that has met was looked at in the turn of the first in the order of IDs, and
\* is struck off that turn's list.
MetInTurn ==
    /\ turn # None => turn \in done
    /\ \A c \in todo : turn # None /\ Before(turn, c)
    /\ \A a, b \in Thing :
         /\ met[<<a, b>>] <= 1
         /\ met[<<a, b>>] > 0 => a \in done /\ Before(a, b) /\ ~ (a = turn /\ b \in todo)

PInv == TypeOK /\ MetInTurn

LEMMA GeomType ==
  ASSUME PhysicsAssumption, TypeOK, NEW c \in Thing
  PROVE  Geom(c) \in Shapes /\ Geom(c).center = at[c]
BY DEF PhysicsAssumption, TypeOK, Geom, ShapeAt, Shapes

LEMMA QuotientType ==
  ASSUME NEW n \in Int, NEW v \in Nat \ {0}, NEW w \in Nat \ {0}
  PROVE  (n * w) \div (v + w) \in Int
<1>1. \A x \in Int, d \in Nat \ {0} : x \div d \in Int
  OBVIOUS
<1>2. n * w \in Int /\ v + w \in Nat \ {0}
  OBVIOUS
<1>3. QED
  BY <1>1, <1>2

LEMMA ProductType ==
  ASSUME NEW n \in Int, NEW m \in Int
  PROVE  n * m \in Int
OBVIOUS

\* A push moves bodies only, and leaves them somewhere.
LEMMA PushedType ==
  ASSUME PhysicsAssumption, TypeOK, NEW c \in Thing, NEW other \in Thing, NEW k \in Contacts
  PROVE  Pushed(c, other, k) \in Vector2 /\ (c \in Rock => Pushed(c, other, k) = at[c])
<1>1. at[c] \in Vector2
  BY DEF TypeOK
<1>2. CASE c \in Rock
  BY <1>1, <1>2 DEF Pushed
<1>3. CASE c \notin Rock
  <2> DEFINE by == Share(c, other, k.overlap)
  <2>1. k.overlap \in Int /\ k.along[1] \in Int /\ k.along[2] \in Int /\ k.length \in Nat \ {0}
    BY DEF Contacts, Vector2
  <2>2. by \in Int
    <3>1. CASE other \in Rock
      BY <2>1, <3>1 DEF Share
    <3>2. CASE other \notin Rock
      <4>1. Weight[c] \in Nat \ {0} /\ Weight[other] \in Nat \ {0}
        BY <1>3, <3>2 DEF PhysicsAssumption, Thing
      <4>2. by = (k.overlap * Weight[other]) \div (Weight[c] + Weight[other])
        BY <3>2 DEF Share
      <4> DEFINE w == Weight[other]
                 v == Weight[c]
      <4>3. v \in Nat \ {0} /\ w \in Nat \ {0} /\ by = (k.overlap * w) \div (v + w)
        BY <4>1, <4>2, Zenon
      <4> HIDE DEF v, w, by
      <4>4. (k.overlap * w) \div (v + w) \in Int
        BY <2>1, <4>3, QuotientType
      <4>5. QED
        BY <4>3, <4>4, Zenon
    <3>3. QED
      BY <3>1, <3>2
  <2>3. k.along[1] * by \in Int /\ k.along[2] * by \in Int
    <3> HIDE DEF by
    <3> QED BY <2>1, <2>2, ProductType, Zenon
  <2>4. Trunc(k.along[1] * by, k.length) \in Int /\ Trunc(k.along[2] * by, k.length) \in Int
    <3> HIDE DEF by
    <3> QED BY <2>1, <2>3, TruncFacts
  <2>5. Pushed(c, other, k) =
          <<at[c][1] - Trunc(k.along[1] * by, k.length), at[c][2] - Trunc(k.along[2] * by, k.length)>>
    BY <1>3 DEF Pushed
  <2>6. QED
    <3> HIDE DEF by
    <3> QED BY <1>1, <1>3, <2>4, <2>5 DEF Vector2
<1>4. QED
  BY <1>2, <1>3

LEMMA InitPInv == PhysicsAssumption /\ Init => PInv
<1> SUFFICES ASSUME PhysicsAssumption, Init PROVE PInv
  OBVIOUS
<1>1. start \in [Thing -> Vector2]
  <2>1. PICK rocks \in ObstacleLayouts, bodies \in [Body -> Spots] :
          start = [c \in Thing |-> IF c \in Rock THEN rocks[c] ELSE bodies[c]]
    BY DEF Init
  <2>2. rocks \in [Rock -> Vector2] /\ bodies \in [Body -> Vector2]
    BY DEF ObstacleLayouts, PhysicsAssumption
  <2>3. QED
    BY <2>1, <2>2 DEF Thing
<1>2. TypeOK
  BY <1>1 DEF Init, TypeOK
<1>3. MetInTurn
  BY DEF Init, MetInTurn
<1>4. QED
  BY <1>2, <1>3 DEF PInv

LEMMA TurnKeepsPInv ==
  ASSUME PhysicsAssumption, PInv, NEW i \in 1 .. Len(Entities), NextTurn(i)
  PROVE  PInv'
<1>1. Entities[i] \in Body /\ Entities[i] \in Thing /\ Entities[i] # None
  BY DEF PhysicsAssumption, Thing
<1>2. TypeOK'
  BY <1>1 DEF PInv, TypeOK, NextTurn, Lookup
<1>3. MetInTurn'
  <2>1. turn' = Entities[i] /\ turn' \in done' /\ done \subseteq done' /\ met' = met
    BY DEF NextTurn
  <2>2. \A c \in todo' : Before(turn', c)
    BY <2>1 DEF NextTurn, Lookup
  <2>3. ASSUME NEW a \in Thing, NEW b \in Thing
        PROVE  /\ met'[<<a, b>>] <= 1
               /\ met'[<<a, b>>] > 0 => a \in done' /\ Before(a, b) /\ ~ (a = turn' /\ b \in todo')
    <3>1. Entities[i] \notin done
      BY DEF NextTurn
    <3>2. QED
      BY <2>1, <3>1 DEF PInv, MetInTurn
  <2>4. \A c \in todo' : Before(turn, c)'
    BY <2>2 DEF Before
  <2>5. \A a, b \in Thing : Before(a, b)' <=> Before(a, b)
    BY DEF Before
  <2>6. QED
    BY <1>1, <2>1, <2>3, <2>4, <2>5 DEF MetInTurn
<1>4. QED
  BY <1>2, <1>3 DEF PInv

LEMMA MeetKeepsPInv ==
  ASSUME PhysicsAssumption, PInv, NEW c2 \in todo, Meet(c2)
  PROVE  PInv'
<1> DEFINE contact == Intersects(Geom(turn), Geom(c2))
<1>1. TypeOK /\ MetInTurn
  BY DEF PInv
<1>2. c2 \in Thing /\ turn \in Body /\ turn \in Thing /\ turn \notin Rock /\ Before(turn, c2)
  BY <1>1 DEF TypeOK, MetInTurn, Thing, PhysicsAssumption
<1>3. contact \in Contacts /\ Flip(contact) \in Contacts
  BY <1>1, <1>2, GeomType, IntersectsFacts, FlipFacts
<1>4. /\ start' = start /\ done' = done /\ turn' = turn /\ todo' = todo \ {c2}
  BY DEF Meet
<1>5. CASE contact.hit
  <2>1. /\ at' = [at EXCEPT ![turn] = Pushed(turn, c2, contact), ![c2] = Pushed(c2, turn, Flip(contact))]
        /\ met' = [met EXCEPT ![<<turn, c2>>] = @ + 1]
    BY <1>5 DEF Meet
  <2>2. /\ Pushed(turn, c2, contact) \in Vector2
        /\ Pushed(c2, turn, Flip(contact)) \in Vector2
        /\ c2 \in Rock => Pushed(c2, turn, Flip(contact)) = at[c2]
    BY <1>1, <1>2, <1>3, PushedType
  <2>3. at' \in [Thing -> Vector2]
    <3> HIDE DEF contact
    <3> QED BY <1>1, <2>1, <2>2 DEF TypeOK
  <2>4. \A r \in Rock : at'[r] = start'[r]
    <3> HIDE DEF contact
    <3>1. \A r \in Rock : r \in Thing /\ r # turn
      BY <1>2 DEF Thing
    <3>2. QED
      BY <1>1, <1>4, <2>1, <2>2, <3>1 DEF TypeOK
  <2>5. met \in [Thing \X Thing -> Nat] /\ <<turn, c2>> \in Thing \X Thing
    BY <1>1, <1>2 DEF TypeOK
  <2>6. met' \in [Thing \X Thing -> Nat]
    BY <2>1, <2>5
  <2>7. TypeOK'
    BY <1>1, <1>4, <2>3, <2>4, <2>6 DEF TypeOK
  <2>8. ASSUME NEW a \in Thing, NEW b \in Thing
        PROVE  /\ met'[<<a, b>>] <= 1
               /\ met'[<<a, b>>] > 0 => a \in done' /\ Before(a, b) /\ ~ (a = turn' /\ b \in todo')
    <3>1. CASE <<a, b>> = <<turn, c2>>
      <4>1. a = turn /\ b = c2
        BY <3>1
      <4>2. met[<<a, b>>] = 0
        BY <1>1, <2>5, <4>1 DEF MetInTurn
      <4>3. met'[<<a, b>>] = 1
        BY <2>1, <2>5, <3>1, <4>2
      <4>4. QED
        BY <1>1, <1>2, <1>4, <4>1, <4>3 DEF MetInTurn, TypeOK, PhysicsAssumption, Thing
    <3>2. CASE <<a, b>> # <<turn, c2>>
      <4>1. met'[<<a, b>>] = met[<<a, b>>]
        BY <2>1, <2>5, <3>2
      <4>2. QED
        BY <1>1, <1>4, <4>1 DEF MetInTurn
    <3>3. QED
      BY <3>1, <3>2
  <2>9. MetInTurn'
    BY <1>1, <1>4, <2>8 DEF MetInTurn, Before
  <2>10. QED
    BY <2>7, <2>9 DEF PInv
<1>6. CASE ~ contact.hit
  <2>1. at' = at /\ met' = met
    BY <1>6 DEF Meet
  <2>2. TypeOK'
    BY <1>1, <1>4, <2>1 DEF TypeOK
  <2>3. MetInTurn'
    BY <1>1, <1>4, <2>1 DEF MetInTurn, Before
  <2>4. QED
    BY <2>2, <2>3 DEF PInv
<1>7. QED
  BY <1>5, <1>6

\* What is touched, and extends no farther than a cell, is filed in a cell nearby.
LEMMA InReach ==
  ASSUME PhysicsAssumption, TypeOK, NEW c1 \in Thing, NEW c2 \in Thing, Before(c1, c2),
         Intersects(Geom(c1), Geom(c2)).hit,
         Reach(c1) + Reach(c2) + Drift(c2) <= CellSize
  PROVE  c2 \in Lookup(c1)
<1>1. /\ Geom(c1) \in Shapes /\ Geom(c1).center = at[c1]
      /\ Geom(c2) \in Shapes /\ Geom(c2).center = at[c2]
  BY GeomType
<1>2. /\ Abs(at[c1][1] - at[c2][1]) <= Reach(c1) + Reach(c2)
      /\ Abs(at[c1][2] - at[c2][2]) <= Reach(c1) + Reach(c2)
  BY <1>1, IntersectsFacts DEF Reach, Extent
<1>3. Reach(c1) \in Nat /\ Reach(c2) \in Nat
  BY <1>1, ExtentFacts DEF Reach, Extent
<1>4. /\ at[c1][1] \in Int /\ at[c1][2] \in Int /\ at[c2][1] \in Int /\ at[c2][2] \in Int
      /\ start[c2][1] \in Int /\ start[c2][2] \in Int
  BY DEF TypeOK, Vector2
<1>5. /\ Abs(at[c2][1] - start[c2][1]) <= Drift(c2) /\ Abs(at[c2][2] - start[c2][2]) <= Drift(c2)
      /\ Drift(c2) \in Nat
  <2> DEFINE dx == at[c2][1] - start[c2][1]
             dy == at[c2][2] - start[c2][2]
  <2>1. dx \in Int /\ dy \in Int
    <3>1. \A x, y \in Int : x - y \in Int
      OBVIOUS
    <3>2. QED
      BY <1>4, <3>1, Zenon
  <2>2. Drift(c2) = IF Abs(dx) < Abs(dy) THEN Abs(dy) ELSE Abs(dx)
    BY DEF Drift, Sub
  <2>3. Abs(dx) \in Nat /\ Abs(dy) \in Nat
    BY <2>1, AbsFacts
  <2> HIDE DEF dx, dy
  <2>4. Abs(dx) <= Drift(c2) /\ Abs(dy) <= Drift(c2) /\ Drift(c2) \in Nat
    BY <2>2, <2>3
  <2>5. QED
    BY <2>4 DEF dx, dy
<1>6. \A x, y, z \in Int, u, v, d, cell \in Nat :
         Abs(x - y) <= u + v /\ Abs(y - z) <= d /\ u + v + d <= cell => Abs(x - z) <= cell
  BY DEF Abs
<1>7. CellSize \in Nat \ {0}
  BY DEF PhysicsAssumption
<1>8. Abs(at[c1][1] - start[c2][1]) <= CellSize /\ Abs(at[c1][2] - start[c2][2]) <= CellSize
  BY <1>2, <1>3, <1>4, <1>5, <1>6, <1>7
<1>9. Nearby(GetCoord(at[c1], CellSize), GetCoord(start[c2], CellSize))
  BY <1>4, <1>7, <1>8, TruncFacts DEF Nearby, GetCoord
<1>10. QED
  BY <1>9 DEF Lookup

\* Type correctness, for every arrangement.
THEOREM PhysicsTypeOK == Spec => []TypeOK
<1>1. Init => PInv
  BY PhysicsAssumption, InitPInv
<1>2. PInv /\ [Next]_vars => PInv'
  <2> SUFFICES ASSUME PInv, [Next]_vars PROVE PInv'
    OBVIOUS
  <2>1. CASE Next
    <3>1. CASE \E i \in 1 .. Len(Entities) : NextTurn(i)
      BY <3>1, PhysicsAssumption, TurnKeepsPInv
    <3>2. CASE \E c2 \in todo : Meet(c2)
      BY <3>2, PhysicsAssumption, MeetKeepsPInv
    <3>3. QED
      BY <2>1, <3>1, <3>2 DEF Next
  <2>2. CASE UNCHANGED vars
    BY <2>2 DEF vars, PInv, TypeOK, MetInTurn, Before
  <2>3. QED
    BY <2>1, <2>2
<1>3. PInv => TypeOK
  BY DEF PInv
<1>4. QED
  BY <1>1, <1>2, <1>3, PTL DEF Spec

\* No two things collide twice in a tick, whoever else they are pushed by.
THEOREM PhysicsPairOnce == Spec => []PairOnce
<1>1. Init => PInv
  BY PhysicsAssumption, InitPInv
<1>2. PInv /\ [Next]_vars => PInv'
  <2> SUFFICES ASSUME PInv, [Next]_vars PROVE PInv'
    OBVIOUS
  <2>1. CASE \E i \in 1 .. Len(Entities) : NextTurn(i)
    BY <2>1, PhysicsAssumption, TurnKeepsPInv
  <2>2. CASE \E c2 \in todo : Meet(c2)
    BY <2>2, PhysicsAssumption, MeetKeepsPInv
  <2>3. CASE UNCHANGED vars
    BY <2>3 DEF vars, PInv, TypeOK, MetInTurn, Before
  <2>4. QED
    BY <2>1, <2>2, <2>3 DEF Next
<1>3. PInv => PairOnce
  <2> SUFFICES ASSUME PInv, NEW a \in Thing, NEW b \in Thing
               PROVE  met[<<a, b>>] + met[<<b, a>>] <= 1
    BY DEF PairOnce
  <2>1. met[<<a, b>>] \in Nat /\ met[<<b, a>>] \in Nat
    BY DEF PInv, TypeOK
  <2>2. ~ (Before(a, b) /\ Before(b, a))
    BY PhysicsAssumption DEF PhysicsAssumption, Before
  <2>3. QED
    BY <2>1, <2>2 DEF PInv, MetInTurn
<1>4. QED
  BY <1>1, <1>2, <1>3, PTL DEF Spec

\* The broad phase is complete for what extends no farther than a cell, obstacles
\* included, wherever the pushes have put it: it is in one of the nine cells.
THEOREM PhysicsContactsFound == Spec => ContactsFound
<1> DEFINE Found ==
       turn' # turn =>
         \A c2 \in Thing :
            (/\ Before(turn', c2)
             /\ Intersects(Geom(turn'), Geom(c2)).hit
             /\ Reach(turn') + Reach(c2) + Drift(c2) <= CellSize) => c2 \in todo'
<1>1. Spec => []TypeOK
  BY PhysicsTypeOK
<1>2. TypeOK /\ [Next]_vars => [Found]_vars
  <2> SUFFICES ASSUME TypeOK, [Next]_vars PROVE [Found]_vars
    OBVIOUS
  <2>1. CASE \E c2 \in todo : Meet(c2)
    BY <2>1 DEF Meet
  <2>2. CASE UNCHANGED vars
    BY <2>2
  <2>3. ASSUME NEW i \in 1 .. Len(Entities), NextTurn(i)
        PROVE  Found
    <3>1. turn' = Entities[i] /\ turn' \in Thing /\ todo' = Lookup(turn')
      BY <2>3, PhysicsAssumption DEF NextTurn, PhysicsAssumption, Thing
    <3> DEFINE c1 == turn'
    <3>2. SUFFICES ASSUME NEW c2 \in Thing, Before(c1, c2), Intersects(Geom(c1), Geom(c2)).hit,
                          Reach(c1) + Reach(c2) + Drift(c2) <= CellSize
                   PROVE  c2 \in Lookup(c1)
      BY <3>1
    <3> HIDE DEF c1
    <3>3. c1 \in Thing
      BY <3>1 DEF c1
    <3>4. QED
      BY <3>2, <3>3, PhysicsAssumption, InReach
  <2>4. QED
    BY <2>1, <2>2, <2>3 DEF Next
<1>3. QED
  BY <1>1, <1>2, PTL DEF Spec, ContactsFound

-----------------------------------------------------------------------------
(* Contacts.                                                               *)

LEMMA Products ==
  ASSUME NEW p \in Nat, NEW q \in Nat, NEW r \in Nat, NEW s \in Nat, p <= r, q <= s
  PROVE  p * q <= r * s
<1>1. PICK d \in Nat : r = p + d
  <2>1. r - p \in Nat /\ r = p + (r - p)
    OBVIOUS
  <2>2. QED
    BY <2>1
<1>2. PICK e \in Nat : s = q + e
  <2>1. s - q \in Nat /\ s = q + (s - q)
    OBVIOUS
  <2>2. QED
    BY <2>1
<1>3. (p + d) * (q + e) = p * q + p * e + d * q + d * e
  OBVIOUS
<1>4. p * q \in Nat /\ p * e \in Nat /\ d * q \in Nat /\ d * e \in Nat
  OBVIOUS
<1>5. QED
  BY <1>1, <1>2, <1>3, <1>4

\* The length of a sum is no more than the sum of the lengths.
LEMMA Triangle ==
  ASSUME NEW x \in Int, NEW y \in Int, NEW z \in Int, NEW w \in Int, NEW r \in Nat, NEW s \in Nat,
         x * x + y * y <= r * r, z * z + w * w <= s * s
  PROVE  (x + z) * (x + z) + (y + w) * (y + w) <= (r + s) * (r + s)
<1> DEFINE p == x * x + y * y
           q == z * z + w * w
           dot == x * z + y * w
           cross == x * w - y * z
<1>1. \A n \in Int : n * n \in Nat
  BY AbsFacts
<1>2. p \in Nat /\ q \in Nat /\ dot \in Int /\ cross \in Int /\ dot * dot \in Nat /\ cross * cross \in Nat
  <2>1. x * x \in Nat /\ y * y \in Nat /\ z * z \in Nat /\ w * w \in Nat
    BY <1>1
  <2>2. x * z \in Int /\ y * w \in Int /\ x * w \in Int /\ y * z \in Int
    OBVIOUS
  <2>3. QED
    BY <1>1, <2>1, <2>2
<1>3. dot * dot + cross * cross = p * q
  OBVIOUS
<1>4. r * r \in Nat /\ s * s \in Nat /\ r * s \in Nat
  OBVIOUS
<1>5. p * q <= (r * r) * (s * s)
  BY <1>2, <1>4, Products
<1>6. (r * r) * (s * s) = (r * s) * (r * s)
  OBVIOUS
<1>7. (x + z) * (x + z) + (y + w) * (y + w) = p + q + 2 * dot
  OBVIOUS
<1>8. (r + s) * (r + s) = r * r + s * s + 2 * (r * s)
  OBVIOUS
<1>9. p <= r * r /\ q <= s * s
  OBVIOUS
<1> HIDE DEF p, q, dot, cross
<1>10. PICK pq \in Int : pq = p * q
  BY <1>2
<1>11. PICK dd \in Nat : dd = dot * dot
  BY <1>2
<1>12. PICK cc \in Nat : cc = cross * cross
  BY <1>2
<1>13. PICK rs \in Nat : rs = r * s
  BY <1>4
<1>14. PICK rr \in Nat : rr = rs * rs
  OBVIOUS
<1>15. dd <= rr
  BY <1>3, <1>5, <1>6, <1>10, <1>11, <1>12, <1>13, <1>14
<1>16. Abs(dot) \in Nat /\ Abs(dot) * Abs(dot) = dot * dot /\ dot <= Abs(dot)
  BY <1>2, AbsFacts
<1>17. Abs(dot) <= rs
  BY <1>11, <1>14, <1>15, <1>16, Squares
<1>18. p + q + 2 * dot <= r * r + s * s + 2 * rs
  <2>1. PICK a \in Nat : a = r * r
    BY <1>4
  <2>2. PICK b \in Nat : b = s * s
    BY <1>4
  <2>3. dot <= rs
    BY <1>2, <1>16, <1>17
  <2>4. p + q + 2 * dot <= a + b + 2 * rs
    BY <1>2, <1>9, <2>1, <2>2, <2>3
  <2>5. QED
    BY <2>1, <2>2, <2>4
<1>19. QED
  BY <1>7, <1>8, <1>13, <1>18

\* DiscContact touches by the distance of the centres, from either side, and its normal
\* points from the first to the second.
LEMMA DiscHit ==
  ASSUME NEW c \in Vector2, NEW d \in Vector2, NEW reach \in Nat
  PROVE  LET k == DiscContact(c, d, reach)
         IN  /\ k.hit \in BOOLEAN
             /\ k.hit <=> DistanceSquaredTo(c, d) <= reach * reach
             /\ k.hit => k.along = Sub(d, c) \/ (c = d /\ k.along = <<1, 0>>)
<1>1. DistanceSquaredTo(c, d) \in Nat /\ reach * reach \in Nat
  BY DistanceType
<1>2. CASE DistanceSquaredTo(c, d) > reach * reach
  BY <1>1, <1>2 DEF DiscContact, Miss
<1>3. CASE ~ (DistanceSquaredTo(c, d) > reach * reach)
  <2>1. DistanceSquaredTo(c, d) <= reach * reach
    BY <1>1, <1>3
  <2>2. DiscContact(c, d, reach) = DiscPush(c, d, reach)
    BY <1>3 DEF DiscContact
  <2>3. /\ DiscPush(c, d, reach).hit = TRUE
        /\ \/ DiscPush(c, d, reach).along = Sub(d, c)
           \/ c = d /\ DiscPush(c, d, reach).along = <<1, 0>>
    BY PushFacts
  <2>4. QED
    BY <2>1, <2>2, <2>3
<1>4. QED
  BY <1>2, <1>3

Dot(v, w) == v[1] * w[1] + v[2] * w[2]

LEMMA PushSound ==
  ASSUME NEW c \in Vector2, NEW d \in Vector2, NEW reach \in Nat
  PROVE  Dot(DiscPush(c, d, reach).along, Sub(d, c)) >= 0
<1>1. c[1] \in Int /\ c[2] \in Int /\ d[1] \in Int /\ d[2] \in Int
  BY DEF Vector2
<1>2. Sub(d, c)[1] = d[1] - c[1] /\ Sub(d, c)[2] = d[2] - c[2]
  BY DEF Sub
<1>3. CASE DiscPush(c, d, reach).along = Sub(d, c)
  <2>1. PICK x \in Int : x = d[1] - c[1]
    BY <1>1
  <2>2. PICK y \in Int : y = d[2] - c[2]
    BY <1>1
  <2>3. Dot(DiscPush(c, d, reach).along, Sub(d, c)) = x * x + y * y
    BY <1>2, <1>3, <2>1, <2>2 DEF Dot
  <2>4. x * x \in Nat /\ y * y \in Nat
    BY AbsFacts, <2>1, <2>2
  <2>5. QED
    BY <2>3, <2>4
<1>4. CASE c = d /\ DiscPush(c, d, reach).along = <<1, 0>>
  <2>1. Sub(d, c)[1] = 0 /\ Sub(d, c)[2] = 0
    BY <1>1, <1>2, <1>4
  <2>2. QED
    BY <1>4, <2>1 DEF Dot
<1>5. QED
  BY <1>3, <1>4, PushFacts

\* Two discs.
LEMMA DiscSound ==
  ASSUME NEW c \in Vector2, NEW d \in Vector2, NEW reach \in Nat
  PROVE  /\ DiscContact(c, d, reach).hit = DiscContact(d, c, reach).hit
         /\ DiscContact(c, d, reach).hit => Dot(DiscContact(c, d, reach).along, Sub(d, c)) >= 0
<1>1. c[1] \in Int /\ c[2] \in Int /\ d[1] \in Int /\ d[2] \in Int
  BY DEF Vector2
<1>2. DistanceSquaredTo(c, d) = DistanceSquaredTo(d, c)
  <2>1. \A m, n \in Int : (m - n) * (m - n) = (n - m) * (n - m)
    OBVIOUS
  <2>2. QED
    BY <1>1, <2>1 DEF DistanceSquaredTo
<1>3. DiscContact(c, d, reach).hit = DiscContact(d, c, reach).hit
  BY <1>2, DiscHit
<1>4. DiscContact(c, d, reach).hit => DiscContact(c, d, reach) = DiscPush(c, d, reach)
  BY DEF DiscContact, Miss
<1>5. QED
  BY <1>3, <1>4, PushSound

\* A point in two circles.
LEMMA CirclesShare ==
  ASSUME NEW a \in Shapes, NEW b \in Shapes, a.form = "circle", b.form = "circle",
         Shared(a, b) # {}
  PROVE  DistanceSquaredTo(a.center, b.center) <= (a.size + b.size) * (a.size + b.size)
<1>1. /\ a.center[1] \in Int /\ a.center[2] \in Int /\ a.size \in Nat
      /\ b.center[1] \in Int /\ b.center[2] \in Int /\ b.size \in Nat
  BY DEF Shapes, Vector2
<1>2. PICK p \in LatticeAround(a) : ContainsPoint(a, p) /\ ContainsPoint(b, p)
  BY DEF Shared
<1>3. p[1] \in Int /\ p[2] \in Int
  BY <1>1, <1>2 DEF LatticeAround
<1>4. PICK x \in Int : x = a.center[1] - p[1]
  BY <1>1, <1>3
<1>5. PICK y \in Int : y = a.center[2] - p[2]
  BY <1>1, <1>3
<1>6. PICK z \in Int : z = p[1] - b.center[1]
  BY <1>1, <1>3
<1>7. PICK w \in Int : w = p[2] - b.center[2]
  BY <1>1, <1>3
<1>8. x * x + y * y <= a.size * a.size
  BY <1>2, <1>4, <1>5 DEF ContainsPoint, DistanceSquaredTo
<1>9. z * z + w * w <= b.size * b.size
  <2>1. b.center[1] - p[1] = - z /\ b.center[2] - p[2] = - w
    BY <1>1, <1>3, <1>6, <1>7
  <2>2. (- z) * (- z) + (- w) * (- w) <= b.size * b.size
    BY <1>2, <2>1 DEF ContainsPoint, DistanceSquaredTo
  <2>3. (- z) * (- z) = z * z /\ (- w) * (- w) = w * w
    OBVIOUS
  <2>4. QED
    BY <2>2, <2>3
<1>10. a.center[1] - b.center[1] = x + z /\ a.center[2] - b.center[2] = y + w
  BY <1>1, <1>3, <1>4, <1>5, <1>6, <1>7
<1>11. (x + z) * (x + z) + (y + w) * (y + w) <= (a.size + b.size) * (a.size + b.size)
  BY <1>1, <1>8, <1>9, Triangle
<1>12. QED
  BY <1>10, <1>11 DEF DistanceSquaredTo

\* The nearest point of a square: in it, on the way to its centre, and no point of the
\* square is nearer on either axis.
LEMMA ClampFacts ==
  ASSUME NEW n \in Int, NEW m \in Int, NEW w \in Nat
  PROVE  \E k \in m - w .. m + w :
            /\ k = Clamp(n, m - w, m + w)
            /\ Abs(k - m) <= w
            /\ (k >= n /\ m >= n) \/ (k <= n /\ m <= n)
            /\ k = n => Abs(n - m) <= w
            /\ \A p \in Int : Abs(p - m) <= w => Abs(n - k) <= Abs(n - p)
<1> DEFINE k == Clamp(n, m - w, m + w)
<1>1. k \in m - w .. m + w /\ Abs(k - m) <= w
  BY DEF Clamp, Abs
<1>2. /\ (k >= n /\ m >= n) \/ (k <= n /\ m <= n)
      /\ k = n => Abs(n - m) <= w
      /\ \A p \in Int : Abs(p - m) <= w => Abs(n - k) <= Abs(n - p)
  BY DEF Clamp, Abs
<1>3. QED
  BY <1>1, <1>2

LEMMA ClosestAre ==
  ASSUME NEW s, NEW p
  PROVE  /\ ClosestPoint(s, p)[1] = Clamp(p[1], s.center[1] - s.size, s.center[1] + s.size)
         /\ ClosestPoint(s, p)[2] = Clamp(p[2], s.center[2] - s.size, s.center[2] + s.size)
         /\ ClosestPoint(s, p) = <<ClosestPoint(s, p)[1], ClosestPoint(s, p)[2]>>
<1> DEFINE x == Clamp(p[1], s.center[1] - s.size, s.center[1] + s.size)
           y == Clamp(p[2], s.center[2] - s.size, s.center[2] + s.size)
<1>1. ClosestPoint(s, p) = <<x, y>>
  BY DEF ClosestPoint
<1> HIDE DEF x, y
<1>2. <<x, y>>[1] = x /\ <<x, y>>[2] = y
  OBVIOUS
<1>3. QED
  BY <1>1, <1>2 DEF x, y

LEMMA ClosestFacts ==
  ASSUME NEW s \in Shapes, NEW c \in Vector2, NEW i \in {1, 2}
  PROVE  LET k == ClosestPoint(s, c)[i]
         IN  /\ k \in Int /\ k \in s.center[i] - s.size .. s.center[i] + s.size
             /\ Abs(k - s.center[i]) <= s.size
             /\ (k >= c[i] /\ s.center[i] >= c[i]) \/ (k <= c[i] /\ s.center[i] <= c[i])
             /\ k = c[i] => Abs(c[i] - s.center[i]) <= s.size
             /\ \A p \in Int : Abs(p - s.center[i]) <= s.size => Abs(c[i] - k) <= Abs(c[i] - p)
<1>1. PICK n \in Int : n = c[i]
  BY DEF Vector2
<1>2. PICK m \in Int : m = s.center[i]
  BY DEF Shapes, Vector2
<1>3. PICK w \in Nat : w = s.size
  BY DEF Shapes
<1>4. PICK k \in m - w .. m + w :
            /\ k = Clamp(n, m - w, m + w)
            /\ Abs(k - m) <= w
            /\ (k >= n /\ m >= n) \/ (k <= n /\ m <= n)
            /\ k = n => Abs(n - m) <= w
            /\ \A p \in Int : Abs(p - m) <= w => Abs(n - k) <= Abs(n - p)
  BY ClampFacts
<1>5. ClosestPoint(s, c)[i] = Clamp(c[i], s.center[i] - s.size, s.center[i] + s.size)
  BY ClosestAre
<1>6. k = ClosestPoint(s, c)[i] /\ k \in Int
  BY <1>1, <1>2, <1>3, <1>4, <1>5
<1>7. QED
  BY <1>1, <1>2, <1>3, <1>4, <1>6, Zenon

LEMMA SquaresOfAbs ==
  ASSUME NEW m \in Int, NEW n \in Int, Abs(m) <= Abs(n)
  PROVE  m * m <= n * n /\ m * m \in Nat /\ n * n \in Nat
<1>1. /\ Abs(m) \in Nat /\ Abs(m) * Abs(m) = m * m
      /\ Abs(n) \in Nat /\ Abs(n) * Abs(n) = n * n
  BY AbsFacts
<1>2. Abs(m) * Abs(m) <= Abs(n) * Abs(n)
  BY <1>1, Products
<1>3. \A k \in Nat : k * k \in Nat
  OBVIOUS
<1>4. QED
  BY <1>1, <1>2, <1>3

\* A circle and a square touch where some point is in both.
LEMMA CircleSquareShare ==
  ASSUME NEW c \in Shapes, NEW s \in Shapes, c.form = "circle", s.form = "square"
  PROVE  /\ ClosestPoint(s, c.center) \in Vector2
         /\ CircleSquare(c, s).hit <=> Shared(c, s) # {}
         /\ CircleSquare(c, s).hit <=> Shared(s, c) # {}
<1> DEFINE q == ClosestPoint(s, c.center)
<1>1. /\ c.center[1] \in Int /\ c.center[2] \in Int /\ c.size \in Nat /\ c.center \in Vector2
      /\ s.center[1] \in Int /\ s.center[2] \in Int /\ s.size \in Nat
  BY DEF Shapes, Vector2
<1>2. q = <<q[1], q[2]>>
  BY ClosestAre, Zenon
<1> HIDE DEF q
<1>3. /\ q[1] \in Int
      /\ q[1] \in s.center[1] - s.size .. s.center[1] + s.size /\ Abs(q[1] - s.center[1]) <= s.size
      /\ \A n \in Int : Abs(n - s.center[1]) <= s.size => Abs(c.center[1] - q[1]) <= Abs(c.center[1] - n)
  BY <1>1, ClosestFacts DEF q
<1>4. /\ q[2] \in Int
      /\ q[2] \in s.center[2] - s.size .. s.center[2] + s.size /\ Abs(q[2] - s.center[2]) <= s.size
      /\ \A n \in Int : Abs(n - s.center[2]) <= s.size => Abs(c.center[2] - q[2]) <= Abs(c.center[2] - n)
  BY <1>1, ClosestFacts DEF q
<1>5. q \in Vector2 /\ q = <<q[1], q[2]>> /\ q[1] \in Int /\ q[2] \in Int
  <2>1. \A x, y \in Int : <<x, y>> \in Vector2
    BY DEF Vector2
  <2>2. <<q[1], q[2]>> \in Vector2
    BY <1>3, <1>4, <2>1, Zenon
  <2>3. QED
    BY <1>3, <1>4, <1>2, <2>2, Zenon
<1>6. CircleSquare(c, s).hit <=> DistanceSquaredTo(c.center, q) <= c.size * c.size
  BY <1>1, <1>5, DiscHit DEF CircleSquare, q
<1>7. ASSUME DistanceSquaredTo(c.center, q) <= c.size * c.size
      PROVE  q \in Shared(c, s) /\ q \in Shared(s, c)
  <2>1. ContainsPoint(c, q) /\ ContainsPoint(s, q)
    BY <1>3, <1>4, <1>7 DEF ContainsPoint
  <2>2. q \in LatticeAround(s)
    BY <1>3, <1>4, <1>5 DEF LatticeAround
  <2>3. Abs(c.center[1] - q[1]) <= c.size /\ Abs(c.center[2] - q[2]) <= c.size
    <3>1. PICK x \in Int : x = c.center[1] - q[1]
      BY <1>1, <1>5
    <3>2. PICK y \in Int : y = c.center[2] - q[2]
      BY <1>1, <1>5
    <3>3. x * x + y * y <= c.size * c.size
      BY <1>7, <3>1, <3>2 DEF DistanceSquaredTo
    <3>4. QED
      BY <1>1, <3>1, <3>2, <3>3, CoordinateBound
  <2>4. /\ q[1] \in c.center[1] - c.size .. c.center[1] + c.size
        /\ q[2] \in c.center[2] - c.size .. c.center[2] + c.size
    BY <1>1, <1>5, <2>3 DEF Abs
  <2>5. q \in LatticeAround(c)
    BY <1>5, <2>4 DEF LatticeAround
  <2>6. QED
    BY <2>1, <2>2, <2>5 DEF Shared
<1>8. ASSUME NEW p \in Int \X Int, ContainsPoint(c, p), ContainsPoint(s, p)
      PROVE  DistanceSquaredTo(c.center, q) <= c.size * c.size
  <2>1. p[1] \in Int /\ p[2] \in Int
    OBVIOUS
  <2>2. Abs(p[1] - s.center[1]) <= s.size /\ Abs(p[2] - s.center[2]) <= s.size
    BY <1>8 DEF ContainsPoint
  <2>3. /\ Abs(c.center[1] - q[1]) <= Abs(c.center[1] - p[1])
        /\ Abs(c.center[2] - q[2]) <= Abs(c.center[2] - p[2])
    BY <1>3, <1>4, <2>1, <2>2
  <2>4. PICK x \in Int : x = c.center[1] - q[1]
    BY <1>1, <1>5
  <2>5. PICK y \in Int : y = c.center[2] - q[2]
    BY <1>1, <1>5
  <2>6. PICK z \in Int : z = c.center[1] - p[1]
    BY <1>1, <2>1
  <2>7. PICK w \in Int : w = c.center[2] - p[2]
    BY <1>1, <2>1
  <2>8. /\ x * x <= z * z /\ x * x \in Nat /\ z * z \in Nat
        /\ y * y <= w * w /\ y * y \in Nat /\ w * w \in Nat
    BY <2>3, <2>4, <2>5, <2>6, <2>7, SquaresOfAbs
  <2>9. DistanceSquaredTo(c.center, q) = x * x + y * y /\ DistanceSquaredTo(c.center, p) = z * z + w * w
    BY <2>4, <2>5, <2>6, <2>7, Zenon DEF DistanceSquaredTo
  <2>10. DistanceSquaredTo(c.center, p) <= c.size * c.size
    BY <1>8 DEF ContainsPoint
  <2>11. PICK bound \in Nat : bound = c.size * c.size
    BY <1>1
  <2>12. QED
    BY <2>8, <2>9, <2>10, <2>11
<1>9. \A p \in Shared(c, s) \cup Shared(s, c) :
         p \in Int \X Int /\ ContainsPoint(c, p) /\ ContainsPoint(s, p)
  <2>1. ASSUME NEW t \in {c, s}, NEW p \in LatticeAround(t)
        PROVE  p \in Int \X Int
    <3>1. t.center[1] \in Int /\ t.center[2] \in Int /\ t.size \in Nat
      BY <1>1
    <3>2. QED
      BY <3>1 DEF LatticeAround
  <2>2. QED
    BY <2>1 DEF Shared
<1>10. QED
  BY <1>5, <1>6, <1>7, <1>8, <1>9 DEF q

\* The normal of a circle whose centre is outside a square has the square ahead.
LEMMA CircleSquareNormal ==
  ASSUME NEW c \in Shapes, NEW s \in Shapes, c.form = "circle", s.form = "square",
         CircleSquare(c, s).hit, ~ ContainsPoint(s, c.center)
  PROVE  Dot(CircleSquare(c, s).along, Sub(s.center, c.center)) >= 0
<1> DEFINE q == ClosestPoint(s, c.center)
<1>1. /\ c.center[1] \in Int /\ c.center[2] \in Int /\ c.size \in Nat /\ c.center \in Vector2
      /\ s.center[1] \in Int /\ s.center[2] \in Int /\ s.size \in Nat
      /\ c.center = <<c.center[1], c.center[2]>>
  BY DEF Shapes, Vector2
<1>2. ASSUME NEW n \in Int, NEW m \in Int, NEW k \in Int, (k >= n /\ m >= n) \/ (k <= n /\ m <= n)
      PROVE  (k - n) * (m - n) \in Nat
  <2>1. CASE k >= n /\ m >= n
    <3>1. PICK i \in Nat : i = k - n
      BY <2>1
    <3>2. PICK j \in Nat : j = m - n
      BY <2>1
    <3>3. i * j \in Nat
      OBVIOUS
    <3>4. QED
      BY <3>1, <3>2, <3>3
  <2>2. CASE k <= n /\ m <= n
    <3>1. PICK i \in Nat : i = n - k
      BY <2>2
    <3>2. PICK j \in Nat : j = n - m
      BY <2>2
    <3>3. i * j \in Nat /\ (- i) * (- j) = i * j
      OBVIOUS
    <3>4. k - n = - i /\ m - n = - j
      BY <3>1, <3>2
    <3>5. QED
      BY <3>3, <3>4
  <2>3. QED
    BY <1>2, <2>1, <2>2
<1>3. q \in Vector2
  BY CircleSquareShare
<1> HIDE DEF q
<1>4. /\ q[1] \in Int
      /\ \/ q[1] >= c.center[1] /\ s.center[1] >= c.center[1]
         \/ q[1] <= c.center[1] /\ s.center[1] <= c.center[1]
      /\ q[1] = c.center[1] => Abs(c.center[1] - s.center[1]) <= s.size
  BY <1>1, ClosestFacts DEF q
<1>5. /\ q[2] \in Int
      /\ \/ q[2] >= c.center[2] /\ s.center[2] >= c.center[2]
         \/ q[2] <= c.center[2] /\ s.center[2] <= c.center[2]
      /\ q[2] = c.center[2] => Abs(c.center[2] - s.center[2]) <= s.size
  BY <1>1, ClosestFacts DEF q
<1>6. q # c.center
  BY <1>4, <1>5 DEF ContainsPoint
<1>7. CircleSquare(c, s).along = Sub(q, c.center)
  BY <1>1, <1>3, <1>6, DiscHit DEF CircleSquare, q
<1>8. Dot(CircleSquare(c, s).along, Sub(s.center, c.center))
        = (q[1] - c.center[1]) * (s.center[1] - c.center[1])
            + (q[2] - c.center[2]) * (s.center[2] - c.center[2])
  BY <1>7 DEF Dot, Sub
<1>9. PICK x \in Nat : x = (q[1] - c.center[1]) * (s.center[1] - c.center[1])
  BY <1>1, <1>2, <1>4
<1>10. PICK y \in Nat : y = (q[2] - c.center[2]) * (s.center[2] - c.center[2])
  BY <1>1, <1>2, <1>5
<1>11. QED
  BY <1>8, <1>9, <1>10

\* Two intervals around m and n that overlap: how far their common part goes.
LEMMA IntervalsOverlap ==
  ASSUME NEW m \in Int, NEW n \in Int, NEW v \in Nat \ {0}, NEW w \in Nat \ {0}
  PROVE  /\ v + w - Abs(n - m) > 0 =>
               \E k \in m - v .. m + v : /\ Abs(k - m) <= v /\ Abs(k - n) <= w
                                         /\ k + 1 \in m - v .. m + v
                                         /\ Abs(k + 1 - m) <= v /\ Abs(k + 1 - n) <= w
         /\ \A k \in Int : (/\ Abs(k - m) <= v /\ Abs(k - n) <= w
                            /\ Abs(k + 1 - m) <= v /\ Abs(k + 1 - n) <= w) => v + w - Abs(n - m) > 0
<1>1. ASSUME v + w - Abs(n - m) > 0
      PROVE  \E k \in m - v .. m + v : /\ Abs(k - m) <= v /\ Abs(k - n) <= w
                                       /\ k + 1 \in m - v .. m + v
                                       /\ Abs(k + 1 - m) <= v /\ Abs(k + 1 - n) <= w
  <2>1. CASE m - v <= n - w
    <3>1. n - w \in m - v .. m + v
      BY <1>1, <2>1 DEF Abs
    <3>2. /\ Abs(n - w - m) <= v /\ Abs(n - w - n) <= w /\ n - w + 1 \in m - v .. m + v
          /\ Abs(n - w + 1 - m) <= v /\ Abs(n - w + 1 - n) <= w
      BY <1>1, <2>1 DEF Abs
    <3>3. QED
      BY <3>1, <3>2
  <2>2. CASE m - v > n - w
    <3>1. m - v \in m - v .. m + v
      BY <1>1, <2>2 DEF Abs
    <3>2. /\ Abs(m - v - m) <= v /\ Abs(m - v - n) <= w /\ m - v + 1 \in m - v .. m + v
          /\ Abs(m - v + 1 - m) <= v /\ Abs(m - v + 1 - n) <= w
      BY <1>1, <2>2 DEF Abs
    <3>3. QED
      BY <3>1, <3>2
  <2>3. QED
    BY <2>1, <2>2
<1>2. ASSUME NEW k \in Int, Abs(k - m) <= v, Abs(k - n) <= w, Abs(k + 1 - m) <= v, Abs(k + 1 - n) <= w
      PROVE  v + w - Abs(n - m) > 0
  BY <1>2 DEF Abs
<1>3. QED
  BY <1>1, <1>2

\* Along the axis of the least overlap.
LEMMA SquareSquareIs ==
  ASSUME NEW a \in Shapes, NEW b \in Shapes
  PROVE  \E x, y \in Int, reach \in Nat :
            /\ x = b.center[1] - a.center[1] /\ y = b.center[2] - a.center[2]
            /\ reach = a.size + b.size
            /\ SquareSquare(a, b).hit \in BOOLEAN
            /\ SquareSquare(a, b).hit <=> (reach - Abs(x) > 0 /\ reach - Abs(y) > 0)
            /\ SquareSquare(a, b).hit =>
                  \/ x < 0 /\ SquareSquare(a, b).along = <<-1, 0>>
                  \/ x >= 0 /\ SquareSquare(a, b).along = <<1, 0>>
                  \/ y < 0 /\ SquareSquare(a, b).along = <<0, -1>>
                  \/ y >= 0 /\ SquareSquare(a, b).along = <<0, 1>>
<1> DEFINE gap == Sub(b.center, a.center)
           overlap == [i \in 1 .. 2 |-> a.size + b.size - Abs(gap[i])]
           sign == [i \in 1 .. 2 |-> IF gap[i] < 0 THEN -1 ELSE 1]
<1>1. PICK x \in Int : x = b.center[1] - a.center[1]
  BY DEF Shapes, Vector2
<1>2. PICK y \in Int : y = b.center[2] - a.center[2]
  BY DEF Shapes, Vector2
<1>3. a.size \in Nat /\ b.size \in Nat
  BY DEF Shapes
<1> DEFINE reach == a.size + b.size
<1>4. gap[1] = x /\ gap[2] = y
  BY <1>1, <1>2 DEF Sub
<1>5. SquareSquare(a, b) = IF overlap[1] <= 0 \/ overlap[2] <= 0 THEN Miss
                           ELSE IF overlap[1] < overlap[2] THEN Contact(<<sign[1], 0>>, 1, overlap[1])
                           ELSE Contact(<<0, sign[2]>>, 1, overlap[2])
  BY DEF SquareSquare
<1> HIDE DEF gap
<1>6. overlap[1] = a.size + b.size - Abs(gap[1]) /\ overlap[2] = a.size + b.size - Abs(gap[2])
  OBVIOUS
<1>7. sign[1] = (IF gap[1] < 0 THEN -1 ELSE 1) /\ sign[2] = (IF gap[2] < 0 THEN -1 ELSE 1)
  OBVIOUS
<1> HIDE DEF overlap, sign
<1>8. overlap[1] = reach - Abs(x) /\ overlap[2] = reach - Abs(y)
  <2>1. PICK v \in Nat : v = a.size
    BY <1>3
  <2>2. PICK w \in Nat : w = b.size
    BY <1>3
  <2>3. overlap[1] = v + w - Abs(x) /\ overlap[2] = v + w - Abs(y)
    BY <1>4, <1>6, <2>1, <2>2, Zenon
  <2>4. \A n \in Int : v + w - Abs(n) = (v + w) - Abs(n)
    BY AbsFacts
  <2>5. reach = v + w
    BY <2>1, <2>2
  <2> HIDE DEF reach
  <2>6. QED
    BY <2>3, <2>4, <2>5
<1>9. reach \in Nat
  BY <1>3
<1> HIDE DEF reach
<1>10. sign[1] = (IF x < 0 THEN -1 ELSE 1) /\ sign[2] = (IF y < 0 THEN -1 ELSE 1)
  BY <1>4, <1>7, Zenon
<1>11. PICK ox \in Int : ox = reach - Abs(x)
  BY <1>9, AbsFacts
<1>12. PICK oy \in Int : oy = reach - Abs(y)
  BY <1>9, AbsFacts
<1>13. PICK sx \in Int : sx = (IF x < 0 THEN -1 ELSE 1) /\ ((sx = -1 /\ x < 0) \/ (sx = 1 /\ x >= 0))
  OBVIOUS
<1>14. PICK sy \in Int : sy = (IF y < 0 THEN -1 ELSE 1) /\ ((sy = -1 /\ y < 0) \/ (sy = 1 /\ y >= 0))
  OBVIOUS
<1>15. SquareSquare(a, b) = IF ox <= 0 \/ oy <= 0 THEN Miss
                            ELSE IF ox < oy THEN Contact(<<sx, 0>>, 1, ox)
                            ELSE Contact(<<0, sy>>, 1, oy)
  <2>1. overlap[1] = ox /\ overlap[2] = oy
    BY <1>8, <1>11, <1>12, Zenon
  <2>2. sign[1] = sx /\ sign[2] = sy
    BY <1>10, <1>13, <1>14, Zenon
  <2>3. QED
    BY <1>5, <2>1, <2>2, Zenon
<1>16. /\ SquareSquare(a, b).hit \in BOOLEAN
       /\ SquareSquare(a, b).hit <=> (ox > 0 /\ oy > 0)
       /\ SquareSquare(a, b).hit =>
             SquareSquare(a, b).along = <<sx, 0>> \/ SquareSquare(a, b).along = <<0, sy>>
  <2>1. CASE ox <= 0 \/ oy <= 0
    <3>1. SquareSquare(a, b) = Miss
      BY <1>15, <2>1, Zenon
    <3>2. ~ SquareSquare(a, b).hit /\ SquareSquare(a, b).hit \in BOOLEAN
      BY <3>1 DEF Miss
    <3>3. ~ (ox > 0 /\ oy > 0)
      BY <2>1
    <3>4. QED
      BY <3>2, <3>3
  <2>2. CASE ~ (ox <= 0 \/ oy <= 0) /\ ox < oy
    BY <1>15, <2>2 DEF Contact
  <2>3. CASE ~ (ox <= 0 \/ oy <= 0) /\ ~ (ox < oy)
    BY <1>15, <2>3 DEF Contact
  <2>4. QED
    BY <2>1, <2>2, <2>3
<1>17. /\ SquareSquare(a, b).hit <=> (reach - Abs(x) > 0 /\ reach - Abs(y) > 0)
       /\ SquareSquare(a, b).hit =>
             \/ x < 0 /\ SquareSquare(a, b).along = <<-1, 0>>
             \/ x >= 0 /\ SquareSquare(a, b).along = <<1, 0>>
             \/ y < 0 /\ SquareSquare(a, b).along = <<0, -1>>
             \/ y >= 0 /\ SquareSquare(a, b).along = <<0, 1>>
  BY <1>11, <1>12, <1>13, <1>14, <1>16
<1>18. QED
  BY <1>1, <1>2, <1>9, <1>16, <1>17 DEF reach

\* Two squares touch where they share more than an edge.
LEMMA SquaresSound ==
  ASSUME NEW a \in Shapes, NEW b \in Shapes, a.form = "square", b.form = "square",
         a.size > 0, b.size > 0
  PROVE  /\ SquareSquare(a, b).hit = SquareSquare(b, a).hit
         /\ SquareSquare(a, b).hit => Dot(SquareSquare(a, b).along, Sub(b.center, a.center)) >= 0
         /\ SquareSquare(a, b).hit <=> \E p \in Shared(a, b) : Add(p, <<1, 1>>) \in Shared(a, b)
<1>1. PICK a1 \in Int, a2 \in Int, v \in Nat \ {0} : a1 = a.center[1] /\ a2 = a.center[2] /\ v = a.size
  BY DEF Shapes, Vector2
<1>2. PICK b1 \in Int, b2 \in Int, w \in Nat \ {0} : b1 = b.center[1] /\ b2 = b.center[2] /\ w = b.size
  BY DEF Shapes, Vector2
<1> DEFINE Both(p) == /\ Abs(p[1] - a1) <= v /\ Abs(p[1] - b1) <= w
                      /\ Abs(p[2] - a2) <= v /\ Abs(p[2] - b2) <= w
<1>3. \A p : p \in Shared(a, b) <=> p \in (a1 - v .. a1 + v) \X (a2 - v .. a2 + v) /\ Both(p)
  <2>1. LatticeAround(a) = (a1 - v .. a1 + v) \X (a2 - v .. a2 + v)
    BY <1>1, Zenon DEF LatticeAround
  <2>2. \A p : ContainsPoint(a, p) <=> Abs(p[1] - a1) <= v /\ Abs(p[2] - a2) <= v
    BY <1>1 DEF ContainsPoint
  <2>3. \A p : ContainsPoint(b, p) <=> Abs(p[1] - b1) <= w /\ Abs(p[2] - b2) <= w
    BY <1>2 DEF ContainsPoint
  <2>4. QED
    BY <2>1, <2>2, <2>3, Zenon DEF Shared
<1>4. PICK x \in Int, y \in Int, reach \in Nat :
        /\ x = b1 - a1 /\ y = b2 - a2 /\ reach = v + w
        /\ x = b.center[1] - a.center[1] /\ y = b.center[2] - a.center[2]
        /\ SquareSquare(a, b).hit \in BOOLEAN
        /\ SquareSquare(a, b).hit <=> (reach - Abs(x) > 0 /\ reach - Abs(y) > 0)
        /\ SquareSquare(a, b).hit =>
              \/ x < 0 /\ SquareSquare(a, b).along = <<-1, 0>>
              \/ x >= 0 /\ SquareSquare(a, b).along = <<1, 0>>
              \/ y < 0 /\ SquareSquare(a, b).along = <<0, -1>>
              \/ y >= 0 /\ SquareSquare(a, b).along = <<0, 1>>
  BY <1>1, <1>2, SquareSquareIs
<1>5. PICK mx \in Int, my \in Int, back \in Nat :
        /\ mx = a1 - b1 /\ my = a2 - b2 /\ back = w + v
        /\ SquareSquare(b, a).hit \in BOOLEAN
        /\ SquareSquare(b, a).hit <=> (back - Abs(mx) > 0 /\ back - Abs(my) > 0)
  BY <1>1, <1>2, SquareSquareIs
<1>6. SquareSquare(a, b).hit = SquareSquare(b, a).hit
  <2>1. back = reach /\ Abs(mx) = Abs(x) /\ Abs(my) = Abs(y)
    BY <1>4, <1>5 DEF Abs
  <2>2. QED
    BY <1>4, <1>5, <2>1
<1>7. ASSUME SquareSquare(a, b).hit
      PROVE  Dot(SquareSquare(a, b).along, Sub(b.center, a.center)) >= 0
  <2>1. Sub(b.center, a.center)[1] = x /\ Sub(b.center, a.center)[2] = y
    BY <1>4 DEF Sub
  <2>2. Dot(SquareSquare(a, b).along, Sub(b.center, a.center))
          = SquareSquare(a, b).along[1] * x + SquareSquare(a, b).along[2] * y
    BY <2>1 DEF Dot
  <2>3. QED
    BY <1>4, <1>7, <2>2
<1>8. ASSUME SquareSquare(a, b).hit
      PROVE  \E p \in Shared(a, b) : Add(p, <<1, 1>>) \in Shared(a, b)
  <2>1. v + w - Abs(b1 - a1) > 0 /\ v + w - Abs(b2 - a2) > 0
    BY <1>4, <1>8, AbsFacts
  <2>2. PICK k \in a1 - v .. a1 + v :
           /\ Abs(k - a1) <= v /\ Abs(k - b1) <= w
           /\ k + 1 \in a1 - v .. a1 + v
           /\ Abs(k + 1 - a1) <= v /\ Abs(k + 1 - b1) <= w
    BY <2>1, IntervalsOverlap
  <2>3. PICK l \in a2 - v .. a2 + v :
           /\ Abs(l - a2) <= v /\ Abs(l - b2) <= w
           /\ l + 1 \in a2 - v .. a2 + v
           /\ Abs(l + 1 - a2) <= v /\ Abs(l + 1 - b2) <= w
    BY <2>1, IntervalsOverlap
  <2>4. <<k, l>> \in Shared(a, b)
    <3>1. Both(<<k, l>>)
      BY <2>2, <2>3
    <3> HIDE DEF Both
    <3>2. QED
      BY <1>3, <2>2, <2>3, <3>1
  <2>5. <<k + 1, l + 1>> \in Shared(a, b)
    <3>1. Both(<<k + 1, l + 1>>)
      BY <2>2, <2>3
    <3> HIDE DEF Both
    <3>2. QED
      BY <1>3, <2>2, <2>3, <3>1
  <2>6. Add(<<k, l>>, <<1, 1>>) = <<k + 1, l + 1>>
    BY DEF Add
  <2>7. QED
    BY <2>4, <2>5, <2>6
<1>9. ASSUME NEW p \in Shared(a, b), Add(p, <<1, 1>>) \in Shared(a, b)
      PROVE  SquareSquare(a, b).hit
  <2>1. Both(p) /\ Both(Add(p, <<1, 1>>))
    BY <1>3, <1>9
  <2>2. PICK k \in Int, l \in Int : k = p[1] /\ l = p[2]
    BY <1>3
  <2>3. Add(p, <<1, 1>>)[1] = k + 1 /\ Add(p, <<1, 1>>)[2] = l + 1
    BY <2>2 DEF Add
  <2>4. /\ Abs(k - a1) <= v /\ Abs(k - b1) <= w
        /\ Abs(l - a2) <= v /\ Abs(l - b2) <= w
        /\ Abs(k + 1 - a1) <= v /\ Abs(k + 1 - b1) <= w
        /\ Abs(l + 1 - a2) <= v /\ Abs(l + 1 - b2) <= w
    BY <2>1, <2>2, <2>3
  <2>5. v + w - Abs(b1 - a1) > 0 /\ v + w - Abs(b2 - a2) > 0
    BY <2>4, IntervalsOverlap
  <2>6. QED
    BY <1>4, <2>5, AbsFacts
<1>10. QED
  BY <1>4, <1>6, <1>7, <1>8, <1>9

LEMMA GenericSound ==
  ASSUME NEW a \in Shapes, NEW b \in Shapes
  PROVE  /\ GenericIntersects(a, b).hit = GenericIntersects(b, a).hit
         /\ GenericIntersects(a, b).hit =>
               Dot(GenericIntersects(a, b).along, Sub(b.center, a.center)) >= 0
<1>1. a.center \in Vector2 /\ b.center \in Vector2 /\ Thousandths(a) \in Nat /\ Thousandths(b) \in Nat
  BY ExtentFacts DEF Shapes
<1>2. PICK reach \in Nat : /\ reach = Thousandths(a) + Thousandths(b)
                          /\ reach = Thousandths(b) + Thousandths(a)
  BY <1>1
<1>3. DistanceSquaredTo(a.center, b.center) = DistanceSquaredTo(b.center, a.center)
  <2>1. \A m, n \in Int : (m - n) * (m - n) = (n - m) * (n - m)
    OBVIOUS
  <2>2. a.center[1] \in Int /\ a.center[2] \in Int /\ b.center[1] \in Int /\ b.center[2] \in Int
    BY <1>1 DEF Vector2
  <2>3. QED
    BY <2>1, <2>2 DEF DistanceSquaredTo
<1> DEFINE Far == 1000000 * DistanceSquaredTo(a.center, b.center) > reach * reach
<1>4. PICK near \in Nat : near = reach \div 1000
  OBVIOUS
<1>5. /\ GenericIntersects(a, b) = IF Far THEN Miss ELSE DiscPush(a.center, b.center, near)
      /\ GenericIntersects(b, a) = IF Far THEN Miss ELSE DiscPush(b.center, a.center, near)
  BY <1>2, <1>3, <1>4, SMT DEF GenericIntersects
<1> HIDE DEF Far
<1>6. CASE Far
  BY <1>5, <1>6 DEF Miss
<1>7. CASE ~ Far
  <2>1. /\ GenericIntersects(a, b) = DiscPush(a.center, b.center, near)
        /\ GenericIntersects(b, a) = DiscPush(b.center, a.center, near)
    BY <1>5, <1>7
  <2>2. DiscPush(a.center, b.center, near).hit = TRUE /\ DiscPush(b.center, a.center, near).hit = TRUE
    BY <1>1, PushFacts
  <2>3. Dot(DiscPush(a.center, b.center, near).along, Sub(b.center, a.center)) >= 0
    BY <1>1, PushSound
  <2>4. QED
    BY <2>1, <2>2, <2>3
<1>8. QED
  BY <1>6, <1>7

\* What collisions rely on, of any two shapes of positive sizes: both sides see the same
\* contact, it pushes them apart, and circles and squares touch when they share a point.
THEOREM ShapesSound ==
  ASSUME NEW a \in Shapes, NEW b \in Shapes, a.size > 0, b.size > 0
  PROVE  ContactSound(a, b)
<1> DEFINE Symmetric == Intersects(a, b).hit = Intersects(b, a).hit
           Parting == Intersects(a, b).hit /\ ~ Engulfed(a, b) =>
                         Dot(Intersects(a, b).along, Sub(b.center, a.center)) >= 0
           Circles == {a.form, b.form} = {"circle"} => (Shared(a, b) # {} => Intersects(a, b).hit)
           Mixed == {a.form, b.form} = {"circle", "square"} =>
                       (Shared(a, b) # {} <=> Intersects(a, b).hit)
           Squared == {a.form, b.form} = {"square"} =>
                         (Intersects(a, b).hit <=>
                            \E p \in Shared(a, b) : Add(p, <<1, 1>>) \in Shared(a, b))
<1>1. a.center \in Vector2 /\ b.center \in Vector2 /\ a.size \in Nat /\ b.size \in Nat
      /\ a.center[1] \in Int /\ a.center[2] \in Int /\ b.center[1] \in Int /\ b.center[2] \in Int
  BY DEF Shapes, Vector2
<1>2. SUFFICES Symmetric /\ Parting /\ Circles /\ Mixed /\ Squared
  BY DEF ContactSound, Dot
<1>3. CASE a.form = "circle" /\ b.form = "circle"
  <2>1. PICK reach \in Nat : reach = a.size + b.size /\ reach = b.size + a.size
    BY <1>1
  <2>2. /\ Intersects(a, b) = DiscContact(a.center, b.center, reach)
        /\ Intersects(b, a) = DiscContact(b.center, a.center, reach)
    BY <1>3, <2>1 DEF Intersects
  <2>3. Symmetric /\ Parting
    BY <1>1, <2>2, DiscSound
  <2>4. Circles
    BY <1>1, <1>3, <2>1, <2>2, CirclesShare, DiscHit
  <2>5. Mixed /\ Squared
    BY <1>3
  <2>6. QED
    BY <2>3, <2>4, <2>5
<1>4. CASE a.form = "circle" /\ b.form = "square"
  <2>1. Intersects(a, b) = CircleSquare(a, b) /\ Intersects(b, a) = Flip(CircleSquare(a, b))
    BY <1>4 DEF Intersects
  <2>2. Symmetric
    BY <2>1, CircleSquareFacts, FlipFacts
  <2>3. Parting
    BY <1>4, <2>1, CircleSquareNormal DEF Engulfed
  <2>4. Mixed
    BY <1>4, <2>1, CircleSquareShare
  <2>5. Circles /\ Squared
    BY <1>4
  <2>6. QED
    BY <2>2, <2>3, <2>4, <2>5
<1>5. CASE a.form = "square" /\ b.form = "circle"
  <2>1. Intersects(a, b) = Flip(CircleSquare(b, a)) /\ Intersects(b, a) = CircleSquare(b, a)
    BY <1>5 DEF Intersects
  <2>2. CircleSquare(b, a) \in Contacts /\ Intersects(a, b).hit = CircleSquare(b, a).hit
    BY <2>1, CircleSquareFacts, FlipFacts
  <2>3. Symmetric
    BY <2>1, <2>2
  <2>4. Parting
    <3> SUFFICES ASSUME CircleSquare(b, a).hit, ~ ContainsPoint(a, b.center)
                 PROVE  Dot(Intersects(a, b).along, Sub(b.center, a.center)) >= 0
      BY <1>5, <2>2 DEF Engulfed
    <3>1. Dot(CircleSquare(b, a).along, Sub(a.center, b.center)) >= 0
      BY <1>5, CircleSquareNormal
    <3>2. PICK x \in Int, y \in Int : x = CircleSquare(b, a).along[1] /\ y = CircleSquare(b, a).along[2]
      BY <2>2 DEF Contacts, Vector2
    <3>3. PICK u \in Int, v \in Int : u = b.center[1] - a.center[1] /\ v = b.center[2] - a.center[2]
      BY <1>1
    <3>4. a.center[1] - b.center[1] = - u /\ a.center[2] - b.center[2] = - v
      BY <1>1, <3>3
    <3>5. Sub(a.center, b.center)[1] = - u /\ Sub(a.center, b.center)[2] = - v
          /\ Sub(b.center, a.center)[1] = u /\ Sub(b.center, a.center)[2] = v
      BY <3>3, <3>4 DEF Sub
    <3>6. Intersects(a, b).along[1] = - x /\ Intersects(a, b).along[2] = - y
      BY <2>1, <2>2, <3>2 DEF Flip, Contacts
    <3>7. x * (- u) + y * (- v) >= 0
      BY <3>1, <3>2, <3>5, Zenon DEF Dot
    <3>8. Dot(Intersects(a, b).along, Sub(b.center, a.center)) = (- x) * u + (- y) * v
      BY <3>5, <3>6, Zenon DEF Dot
    <3>9. (- x) * u = x * (- u) /\ (- y) * v = y * (- v)
      OBVIOUS
    <3>10. QED
      BY <3>7, <3>8, <3>9, Zenon
  <2>5. Mixed
    BY <1>5, <2>2, CircleSquareShare
  <2>6. Circles /\ Squared
    BY <1>5
  <2>7. QED
    BY <2>3, <2>4, <2>5, <2>6
<1>6. CASE a.form = "square" /\ b.form = "square"
  <2>1. Intersects(a, b) = SquareSquare(a, b) /\ Intersects(b, a) = SquareSquare(b, a)
    BY <1>6 DEF Intersects
  <2>2. Symmetric /\ Parting /\ Squared
    BY <1>6, <2>1, SquaresSound
  <2>3. Circles /\ Mixed
    BY <1>6
  <2>4. QED
    BY <2>2, <2>3
<1>7. CASE ~ (a.form \in {"circle", "square"} /\ b.form \in {"circle", "square"})
  <2>1. Intersects(a, b) = GenericIntersects(a, b) /\ Intersects(b, a) = GenericIntersects(b, a)
    BY <1>7 DEF Intersects
  <2>2. Symmetric /\ Parting
    BY <2>1, GenericSound
  <2>3. Circles /\ Mixed /\ Squared
    <3> HIDE DEF Symmetric, Parting
    <3>1. ~ ({a.form, b.form} \subseteq {"circle", "square"})
      BY <1>7
    <3>2. QED
      BY <3>1
  <2>4. QED
    BY <2>2, <2>3
<1>8. QED
  BY <1>3, <1>4, <1>5, <1>6, <1>7

\* Every contact at the end of a tick is sound, wherever the pushes of any number of
\* bodies have put them, whatever their shapes.
THEOREM PhysicsContactsSound == Spec => []ContactsSound
<1> DEFINE TurnTaken == done # {} => turn \in Body
<1>1. Spec => []TypeOK
  BY PhysicsTypeOK
<1>2. Init => TurnTaken
  BY DEF Init
<1>3. TurnTaken /\ [Next]_vars => TurnTaken'
  <2> SUFFICES ASSUME TurnTaken, [Next]_vars PROVE TurnTaken'
    OBVIOUS
  <2>1. CASE \E i \in 1 .. Len(Entities) : NextTurn(i)
    BY <2>1, PhysicsAssumption DEF NextTurn, PhysicsAssumption
  <2>2. CASE \E c2 \in todo : Meet(c2)
    BY <2>2 DEF Meet
  <2>3. CASE UNCHANGED vars
    BY <2>3 DEF vars
  <2>4. QED
    BY <2>1, <2>2, <2>3 DEF Next
<1>4. TypeOK /\ TurnTaken => ContactsSound
  <2> SUFFICES ASSUME TypeOK, TurnTaken, done = Body, NEW c \in Body,
                      NEW f \in {"circle", "square", "triangle", "pentagon"},
                      NEW g \in {"circle", "square", "triangle", "pentagon"}
               PROVE  ContactSound([form |-> f, center |-> at[turn], size |-> 2],
                                   [form |-> g, center |-> at[c], size |-> 1])
    BY DEF ContactsSound
  <2>1. turn \in Thing /\ c \in Thing
    BY DEF Thing
  <2>2. at[turn] \in Vector2 /\ at[c] \in Vector2
    BY <2>1 DEF TypeOK
  <2>3. /\ [form |-> f, center |-> at[turn], size |-> 2] \in Shapes
        /\ [form |-> g, center |-> at[c], size |-> 1] \in Shapes
    BY <2>2 DEF Shapes
  <2>4. [form |-> f, center |-> at[turn], size |-> 2].size > 0
        /\ [form |-> g, center |-> at[c], size |-> 1].size > 0
    OBVIOUS
  <2>5. QED
    BY <2>3, <2>4, ShapesSound
<1>5. QED
  BY <1>1, <1>2, <1>3, <1>4, PTL DEF Spec

-----------------------------------------------------------------------------
(* What a bot sees.                                                        *)

LEMMA MinOfTwo ==
  ASSUME NEW a \in Int, NEW b \in Int
  PROVE  Min({a, b}) = IF a <= b THEN a ELSE b
BY DEF Min

LEMMA ConcatFacts ==
  ASSUME NEW T, NEW s \in Seq(T), NEW t \in Seq(T)
  PROVE  /\ s \o t \in Seq(T) /\ ToSet(s \o t) = ToSet(s) \cup ToSet(t)
         /\ IsInjective(s) /\ IsInjective(t) /\ ToSet(s) \cap ToSet(t) = {} => IsInjective(s \o t)
<1>1. /\ Len(s) \in Nat /\ DOMAIN s = 1 .. Len(s) /\ Len(t) \in Nat /\ DOMAIN t = 1 .. Len(t)
  BY LenProperties
<1>2. /\ s \o t \in Seq(T) /\ Len(s \o t) = Len(s) + Len(t)
      /\ \A i \in 1 .. Len(s) + Len(t) : (s \o t)[i] = IF i <= Len(s) THEN s[i] ELSE t[i - Len(s)]
  BY ConcatProperties
<1>3. DOMAIN (s \o t) = 1 .. Len(s) + Len(t)
  BY <1>2, LenProperties
<1> DEFINE m == Len(s)
           n == Len(t)
           st == s \o t
<1>4. m \in Nat /\ n \in Nat /\ DOMAIN s = 1 .. m /\ DOMAIN t = 1 .. n /\ DOMAIN st = 1 .. m + n
  BY <1>1, <1>3
<1>5. \A i \in 1 .. m + n : st[i] = IF i <= m THEN s[i] ELSE t[i - m]
  BY <1>2
<1> HIDE DEF m, n, st
<1>6. \A i \in 1 .. m : i \in 1 .. m + n /\ st[i] = s[i]
  BY <1>4, <1>5
<1>7. \A i \in 1 .. n : i + m \in 1 .. m + n /\ st[i + m] = t[i]
  BY <1>4, <1>5
<1>8. \A i \in 1 .. m + n : \/ i \in 1 .. m /\ st[i] = s[i]
                            \/ i - m \in 1 .. n /\ st[i] = t[i - m] /\ i > m
  BY <1>4, <1>5
<1>9. ToSet(st) = ToSet(s) \cup ToSet(t)
  <2>1. ToSet(st) \subseteq ToSet(s) \cup ToSet(t)
    BY <1>4, <1>8 DEF ToSet
  <2>2. ToSet(s) \subseteq ToSet(st)
    BY <1>4, <1>6 DEF ToSet
  <2>3. ToSet(t) \subseteq ToSet(st)
    BY <1>4, <1>7 DEF ToSet
  <2>4. QED
    BY <2>1, <2>2, <2>3
<1>10. ASSUME IsInjective(s), IsInjective(t), ToSet(s) \cap ToSet(t) = {}
       PROVE  IsInjective(st)
  <2> SUFFICES ASSUME NEW a \in 1 .. m + n, NEW b \in 1 .. m + n, st[a] = st[b] PROVE a = b
    BY <1>4 DEF IsInjective
  <2>1. \A i \in 1 .. m, j \in 1 .. n : s[i] # t[j]
    BY <1>4, <1>10 DEF ToSet
  <2>2. CASE a \in 1 .. m /\ b \in 1 .. m
    BY <1>4, <1>6, <1>10, <2>2 DEF IsInjective
  <2>3. CASE a - m \in 1 .. n /\ b - m \in 1 .. n /\ st[a] = t[a - m] /\ st[b] = t[b - m]
    <3>1. a - m = b - m
      BY <1>4, <1>10, <2>3 DEF IsInjective
    <3>2. QED
      BY <1>4, <3>1
  <2>4. QED
    BY <1>8, <2>1, <2>2, <2>3
<1>11. QED
  BY <1>2, <1>9, <1>10 DEF st

\* Everything is stored once.
LEMMA StoredFacts ==
  /\ IsInjective(Stored) /\ ToSet(Stored) = Thing
  /\ IsFiniteSet(DOMAIN Stored) /\ DOMAIN Stored \subseteq Nat
  /\ \A i \in DOMAIN Stored : Stored[i] \in Thing
<1>1. /\ Entities \in Seq(Thing) /\ IsInjective(Entities) /\ ToSet(Entities) = Body
  <2>1. Entities \in Seq(Body) /\ IsInjective(Entities)
        /\ \A c \in Body : \E i \in 1 .. Len(Entities) : Entities[i] = c
    BY PhysicsAssumption, PerceptionAssumption DEF PhysicsAssumption, PerceptionAssumption
  <2>2. DOMAIN Entities = 1 .. Len(Entities) /\ \A i \in 1 .. Len(Entities) : Entities[i] \in Body
    BY <2>1, LenProperties, ElementOfSeq
  <2>3. Entities \in Seq(Thing)
    BY <2>1, SeqMonotonic DEF Thing
  <2>4. QED
    BY <2>1, <2>2, <2>3 DEF ToSet
<1>2. /\ Obstacles \in Seq(Thing) /\ IsInjective(Obstacles) /\ ToSet(Obstacles) = Rock
  <2>1. Obstacles \in Seq(Rock) /\ IsInjective(Obstacles) /\ Rock \subseteq ToSet(Obstacles)
    BY PerceptionAssumption DEF PerceptionAssumption
  <2>2. DOMAIN Obstacles = 1 .. Len(Obstacles) /\ \A i \in 1 .. Len(Obstacles) : Obstacles[i] \in Rock
    BY <2>1, LenProperties, ElementOfSeq
  <2>3. Obstacles \in Seq(Thing)
    BY <2>1, SeqMonotonic DEF Thing
  <2>4. QED
    BY <2>1, <2>2, <2>3 DEF ToSet
<1>3. ToSet(Entities) \cap ToSet(Obstacles) = {}
  BY <1>1, <1>2, PhysicsAssumption DEF PhysicsAssumption
<1>4. /\ Stored \in Seq(Thing) /\ IsInjective(Stored) /\ ToSet(Stored) = Thing
  BY <1>1, <1>2, <1>3, ConcatFacts DEF Stored, Thing
<1>5. Len(Stored) \in Nat /\ DOMAIN Stored = 1 .. Len(Stored)
      /\ \A i \in 1 .. Len(Stored) : Stored[i] \in Thing
  BY <1>4, LenProperties, ElementOfSeq
<1>6. IsFiniteSet(1 .. Len(Stored))
  BY <1>5, FS_Interval
<1>7. QED
  BY <1>4, <1>5, <1>6

\* Distance and then place: a strict order in which any two candidates stand.
LEMMA PrecedesFacts ==
  ASSUME TypeOK, NEW t \in Tank
  PROVE  /\ IsFiniteSet(Candidates(t)) /\ Cardinality(Candidates(t)) \in Nat
         /\ Candidates(t) \subseteq DOMAIN Stored
         /\ \A i \in Candidates(t) : ~ Precedes(t, i, i)
         /\ \A i, j \in Candidates(t) : i = j \/ Precedes(t, i, j) \/ Precedes(t, j, i)
         /\ \A i, j, k \in Candidates(t) :
               Precedes(t, i, j) /\ Precedes(t, j, k) => Precedes(t, i, k)
<1>1. Candidates(t) \subseteq DOMAIN Stored /\ IsFiniteSet(Candidates(t))
      /\ Cardinality(Candidates(t)) \in Nat
  <2>1. Candidates(t) \in SUBSET DOMAIN Stored
    BY DEF Candidates
  <2>2. QED
    BY <2>1, StoredFacts, FS_Subset, FS_CardinalityType
<1>2. \A i \in Candidates(t) : i \in Nat /\ D2(t, Stored[i]) \in Nat
  <2> SUFFICES ASSUME NEW i \in Candidates(t) PROVE i \in Nat /\ D2(t, Stored[i]) \in Nat
    OBVIOUS
  <2>1. i \in Nat /\ Stored[i] \in Thing /\ t \in Thing
    BY <1>1, StoredFacts DEF Tank, Thing
  <2>2. at[t] \in Vector2 /\ at[Stored[i]] \in Vector2
    BY <2>1 DEF TypeOK
  <2>3. QED
    BY <2>1, <2>2, DistanceType DEF D2
<1>3. QED
  BY <1>1, <1>2 DEF Precedes

\* Who comes before a candidate, and the candidate that k - 1 others come before.
Ahead(t, i) == {j \in Candidates(t) : Precedes(t, j, i)}
Place(t, k) == CHOOSE i \in Candidates(t) : Cardinality(Ahead(t, i)) = k - 1

LEMMA AheadFacts ==
  ASSUME TypeOK, NEW t \in Tank
  PROVE  /\ \A i \in Candidates(t) : Cardinality(Ahead(t, i)) \in 0 .. Cardinality(Candidates(t)) - 1
         /\ \A i, j \in Candidates(t) :
               Precedes(t, i, j) => Cardinality(Ahead(t, i)) < Cardinality(Ahead(t, j))
<1> DEFINE C == Candidates(t)
<1>1. IsFiniteSet(C) /\ Cardinality(C) \in Nat
  BY PrecedesFacts
<1>2. ASSUME NEW i \in C
      PROVE  /\ IsFiniteSet(Ahead(t, i)) /\ Cardinality(Ahead(t, i)) \in Nat
             /\ Cardinality(Ahead(t, i)) < Cardinality(C)
  <2>1. Ahead(t, i) \in SUBSET C /\ i \notin Ahead(t, i)
    BY PrecedesFacts DEF Ahead
  <2>2. Ahead(t, i) # C
    BY <2>1
  <2> HIDE DEF C
  <2>3. /\ IsFiniteSet(Ahead(t, i)) /\ Cardinality(Ahead(t, i)) <= Cardinality(C)
        /\ Cardinality(Ahead(t, i)) # Cardinality(C)
    BY <1>1, <2>1, <2>2, FS_Subset
  <2>4. QED
    BY <1>1, <2>3, FS_CardinalityType
<1>3. ASSUME NEW i \in C, NEW j \in C, Precedes(t, i, j)
      PROVE  Cardinality(Ahead(t, i)) < Cardinality(Ahead(t, j))
  <2>1. Ahead(t, i) \in SUBSET Ahead(t, j) /\ i \in Ahead(t, j) /\ i \notin Ahead(t, i)
    BY <1>3, PrecedesFacts DEF Ahead
  <2>2. Cardinality(Ahead(t, i)) <= Cardinality(Ahead(t, j))
        /\ Cardinality(Ahead(t, i)) # Cardinality(Ahead(t, j))
    BY <1>2, <2>1, FS_Subset
  <2>3. QED
    BY <1>2, <2>2
<1>4. QED
  BY <1>1, <1>2, <1>3

\* There is exactly one candidate for each place.
LEMMA PlaceFacts ==
  ASSUME TypeOK, NEW t \in Tank, NEW k \in 1 .. Cardinality(Candidates(t))
  PROVE  Place(t, k) \in Candidates(t) /\ Cardinality(Ahead(t, Place(t, k))) = k - 1
<1> DEFINE C == Candidates(t)
           n == Cardinality(C)
           rank == [i \in C |-> Cardinality(Ahead(t, i))]
<1>1. IsFiniteSet(C) /\ n \in Nat
  BY PrecedesFacts
<1>2. rank \in [C -> 0 .. n - 1]
  BY AheadFacts
<1>3. ASSUME NEW i \in C, NEW j \in C, rank[i] = rank[j]
      PROVE  i = j
  <2>1. ~ (rank[i] < rank[j]) /\ ~ (rank[j] < rank[i])
    <3>1. rank[i] \in Int
      BY <1>1, <1>2
    <3> HIDE DEF rank
    <3>2. QED
      BY <1>3, <3>1
  <2>2. QED
    BY <2>1, AheadFacts, PrecedesFacts
<1>4. k \in 1 .. n /\ \A i \in C : rank[i] = Cardinality(Ahead(t, i))
  OBVIOUS
<1> HIDE DEF C, n, rank
<1>5. rank \in Injection(C, 0 .. n - 1)
  BY <1>2, <1>3 DEF Injection, IsInjective
<1>6. IsFiniteSet(0 .. n - 1) /\ Cardinality(0 .. n - 1) = n
  BY <1>1, FS_Interval
<1>7. rank \in Surjection(C, 0 .. n - 1)
  BY <1>5, <1>6, FS_Injection DEF n
<1>8. k - 1 \in 0 .. n - 1
  BY <1>1, <1>4
<1>9. \E i \in C : rank[i] = k - 1
  BY <1>7, <1>8 DEF Surjection
<1>10. QED
  BY <1>4, <1>9 DEF Place, C

\* The slots: as many as there are and as there is something for.
LEMMA SlotsFacts ==
  ASSUME TypeOK, NEW t \in Tank
  PROVE  LET m == Min({NumSlots, Cardinality(Candidates(t))})
         IN  /\ m \in Nat /\ m <= NumSlots /\ m <= Cardinality(Candidates(t))
             /\ Slots(t) = [k \in 1 .. m |-> Stored[Place(t, k)]]
<1>1. NumSlots \in Nat
  BY PerceptionAssumption DEF PerceptionAssumption
<1>2. Cardinality(Candidates(t)) \in Nat
  BY PrecedesFacts
<1>3. QED
  BY <1>1, <1>2, MinOfTwo DEF Slots, Place, Ahead

\* A candidate has a slot if fewer come before it than there are slots.
LEMMA ShownFacts ==
  ASSUME TypeOK, NEW t \in Tank
  PROVE  LET slots == Slots(t)
             m == Min({NumSlots, Cardinality(Candidates(t))})
         IN  /\ IsInjective(slots) /\ DOMAIN slots = 1 .. m /\ Len(slots) = m
             /\ ToSet(slots) \subseteq {Stored[i] : i \in Candidates(t)}
             /\ \A i \in Candidates(t) : Stored[i] \in ToSet(slots) <=> Cardinality(Ahead(t, i)) < m
<1> DEFINE C == Candidates(t)
           n == Cardinality(C)
           m == Min({NumSlots, n})
           slots == Slots(t)
<1>1. /\ m \in Nat /\ n \in Nat /\ m <= n /\ slots = [k \in 1 .. m |-> Stored[Place(t, k)]]
  BY SlotsFacts, PrecedesFacts
<1>2. ASSUME NEW k \in 1 .. m
      PROVE  Place(t, k) \in C /\ Cardinality(Ahead(t, Place(t, k))) = k - 1
  <2>1. k \in 1 .. n
    BY <1>1
  <2>2. QED
    BY <2>1, PlaceFacts
<1>3. \A i, j \in C : Stored[i] = Stored[j] => i = j
  BY StoredFacts, PrecedesFacts DEF IsInjective
<1>4. \A i, j \in C : Cardinality(Ahead(t, i)) = Cardinality(Ahead(t, j)) => i = j
  <2> SUFFICES ASSUME NEW i \in C, NEW j \in C, Cardinality(Ahead(t, i)) = Cardinality(Ahead(t, j))
               PROVE  i = j
    OBVIOUS
  <2>1. Cardinality(Ahead(t, i)) \in Int /\ Cardinality(Ahead(t, j)) \in Int
    BY AheadFacts, <1>1
  <2>2. ~ Precedes(t, i, j) /\ ~ Precedes(t, j, i)
    BY <2>1, AheadFacts
  <2>3. QED
    BY <2>2, PrecedesFacts
<1>5. \A i \in C : Cardinality(Ahead(t, i)) \in Nat
  BY <1>1, AheadFacts
<1> HIDE DEF C, m, n, slots
<1>6. DOMAIN slots = 1 .. m /\ Len(slots) = m
  BY <1>1
<1>7. IsInjective(slots)
  <2> SUFFICES ASSUME NEW a \in 1 .. m, NEW b \in 1 .. m, slots[a] = slots[b] PROVE a = b
    BY <1>6 DEF IsInjective
  <2>1. Place(t, a) = Place(t, b)
    BY <1>1, <1>2, <1>3
  <2>2. a - 1 = b - 1
    BY <1>2, <2>1
  <2>3. QED
    BY <1>1, <2>2
<1>8. ToSet(slots) = {Stored[Place(t, k)] : k \in 1 .. m}
  BY <1>1 DEF ToSet
<1>9. ToSet(slots) \subseteq {Stored[i] : i \in C}
  BY <1>2, <1>8
<1>10. ASSUME NEW i \in C
       PROVE  Stored[i] \in ToSet(slots) <=> Cardinality(Ahead(t, i)) < m
  <2>1. ASSUME Stored[i] \in ToSet(slots)
        PROVE  Cardinality(Ahead(t, i)) < m
    <3>1. PICK k \in 1 .. m : Stored[i] = Stored[Place(t, k)]
      BY <1>8, <2>1
    <3>2. i = Place(t, k)
      BY <1>2, <1>3, <3>1
    <3>3. Cardinality(Ahead(t, i)) = k - 1
      BY <1>2, <3>2
    <3>4. QED
      BY <1>1, <3>3
  <2>2. ASSUME Cardinality(Ahead(t, i)) < m
        PROVE  Stored[i] \in ToSet(slots)
    <3> DEFINE k == Cardinality(Ahead(t, i)) + 1
    <3>1. k \in 1 .. m /\ k - 1 = Cardinality(Ahead(t, i))
      BY <1>1, <1>5, <2>2
    <3> HIDE DEF k
    <3>2. Place(t, k) = i
      BY <1>2, <1>4, <3>1
    <3>3. QED
      BY <1>8, <3>1, <3>2
  <2>3. QED
    BY <2>1, <2>2
<1>11. QED
  BY <1>6, <1>7, <1>9, <1>10 DEF C, m, n, slots

\* What is in range, other than t, has a place among the candidates and only there.
LEMMA InViewFacts ==
  ASSUME TypeOK, NEW t \in Tank
  PROVE  LET inView == {c \in Rock : InRange(t, c)} \cup (VisibleEntities(t) \ {t})
         IN  /\ inView = {Stored[i] : i \in Candidates(t)}
             /\ \A j \in DOMAIN Stored : Stored[j] \in inView => j \in Candidates(t)
             /\ Cardinality(inView) = Cardinality(Candidates(t))
<1> DEFINE inView == {c \in Rock : InRange(t, c)} \cup (VisibleEntities(t) \ {t})
           C == Candidates(t)
           what == [i \in C |-> Stored[i]]
<1>1. t \in Body /\ t \notin Rock
  BY PhysicsAssumption DEF PhysicsAssumption, Tank
<1>2. inView = {c \in Thing : c # t /\ InRange(t, c)}
  BY <1>1 DEF VisibleEntities, Thing
<1>3. \A j \in DOMAIN Stored : Stored[j] \in inView <=> j \in C
  BY <1>2, StoredFacts DEF Candidates
<1>4. inView = {Stored[i] : i \in C}
  BY <1>2, <1>3, StoredFacts DEF Candidates, ToSet
<1>5. what \in Bijection(C, inView)
  <2>1. what \in [C -> inView] /\ \A c \in inView : \E i \in C : what[i] = c
    BY <1>4
  <2>2. IsInjective(what)
    BY StoredFacts DEF IsInjective, Candidates
  <2>3. QED
    BY <2>1, <2>2 DEF Bijection, Injection, Surjection
<1>6. Cardinality(inView) = Cardinality(C)
  <2>1. IsFiniteSet(C)
    BY PrecedesFacts
  <2> HIDE DEF C, inView, what
  <2>2. QED
    BY <1>5, <2>1, FS_Bijection DEF ExistsBijection
<1>7. QED
  BY <1>3, <1>4, <1>6

LEMMA NearestFacts == TypeOK => SlotsNearest
<1> SUFFICES ASSUME TypeOK, NEW t \in Tank
             PROVE  LET slots == Slots(t)
                        shown == ToSet(slots)
                        inView == {c \in Rock : InRange(t, c)} \cup (VisibleEntities(t) \ {t})
                    IN  /\ IsInjective(slots) /\ shown \subseteq inView
                        /\ Len(slots) = Min({NumSlots, Cardinality(inView)})
                        /\ \A i, j \in DOMAIN Stored :
                             Stored[i] \in shown /\ Stored[j] \in inView \ shown =>
                               \/ D2(t, Stored[i]) < D2(t, Stored[j])
                               \/ D2(t, Stored[i]) = D2(t, Stored[j]) /\ i < j
  BY DEF SlotsNearest
<1> DEFINE slots == Slots(t)
           inView == {c \in Rock : InRange(t, c)} \cup (VisibleEntities(t) \ {t})
           m == Min({NumSlots, Cardinality(Candidates(t))})
<1>1. /\ inView = {Stored[i] : i \in Candidates(t)}
      /\ \A j \in DOMAIN Stored : Stored[j] \in inView => j \in Candidates(t)
      /\ Cardinality(inView) = Cardinality(Candidates(t))
  BY InViewFacts
<1>2. /\ IsInjective(slots) /\ Len(slots) = m
      /\ ToSet(slots) \subseteq {Stored[i] : i \in Candidates(t)}
      /\ \A i \in Candidates(t) : Stored[i] \in ToSet(slots) <=> Cardinality(Ahead(t, i)) < m
  BY ShownFacts
<1>3. m \in Nat
  BY SlotsFacts
<1> HIDE DEF inView, slots, m
<1>4. ASSUME NEW i \in DOMAIN Stored, NEW j \in DOMAIN Stored,
             Stored[i] \in ToSet(slots), Stored[j] \in inView \ ToSet(slots)
      PROVE  Precedes(t, i, j)
  <2>1. i \in Candidates(t) /\ j \in Candidates(t) /\ i # j
    BY <1>1, <1>2, <1>4
  <2>2. Cardinality(Ahead(t, i)) < m /\ ~ (Cardinality(Ahead(t, j)) < m)
    BY <1>2, <1>4, <2>1
  <2>3. Cardinality(Ahead(t, i)) \in Int /\ Cardinality(Ahead(t, j)) \in Int
    BY <2>1, AheadFacts
  <2>4. ~ (Cardinality(Ahead(t, j)) < Cardinality(Ahead(t, i)))
    BY <1>3, <2>2, <2>3
  <2>5. ~ Precedes(t, j, i)
    BY <2>1, <2>4, AheadFacts
  <2>6. QED
    BY <2>1, <2>5, PrecedesFacts
<1>5. QED
  BY <1>1, <1>2, <1>4 DEF inView, slots, m, Precedes

\* Slots are filled by distance.
LEMMA SlotsAscend ==
  ASSUME TypeOK, NEW t \in Tank, NEW a \in DOMAIN Slots(t), NEW b \in DOMAIN Slots(t), a <= b
  PROVE  D2(t, Slots(t)[a]) <= D2(t, Slots(t)[b])
<1> DEFINE m == Min({NumSlots, Cardinality(Candidates(t))})
           i == Place(t, a)
           j == Place(t, b)
<1>1. /\ m \in Nat /\ m <= Cardinality(Candidates(t)) /\ Cardinality(Candidates(t)) \in Nat
      /\ Slots(t) = [k \in 1 .. m |-> Stored[Place(t, k)]]
  BY SlotsFacts, PrecedesFacts
<1> HIDE DEF m
<1>2. a \in 1 .. m /\ b \in 1 .. m /\ Slots(t)[a] = Stored[i] /\ Slots(t)[b] = Stored[j]
  BY <1>1
<1>3. /\ i \in Candidates(t) /\ Cardinality(Ahead(t, i)) = a - 1
      /\ j \in Candidates(t) /\ Cardinality(Ahead(t, j)) = b - 1
  BY <1>1, <1>2, PlaceFacts
<1> HIDE DEF i, j
<1>4. ~ (Cardinality(Ahead(t, j)) < Cardinality(Ahead(t, i)))
  BY <1>2, <1>3
<1>5. i = j \/ Precedes(t, i, j)
  BY <1>3, <1>4, AheadFacts, PrecedesFacts
<1>6. D2(t, Stored[i]) \in Nat /\ D2(t, Stored[j]) \in Nat
  <2>1. /\ i \in DOMAIN Stored /\ j \in DOMAIN Stored /\ t \in Thing
    BY <1>3, PrecedesFacts DEF Tank, Thing
  <2>2. at[t] \in Vector2 /\ at[Stored[i]] \in Vector2 /\ at[Stored[j]] \in Vector2
    BY <2>1, StoredFacts DEF TypeOK
  <2>3. QED
    BY <2>2, DistanceType DEF D2
<1>7. QED
  BY <1>2, <1>5, <1>6 DEF Precedes

\* The first slot of a kind.
LEMMA FirstOfFacts ==
  ASSUME NEW slots, Len(slots) \in Nat, NEW kind
  PROVE  LET k == FirstOf(slots, kind)
         IN  /\ k = 0 => \A i \in 1 .. Len(slots) : Kind[slots[i]] # kind
             /\ k # 0 => /\ k \in 1 .. Len(slots) /\ Kind[slots[k]] = kind
                         /\ \A i \in 1 .. Len(slots) : Kind[slots[i]] = kind => k <= i
<1> DEFINE I == {i \in 1 .. Len(slots) : Kind[slots[i]] = kind}
<1>1. FirstOf(slots, kind) = IF I # {} THEN Min(I) ELSE 0
  BY DEF FirstOf, SelectInSeq
<1>2. I \in SUBSET Nat /\ 0 \notin I
  OBVIOUS
<1> HIDE DEF I
<1>3. I # {} => Min(I) \in I /\ \A i \in I : Min(I) <= i
  BY <1>2, LeastNumber DEF Min
<1>4. CASE I = {}
  BY <1>1, <1>4 DEF I
<1>5. CASE I # {}
  <2>1. /\ FirstOf(slots, kind) \in I /\ FirstOf(slots, kind) # 0
        /\ \A i \in I : FirstOf(slots, kind) <= i
    BY <1>1, <1>2, <1>3, <1>5
  <2>2. QED
    BY <2>1 DEF I
<1>6. QED
  BY <1>4, <1>5

\* What has a slot is no farther than what is in view without one.
LEMMA ShownNearer ==
  ASSUME TypeOK, BetweenTicks, NEW t \in Tank, NEW a \in ToSet(Slots(t)),
         NEW c \in VisibleEntities(t) \ {t}, c \notin ToSet(Slots(t))
  PROVE  D2(t, a) <= D2(t, c)
<1> DEFINE inView == {e \in Rock : InRange(t, e)} \cup (VisibleEntities(t) \ {t})
<1>1. /\ ToSet(Slots(t)) \subseteq inView /\ c \in inView \ ToSet(Slots(t))
      /\ \A i, j \in DOMAIN Stored :
           Stored[i] \in ToSet(Slots(t)) /\ Stored[j] \in inView \ ToSet(Slots(t)) =>
             D2(t, Stored[i]) < D2(t, Stored[j]) \/ D2(t, Stored[i]) = D2(t, Stored[j])
  BY NearestFacts DEF SlotsNearest
<1>2. a \in Thing /\ c \in Thing
  BY <1>1 DEF VisibleEntities, Thing
<1>3. PICK i \in DOMAIN Stored : Stored[i] = a
  BY <1>2, StoredFacts DEF ToSet
<1>4. PICK j \in DOMAIN Stored : Stored[j] = c
  BY <1>2, StoredFacts DEF ToSet
<1>5. D2(t, a) < D2(t, c) \/ D2(t, a) = D2(t, c)
  <2> HIDE DEF inView
  <2> QED BY <1>1, <1>3, <1>4
<1>6. D2(t, a) \in Nat /\ D2(t, c) \in Nat
  <2>1. t \in Thing
    BY DEF Tank, Thing
  <2>2. at[t] \in Vector2 /\ at[a] \in Vector2 /\ at[c] \in Vector2
    BY <1>2, <2>1 DEF TypeOK
  <2>3. QED
    BY <2>2, DistanceType DEF D2
<1>7. QED
  BY <1>5, <1>6

LEMMA FightsFacts == TypeOK => ScriptedFightsNearest
<1> SUFFICES ASSUME TypeOK, BetweenTicks, NEW t \in Tank
             PROVE  LET slots == Slots(t)
                        k == Target(slots)
                        kinds == {Kind[c] : c \in ToSet(slots)}
                    IN  /\ k = 0 <=> "tank" \notin kinds /\ "food" \notin kinds
                        /\ k # 0 =>
                             /\ Kind[slots[k]] = IF "tank" \in kinds THEN "tank" ELSE "food"
                             /\ \A c \in VisibleEntities(t) \ {t} :
                                  Kind[c] = Kind[slots[k]] => D2(t, slots[k]) <= D2(t, c)
  BY DEF ScriptedFightsNearest
<1> DEFINE slots == Slots(t)
           kinds == {Kind[c] : c \in ToSet(slots)}
           tank == FirstOf(slots, "tank")
           food == FirstOf(slots, "food")
<1>1. Len(slots) \in Nat /\ DOMAIN slots = 1 .. Len(slots)
  BY ShownFacts, SlotsFacts
<1>2. Target(slots) = IF tank # 0 THEN tank ELSE food
  BY DEF Target
<1>3. /\ tank = 0 => \A i \in 1 .. Len(slots) : Kind[slots[i]] # "tank"
      /\ tank # 0 => /\ tank \in 1 .. Len(slots) /\ Kind[slots[tank]] = "tank"
                     /\ \A i \in 1 .. Len(slots) : Kind[slots[i]] = "tank" => tank <= i
      /\ food = 0 => \A i \in 1 .. Len(slots) : Kind[slots[i]] # "food"
      /\ food # 0 => /\ food \in 1 .. Len(slots) /\ Kind[slots[food]] = "food"
                     /\ \A i \in 1 .. Len(slots) : Kind[slots[i]] = "food" => food <= i
  <2> HIDE DEF slots
  <2> QED BY <1>1, FirstOfFacts
<1>4. \A a, b \in 1 .. Len(slots) : a <= b => D2(t, slots[a]) <= D2(t, slots[b])
  BY <1>1, SlotsAscend
<1>5. \A i \in 1 .. Len(slots) : \A c \in (VisibleEntities(t) \ {t}) \ ToSet(slots) :
         D2(t, slots[i]) <= D2(t, c)
  <2>1. \A i \in 1 .. Len(slots) : slots[i] \in ToSet(slots)
    BY <1>1 DEF ToSet
  <2>2. QED
    BY <2>1, ShownNearer
<1> HIDE DEF slots, tank, food
<1>6. \A kind : kind \in kinds <=> \E i \in 1 .. Len(slots) : Kind[slots[i]] = kind
  BY <1>1 DEF ToSet
<1> HIDE DEF kinds
<1>7. Target(slots) = 0 <=> ("tank" \notin kinds /\ "food" \notin kinds)
  BY <1>2, <1>3, <1>6
<1>8. ASSUME Target(slots) # 0
      PROVE  /\ Target(slots) \in 1 .. Len(slots)
             /\ Kind[slots[Target(slots)]] = IF "tank" \in kinds THEN "tank" ELSE "food"
             /\ \A i \in 1 .. Len(slots) :
                  Kind[slots[i]] = Kind[slots[Target(slots)]] => Target(slots) <= i
  <2>1. CASE tank # 0
    BY <1>2, <1>3, <1>6, <2>1
  <2>2. CASE tank = 0
    BY <1>2, <1>3, <1>6, <1>8, <2>2
  <2>3. QED
    BY <2>1, <2>2
<1>9. ASSUME Target(slots) # 0, NEW c \in VisibleEntities(t) \ {t},
             Kind[c] = Kind[slots[Target(slots)]]
      PROVE  D2(t, slots[Target(slots)]) <= D2(t, c)
  <2>1. CASE c \in ToSet(slots)
    <3>1. PICK i \in 1 .. Len(slots) : slots[i] = c
      BY <1>1, <2>1 DEF ToSet
    <3>2. QED
      BY <1>4, <1>8, <1>9, <3>1
  <2>2. CASE c \notin ToSet(slots)
    BY <1>5, <1>8, <1>9, <2>2
  <2>3. QED
    BY <2>1, <2>2
<1>10. QED
  BY <1>7, <1>8, <1>9 DEF slots, kinds

\* For every layout and any two ticks, a bot's slots go to the nearest of what is in
\* range: none is wasted, none holds the bot, and among equals the first stored wins.
THEOREM PerceptionSlotsNearest == Spec => []SlotsNearest
<1>1. TypeOK => SlotsNearest
  BY NearestFacts
<1>2. QED
  BY <1>1, PhysicsTypeOK, PTL

\* Whatever is around it, the scripted bot aims at the nearest tank in view if any tank
\* has a slot, else at the nearest food: its slots leave out nothing nearer of a kind.
THEOREM PerceptionScriptedFightsNearest == Spec => []ScriptedFightsNearest
<1>1. TypeOK => ScriptedFightsNearest
  BY FightsFacts
<1>2. QED
  BY <1>1, PhysicsTypeOK, PTL
=============================================================================
