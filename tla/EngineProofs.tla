---------------------------- MODULE EngineProofs ----------------------------
(***************************************************************************)
(* Proofs about Engine, for any IDs, damages, rates, lifespans and counts. *)
(***************************************************************************)
EXTENDS Engine, FiniteSetTheorems, SequenceTheorems, WellFoundedInduction, TLAPS

LEMMA EngineConstants ==
  ASSUME EngineAssumption
  PROVE  /\ TankId \cap BulletId = {} /\ TankId \cap FoodId = {} /\ BulletId \cap FoodId = {}
         /\ None \notin Id /\ Rock \notin Id
         /\ MaxHealth \in Nat /\ FoodHealth \in Nat
         /\ TankDamage \in Nat /\ BulletDamage \in Nat /\ FoodDamage \in Nat
         /\ RegenRate \in Nat /\ QuickRegenRate \in Nat /\ RegenCooldown \in Nat
         /\ FireCooldown \in Nat /\ Lifespan \in Nat /\ FoodValue \in Nat /\ MaxFood \in Nat
BY DEF EngineAssumption

-----------------------------------------------------------------------------
(* General facts.                                                          *)

\* The least-number principle.
LEMMA LeastNumber ==
  ASSUME NEW S \in SUBSET Nat, S # {}
  PROVE  \E m \in S : \A k \in S : m <= k
<1>1. PICK m \in S : \A k \in S : <<k, m>> \notin OpToRel(<, Nat)
  BY WFMin, NatLessThanWellFounded, Zenon
<1>2. \A k \in S : ~ (k < m)
  BY <1>1, Zenon DEF OpToRel
<1>3. \A k \in S : m <= k
  BY <1>2, SMT
<1>4. QED
  BY <1>3

LEMMA MinOfTwo ==
  ASSUME NEW a \in Int, NEW b \in Int
  PROVE  Min({a, b}) = IF a <= b THEN a ELSE b
BY DEF Min

\* A sequence has finitely many elements, as many as it is long if none comes twice.
LEMMA ElementsFinite ==
  ASSUME NEW T, NEW s \in Seq(T)
  PROVE  /\ ToSet(s) \subseteq T /\ IsFiniteSet(ToSet(s)) /\ Cardinality(ToSet(s)) \in Nat
         /\ IsInjective(s) => Cardinality(ToSet(s)) = Len(s)
<1>1. Len(s) \in Nat /\ DOMAIN s = 1 .. Len(s) /\ s \in [1 .. Len(s) -> T]
  OBVIOUS
<1>2. s \in Surjection(1 .. Len(s), ToSet(s))
  BY <1>1 DEF Surjection, ToSet
<1>3. IsFiniteSet(1 .. Len(s)) /\ Cardinality(1 .. Len(s)) = Len(s)
  BY <1>1, FS_Interval
<1>4. IsFiniteSet(ToSet(s)) /\ (Cardinality(ToSet(s)) = Len(s) <=> s \in Injection(1 .. Len(s), ToSet(s)))
  BY <1>2, <1>3, FS_Surjection
<1>5. IsInjective(s) => s \in Injection(1 .. Len(s), ToSet(s))
  BY <1>2 DEF Injection, Surjection
<1>6. ToSet(s) \subseteq T
  BY <1>1 DEF ToSet
<1>7. QED
  BY <1>4, <1>5, <1>6, FS_CardinalityType

-----------------------------------------------------------------------------
(* Sums over finite sets.                                                  *)

LEMMA SmallestSet ==
  ASSUME NEW F, F # {}, \A S \in F : IsFiniteSet(S)
  PROVE  \E S \in F : \A T \in F : Cardinality(S) <= Cardinality(T)
<1> DEFINE Sizes == {Cardinality(S) : S \in F}
<1>1. \A S \in F : Cardinality(S) \in Nat
  BY FS_CardinalityType
<1>2. Sizes \in SUBSET Nat /\ Sizes # {}
  BY <1>1
<1>3. PICK m \in Sizes : \A k \in Sizes : m <= k
  BY <1>2, LeastNumber
<1>4. QED
  BY <1>3

LEMMA OneLess ==
  ASSUME NEW S, IsFiniteSet(S), NEW x \in S
  PROVE  /\ IsFiniteSet(S \ {x}) /\ Cardinality(S \ {x}) \in Nat /\ Cardinality(S) \in Nat
         /\ ~ (Cardinality(S) <= Cardinality(S \ {x}))
BY FS_RemoveElement, FS_CardinalityType

Some(S) == CHOOSE x \in S : TRUE

Sum(f, S) == SumFunctionOnSet(f, S)

\* The function that a sum is taken from, with the sums of all subsets.
IsSum(sum, f, S) ==
    sum = [T \in SUBSET S |-> IF T = {} THEN 0 ELSE f[Some(T)] + sum[T \ {Some(T)}]]

LEMMA SumChosen ==
  ASSUME NEW f, NEW S
  PROVE  Sum(f, S) = (CHOOSE sum : IsSum(sum, f, S))[S]
BY DEF Sum, IsSum, Some, SumFunctionOnSet, FoldFunctionOnSet, MapThenFoldSet

LEMMA SumUnique ==
  ASSUME NEW f, NEW S, IsFiniteSet(S), NEW g, IsSum(g, f, S), NEW h, IsSum(h, f, S),
         NEW T \in SUBSET S
  PROVE  g[T] = h[T]
<1> DEFINE Bad == {U \in SUBSET S : g[U] # h[U]}
<1>1. SUFFICES ASSUME Bad # {} PROVE FALSE
  OBVIOUS
<1>2. \A U \in SUBSET S : IsFiniteSet(U)
  BY FS_Subset
<1>3. PICK U \in Bad : \A V \in Bad : Cardinality(U) <= Cardinality(V)
  <2> HIDE DEF Bad
  <2>1. \A V \in Bad : IsFiniteSet(V)
    BY <1>2 DEF Bad
  <2>2. QED
    BY <1>1, <2>1, SmallestSet
<1>4. U \in SUBSET S /\ g[U] # h[U]
  OBVIOUS
<1> DEFINE V == U \ {Some(U)}
<1>5. g[U] = IF U = {} THEN 0 ELSE f[Some(U)] + g[V]
  BY <1>4 DEF IsSum
<1>6. h[U] = IF U = {} THEN 0 ELSE f[Some(U)] + h[V]
  BY <1>4 DEF IsSum
<1>7. U # {}
  BY <1>4, <1>5, <1>6
<1>8. Some(U) \in U
  BY <1>7 DEF Some
<1>9. V \in SUBSET S /\ V \notin Bad
  BY <1>2, <1>3, <1>4, <1>8, OneLess
<1>10. QED
  BY <1>4, <1>5, <1>6, <1>9

\* The equation of a sum.
Equation(f, S) == Sum(f, S) = IF S = {} THEN 0 ELSE f[Some(S)] + Sum(f, S \ {Some(S)})

LEMMA SumStep ==
  ASSUME NEW f, NEW S, IsFiniteSet(S), \A T \in SUBSET S : T # S => Equation(f, T)
  PROVE  Equation(f, S)
<1> DEFINE rest == S \ {Some(S)}
           whole == IF S = {} THEN 0 ELSE f[Some(S)] + Sum(f, rest)
           g == [T \in SUBSET S |-> IF T = S THEN whole ELSE Sum(f, T)]
<1>1. ASSUME NEW T \in SUBSET S
      PROVE  g[T] = IF T = {} THEN 0 ELSE f[Some(T)] + g[T \ {Some(T)}]
  <2>1. T # {} => T \ {Some(T)} \in SUBSET S /\ T \ {Some(T)} # S
    BY DEF Some
  <2>2. T # {} => g[T \ {Some(T)}] = Sum(f, T \ {Some(T)})
    BY <2>1
  <2>3. CASE T = S
    BY <2>2, <2>3
  <2>4. CASE T # S
    <3>1. g[T] = Sum(f, T) /\ Equation(f, T)
      BY <2>4
    <3>2. QED
      BY <2>2, <3>1 DEF Equation
  <2>5. QED
    BY <2>3, <2>4
<1>2. g = [T \in SUBSET S |-> g[T]]
  OBVIOUS
<1>3. g[S] = whole /\ (S # {} => g[rest] = Sum(f, rest))
  BY DEF Some
<1> HIDE DEF g
<1>4. IsSum(g, f, S)
  BY <1>1, <1>2 DEF IsSum
<1> DEFINE h == CHOOSE sum : IsSum(sum, f, S)
<1>5. IsSum(h, f, S)
  BY <1>4
<1>6. h[S] = g[S]
  <2> HIDE DEF h
  <2>1. S \in SUBSET S
    OBVIOUS
  <2>2. QED
    BY <1>4, <1>5, <2>1, SumUnique
<1>7. Sum(f, S) = h[S]
  BY SumChosen
<1>8. QED
  BY <1>3, <1>6, <1>7 DEF Equation

LEMMA SumEquation ==
  ASSUME NEW f, NEW S, IsFiniteSet(S)
  PROVE  Equation(f, S)
<1> DEFINE Bad == {T \in SUBSET S : ~ Equation(f, T)}
<1>1. SUFFICES ASSUME Bad # {} PROVE FALSE
  OBVIOUS
<1>2. \A T \in SUBSET S : IsFiniteSet(T)
  BY FS_Subset
<1>3. PICK T \in Bad : \A U \in Bad : Cardinality(T) <= Cardinality(U)
  <2> HIDE DEF Bad
  <2>1. \A U \in Bad : IsFiniteSet(U)
    BY <1>2 DEF Bad
  <2>2. QED
    BY <1>1, <2>1, SmallestSet
<1>4. ASSUME NEW U \in SUBSET T, U # T
      PROVE  Equation(f, U)
  <2>1. IsFiniteSet(T) /\ U \in SUBSET S
    BY <1>2
  <2>2. Cardinality(U) \in Nat /\ Cardinality(T) \in Nat /\ Cardinality(U) <= Cardinality(T)
        /\ Cardinality(U) # Cardinality(T)
    BY <1>2, <1>4, <2>1, FS_Subset, FS_CardinalityType
  <2>3. ~ (Cardinality(T) <= Cardinality(U))
    BY <2>2
  <2>4. QED
    BY <1>3, <2>1, <2>3
<1>5. QED
  BY <1>2, <1>4, SumStep

LEMMA SumEmpty ==
  ASSUME NEW f
  PROVE  Sum(f, {}) = 0
BY SumEquation, FS_EmptySet DEF Equation

\* Sums of naturals are naturals, and any element can be taken out.
LEMMA SumTakenOut ==
  ASSUME NEW S, IsFiniteSet(S), NEW f, \A x \in S : f[x] \in Nat
  PROVE  /\ Sum(f, S) \in Nat
         /\ \A x \in S : Sum(f, S) = f[x] + Sum(f, S \ {x})
<1> DEFINE Fine(T) == /\ Sum(f, T) \in Nat
                      /\ \A x \in T : Sum(f, T) = f[x] + Sum(f, T \ {x})
           Bad == {T \in SUBSET S : ~ Fine(T)}
<1>1. SUFFICES ASSUME Bad # {} PROVE FALSE
  OBVIOUS
<1>2. \A T \in SUBSET S : IsFiniteSet(T)
  BY FS_Subset
<1>3. PICK T \in Bad : \A U \in Bad : Cardinality(T) <= Cardinality(U)
  <2> HIDE DEF Bad
  <2>1. \A U \in Bad : IsFiniteSet(U)
    BY <1>2 DEF Bad
  <2>2. QED
    BY <1>1, <2>1, SmallestSet
<1>4. T \in SUBSET S /\ IsFiniteSet(T) /\ ~ Fine(T)
  BY <1>2
<1>5. \A x \in T : Fine(T \ {x})
  BY <1>2, <1>3, <1>4, OneLess
<1> HIDE DEF Bad
<1>6. T # {}
  BY <1>4, SumEmpty
<1> DEFINE y == Some(T)
<1>7. y \in T
  BY <1>6 DEF Some
<1>8. Sum(f, T) = f[y] + Sum(f, T \ {y})
  BY <1>4, <1>6, SumEquation DEF Equation
<1> HIDE DEF y
<1>9. Sum(f, T) \in Nat
  BY <1>4, <1>5, <1>7, <1>8
<1>10. ASSUME NEW x \in T
       PROVE  Sum(f, T) = f[x] + Sum(f, T \ {x})
  <2>1. CASE x = y
    BY <1>8, <2>1
  <2>2. CASE x # y
    <3> DEFINE both == (T \ {x}) \ {y}
    <3>1. x \in T \ {y} /\ y \in T \ {x} /\ both = (T \ {y}) \ {x}
      BY <1>7, <2>2
    <3>2. Sum(f, T \ {y}) = f[x] + Sum(f, both)
      BY <1>5, <1>7, <3>1
    <3>3. Sum(f, T \ {x}) = f[y] + Sum(f, both)
      BY <1>5, <3>1
    <3>4. Sum(f, both) \in Nat
      <4>1. both \in SUBSET S /\ Cardinality(both) \in Nat /\ ~ (Cardinality(T) <= Cardinality(both))
        <5>1. /\ IsFiniteSet(T \ {x}) /\ Cardinality(T \ {x}) \in Nat /\ Cardinality(T) \in Nat
              /\ ~ (Cardinality(T) <= Cardinality(T \ {x}))
          BY <1>4, OneLess
        <5>2. Cardinality(both) \in Nat /\ ~ (Cardinality(T \ {x}) <= Cardinality(both))
          BY <3>1, <5>1, OneLess
        <5>3. both \in SUBSET S
          BY <1>4
        <5> HIDE DEF both
        <5>4. QED
          BY <5>1, <5>2, <5>3
      <4>2. QED
        BY <1>3, <4>1 DEF Bad
    <3> HIDE DEF both
    <3>5. QED
      BY <1>4, <1>7, <1>8, <3>2, <3>3, <3>4
  <2>3. QED
    BY <2>1, <2>2
<1>11. QED
  BY <1>4, <1>9, <1>10

\* A sum grows with its terms.
LEMMA SumMonotone ==
  ASSUME NEW S, IsFiniteSet(S), NEW f, \A x \in S : f[x] \in Nat, NEW g, \A x \in S : g[x] \in Nat,
         \A x \in S : f[x] <= g[x]
  PROVE  Sum(f, S) <= Sum(g, S)
<1> DEFINE Bad == {T \in SUBSET S : ~ (Sum(f, T) <= Sum(g, T))}
<1>1. SUFFICES ASSUME Bad # {} PROVE FALSE
  OBVIOUS
<1>2. \A T \in SUBSET S : IsFiniteSet(T)
  BY FS_Subset
<1>3. PICK T \in Bad : \A U \in Bad : Cardinality(T) <= Cardinality(U)
  <2> HIDE DEF Bad
  <2>1. \A U \in Bad : IsFiniteSet(U)
    BY <1>2 DEF Bad
  <2>2. QED
    BY <1>1, <2>1, SmallestSet
<1>4. T \in SUBSET S /\ IsFiniteSet(T) /\ ~ (Sum(f, T) <= Sum(g, T))
  BY <1>2
<1>5. PICK x \in T : TRUE
  BY <1>4, SumEmpty
<1>6. Sum(f, T \ {x}) <= Sum(g, T \ {x})
  BY <1>2, <1>3, <1>4, OneLess
<1>7. Sum(f, T) = f[x] + Sum(f, T \ {x}) /\ Sum(g, T) = g[x] + Sum(g, T \ {x})
  BY <1>4, SumTakenOut
<1>8. Sum(f, T \ {x}) \in Nat /\ Sum(g, T \ {x}) \in Nat
  BY <1>2, <1>4, SumTakenOut
<1>9. QED
  BY <1>4, <1>6, <1>7, <1>8

LEMMA Added ==
  ASSUME NEW T, NEW f \in [T -> Nat], NEW t \in T, NEW v \in Nat
  PROVE  [f EXCEPT ![t] = @ + v] \in [T -> Nat]
<1> DEFINE x == f[t] + v
<1>1. x \in Nat
  OBVIOUS
<1> HIDE DEF x
<1>2. [f EXCEPT ![t] = x] \in [T -> Nat]
  BY <1>1
<1>3. QED
  BY <1>2 DEF x

\* What is added to one term is added to the sum, or less if it is not among the terms.
LEMMA SumRaised ==
  ASSUME NEW D, NEW f \in [D -> Nat], NEW S \in SUBSET D, IsFiniteSet(S),
         NEW x \in D, NEW v \in Nat
  PROVE  Sum([f EXCEPT ![x] = @ + v], S) <= Sum(f, S) + v
<1> DEFINE g == [f EXCEPT ![x] = @ + v]
<1>1. g \in [D -> Nat]
  BY Added
<1>2. g[x] = f[x] + v /\ \A y \in D : y # x => g[y] = f[y]
  OBVIOUS
<1> HIDE DEF g
<1>3. Sum(f, S) \in Nat
  BY SumTakenOut
<1>4. CASE x \in S
  <2>1. Sum(g, S) = g[x] + Sum(g, S \ {x}) /\ Sum(f, S) = f[x] + Sum(f, S \ {x})
    BY <1>1, <1>4, SumTakenOut
  <2>2. IsFiniteSet(S \ {x})
    BY FS_RemoveElement
  <2>3. Sum(g, S \ {x}) <= Sum(f, S \ {x})
    BY <1>1, <1>2, <2>2, SumMonotone
  <2>4. Sum(g, S \ {x}) \in Nat /\ Sum(f, S \ {x}) \in Nat
    BY <1>1, <2>2, SumTakenOut
  <2>5. f[x] \in Nat
    OBVIOUS
  <2>6. QED
    BY <1>2, <2>1, <2>3, <2>4, <2>5 DEF g
<1>5. CASE x \notin S
  <2>1. Sum(g, S) <= Sum(f, S)
    BY <1>1, <1>2, <1>5, SumMonotone
  <2>2. Sum(g, S) \in Nat
    BY <1>1, SumTakenOut
  <2>3. QED
    BY <1>3, <2>1, <2>2 DEF g
<1>6. QED
  BY <1>4, <1>5

-----------------------------------------------------------------------------
(* The sweep.                                                              *)

\* The function Sweep is built on, up to the n-th entity.
IsSweep(after, h, n) ==
    after = [k \in 0 .. n |->
               IF k = 0 THEN [health |-> h, kept |-> <<>>, score |-> score, credit |-> credit]
               ELSE Swept(after[k - 1], entities[k])]

LEMMA SweepStep ==
  ASSUME NEW h, NEW n \in Nat, NEW before, IsSweep(before, h, n)
  PROVE  \E after : IsSweep(after, h, n + 1)
<1> DEFINE after == [k \in 0 .. n + 1 |->
                       IF k <= n THEN before[k] ELSE Swept(before[n], entities[n + 1])]
           start == [health |-> h, kept |-> <<>>, score |-> score, credit |-> credit]
<1>1. ASSUME NEW k \in 0 .. n + 1
      PROVE  after[k] = IF k = 0 THEN start ELSE Swept(after[k - 1], entities[k])
  <2>1. CASE k <= n
    <3>1. before[k] = IF k = 0 THEN start ELSE Swept(before[k - 1], entities[k])
      BY <2>1 DEF IsSweep
    <3>2. after[k] = before[k] /\ (k # 0 => after[k - 1] = before[k - 1])
      BY <2>1
    <3>3. QED
      BY <3>1, <3>2
  <2>2. CASE k = n + 1
    <3>1. after[k] = Swept(before[n], entities[n + 1]) /\ after[k - 1] = before[n] /\ k # 0
      BY <2>2
    <3>2. QED
      BY <2>2, <3>1
  <2>3. QED
    BY <2>1, <2>2
<1>2. after = [k \in 0 .. n + 1 |-> after[k]]
  OBVIOUS
<1> HIDE DEF after
<1>3. IsSweep(after, h, n + 1)
  BY <1>1, <1>2 DEF IsSweep
<1>4. QED
  BY <1>3

LEMMA SweepExists ==
  ASSUME NEW h, NEW n \in Nat
  PROVE  \E after : IsSweep(after, h, n)
<1> DEFINE Bad == {m \in Nat : ~ \E after : IsSweep(after, h, m)}
<1>1. SUFFICES ASSUME Bad # {} PROVE FALSE
  OBVIOUS
<1>2. PICK m \in Bad : \A k \in Bad : m <= k
  BY <1>1, LeastNumber
<1>3. CASE m = 0
  <2> DEFINE start == [health |-> h, kept |-> <<>>, score |-> score, credit |-> credit]
  <2>1. IsSweep([k \in 0 .. 0 |-> start], h, 0)
    BY DEF IsSweep
  <2>2. QED
    BY <1>2, <1>3, <2>1
<1>4. CASE m # 0
  <2>1. m - 1 \in Nat /\ m - 1 \notin Bad /\ (m - 1) + 1 = m
    BY <1>2, <1>4
  <2>2. PICK before : IsSweep(before, h, m - 1)
    BY <2>1
  <2>3. \E after : IsSweep(after, h, (m - 1) + 1)
    BY <2>1, <2>2, SweepStep
  <2>4. QED
    BY <1>2, <2>1, <2>3
<1>5. QED
  BY <1>3, <1>4

\* The survivors among the first n entities.
Passed(h, n) == {entities[i] : i \in {k \in 1 .. n : h[entities[k]] > 0}}

\* What holds of the sweep after n entities.
SweptWell(sweep, h, n) ==
    /\ sweep \in [health : {h}, kept : Seq(Passed(h, n)), score : [TankId -> Nat],
                  credit : [Id -> TankId \cup {None}]]
    /\ IsInjective(sweep.kept)

LEMMA WorthNat ==
  ASSUME EngineAssumption, NEW scores \in [TankId -> Nat], NEW victim
  PROVE  Worth(victim, scores) \in Nat
BY EngineConstants DEF Worth

LEMMA AppendFacts ==
  ASSUME NEW T, NEW s \in Seq(T), NEW e \in T
  PROVE  /\ Len(s) \in Nat /\ DOMAIN s = 1 .. Len(s)
         /\ Append(s, e) \in Seq(T)
         /\ DOMAIN Append(s, e) = 1 .. Len(s) + 1
         /\ Append(s, e)[Len(s) + 1] = e
         /\ \A j \in 1 .. Len(s) : Append(s, e)[j] = s[j]
         /\ \A j \in 1 .. Len(s) + 1 : j = Len(s) + 1 \/ j \in 1 .. Len(s)
OBVIOUS

LEMMA AppendSet ==
  ASSUME NEW T, NEW s \in Seq(T), NEW e
  PROVE  ToSet(Append(s, e)) = ToSet(s) \cup {e}
<1> DEFINE t == Append(s, e)
           m == Len(s)
           U == T \cup {e}
<1>1. s \in Seq(U) /\ e \in U
  BY SeqMonotonic
<1> HIDE DEF U
<1>2. /\ m \in Nat /\ DOMAIN s = 1 .. m /\ DOMAIN t = 1 .. m + 1 /\ t[m + 1] = e
      /\ \A j \in 1 .. m : t[j] = s[j]
      /\ \A j \in 1 .. m + 1 : j = m + 1 \/ j \in 1 .. m
  BY <1>1, AppendFacts
<1> HIDE DEF t, m
<1>3. m + 1 \in 1 .. m + 1 /\ \A j \in 1 .. m : j \in 1 .. m + 1
  BY <1>2
<1>4. ToSet(t) = ToSet(s) \cup {e}
  BY <1>2, <1>3 DEF ToSet
<1>5. QED
  BY <1>4 DEF t

LEMMA AppendNew ==
  ASSUME NEW T, NEW s \in Seq(T), NEW e \in T, IsInjective(s), \A j \in DOMAIN s : s[j] # e
  PROVE  IsInjective(Append(s, e))
BY AppendFacts DEF IsInjective

LEMMA SweptStep ==
  ASSUME EngineAssumption, TypeOK, NEW h, NEW n \in Nat, n + 1 <= Len(entities),
         NEW sweep, SweptWell(sweep, h, n)
  PROVE  SweptWell(Swept(sweep, entities[n + 1]), h, n + 1)
<1> DEFINE e == entities[n + 1]
           next == Swept(sweep, e)
<1>1. /\ e \in Id /\ n + 1 \in DOMAIN entities /\ DOMAIN entities = 1 .. Len(entities)
      /\ Len(entities) \in Nat
  <2>1. entities \in Seq(Id)
    BY DEF TypeOK
  <2>2. Len(entities) \in Nat /\ DOMAIN entities = 1 .. Len(entities)
    BY <2>1
  <2>3. n + 1 \in DOMAIN entities
    BY <2>2
  <2>4. QED
    BY <2>1, <2>2, <2>3
<1>2. n + 1 \in 1 .. n + 1 /\ \A i \in 1 .. n : i \in 1 .. n + 1 /\ i \in DOMAIN entities /\ i # n + 1
  BY <1>1
<1>3. sweep.kept \in Seq(Passed(h, n)) /\ sweep.health = h /\ IsInjective(sweep.kept)
       /\ sweep.score \in [TankId -> Nat] /\ sweep.credit \in [Id -> TankId \cup {None}]
       /\ sweep = [health |-> h, kept |-> sweep.kept, score |-> sweep.score, credit |-> sweep.credit]
  BY DEF SweptWell
<1>4. Passed(h, n) \subseteq Passed(h, n + 1)
  BY <1>2 DEF Passed
<1>5. sweep.kept \in Seq(Passed(h, n + 1))
  BY <1>3, <1>4, SeqMonotonic
<1>6. CASE h[e] > 0
  <2>1. next = [sweep EXCEPT !.kept = Append(sweep.kept, e)]
    BY <1>3, <1>6 DEF Swept
  <2>2. e \in Passed(h, n + 1)
    BY <1>2, <1>6 DEF Passed
  <2>3. e \notin Passed(h, n)
    BY <1>1, <1>2 DEF Passed, TypeOK, IsInjective
  <2>4. Append(sweep.kept, e) \in Seq(Passed(h, n + 1))
    BY <1>5, <2>2, AppendFacts
  <2>5. \A j \in DOMAIN sweep.kept : sweep.kept[j] # e
    BY <1>3, <2>3
  <2>6. IsInjective(Append(sweep.kept, e))
    BY <1>3, <1>5, <2>2, <2>5, AppendNew
  <2> DEFINE longer == Append(sweep.kept, e)
  <2> HIDE DEF next, longer
  <2>7. next = [health |-> h, kept |-> longer, score |-> sweep.score, credit |-> sweep.credit]
    BY <1>3, <2>1 DEF longer
  <2>8. longer \in Seq(Passed(h, n + 1)) /\ IsInjective(longer)
    BY <2>4, <2>6 DEF longer
  <2>9. SweptWell(next, h, n + 1)
    BY <1>3, <2>7, <2>8 DEF SweptWell
  <2>10. QED
    BY <2>9 DEF next
<1>7. CASE ~ (h[e] > 0)
  <2>1. PICK killer : killer = attacker[e]
    OBVIOUS
  <2>2. next = sweep
        \/ /\ killer \in TankId
           /\ next = [sweep EXCEPT !.score[killer] = @ + Worth(e, sweep.score), !.credit[e] = killer]
    BY <1>3, <1>7, <2>1 DEF Swept
  <2> HIDE DEF next
  <2>3. CASE next = sweep
    BY <1>3, <1>5, <2>3 DEF SweptWell, next
  <2>4. CASE /\ killer \in TankId
             /\ next = [sweep EXCEPT !.score[killer] = @ + Worth(e, sweep.score), !.credit[e] = killer]
    <3> DEFINE scores == [sweep.score EXCEPT ![killer] = @ + Worth(e, sweep.score)]
               credits == [sweep.credit EXCEPT ![e] = killer]
    <3>1. scores \in [TankId -> Nat]
      <4>1. PICK old : old = sweep.score
        OBVIOUS
      <4>2. old \in [TankId -> Nat]
        BY <1>3, <4>1
      <4>3. PICK worth : worth = Worth(e, old)
        OBVIOUS
      <4>4. worth \in Nat
        BY <4>2, <4>3, WorthNat
      <4>5. [old EXCEPT ![killer] = @ + worth] \in [TankId -> Nat]
        BY <2>4, <4>2, <4>4, Added
      <4>6. QED
        BY <4>1, <4>3, <4>5
    <3>2. credits \in [Id -> TankId \cup {None}]
      BY <1>3, <2>4
    <3>3. next = [sweep EXCEPT !.score = scores, !.credit = credits]
      BY <1>3, <2>4
    <3> HIDE DEF scores, credits
    <3>4. next = [health |-> h, kept |-> sweep.kept, score |-> scores, credit |-> credits]
      BY <1>3, <3>3
    <3>5. SweptWell(next, h, n + 1)
      BY <1>3, <1>5, <3>1, <3>2, <3>4 DEF SweptWell
    <3>6. QED
      BY <3>5 DEF next
  <2>5. QED
    BY <2>2, <2>3, <2>4
<1>8. QED
  BY <1>6, <1>7

\* The sweep comes to one entity after the other.
LEMMA SweepRuns ==
  ASSUME EngineAssumption, TypeOK, NEW h
  PROVE  \E after : /\ IsSweep(after, h, Len(entities)) /\ Sweep(h) = after[Len(entities)]
                    /\ \A k \in 0 .. Len(entities) : SweptWell(after[k], h, k)
<1>1. Len(entities) \in Nat
  BY DEF TypeOK
<1> DEFINE after == CHOOSE f : IsSweep(f, h, Len(entities))
<1>2. Sweep(h) = after[Len(entities)]
  BY DEF Sweep, IsSweep
<1>3. IsSweep(after, h, Len(entities))
  BY <1>1, SweepExists
<1> HIDE DEF after
<1> DEFINE start == [health |-> h, kept |-> <<>>, score |-> score, credit |-> credit]
<1>4. \A k \in 0 .. Len(entities) :
         after[k] = IF k = 0 THEN start ELSE Swept(after[k - 1], entities[k])
  BY <1>3 DEF IsSweep
<1> DEFINE Bad == {k \in 0 .. Len(entities) : ~ SweptWell(after[k], h, k)}
<1>5. SUFFICES ASSUME Bad # {} PROVE FALSE
  BY <1>2, <1>3
<1>6. Bad \in SUBSET Nat
  BY <1>1
<1>7. PICK m \in Bad : \A k \in Bad : m <= k
  BY <1>5, <1>6, LeastNumber
<1>8. m \in 0 .. Len(entities) /\ ~ SweptWell(after[m], h, m)
  OBVIOUS
<1>9. CASE m = 0
  <2>1. after[0] = start
    BY <1>1, <1>4
  <2>2. start \in [health : {h}, kept : Seq(Passed(h, 0)), score : [TankId -> Nat],
                   credit : [Id -> TankId \cup {None}]]
    BY DEF TypeOK
  <2>3. start.kept = <<>>
    OBVIOUS
  <2>4. SweptWell(start, h, 0)
    BY <2>2, <2>3 DEF SweptWell, IsInjective
  <2>5. QED
    BY <1>7, <1>9, <2>1, <2>4
<1>10. CASE m # 0
  <2>1. /\ m - 1 \in Nat /\ m - 1 \in 0 .. Len(entities) /\ ~ (m <= m - 1)
        /\ (m - 1) + 1 = m /\ m <= Len(entities)
    BY <1>1, <1>8, <1>10
  <2>2. m - 1 \notin Bad
    BY <1>7, <2>1
  <2>3. SweptWell(after[m - 1], h, m - 1)
    BY <2>1, <2>2
  <2>4. SweptWell(Swept(after[m - 1], entities[(m - 1) + 1]), h, (m - 1) + 1)
    BY <2>1, <2>3, SweptStep
  <2>5. after[m] = Swept(after[m - 1], entities[m])
    BY <1>4, <1>7, <1>10
  <2>6. QED
    BY <1>7, <2>1, <2>4, <2>5
<1>11. QED
  BY <1>9, <1>10

LEMMA SweepFacts ==
  ASSUME EngineAssumption, TypeOK, NEW h
  PROVE  SweptWell(Sweep(h), h, Len(entities))
<1>1. Len(entities) \in 0 .. Len(entities)
  BY LenProperties DEF TypeOK
<1>2. QED
  BY <1>1, SweepRuns

-----------------------------------------------------------------------------
(* Who is in play after a step.                                            *)

LEMMA ConcatFacts ==
  ASSUME NEW T, NEW s \in Seq(T), NEW t \in Seq(T)
  PROVE  /\ s \o t \in Seq(T) /\ ToSet(s \o t) = ToSet(s) \cup ToSet(t)
         /\ IsInjective(s) /\ IsInjective(t) /\ ToSet(s) \cap ToSet(t) = {} => IsInjective(s \o t)
<1>1. /\ Len(s) \in Nat /\ DOMAIN s = 1 .. Len(s) /\ Len(t) \in Nat /\ DOMAIN t = 1 .. Len(t)
  BY LenProperties
<1>2. /\ s \o t \in Seq(T) /\ Len(s \o t) = Len(s) + Len(t)
      /\ \A i \in 1 .. Len(s) + Len(t) : (s \o t)[i] = IF i <= Len(s) THEN s[i] ELSE t[i - Len(s)]
  BY ConcatProperties
<1>3. DOMAIN (s \o t) = 1 .. Len(s) + Len(t)
  BY <1>2, LenProperties
<1> DEFINE m == Len(s)
           n == Len(t)
           st == s \o t
<1>4. m \in Nat /\ n \in Nat /\ DOMAIN s = 1 .. m /\ DOMAIN t = 1 .. n /\ DOMAIN st = 1 .. m + n
  BY <1>1, <1>3
<1>5. \A i \in 1 .. m + n : st[i] = IF i <= m THEN s[i] ELSE t[i - m]
  BY <1>2
<1> HIDE DEF m, n, st
<1>6. \A i \in 1 .. m : i \in 1 .. m + n /\ st[i] = s[i]
  BY <1>4, <1>5
<1>7. \A i \in 1 .. n : i + m \in 1 .. m + n /\ st[i + m] = t[i]
  BY <1>4, <1>5
<1>8. \A i \in 1 .. m + n : \/ i \in 1 .. m /\ st[i] = s[i]
                            \/ i - m \in 1 .. n /\ st[i] = t[i - m] /\ i > m
  BY <1>4, <1>5
<1>9. ToSet(st) = ToSet(s) \cup ToSet(t)
  <2>1. ToSet(st) \subseteq ToSet(s) \cup ToSet(t)
    BY <1>4, <1>8 DEF ToSet
  <2>2. ToSet(s) \subseteq ToSet(st)
    BY <1>4, <1>6 DEF ToSet
  <2>3. ToSet(t) \subseteq ToSet(st)
    BY <1>4, <1>7 DEF ToSet
  <2>4. QED
    BY <2>1, <2>2, <2>3
<1>10. ASSUME IsInjective(s), IsInjective(t), ToSet(s) \cap ToSet(t) = {}
       PROVE  IsInjective(st)
  <2> SUFFICES ASSUME NEW a \in 1 .. m + n, NEW b \in 1 .. m + n, st[a] = st[b] PROVE a = b
    BY <1>4 DEF IsInjective
  <2>1. \A i \in 1 .. m, j \in 1 .. n : s[i] # t[j]
    BY <1>4, <1>10 DEF ToSet
  <2>2. CASE a \in 1 .. m /\ b \in 1 .. m
    BY <1>4, <1>6, <1>10, <2>2 DEF IsInjective
  <2>3. CASE a - m \in 1 .. n /\ b - m \in 1 .. n /\ st[a] = t[a - m] /\ st[b] = t[b - m]
    <3>1. a - m = b - m
      BY <1>4, <1>10, <2>3 DEF IsInjective
    <3>2. QED
      BY <1>4, <3>1
  <2>4. QED
    BY <1>8, <2>1, <2>2, <2>3
<1>11. QED
  BY <1>2, <1>9, <1>10 DEF st

LEMMA RemoveAtFacts ==
  ASSUME NEW T, NEW s \in Seq(T), IsInjective(s), NEW i \in DOMAIN s
  PROVE  /\ RemoveAt(s, i) \in Seq(T) /\ IsInjective(RemoveAt(s, i))
         /\ ToSet(RemoveAt(s, i)) = ToSet(s) \ {s[i]}
<1> DEFINE n == Len(s)
           front == SubSeq(s, 1, i - 1)
           back == SubSeq(s, i + 1, n)
<1>1. n \in Nat /\ DOMAIN s = 1 .. n /\ i \in 1 .. n /\ \A j \in 1 .. n : s[j] \in T
  BY LenProperties
<1> HIDE DEF n
<1>2. /\ front \in Seq(T) /\ Len(front) = i - 1 /\ \A j \in 1 .. i - 1 : front[j] = s[j]
  <2>1. 1 \in Int /\ i - 1 \in Int /\ \A j \in 1 .. i - 1 : s[j] \in T
    BY <1>1
  <2>2. /\ front \in Seq(T) /\ Len(front) = IF 1 <= i - 1 THEN (i - 1) - 1 + 1 ELSE 0
        /\ \A j \in 1 .. (i - 1) - 1 + 1 : front[j] = s[1 + j - 1]
    BY <2>1, SubSeqProperties
  <2> HIDE DEF front
  <2>3. QED
    BY <1>1, <2>2
<1>3. /\ back \in Seq(T) /\ Len(back) = n - i /\ \A j \in 1 .. n - i : back[j] = s[j + i]
  <2>1. n \in Int /\ i + 1 \in Int /\ \A j \in i + 1 .. n : s[j] \in T
    BY <1>1
  <2>2. /\ back \in Seq(T) /\ Len(back) = IF i + 1 <= n THEN n - (i + 1) + 1 ELSE 0
        /\ \A j \in 1 .. n - (i + 1) + 1 : back[j] = s[(i + 1) + j - 1]
    BY <2>1, SubSeqProperties
  <2> HIDE DEF back
  <2>3. /\ n - (i + 1) + 1 = n - i /\ (IF i + 1 <= n THEN n - (i + 1) + 1 ELSE 0) = n - i
        /\ \A j \in 1 .. n - i : (i + 1) + j - 1 = j + i
    BY <1>1
  <2>4. QED
    BY <2>2, <2>3
<1>4. RemoveAt(s, i) = front \o back
  BY DEF RemoveAt, n
<1> HIDE DEF front, back
<1>5. DOMAIN front = 1 .. i - 1 /\ DOMAIN back = 1 .. n - i
  BY <1>2, <1>3, LenProperties
<1>6. ToSet(front) = {s[j] : j \in 1 .. i - 1}
  BY <1>2, <1>5 DEF ToSet
<1>7. ToSet(back) = {s[j] : j \in i + 1 .. n}
  <2>1. ASSUME NEW j \in i + 1 .. n
        PROVE  j - i \in 1 .. n - i /\ back[j - i] = s[j]
    <3>1. j - i \in 1 .. n - i /\ (j - i) + i = j
      BY <1>1
    <3>2. back[j - i] = s[(j - i) + i]
      BY <1>3, <3>1
    <3>3. QED
      BY <3>1, <3>2
  <2>2. \A j \in 1 .. n - i : j + i \in i + 1 .. n /\ back[j] = s[j + i]
    BY <1>1, <1>3
  <2>3. QED
    BY <1>5, <2>1, <2>2 DEF ToSet
<1>8. \A a, b \in 1 .. n : s[a] = s[b] => a = b
  BY <1>1 DEF IsInjective
<1>9. /\ \A j \in 1 .. i - 1 : j \in 1 .. n /\ j # i
      /\ \A j \in i + 1 .. n : j \in 1 .. n /\ j # i /\ j \notin 1 .. i - 1
      /\ \A j \in 1 .. n : j = i \/ j \in 1 .. i - 1 \/ j \in i + 1 .. n
  BY <1>1
<1>10. ToSet(front) \cup ToSet(back) = ToSet(s) \ {s[i]}
  <2>1. ToSet(s) = {s[j] : j \in 1 .. n}
    BY <1>1 DEF ToSet
  <2>2. ToSet(s) \ {s[i]} = {s[j] : j \in (1 .. n) \ {i}}
    BY <1>1, <1>8, <2>1
  <2>3. (1 .. n) \ {i} = (1 .. i - 1) \cup (i + 1 .. n)
    BY <1>1, <1>9
  <2>4. QED
    BY <1>6, <1>7, <2>2, <2>3
<1>11. ToSet(front) \cap ToSet(back) = {}
  BY <1>6, <1>7, <1>8, <1>9
<1>12. IsInjective(front)
  BY <1>2, <1>5, <1>8, <1>9 DEF IsInjective
<1>13. IsInjective(back)
  <2>1. \A j \in 1 .. n - i : j + i \in 1 .. n /\ back[j] = s[j + i] /\ j \in Int
    BY <1>1, <1>3
  <2>2. ASSUME NEW a \in 1 .. n - i, NEW b \in 1 .. n - i, back[a] = back[b]
        PROVE  a = b
    <3>1. a + i = b + i
      BY <1>8, <2>1, <2>2
    <3>2. QED
      BY <1>1, <3>1
  <2>3. QED
    BY <1>5, <2>2 DEF IsInjective
<1>14. QED
  BY <1>2, <1>3, <1>4, <1>10, <1>11, <1>12, <1>13, ConcatFacts

-----------------------------------------------------------------------------
(* The invariant.                                                          *)

\* Attackers have been in the game, and nobody's attacker is its own bullet or the
\* tank that fired it; this also of those who are out of play.
OwnersSpared ==
    \A e \in Id :
        /\ attacker[e] \in BulletId => attacker[e] \in spawned /\ owner[attacker[e]] # e
        /\ e \in BulletId /\ owner[e] # None => attacker[e] # owner[e]

Unused == \A e \in Id \ spawned : attacker[e] = None /\ (e \in BulletId => hits[e] = 0)

\* A bullet that has hit something is spent as long as it is in play.
Spent == \A b \in BulletId : hits[b] > 0 /\ b \in InPlay => health[b] <= 0

EInv == TypeOK /\ FoodSteady /\ OwnersSpared /\ Unused /\ Spent

LEMMA InitEInv ==
  ASSUME EngineAssumption, Init
  PROVE  EInv
<1>1. InPlay = {}
  BY DEF Init, InPlay, ToSet
<1>2. TypeOK
  BY <1>1, EngineConstants DEF Init, TypeOK, IsInjective
<1>3. FoodSteady
  BY DEF Init, FoodSteady, Foods
<1>4. OwnersSpared /\ Unused /\ Spent
  BY <1>1, EngineConstants DEF Init, OwnersSpared, Unused, Spent, Id
<1>5. QED
  BY <1>2, <1>3, <1>4 DEF EInv

LEMMA InPlayFacts ==
  ASSUME TypeOK
  PROVE  /\ entities \in Seq(InPlay) /\ entities \in Seq(Id)
         /\ InPlay \subseteq Id /\ IsFiniteSet(InPlay)
<1>1. entities \in Seq(Id)
  BY DEF TypeOK
<1>2. Len(entities) \in Nat /\ DOMAIN entities = 1 .. Len(entities) /\ entities \in [1 .. Len(entities) -> Id]
  BY <1>1, LenProperties
<1>3. entities \in [1 .. Len(entities) -> InPlay]
  BY <1>2 DEF InPlay, ToSet
<1>4. entities \in Seq(InPlay)
  BY <1>2, <1>3, SeqDef, Zenon
<1>5. QED
  BY <1>1, <1>4, ElementsFinite DEF InPlay

-----------------------------------------------------------------------------
(* The parts of a tick.                                                    *)

LEMMA TickedFacts ==
  ASSUME EngineAssumption, TypeOK, NEW off
  PROVE  /\ Ticked(off) \in [Id -> Int]
         /\ \A b \in BulletId \cap InPlay : Ticked(off)[b] > 0 => life[b] > 1 /\ health[b] > 0
<1>1. ASSUME NEW t \in TankId PROVE Regenerated(t) \in Int
  <2>1. health[t] \in Int
    BY DEF TypeOK, Id
  <2> DEFINE rate == RegenRate + IF rested[t] >= RegenCooldown THEN QuickRegenRate ELSE 0
  <2>2. rate \in Int
    BY EngineConstants
  <2> HIDE DEF rate
  <2>3. Min({health[t] + rate, MaxHealth}) \in Int
    BY <2>1, <2>2, EngineConstants, MinOfTwo
  <2>4. QED
    BY <2>1, <2>3 DEF Regenerated, rate
<1>2. ASSUME NEW b \in BulletId
      PROVE  Flown(b) \in Int /\ (Flown(b) > 0 => life[b] > 1 /\ health[b] > 0)
  BY DEF Flown, TypeOK, Id
<1>3. \A e \in Id : health[e] \in Int
  BY DEF TypeOK
<1>4. Ticked(off) \in [Id -> Int]
  BY <1>1, <1>2, <1>3 DEF Ticked
<1>5. ASSUME NEW b \in BulletId \cap InPlay, Ticked(off)[b] > 0
      PROVE  life[b] > 1 /\ health[b] > 0
  <2>1. b \in Id /\ b \notin TankId
    BY EngineConstants DEF Id
  <2>2. Ticked(off)[b] = IF b \in off THEN 0 ELSE Flown(b)
    BY <2>1 DEF Ticked
  <2>3. Flown(b) > 0
    BY <1>5, <2>2
  <2>4. QED
    BY <1>2, <2>3
<1>6. QED
  BY <1>4, <1>5

LEMMA KeptFacts ==
  ASSUME EngineAssumption, TypeOK, NEW sweep \in Sweeps
  PROVE  /\ sweep.kept \in Seq(InPlay) /\ IsInjective(sweep.kept)
         /\ ToSet(sweep.kept) \subseteq InPlay
         /\ \A b \in BulletId \cap ToSet(sweep.kept) : life[b] > 1 /\ health[b] > 0
         /\ sweep.health \in [Id -> Int]
         /\ sweep.score \in [TankId -> Nat] /\ sweep.credit \in [Id -> TankId \cup {None}]
<1>1. PICK off : sweep = Sweep(Ticked(off))
  BY DEF Sweeps
<1> DEFINE h == Ticked(off)
           n == Len(entities)
<1>2. SweptWell(sweep, h, n)
  BY <1>1, SweepFacts
<1>3. h \in [Id -> Int] /\ \A b \in BulletId \cap InPlay : h[b] > 0 => life[b] > 1 /\ health[b] > 0
  BY TickedFacts
<1>4. n \in Nat /\ DOMAIN entities = 1 .. n
  BY InPlayFacts, LenProperties
<1> HIDE DEF h, n
<1>5. Passed(h, n) \subseteq {e \in InPlay : h[e] > 0}
  BY <1>4 DEF Passed, InPlay, ToSet
<1>6. sweep.kept \in Seq(Passed(h, n)) /\ IsInjective(sweep.kept) /\ sweep.health = h
      /\ sweep.score \in [TankId -> Nat] /\ sweep.credit \in [Id -> TankId \cup {None}]
  BY <1>2 DEF SweptWell
<1>7. ToSet(sweep.kept) \subseteq Passed(h, n)
  BY <1>6, ElementsFinite
<1>8. Passed(h, n) \subseteq InPlay
  BY <1>5
<1>9. sweep.kept \in Seq(InPlay)
  BY <1>6, <1>8, SeqMonotonic
<1>10. QED
  BY <1>3, <1>5, <1>6, <1>7, <1>9

\* The new foods are a sequence of as many IDs as were missing.
LEMMA NewFoods ==
  ASSUME EngineAssumption, NEW n \in Int, NEW X, NEW new \in Injection(1 .. n, X)
  PROVE  /\ new \in Seq(X) /\ IsInjective(new) /\ Len(new) = IF n >= 0 THEN n ELSE 0
         /\ ToSet(new) = Range(new) /\ Range(new) \subseteq X
<1>1. new \in [1 .. n -> X] /\ IsInjective(new)
  BY DEF Injection
<1> DEFINE m == IF n >= 0 THEN n ELSE 0
<1>2. m \in Nat /\ 1 .. n = 1 .. m
  OBVIOUS
<1> HIDE DEF m
<1>3. new \in [1 .. m -> X]
  BY <1>1, <1>2
<1>4. new \in Seq(X)
  BY <1>2, <1>3, SeqDef, Zenon
<1>5. Len(new) = m
  BY <1>2, <1>3
<1>6. Range(new) \subseteq X /\ ToSet(new) = Range(new)
  BY <1>1 DEF Range, ToSet
<1>7. QED
  BY <1>1, <1>4, <1>5, <1>6 DEF m

\* Two that are in contact.
LEMMA FoeOf ==
  ASSUME NEW x, NEW y, x # y
  PROVE  Foe(x, {x, y}) = y
BY DEF Foe

LEMMA CollisionFacts ==
  ASSUME EngineAssumption, NEW S \in SUBSET Id, NEW foes \in Collisions(S)
  PROVE  \A e \in Id :
           /\ foes[e] \subseteq (S \cup {Rock}) \ {e}
           /\ foes[e] # {} => e \in S
           /\ \A o \in foes[e] : /\ Hurts(e, o)
                                 /\ o \in Id /\ Hurts(o, e) => e \in foes[o]
<1>1. PICK q \in SeqOf(Hurting(S), MaxContacts) : foes = [e \in Id |-> Foes(e, Range(q))]
  BY DEF Collisions
<1>2. Range(q) \subseteq Hurting(S)
  <2>1. PICK m : q \in [1 .. m -> Hurting(S)]
    BY DEF SeqOf
  <2>2. QED
    BY <2>1 DEF Range
<1>3. ASSUME NEW c \in Hurting(S)
      PROVE  \E x \in S, y \in S \cup {Rock} :
                c = {x, y} /\ x # y /\ Foe(x, c) = y /\ Foe(y, c) = x
  <2>1. PICK x \in S, y \in S \cup {Rock} : c = {x, y}
    BY DEF Hurting
  <2>2. x # y
    <3>1. SUFFICES ASSUME x = y PROVE FALSE
      OBVIOUS
    <3>2. c = {x} /\ Cardinality(c) = 2
      BY <2>1, <3>1 DEF Hurting
    <3>3. Cardinality({x}) = 1
      BY FS_Singleton
    <3>4. QED
      BY <3>2, <3>3
  <2>3. Foe(x, c) = y
    BY <2>1, <2>2, FoeOf
  <2>4. c = {y, x}
    BY <2>1
  <2>5. Foe(y, c) = x
    BY <2>2, <2>4, FoeOf
  <2>6. QED
    BY <2>1, <2>2, <2>3, <2>5
<1>4. SUFFICES ASSUME NEW e \in Id, NEW o \in foes[e]
               PROVE  /\ o \in (S \cup {Rock}) \ {e} /\ e \in S
                      /\ Hurts(e, o)
                      /\ o \in Id /\ Hurts(o, e) => e \in foes[o]
  OBVIOUS
<1>5. PICK c \in Range(q) : e \in c /\ Hurts(e, Foe(e, c)) /\ o = Foe(e, c)
  BY <1>1 DEF Foes
<1>6. PICK x \in S, y \in S \cup {Rock} : c = {x, y} /\ x # y /\ Foe(x, c) = y /\ Foe(y, c) = x
  BY <1>2, <1>3, <1>5
<1>7. e # Rock
  BY EngineConstants
<1>8. e \in S /\ o \in (S \cup {Rock}) \ {e} /\ o \in c /\ Foe(o, c) = e
  BY <1>5, <1>6, <1>7
<1>9. o \in Id /\ Hurts(o, e) => e \in foes[o]
  BY <1>1, <1>5, <1>8 DEF Foes
<1>10. QED
  BY <1>5, <1>8, <1>9

LEMMA AfterTick ==
  ASSUME EngineAssumption, TypeOK, NEW sweep \in Sweeps, NEW new \in Refill(sweep.kept),
         NEW foes, Turn(sweep, new, foes)
  PROVE  /\ entities' \in Seq(Id) /\ IsInjective(entities')
         /\ InPlay' = ToSet(sweep.kept \o new) /\ InPlay' = ToSet(sweep.kept) \cup Range(new)
         /\ Range(new) \subseteq FoodId \ spawned
         /\ InPlay' \subseteq spawned' /\ spawned' \subseteq Id /\ IsFiniteSet(InPlay')
<1> DEFINE kept == sweep.kept
<1>1. kept \in Seq(Id) /\ IsInjective(kept) /\ ToSet(kept) \subseteq InPlay
  BY KeptFacts, InPlayFacts, SeqMonotonic
<1> DEFINE n == MaxFood - Cardinality(Foods(ToSet(kept)))
<1>2. n \in Int
  <2>1. IsFiniteSet(ToSet(kept))
    BY <1>1, ElementsFinite
  <2>2. IsFiniteSet(Foods(ToSet(kept)))
    BY <2>1, FS_Subset DEF Foods
  <2>3. Cardinality(Foods(ToSet(kept))) \in Nat
    BY <2>2, FS_CardinalityType
  <2>4. QED
    BY <2>3, EngineConstants
<1>3. new \in Injection(1 .. n, FoodId \ spawned)
  BY DEF Refill
<1> HIDE DEF n
<1>4. /\ new \in Seq(FoodId \ spawned) /\ IsInjective(new)
      /\ ToSet(new) = Range(new) /\ Range(new) \subseteq FoodId \ spawned
  BY <1>2, <1>3, NewFoods
<1>5. FoodId \ spawned \subseteq Id
  BY DEF Id
<1>6. new \in Seq(Id)
  BY <1>4, <1>5, SeqMonotonic
<1>7. InPlay \subseteq spawned /\ spawned \subseteq Id
  BY DEF TypeOK
<1>8. ToSet(kept) \cap ToSet(new) = {}
  BY <1>1, <1>4, <1>7
<1> HIDE DEF kept
<1>9. /\ kept \o new \in Seq(Id) /\ ToSet(kept \o new) = ToSet(kept) \cup ToSet(new)
      /\ IsInjective(kept \o new)
  BY <1>1, <1>4, <1>6, <1>8, ConcatFacts
<1>10. entities' = kept \o new /\ spawned' = spawned \cup Range(new)
  BY DEF Turn, kept
<1>11. InPlay' = ToSet(kept \o new)
  BY <1>10 DEF InPlay
<1>12. IsFiniteSet(InPlay')
  BY <1>9, <1>11, ElementsFinite
<1>13. InPlay' \subseteq spawned' /\ spawned' \subseteq Id
  BY <1>1, <1>4, <1>5, <1>7, <1>9, <1>10, <1>11
<1>14. QED
  BY <1>4, <1>9, <1>10, <1>11, <1>12, <1>13 DEF kept

\* A tick leaves MaxFood foods, if there were as many or none before.
LEMMA TickFood ==
  ASSUME EngineAssumption, EInv, NEW sweep \in Sweeps, NEW new \in Refill(sweep.kept),
         NEW foes, Turn(sweep, new, foes)
  PROVE  FoodSteady'
<1> DEFINE old == Foods(ToSet(sweep.kept))
           was == Foods(InPlay)
<1>1. TypeOK /\ FoodSteady
  BY DEF EInv
<1>2. /\ InPlay' = ToSet(sweep.kept) \cup Range(new) /\ Range(new) \subseteq FoodId \ spawned
      /\ ToSet(sweep.kept) \subseteq InPlay /\ InPlay \subseteq spawned
  BY <1>1, AfterTick, KeptFacts DEF TypeOK
<1>3. IsFiniteSet(was) /\ Cardinality(was) \in Nat
  BY <1>1, InPlayFacts, FS_Subset, FS_CardinalityType DEF Foods
<1>4. old \subseteq was
  BY <1>2 DEF Foods
<1>5. IsFiniteSet(old) /\ Cardinality(old) <= Cardinality(was) /\ Cardinality(old) \in Nat
  BY <1>3, <1>4, FS_Subset, FS_CardinalityType
<1>6. Cardinality(old) <= MaxFood
  <2>1. CASE Foods(spawned) # {}
    BY <1>1, <1>3, <1>5, <2>1, EngineConstants DEF FoodSteady
  <2>2. CASE Foods(spawned) = {}
    <3>1. old = {}
      BY <1>2, <2>2 DEF Foods
    <3>2. Cardinality(old) = 0
      BY <3>1, FS_EmptySet
    <3>3. QED
      BY <3>2, EngineConstants
  <2>3. QED
    BY <2>1, <2>2
<1> DEFINE n == MaxFood - Cardinality(old)
<1>7. n \in Int /\ n >= 0
  BY <1>5, <1>6, EngineConstants
<1>8. new \in Injection(1 .. n, FoodId \ spawned)
  BY DEF Refill
<1> HIDE DEF n
<1>9. new \in Seq(FoodId \ spawned) /\ IsInjective(new) /\ Len(new) = n /\ ToSet(new) = Range(new)
  BY <1>7, <1>8, NewFoods
<1>10. IsFiniteSet(Range(new)) /\ Cardinality(Range(new)) = n
  BY <1>9, ElementsFinite
<1>11. Foods(InPlay') = old \cup Range(new) /\ old \cap Range(new) = {}
  BY <1>2 DEF Foods
<1> HIDE DEF old
<1>12. Cardinality(old \cup Range(new)) = Cardinality(old) + n
  <2>1. Cardinality(old \cup Range(new))
          = Cardinality(old) + Cardinality(Range(new)) - Cardinality(old \cap Range(new))
    BY <1>5, <1>10, FS_Union
  <2>2. Cardinality(old \cap Range(new)) = 0
    BY <1>11, FS_EmptySet
  <2>3. QED
    BY <1>5, <1>7, <1>10, <2>1, <2>2
<1>13. Cardinality(Foods(InPlay')) = MaxFood
  BY <1>5, <1>11, <1>12, EngineConstants DEF n
<1>14. QED
  BY <1>13 DEF FoodSteady, Foods

\* What the collisions of a tick do to attackers, health and hits.
LEMMA BlamedFacts ==
  ASSUME EngineAssumption, TypeOK, NEW foes, NEW last \in Blamed(foes)
  PROVE  /\ DOMAIN last = Id
         /\ \A e \in Id : last[e] = attacker[e] \/ last[e] \in foes[e] \ {Rock}
<1> DEFINE contested == {e \in Id : Cardinality(foes[e] \ {Rock}) > 1}
<1>1. PICK f \in [contested -> Id] :
         /\ \A e \in contested : f[e] \in foes[e] \ {Rock}
         /\ last = [e \in Id |-> IF e \in contested THEN f[e]
                                 ELSE IF foes[e] \ {Rock} = {} THEN attacker[e]
                                 ELSE CHOOSE o \in foes[e] \ {Rock} : TRUE]
  BY DEF Blamed
<1> HIDE DEF contested
<1>2. QED
  BY <1>1

LEMMA DamageInt ==
  ASSUME EngineAssumption, NEW foes, IsFiniteSet(foes)
  PROVE  TotalDamage(foes) \in Int
<1>1. /\ Cardinality(foes \cap TankId) \in Nat
      /\ Cardinality(foes \cap BulletId) \in Nat
      /\ Cardinality(foes \cap FoodId) \in Nat
  BY FS_Subset, FS_CardinalityType
<1>2. \A a, b \in Nat : a * b \in Nat
  OBVIOUS
<1>3. /\ TankDamage * Cardinality(foes \cap TankId) \in Nat
      /\ BulletDamage * Cardinality(foes \cap BulletId) \in Nat
      /\ FoodDamage * Cardinality(foes \cap FoodId) \in Nat
  BY <1>1, <1>2, EngineConstants
<1>4. QED
  BY <1>3 DEF TotalDamage

LEMMA TickTypes ==
  ASSUME EngineAssumption, TypeOK, NEW sweep \in Sweeps, NEW new \in Refill(sweep.kept),
         NEW foes \in Collisions(ToSet(sweep.kept \o new)), Turn(sweep, new, foes)
  PROVE  TypeOK'
<1> DEFINE S == InPlay'
<1>1. /\ entities' \in Seq(Id) /\ IsInjective(entities')
      /\ S = ToSet(sweep.kept \o new) /\ S = ToSet(sweep.kept) \cup Range(new)
      /\ Range(new) \subseteq FoodId \ spawned
      /\ S \subseteq spawned' /\ spawned' \subseteq Id /\ IsFiniteSet(S)
  BY AfterTick
<1>2. S \subseteq Id
  BY <1>1
<1>3. S = ToSet(entities')
  BY DEF InPlay
<1> HIDE DEF S
<1>4. \A e \in Id : foes[e] \subseteq S \cup {Rock} /\ (foes[e] # {} => e \in S)
  BY <1>1, <1>2, CollisionFacts
<1>5. ASSUME NEW e \in Id PROVE IsFiniteSet(foes[e])
  <2>1. IsFiniteSet(S \cup {Rock})
    BY <1>1, FS_AddElement
  <2>2. QED
    BY <1>4, <2>1, FS_Subset
<1>6. health' \in [Id -> Int]
  <2> DEFINE h == [e \in Id |-> IF e \in Range(new) THEN FoodHealth ELSE sweep.health[e]]
             hurt == [e \in Id |-> HealthAfter(e, h[e], foes[e])]
  <2>1. health' = Forgotten(hurt, 0)
    BY DEF Turn
  <2>2. ASSUME NEW e \in Id PROVE hurt[e] \in Int
    <3>1. h[e] \in Int
      BY KeptFacts, EngineConstants
    <3>2. TotalDamage(foes[e]) \in Int
      BY <1>5, DamageInt
    <3> HIDE DEF h
    <3>3. QED
      BY <3>1, <3>2 DEF HealthAfter
  <2>3. DOMAIN hurt = Id
    OBVIOUS
  <2> HIDE DEF hurt
  <2>4. QED
    BY <2>1, <2>2, <2>3 DEF Forgotten
<1>7. attacker' \in [Id -> Id \cup {None}]
  <2>1. PICK last \in Blamed(foes) : attacker' = Forgotten(last, None)
    BY DEF Turn
  <2>2. DOMAIN last = Id /\ \A e \in Id : last[e] = attacker[e] \/ last[e] \in foes[e] \ {Rock}
    BY BlamedFacts
  <2>3. \A e \in Id : attacker[e] \in Id \cup {None}
    BY DEF TypeOK
  <2>4. \A e \in Id : last[e] \in Id \cup {None}
    BY <1>2, <1>4, <2>2, <2>3
  <2>5. QED
    BY <2>1, <2>2, <2>4 DEF Forgotten
<1>8. /\ rested' \in [TankId -> 0 .. RegenCooldown] /\ reload' \in [TankId -> 0 .. FireCooldown]
      /\ elapsed' \in 0 .. FireCooldown
  <2>1. ASSUME NEW n \in Nat, NEW max \in Nat PROVE Min({n + 1, max}) \in 0 .. max
    BY MinOfTwo
  <2>2. \A t \in TankId : rested[t] \in Nat /\ reload[t] \in Nat
    BY DEF TypeOK
  <2>3. elapsed \in Nat
    BY DEF TypeOK
  <2>4. RegenCooldown \in Nat /\ FireCooldown \in Nat /\ 0 \in 0 .. RegenCooldown /\ 0 \in 0 .. FireCooldown
    BY EngineConstants
  <2>5. \A t \in TankId : /\ Min({rested[t] + 1, RegenCooldown}) \in 0 .. RegenCooldown
                          /\ Min({reload[t] + 1, FireCooldown}) \in 0 .. FireCooldown
    BY <2>1, <2>2, <2>4
  <2>6. elapsed' \in 0 .. FireCooldown
    BY <2>1, <2>3, <2>4 DEF Turn
  <2>7. rested' \in [TankId -> 0 .. RegenCooldown]
    BY <2>4, <2>5 DEF Turn, Forgotten
  <2>8. reload' \in [TankId -> 0 .. FireCooldown]
    BY <2>4, <2>5 DEF Turn, Forgotten
  <2>9. QED
    BY <2>6, <2>7, <2>8
<1>9. owner' \in [BulletId -> TankId \cup {None}]
  BY DEF Turn, TypeOK
<1>10. life' \in [BulletId -> 0 .. Lifespan]
  <2>1. life' = Forgotten([b \in BulletId |-> life[b] - 1], 0)
    BY DEF Turn
  <2>2. 0 \in 0 .. Lifespan
    BY EngineConstants
  <2>3. ASSUME NEW b \in BulletId, b \in S PROVE life[b] - 1 \in 0 .. Lifespan
    <3>1. b \in ToSet(sweep.kept)
      BY <1>1, <2>3, EngineConstants
    <3>2. life[b] > 1 /\ life[b] \in 0 .. Lifespan
      BY <3>1, KeptFacts DEF TypeOK
    <3>3. QED
      BY <3>2, EngineConstants
  <2>4. QED
    BY <1>3, <2>1, <2>2, <2>3 DEF Forgotten
<1>11. hits' \in [BulletId -> Nat]
  <2>1. ASSUME NEW b \in BulletId PROVE HitsOf(b, foes) \in Nat
    <3>1. {e \in TankId \cup FoodId : b \in foes[e]} \subseteq S
      BY <1>4 DEF Id
    <3>2. QED
      BY <1>1, <3>1, FS_Subset, FS_CardinalityType DEF HitsOf
  <2>2. \A b \in BulletId : hits[b] \in Nat
    BY DEF TypeOK
  <2>3. \A b \in BulletId : hits[b] + HitsOf(b, foes) \in Nat
    BY <2>1, <2>2
  <2>4. QED
    BY <2>3 DEF Turn
<1>12. score' \in [TankId -> Nat] /\ credit' \in [Id -> TankId \cup {None}]
  BY KeptFacts DEF Turn
<1>13. QED
  BY <1>1, <1>6, <1>7, <1>8, <1>9, <1>10, <1>11, <1>12 DEF TypeOK, S

LEMMA TickHarms ==
  ASSUME EngineAssumption, EInv, NEW sweep \in Sweeps, NEW new \in Refill(sweep.kept),
         NEW foes \in Collisions(ToSet(sweep.kept \o new)), Turn(sweep, new, foes)
  PROVE  /\ OwnersSpared' /\ Unused' /\ Spent'
         /\ \A b \in BulletId : hits[b] > 0 => hits'[b] = hits[b]
<1> DEFINE S == InPlay'
<1>1. TypeOK /\ OwnersSpared /\ Unused /\ Spent
  BY DEF EInv
<1>2. /\ S = ToSet(sweep.kept \o new) /\ S = ToSet(sweep.kept) \cup Range(new)
      /\ Range(new) \subseteq FoodId \ spawned
      /\ S \subseteq spawned' /\ S \subseteq Id
  BY <1>1, AfterTick
<1>3. S = ToSet(entities') /\ spawned \subseteq spawned' /\ owner' = owner
  BY DEF InPlay, Turn
<1> HIDE DEF S
<1>4. \A e \in Id :
        /\ foes[e] \subseteq (S \cup {Rock}) \ {e}
        /\ foes[e] # {} => e \in S
        /\ \A o \in foes[e] : Hurts(e, o) /\ (o \in Id /\ Hurts(o, e) => e \in foes[o])
  BY <1>2, CollisionFacts
<1>5. PICK last \in Blamed(foes) : attacker' = Forgotten(last, None)
  BY DEF Turn
<1>6. ASSUME NEW e \in Id
      PROVE  \/ attacker'[e] = None
             \/ attacker'[e] = attacker[e]
             \/ attacker'[e] \in S /\ Hurts(e, attacker'[e])
  <2>1. DOMAIN last = Id /\ (last[e] = attacker[e] \/ last[e] \in foes[e] \ {Rock})
    BY <1>1, <1>5, BlamedFacts
  <2>2. attacker'[e] = last[e] \/ attacker'[e] = None
    BY <1>5, <2>1 DEF Forgotten
  <2>3. QED
    BY <1>4, <2>1, <2>2
<1>7. OwnersSpared'
  <2> SUFFICES ASSUME NEW e \in Id
               PROVE  /\ attacker'[e] \in BulletId => attacker'[e] \in spawned' /\ owner[attacker'[e]] # e
                      /\ e \in BulletId /\ owner[e] # None => attacker'[e] # owner[e]
    BY <1>3 DEF OwnersSpared
  <2>1. None \notin BulletId
    BY EngineConstants DEF Id
  <2>2. CASE attacker'[e] = None
    BY <2>1, <2>2
  <2>3. CASE attacker'[e] = attacker[e]
    BY <1>1, <1>3, <2>3 DEF OwnersSpared
  <2>4. CASE attacker'[e] \in S /\ Hurts(e, attacker'[e])
    BY <1>2, <2>4 DEF Hurts
  <2>5. QED
    BY <1>6, <2>2, <2>3, <2>4
<1>8. ASSUME NEW b \in BulletId, b \notin S
      PROVE  HitsOf(b, foes) = 0
  <2>1. b # Rock /\ TankId \cup FoodId \subseteq Id
    BY EngineConstants DEF Id
  <2>2. {e \in TankId \cup FoodId : b \in foes[e]} = {}
    BY <1>4, <1>8, <2>1
  <2>3. QED
    BY <2>2, FS_EmptySet DEF HitsOf
<1>9. \A b \in BulletId : hits'[b] = hits[b] + HitsOf(b, foes) /\ hits[b] \in Nat
  BY <1>1 DEF Turn, TypeOK
<1>10. ASSUME NEW b \in BulletId, hits[b] > 0
       PROVE  b \notin S /\ hits'[b] = hits[b]
  <2>1. b \notin ToSet(sweep.kept)
    <3>1. SUFFICES ASSUME b \in ToSet(sweep.kept) PROVE FALSE
      OBVIOUS
    <3>2. b \in InPlay /\ health[b] > 0
      BY <1>1, <3>1, KeptFacts
    <3>3. health[b] <= 0
      BY <1>1, <1>10, <3>2 DEF Spent
    <3>4. health[b] \in Int
      BY <1>1 DEF TypeOK, Id
    <3>5. QED
      BY <3>2, <3>3, <3>4
  <2>2. b \notin S
    BY <1>2, <2>1, EngineConstants
  <2>3. QED
    BY <1>8, <1>9, <2>2
<1>11. Unused'
  <2> SUFFICES ASSUME NEW e \in Id \ spawned'
               PROVE  attacker'[e] = None /\ (e \in BulletId => hits'[e] = 0)
    BY DEF Unused
  <2>1. e \notin S /\ e \notin spawned
    BY <1>2, <1>3
  <2>2. attacker'[e] = None
    <3>1. DOMAIN last = Id
      BY <1>1, BlamedFacts
    <3>2. QED
      BY <1>3, <1>5, <2>1, <3>1 DEF Forgotten
  <2>3. ASSUME e \in BulletId PROVE hits'[e] = 0
    <3>1. hits[e] = 0
      BY <1>1, <2>1, <2>3 DEF Unused
    <3>2. QED
      BY <1>8, <1>9, <2>1, <2>3, <3>1
  <2>4. QED
    BY <2>2, <2>3
<1>12. Spent'
  <2> SUFFICES ASSUME NEW b \in BulletId, hits'[b] > 0, b \in S
               PROVE  health'[b] <= 0
    BY DEF Spent, S
  <2>1. hits[b] = 0
    BY <1>9, <1>10
  <2>2. HitsOf(b, foes) # 0
    BY <1>9, <2>1
  <2>3. {e \in TankId \cup FoodId : b \in foes[e]} # {}
    BY <2>2, FS_EmptySet DEF HitsOf
  <2>4. PICK e \in TankId \cup FoodId : b \in foes[e]
    BY <2>3
  <2>5. e \in Id /\ e \notin BulletId /\ e # Rock /\ b \in Id
    BY <2>4, EngineConstants DEF Id
  <2>6. Hurts(e, b)
    BY <1>4, <2>4, <2>5
  <2>7. Hurts(b, e)
    BY <2>5, <2>6 DEF Hurts
  <2>8. foes[b] # {}
    BY <1>4, <2>4, <2>5, <2>7
  <2> DEFINE h == [i \in Id |-> IF i \in Range(new) THEN FoodHealth ELSE sweep.health[i]]
             hurt == [i \in Id |-> HealthAfter(i, h[i], foes[i])]
  <2>9. hurt[b] = 0
    BY <2>5, <2>8 DEF HealthAfter
  <2>10. health' = Forgotten(hurt, 0)
    BY DEF Turn
  <2>11. DOMAIN hurt = Id
    OBVIOUS
  <2> HIDE DEF hurt
  <2>12. health'[b] = 0
    BY <2>5, <2>9, <2>10, <2>11 DEF Forgotten
  <2>13. QED
    BY <2>12
<1>13. QED
  BY <1>7, <1>10, <1>11, <1>12

-----------------------------------------------------------------------------
(* The steps between ticks.                                                *)

LEMMA Changed ==
  ASSUME NEW D, NEW T, NEW f \in [D -> T], NEW x, NEW v \in T
  PROVE  [f EXCEPT ![x] = v] \in [D -> T]
OBVIOUS

LEMMA Joined ==
  ASSUME EngineAssumption, TypeOK, NEW e \in Id \ spawned, entities' = Append(entities, e)
  PROVE  /\ entities' \in Seq(Id) /\ IsInjective(entities')
         /\ InPlay' = InPlay \cup {e}
<1>1. entities \in Seq(Id) /\ IsInjective(entities) /\ InPlay \subseteq spawned
  BY DEF TypeOK
<1>2. \A j \in DOMAIN entities : entities[j] # e
  BY <1>1 DEF InPlay, ToSet
<1>3. Append(entities, e) \in Seq(Id) /\ IsInjective(Append(entities, e))
  BY <1>1, <1>2, AppendFacts, AppendNew
<1>4. ToSet(Append(entities, e)) = ToSet(entities) \cup {e}
  BY <1>1, AppendSet
<1>5. QED
  BY <1>3, <1>4 DEF InPlay

LEMMA SpawnTankEInv ==
  ASSUME EngineAssumption, EInv, NEW t \in TankId, SpawnTank(t)
  PROVE  EInv'
<1>1. TypeOK /\ FoodSteady /\ OwnersSpared /\ Unused /\ Spent
  BY DEF EInv
<1>2. t \in Id \ spawned /\ t \notin FoodId /\ t \notin BulletId
  BY EngineConstants DEF SpawnTank, Id
<1>3. entities' \in Seq(Id) /\ IsInjective(entities') /\ InPlay' = InPlay \cup {t}
  BY <1>1, <1>2, Joined DEF SpawnTank
<1>4. TypeOK'
  <2>1. /\ health \in [Id -> Int] /\ reload \in [TankId -> 0 .. FireCooldown]
        /\ elapsed \in 0 .. FireCooldown
    BY <1>1 DEF TypeOK
  <2>2. MaxHealth \in Int
    BY EngineConstants
  <2>3. health' \in [Id -> Int] /\ reload' \in [TankId -> 0 .. FireCooldown]
    BY <1>2, <2>1, <2>2 DEF SpawnTank
  <2>4. InPlay' \subseteq spawned' /\ spawned' \subseteq Id
    BY <1>1, <1>2, <1>3 DEF TypeOK, SpawnTank
  <2>5. QED
    BY <1>1, <1>3, <2>3, <2>4 DEF TypeOK, SpawnTank
<1>5. FoodSteady'
  <2>1. Foods(InPlay') = Foods(InPlay) /\ Foods(spawned') = Foods(spawned)
    BY <1>2, <1>3 DEF Foods, SpawnTank
  <2>2. QED
    BY <1>1, <2>1 DEF FoodSteady, Foods
<1>6. OwnersSpared' /\ Unused'
  BY <1>1 DEF OwnersSpared, Unused, SpawnTank
<1>7. Spent'
  <2>1. \A b \in BulletId : b # t /\ b \in Id
    BY <1>2 DEF Id
  <2>2. \A b \in BulletId : health'[b] = health[b] /\ hits' = hits
    BY <1>1, <2>1 DEF SpawnTank, TypeOK
  <2>3. QED
    BY <1>1, <1>3, <2>1, <2>2 DEF Spent
<1>8. QED
  BY <1>4, <1>5, <1>6, <1>7 DEF EInv

LEMMA FireEInv ==
  ASSUME EngineAssumption, EInv, NEW t \in TankId, NEW b \in BulletId, Fire(t, b)
  PROVE  EInv'
<1>1. TypeOK /\ FoodSteady /\ OwnersSpared /\ Unused /\ Spent
  BY DEF EInv
<1>2. b \in Id \ spawned /\ b \notin FoodId /\ b \notin TankId /\ t \in Id /\ None \notin Id
  BY EngineConstants DEF Fire, Id
<1>3. entities' \in Seq(Id) /\ IsInjective(entities') /\ InPlay' = InPlay \cup {b}
  BY <1>1, <1>2, Joined DEF Fire
<1>4. TypeOK'
  <2>1. /\ health \in [Id -> Int] /\ reload \in [TankId -> 0 .. FireCooldown]
        /\ life \in [BulletId -> 0 .. Lifespan]
    BY <1>1 DEF TypeOK
  <2>2. health' \in [Id -> Int] /\ attacker' = attacker
    <3>1. 1 \in Int
      OBVIOUS
    <3>2. health' = [health EXCEPT ![b] = 1] /\ attacker' = attacker
      BY DEF Fire
    <3>3. QED
      BY <2>1, <3>1, <3>2, Changed
  <2>3. reload' \in [TankId -> 0 .. FireCooldown] /\ life' \in [BulletId -> 0 .. Lifespan]
    <3>1. 0 \in 0 .. FireCooldown /\ Lifespan \in 0 .. Lifespan
      BY EngineConstants
    <3>2. QED
      BY <2>1, <3>1 DEF Fire
  <2>4. owner' \in [BulletId -> TankId \cup {None}]
    BY <1>1 DEF TypeOK, Fire
  <2>5. InPlay' \subseteq spawned' /\ spawned' \subseteq Id
    BY <1>1, <1>2, <1>3 DEF TypeOK, Fire
  <2>6. QED
    BY <1>1, <1>3, <2>2, <2>3, <2>4, <2>5 DEF TypeOK, Fire
<1>5. FoodSteady'
  <2>1. Foods(InPlay') = Foods(InPlay) /\ Foods(spawned') = Foods(spawned)
    BY <1>2, <1>3 DEF Foods, Fire
  <2>2. QED
    BY <1>1, <2>1 DEF FoodSteady, Foods
<1>6. attacker' = attacker /\ hits' = hits /\ spawned' = spawned \cup {b}
      /\ owner' = [owner EXCEPT ![b] = t] /\ owner \in [BulletId -> TankId \cup {None}]
  BY <1>1 DEF Fire, TypeOK
<1>7. attacker[b] = None /\ hits[b] = 0
  BY <1>1, <1>2 DEF Unused
<1>8. OwnersSpared'
  <2> SUFFICES ASSUME NEW e \in Id
               PROVE  /\ attacker[e] \in BulletId => attacker[e] \in spawned' /\ owner'[attacker[e]] # e
                      /\ e \in BulletId /\ owner'[e] # None => attacker[e] # owner'[e]
    BY <1>6 DEF OwnersSpared
  <2>1. attacker[e] \in BulletId => attacker[e] \in spawned' /\ owner'[attacker[e]] # e
    BY <1>1, <1>2, <1>6 DEF OwnersSpared
  <2>2. CASE e = b
    BY <1>2, <1>6, <1>7, <2>1, <2>2
  <2>3. CASE e # b
    BY <1>1, <1>6, <2>1, <2>3 DEF OwnersSpared
  <2>4. QED
    BY <2>2, <2>3
<1>9. Unused'
  BY <1>1, <1>6 DEF Unused
<1>10. Spent'
  <2>1. \A c \in BulletId : c # b => health'[c] = health[c]
    BY <1>1 DEF Fire, TypeOK, Id
  <2>2. QED
    BY <1>1, <1>3, <1>6, <1>7, <2>1 DEF Spent
<1>11. QED
  BY <1>4, <1>5, <1>8, <1>9, <1>10 DEF EInv

LEMMA RemoveTankEInv ==
  ASSUME EngineAssumption, EInv, NEW t \in TankId, RemoveTank(t)
  PROVE  EInv'
<1>1. TypeOK /\ FoodSteady /\ OwnersSpared /\ Unused /\ Spent
  BY DEF EInv
<1>2. PICK i \in DOMAIN entities : entities[i] = t /\ entities' = RemoveAt(entities, i)
  BY DEF RemoveTank
<1>3. entities \in Seq(Id) /\ IsInjective(entities)
  BY <1>1 DEF TypeOK
<1>4. entities' \in Seq(Id) /\ IsInjective(entities') /\ InPlay' = InPlay \ {t}
  BY <1>2, <1>3, RemoveAtFacts DEF InPlay
<1>5. t \notin FoodId
  BY EngineConstants
<1>6. TypeOK'
  BY <1>1, <1>4 DEF TypeOK, RemoveTank
<1>7. FoodSteady'
  <2>1. Foods(InPlay') = Foods(InPlay) /\ spawned' = spawned
    BY <1>4, <1>5 DEF Foods, RemoveTank
  <2>2. QED
    BY <1>1, <2>1 DEF FoodSteady, Foods
<1>8. OwnersSpared' /\ Unused' /\ Spent'
  BY <1>1, <1>4 DEF OwnersSpared, Unused, Spent, RemoveTank
<1>9. QED
  BY <1>6, <1>7, <1>8 DEF EInv

LEMMA NextEInv ==
  ASSUME EngineAssumption, EInv, [Next]_vars
  PROVE  EInv' /\ [\A b \in BulletId : hits[b] > 0 => hits'[b] = hits[b]]_vars
<1>1. CASE UNCHANGED vars
  BY <1>1 DEF EInv, vars, TypeOK, FoodSteady, OwnersSpared, Unused, Spent, InPlay
<1>2. ASSUME NEW t \in TankId, SpawnTank(t) PROVE EInv' /\ hits' = hits
  BY <1>2, SpawnTankEInv DEF SpawnTank
<1>3. ASSUME NEW t \in TankId, RemoveTank(t) PROVE EInv' /\ hits' = hits
  BY <1>3, RemoveTankEInv DEF RemoveTank
<1>4. ASSUME NEW t \in TankId, NEW b \in BulletId, Fire(t, b) PROVE EInv' /\ hits' = hits
  BY <1>4, FireEInv DEF Fire
<1>5. ASSUME Tick PROVE EInv' /\ \A b \in BulletId : hits[b] > 0 => hits'[b] = hits[b]
  <2>1. PICK sweep \in Sweeps : \E new \in Refill(sweep.kept) :
          \E foes \in Collisions(ToSet(sweep.kept \o new)) : Turn(sweep, new, foes)
    BY <1>5 DEF Tick
  <2>2. PICK new \in Refill(sweep.kept) :
          \E foes \in Collisions(ToSet(sweep.kept \o new)) : Turn(sweep, new, foes)
    BY <2>1
  <2>3. PICK foes \in Collisions(ToSet(sweep.kept \o new)) : Turn(sweep, new, foes)
    BY <2>2
  <2>4. TypeOK' /\ FoodSteady'
    <3>1. TypeOK
      BY DEF EInv
    <3>2. QED
      BY <2>3, <3>1, TickTypes, TickFood
  <2>5. /\ OwnersSpared' /\ Unused' /\ Spent'
        /\ \A b \in BulletId : hits[b] > 0 => hits'[b] = hits[b]
    BY <2>3, TickHarms
  <2>6. QED
    BY <2>4, <2>5 DEF EInv
<1>6. QED
  BY <1>1, <1>2, <1>3, <1>4, <1>5 DEF Next

-----------------------------------------------------------------------------
(* Scores.                                                                 *)

\* The foods that tanks were credited with.
Credited(given) == {f \in FoodId : given[f] # None}

\* What the tanks of S hold is backed by the foods credited, nobody in S is one of them,
\* and who was never spawned holds nothing.
Backed(scores, given, S) ==
    /\ IsFiniteSet(Credited(given)) /\ Credited(given) \subseteq spawned \ S
    /\ \A t \in TankId \ spawned : scores[t] = 0
    /\ Sum(scores, S \cap TankId) <= FoodValue * Cardinality(Credited(given))

ScoreSound == Backed(score, credit, InPlay)

\* Whoever leaves without being credited to a tank takes the score along.
LEMMA BackedFewer ==
  ASSUME EngineAssumption, NEW scores \in [TankId -> Nat], NEW given, NEW S, IsFiniteSet(S),
         Backed(scores, given, S), NEW e
  PROVE  Backed(scores, given, S \ {e})
<1>1. IsFiniteSet(S \cap TankId) /\ (S \ {e}) \cap TankId = (S \cap TankId) \ {e}
  BY FS_Subset
<1>2. CASE e \in S \cap TankId
  <2> DEFINE T == S \cap TankId
             limit == FoodValue * Cardinality(Credited(given))
  <2>1. Sum(scores, T) = scores[e] + Sum(scores, T \ {e}) /\ scores[e] \in Nat
    BY <1>1, <1>2, SumTakenOut
  <2>2. Sum(scores, T \ {e}) \in Nat
    <3>1. IsFiniteSet(T \ {e})
      BY <1>1, FS_RemoveElement
    <3>2. QED
      BY <3>1, SumTakenOut
  <2>3. Sum(scores, T) <= limit /\ limit \in Nat
    BY EngineConstants, FS_CardinalityType DEF Backed
  <2> HIDE DEF T, limit
  <2>4. Sum(scores, T \ {e}) <= limit
    BY <2>1, <2>2, <2>3
  <2>5. QED
    BY <1>1, <2>4 DEF Backed, T, limit
<1>3. CASE e \notin S \cap TankId
  <2>1. (S \ {e}) \cap TankId = S \cap TankId
    BY <1>3
  <2>2. QED
    BY <2>1 DEF Backed
<1>4. QED
  BY <1>2, <1>3

\* A killer that is in play is paid with what its victim leaves.
LEMMA BackedKill ==
  ASSUME EngineAssumption, NEW scores \in [TankId -> Nat], NEW given \in [Id -> TankId \cup {None}],
         NEW S \in SUBSET Id, IsFiniteSet(S), S \subseteq spawned,
         Backed(scores, given, S), NEW e \in S, NEW killer \in TankId \cap spawned
  PROVE  Backed([scores EXCEPT ![killer] = @ + Worth(e, scores)], [given EXCEPT ![e] = killer], S \ {e})
<1> DEFINE worth == Worth(e, scores)
           paid == [scores EXCEPT ![killer] = @ + worth]
           now == [given EXCEPT ![e] = killer]
           T == (S \cap TankId) \ {e}
<1>1. /\ IsFiniteSet(Credited(given)) /\ Credited(given) \subseteq spawned \ S
      /\ \A t \in TankId \ spawned : scores[t] = 0
      /\ Sum(scores, S \cap TankId) <= FoodValue * Cardinality(Credited(given))
  BY DEF Backed
<1>2. IsFiniteSet(S \cap TankId) /\ (S \ {e}) \cap TankId = T
  BY FS_Subset
<1>3. IsFiniteSet(T) /\ T \in SUBSET TankId
  BY <1>2, FS_RemoveElement
<1>4. killer # None
  BY EngineConstants DEF Id
<1>5. Credited(now) = IF e \in FoodId THEN Credited(given) \cup {e} ELSE Credited(given)
  BY <1>4 DEF Credited, Id
<1>6. worth \in Nat
  BY WorthNat
<1> DEFINE c == Cardinality(Credited(given))
<1>7. c \in Nat /\ FoodValue \in Nat
  BY <1>1, FS_CardinalityType, EngineConstants
<1>8. /\ IsFiniteSet(Credited(now))
      /\ Cardinality(Credited(now)) = IF e \in FoodId THEN c + 1 ELSE c
  BY <1>1, <1>5, FS_AddElement
<1>9. Credited(now) \subseteq spawned \ (S \ {e})
  BY <1>1, <1>5
<1>10. \A t \in TankId \ spawned : paid[t] = 0
  BY <1>1
<1>11. Sum(paid, T) <= Sum(scores, T) + worth
  BY <1>3, <1>6, SumRaised
<1>12. Sum(scores, T) \in Nat
  BY <1>3, SumTakenOut
<1>13. paid \in [TankId -> Nat]
  BY <1>6, Added
<1>14. Sum(paid, T) \in Nat
  BY <1>3, <1>13, SumTakenOut
<1>15. Sum(scores, T) + worth <= FoodValue * Cardinality(Credited(now))
  <2>1. CASE e \in TankId
    <3>1. e \notin FoodId /\ e \in S \cap TankId
      BY <2>1, EngineConstants
    <3>2. Sum(scores, S \cap TankId) = scores[e] + Sum(scores, T)
      BY <1>2, <3>1, SumTakenOut
    <3>3. worth <= scores[e] /\ scores[e] \in Nat
      BY <2>1 DEF Worth
    <3> HIDE DEF worth, T
    <3>4. scores[e] + Sum(scores, T) <= FoodValue * c
      BY <1>1, <3>2
    <3>5. FoodValue * c \in Nat
      BY <1>7
    <3>6. Sum(scores, T) + worth <= FoodValue * c
      BY <1>6, <1>12, <3>3, <3>4, <3>5
    <3>7. QED
      BY <1>8, <3>1, <3>6
  <2>2. CASE e \notin TankId
    <3>1. Sum(scores, T) <= FoodValue * c
      <4>1. T = S \cap TankId
        BY <2>2
      <4>2. QED
        BY <1>1, <4>1
    <3>2. worth = IF e \in FoodId THEN FoodValue ELSE 0
      BY <2>2 DEF Worth
    <3> HIDE DEF worth, T, c
    <3>3. FoodValue * (c + 1) = FoodValue * c + FoodValue /\ FoodValue * c \in Nat
      BY <1>7
    <3>4. QED
      BY <1>7, <1>8, <1>12, <3>1, <3>2, <3>3
  <2>3. QED
    BY <2>1, <2>2
<1>16. Sum(paid, T) <= FoodValue * Cardinality(Credited(now))
  <2> HIDE DEF paid, worth, T
  <2>1. Cardinality(Credited(now)) \in Nat
    BY <1>7, <1>8
  <2> DEFINE limit == FoodValue * Cardinality(Credited(now))
  <2>2. limit \in Nat
    BY <1>7, <2>1
  <2>3. Sum(scores, T) + worth <= limit
    BY <1>15
  <2> HIDE DEF limit
  <2>4. Sum(paid, T) <= limit
    BY <1>6, <1>11, <1>12, <1>14, <2>2, <2>3
  <2>5. QED
    BY <2>4 DEF limit
<1>17. QED
  BY <1>2, <1>8, <1>9, <1>10, <1>16 DEF Backed

\* Who is still in play when the sweep has come to the n-th entity.
Remaining(sweep, n) == ToSet(sweep.kept) \cup {entities[i] : i \in n + 1 .. Len(entities)}

LEMMA RemainingFacts ==
  ASSUME EngineAssumption, TypeOK, NEW h, NEW n \in Nat, n <= Len(entities),
         NEW sweep, SweptWell(sweep, h, n)
  PROVE  /\ ToSet(sweep.kept) \subseteq InPlay /\ Remaining(sweep, n) \subseteq InPlay
         /\ Remaining(sweep, n) \in SUBSET Id
         /\ IsFiniteSet(Remaining(sweep, n)) /\ Remaining(sweep, n) \subseteq spawned
<1>1. /\ entities \in Seq(Id) /\ Len(entities) \in Nat /\ DOMAIN entities = 1 .. Len(entities)
      /\ InPlay \subseteq Id /\ IsFiniteSet(InPlay) /\ InPlay \subseteq spawned
  BY InPlayFacts, LenProperties DEF TypeOK
<1>2. \A i \in 1 .. n : i \in DOMAIN entities
  BY <1>1
<1>3. \A i \in n + 1 .. Len(entities) : i \in DOMAIN entities
  BY <1>1
<1>4. sweep.kept \in Seq(Passed(h, n))
  BY DEF SweptWell
<1>5. ToSet(sweep.kept) \subseteq Passed(h, n)
  BY <1>4, ElementsFinite
<1>6. Passed(h, n) \subseteq InPlay
  BY <1>2 DEF Passed, InPlay, ToSet
<1>7. Remaining(sweep, n) \subseteq InPlay
  BY <1>3, <1>5, <1>6 DEF Remaining, InPlay, ToSet
<1>8. QED
  BY <1>1, <1>5, <1>6, <1>7, FS_Subset

\* What becomes of the next entity.
SweptCase(sweep, h, e, next) ==
    \/ /\ h[e] > 0
       /\ next.kept = Append(sweep.kept, e)
       /\ next.score = sweep.score /\ next.credit = sweep.credit
    \/ /\ ~ (h[e] > 0) /\ next = sweep
    \/ /\ ~ (h[e] > 0)
       /\ attacker[e] \in TankId
       /\ Contains(sweep.kept \o SubSeq(entities, Len(sweep.kept) + 1, Len(entities)), attacker[e])
       /\ next.kept = sweep.kept
       /\ next.score = [sweep.score EXCEPT ![attacker[e]] = @ + Worth(e, sweep.score)]
       /\ next.credit = [sweep.credit EXCEPT ![e] = attacker[e]]

LEMMA SweptCases ==
  ASSUME EngineAssumption, NEW h, NEW n, NEW sweep, SweptWell(sweep, h, n), NEW e, NEW next,
         next = Swept(sweep, e)
  PROVE  SweptCase(sweep, h, e, next)
<1>1. sweep = [health |-> h, kept |-> sweep.kept, score |-> sweep.score, credit |-> sweep.credit]
      /\ sweep.health = h
  BY DEF SweptWell
<1>2. PICK killer : killer = attacker[e]
  OBVIOUS
<1> DEFINE array == sweep.kept \o SubSeq(entities, Len(sweep.kept) + 1, Len(entities))
           longer == Append(sweep.kept, e)
           paid == [sweep.score EXCEPT ![killer] = @ + Worth(e, sweep.score)]
           given == [sweep.credit EXCEPT ![e] = killer]
<1>3. \/ h[e] > 0 /\ next = [sweep EXCEPT !.kept = longer]
      \/ ~ (h[e] > 0) /\ next = sweep
      \/ /\ ~ (h[e] > 0) /\ killer \in TankId /\ Contains(array, killer)
         /\ next = [sweep EXCEPT !.score = paid, !.credit = given]
  BY <1>1, <1>2 DEF Swept
<1> HIDE DEF array, longer, paid, given
<1>4. CASE h[e] > 0 /\ next = [sweep EXCEPT !.kept = longer]
  <2>1. next = [health |-> h, kept |-> longer, score |-> sweep.score, credit |-> sweep.credit]
    BY <1>1, <1>4
  <2>2. QED
    BY <1>4, <2>1 DEF longer, SweptCase
<1>5. CASE /\ ~ (h[e] > 0) /\ killer \in TankId /\ Contains(array, killer)
           /\ next = [sweep EXCEPT !.score = paid, !.credit = given]
  <2>1. next = [health |-> h, kept |-> sweep.kept, score |-> paid, credit |-> given]
    BY <1>1, <1>5
  <2>2. QED
    BY <1>2, <1>5, <2>1 DEF array, paid, given, SweptCase
<1>6. CASE ~ (h[e] > 0) /\ next = sweep
  BY <1>6 DEF SweptCase
<1>7. QED
  BY <1>3, <1>4, <1>5, <1>6

\* A survivor stays, the dead leave.
Remainder(sweep, h, n, e, next) ==
    /\ e \in Remaining(sweep, n) /\ e \in Id
    /\ h[e] > 0 => Remaining(next, n + 1) = Remaining(sweep, n)
    /\ ~ (h[e] > 0) => Remaining(next, n + 1) = Remaining(sweep, n) \ {e}

LEMMA RemainingStep ==
  ASSUME EngineAssumption, TypeOK, NEW h, NEW n \in Nat, n + 1 <= Len(entities),
         NEW sweep, SweptWell(sweep, h, n), NEW e, e = entities[n + 1],
         NEW next, next = Swept(sweep, e)
  PROVE  Remainder(sweep, h, n, e, next)
<1>1. /\ entities \in Seq(Id) /\ IsInjective(entities) /\ Len(entities) \in Nat
      /\ DOMAIN entities = 1 .. Len(entities)
  BY LenProperties DEF TypeOK
<1>2. /\ n + 1 \in DOMAIN entities /\ n + 1 \in n + 1 .. Len(entities)
      /\ \A i \in n + 1 .. Len(entities) : i = n + 1 \/ i \in (n + 1) + 1 .. Len(entities)
      /\ \A i \in (n + 1) + 1 .. Len(entities) :
            i \in n + 1 .. Len(entities) /\ i # n + 1 /\ i \in DOMAIN entities
      /\ \A i \in 1 .. n : i \in DOMAIN entities /\ i # n + 1
  BY <1>1
<1>3. e \in Id
  BY <1>1, <1>2
<1>4. sweep.kept \in Seq(Passed(h, n))
  BY DEF SweptWell
<1>5. e \notin Passed(h, n)
  BY <1>1, <1>2 DEF Passed, IsInjective
<1>6. e \notin ToSet(sweep.kept)
  <2>1. PICK kept : kept = sweep.kept
    OBVIOUS
  <2>2. PICK passed : passed = Passed(h, n)
    OBVIOUS
  <2>3. kept \in Seq(passed)
    BY <1>4, <2>1, <2>2
  <2>4. ToSet(kept) \subseteq passed
    BY <2>3, ElementsFinite
  <2>5. QED
    BY <1>5, <2>1, <2>2, <2>4
<1> DEFINE rest == {entities[i] : i \in (n + 1) + 1 .. Len(entities)}
<1>7. {entities[i] : i \in n + 1 .. Len(entities)} = rest \cup {e} /\ e \notin rest
  <2>1. e \notin rest
    BY <1>1, <1>2 DEF IsInjective
  <2>2. QED
    BY <1>2, <2>1
<1>8. Remaining(sweep, n) = ToSet(sweep.kept) \cup rest \cup {e}
      /\ Remaining(next, n + 1) = ToSet(next.kept) \cup rest
  BY <1>7 DEF Remaining
<1> HIDE DEF rest
<1>9. \/ h[e] > 0 /\ next.kept = Append(sweep.kept, e)
      \/ ~ (h[e] > 0) /\ next.kept = sweep.kept
  <2>1. SweptCase(sweep, h, e, next)
    BY SweptCases
  <2>2. QED
    BY <2>1 DEF SweptCase
<1>10. CASE h[e] > 0 /\ next.kept = Append(sweep.kept, e)
  <2>1. ToSet(next.kept) = ToSet(sweep.kept) \cup {e}
    BY <1>4, <1>10, AppendSet
  <2>2. QED
    BY <1>3, <1>8, <1>10, <2>1 DEF Remainder
<1>11. CASE ~ (h[e] > 0) /\ next.kept = sweep.kept
  BY <1>3, <1>6, <1>7, <1>8, <1>11 DEF Remainder
<1>12. QED
  BY <1>9, <1>10, <1>11

\* The array in which the sweep looks killers up holds only who was in play.
LEMMA KillerInPlay ==
  ASSUME EngineAssumption, TypeOK, NEW h, NEW n \in Nat, n <= Len(entities),
         NEW sweep, SweptWell(sweep, h, n), NEW killer,
         Contains(sweep.kept \o SubSeq(entities, Len(sweep.kept) + 1, Len(entities)), killer)
  PROVE  killer \in InPlay
<1> DEFINE s == sweep.kept
           t == SubSeq(entities, Len(s) + 1, Len(entities))
<1>1. entities \in Seq(InPlay)
  BY InPlayFacts
<1>2. s \in Seq(Passed(h, n)) /\ Len(s) \in Nat
  BY LenProperties DEF SweptWell
<1>3. s \in Seq(InPlay)
  <2>1. Len(entities) \in Nat /\ DOMAIN entities = 1 .. Len(entities)
    BY <1>1, LenProperties
  <2>2. \A i \in 1 .. n : i \in DOMAIN entities
    BY <2>1
  <2>3. Passed(h, n) \subseteq InPlay
    BY <2>2 DEF Passed, InPlay, ToSet
  <2>4. QED
    BY <1>2, <2>3, SeqMonotonic
<1>4. t \in Seq(InPlay)
  <2> HIDE DEF s
  <2>1. Len(entities) \in Nat /\ \A i \in 1 .. Len(entities) : entities[i] \in InPlay
    BY <1>1, LenProperties, ElementOfSeq
  <2>2. Len(s) + 1 \in Int /\ Len(entities) \in Int
        /\ \A i \in Len(s) + 1 .. Len(entities) : entities[i] \in InPlay
    BY <1>2, <2>1
  <2>3. QED
    BY <1>1, <2>2, SubSeqProperties
<1>5. Contains(s \o t, killer)
  OBVIOUS
<1> HIDE DEF s, t
<1>6. s \o t \in Seq(InPlay)
  BY <1>3, <1>4, ConcatProperties
<1>7. PICK i \in 1 .. Len(s \o t) : (s \o t)[i] = killer
  BY <1>5 DEF Contains
<1>8. QED
  BY <1>6, <1>7, ElementOfSeq

LEMMA BackedStep ==
  ASSUME EngineAssumption, TypeOK, NEW h, NEW n \in Nat, n + 1 <= Len(entities),
         NEW sweep, SweptWell(sweep, h, n), Backed(sweep.score, sweep.credit, Remaining(sweep, n)),
         NEW next, next = Swept(sweep, entities[n + 1])
  PROVE  Backed(next.score, next.credit, Remaining(next, n + 1))
<1>1. PICK e : e = entities[n + 1]
  OBVIOUS
<1>2. next = Swept(sweep, e)
  BY <1>1
<1>3. PICK S : S = Remaining(sweep, n)
  OBVIOUS
<1>4. PICK killer : killer = attacker[e]
  OBVIOUS
<1>5. n <= Len(entities)
  BY LenProperties DEF TypeOK
<1>6. /\ e \in S /\ e \in Id
      /\ h[e] > 0 => Remaining(next, n + 1) = S
      /\ ~ (h[e] > 0) => Remaining(next, n + 1) = S \ {e}
  <2>1. Remainder(sweep, h, n, e, next)
    BY <1>1, <1>2, RemainingStep
  <2>2. QED
    BY <1>3, <2>1 DEF Remainder
<1>7. S \in SUBSET Id /\ IsFiniteSet(S) /\ S \subseteq spawned
  BY <1>3, <1>5, RemainingFacts
<1>8. sweep.score \in [TankId -> Nat] /\ sweep.credit \in [Id -> TankId \cup {None}]
  BY DEF SweptWell
<1>9. Backed(sweep.score, sweep.credit, S)
  BY <1>3
<1> DEFINE array == sweep.kept \o SubSeq(entities, Len(sweep.kept) + 1, Len(entities))
<1>10. \/ /\ h[e] > 0
          /\ next.score = sweep.score /\ next.credit = sweep.credit
       \/ /\ ~ (h[e] > 0) /\ next = sweep
       \/ /\ ~ (h[e] > 0) /\ killer \in TankId /\ Contains(array, killer)
          /\ next.score = [sweep.score EXCEPT ![killer] = @ + Worth(e, sweep.score)]
          /\ next.credit = [sweep.credit EXCEPT ![e] = killer]
  <2>1. SweptCase(sweep, h, e, next)
    BY <1>2, SweptCases
  <2>2. QED
    BY <1>4, <2>1, Zenon DEF SweptCase
<1> HIDE DEF array
<1>11. QED
  <2>1. CASE h[e] > 0 /\ next.score = sweep.score /\ next.credit = sweep.credit
    BY <1>6, <1>9, <2>1
  <2>2. CASE ~ (h[e] > 0) /\ next = sweep
    <3>1. Backed(sweep.score, sweep.credit, S \ {e})
      BY <1>7, <1>8, <1>9, BackedFewer
    <3>2. QED
      BY <1>6, <2>2, <3>1
  <2>3. CASE /\ ~ (h[e] > 0) /\ killer \in TankId /\ Contains(array, killer)
             /\ next.score = [sweep.score EXCEPT ![killer] = @ + Worth(e, sweep.score)]
             /\ next.credit = [sweep.credit EXCEPT ![e] = killer]
    <3>1. killer \in InPlay
      BY <1>5, <2>3, KillerInPlay DEF array
    <3>2. killer \in TankId \cap spawned
      BY <2>3, <3>1 DEF TypeOK
    <3>3. Backed(next.score, next.credit, S \ {e})
      <4>1. PICK scores : scores = sweep.score
        OBVIOUS
      <4>2. PICK given : given = sweep.credit
        OBVIOUS
      <4>3. scores \in [TankId -> Nat] /\ given \in [Id -> TankId \cup {None}] /\ Backed(scores, given, S)
        BY <1>8, <1>9, <4>1, <4>2
      <4>4. Backed([scores EXCEPT ![killer] = @ + Worth(e, scores)], [given EXCEPT ![e] = killer], S \ {e})
        BY <1>6, <1>7, <3>2, <4>3, BackedKill
      <4>5. QED
        BY <2>3, <4>1, <4>2, <4>4
    <3>4. QED
      BY <1>6, <2>3, <3>3
  <2>4. QED
    BY <1>10, <2>1, <2>2, <2>3

\* Scores are backed whenever the sweep has come to an entity.
LEMMA SweepBacked ==
  ASSUME EngineAssumption, TypeOK, ScoreSound, NEW sweep \in Sweeps
  PROVE  Backed(sweep.score, sweep.credit, ToSet(sweep.kept))
<1>1. PICK h : sweep = Sweep(h)
  BY DEF Sweeps
<1>2. PICK m : m = Len(entities)
  OBVIOUS
<1>3. m \in Nat /\ DOMAIN entities = 1 .. m
  BY <1>2, LenProperties DEF TypeOK
<1>4. PICK after : /\ IsSweep(after, h, m) /\ Sweep(h) = after[m]
                   /\ \A k \in 0 .. m : SweptWell(after[k], h, k)
  BY <1>2, SweepRuns
<1> DEFINE start == [health |-> h, kept |-> <<>>, score |-> score, credit |-> credit]
           Fine(k) == Backed(after[k].score, after[k].credit, Remaining(after[k], k))
           Bad == {k \in 0 .. m : ~ Fine(k)}
<1>5. \A k \in 0 .. m : after[k] = IF k = 0 THEN start ELSE Swept(after[k - 1], entities[k])
  BY <1>4 DEF IsSweep
<1>6. Bad = {}
  <2>1. SUFFICES ASSUME Bad # {} PROVE FALSE
    OBVIOUS
  <2>2. Bad \in SUBSET Nat
    BY <1>3
  <2>3. PICK k \in Bad : \A j \in Bad : k <= j
    BY <2>1, <2>2, LeastNumber
  <2>4. k \in 0 .. m /\ ~ Fine(k)
    OBVIOUS
  <2>5. CASE k = 0
    <3>1. after[0] = start
      BY <1>3, <1>5
    <3>2. after[0].score = score /\ after[0].credit = credit /\ after[0].kept = <<>>
      BY <3>1
    <3>3. Remaining(after[0], 0) = InPlay
      <4>1. 0 + 1 .. Len(entities) = DOMAIN entities
        BY <1>2, <1>3
      <4>2. ToSet(after[0].kept) = {}
        BY <3>2 DEF ToSet
      <4>3. InPlay = {entities[i] : i \in DOMAIN entities}
        BY DEF InPlay, ToSet
      <4>4. QED
        BY <4>1, <4>2, <4>3, Zenon DEF Remaining
    <3>4. QED
      BY <2>4, <2>5, <3>2, <3>3 DEF ScoreSound
  <2>6. CASE k # 0
    <3>1. k - 1 \in Nat /\ k - 1 \in 0 .. m /\ ~ (k <= k - 1) /\ (k - 1) + 1 = k /\ k <= m
      BY <1>3, <2>4, <2>6
    <3>2. k - 1 \notin Bad
      BY <2>3, <3>1
    <3>3. Fine(k - 1)
      BY <3>1, <3>2
    <3>4. PICK j : j = k - 1
      OBVIOUS
    <3>5. /\ j \in Nat /\ j + 1 = k /\ SweptWell(after[j], h, j) /\ Fine(j)
          /\ after[k] = Swept(after[j], entities[j + 1])
      BY <1>4, <1>5, <2>4, <2>6, <3>1, <3>3, <3>4
    <3>6. j + 1 <= Len(entities)
      BY <1>2, <3>1, <3>5
    <3>7. PICK before : before = after[j]
      OBVIOUS
    <3>8. PICK next : next = after[k]
      OBVIOUS
    <3>9. /\ SweptWell(before, h, j) /\ next = Swept(before, entities[j + 1])
          /\ Backed(before.score, before.credit, Remaining(before, j))
      BY <3>5, <3>7, <3>8
    <3>10. Backed(next.score, next.credit, Remaining(next, j + 1))
      BY <3>5, <3>6, <3>9, BackedStep
    <3>11. QED
      BY <2>4, <3>5, <3>8, <3>10
  <2>7. QED
    BY <2>5, <2>6
<1>7. Fine(m)
  BY <1>3, <1>6
<1>8. Remaining(sweep, m) = ToSet(sweep.kept)
  BY <1>2, <1>3 DEF Remaining
<1>9. QED
  BY <1>1, <1>4, <1>7, <1>8

LEMMA InitScoreSound ==
  ASSUME EngineAssumption, Init
  PROVE  ScoreSound
<1>1. InPlay = {} /\ Credited(credit) = {}
  BY DEF Init, InPlay, ToSet, Credited, Id
<1>2. Sum(score, {}) = 0
  BY SumEmpty
<1>3. IsFiniteSet({}) /\ Cardinality({}) = 0
  BY FS_EmptySet
<1>4. FoodValue * 0 = 0
  BY EngineConstants
<1>5. \A t \in TankId : score[t] = 0
  BY DEF Init
<1>6. InPlay \cap TankId = {}
  BY <1>1
<1>7. QED
  BY <1>1, <1>2, <1>3, <1>4, <1>5, <1>6 DEF ScoreSound, Backed

\* Who joins play brings no score.
LEMMA BackedMore ==
  ASSUME EngineAssumption, TypeOK, ScoreSound, NEW e \in Id \ spawned,
         InPlay' = InPlay \cup {e}, spawned' = spawned \cup {e},
         score' = score, credit' = credit
  PROVE  ScoreSound'
<1>1. /\ IsFiniteSet(Credited(credit)) /\ Credited(credit) \subseteq spawned \ InPlay
      /\ \A t \in TankId \ spawned : score[t] = 0
      /\ Sum(score, InPlay \cap TankId) <= FoodValue * Cardinality(Credited(credit))
  BY DEF ScoreSound, Backed
<1>2. score \in [TankId -> Nat] /\ InPlay \subseteq spawned
  BY DEF TypeOK
<1>3. IsFiniteSet(InPlay \cap TankId)
  BY InPlayFacts, FS_Subset
<1> DEFINE T == (InPlay \cup {e}) \cap TankId
<1>4. Sum(score, T) = Sum(score, InPlay \cap TankId)
  <2>1. CASE e \in TankId
    <3>1. T = (InPlay \cap TankId) \cup {e} /\ T \ {e} = InPlay \cap TankId /\ e \in T
      BY <1>2, <2>1
    <3>2. IsFiniteSet(T)
      BY <1>3, <3>1, FS_AddElement
    <3>3. \A t \in T : score[t] \in Nat
      BY <1>2
    <3> HIDE DEF T
    <3>4. Sum(score, T) = score[e] + Sum(score, T \ {e})
      BY <3>1, <3>2, <3>3, SumTakenOut
    <3>5. score[e] = 0
      BY <1>1, <2>1
    <3>6. Sum(score, T \ {e}) \in Nat
      BY <1>2, <1>3, <3>1, SumTakenOut
    <3>7. QED
      BY <3>1, <3>4, <3>5, <3>6
  <2>2. CASE e \notin TankId
    <3>1. T = InPlay \cap TankId
      BY <2>2
    <3>2. QED
      BY <3>1
  <2>3. QED
    BY <2>1, <2>2
<1>5. Credited(credit') = Credited(credit)
  OBVIOUS
<1>6. /\ IsFiniteSet(Credited(credit')) /\ Credited(credit') \subseteq spawned' \ InPlay'
      /\ \A t \in TankId \ spawned' : score'[t] = 0
      /\ Sum(score', InPlay' \cap TankId) <= FoodValue * Cardinality(Credited(credit'))
  BY <1>1, <1>4, <1>5
<1>7. QED
  BY <1>6 DEF ScoreSound, Backed

LEMMA TickScoreSound ==
  ASSUME EngineAssumption, TypeOK, ScoreSound, NEW sweep \in Sweeps, NEW new \in Refill(sweep.kept),
         NEW foes, Turn(sweep, new, foes)
  PROVE  ScoreSound'
<1>1. Backed(sweep.score, sweep.credit, ToSet(sweep.kept))
  BY SweepBacked
<1>2. /\ InPlay' = ToSet(sweep.kept) \cup Range(new) /\ Range(new) \subseteq FoodId \ spawned
      /\ spawned' = spawned \cup Range(new) /\ score' = sweep.score /\ credit' = sweep.credit
  BY AfterTick DEF Turn
<1>3. InPlay' \cap TankId = ToSet(sweep.kept) \cap TankId
  BY <1>2, EngineConstants
<1>4. QED
  BY <1>1, <1>2, <1>3 DEF ScoreSound, Backed, Credited

LEMMA NextScoreSound ==
  ASSUME EngineAssumption, TypeOK, ScoreSound, [Next]_vars
  PROVE  ScoreSound'
<1>1. CASE UNCHANGED vars
  <2>1. InPlay' = InPlay /\ spawned' = spawned /\ score' = score /\ credit' = credit
    BY <1>1 DEF vars, InPlay
  <2>2. QED
    BY <2>1 DEF ScoreSound, Backed
<1>2. ASSUME NEW t \in TankId, SpawnTank(t) PROVE ScoreSound'
  <2>1. t \in Id \ spawned
    BY <1>2 DEF SpawnTank, Id
  <2>2. /\ InPlay' = InPlay \cup {t} /\ spawned' = spawned \cup {t}
        /\ score' = score /\ credit' = credit
    BY <1>2, <2>1, Joined DEF SpawnTank
  <2>3. QED
    BY <2>1, <2>2, BackedMore
<1>3. ASSUME NEW t \in TankId, RemoveTank(t) PROVE ScoreSound'
  <2>1. entities \in Seq(Id) /\ IsInjective(entities)
    BY DEF TypeOK
  <2>2. InPlay' = InPlay \ {t}
    BY <1>3, <2>1, RemoveAtFacts DEF RemoveTank, InPlay
  <2>3. spawned' = spawned /\ score' = score /\ credit' = credit
    BY <1>3 DEF RemoveTank
  <2>4. Backed(score, credit, InPlay \ {t})
    BY InPlayFacts, BackedFewer DEF ScoreSound, TypeOK
  <2>5. QED
    BY <2>2, <2>3, <2>4 DEF ScoreSound, Backed
<1>4. ASSUME NEW t \in TankId, NEW b \in BulletId, Fire(t, b) PROVE ScoreSound'
  <2>1. b \in Id \ spawned
    BY <1>4 DEF Fire, Id
  <2>2. /\ InPlay' = InPlay \cup {b} /\ spawned' = spawned \cup {b}
        /\ score' = score /\ credit' = credit
    BY <1>4, <2>1, Joined DEF Fire
  <2>3. QED
    BY <2>1, <2>2, BackedMore
<1>5. ASSUME Tick PROVE ScoreSound'
  BY <1>5, TickScoreSound DEF Tick
<1>6. QED
  BY <1>1, <1>2, <1>3, <1>4, <1>5 DEF Next

-----------------------------------------------------------------------------
(* Killers are found.                                                      *)

\* A victim is paid for, if who killed it survives.
Settled(sweep, h, e) ==
    (~ (h[e] > 0) /\ attacker[e] \in TankId \cap InPlay /\ h[attacker[e]] > 0) =>
        /\ sweep.credit[e] = attacker[e]
        /\ sweep.score[attacker[e]] >= score[attacker[e]] + Worth(e, score)

\* What makes the sweep pay: it has not overwritten what it has not read, and it has
\* lost no survivor.
PaysWell(sweep, h, n) ==
    /\ Len(sweep.kept) <= n
    /\ \A i \in 1 .. n : h[entities[i]] > 0 => entities[i] \in ToSet(sweep.kept)
    /\ \A t \in TankId : score[t] <= sweep.score[t]
    /\ \A i \in 1 .. n : Settled(sweep, h, entities[i])

\* A sequence written over the front of another, no longer than what has been read of it.
LEMMA OverwrittenHolds ==
  ASSUME NEW T, NEW s \in Seq(T), NEW r \in Seq(T), NEW n \in Nat, Len(s) <= n, n <= Len(r), NEW x,
         x \in ToSet(s) \/ \E j \in 1 .. Len(r) : j > n /\ r[j] = x
  PROVE  Contains(s \o SubSeq(r, Len(s) + 1, Len(r)), x)
<1>1. PICK l \in Nat, m \in Nat : l = Len(s) /\ m = Len(r)
  BY LenProperties
<1>2. DOMAIN s = 1 .. l /\ DOMAIN r = 1 .. m /\ \A j \in 1 .. m : r[j] \in T
  BY <1>1, LenProperties, ElementOfSeq
<1>3. l <= n /\ n <= m
  BY <1>1
<1>4. PICK t : t = SubSeq(r, l + 1, m)
  OBVIOUS
<1>5. l + 1 \in Int /\ m \in Int /\ \A j \in l + 1 .. m : r[j] \in T
  BY <1>1, <1>2
<1>6. /\ t \in Seq(T)
      /\ Len(t) = IF l + 1 <= m THEN m - (l + 1) + 1 ELSE 0
      /\ \A i \in 1 .. m - (l + 1) + 1 : t[i] = r[(l + 1) + i - 1]
  BY <1>4, <1>5, SubSeqProperties
<1>7. Len(t) = m - l /\ \A i \in 1 .. m - l : t[i] = r[l + i]
  <2>1. (l + 1 <= m => m - (l + 1) + 1 = m - l) /\ (~ (l + 1 <= m) => m - l = 0)
    BY <1>1, <1>3
  <2>2. m - (l + 1) + 1 = m - l /\ \A i \in 1 .. m - l : (l + 1) + i - 1 = l + i
    BY <1>1
  <2>3. QED
    BY <1>6, <2>1, <2>2
<1>8. /\ Len(s \o t) = l + Len(t)
      /\ \A i \in 1 .. l + Len(t) : (s \o t)[i] = IF i <= l THEN s[i] ELSE t[i - l]
  BY <1>1, <1>6, ConcatProperties
<1>9. Len(s \o t) = m
  BY <1>1, <1>7, <1>8
<1>10. CASE x \in ToSet(s)
  <2>1. PICK i \in 1 .. l : s[i] = x
    BY <1>2, <1>10 DEF ToSet
  <2>2. i \in 1 .. m /\ i <= l /\ i \in 1 .. l + Len(t)
    BY <1>1, <1>3, <1>7, <2>1
  <2>3. (s \o t)[i] = x
    BY <1>8, <2>1, <2>2
  <2>4. QED
    BY <1>1, <1>4, <1>9, <2>2, <2>3 DEF Contains
<1>11. CASE \E j \in 1 .. Len(r) : j > n /\ r[j] = x
  <2>1. PICK j \in 1 .. m : j > n /\ r[j] = x
    BY <1>1, <1>11
  <2>2. ~ (j <= l) /\ j - l \in 1 .. m - l /\ l + (j - l) = j /\ j \in 1 .. l + Len(t)
    BY <1>1, <1>3, <1>7, <2>1
  <2>3. (s \o t)[j] = x
    BY <1>7, <1>8, <2>1, <2>2
  <2>4. QED
    BY <1>1, <1>4, <1>9, <2>1, <2>3 DEF Contains
<1>12. QED
  BY <1>10, <1>11

LEMMA WorthGrows ==
  ASSUME EngineAssumption, NEW less \in [TankId -> Nat], NEW more \in [TankId -> Nat],
         \A t \in TankId : less[t] <= more[t], NEW e
  PROVE  Worth(e, less) <= Worth(e, more) /\ Worth(e, less) \in Nat /\ Worth(e, more) \in Nat
<1>1. \A m, n \in Nat : m <= n => m \div 2 <= n \div 2
  OBVIOUS
<1>2. CASE e \in TankId
  <2>1. PICK m \in Nat, n \in Nat : m = less[e] /\ n = more[e] /\ m <= n
    BY <1>2
  <2>2. Worth(e, less) = m \div 2 /\ Worth(e, more) = n \div 2
    BY <1>2, <2>1 DEF Worth
  <2>3. m \div 2 \in Nat /\ n \div 2 \in Nat
    BY <2>1
  <2>4. QED
    BY <1>1, <2>1, <2>2, <2>3
<1>3. CASE e \notin TankId
  BY <1>3, EngineConstants DEF Worth
<1>4. QED
  BY <1>2, <1>3

LEMMA GrownBy ==
  ASSUME NEW a \in Nat, NEW b \in Nat, NEW c \in Nat, NEW w \in Nat,
         a <= b, c = b + w \/ c = b
  PROVE  b <= c /\ a <= c
OBVIOUS

LEMMA PaysStep ==
  ASSUME EngineAssumption, TypeOK, NEW h, NEW n \in Nat, n + 1 <= Len(entities),
         NEW sweep, SweptWell(sweep, h, n), PaysWell(sweep, h, n),
         NEW next, next = Swept(sweep, entities[n + 1])
  PROVE  PaysWell(next, h, n + 1)
<1>1. PICK m \in Nat : /\ m = Len(entities) /\ DOMAIN entities = 1 .. m
                       /\ entities \in Seq(InPlay) /\ \A i \in 1 .. m : entities[i] \in Id
  BY InPlayFacts, LenProperties, ElementOfSeq
<1>2. IsInjective(entities)
  BY DEF TypeOK
<1>3. /\ n + 1 \in 1 .. m /\ n <= m
      /\ \A i \in 1 .. n : i \in 1 .. m /\ i # n + 1
      /\ \A i \in 1 .. n + 1 : i = n + 1 \/ i \in 1 .. n
  <2>1. n + 1 <= m
    BY <1>1
  <2>2. n + 1 \in 1 .. m /\ n <= m
    BY <2>1
  <2>3. \A i \in 1 .. n : i \in 1 .. m /\ i # n + 1
    BY <2>1
  <2>4. \A i \in 1 .. n + 1 : i = n + 1 \/ i \in 1 .. n
    OBVIOUS
  <2>5. QED
    BY <2>2, <2>3, <2>4
<1>4. PICK e : e = entities[n + 1]
  OBVIOUS
<1>5. e \in Id /\ \A i \in 1 .. n : entities[i] # e
  BY <1>1, <1>2, <1>3, <1>4 DEF IsInjective
<1>6. PICK killer : killer = attacker[e]
  OBVIOUS
<1>7. PICK kept, scores, given : kept = sweep.kept /\ scores = sweep.score /\ given = sweep.credit
  OBVIOUS
<1>8. /\ scores \in [TankId -> Nat] /\ given \in [Id -> TankId \cup {None}] /\ score \in [TankId -> Nat]
      /\ kept \in Seq(Passed(h, n))
  BY <1>7 DEF SweptWell, TypeOK
<1>9. Passed(h, n) \subseteq InPlay
  BY <1>1, <1>3 DEF Passed, InPlay, ToSet
<1>10. kept \in Seq(InPlay) /\ Len(kept) \in Nat /\ kept \in Seq(Id)
  BY <1>8, <1>9, SeqMonotonic, LenProperties, InPlayFacts
<1>11. /\ Len(kept) <= n
       /\ \A i \in 1 .. n : h[entities[i]] > 0 => entities[i] \in ToSet(kept)
       /\ \A t \in TankId : score[t] <= scores[t]
       /\ \A i \in 1 .. n : Settled(sweep, h, entities[i])
  BY <1>7 DEF PaysWell
<1>12. ASSUME killer \in InPlay, h[killer] > 0, ~ (h[e] > 0)
       PROVE  Contains(kept \o SubSeq(entities, Len(kept) + 1, Len(entities)), killer)
  <2>1. PICK j \in 1 .. m : entities[j] = killer
    BY <1>1, <1>12 DEF InPlay, ToSet
  <2>2. killer \in ToSet(kept) \/ \E i \in 1 .. Len(entities) : i > n /\ entities[i] = killer
    <3>1. CASE j \in 1 .. n
      BY <1>11, <1>12, <2>1, <3>1
    <3>2. CASE j \notin 1 .. n
      <4>1. j > n
        BY <1>1, <3>2
      <4>2. QED
        BY <1>1, <2>1, <4>1
    <3>3. QED
      BY <3>1, <3>2
  <2>3. Len(kept) <= n /\ n <= Len(entities)
    BY <1>1, <1>3, <1>11
  <2>4. QED
    BY <1>1, <1>10, <2>2, <2>3, OverwrittenHolds
<1>13. \/ /\ h[e] > 0 /\ next.kept = Append(kept, e)
          /\ next.score = scores /\ next.credit = given
       \/ /\ ~ (h[e] > 0) /\ next = sweep
          /\ ~ (killer \in TankId /\ Contains(kept \o SubSeq(entities, Len(kept) + 1, Len(entities)), killer))
       \/ /\ ~ (h[e] > 0) /\ killer \in TankId
          /\ next.kept = kept
          /\ next.score = [scores EXCEPT ![killer] = @ + Worth(e, scores)]
          /\ next.credit = [given EXCEPT ![e] = killer]
  <2>1. SweptCase(sweep, h, e, next)
    BY <1>4, SweptCases
  <2>2. next = sweep /\ ~ (h[e] > 0)
          /\ killer \in TankId /\ Contains(kept \o SubSeq(entities, Len(kept) + 1, Len(entities)), killer)
        => /\ next.kept = kept
           /\ next.score = [scores EXCEPT ![killer] = @ + Worth(e, scores)]
           /\ next.credit = [given EXCEPT ![e] = killer]
    <3> DEFINE array == kept \o SubSeq(entities, Len(kept) + 1, Len(entities))
               paid == [scores EXCEPT ![killer] = @ + Worth(e, scores)]
               owed == [given EXCEPT ![e] = killer]
    <3>1. sweep = [health |-> h, kept |-> kept, score |-> scores, credit |-> given]
          /\ sweep.health = h
      BY <1>7 DEF SweptWell
    <3>2. next = IF h[e] > 0 THEN [sweep EXCEPT !.kept = Append(kept, e)]
                 ELSE IF killer \in TankId /\ Contains(array, killer)
                      THEN [sweep EXCEPT !.score = paid, !.credit = owed] ELSE sweep
      BY <1>4, <1>6, <1>7, <3>1 DEF Swept
    <3> HIDE DEF array, paid, owed
    <3>3. ASSUME ~ (h[e] > 0), killer \in TankId, Contains(array, killer)
          PROVE  next.kept = kept /\ next.score = paid /\ next.credit = owed
      BY <3>1, <3>2, <3>3
    <3>4. QED
      BY <3>3 DEF array, paid, owed
  <2>3. QED
    BY <1>6, <1>7, <2>1, <2>2, Zenon DEF SweptCase
<1>14. CASE h[e] > 0 /\ next.kept = Append(kept, e) /\ next.score = scores /\ next.credit = given
  <2>1. Len(next.kept) <= n + 1
    BY <1>5, <1>10, <1>11, <1>14
  <2>2. ToSet(next.kept) = ToSet(kept) \cup {e}
    BY <1>10, <1>14, AppendSet
  <2>3. \A i \in 1 .. n + 1 : h[entities[i]] > 0 => entities[i] \in ToSet(next.kept)
    BY <1>3, <1>4, <1>11, <2>2
  <2>4. \A i \in 1 .. n + 1 : Settled(next, h, entities[i])
    BY <1>3, <1>4, <1>7, <1>11, <1>14 DEF Settled
  <2>5. QED
    BY <1>11, <1>14, <2>1, <2>3, <2>4 DEF PaysWell
<1>15. CASE /\ ~ (h[e] > 0) /\ next = sweep
            /\ ~ (killer \in TankId /\ Contains(kept \o SubSeq(entities, Len(kept) + 1, Len(entities)), killer))
  <2>1. Len(next.kept) <= n + 1
    <3>1. next.kept = kept
      BY <1>7, <1>15
    <3>2. Len(kept) <= n + 1
      BY <1>10, <1>11
    <3>3. QED
      BY <3>1, <3>2
  <2>2. \A i \in 1 .. n + 1 : h[entities[i]] > 0 => entities[i] \in ToSet(next.kept)
    BY <1>3, <1>4, <1>7, <1>11, <1>15
  <2>3. Settled(next, h, e)
    BY <1>6, <1>12, <1>15 DEF Settled
  <2>4. \A i \in 1 .. n + 1 : Settled(next, h, entities[i])
    BY <1>3, <1>4, <1>11, <1>15, <2>3
  <2>5. QED
    BY <1>7, <1>11, <1>15, <2>1, <2>2, <2>4 DEF PaysWell
<1>16. CASE /\ ~ (h[e] > 0) /\ killer \in TankId /\ next.kept = kept
            /\ next.score = [scores EXCEPT ![killer] = @ + Worth(e, scores)]
            /\ next.credit = [given EXCEPT ![e] = killer]
  <2>1. Len(next.kept) <= n + 1
    BY <1>10, <1>11, <1>16
  <2>2. \A i \in 1 .. n + 1 : h[entities[i]] > 0 => entities[i] \in ToSet(next.kept)
    BY <1>3, <1>4, <1>11, <1>16
  <2>3. PICK worth \in Nat, least \in Nat :
          worth = Worth(e, scores) /\ least = Worth(e, score) /\ least <= worth
    BY <1>8, <1>11, WorthGrows
  <2>4. PICK paid \in [TankId -> Nat] :
          /\ paid = next.score /\ paid[killer] = scores[killer] + worth
          /\ \A t \in TankId : t # killer => paid[t] = scores[t]
    <3>1. [scores EXCEPT ![killer] = @ + worth] \in [TankId -> Nat]
      BY <1>8, <1>16, <2>3, Added
    <3>2. next.score = [scores EXCEPT ![killer] = @ + worth]
      BY <1>16, <2>3
    <3>3. QED
      BY <1>8, <1>16, <3>1, <3>2
  <2>5. \A t \in TankId : /\ scores[t] \in Nat /\ paid[t] \in Nat /\ score[t] \in Nat
                          /\ scores[t] <= paid[t] /\ score[t] <= paid[t]
    <3> TAKE t \in TankId
    <3>1. scores[t] \in Nat /\ paid[t] \in Nat /\ score[t] \in Nat /\ score[t] <= scores[t]
      BY <1>8, <1>11, <2>4
    <3>2. PICK a \in Nat, b \in Nat, c \in Nat : a = score[t] /\ b = scores[t] /\ c = paid[t]
      BY <3>1
    <3>3. a <= b
      BY <3>1, <3>2
    <3>4. c = b + worth \/ c = b
      BY <2>4, <3>2
    <3>5. b <= c /\ a <= c
      BY <3>3, <3>4, GrownBy
    <3>6. QED
      BY <3>1, <3>2, <3>5
  <2>6. next.credit[e] = killer /\ \A i \in 1 .. n : next.credit[entities[i]] = given[entities[i]]
    BY <1>1, <1>3, <1>5, <1>8, <1>16
  <2>7. Settled(next, h, e)
    <3>1. PICK a \in Nat, b \in Nat, c \in Nat :
            a = score[killer] /\ b = scores[killer] /\ c = paid[killer]
      BY <1>16, <2>5
    <3>2. a <= b /\ c = b + worth
      BY <1>11, <1>16, <2>4, <3>1
    <3>3. least <= worth
      BY <2>3
    <3>4. c >= a + least
      BY <3>2, <3>3
    <3>5. QED
      BY <1>6, <2>3, <2>4, <2>6, <3>1, <3>4 DEF Settled
  <2>8. ASSUME NEW i \in 1 .. n
        PROVE  Settled(next, h, entities[i])
    <3>1. PICK v : v = entities[i]
      OBVIOUS
    <3>2. PICK k : k = attacker[v]
      OBVIOUS
    <3> SUFFICES ASSUME ~ (h[v] > 0), k \in TankId \cap InPlay, h[k] > 0
                 PROVE  next.credit[v] = k /\ next.score[k] >= score[k] + Worth(v, score)
      BY <3>1, <3>2 DEF Settled
    <3>3. given[v] = k /\ scores[k] >= score[k] + Worth(v, score)
      BY <1>7, <1>11, <3>1, <3>2 DEF Settled
    <3>4. PICK w \in Nat : w = Worth(v, score)
      BY <1>8, WorthNat
    <3>5. PICK a \in Nat, b \in Nat, c \in Nat : a = score[k] /\ b = scores[k] /\ c = paid[k]
      BY <2>5
    <3>6. b <= c /\ b >= a + w
      BY <2>5, <3>3, <3>4, <3>5
    <3>7. c >= a + w
      BY <3>6
    <3>8. QED
      BY <2>4, <2>6, <3>1, <3>3, <3>4, <3>5, <3>7
  <2>9. \A i \in 1 .. n + 1 : Settled(next, h, entities[i])
    BY <1>3, <1>4, <2>7, <2>8
  <2>10. \A t \in TankId : score[t] <= next.score[t]
    BY <2>4, <2>5
  <2>11. QED
    BY <2>1, <2>2, <2>9, <2>10 DEF PaysWell
<1>17. QED
  BY <1>13, <1>14, <1>15, <1>16

LEMMA Predecessor ==
  ASSUME NEW m \in Nat, NEW k \in 0 .. m, k # 0
  PROVE  k - 1 \in Nat /\ (k - 1) + 1 = k /\ k - 1 \in 0 .. m /\ ~ (k <= k - 1) /\ k <= m
OBVIOUS

\* The whole sweep pays.
LEMMA SweepPays ==
  ASSUME EngineAssumption, TypeOK, NEW h
  PROVE  PaysWell(Sweep(h), h, Len(entities))
<1>1. PICK m \in Nat : m = Len(entities)
  BY LenProperties DEF TypeOK
<1>2. PICK after : /\ IsSweep(after, h, m) /\ Sweep(h) = after[m]
                   /\ \A k \in 0 .. m : SweptWell(after[k], h, k)
  BY <1>1, SweepRuns
<1> DEFINE start == [health |-> h, kept |-> <<>>, score |-> score, credit |-> credit]
           Bad == {k \in 0 .. m : ~ PaysWell(after[k], h, k)}
<1>3. \A k \in 0 .. m : after[k] = IF k = 0 THEN start ELSE Swept(after[k - 1], entities[k])
  BY <1>2 DEF IsSweep
<1>4. Bad = {}
  <2>1. SUFFICES ASSUME Bad # {} PROVE FALSE
    OBVIOUS
  <2>2. Bad \in SUBSET Nat
    BY <1>1
  <2>3. PICK k \in Bad : \A j \in Bad : k <= j
    BY <2>1, <2>2, LeastNumber
  <2>4. k \in 0 .. m /\ ~ PaysWell(after[k], h, k)
    OBVIOUS
  <2>5. CASE k = 0
    <3>1. after[0].kept = <<>> /\ after[0].score = score
      BY <1>1, <1>3
    <3>2. \A t \in TankId : score[t] <= score[t]
      BY DEF TypeOK
    <3>3. PaysWell(after[0], h, 0)
      BY <3>1, <3>2 DEF PaysWell
    <3>4. QED
      BY <2>4, <2>5, <3>3
  <2>6. CASE k # 0
    <3>0. k - 1 \in Nat /\ (k - 1) + 1 = k /\ k - 1 \in 0 .. m /\ ~ (k <= k - 1) /\ k <= m
      BY <1>1, <2>4, <2>6, Predecessor
    <3>1. PICK j \in Nat : j = k - 1 /\ j + 1 = k /\ j \in 0 .. m /\ ~ (k <= j) /\ k <= m
      BY <3>0
    <3>2. PaysWell(after[j], h, j)
      BY <2>3, <3>1
    <3>3. PICK before : before = after[j]
      OBVIOUS
    <3>4. PICK next : next = after[k]
      OBVIOUS
    <3>5. SweptWell(before, h, j) /\ PaysWell(before, h, j) /\ next = Swept(before, entities[j + 1])
          /\ j + 1 <= Len(entities)
      BY <1>1, <1>2, <1>3, <2>4, <2>6, <3>1, <3>2, <3>3, <3>4
    <3>6. PaysWell(next, h, j + 1)
      BY <3>1, <3>5, PaysStep
    <3>7. QED
      BY <2>4, <3>1, <3>4, <3>6
  <2>7. QED
    BY <2>5, <2>6
<1>5. m \in 0 .. m
  BY <1>1
<1>6. QED
  BY <1>1, <1>2, <1>4, <1>5

\* A tick pays a killer that survives it.
LEMMA TickPays ==
  ASSUME EngineAssumption, TypeOK, NEW sweep \in Sweeps, NEW new \in Refill(sweep.kept),
         NEW foes, Turn(sweep, new, foes), NEW e \in InPlay \ InPlay', NEW killer,
         killer = attacker[e], killer \in TankId \cap InPlay \cap InPlay'
  PROVE  credit'[e] = killer /\ score'[killer] >= score[killer] + Worth(e, score)
<1>1. PICK h : sweep = Sweep(h)
  BY DEF Sweeps
<1>2. PICK m \in Nat : m = Len(entities) /\ DOMAIN entities = 1 .. m
  BY LenProperties DEF TypeOK
<1>3. PaysWell(sweep, h, m) /\ SweptWell(sweep, h, m)
  BY <1>1, <1>2, SweepPays, SweepFacts
<1>4. InPlay' = ToSet(sweep.kept) \cup Range(new) /\ Range(new) \subseteq FoodId \ spawned
  BY AfterTick
<1>5. PICK i \in 1 .. m : entities[i] = e
  BY <1>2 DEF InPlay, ToSet
<1>6. ~ (h[e] > 0)
  BY <1>3, <1>4, <1>5 DEF PaysWell
<1>7. killer \in ToSet(sweep.kept)
  BY <1>4, EngineConstants
<1>8. h[killer] > 0
  <2>1. sweep.kept \in Seq(Passed(h, m))
    BY <1>3 DEF SweptWell
  <2>2. killer \in Passed(h, m)
    BY <1>7, <2>1, ElementsFinite
  <2>3. QED
    BY <2>2 DEF Passed
<1>9. Settled(sweep, h, e)
  BY <1>3, <1>5 DEF PaysWell
<1>10. sweep.credit[e] = killer /\ sweep.score[killer] >= score[killer] + Worth(e, score)
  BY <1>6, <1>8, <1>9 DEF Settled
<1>11. QED
  BY <1>10 DEF Turn

LEMMA NextPays ==
  ASSUME EngineAssumption, TypeOK, [Next]_vars, NEW e \in InPlay \ InPlay', NEW killer,
         killer = attacker[e], killer \in TankId \cap InPlay \cap InPlay',
         ~ \E t \in TankId : RemoveTank(t)
  PROVE  credit'[e] = killer /\ score'[killer] >= score[killer] + Worth(e, score)
<1>1. CASE UNCHANGED vars
  BY <1>1 DEF vars, InPlay
<1>2. ASSUME NEW t \in TankId, SpawnTank(t) PROVE FALSE
  <2>1. t \in Id \ spawned
    BY <1>2 DEF SpawnTank, Id
  <2>2. InPlay' = InPlay \cup {t}
    BY <1>2, <2>1, Joined DEF SpawnTank
  <2>3. QED
    BY <2>2
<1>3. ASSUME NEW t \in TankId, NEW b \in BulletId, Fire(t, b) PROVE FALSE
  <2>1. b \in Id \ spawned
    BY <1>3 DEF Fire, Id
  <2>2. InPlay' = InPlay \cup {b}
    BY <1>3, <2>1, Joined DEF Fire
  <2>3. QED
    BY <2>2
<1>4. CASE Tick
  BY <1>4, TickPays DEF Tick
<1>5. QED
  BY <1>1, <1>2, <1>3, <1>4 DEF Next

-----------------------------------------------------------------------------
(* Theorems.                                                               *)

\* The invariant holds of every state of every game.
THEOREM EngineInductive == ASSUME EngineAssumption PROVE Spec => []EInv
<1>1. Init => EInv
  BY InitEInv
<1>2. EInv /\ [Next]_vars => EInv'
  BY NextEInv
<1>3. QED
  BY <1>1, <1>2, PTL DEF Spec

\* The game's tables stay what they are declared to be; IDs are never in play twice,
\* and whoever is in play was spawned.
THEOREM EngineTypeOK == ASSUME EngineAssumption PROVE Spec => []TypeOK
<1>1. EInv => TypeOK
  BY DEF EInv
<1>2. QED
  BY <1>1, EngineInductive, PTL

\* Every tick leaves exactly MaxFood foods, whatever died in it.
THEOREM EngineFoodSteady == ASSUME EngineAssumption PROVE Spec => []FoodSteady
<1>1. EInv => FoodSteady
  BY DEF EInv
<1>2. QED
  BY <1>1, EngineInductive, PTL

\* A bullet never hurts the tank that fired it, nor the tank its bullet, whoever else
\* they touch in the same tick and in whatever order contacts are resolved.
THEOREM EngineOwnBulletHarmless == ASSUME EngineAssumption PROVE Spec => []OwnBulletHarmless
<1>1. EInv => OwnBulletHarmless
  BY InPlayFacts DEF EInv, OwnersSpared, OwnBulletHarmless
<1>2. QED
  BY <1>1, EngineInductive, PTL

\* A bullet that has hit something never scores in a later tick, though it stays in
\* play until the next sweep.
THEOREM EngineBulletScoresOnce == ASSUME EngineAssumption PROVE Spec => BulletScoresOnce
<1>1. EInv /\ [Next]_vars => [\A b \in BulletId : hits[b] > 0 => hits'[b] = hits[b]]_vars
  BY NextEInv
<1>2. QED
  BY <1>1, EngineInductive, PTL DEF Spec, BulletScoresOnce

\* What the tanks in play hold is covered by the foods credited; a credited food is out
\* of play for good, and a tank that is not spawned yet holds nothing.
THEOREM EngineScoreSound == ASSUME EngineAssumption PROVE Spec => []ScoreSound
<1>1. Init => ScoreSound
  BY InitScoreSound
<1>2. TypeOK /\ ScoreSound /\ [Next]_vars => ScoreSound'
  BY NextScoreSound
<1>3. QED
  BY <1>1, <1>2, EngineTypeOK, PTL DEF Spec

\* The scores of the tanks in play never exceed the value of the foods that tanks were
\* credited with, however kills are chained within a sweep.
THEOREM EngineScoreBacked == ASSUME EngineAssumption PROVE Spec => []ScoreBacked
<1>1. ScoreSound => ScoreBacked
  BY DEF ScoreSound, Backed, ScoreBacked, Credited, Sum
<1>2. QED
  BY <1>1, EngineScoreSound, PTL

\* No kill is lost in the sweep: whoever hurt a victim last and survives the tick is
\* credited and paid, though killers are looked up in the array being overwritten.
THEOREM EngineKillersPaid == ASSUME EngineAssumption PROVE Spec => KillersPaid
<1> DEFINE Paid == \A e \in InPlay \ InPlay' :
                      LET killer == attacker[e]
                      IN  killer \in TankId \cap InPlay \cap InPlay' /\ ~ (\E t \in TankId : RemoveTank(t)) =>
                            /\ credit'[e] = killer
                            /\ score'[killer] >= score[killer] + Worth(e, score)
<1>1. TypeOK /\ [Next]_vars => [Paid]_vars
  BY NextPays
<1>2. QED
  BY <1>1, EngineTypeOK, PTL DEF Spec, KillersPaid
=============================================================================
