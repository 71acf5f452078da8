--------------------------- MODULE ApplyPlanProofs ---------------------------
(* Proofs about ApplyPlan, for any items, references, resources and edits.    *)
EXTENDS ApplyPlan, FiniteSetTheorems, SequenceTheorems, WellFoundedInduction, TLAPS

(***************************************************************************)
(* Induction and recursion over the natural numbers, for sets and          *)
(* functions instead of operators.                                         *)
(***************************************************************************)

\* A set of numbers with 0 and the successor of each of its elements has all.
LEMMA NatSetInduction ==
    ASSUME NEW T \in SUBSET Nat, 0 \in T, \A n \in T : n + 1 \in T
    PROVE \A n \in Nat : n \in T
<1> SUFFICES ASSUME Nat \ T # {} PROVE FALSE OBVIOUS
<1>1. PICK n \in Nat \ T : \A m \in Nat \ T : ~(<<m, n>> \in OpToRel(<, Nat))
  <2> DEFINE Out == Nat \ T
             R == OpToRel(<, Nat)
  <2>1. Out \subseteq Nat /\ Out # {} /\ IsWellFoundedOn(R, Nat) BY NatLessThanWellFounded
  <2> HIDE DEF Out, R
  <2>2. \E n \in Out : \A m \in Out : ~(<<m, n>> \in R) BY <2>1, WFMin
  <2> QED BY <2>2 DEF Out, R
<1>2. n # 0 OBVIOUS
<1>3. n - 1 \in Nat /\ n - 1 < n BY <1>2
<1>4. <<n - 1, n>> \in OpToRel(<, Nat) BY <1>3 DEF OpToRel
<1>5. n - 1 \in T BY <1>1, <1>3, <1>4
<1>6. (n - 1) + 1 = n OBVIOUS
<1> QED BY <1>5, <1>6

\* f is what the recursion from a with the step G gives for the first n.
Approximates(f, a, G, n) == f[0] = a /\ \A m \in Nat : m < n => f[m + 1] = G[<<m, f[m]>>]

\* f is what the recursion from a with the step G gives.
Iterates(f, a, G) == f[0] = a /\ \A n \in Nat : f[n + 1] = G[<<n, f[n]>>]

\* There is a function that iterates G from a.
LEMMA Recursion ==
    ASSUME NEW S, NEW a \in S, NEW G \in [Nat \X S -> S]
    PROVE \E f \in [Nat -> S] : Iterates(f, a, G)
<1> DEFINE T == {n \in Nat : \E f \in [Nat -> S] : Approximates(f, a, G, n)}
<1>1. \A n \in Nat : n \in T
  <2>1. 0 \in T
    <3>1. [n \in Nat |-> a] \in [Nat -> S] OBVIOUS
    <3>2. Approximates([n \in Nat |-> a], a, G, 0) BY DEF Approximates
    <3> QED BY <3>1, <3>2
  <2>2. ASSUME NEW n \in T PROVE n + 1 \in T
    <3>1. n \in Nat /\ n + 1 \in Nat OBVIOUS
    <3>2. PICK f \in [Nat -> S] : Approximates(f, a, G, n) OBVIOUS
    <3>3. <<n, f[n]>> \in Nat \X S BY <3>1, <3>2
    <3> DEFINE v == G[<<n, f[n]>>]
               g == [f EXCEPT ![n + 1] = v]
    <3>4. v \in S BY <3>3
    <3>5. g \in [Nat -> S] BY <3>2, <3>4
    <3> HIDE DEF v
    <3>6. g[n + 1] = v /\ \A m \in Nat : m <= n => g[m] = f[m] BY <3>1, <3>2
    <3> HIDE DEF g
    <3>7. g[0] = a BY <3>1, <3>2, <3>6 DEF Approximates
    <3>8. ASSUME NEW m \in Nat, m < n + 1 PROVE g[m + 1] = G[<<m, g[m]>>]
      <4>1. CASE m = n BY <3>1, <3>6, <4>1 DEF v
      <4>2. CASE m < n
        <5>1. g[m] = f[m] /\ g[m + 1] = f[m + 1] BY <3>1, <3>6, <4>2
        <5> QED BY <3>2, <4>2, <5>1 DEF Approximates
      <4> QED BY <3>1, <3>8, <4>1, <4>2
    <3>9. Approximates(g, a, G, n + 1) BY <3>7, <3>8 DEF Approximates
    <3> QED BY <3>1, <3>5, <3>9
  <2> HIDE DEF T
  <2>3. T \in SUBSET Nat BY DEF T
  <2> QED BY <2>1, <2>2, <2>3, NatSetInduction
<1>2. ASSUME NEW f \in [Nat -> S], NEW g \in [Nat -> S], NEW m \in Nat, NEW n \in Nat,
             Approximates(f, a, G, m), Approximates(g, a, G, n)
      PROVE \A k \in Nat : k <= m /\ k <= n => f[k] = g[k]
  <2> DEFINE U == {k \in Nat : k <= m /\ k <= n => f[k] = g[k]}
  <2>1. 0 \in U BY <1>2 DEF Approximates
  <2>2. ASSUME NEW k \in U PROVE k + 1 \in U
    <3> SUFFICES ASSUME k + 1 <= m, k + 1 <= n PROVE f[k + 1] = g[k + 1] OBVIOUS
    <3>1. k \in Nat /\ k < m /\ k < n OBVIOUS
    <3>2. f[k] = g[k] BY <3>1
    <3> QED BY <1>2, <3>1, <3>2 DEF Approximates
  <2> HIDE DEF U
  <2>3. U \in SUBSET Nat BY DEF U
  <2>4. \A k \in Nat : k \in U BY <2>1, <2>2, <2>3, NatSetInduction
  <2> QED BY <2>4 DEF U
<1> DEFINE Part(n) == CHOOSE f \in [Nat -> S] : Approximates(f, a, G, n)
           h == [n \in Nat |-> Part(n)[n]]
<1>3. \A n \in Nat : Part(n) \in [Nat -> S] /\ Approximates(Part(n), a, G, n)
  BY <1>1
<1> HIDE DEF Part
<1>4. h \in [Nat -> S] BY <1>3
<1>5. \A n \in Nat : h[n] = Part(n)[n] OBVIOUS
<1> HIDE DEF h
<1>6. h[0] = a BY <1>3, <1>5 DEF Approximates
<1>7. ASSUME NEW n \in Nat PROVE h[n + 1] = G[<<n, h[n]>>]
  <2>1. n + 1 \in Nat /\ n <= n + 1 /\ n <= n /\ n < n + 1 OBVIOUS
  <2>2. Part(n)[n] = Part(n + 1)[n] BY <1>2, <1>3, <2>1
  <2>3. Part(n + 1)[n + 1] = G[<<n, Part(n + 1)[n]>>] BY <1>3, <2>1 DEF Approximates
  <2> QED BY <1>5, <2>1, <2>2, <2>3
<1> QED BY <1>4, <1>6, <1>7 DEF Iterates

(***************************************************************************)
(* Finite sets of numbers: their largest element, and how they are put in  *)
(* order.                                                                  *)
(***************************************************************************)

\* A set of numbers that is not empty has a least element.
LEMMA Least ==
    ASSUME NEW S \in SUBSET Nat, S # {} PROVE \E n \in S : \A m \in S : n <= m
<1> DEFINE R == OpToRel(<, Nat)
<1>1. IsWellFoundedOn(R, Nat) BY NatLessThanWellFounded
<1>2. \A m, n \in Nat : m < n => <<m, n>> \in R BY DEF OpToRel
<1> HIDE DEF R
<1>3. S \subseteq Nat OBVIOUS
<1>4. PICK n \in S : \A m \in S : ~(<<m, n>> \in R) BY <1>1, <1>3, WFMin
<1>5. ASSUME NEW m \in S PROVE n <= m
  <2>1. n \in Nat /\ m \in Nat /\ ~(m < n) BY <1>2, <1>4
  <2> QED BY <2>1
<1> QED BY <1>5

\* A finite set of numbers has a bound.
LEMMA FiniteBound ==
    ASSUME NEW S \in SUBSET Nat, IsFiniteSet(S) PROVE \E b \in Nat : \A x \in S : x <= b
<1> DEFINE T == {n \in Nat : \A X \in SUBSET Nat : IsFiniteSet(X) /\ Cardinality(X) = n =>
                                \E b \in Nat : \A x \in X : x <= b}
<1>1. 0 \in T BY FS_EmptySet
<1>2. ASSUME NEW n \in T PROVE n + 1 \in T
  <2> SUFFICES ASSUME NEW X \in SUBSET Nat, IsFiniteSet(X), Cardinality(X) = n + 1
               PROVE \E b \in Nat : \A x \in X : x <= b
    OBVIOUS
  <2>1. X # {} BY FS_EmptySet
  <2>2. PICK y \in X : TRUE BY <2>1
  <2>3. IsFiniteSet(X \ {y}) /\ Cardinality(X \ {y}) = n
    <3>1. n \in Nat OBVIOUS
    <3>2. IsFiniteSet(X \ {y}) /\ Cardinality(X \ {y}) = Cardinality(X) - 1
      BY <2>2, FS_RemoveElement
    <3> QED BY <3>1, <3>2
  <2>4. PICK b \in Nat : \A x \in X \ {y} : x <= b BY <2>3
  <2>5. CASE y <= b BY <2>4, <2>5
  <2>6. CASE ~(y <= b) BY <2>4, <2>6
  <2> QED BY <2>5, <2>6
<1> HIDE DEF T
<1>3. T \in SUBSET Nat BY DEF T
<1>4. Cardinality(S) \in T BY <1>1, <1>2, <1>3, NatSetInduction, FS_CardinalityType
<1> QED BY <1>4 DEF T

\* Max is the largest element of a finite set that is not empty.
LEMMA Maximum ==
    ASSUME NEW S \in SUBSET Nat, IsFiniteSet(S), S # {}
    PROVE Max(S) \in S /\ \A y \in S : y <= Max(S)
<1> DEFINE B == {b \in Nat : \A x \in S : x <= b}
<1>1. B # {} BY FiniteBound
<1>2. PICK n \in B : \A m \in B : n <= m BY <1>1, Least
<1>3. n \in S
  <2> SUFFICES ASSUME n \notin S PROVE FALSE OBVIOUS
  <2>1. PICK x \in S : TRUE OBVIOUS
  <2>2. n # 0 BY <2>1
  <2>3. n - 1 \in Nat BY <2>2
  <2>4. \A y \in S : y <= n - 1 OBVIOUS
  <2>5. n - 1 \in B BY <2>3, <2>4
  <2> QED BY <1>2, <2>5
<1>4. \A y \in S : n >= y OBVIOUS
<1>5. \E x \in S : \A y \in S : x >= y BY <1>3, <1>4
<1>6. Max(S) \in S /\ \A y \in S : Max(S) >= y BY <1>5 DEF Max
<1> QED BY <1>6

\* A function on 1..n is a sequence of length n.
LEMMA FunctionIsSeq ==
    ASSUME NEW S, NEW n \in Nat, NEW q \in [1..n -> S]
    PROVE q \in Seq(S) /\ Len(q) = n
<1>1. q = [k \in 1..n |-> q[k]] OBVIOUS
<1>2. [k \in 1..n |-> q[k]] \in Seq(S) OBVIOUS
<1>3. Len([k \in 1..n |-> q[k]]) = n OBVIOUS
<1> QED BY <1>1, <1>2, <1>3

Rising(q, n) == \A l, m \in 1..n : l < m => q[l] < q[m]

\* A finite set of numbers can be put in order.
LEMMA RisingExists ==
    ASSUME NEW S \in SUBSET Nat, IsFiniteSet(S)
    PROVE \E q \in [1..Cardinality(S) -> S] : Rising(q, Cardinality(S))
<1> DEFINE T == {n \in Nat : \A X \in SUBSET Nat : IsFiniteSet(X) /\ Cardinality(X) = n =>
                                \E q \in [1..n -> X] : Rising(q, n)}
<1>1. 0 \in T
  <2>1. \A X : [k \in 1..0 |-> k] \in [1..0 -> X] OBVIOUS
  <2>2. Rising([k \in 1..0 |-> k], 0) BY DEF Rising
  <2> QED BY <2>1, <2>2
<1>2. ASSUME NEW n \in T PROVE n + 1 \in T
  <2> SUFFICES ASSUME NEW X \in SUBSET Nat, IsFiniteSet(X), Cardinality(X) = n + 1
               PROVE \E q \in [1..(n + 1) -> X] : Rising(q, n + 1)
    OBVIOUS
  <2>1. X # {} BY FS_EmptySet
  <2> DEFINE y == Max(X)
  <2>2. y \in X /\ \A x \in X : x <= y BY <2>1, Maximum
  <2> HIDE DEF y
  <2>3. IsFiniteSet(X \ {y}) /\ Cardinality(X \ {y}) = n BY <2>2, FS_RemoveElement
  <2>4. PICK q \in [1..n -> X \ {y}] : Rising(q, n) BY <2>3
  <2> DEFINE r == [k \in 1..(n + 1) |-> IF k = n + 1 THEN y ELSE q[k]]
  <2>5. r \in [1..(n + 1) -> X] BY <2>2, <2>4
  <2>6. ASSUME NEW l \in 1..(n + 1), NEW m \in 1..(n + 1), l < m PROVE r[l] < r[m]
    <3>1. l \in 1..n /\ r[l] = q[l] BY <2>6
    <3>2. CASE m = n + 1
      <4>1. q[l] \in X /\ q[l] # y BY <2>4, <3>1
      <4>2. q[l] \in Nat /\ y \in Nat /\ q[l] <= y BY <2>2, <4>1
      <4> QED BY <3>1, <3>2, <4>1, <4>2
    <3>3. CASE m # n + 1
      <4>1. m \in 1..n /\ r[m] = q[m] BY <3>3
      <4> QED BY <2>4, <2>6, <3>1, <4>1 DEF Rising
    <3> QED BY <3>2, <3>3
  <2> HIDE DEF r
  <2>7. Rising(r, n + 1) BY <2>6 DEF Rising
  <2> QED BY <2>5, <2>7
<1> HIDE DEF T
<1>3. T \in SUBSET Nat BY DEF T
<1>4. Cardinality(S) \in T BY <1>1, <1>2, <1>3, NatSetInduction, FS_CardinalityType
<1> QED BY <1>4 DEF T

Distinct(q) == \A l, m \in 1..Len(q) : q[l] = q[m] => l = m

Elements(q) == {q[m] : m \in 1..Len(q)}

\* InCreationOrder has each element of a finite set of ids once.
LEMMA CreationOrder ==
    ASSUME NEW S \in SUBSET Nat, IsFiniteSet(S)
    PROVE /\ InCreationOrder(S) \in Seq(S)
          /\ Distinct(InCreationOrder(S))
          /\ Elements(InCreationOrder(S)) = S
<1> DEFINE n == Cardinality(S)
           q == InCreationOrder(S)
<1>1. n \in Nat BY FS_CardinalityType
<1>2. \E f \in [1..n -> S] : \A k, m \in DOMAIN f : k < m => f[k] < f[m]
  <2>1. PICK f \in [1..n -> S] : Rising(f, n) BY RisingExists
  <2>2. DOMAIN f = 1..n OBVIOUS
  <2> QED BY <2>1, <2>2 DEF Rising
<1>3. q \in [1..n -> S] /\ \A k, m \in DOMAIN q : k < m => q[k] < q[m]
  BY <1>2 DEF InCreationOrder
<1> HIDE DEF n, q
<1>4. q \in Seq(S) /\ Len(q) = n /\ DOMAIN q = 1..n BY <1>1, <1>3, FunctionIsSeq
<1>5. ASSUME NEW k \in 1..n, NEW m \in 1..n, q[k] = q[m] PROVE k = m
  <2>1. q[k] \in Nat /\ q[m] \in Nat BY <1>3
  <2>2. ~(k < m) /\ ~(m < k) BY <1>3, <1>4, <1>5, <2>1
  <2> QED BY <1>1, <2>2
<1>6. Distinct(q) BY <1>4, <1>5 DEF Distinct
<1>7. q \in Injection(1..n, S) BY <1>3, <1>5 DEF Injection, IsInjective
<1>8. IsFiniteSet(1..n) /\ Cardinality(1..n) = n
  <2>1. 1 \in Int /\ n \in Int BY <1>1
  <2> QED BY <1>1, <2>1, FS_Interval
<1>9. q \in Surjection(1..n, S) BY <1>7, <1>8, FS_Injection DEF n
<1>10. Elements(q) = S BY <1>3, <1>4, <1>9 DEF Elements, Surjection
<1> QED BY <1>4, <1>6, <1>10 DEF q

(***************************************************************************)
(* The queue.                                                              *)
(***************************************************************************)

Ready(e, R) == {i \in R : Below(e, i) = {}}

\* Taking from a queue of R leaves a queue of R.
LEMMA TakeTyped ==
    ASSUME NEW R \in SUBSET Nat, IsFiniteSet(R), NEW e, NEW r \in Seq(R), NEW k \in Nat
    PROVE Take(e, R, r, k) \in Seq(R)
<1> DEFINE freed == {i \in R : /\ r[k] \in Below(e, i)
                               /\ Below(e, i) \subseteq {r[m] : m \in 1..k}}
<1>1. freed \in SUBSET Nat /\ freed \subseteq R /\ IsFiniteSet(freed) BY FS_Subset
<1>2. Take(e, R, r, k) = IF k > Len(r) THEN r ELSE r \o InCreationOrder(freed) BY DEF Take
<1> HIDE DEF freed
<1>3. InCreationOrder(freed) \in Seq(freed) BY <1>1, CreationOrder
<1>4. InCreationOrder(freed) \in Seq(R) BY <1>1, <1>3, SeqMonotonic
<1> QED BY <1>2, <1>4

\* Queue starts with what is ready (the filter of orderedByCreation) and each of
\* its steps takes one more.
LEMMA QueueSteps ==
    ASSUME NEW R \in SUBSET Nat, IsFiniteSet(R), NEW e
    PROVE /\ Queue(e, R) \in [Nat -> Seq(R)]
          /\ Queue(e, R)[0] = InCreationOrder(Ready(e, R))
          /\ \A k \in Nat : Queue(e, R)[k + 1] = Take(e, R, Queue(e, R)[k], k + 1)
<1> DEFINE a == InCreationOrder(Ready(e, R))
           G == [x \in Nat \X Seq(R) |-> Take(e, R, x[2], x[1] + 1)]
<1>1. a \in Seq(R)
  <2>1. /\ Ready(e, R) \in SUBSET Nat /\ IsFiniteSet(Ready(e, R)) /\ Ready(e, R) \subseteq R
    BY FS_Subset DEF Ready
  <2>2. a \in Seq(Ready(e, R)) BY <2>1, CreationOrder
  <2> QED BY <2>1, <2>2
<1>2. G \in [Nat \X Seq(R) -> Seq(R)]
  <2>1. \A x \in Nat \X Seq(R) : x[1] + 1 \in Nat /\ x[2] \in Seq(R) OBVIOUS
  <2>2. \A x \in Nat \X Seq(R) : Take(e, R, x[2], x[1] + 1) \in Seq(R) BY <2>1, TakeTyped
  <2> QED BY <2>2
<1>3. \A k \in Nat, r \in Seq(R) : G[<<k, r>>] = Take(e, R, r, k + 1) OBVIOUS
<1>4. Queue(e, R) = CHOOSE f : f = [k \in Nat |-> IF k = 0 THEN a ELSE Take(e, R, f[k - 1], k)]
  BY DEF Queue, Ready
<1> HIDE DEF a, G
<1>5. PICK f \in [Nat -> Seq(R)] : Iterates(f, a, G)
  <2> DEFINE S == Seq(R)
  <2>1. a \in S /\ G \in [Nat \X S -> S] BY <1>1, <1>2
  <2> HIDE DEF S
  <2>2. \E f \in [Nat -> S] : Iterates(f, a, G) BY <2>1, Recursion
  <2> QED BY <2>2 DEF S
<1>6. f[0] = a /\ \A k \in Nat : f[k + 1] = Take(e, R, f[k], k + 1) BY <1>3, <1>5 DEF Iterates
<1> DEFINE h == [k \in Nat |-> IF k = 0 THEN a ELSE Take(e, R, f[k - 1], k)]
<1>7. f = h
  <2>1. \A k \in Nat : f[k] = h[k]
    <3> SUFFICES ASSUME NEW k \in Nat PROVE f[k] = h[k] OBVIOUS
    <3>1. CASE k = 0 BY <1>6, <3>1
    <3>2. CASE k # 0
      <4>1. k - 1 \in Nat /\ (k - 1) + 1 = k BY <3>2
      <4>2. f[k] = Take(e, R, f[k - 1], k) BY <1>6, <4>1
      <4> QED BY <3>2, <4>2
    <3> QED BY <3>1, <3>2
  <2>2. DOMAIN f = Nat /\ DOMAIN h = Nat BY <1>5
  <2>3. f = [k \in Nat |-> f[k]] /\ h = [k \in Nat |-> h[k]] BY <1>5
  <2> HIDE DEF h
  <2> QED BY <2>1, <2>2, <2>3
<1>8. \E g : g = [k \in Nat |-> IF k = 0 THEN a ELSE Take(e, R, g[k - 1], k)] BY <1>7
<1> DEFINE q == Queue(e, R)
<1>9. q = [k \in Nat |-> IF k = 0 THEN a ELSE Take(e, R, q[k - 1], k)] BY <1>4, <1>8
<1> HIDE DEF q
<1>10. q[0] = a BY <1>9
<1>11. \A k \in Nat : q[k + 1] = Take(e, R, q[k], k + 1)
  <2> SUFFICES ASSUME NEW k \in Nat PROVE q[k + 1] = Take(e, R, q[k], k + 1) OBVIOUS
  <2>1. k + 1 \in Nat /\ k + 1 # 0 /\ (k + 1) - 1 = k OBVIOUS
  <2> QED BY <1>9, <2>1
<1>12. \A k \in Nat : q[k] \in Seq(R)
  <2> DEFINE T == {k \in Nat : q[k] \in Seq(R)}
  <2>1. 0 \in T BY <1>1, <1>10
  <2>2. ASSUME NEW k \in T PROVE k + 1 \in T
    <3>1. k \in Nat /\ k + 1 \in Nat /\ q[k] \in Seq(R) OBVIOUS
    <3>2. q[k + 1] \in Seq(R) BY <1>11, <3>1, TakeTyped
    <3> QED BY <3>1, <3>2
  <2> HIDE DEF T
  <2>3. T \in SUBSET Nat BY DEF T
  <2>4. \A k \in Nat : k \in T BY <2>1, <2>2, <2>3, NatSetInduction
  <2> QED BY <2>4 DEF T
<1>13. q \in [Nat -> Seq(R)]
  <2>1. DOMAIN q = Nat /\ q = [k \in Nat |-> q[k]] BY <1>9
  <2> QED BY <1>12, <2>1
<1> QED BY <1>10, <1>11, <1>13 DEF a, q

\* What is appended comes after, and nothing is there twice.
LEMMA Concat ==
    ASSUME NEW R, NEW r \in Seq(R), NEW c \in Seq(R),
           Distinct(r), Distinct(c), Elements(r) \cap Elements(c) = {}
    PROVE /\ r \o c \in Seq(R) /\ Distinct(r \o c) /\ Len(r \o c) >= Len(r)
          /\ Elements(r \o c) = Elements(r) \cup Elements(c)
          /\ \A p \in 1..Len(r) : (r \o c)[p] = r[p]
          /\ \A p \in 1..Len(r \o c) : p > Len(r) => (r \o c)[p] \in Elements(c)
<1> DEFINE q == r \o c
           n == Len(r)
           l == Len(c)
<1>1. n \in Nat /\ l \in Nat OBVIOUS
<1>2. q \in Seq(R) /\ Len(q) = n + l OBVIOUS
<1>3. \A p \in 1..n : q[p] = r[p] OBVIOUS
<1>4. \A p \in 1..(n + l) : p > n => p - n \in 1..l /\ q[p] = c[p - n] OBVIOUS
<1> HIDE DEF q
<1>5. \A p \in 1..n : r[p] \in Elements(r) BY DEF Elements
<1>6. \A p \in 1..l : c[p] \in Elements(c) BY DEF Elements
<1> HIDE DEF n, l
<1>7. \A p \in 1..(n + l) : p > n => q[p] \in Elements(c) BY <1>4, <1>6
<1>8. ASSUME NEW p \in 1..(n + l), NEW m \in 1..(n + l), q[p] = q[m] PROVE p = m
  <2>1. p \in Int /\ m \in Int BY <1>1
  <2>2. CASE p > n /\ m > n
    <3>1. c[p - n] = c[m - n] /\ p - n \in 1..l /\ m - n \in 1..l BY <1>4, <1>8, <2>2
    <3>2. p - n = m - n BY <3>1 DEF Distinct, l
    <3> QED BY <1>1, <2>1, <3>2
  <2>3. CASE ~(p > n) /\ ~(m > n)
    <3>1. p \in 1..n /\ m \in 1..n BY <1>1, <2>1, <2>3
    <3> QED BY <1>3, <1>8, <3>1 DEF Distinct, n
  <2>4. CASE p > n /\ ~(m > n)
    <3>1. m \in 1..n BY <1>1, <2>1, <2>4
    <3> QED BY <1>3, <1>5, <1>7, <1>8, <2>4, <3>1
  <2>5. CASE ~(p > n) /\ m > n
    <3>1. p \in 1..n BY <1>1, <2>1, <2>5
    <3> QED BY <1>3, <1>5, <1>7, <1>8, <2>5, <3>1
  <2> QED BY <2>2, <2>3, <2>4, <2>5
<1>9. Distinct(q) BY <1>2, <1>8 DEF Distinct
<1>10. Elements(q) \subseteq Elements(r) \cup Elements(c)
  <2> SUFFICES ASSUME NEW p \in 1..(n + l) PROVE q[p] \in Elements(r) \cup Elements(c)
    BY <1>2 DEF Elements
  <2>1. CASE p > n BY <1>7, <2>1
  <2>2. CASE ~(p > n)
    <3>1. p \in 1..n BY <1>1, <2>2
    <3> QED BY <1>3, <1>5, <3>1
  <2> QED BY <2>1, <2>2
<1>11. Elements(r) \subseteq Elements(q)
  <2> SUFFICES ASSUME NEW p \in 1..n PROVE r[p] \in Elements(q) BY DEF Elements, n
  <2>1. p \in 1..(n + l) BY <1>1
  <2> QED BY <1>2, <1>3, <2>1 DEF Elements
<1>12. Elements(c) \subseteq Elements(q)
  <2> SUFFICES ASSUME NEW p \in 1..l PROVE c[p] \in Elements(q) BY DEF Elements, l
  <2>1. n + p \in 1..(n + l) /\ n + p > n /\ (n + p) - n = p BY <1>1
  <2>2. q[n + p] = c[p] BY <1>4, <2>1
  <2> QED BY <1>2, <2>1, <2>2 DEF Elements
<1>13. Len(q) >= n BY <1>1, <1>2
<1> QED BY <1>2, <1>3, <1>7, <1>9, <1>10, <1>11, <1>12, <1>13 DEF q, n

First(r, k) == {r[m] : m \in {p \in 1..Len(r) : p <= k}}

\* The queue holds what waits for nothing but what was taken, each item
\* after what it waits for.
QueueInv(e, R, r, k) ==
    /\ r \in Seq(R) /\ Distinct(r)
    /\ \A i \in R : i \in Elements(r) <=> Below(e, i) \subseteq First(r, k)
    /\ \A p \in 1..Len(r) : Below(e, r[p]) \subseteq First(r, p - 1)

\* The queue that is made before the loop is as QueueInv says.
LEMMA QueueStart ==
    ASSUME NEW R \in SUBSET Nat, IsFiniteSet(R), NEW e
    PROVE QueueInv(e, R, InCreationOrder(Ready(e, R)), 0)
<1> DEFINE r == InCreationOrder(Ready(e, R))
<1>1. Ready(e, R) \in SUBSET Nat /\ IsFiniteSet(Ready(e, R)) /\ Ready(e, R) \subseteq R
  BY FS_Subset DEF Ready
<1>2. r \in Seq(Ready(e, R)) /\ Distinct(r) /\ Elements(r) = Ready(e, R)
  BY <1>1, CreationOrder
<1> HIDE DEF r
<1>3. r \in Seq(R) BY <1>1, <1>2
<1>4. First(r, 0) = {} BY DEF First
<1>5. \A i \in R : i \in Elements(r) <=> Below(e, i) \subseteq First(r, 0)
  BY <1>2, <1>4 DEF Ready
<1>6. \A p \in 1..Len(r) : Below(e, r[p]) \subseteq First(r, p - 1)
  <2> SUFFICES ASSUME NEW p \in 1..Len(r) PROVE Below(e, r[p]) = {} OBVIOUS
  <2>1. r[p] \in Elements(r) BY DEF Elements
  <2> QED BY <1>2, <2>1 DEF Ready
<1> QED BY <1>2, <1>3, <1>5, <1>6 DEF QueueInv, r

\* A round of the loop over ready keeps QueueInv.
LEMMA QueueStep ==
    ASSUME NEW R \in SUBSET Nat, IsFiniteSet(R), NEW e, NEW r, NEW k \in Nat,
           QueueInv(e, R, r, k)
    PROVE QueueInv(e, R, Take(e, R, r, k + 1), k + 1)
<1> DEFINE x == r[k + 1]
           taken == {r[m] : m \in 1..(k + 1)}
           freed == {i \in R : x \in Below(e, i) /\ Below(e, i) \subseteq taken}
           c == InCreationOrder(freed)
           q == r \o c
<1>1. r \in Seq(R) /\ Distinct(r) /\ Len(r) \in Nat BY DEF QueueInv
<1>2. CASE k + 1 > Len(r)
  <2>1. Take(e, R, r, k + 1) = r BY <1>2 DEF Take
  <2>2. First(r, k + 1) = First(r, k) BY <1>1, <1>2 DEF First
  <2> QED BY <2>1, <2>2 DEF QueueInv
<1>3. CASE ~(k + 1 > Len(r))
  <2>1. Take(e, R, r, k + 1) = q BY <1>3 DEF Take
  <2>2. k + 1 \in 1..Len(r) BY <1>1, <1>3
  <2>3. x \notin First(r, k)
    <3> SUFFICES ASSUME NEW m \in 1..Len(r), m <= k, r[m] = x PROVE FALSE BY DEF First
    <3>1. m = k + 1 BY <1>1, <2>2 DEF Distinct
    <3> QED BY <3>1
  <2>4. taken = First(r, k + 1)
    <3>1. 1..(k + 1) = {p \in 1..Len(r) : p <= k + 1} BY <1>1, <2>2
    <3> QED BY <3>1 DEF First
  <2>5. First(r, k + 1) = First(r, k) \cup {x}
    <3>1. {p \in 1..Len(r) : p <= k + 1} = {p \in 1..Len(r) : p <= k} \cup {k + 1}
      BY <1>1, <2>2
    <3> QED BY <3>1 DEF First
  <2>6. freed \in SUBSET Nat /\ freed \subseteq R /\ IsFiniteSet(freed) BY FS_Subset
  <2> HIDE DEF x, taken
  <2>7. \A i \in R : i \in freed <=> x \in Below(e, i) /\ Below(e, i) \subseteq taken OBVIOUS
  <2> HIDE DEF freed
  <2>8. c \in Seq(freed) /\ Distinct(c) /\ Elements(c) = freed BY <2>6, CreationOrder
  <2>9. c \in Seq(R) BY <2>6, <2>8, SeqMonotonic
  <2> HIDE DEF c
  <2>10. \A i \in R : i \in Elements(r) <=> Below(e, i) \subseteq First(r, k) BY DEF QueueInv
  <2>11. Elements(r) \cap Elements(c) = {} BY <2>3, <2>6, <2>7, <2>8, <2>10
  <2>12. /\ q \in Seq(R) /\ Distinct(q) /\ Len(q) >= Len(r) /\ Len(q) \in Nat
         /\ Elements(q) = Elements(r) \cup freed
         /\ \A p \in 1..Len(r) : q[p] = r[p]
         /\ \A p \in 1..Len(q) : p > Len(r) => q[p] \in freed
    BY <1>1, <2>8, <2>9, <2>11, Concat
  <2> HIDE DEF q
  <2>13. ASSUME NEW m \in Nat, m <= Len(r) PROVE First(q, m) = First(r, m)
    <3>1. {p \in 1..Len(q) : p <= m} = {p \in 1..Len(r) : p <= m} BY <1>1, <2>12, <2>13
    <3>2. \A p \in {p1 \in 1..Len(r) : p1 <= m} : q[p] = r[p] BY <2>12
    <3> QED BY <3>1, <3>2 DEF First
  <2>14. First(q, k + 1) = taken BY <1>1, <2>2, <2>4, <2>13
  <2>15. ASSUME NEW i \in R PROVE i \in Elements(q) <=> Below(e, i) \subseteq First(q, k + 1)
    BY <2>4, <2>5, <2>7, <2>10, <2>12, <2>14
  <2>16. ASSUME NEW p \in 1..Len(q) PROVE Below(e, q[p]) \subseteq First(q, p - 1)
    <3>1. p \in Nat /\ p - 1 \in Nat OBVIOUS
    <3>2. CASE p <= Len(r)
      <4>1. p \in 1..Len(r) /\ p - 1 <= Len(r) BY <1>1, <3>1, <3>2
      <4>2. Below(e, r[p]) \subseteq First(r, p - 1) BY <4>1 DEF QueueInv
      <4> QED BY <2>12, <2>13, <3>1, <4>1, <4>2
    <3>3. CASE ~(p <= Len(r))
      <4>1. q[p] \in freed BY <1>1, <2>12, <3>1, <3>3
      <4>2. Below(e, q[p]) \subseteq First(q, k + 1) BY <2>6, <2>7, <2>14, <4>1
      <4>3. k + 1 <= p - 1 BY <1>1, <2>2, <3>1, <3>3
      <4>4. First(q, k + 1) \subseteq First(q, p - 1) BY <2>12, <3>1, <4>3 DEF First
      <4> QED BY <4>2, <4>4
    <3> QED BY <3>2, <3>3
  <2>17. QueueInv(e, R, q, k + 1) BY <2>12, <2>15, <2>16 DEF QueueInv
  <2> QED BY <2>1, <2>17
<1> QED BY <1>2, <1>3

\* The loop over ready of planChangesetApply: after as many rounds as there are
\* items the queue has each item once, after all that it waits for, and every
\* item that waits for nothing outside the queue.
THEOREM Drained ==
    ASSUME NEW R \in SUBSET Nat, IsFiniteSet(R), NEW e
    PROVE /\ Drain(e, R) \in Seq(R) /\ Distinct(Drain(e, R))
          /\ \A i \in R : i \in Elements(Drain(e, R)) <=> Below(e, i) \subseteq Elements(Drain(e, R))
          /\ \A p \in 1..Len(Drain(e, R)) :
                Below(e, Drain(e, R)[p]) \subseteq First(Drain(e, R), p - 1)
<1> DEFINE q == Queue(e, R)
           n == Cardinality(R)
           T == {k \in Nat : QueueInv(e, R, q[k], k)}
<1>1. /\ q[0] = InCreationOrder(Ready(e, R))
      /\ \A k \in Nat : q[k + 1] = Take(e, R, q[k], k + 1)
  BY QueueSteps
<1> HIDE DEF q
<1>2. 0 \in T BY <1>1, QueueStart
<1>3. ASSUME NEW k \in T PROVE k + 1 \in T
  <2>1. k \in Nat /\ k + 1 \in Nat /\ QueueInv(e, R, q[k], k) OBVIOUS
  <2>2. QueueInv(e, R, Take(e, R, q[k], k + 1), k + 1) BY <2>1, QueueStep
  <2> QED BY <1>1, <2>1, <2>2
<1> HIDE DEF T
<1>4. T \in SUBSET Nat BY DEF T
<1>5. n \in T BY <1>2, <1>3, <1>4, NatSetInduction, FS_CardinalityType
<1> DEFINE r == Drain(e, R)
<1>6. r = q[n] BY DEF Drain, q
<1>7. QueueInv(e, R, r, n) /\ n \in Nat BY <1>5, <1>6 DEF T
<1> HIDE DEF r
<1>8. r \in Seq(R) /\ Distinct(r) /\ Len(r) \in Nat BY <1>7 DEF QueueInv
<1>9. Len(r) <= n
  <2>1. r \in Injection(1..Len(r), R) BY <1>8 DEF Injection, IsInjective, Distinct
  <2>2. Cardinality(1..Len(r)) = Len(r)
    <3> DEFINE l == Len(r)
    <3>1. 1 \in Int /\ l \in Int /\ l \in Nat BY <1>8
    <3> HIDE DEF l
    <3>2. Cardinality(1..l) = l BY <3>1, FS_Interval
    <3> QED BY <3>2 DEF l
  <2>3. Cardinality(1..Len(r)) <= n BY <2>1, FS_Injection
  <2> QED BY <2>2, <2>3
<1>10. First(r, n) = Elements(r)
  <2>1. {p \in 1..Len(r) : p <= n} = 1..Len(r) BY <1>7, <1>8, <1>9
  <2> QED BY <2>1 DEF First, Elements
<1> QED BY <1>7, <1>8, <1>10 DEF QueueInv, r

(***************************************************************************)
(* The rounds of getBlockedItemIds.                                        *)
(***************************************************************************)

\* Rounds starts with the directly blocked and adds what depends on a blocked
\* item.
LEMMA RoundsSteps ==
    ASSUME NEW b \in SUBSET draft, NEW e
    PROVE /\ Rounds(b, e) \in [Nat -> SUBSET draft]
          /\ Rounds(b, e)[0] = b
          /\ \A k \in Nat : Rounds(b, e)[k + 1] = WithDependents(Rounds(b, e)[k], e)
<1> DEFINE S == SUBSET draft
           G == [x \in Nat \X S |-> WithDependents(x[2], e)]
<1>1. \A c \in S : WithDependents(c, e) \in S BY DEF WithDependents
<1>2. G \in [Nat \X S -> S]
  <2>1. \A x \in Nat \X S : x[2] \in S OBVIOUS
  <2> HIDE DEF S
  <2>2. \A x \in Nat \X S : WithDependents(x[2], e) \in S BY <1>1, <2>1
  <2> QED BY <2>2
<1>3. \A k \in Nat, c \in S : G[<<k, c>>] = WithDependents(c, e) OBVIOUS
<1>4. Rounds(b, e) =
        CHOOSE f : f = [k \in Nat |-> IF k = 0 THEN b ELSE WithDependents(f[k - 1], e)]
  BY DEF Rounds
<1>5. b \in S OBVIOUS
<1> HIDE DEF S, G
<1>6. PICK f \in [Nat -> S] : Iterates(f, b, G) BY <1>2, <1>5, Recursion
<1>7. f[0] = b /\ \A k \in Nat : f[k + 1] = WithDependents(f[k], e) BY <1>3, <1>6 DEF Iterates
<1> DEFINE h == [k \in Nat |-> IF k = 0 THEN b ELSE WithDependents(f[k - 1], e)]
<1>8. f = h
  <2>1. \A k \in Nat : f[k] = h[k]
    <3> SUFFICES ASSUME NEW k \in Nat PROVE f[k] = h[k] OBVIOUS
    <3>1. CASE k = 0 BY <1>7, <3>1
    <3>2. CASE k # 0
      <4>1. k - 1 \in Nat /\ (k - 1) + 1 = k BY <3>2
      <4>2. f[k] = WithDependents(f[k - 1], e) BY <1>7, <4>1
      <4> QED BY <3>2, <4>2
    <3> QED BY <3>1, <3>2
  <2>2. f = [k \in Nat |-> f[k]] /\ h = [k \in Nat |-> h[k]] BY <1>6
  <2> HIDE DEF h
  <2> QED BY <2>1, <2>2
<1>9. \E g : g = [k \in Nat |-> IF k = 0 THEN b ELSE WithDependents(g[k - 1], e)] BY <1>8
<1> DEFINE q == Rounds(b, e)
<1>10. q = [k \in Nat |-> IF k = 0 THEN b ELSE WithDependents(q[k - 1], e)] BY <1>4, <1>9
<1> HIDE DEF q
<1>11. q[0] = b BY <1>10
<1>12. \A k \in Nat : q[k + 1] = WithDependents(q[k], e)
  <2> SUFFICES ASSUME NEW k \in Nat PROVE q[k + 1] = WithDependents(q[k], e) OBVIOUS
  <2>1. k + 1 \in Nat /\ k + 1 # 0 /\ (k + 1) - 1 = k OBVIOUS
  <2> QED BY <1>10, <2>1
<1>13. \A k \in Nat : q[k] \in S
  <2> DEFINE T == {k \in Nat : q[k] \in S}
  <2>1. 0 \in T BY <1>5, <1>11
  <2>2. ASSUME NEW k \in T PROVE k + 1 \in T BY <1>1, <1>12
  <2> HIDE DEF T
  <2>3. T \in SUBSET Nat BY DEF T
  <2>4. \A k \in Nat : k \in T BY <2>1, <2>2, <2>3, NatSetInduction
  <2> QED BY <2>4 DEF T
<1>14. q \in [Nat -> S]
  <2>1. q = [k \in Nat |-> q[k]] BY <1>10
  <2> QED BY <1>13, <2>1
<1> QED BY <1>11, <1>12, <1>14 DEF q, S

\* What depends on an item of B is in B.
Closed(B, e) == \A i \in draft : Below(e, i) \cap B # {} => i \in B

\* The blocked items are the smallest closed set with the directly blocked.
THEOREM BlockedLeast ==
    ASSUME IsFiniteSet(draft), NEW b \in SUBSET draft, NEW e
    PROVE /\ b \subseteq WithBlockedDependents(b, e)
          /\ WithBlockedDependents(b, e) \subseteq draft
          /\ Closed(WithBlockedDependents(b, e), e)
          /\ \A C \in SUBSET draft :
                b \subseteq C /\ Closed(C, e) => WithBlockedDependents(b, e) \subseteq C
<1> DEFINE q == Rounds(b, e)
           n == Cardinality(draft)
           T == {k \in Nat : b \subseteq q[k] /\ (Closed(q[k], e) \/ Cardinality(q[k]) >= k)}
<1>1. /\ q \in [Nat -> SUBSET draft] /\ q[0] = b
      /\ \A k \in Nat : q[k + 1] = WithDependents(q[k], e)
  BY RoundsSteps
<1>2. WithBlockedDependents(b, e) = q[n] BY DEF WithBlockedDependents
<1> HIDE DEF q
<1>3. \A k \in Nat : IsFiniteSet(q[k]) /\ Cardinality(q[k]) \in Nat /\ q[k] \subseteq draft
  BY <1>1, FS_Subset, FS_CardinalityType
<1>4. 0 \in T
  <2>1. Cardinality(q[0]) >= 0 BY <1>3
  <2> QED BY <1>1, <2>1
<1>5. ASSUME NEW k \in T PROVE k + 1 \in T
  <2>1. k \in Nat /\ k + 1 \in Nat /\ b \subseteq q[k] OBVIOUS
  <2>2. q[k + 1] = q[k] \cup {i \in draft : Below(e, i) \cap q[k] # {}}
    BY <1>1, <2>1 DEF WithDependents
  <2>3. CASE Closed(q[k], e)
    <3>1. q[k + 1] = q[k] BY <2>2, <2>3 DEF Closed
    <3> QED BY <2>1, <2>3, <3>1
  <2>4. CASE ~Closed(q[k], e)
    <3>1. q[k] \subseteq q[k + 1] /\ q[k] # q[k + 1] BY <2>2, <2>4 DEF Closed
    <3>2. IsFiniteSet(q[k + 1]) /\ Cardinality(q[k + 1]) \in Nat /\ Cardinality(q[k]) \in Nat
      BY <1>3, <2>1
    <3>3. /\ Cardinality(q[k]) <= Cardinality(q[k + 1])
          /\ Cardinality(q[k]) # Cardinality(q[k + 1])
      BY <3>1, <3>2, FS_Subset
    <3>4. Cardinality(q[k]) >= k BY <2>4
    <3>5. Cardinality(q[k + 1]) >= k + 1 BY <2>1, <3>2, <3>3, <3>4
    <3> QED BY <2>1, <3>1, <3>5
  <2> QED BY <2>3, <2>4
<1>6. n \in Nat BY FS_CardinalityType
<1>7. b \subseteq q[n] /\ Closed(q[n], e)
  <2> HIDE DEF T
  <2>1. T \in SUBSET Nat BY DEF T
  <2>2. n \in T BY <1>4, <1>5, <1>6, <2>1, NatSetInduction
  <2>3. b \subseteq q[n] /\ (Closed(q[n], e) \/ Cardinality(q[n]) >= n) BY <2>2 DEF T
  <2>4. CASE Cardinality(q[n]) >= n
    <3>1. q[n] \subseteq draft /\ Cardinality(q[n]) \in Nat BY <1>3, <1>6
    <3>2. Cardinality(q[n]) <= n /\ (Cardinality(q[n]) = n => q[n] = draft) BY <3>1, FS_Subset
    <3>3. q[n] = draft BY <1>6, <2>4, <3>1, <3>2
    <3> QED BY <2>3, <3>3 DEF Closed
  <2> QED BY <2>3, <2>4
<1>8. ASSUME NEW C \in SUBSET draft, b \subseteq C, Closed(C, e) PROVE q[n] \subseteq C
  <2> DEFINE U == {k \in Nat : q[k] \subseteq C}
  <2>1. 0 \in U BY <1>1, <1>8
  <2>2. ASSUME NEW k \in U PROVE k + 1 \in U
    <3>1. k \in Nat /\ k + 1 \in Nat /\ q[k] \subseteq C OBVIOUS
    <3>2. q[k + 1] = q[k] \cup {i \in draft : Below(e, i) \cap q[k] # {}}
      BY <1>1, <3>1 DEF WithDependents
    <3>3. q[k + 1] \subseteq C BY <1>8, <3>1, <3>2 DEF Closed
    <3> QED BY <3>1, <3>3
  <2> HIDE DEF U
  <2>3. U \in SUBSET Nat BY DEF U
  <2>4. n \in U BY <1>6, <2>1, <2>2, <2>3, NatSetInduction
  <2> QED BY <2>4 DEF U
<1>9. q[n] \subseteq draft BY <1>1, <1>6
<1> QED BY <1>2, <1>7, <1>8, <1>9

(***************************************************************************)
(* The order of the plan.                                                  *)
(***************************************************************************)

BlockedIds == WithBlockedDependents(DirectlyBlocked, Dependencies)

\* What an item waits for, by the pairs.
LEMMA BelowPairs == \A e, i, j : j \in Below(e, i) <=> \E q \in e : q[1] = i /\ q[2] = j
BY DEF Below

\* The elements of a sequence of the proofs are those of the model.
LEMMA ElementsToSet == \A R, r : r \in Seq(R) => ToSet(r) = Elements(r)
BY DEF ToSet, Elements

HasFirst(e, T) == \E i \in T : Below(e, i) \cap T = {}

\* In each part of the elements one comes first: it waits for none of them.
LEMMA FirstOfPart ==
    ASSUME NEW R, NEW r \in Seq(R), NEW e, NEW T, T # {}, T \subseteq Elements(r),
           \A p \in 1..Len(r) : Below(e, r[p]) \subseteq First(r, p - 1)
    PROVE HasFirst(e, T)
<1> DEFINE P == {p \in 1..Len(r) : r[p] \in T}
<1>1. P \in SUBSET Nat /\ P # {} BY DEF Elements
<1>2. PICK p \in P : \A m \in P : p <= m BY <1>1, Least
<1>3. First(r, p - 1) \cap T = {}
  <2> SUFFICES ASSUME NEW m \in 1..Len(r), m <= p - 1, r[m] \in T PROVE FALSE BY DEF First
  <2>1. m \in P OBVIOUS
  <2>2. p \in Nat /\ m \in Nat /\ p <= m BY <1>1, <1>2, <2>1
  <2> QED BY <2>2
<1>4. Below(e, r[p]) \cap T = {} /\ r[p] \in T BY <1>3
<1> QED BY <1>4 DEF HasFirst

\* The order of planChangesetApply is the queue of what is not blocked.
LEMMA PlanOrder ==
    ASSUME draft \in SUBSET Nat, IsFiniteSet(draft)
    PROVE /\ Plan.order \in Seq(draft \ BlockedIds) /\ Distinct(Plan.order)
          /\ Plan.deps = Dependencies
          /\ \A i \in draft \ BlockedIds :
                i \in Elements(Plan.order) <=> Below(Dependencies, i) \subseteq Elements(Plan.order)
          /\ \A p \in 1..Len(Plan.order) :
                Below(Dependencies, Plan.order[p]) \subseteq First(Plan.order, p - 1)
<1> DEFINE R == draft \ BlockedIds
           e == Dependencies
<1>1. R \in SUBSET Nat /\ IsFiniteSet(R) BY FS_Subset
<1>2. Plan.order = Drain(e, R) /\ Plan.deps = e BY DEF Plan, OrderedItems, BlockedIds
<1> HIDE DEF R, e
<1>3. /\ Drain(e, R) \in Seq(R) /\ Distinct(Drain(e, R))
      /\ \A i \in R : i \in Elements(Drain(e, R)) <=> Below(e, i) \subseteq Elements(Drain(e, R))
      /\ \A p \in 1..Len(Drain(e, R)) :
            Below(e, Drain(e, R)[p]) \subseteq First(Drain(e, R), p - 1)
  BY <1>1, Drained
<1> QED BY <1>2, <1>3 DEF R, e

\* The order has the largest sound set.
LEMMA OrderExact ==
    ASSUME draft \in SUBSET Nat, IsFiniteSet(draft)
    PROVE BlockersExact
<1> DEFINE e == Dependencies
           r == Plan.order
           O == Elements(r)
           R == draft \ BlockedIds
           SoundSet(S) == /\ S \subseteq draft \ DirectlyBlocked
                          /\ \A q \in e : q[1] \in S => q[2] \in S
                          /\ \A T \in (SUBSET S) \ {{}} : \E i \in T : Below(e, i) \cap T = {}
<1>1. /\ r \in Seq(R) /\ Plan.deps = e
      /\ \A i \in R : i \in O <=> Below(e, i) \subseteq O
      /\ \A p \in 1..Len(r) : Below(e, r[p]) \subseteq First(r, p - 1)
  BY PlanOrder
<1>2. /\ DirectlyBlocked \subseteq BlockedIds
      /\ Closed(BlockedIds, e)
      /\ \A C \in SUBSET draft : DirectlyBlocked \subseteq C /\ Closed(C, e) => BlockedIds \subseteq C
  <2>1. DirectlyBlocked \in SUBSET draft BY DEF DirectlyBlocked
  <2> QED BY <2>1, BlockedLeast DEF BlockedIds
<1>3. O \subseteq R BY <1>1 DEF Elements
<1>4. ToSet(Plan.order) = O BY <1>1, ElementsToSet
<1> HIDE DEF e, r
<1>5. SoundSet(O)
  <2>1. O \subseteq draft \ DirectlyBlocked BY <1>2, <1>3
  <2>2. ASSUME NEW q \in e, q[1] \in O PROVE q[2] \in O
    <3>1. q[2] \in Below(e, q[1]) BY BelowPairs
    <3>2. \A i \in O : Below(e, i) \subseteq O
      <4> HIDE DEF O, R
      <4> QED BY <1>1, <1>3
    <3> QED BY <2>2, <3>1, <3>2
  <2>3. ASSUME NEW T \in (SUBSET O) \ {{}} PROVE \E i \in T : Below(e, i) \cap T = {}
    <3>1. T # {} /\ T \subseteq Elements(r) OBVIOUS
    <3> HIDE DEF R, O
    <3>2. HasFirst(e, T) BY <1>1, <3>1, FirstOfPart
    <3> QED BY <3>2 DEF HasFirst
  <2> QED BY <2>1, <2>2, <2>3
<1>6. ASSUME NEW S, SoundSet(S) PROVE S \subseteq O
  <2>1. \A i \in S : Below(e, i) \subseteq S BY <1>6, BelowPairs
  <2>2. Closed(draft \ S, e) BY <2>1 DEF Closed
  <2>3. DirectlyBlocked \subseteq draft \ S BY <1>6 DEF DirectlyBlocked
  <2>4. BlockedIds \subseteq draft \ S BY <1>2, <2>2, <2>3
  <2>5. S \subseteq R BY <1>6, <2>4
  <2> SUFFICES ASSUME S \ O # {} PROVE FALSE OBVIOUS
  <2>6. PICK i \in S \ O : Below(e, i) \cap (S \ O) = {}
    <3>1. S \ O \in (SUBSET S) \ {{}} OBVIOUS
    <3> QED BY <1>6, <3>1
  <2>7. Below(e, i) \subseteq O BY <2>1, <2>6
  <2> QED BY <1>1, <2>5, <2>7
<1> DEFINE Sound == {S \in SUBSET (draft \ DirectlyBlocked) :
                        /\ \A q \in e : q[1] \in S => q[2] \in S
                        /\ \A T \in (SUBSET S) \ {{}} : \E i \in T : Below(e, i) \cap T = {}}
<1>7. \A S : S \in Sound <=> SoundSet(S) OBVIOUS
<1> HIDE DEF Sound, SoundSet
<1>8. O = UNION Sound
  <2>1. O \in Sound BY <1>5, <1>7
  <2>2. \A S \in Sound : S \subseteq O BY <1>6, <1>7
  <2> QED BY <2>1, <2>2
<1>9. Plan.deps = e BY <1>1
<1> QED BY <1>4, <1>8, <1>9 DEF BlockersExact, Sound

(***************************************************************************)
(* The depths and the levels.                                              *)
(***************************************************************************)

\* The values that a function has on a part of its domain.
Values(f, B) == {f[x] : x \in B}

\* A function has finitely many values on a finite set.
LEMMA ValuesFinite ==
    ASSUME NEW A, NEW T, NEW f \in [A -> T], NEW B \in SUBSET A, IsFiniteSet(B)
    PROVE IsFiniteSet(Values(f, B))
<1> DEFINE g == [x \in B |-> f[x]]
<1>1. g \in Surjection(B, Values(f, B)) BY DEF Surjection, Values
<1> QED BY <1>1, FS_Surjection

\* Just below the deepest in B, or on top.
JustBelow(depth, B, m) ==
    /\ m \in Nat /\ \A j \in B : depth[j] < m
    /\ m = 0 \/ \E j \in B : m = depth[j] + 1

\* It is where DepthAfter puts an item.
LEMMA DepthMax ==
    ASSUME IsFiniteSet(draft), NEW depth \in [draft -> Nat], NEW B \in SUBSET draft,
           NEW m, m = Max({0} \cup {depth[j] + 1 : j \in B})
    PROVE JustBelow(depth, B, m)
<1> DEFINE f == [j \in draft |-> depth[j] + 1]
           V == {depth[j] + 1 : j \in B}
<1>1. f \in [draft -> Nat] OBVIOUS
<1>2. Values(f, B) = V BY DEF Values
<1> HIDE DEF f
<1>3. IsFiniteSet(V) BY <1>1, <1>2, FS_Subset, ValuesFinite
<1>4. V \in SUBSET Nat OBVIOUS
<1>5. \A v \in V : \E j \in B : v = depth[j] + 1 OBVIOUS
<1>6. \A j \in B : depth[j] + 1 \in V /\ depth[j] \in Nat OBVIOUS
<1> HIDE DEF V
<1>7. IsFiniteSet({0} \cup V) BY <1>3, FS_Singleton, FS_Union
<1>8. {0} \cup V \in SUBSET Nat /\ {0} \cup V # {} BY <1>4
<1>9. m = Max({0} \cup V) BY DEF V
<1>10. m \in {0} \cup V /\ \A v \in {0} \cup V : v <= m BY <1>7, <1>8, <1>9, Maximum
<1>11. m \in Nat /\ (m = 0 \/ m \in V) BY <1>4, <1>10
<1>12. ASSUME NEW j \in B PROVE depth[j] < m
  <2>1. depth[j] + 1 <= m BY <1>6, <1>10
  <2> QED BY <1>6, <1>11, <2>1
<1> QED BY <1>5, <1>11, <1>12 DEF JustBelow

\* Dependencies are between items of the draft.
LEMMA BelowDraft == \A i : Below(Dependencies, i) \subseteq draft
BY BelowPairs DEF Dependencies

\* A step of the loop over the order leaves a depth for each item.
LEMMA DepthAfterTyped ==
    ASSUME IsFiniteSet(draft), NEW depth \in [draft -> Nat], NEW x
    PROVE DepthAfter(Dependencies, depth, x) \in [draft -> Nat]
<1> DEFINE B == Below(Dependencies, x)
           m == Max({0} \cup {depth[j] + 1 : j \in B})
<1>1. B \in SUBSET draft BY BelowDraft
<1>2. DepthAfter(Dependencies, depth, x) = [depth EXCEPT ![x] = m] BY DEF DepthAfter
<1> HIDE DEF B
<1>3. m \in Nat BY <1>1, DepthMax DEF JustBelow
<1> HIDE DEF m
<1> QED BY <1>2, <1>3

\* Depths are what the steps of the loop over the order make of them.
LEMMA DepthsSteps ==
    ASSUME IsFiniteSet(draft), NEW plan, plan.deps = Dependencies
    PROVE /\ Depths(plan) \in [Nat -> [draft -> Nat]]
          /\ \A k \in Nat : Depths(plan)[k + 1] =
                               DepthAfter(Dependencies, Depths(plan)[k], plan.order[k + 1])
<1> DEFINE S == [draft -> Nat]
           zero == [i \in draft |-> 0]
           r == plan.order
           After(d, x) == DepthAfter(Dependencies, d, x)
           G == [x \in Nat \X S |-> After(x[2], r[x[1] + 1])]
<1>1. \A d \in S : \A x : After(d, x) \in S BY DepthAfterTyped
<1>2. zero \in S OBVIOUS
<1>3. Depths(plan) = CHOOSE f : f = [k \in Nat |-> IF k = 0 THEN zero ELSE After(f[k - 1], r[k])]
  BY DEF Depths
<1> HIDE DEF S, zero, r, After
<1>4. G \in [Nat \X S -> S]
  <2>1. \A x \in Nat \X S : x[2] \in S OBVIOUS
  <2> QED BY <1>1, <2>1
<1>5. \A k \in Nat, d \in S : G[<<k, d>>] = After(d, r[k + 1]) OBVIOUS
<1> HIDE DEF G
<1>6. PICK f \in [Nat -> S] : Iterates(f, zero, G) BY <1>2, <1>4, Recursion
<1>7. f[0] = zero /\ \A k \in Nat : f[k + 1] = After(f[k], r[k + 1]) BY <1>5, <1>6 DEF Iterates
<1> DEFINE h == [k \in Nat |-> IF k = 0 THEN zero ELSE After(f[k - 1], r[k])]
<1>8. f = h
  <2>1. \A k \in Nat : f[k] = h[k]
    <3> SUFFICES ASSUME NEW k \in Nat PROVE f[k] = h[k] OBVIOUS
    <3>1. CASE k = 0 BY <1>7, <3>1
    <3>2. CASE k # 0
      <4>1. k - 1 \in Nat /\ (k - 1) + 1 = k BY <3>2
      <4>2. f[k] = After(f[k - 1], r[k]) BY <1>7, <4>1
      <4> QED BY <3>2, <4>2
    <3> QED BY <3>1, <3>2
  <2>2. f = [k \in Nat |-> f[k]] /\ h = [k \in Nat |-> h[k]] BY <1>6
  <2> HIDE DEF h
  <2> QED BY <2>1, <2>2
<1>9. \E g : g = [k \in Nat |-> IF k = 0 THEN zero ELSE After(g[k - 1], r[k])] BY <1>8
<1> DEFINE q == Depths(plan)
<1>10. q = [k \in Nat |-> IF k = 0 THEN zero ELSE After(q[k - 1], r[k])] BY <1>3, <1>9
<1> HIDE DEF q
<1>11. q[0] = zero BY <1>10
<1>12. \A k \in Nat : q[k + 1] = After(q[k], r[k + 1])
  <2> SUFFICES ASSUME NEW k \in Nat PROVE q[k + 1] = After(q[k], r[k + 1]) OBVIOUS
  <2>1. k + 1 \in Nat /\ k + 1 # 0 /\ (k + 1) - 1 = k OBVIOUS
  <2> QED BY <1>10, <2>1
<1>13. \A k \in Nat : q[k] \in S
  <2> DEFINE T == {k \in Nat : q[k] \in S}
  <2>1. 0 \in T BY <1>2, <1>11
  <2>2. ASSUME NEW k \in T PROVE k + 1 \in T BY <1>1, <1>12
  <2> HIDE DEF T
  <2>3. T \in SUBSET Nat BY DEF T
  <2>4. \A k \in Nat : k \in T BY <2>1, <2>2, <2>3, NatSetInduction
  <2> QED BY <2>4 DEF T
<1>14. q \in [Nat -> S]
  <2>1. q = [k \in Nat |-> q[k]] BY <1>10
  <2> QED BY <1>13, <2>1
<1> QED BY <1>12, <1>14 DEF q, S, r, After

\* An item is one below the deepest that it waits for.
Placed(D, i) ==
    /\ \A j \in Below(Dependencies, i) : D[j] < D[i]
    /\ D[i] = 0 \/ \E j \in Below(Dependencies, i) : D[i] = D[j] + 1

FinalDepths == Depths(Plan)[Len(Plan.order)]

\* Each item ends up just below the deepest that it waits for.
LEMMA AllPlaced ==
    ASSUME draft \in SUBSET Nat, IsFiniteSet(draft), Unblocked(Plan)
    PROVE FinalDepths \in [draft -> Nat] /\ \A i \in draft : Placed(FinalDepths, i)
<1> DEFINE r == Plan.order
           e == Dependencies
           f == Depths(Plan)
           T == {k \in Nat : k <= Len(r) => \A p \in 1..Len(r) : p <= k => Placed(f[k], r[p])}
<1>1. /\ r \in Seq(draft) /\ Len(r) \in Nat /\ Distinct(r) /\ Elements(r) = draft
      /\ \A p \in 1..Len(r) : Below(e, r[p]) \subseteq First(r, p - 1)
  <2>1. draft \ BlockedIds \subseteq draft OBVIOUS
  <2>2. /\ r \in Seq(draft \ BlockedIds) /\ Distinct(r)
        /\ \A p \in 1..Len(r) : Below(e, r[p]) \subseteq First(r, p - 1)
    BY PlanOrder
  <2>3. r \in Seq(draft) BY <2>1, <2>2, SeqMonotonic
  <2>4. ToSet(r) = draft BY DEF Unblocked
  <2>5. Elements(r) = draft BY <2>3, <2>4, ElementsToSet
  <2> QED BY <2>2, <2>3, <2>5
<1>2. /\ f \in [Nat -> [draft -> Nat]]
      /\ \A k \in Nat : f[k + 1] = DepthAfter(e, f[k], r[k + 1])
  <2>1. Plan.deps = Dependencies BY PlanOrder
  <2> QED BY <2>1, DepthsSteps
<1> HIDE DEF r, f
<1>3. 0 \in T OBVIOUS
<1>4. ASSUME NEW k \in T PROVE k + 1 \in T
  <2> SUFFICES ASSUME k + 1 <= Len(r), NEW p \in 1..Len(r), p <= k + 1
               PROVE Placed(f[k + 1], r[p])
    OBVIOUS
  <2>1. k \in Nat /\ k + 1 \in Nat /\ \A l \in 1..Len(r) : l <= k => Placed(f[k], r[l])
    BY <1>1
  <2> DEFINE D == f[k]
             N == f[k + 1]
             x == r[k + 1]
             m == Max({0} \cup {D[j] + 1 : j \in Below(e, x)})
  <2>2. D \in [draft -> Nat] /\ N \in [draft -> Nat] BY <1>2, <2>1
  <2>3. N = [D EXCEPT ![x] = m] BY <1>2, <2>1 DEF DepthAfter
  <2>4. k + 1 \in 1..Len(r) BY <1>1, <2>1
  <2>5. x \in draft BY <1>1, <2>4
  <2>6. Below(e, x) \in SUBSET draft BY BelowDraft
  <2>m. m = Max({0} \cup {D[j] + 1 : j \in Below(e, x)}) OBVIOUS
  <2> HIDE DEF D, N, x, e, m
  <2>7. JustBelow(D, Below(e, x), m) BY <2>2, <2>6, <2>m, DepthMax
  <2>8. N[x] = m /\ \A j \in draft : j # x => N[j] = D[j] BY <2>2, <2>3, <2>5
  <2>9. Below(e, r[p]) \subseteq draft /\ x \notin Below(e, r[p]) /\ r[p] \in draft
    <3>1. x \notin First(r, p - 1)
      <4> SUFFICES ASSUME NEW l \in 1..Len(r), l <= p - 1, r[l] = x PROVE FALSE BY DEF First
      <4>1. l = k + 1 BY <1>1, <2>4 DEF Distinct, x
      <4>2. l \in Nat /\ p \in Nat BY <1>1
      <4> QED BY <2>1, <4>1, <4>2
    <3>2. Below(e, r[p]) \subseteq First(r, p - 1) BY <1>1 DEF e
    <3> QED BY <1>1, <3>1, <3>2 DEF e, First
  <2>10. \A j \in Below(e, r[p]) : N[j] = D[j] BY <2>8, <2>9
  <2>11. CASE p = k + 1
    <3>1. r[p] = x BY <2>11 DEF x
    <3> QED BY <2>7, <2>8, <2>10, <3>1 DEF Placed, JustBelow, e, N
  <2>12. CASE p # k + 1
    <3>1. p \in Nat /\ p <= k BY <2>1, <2>12
    <3>2. r[p] # x BY <1>1, <2>4, <2>12 DEF Distinct, x
    <3>3. Placed(D, r[p]) BY <2>1, <3>1 DEF D
    <3>4. N[r[p]] = D[r[p]] BY <2>8, <2>9, <3>2
    <3> QED BY <2>10, <3>3, <3>4 DEF Placed, e, N
  <2> QED BY <2>11, <2>12
<1> HIDE DEF T
<1>5. T \in SUBSET Nat BY DEF T
<1>6. Len(r) \in T BY <1>1, <1>3, <1>4, <1>5, NatSetInduction
<1>7. \A p \in 1..Len(r) : Placed(f[Len(r)], r[p]) BY <1>1, <1>6 DEF T
<1>8. f[Len(r)] = FinalDepths BY DEF FinalDepths, f, r
<1>9. \A i \in draft : \E p \in 1..Len(r) : i = r[p] BY <1>1 DEF Elements
<1> QED BY <1>1, <1>2, <1>7, <1>8, <1>9

\* The levels are the items by their depth, as deep as there is one.
LEMMA LevelsByDepth ==
    ASSUME draft \in SUBSET Nat, IsFiniteSet(draft), draft # {}, Unblocked(Plan)
    PROVE \E top \in Nat :
             /\ Levels(Plan) = [k \in 1..(top + 1) |-> {i \in draft : FinalDepths[i] = k - 1}]
             /\ \A i \in draft : FinalDepths[i] <= top
             /\ \E i \in draft : FinalDepths[i] = top
<1> DEFINE D == FinalDepths
           V == {D[i] : i \in draft}
           top == Max(V)
<1>1. D \in [draft -> Nat] BY AllPlaced
<1>2. Levels(Plan) = [k \in 1..(top + 1) |-> {i \in draft : D[i] = k - 1}]
  BY DEF Levels, FinalDepths
<1> HIDE DEF D
<1>3. V = Values(D, draft) BY DEF Values
<1>4. IsFiniteSet(V)
  <2>1. draft \in SUBSET draft OBVIOUS
  <2>2. IsFiniteSet(Values(D, draft)) BY <1>1, <2>1, ValuesFinite
  <2> QED BY <1>3, <2>2
<1>5. V \in SUBSET Nat /\ V # {} BY <1>1
<1>6. (\A i \in draft : D[i] \in V) /\ \A v \in V : \E i \in draft : D[i] = v OBVIOUS
<1> HIDE DEF V
<1>7. top \in V /\ \A v \in V : v <= top BY <1>4, <1>5, Maximum
<1> HIDE DEF top
<1>8. top \in Nat /\ (\A i \in draft : D[i] <= top) /\ \E i \in draft : D[i] = top
  BY <1>5, <1>6, <1>7
<1> QED BY <1>2, <1>8 DEF D

\* The levels of getChangeSetApplyGraph for a draft without blockers.
LEMMA LevelsArePeeled ==
    ASSUME draft \in SUBSET Nat, IsFiniteSet(draft)
    PROVE LevelsPeel
<1> SUFFICES ASSUME draft # {}, Unblocked(Plan)
             PROVE LET level   == Levels(Plan)
                       Left(k) == draft \ UNION {level[m] : m \in 1..(k - 1)}
                   IN  /\ \A k \in DOMAIN level :
                            /\ level[k] = {i \in Left(k) : Below(Plan.deps, i) \cap Left(k) = {}}
                            /\ level[k] # {}
                       /\ UNION {level[k] : k \in DOMAIN level} = draft
  BY DEF LevelsPeel
<1> DEFINE D == FinalDepths
           e == Dependencies
           level == Levels(Plan)
           Left(k) == draft \ UNION {level[m] : m \in 1..(k - 1)}
<1>1. PICK top \in Nat : /\ level = [k \in 1..(top + 1) |-> {i \in draft : D[i] = k - 1}]
                         /\ \A i \in draft : D[i] <= top
                         /\ \E i \in draft : D[i] = top
  BY LevelsByDepth
<1>2. /\ D \in [draft -> Nat]
      /\ \A i \in draft : /\ \A j \in Below(e, i) : D[j] < D[i]
                          /\ D[i] = 0 \/ \E j \in Below(e, i) : D[i] = D[j] + 1
  BY AllPlaced DEF Placed
<1>3. Plan.deps = e /\ \A i : Below(e, i) \subseteq draft BY PlanOrder, BelowDraft
<1> HIDE DEF D, e, level
<1>4. DOMAIN level = 1..(top + 1) /\ \A k \in 1..(top + 1) : level[k] = {i \in draft : D[i] = k - 1}
  BY <1>1
<1>5. ASSUME NEW k \in 1..(top + 1) PROVE Left(k) = {i \in draft : D[i] >= k - 1}
  <2>1. ASSUME NEW i \in draft PROVE i \in Left(k) <=> D[i] >= k - 1
    <3>1. k \in Nat /\ D[i] \in Nat BY <1>2
    <3>2. CASE D[i] >= k - 1
      <4> SUFFICES ASSUME NEW m \in 1..(k - 1), i \in level[m] PROVE FALSE BY <3>2
      <4>1. m \in 1..(top + 1) /\ m - 1 < k - 1 BY <3>1
      <4>2. D[i] = m - 1 BY <1>4, <4>1
      <4> QED BY <3>1, <3>2, <4>1, <4>2
    <3>3. CASE ~(D[i] >= k - 1)
      <4>1. D[i] + 1 \in 1..(k - 1) /\ D[i] + 1 \in 1..(top + 1) /\ (D[i] + 1) - 1 = D[i]
        BY <3>1, <3>3
      <4>2. i \in level[D[i] + 1] BY <1>4, <4>1
      <4> QED BY <3>3, <4>1, <4>2
    <3> QED BY <3>2, <3>3
  <2> QED BY <2>1
<1>6. ASSUME NEW k \in 1..(top + 1)
      PROVE /\ level[k] = {i \in Left(k) : Below(e, i) \cap Left(k) = {}}
            /\ level[k] # {}
  <2> DEFINE L == Left(k)
  <2>1. L = {i \in draft : D[i] >= k - 1} /\ k - 1 \in Nat BY <1>5
  <2> HIDE DEF L
  <2>2. level[k] = {i \in draft : D[i] = k - 1} BY <1>4
  <2>3. ASSUME NEW i \in draft, D[i] = k - 1 PROVE i \in L /\ Below(e, i) \cap L = {}
    <3>1. D[i] >= k - 1 BY <2>1, <2>3
    <3>2. \A j \in Below(e, i) : D[j] \in Nat /\ D[j] < k - 1 BY <1>2, <1>3, <2>3
    <3>3. \A j \in Below(e, i) : ~(D[j] >= k - 1) BY <2>1, <3>2
    <3> QED BY <2>1, <3>1, <3>3
  <2>4. ASSUME NEW i \in L, D[i] # k - 1 PROVE \E j \in Below(e, i) : j \in L /\ D[j] < D[i]
    <3>1. i \in draft /\ D[i] \in Nat /\ D[i] >= k - 1 BY <1>2, <2>1
    <3>2. D[i] # 0 BY <2>1, <2>4, <3>1
    <3>3. PICK j \in Below(e, i) : D[i] = D[j] + 1 BY <1>2, <3>1, <3>2
    <3>4. j \in draft /\ D[j] \in Nat BY <1>2, <1>3
    <3>5. D[j] >= k - 1 /\ D[j] < D[i] BY <2>1, <2>4, <3>1, <3>3, <3>4
    <3> QED BY <2>1, <3>4, <3>5
  <2>5. level[k] = {i \in L : Below(e, i) \cap L = {}}
    <3>1. \A i \in L : i \in draft BY <2>1
    <3> QED BY <2>2, <2>3, <2>4, <3>1
  <2>6. level[k] # {}
    <3> DEFINE V == {D[i] : i \in L}
    <3>1. \A i \in L : D[i] \in Nat BY <1>2, <2>1
    <3>2. V \in SUBSET Nat BY <3>1
    <3>3. V # {}
      <4>1. PICK i \in draft : D[i] = top BY <1>1
      <4>2. top >= k - 1 OBVIOUS
      <4> QED BY <2>1, <4>1, <4>2
    <3>4. PICK n \in V : \A m \in V : n <= m BY <3>2, <3>3, Least
    <3>5. PICK i \in L : D[i] = n OBVIOUS
    <3>6. \A j \in L : D[j] \in V OBVIOUS
    <3> HIDE DEF V
    <3>7. \A j \in L : ~(D[j] < D[i]) BY <3>1, <3>4, <3>5, <3>6
    <3>8. D[i] = k - 1 BY <2>4, <3>7
    <3> QED BY <2>1, <2>2, <3>8
  <2> QED BY <2>5, <2>6 DEF L
<1>7. UNION {level[k] : k \in DOMAIN level} = draft
  <2>1. ASSUME NEW i \in draft PROVE \E k \in DOMAIN level : i \in level[k]
    <3>1. D[i] \in Nat /\ D[i] <= top BY <1>1, <1>2
    <3>2. D[i] + 1 \in 1..(top + 1) /\ (D[i] + 1) - 1 = D[i] BY <3>1
    <3> QED BY <1>4, <3>2
  <2>2. \A k \in DOMAIN level : level[k] \subseteq draft BY <1>4
  <2> QED BY <2>1, <2>2
<1> HIDE DEF Left
<1>8. \A k \in DOMAIN level :
          /\ level[k] = {i \in Left(k) : Below(Plan.deps, i) \cap Left(k) = {}}
          /\ level[k] # {}
  BY <1>3, <1>4, <1>6
<1> QED BY <1>7, <1>8 DEF level, Left

(***************************************************************************)
(* The invariant behind ReferencesLive and LevelReady.                     *)
(***************************************************************************)

TypeInv ==
    /\ item \in Seq(Item) /\ Len(item) <= MaxItems
    /\ draft \subseteq 1..Len(item)
    /\ Live \subseteq Slugs /\ live \in [Live -> SUBSET Slugs]
    /\ status \in {"draft", "applying", "applied", "canceled"}
    /\ done \subseteq acted /\ acted \subseteq draft
    /\ failed \subseteq draft /\ canceled \subseteq draft
    /\ withdrawn \subseteq Slugs
    /\ edits \in Nat
    /\ status = "applying" => levels \in Seq(SUBSET draft) /\ levels # <<>>
    /\ status # "applying" => failed = {} /\ canceled = {}

\* What an item that has run wrote last is what the resource refers to.
LastWord ==
    \A s \in Live \ withdrawn :
        (\E j \in acted : Slug(j) = s) => \E k \in acted : Slug(k) = s /\ live[s] = Refs(k)

\* What was created is there, or an item that has run deleted it.
Created ==
    \A j \in done : Kind(j) \in NewKinds =>
        \/ Slug(j) \in Live \cup withdrawn
        \/ \E d \in acted : Slug(d) = Slug(j) /\ Kind(d) \in DelKinds

\* No two items of the draft that cannot both run.
NoTwins ==
    \A i, j \in draft : i # j /\ Slug(i) = Slug(j) =>
        /\ Kind(i) \in NewKinds => Kind(j) \notin NewKinds
        /\ Kind(i) \in DelKinds => Kind(j) \notin DelKinds \cup {"update"}

\* Nothing is deleted that an item of the draft refers to.
NoneDeletes == \A i, d \in draft : Kind(d) \in DelKinds => Slug(d) \notin Refs(i)

Targets ==
    \A i \in draft \ done :
        /\ Kind(i) \in {"update", "delete"} => Slug(i) \in Live
        /\ Kind(i) \in NewKinds => Slug(i) \notin Live

\* What the k-th of the levels refers to is there or created before it.
RefsBefore(k) ==
    \A i \in levels[k] : \A s \in Refs(i) \ (Live \cup withdrawn) :
        \E m \in 1..(k - 1) : \E j \in levels[m] \ done : Slug(j) = s /\ Kind(j) \in NewKinds

\* What refers to a resource that the k-th deletes is rewritten before it.
RewrittenBefore(k) ==
    \A i \in levels[k] : Kind(i) \in DelKinds =>
        \A s \in Live \ (withdrawn \cup {Slug(i)}) : Slug(i) \in live[s] =>
            \E m \in 1..(k - 1) : \E j \in levels[m] \ acted : Slug(j) = s

Running ==
    /\ NoTwins /\ NoneDeletes /\ Targets
    /\ \A k \in 1..Len(levels) : RefsBefore(k) /\ RewrittenBefore(k)

Inv ==
    /\ TypeInv /\ LastWord /\ Created /\ ReferencesLive
    /\ status = "applying" => Running

\* The invariant holds in the beginning.
LEMMA InitInv == Init => Inv
<1> SUFFICES ASSUME Init PROVE Inv OBVIOUS
<1>1. PICK l \in LiveChoices : live = l BY DEF Init
<1>2. DOMAIN l \subseteq Slugs /\ l \in [DOMAIN l -> SUBSET DOMAIN l] BY ChoicesAssumption
<1>3. Live \subseteq Slugs /\ live \in [Live -> SUBSET Live] BY <1>1, <1>2 DEF Live
<1>4. TypeInv
  <2>1. item \in Seq(Item) /\ Len(item) = 0 /\ 0 <= MaxItems
    BY ChoicesAssumption DEF Init
  <2>2. live \in [Live -> SUBSET Slugs] BY <1>3
  <2> QED BY <1>3, <2>1, <2>2 DEF Init, TypeInv
<1>5. LastWord /\ Created BY DEF Init, LastWord, Created
<1>6. ReferencesLive BY <1>3 DEF ReferencesLive
<1>7. status # "applying" BY DEF Init
<1> QED BY <1>4, <1>5, <1>6, <1>7 DEF Inv

\* stageItem adds an item that has done nothing.
LEMMA StageInv ==
    ASSUME Inv, NEW x \in Item, stageItem(x)
    PROVE Inv'
<1> DEFINE n == Len(item) + 1
<1>1. TypeInv /\ LastWord /\ Created /\ ReferencesLive BY DEF Inv
<1>2. /\ status = "draft" /\ Len(item) < MaxItems
      /\ item' = Append(item, x) /\ draft' = draft \cup {n}
      /\ UNCHANGED <<live, status, done, failed, canceled, edits, acted, withdrawn>>
  BY DEF stageItem
<1>3. Live' = Live BY <1>2 DEF Live
<1>4. item \in Seq(Item) /\ Len(item) \in Nat /\ draft \subseteq 1..Len(item)
  BY <1>1 DEF TypeInv
<1>5. item' \in Seq(Item) /\ Len(item') = n /\ \A j \in draft : item'[j] = item[j]
  BY <1>2, <1>4
<1>6. \A j \in draft : Slug(j)' = Slug(j) /\ Kind(j)' = Kind(j) /\ Refs(j)' = Refs(j)
  BY <1>5 DEF Slug, Kind, Refs
<1>7. TypeInv'
  <2>1. Len(item') <= MaxItems /\ draft' \subseteq 1..Len(item')
    BY <1>2, <1>4, <1>5, ChoicesAssumption
  <2>2. status' # "applying" /\ failed' = {} /\ canceled' = {} BY <1>1, <1>2 DEF TypeInv
  <2>3. /\ (Live \subseteq Slugs /\ live \in [Live -> SUBSET Slugs])'
        /\ (status \in {"draft", "applying", "applied", "canceled"} /\ done \subseteq acted)'
        /\ (withdrawn \subseteq Slugs /\ edits \in Nat)'
    BY <1>1, <1>2, <1>3 DEF TypeInv
  <2>4. acted' \subseteq draft' /\ failed' \subseteq draft' /\ canceled' \subseteq draft'
    BY <1>1, <1>2 DEF TypeInv
  <2> QED BY <1>5, <2>1, <2>2, <2>3, <2>4 DEF TypeInv
<1>8. acted \subseteq draft /\ done \subseteq draft BY <1>1 DEF TypeInv
<1>9. LastWord' BY <1>1, <1>2, <1>3, <1>6, <1>8 DEF LastWord
<1>10. Created' BY <1>1, <1>2, <1>3, <1>6, <1>8 DEF Created
<1>11. ReferencesLive' BY <1>1, <1>2, <1>3 DEF ReferencesLive
<1>12. status' # "applying" BY <1>2
<1> QED BY <1>7, <1>9, <1>10, <1>11, <1>12 DEF Inv

\* An edit withdraws what the item did, whatever becomes of the item.
LEMMA EditInv ==
    ASSUME Inv, NEW i, Edit(i),
           \A j \in draft \ {i} : Slug(j)' = Slug(j) /\ Kind(j)' = Kind(j) /\ Refs(j)' = Refs(j),
           item' \in Seq(Item), Len(item') = Len(item),
           draft' \subseteq draft, draft \ {i} \subseteq draft'
    PROVE Inv'
<1>1. TypeInv /\ LastWord /\ Created /\ ReferencesLive BY DEF Inv
<1>2. /\ status = "draft" /\ edits' = edits + 1
      /\ done' = done \ {i} /\ acted' = acted \ {i}
      /\ withdrawn' = withdrawn \cup (IF i \in acted THEN {Slug(i)} ELSE {})
      /\ UNCHANGED <<live, status, failed, canceled>>
  BY DEF Edit
<1>3. Live' = Live BY <1>2 DEF Live
<1>4. done \subseteq acted /\ acted \subseteq draft BY <1>1 DEF TypeInv
<1>5. withdrawn \subseteq withdrawn' /\ (i \in acted => Slug(i) \in withdrawn') BY <1>2
<1>6. TypeInv'
  <2>1. Len(item') <= MaxItems /\ draft' \subseteq 1..Len(item') BY <1>1 DEF TypeInv
  <2>2. /\ (Live \subseteq Slugs /\ live \in [Live -> SUBSET Slugs])'
        /\ (status \in {"draft", "applying", "applied", "canceled"})' /\ edits' \in Nat
    BY <1>1, <1>2, <1>3 DEF TypeInv
  <2>3. done' \subseteq acted' /\ acted' \subseteq draft' BY <1>2, <1>4
  <2>4. failed' = {} /\ canceled' = {} BY <1>1, <1>2 DEF TypeInv
  <2>5. withdrawn' \subseteq Slugs
    <3>1. i \in acted => Slug(i) \in Slugs
      <4> SUFFICES ASSUME i \in acted PROVE Slug(i) \in Slugs OBVIOUS
      <4>1. i \in 1..Len(item) BY <1>1 DEF TypeInv
      <4>2. item[i] \in Item BY <1>1, <4>1 DEF TypeInv
      <4> QED BY <4>2 DEF Item, Slug
    <3> QED BY <1>1, <1>2, <3>1 DEF TypeInv
  <2>6. status' # "applying" BY <1>2
  <2> QED BY <2>1, <2>2, <2>3, <2>4, <2>5, <2>6 DEF TypeInv
<1>7. LastWord'
  <2> SUFFICES ASSUME NEW s \in Live \ withdrawn', NEW j \in acted \ {i}, Slug(j)' = s
               PROVE \E k \in acted \ {i} : Slug(k)' = s /\ live[s] = Refs(k)'
    BY <1>2, <1>3 DEF LastWord
  <2>1. s \in Live \ withdrawn /\ j \in acted /\ Slug(j) = s BY <1>4, <1>5
  <2>2. PICK k \in acted : Slug(k) = s /\ live[s] = Refs(k) BY <1>1, <2>1 DEF LastWord
  <2>3. k # i BY <1>5, <2>2
  <2> QED BY <1>4, <2>2, <2>3
<1>8. Created'
  <2> SUFFICES ASSUME NEW j \in done \ {i}, Kind(j)' \in NewKinds, Slug(j)' \notin Live \cup withdrawn'
               PROVE \E d \in acted \ {i} : Slug(d)' = Slug(j)' /\ Kind(d)' \in DelKinds
    BY <1>2, <1>3 DEF Created
  <2>1. /\ j \in done /\ Kind(j) \in NewKinds /\ Slug(j) = Slug(j)'
        /\ Slug(j) \notin Live \cup withdrawn
    BY <1>4, <1>5
  <2>2. PICK d \in acted : Slug(d) = Slug(j) /\ Kind(d) \in DelKinds BY <1>1, <2>1 DEF Created
  <2>3. d # i BY <1>5, <2>1, <2>2
  <2> QED BY <1>4, <2>1, <2>2, <2>3
<1>9. ReferencesLive' BY <1>1, <1>2, <1>3, <1>5 DEF ReferencesLive
<1>10. status' # "applying" BY <1>2
<1> QED BY <1>6, <1>7, <1>8, <1>9, <1>10 DEF Inv

\* deleteItem keeps the invariant.
LEMMA deleteItemInv ==
    ASSUME Inv, NEW i, deleteItem(i)
    PROVE Inv'
<1>1. Edit(i) /\ draft' = draft \ {i} /\ item' = item BY DEF deleteItem
<1>2. item' \in Seq(Item) /\ Len(item') = Len(item) BY <1>1 DEF Inv, TypeInv
<1>3. \A j \in draft \ {i} : Slug(j)' = Slug(j) /\ Kind(j)' = Kind(j) /\ Refs(j)' = Refs(j)
  BY <1>1 DEF Slug, Kind, Refs
<1>4. draft' \subseteq draft /\ draft \ {i} \subseteq draft' BY <1>1
<1> QED BY <1>1, <1>2, <1>3, <1>4, EditInv

\* updateItem keeps the invariant.
LEMMA updateItemInv ==
    ASSUME Inv, NEW i, NEW new \in Item, updateItem(i, new)
    PROVE Inv'
<1>1. Edit(i) /\ draft' = draft /\ item' = [item EXCEPT ![i] = new] BY DEF updateItem
<1>2. item \in Seq(Item) /\ draft \subseteq 1..Len(item) BY DEF Inv, TypeInv
<1>3. item' \in Seq(Item) /\ Len(item') = Len(item)
  <2>1. i \in 1..Len(item) BY <1>1, <1>2 DEF Edit
  <2> QED BY <1>1, <1>2, <2>1, ExceptSeq
<1>4. \A j \in draft \ {i} : item'[j] = item[j] BY <1>1, <1>2
<1>5. \A j \in draft \ {i} : Slug(j)' = Slug(j) /\ Kind(j)' = Kind(j) /\ Refs(j)' = Refs(j)
  BY <1>4 DEF Slug, Kind, Refs
<1>6. draft' \subseteq draft /\ draft \ {i} \subseteq draft' BY <1>1
<1> QED BY <1>1, <1>3, <1>5, <1>6, EditInv

\* An item of the level writes or deletes its resource.
LEMMA ActInv ==
    ASSUME Inv, NEW i, InLevel(i),
           UNCHANGED <<item, draft, status, levels, edits, withdrawn>>,
           acted' = acted \cup {i}, done \subseteq done', done' \subseteq done \cup {i},
           failed' \subseteq failed \cup {i}, canceled' = canceled,
           \/ /\ Kind(i) \in DelKinds /\ i \in done'
              /\ live' = [s \in Live \ {Slug(i)} |-> live[s]]
           \/ /\ Kind(i) \notin DelKinds
              /\ Kind(i) \in NewKinds => i \in done'
              /\ live' = [s \in Live \cup {Slug(i)} |->
                             IF s = Slug(i) THEN Refs(i) ELSE live[s]]
    PROVE Inv'
<1>1. TypeInv /\ LastWord /\ Created /\ ReferencesLive BY DEF Inv
<1>2. status = "applying" /\ i \in Head(levels) \ (done \cup failed \cup canceled)
  BY DEF InLevel, Settled
<1>3. NoTwins /\ NoneDeletes /\ Targets /\ \A k \in 1..Len(levels) : RefsBefore(k) /\ RewrittenBefore(k)
  BY <1>2 DEF Inv, Running
<1>4. levels \in Seq(SUBSET draft) /\ levels # <<>> BY <1>1, <1>2 DEF TypeInv
<1>5. Len(levels) \in Nat /\ 1 \in 1..Len(levels) /\ levels[1] = Head(levels)
      /\ \A k \in 1..Len(levels) : levels[k] \subseteq draft
  BY <1>4
<1>6. i \in draft /\ i \in draft \ done /\ i \in levels[1] BY <1>2, <1>5
<1>7. done \subseteq acted /\ acted \subseteq draft BY <1>1 DEF TypeInv
<1>8. \A j : Slug(j)' = Slug(j) /\ Kind(j)' = Kind(j) /\ Refs(j)' = Refs(j)
  BY DEF Slug, Kind, Refs
<1>9. \/ Kind(i) \in DelKinds /\ Live' = Live \ {Slug(i)}
      \/ Kind(i) \notin DelKinds /\ Live' = Live \cup {Slug(i)} /\ live'[Slug(i)] = Refs(i)
  BY DEF Live
<1>10. \A s \in Live' : s # Slug(i) => s \in Live /\ live'[s] = live[s] BY DEF Live
<1>11. \A s \in Live : s # Slug(i) => s \in Live' BY <1>9
<1>12. Slug(i) \in Slugs /\ Refs(i) \subseteq Slugs
  <2>1. item[i] \in Item BY <1>1, <1>6 DEF TypeInv
  <2> QED BY <2>1 DEF Item, Slug, Refs
<1>13. Refs(i) \subseteq Live \cup withdrawn
  <2>1. RefsBefore(1) BY <1>3, <1>5
  <2> QED BY <1>6, <2>1 DEF RefsBefore
<1>14. \A d \in draft : Kind(d) \in DelKinds => Slug(d) \notin Refs(i)
  BY <1>3, <1>6 DEF NoneDeletes
<1>15. TypeInv'
  <2>1. (Live \subseteq Slugs /\ live \in [Live -> SUBSET Slugs])'
    <3>1. Live' \subseteq Slugs BY <1>1, <1>9, <1>12 DEF TypeInv
    <3>2. \A s \in Live' : live'[s] \subseteq Slugs
      <4> SUFFICES ASSUME NEW s \in Live' PROVE live'[s] \subseteq Slugs OBVIOUS
      <4>1. CASE s = Slug(i) BY <1>9, <1>12, <4>1
      <4>2. CASE s # Slug(i) BY <1>1, <1>10, <4>2 DEF TypeInv
      <4> QED BY <4>1, <4>2
    <3>3. live' = [s \in Live' |-> live'[s]] BY DEF Live
    <3> QED BY <3>1, <3>2, <3>3
  <2>2. done' \subseteq acted' /\ acted' \subseteq draft' /\ failed' \subseteq draft' /\ canceled' \subseteq draft'
    BY <1>1, <1>6, <1>7 DEF TypeInv
  <2> QED BY <1>1, <1>2, <2>1, <2>2 DEF TypeInv
<1>16. LastWord'
  <2> SUFFICES ASSUME NEW s \in Live' \ withdrawn, NEW j \in acted', Slug(j) = s
               PROVE \E k \in acted' : Slug(k) = s /\ live'[s] = Refs(k)
    BY <1>8 DEF LastWord
  <2>1. CASE s = Slug(i) BY <1>9, <2>1
  <2>2. CASE s # Slug(i)
    <3>1. s \in Live \ withdrawn /\ live'[s] = live[s] /\ j \in acted BY <1>10, <2>2
    <3>2. PICK k \in acted : Slug(k) = s /\ live[s] = Refs(k) BY <1>1, <3>1 DEF LastWord
    <3> QED BY <3>1, <3>2
  <2> QED BY <2>1, <2>2
<1>17. Created'
  <2> SUFFICES ASSUME NEW j \in done', Kind(j) \in NewKinds, Slug(j) \notin Live' \cup withdrawn
               PROVE \E d \in acted' : Slug(d) = Slug(j) /\ Kind(d) \in DelKinds
    BY <1>8 DEF Created
  <2>1. CASE Slug(j) = Slug(i)
    <3>1. Kind(i) \in DelKinds BY <1>9, <2>1
    <3> QED BY <2>1, <3>1
  <2>2. CASE Slug(j) # Slug(i)
    <3>1. j \in done /\ Slug(j) \notin Live \cup withdrawn BY <1>11, <2>2
    <3>2. PICK d \in acted : Slug(d) = Slug(j) /\ Kind(d) \in DelKinds
      BY <1>1, <3>1 DEF Created
    <3> QED BY <3>2
  <2> QED BY <2>1, <2>2
<1>18. ReferencesLive'
  <2> SUFFICES ASSUME NEW s \in Live' \ withdrawn, NEW t \in live'[s]
               PROVE t \in Live' \cup withdrawn
    BY DEF ReferencesLive
  <2>1. t \in Live \cup withdrawn
    <3>1. CASE s = Slug(i) BY <1>9, <1>13, <3>1
    <3>2. CASE s # Slug(i) BY <1>1, <1>10, <3>2 DEF ReferencesLive
    <3> QED BY <3>1, <3>2
  <2>2. CASE t # Slug(i) BY <1>11, <2>1, <2>2
  <2>3. CASE t = Slug(i) /\ Kind(i) \notin DelKinds BY <1>9, <2>3
  <2>4. CASE t = Slug(i) /\ Kind(i) \in DelKinds
    <3>1. s # Slug(i) /\ s \in Live \ withdrawn /\ t \in live[s] BY <1>9, <1>10, <2>4
    <3>2. RewrittenBefore(1) BY <1>3, <1>5
    <3>3. FALSE BY <1>6, <2>4, <3>1, <3>2 DEF RewrittenBefore
    <3> QED BY <3>3
  <2> QED BY <2>2, <2>3, <2>4
<1>19. (NoTwins /\ NoneDeletes)' BY <1>3, <1>8 DEF NoTwins, NoneDeletes
<1>20. Targets'
  <2> SUFFICES ASSUME NEW j \in draft \ done'
               PROVE /\ Kind(j) \in {"update", "delete"} => Slug(j) \in Live'
                     /\ Kind(j) \in NewKinds => Slug(j) \notin Live'
    BY <1>8 DEF Targets
  <2>1. /\ Kind(j) \in {"update", "delete"} => Slug(j) \in Live
        /\ Kind(j) \in NewKinds => Slug(j) \notin Live
    BY <1>3 DEF Targets
  <2>2. CASE Slug(j) # Slug(i) BY <1>10, <1>11, <2>1, <2>2
  <2>3. CASE Slug(j) = Slug(i)
    <3>1. CASE Kind(i) \in DelKinds
      <4>1. Kind(j) \notin DelKinds \cup {"update"} BY <1>3, <1>6, <2>3, <3>1 DEF NoTwins
      <4>2. Slug(i) \notin Live' BY <1>9, <3>1
      <4> QED BY <2>3, <4>1, <4>2 DEF DelKinds
    <3>2. CASE Kind(i) \notin DelKinds
      <4>1. Slug(i) \in Live' BY <1>9, <3>2
      <4>2. CASE Kind(j) \in NewKinds
        <5>1. Kind(i) \notin NewKinds BY <1>3, <1>6, <2>3, <4>2 DEF NoTwins
        <5>2. Kind(i) = "update"
          <6>1. Kind(i) \in Kinds
            <7>1. item[i] \in Item BY <1>1, <1>6 DEF TypeInv
            <7> QED BY <7>1 DEF Item, Kind
          <6> QED BY <3>2, <5>1, <6>1 DEF Kinds, NewKinds, DelKinds
        <5>3. Slug(i) \in Live BY <1>3, <1>6, <5>2 DEF Targets
        <5> QED BY <2>1, <2>3, <4>2, <5>3
      <4>3. CASE Kind(j) \notin NewKinds BY <2>3, <4>1, <4>3
      <4> QED BY <4>2, <4>3
    <3> QED BY <3>1, <3>2
  <2> QED BY <2>2, <2>3
<1>21. ASSUME NEW k \in 1..Len(levels) PROVE RefsBefore(k)'
  <2> SUFFICES ASSUME NEW j \in levels[k], NEW s \in Refs(j) \ (Live' \cup withdrawn)
               PROVE \E m \in 1..(k - 1) : \E l \in levels[m] \ done' :
                        Slug(l) = s /\ Kind(l) \in NewKinds
    BY <1>8 DEF RefsBefore
  <2>1. j \in draft BY <1>5
  <2>2. s \notin Live
    <3> SUFFICES ASSUME s \in Live PROVE FALSE OBVIOUS
    <3>1. s = Slug(i) /\ Kind(i) \in DelKinds BY <1>9
    <3> QED BY <1>3, <1>6, <2>1, <3>1 DEF NoneDeletes
  <2>3. RefsBefore(k) BY <1>3
  <2>4. PICK m \in 1..(k - 1) : \E l \in levels[m] \ done : Slug(l) = s /\ Kind(l) \in NewKinds
    BY <2>2, <2>3 DEF RefsBefore
  <2>5. PICK l \in levels[m] \ done : Slug(l) = s /\ Kind(l) \in NewKinds BY <2>4
  <2>6. l # i
    <3> SUFFICES ASSUME l = i PROVE FALSE OBVIOUS
    <3>1. Kind(i) \notin DelKinds BY <2>5 DEF NewKinds, DelKinds
    <3> QED BY <1>9, <2>5, <3>1
  <2> QED BY <2>5, <2>6
<1>22. ASSUME NEW k \in 1..Len(levels) PROVE RewrittenBefore(k)'
  <2> SUFFICES ASSUME NEW j \in levels[k], Kind(j) \in DelKinds,
                      NEW s \in Live' \ (withdrawn \cup {Slug(j)}), Slug(j) \in live'[s]
               PROVE \E m \in 1..(k - 1) : \E l \in levels[m] \ acted' : Slug(l) = s
    BY <1>8 DEF RewrittenBefore
  <2>1. j \in draft BY <1>5
  <2>2. s # Slug(i) BY <1>9, <1>14, <2>1
  <2>3. s \in Live \ (withdrawn \cup {Slug(j)}) /\ Slug(j) \in live[s] BY <1>10, <2>2
  <2>4. RewrittenBefore(k) BY <1>3
  <2>5. PICK m \in 1..(k - 1) : \E l \in levels[m] \ acted : Slug(l) = s
    BY <2>3, <2>4 DEF RewrittenBefore
  <2> QED BY <2>2, <2>5
<1>23. Running' BY <1>19, <1>20, <1>21, <1>22 DEF Running
<1> QED BY <1>15, <1>16, <1>17, <1>18, <1>23 DEF Inv

\* A success keeps the invariant.
LEMMA SucceedsInv ==
    ASSUME Inv, NEW i, Succeeds(i)
    PROVE Inv'
<1>1. /\ InLevel(i) /\ UNCHANGED <<item, draft, status, levels, edits, withdrawn>>
      /\ acted' = acted \cup {i} /\ done' = done \cup {i}
      /\ failed' = failed /\ canceled' = canceled
  BY DEF Succeeds
<1>2. CASE Kind(i) \in DelKinds
  <2>1. live' = [s \in Live \ {Slug(i)} |-> live[s]] BY <1>2 DEF Succeeds
  <2> QED BY <1>1, <1>2, <2>1, ActInv
<1>3. CASE Kind(i) \notin DelKinds
  <2>1. live' = [s \in Live \cup {Slug(i)} |-> IF s = Slug(i) THEN Refs(i) ELSE live[s]]
    BY <1>3 DEF Succeeds
  <2> QED BY <1>1, <1>3, <2>1, ActInv
<1> QED BY <1>2, <1>3

\* A step of an item that leaves its resource alone.
LEMMA IdleInv ==
    ASSUME Inv, NEW i, InLevel(i),
           UNCHANGED <<item, draft, live, status, done, levels, edits, acted, withdrawn>>,
           failed' \subseteq failed \cup {i}, canceled' \subseteq canceled \cup {i}
    PROVE Inv'
<1>1. TypeInv /\ LastWord /\ Created /\ ReferencesLive BY DEF Inv
<1>2. status = "applying" /\ i \in Head(levels) BY DEF InLevel
<1>3. Live' = Live BY DEF Live
<1>4. \A j : Slug(j)' = Slug(j) /\ Kind(j)' = Kind(j) /\ Refs(j)' = Refs(j)
  BY DEF Slug, Kind, Refs
<1>5. TypeInv'
  <2>1. levels \in Seq(SUBSET draft) /\ levels # <<>> BY <1>1, <1>2 DEF TypeInv
  <2>2. i \in draft BY <1>2, <2>1
  <2>3. failed' \subseteq draft' /\ canceled' \subseteq draft' BY <1>1, <2>2 DEF TypeInv
  <2> QED BY <1>1, <1>2, <1>3, <2>3 DEF TypeInv
<1>6. (LastWord /\ Created /\ ReferencesLive)'
  BY <1>1, <1>3, <1>4 DEF LastWord, Created, ReferencesLive
<1>7. Running BY <1>2 DEF Inv
<1>8. (NoTwins /\ NoneDeletes /\ Targets)'
  BY <1>3, <1>4, <1>7 DEF Running, NoTwins, NoneDeletes, Targets
<1>9. ASSUME NEW k \in 1..Len(levels) PROVE RefsBefore(k)' /\ RewrittenBefore(k)'
  <2>1. RefsBefore(k) /\ RewrittenBefore(k) BY <1>7 DEF Running
  <2>2. RefsBefore(k)' BY <1>3, <1>4, <2>1 DEF RefsBefore
  <2>3. RewrittenBefore(k)' BY <1>3, <1>4, <2>1 DEF RewrittenBefore
  <2> QED BY <2>2, <2>3
<1>10. Running' BY <1>8, <1>9 DEF Running
<1> QED BY <1>5, <1>6, <1>10 DEF Inv

\* A failure keeps it, also one that has written the new references.
LEMMA FailsInv ==
    ASSUME Inv, NEW i, Fails(i)
    PROVE Inv'
<1>1. /\ InLevel(i) /\ failed' = failed \cup {i}
      /\ UNCHANGED <<item, draft, status, done, canceled, levels, edits, withdrawn>>
  BY DEF Fails
<1>2. CASE UNCHANGED <<live, acted>> BY <1>1, <1>2, IdleInv
<1>3. CASE /\ Kind(i) = "update" /\ Slug(i) \in Live
           /\ live' = [live EXCEPT ![Slug(i)] = Refs(i)]
           /\ acted' = acted \cup {i}
  <2>1. Kind(i) \notin DelKinds /\ Kind(i) \notin NewKinds BY <1>3 DEF DelKinds, NewKinds
  <2>2. live \in [Live -> SUBSET Slugs] BY DEF Inv, TypeInv
  <2>3. live' = [s \in Live \cup {Slug(i)} |-> IF s = Slug(i) THEN Refs(i) ELSE live[s]]
    BY <1>3, <2>2
  <2> QED BY <1>1, <1>3, <2>1, <2>3, ActInv
<1> QED BY <1>2, <1>3 DEF Fails

\* A cancel keeps it.
LEMMA CanceledInv ==
    ASSUME Inv, NEW i, Canceled(i)
    PROVE Inv'
BY IdleInv DEF Canceled

\* All of the first level has succeeded: the invariant moves down by one.
LEMMA LevelDoneInv ==
    ASSUME Inv, LevelDone
    PROVE Inv'
<1>1. TypeInv /\ LastWord /\ Created /\ ReferencesLive BY DEF Inv
<1>2. /\ status = "applying" /\ Head(levels) \subseteq done \cup failed \cup canceled
      /\ failed' = {} /\ canceled' = {}
      /\ UNCHANGED <<item, draft, live, done, edits, acted, withdrawn>>
  BY DEF LevelDone, Settled
<1>3. Live' = Live BY <1>2 DEF Live
<1>4. \A j : Slug(j)' = Slug(j) /\ Kind(j)' = Kind(j) /\ Refs(j)' = Refs(j)
  BY <1>2 DEF Slug, Kind, Refs
<1>5. levels \in Seq(SUBSET draft) /\ levels # <<>> BY <1>1, <1>2 DEF TypeInv
<1>6. \/ status' \in {"draft", "applied", "canceled"}
      \/ /\ status' = "applying" /\ failed = {} /\ canceled = {} /\ Len(levels) # 1
         /\ levels' = Tail(levels)
  BY DEF LevelDone
<1>7. TypeInv'
  <2>1. status' = "applying" => levels' \in Seq(SUBSET draft') /\ levels' # <<>>
    <3> SUFFICES ASSUME status' = "applying" PROVE levels' \in Seq(SUBSET draft) /\ levels' # <<>>
      BY <1>2
    <3>1. levels' = Tail(levels) /\ Len(levels) # 1 BY <1>6
    <3>2. Tail(levels) \in Seq(SUBSET draft) /\ Len(Tail(levels)) = Len(levels) - 1 BY <1>5
    <3>3. Len(levels) \in Nat /\ Len(levels) # 0 BY <1>5
    <3>4. Len(levels') # 0 BY <3>1, <3>2, <3>3
    <3> QED BY <3>1, <3>2, <3>4
  <2>2. status' \in {"draft", "applying", "applied", "canceled"} BY <1>6
  <2> QED BY <1>1, <1>2, <1>3, <2>1, <2>2 DEF TypeInv
<1>8. (LastWord /\ Created /\ ReferencesLive)'
  BY <1>1, <1>2, <1>3, <1>4 DEF LastWord, Created, ReferencesLive
<1>9. ASSUME status' = "applying" PROVE Running'
  <2>1. Running BY <1>2 DEF Inv
  <2>2. (NoTwins /\ NoneDeletes /\ Targets)'
    BY <1>2, <1>3, <1>4, <2>1 DEF Running, NoTwins, NoneDeletes, Targets
  <2>3. /\ Len(levels) \in Nat /\ levels[1] = Head(levels)
        /\ Len(levels') = Len(levels) - 1
        /\ \A k \in 1..Len(levels') : levels'[k] = levels[k + 1]
    BY <1>5, <1>6, <1>9
  <2>4. levels[1] \subseteq done /\ done \subseteq acted
    BY <1>1, <1>2, <1>6, <1>9, <2>3 DEF TypeInv
  <2>5. ASSUME NEW k \in 1..Len(levels') PROVE RefsBefore(k)' /\ RewrittenBefore(k)'
    <3>1. /\ k \in Nat /\ k + 1 \in 1..Len(levels) /\ (k + 1) - 1 = k
          /\ levels'[k] = levels[k + 1]
      BY <2>3
    <3>2. RefsBefore(k + 1) /\ RewrittenBefore(k + 1) BY <2>1, <3>1 DEF Running
    <3>3. ASSUME NEW m \in 1..k, m # 1
          PROVE m - 1 \in 1..(k - 1) /\ levels'[m - 1] = levels[m]
      <4>1. m - 1 \in 1..(k - 1) /\ (m - 1) + 1 = m BY <3>1, <3>3
      <4>2. m - 1 \in 1..Len(levels') BY <2>3, <3>1, <4>1
      <4> QED BY <2>3, <4>1, <4>2
    <3>4. RefsBefore(k)'
      <4> SUFFICES ASSUME NEW j \in levels[k + 1], NEW s \in Refs(j) \ (Live \cup withdrawn)
                   PROVE \E m \in 1..(k - 1) : \E l \in levels'[m] \ done :
                            Slug(l) = s /\ Kind(l) \in NewKinds
        BY <1>2, <1>3, <1>4, <3>1 DEF RefsBefore
      <4>1. PICK m \in 1..k : \E l \in levels[m] \ done : Slug(l) = s /\ Kind(l) \in NewKinds
        BY <3>1, <3>2 DEF RefsBefore
      <4>2. m # 1 BY <2>4, <4>1
      <4> QED BY <3>3, <4>1, <4>2
    <3>5. RewrittenBefore(k)'
      <4> SUFFICES ASSUME NEW j \in levels[k + 1], Kind(j) \in DelKinds,
                          NEW s \in Live \ (withdrawn \cup {Slug(j)}), Slug(j) \in live[s]
                   PROVE \E m \in 1..(k - 1) : \E l \in levels'[m] \ acted : Slug(l) = s
        BY <1>2, <1>3, <1>4, <3>1 DEF RewrittenBefore
      <4>1. PICK m \in 1..k : \E l \in levels[m] \ acted : Slug(l) = s
        BY <3>1, <3>2 DEF RewrittenBefore
      <4>2. m # 1 BY <2>4, <4>1
      <4> QED BY <3>3, <4>1, <4>2
    <3> QED BY <3>4, <3>5
  <2> QED BY <2>2, <2>5 DEF Running
<1> QED BY <1>7, <1>8, <1>9 DEF Inv

\* The last of some items is one of them.
LEMMA LastOfSome ==
    ASSUME NEW S \in SUBSET Nat, IsFiniteSet(S)
    PROVE LastOf(S) \subseteq S /\ (S # {} => LastOf(S) # {})
BY Maximum DEF LastOf

\* A draft is a finite set of numbers.
LEMMA DraftFinite == TypeInv => draft \in SUBSET Nat /\ IsFiniteSet(draft)
<1> SUFFICES ASSUME TypeInv PROVE draft \in SUBSET Nat /\ IsFiniteSet(draft) OBVIOUS
<1> DEFINE n == Len(item)
<1>1. n \in Nat /\ 1 \in Int /\ n \in Int /\ draft \subseteq 1..n BY DEF TypeInv
<1> HIDE DEF n
<1>2. IsFiniteSet(1..n) BY <1>1, FS_Interval
<1>3. draft \in SUBSET (1..n) BY <1>1
<1>4. IsFiniteSet(draft) BY <1>2, <1>3, FS_Subset
<1> QED BY <1>1, <1>4

\* If the order has the whole draft, nothing in it is blocked.
LEMMA NoneBlocked ==
    ASSUME draft \in SUBSET Nat, IsFiniteSet(draft), Unblocked(Plan)
    PROVE DirectlyBlocked = {}
<1>1. DirectlyBlocked \in SUBSET draft BY DEF DirectlyBlocked
<1>2. DirectlyBlocked \subseteq BlockedIds BY <1>1, BlockedLeast DEF BlockedIds
<1>3. Plan.order \in Seq(draft \ BlockedIds) BY PlanOrder
<1>4. ToSet(Plan.order) \subseteq draft \ BlockedIds BY <1>3, ElementsToSet DEF Elements
<1> QED BY <1>1, <1>2, <1>4 DEF Unblocked

\* What an item waits for is in a level before its own.
LEMMA DepsBefore ==
    ASSUME draft \in SUBSET Nat, IsFiniteSet(draft), draft # {}, Unblocked(Plan)
    PROVE /\ Levels(Plan) \in Seq(SUBSET draft) /\ Levels(Plan) # <<>>
          /\ \A k \in 1..Len(Levels(Plan)) : \A i \in Levels(Plan)[k] : \A j \in Deps(i) \cap draft :
                \E m \in 1..(k - 1) : j \in Levels(Plan)[m]
<1> DEFINE L == Levels(Plan)
           D == FinalDepths
<1>1. PICK top \in Nat : L = [k \in 1..(top + 1) |-> {i \in draft : D[i] = k - 1}]
  BY LevelsByDepth
<1>2. D \in [draft -> Nat] /\ \A i \in draft : \A j \in Below(Dependencies, i) : D[j] < D[i]
  BY AllPlaced DEF Placed
<1> HIDE DEF L, D
<1>3. top + 1 \in Nat /\ L \in [1..(top + 1) -> SUBSET draft] BY <1>1
<1>4. L \in Seq(SUBSET draft) /\ Len(L) = top + 1
  <2> DEFINE S == SUBSET draft
             n == top + 1
  <2>1. n \in Nat /\ L \in [1..n -> S] BY <1>3
  <2> HIDE DEF S, n
  <2>2. L \in Seq(S) /\ Len(L) = n BY <2>1, FunctionIsSeq
  <2> QED BY <2>2 DEF S, n
<1>5. L # <<>> BY <1>4
<1>6. ASSUME NEW k \in 1..(top + 1), NEW i \in L[k], NEW j \in Deps(i) \cap draft
      PROVE \E m \in 1..(k - 1) : j \in L[m]
  <2>1. i \in draft /\ D[i] = k - 1 BY <1>1
  <2>2. <<i, j>> \in Dependencies BY <2>1 DEF Dependencies
  <2>3. j \in Below(Dependencies, i) BY <2>2, BelowPairs
  <2>4. D[j] \in Nat /\ D[j] < k - 1 BY <1>2, <2>1, <2>3
  <2>5. /\ D[j] + 1 \in 1..(k - 1) /\ D[j] + 1 \in 1..(top + 1) /\ (D[j] + 1) - 1 = D[j]
    BY <2>4
  <2>6. j \in L[D[j] + 1] BY <1>1, <2>5
  <2> QED BY <2>5, <2>6
<1> QED BY <1>4, <1>5, <1>6 DEF L

\* An accepted plan has all that the run relies on.
LEMMA AcceptedRuns ==
    ASSUME TypeInv, LastWord, Created, Accepted(Plan)
    PROVE /\ NoTwins /\ NoneDeletes /\ Targets
          /\ \A i \in draft : \A s \in Refs(i) \ (Live \cup withdrawn) :
                \E j \in (Deps(i) \cap draft) \ done : Slug(j) = s /\ Kind(j) \in NewKinds
          /\ \A i \in draft : Kind(i) \in DelKinds =>
                \A s \in Live \ (withdrawn \cup {Slug(i)}) : Slug(i) \in live[s] =>
                    \E j \in (Deps(i) \cap draft) \ acted : Slug(j) = s
<1>1. draft \in SUBSET Nat /\ IsFiniteSet(draft) BY DraftFinite
<1>2. draft # {} /\ (\A i \in draft : ~Issue(i)) /\ DirectlyBlocked = {}
  BY <1>1, NoneBlocked DEF Accepted
<1>3. done \subseteq acted /\ acted \subseteq draft BY DEF TypeInv
<1>4. \A S \in SUBSET draft : LastOf(S) \subseteq S /\ (S # {} => LastOf(S) # {})
  <2> SUFFICES ASSUME NEW S \in SUBSET draft
               PROVE LastOf(S) \subseteq S /\ (S # {} => LastOf(S) # {})
    OBVIOUS
  <2>1. S \in SUBSET Nat /\ IsFiniteSet(S) BY <1>1, FS_Subset
  <2> QED BY <2>1, LastOfSome
<1>5. ASSUME NEW s
      PROVE /\ StagedDelete(s) \subseteq {j \in draft : Slug(j) = s /\ Kind(j) \in DelKinds}
            /\ \A j \in draft : Slug(j) = s /\ Kind(j) \in DelKinds => StagedDelete(s) # {}
  <2> DEFINE S == {j \in draft : Slug(j) = s /\ Kind(j) \in DelKinds}
  <2>1. S \in SUBSET draft /\ StagedDelete(s) = LastOf(S) BY DEF StagedDelete
  <2> QED BY <1>4, <2>1
<1>6. \A i \in draft : ~Duplicate(i) /\ ~BadReference(i) /\ ~TargetGone(i) /\ ~ExistsAlready(i)
  BY <1>2 DEF Issue
<1>7. \A d \in draft : Kind(d) \in DelKinds => StagedDelete(Slug(d)) = {d}
  <2> SUFFICES ASSUME NEW d \in draft, Kind(d) \in DelKinds PROVE StagedDelete(Slug(d)) = {d}
    OBVIOUS
  <2>1. ASSUME NEW j \in draft, Slug(j) = Slug(d), Kind(j) \in DelKinds PROVE j = d
    <3>1. Earlier(d, DelKinds) = {} /\ Earlier(j, DelKinds) = {}
      BY <1>6, <2>1 DEF Duplicate
    <3>2. ~(j < d) /\ ~(d < j) BY <2>1, <3>1 DEF Earlier
    <3>3. j \in Nat /\ d \in Nat BY <1>1
    <3> QED BY <3>2, <3>3
  <2>2. StagedDelete(Slug(d)) # {} BY <1>5
  <2>3. StagedDelete(Slug(d)) \subseteq {d} BY <1>5, <2>1
  <2> QED BY <2>2, <2>3
<1>8. NoTwins
  <2> SUFFICES ASSUME NEW i \in draft, NEW j \in draft, i # j, Slug(i) = Slug(j)
               PROVE /\ Kind(i) \in NewKinds => Kind(j) \notin NewKinds
                     /\ Kind(i) \in DelKinds => Kind(j) \notin DelKinds \cup {"update"}
    BY DEF NoTwins
  <2>1. ASSUME Kind(i) \in NewKinds, Kind(j) \in NewKinds PROVE FALSE
    <3>1. Earlier(i, NewKinds) = {} /\ Earlier(j, NewKinds) = {} BY <1>6, <2>1 DEF Duplicate
    <3>2. ~(i < j) /\ ~(j < i) BY <2>1, <3>1 DEF Earlier
    <3>3. i \in Nat /\ j \in Nat BY <1>1
    <3> QED BY <3>2, <3>3
  <2>2. ASSUME Kind(i) \in DelKinds, Kind(j) \in DelKinds PROVE FALSE
    <3>1. StagedDelete(Slug(i)) = {i} /\ StagedDelete(Slug(j)) = {j} BY <1>7, <2>2
    <3> QED BY <3>1
  <2>3. ASSUME Kind(i) \in DelKinds, Kind(j) = "update" PROVE FALSE
    <3>1. StagedDelete(Slug(j)) # {} BY <1>5, <2>3
    <3> QED BY <1>6, <2>3, <3>1 DEF Duplicate
  <2> QED BY <2>1, <2>2, <2>3
<1>9. \A i \in draft : \A s \in Refs(i) : s # Slug(i) /\ StagedDelete(s) = {} /\ AvailableAfter(s)
  BY <1>6 DEF BadReference
<1>10. NoneDeletes BY <1>5, <1>9 DEF NoneDeletes
<1>11. Targets BY <1>6 DEF Targets, TargetGone, ExistsAlready
<1>12. ASSUME NEW i \in draft, NEW s \in Refs(i), s \notin Live \cup withdrawn
       PROVE \E j \in (Deps(i) \cap draft) \ done : Slug(j) = s /\ Kind(j) \in NewKinds
  <2> DEFINE A == {j \in draft : Slug(j) = s /\ Kind(j) # "update"}
             N == {j \in draft : Slug(j) = s /\ Kind(j) \in NewKinds}
  <2>1. s # Slug(i) /\ StagedDelete(s) = {} /\ AvailableAfter(s) BY <1>9
  <2>2. /\ A \in SUBSET draft /\ N \in SUBSET draft /\ StagedTarget(s) = LastOf(N)
        /\ IF LastOf(A) = {} THEN s \in Live ELSE \A m \in LastOf(A) : Kind(m) \in NewKinds
    BY <2>1 DEF StagedTarget, AvailableAfter
  <2>3. /\ \A j \in A : j \in draft /\ Slug(j) = s
        /\ \A j : j \in N <=> j \in draft /\ Slug(j) = s /\ Kind(j) \in NewKinds
    OBVIOUS
  <2> HIDE DEF A, N
  <2>4. N # {}
    <3>1. LastOf(A) # {} /\ \A m \in LastOf(A) : Kind(m) \in NewKinds BY <1>12, <2>2
    <3>2. LastOf(A) \subseteq A BY <1>4, <2>2
    <3>3. PICK m \in A : Kind(m) \in NewKinds BY <3>1, <3>2
    <3> QED BY <2>3, <3>3
  <2>5. PICK j \in StagedTarget(s) : j \in N
    <3>1. LastOf(N) \subseteq N /\ LastOf(N) # {} BY <1>4, <2>2, <2>4
    <3>2. StagedTarget(s) = LastOf(N) BY <2>2
    <3> QED BY <3>1, <3>2
  <2>6. j \in Deps(i)
    <3> DEFINE V(u) == IF StagedTarget(u) # {} THEN StagedTarget(u) ELSE StagedMutations(u)
               R == {u \in Refs(i) \ {Slug(i)} : StagedDelete(u) = {}}
    <3>1. RefDeps(i) = (UNION {V(u) : u \in R}) \ {i} BY DEF RefDeps
    <3>2. j # i BY <2>1, <2>3, <2>5
    <3>3. s \in R /\ j \in V(s) BY <2>1, <2>5
    <3> HIDE DEF V, R
    <3>4. j \in RefDeps(i) BY <3>1, <3>2, <3>3
    <3> QED BY <3>4 DEF Deps
  <2>7. j \notin done
    <3> SUFFICES ASSUME j \in done PROVE FALSE OBVIOUS
    <3>1. PICK d \in acted : Slug(d) = s /\ Kind(d) \in DelKinds BY <1>12, <2>3, <2>5 DEF Created
    <3>2. d \in draft BY <1>3
    <3> QED BY <1>5, <2>1, <3>1, <3>2
  <2> QED BY <2>3, <2>5, <2>6, <2>7
<1>13. ASSUME NEW i \in draft, Kind(i) \in DelKinds,
              NEW s \in Live \ (withdrawn \cup {Slug(i)}), Slug(i) \in live[s]
       PROVE \E j \in (Deps(i) \cap draft) \ acted : Slug(j) = s
  <2> DEFINE F == {j \in StagedMutations(s) : Kind(j) \in RefKinds}
  <2>1. IsDelete(i) BY <1>7, <1>13 DEF IsDelete
  <2>2. ~DeleteBlocked(i) BY <1>2, <2>1 DEF DirectlyBlocked
  <2>3. s \in Dependents(i) BY <1>13 DEF Dependents
  <2>4. StagedDelete(s) # {} \/ (FinalMutation(s) # {} /\ Released(i, s))
    BY <2>2, <2>3 DEF DeleteBlocked
  <2>5. F \in SUBSET draft /\ FinalMutation(s) = LastOf(F)
    BY DEF FinalMutation, StagedMutations
  <2>6. \A j \in FinalMutation(s) : j \in draft /\ Slug(j) = s
    <3>1. \A j \in F : j \in draft /\ Slug(j) = s BY DEF StagedMutations
    <3> HIDE DEF F
    <3>2. FinalMutation(s) \subseteq F BY <1>4, <2>5
    <3> QED BY <3>1, <3>2
  <2>7. PICK j \in DeleteDeps(i) : j \in draft /\ Slug(j) = s
    <3> DEFINE W(u) == IF StagedDelete(u) # {} THEN StagedDelete(u)
                       ELSE {j \in FinalMutation(u) : Released(i, u)}
    <3>1. PICK j \in W(s) : j \in draft /\ Slug(j) = s
      <4>1. CASE StagedDelete(s) # {} BY <1>5, <4>1
      <4>2. CASE StagedDelete(s) = {} BY <2>4, <2>6, <4>2
      <4> QED BY <4>1, <4>2
    <3>2. DeleteDeps(i) = (UNION {W(u) : u \in Dependents(i)}) \ {i} BY DEF DeleteDeps
    <3>3. j # i BY <1>13, <3>1
    <3> HIDE DEF W
    <3>4. j \in DeleteDeps(i) BY <2>3, <3>1, <3>2, <3>3
    <3> QED BY <3>1, <3>4
  <2>8. j \in Deps(i) BY <2>1, <2>7 DEF Deps
  <2>9. j \notin acted
    <3> SUFFICES ASSUME j \in acted PROVE FALSE OBVIOUS
    <3>1. PICK k \in acted : Slug(k) = s /\ live[s] = Refs(k) BY <1>13, <2>7 DEF LastWord
    <3> QED BY <1>3, <1>10, <1>13, <3>1 DEF NoneDeletes
  <2> QED BY <2>7, <2>8, <2>9
<1>14. \A i \in draft : \A s \in Refs(i) \ (Live \cup withdrawn) :
          \E j \in (Deps(i) \cap draft) \ done : Slug(j) = s /\ Kind(j) \in NewKinds
  BY <1>12
<1>15. \A i \in draft : Kind(i) \in DelKinds =>
          \A s \in Live \ (withdrawn \cup {Slug(i)}) : Slug(i) \in live[s] =>
              \E j \in (Deps(i) \cap draft) \ acted : Slug(j) = s
  BY <1>13
<1> QED BY <1>8, <1>10, <1>11, <1>14, <1>15

\* apply starts a run only with a plan that the run can rely on.
LEMMA applyInv ==
    ASSUME Inv, apply
    PROVE Inv'
<1>1. TypeInv /\ LastWord /\ Created /\ ReferencesLive BY DEF Inv
<1>2. /\ status = "draft" /\ Accepted(Plan) /\ levels' = Levels(Plan)
      /\ status' = "applying"
      /\ UNCHANGED <<item, draft, live, done, failed, canceled, edits, acted, withdrawn>>
  BY DEF apply
<1>3. Live' = Live BY <1>2 DEF Live
<1>4. \A j : Slug(j)' = Slug(j) /\ Kind(j)' = Kind(j) /\ Refs(j)' = Refs(j)
  BY <1>2 DEF Slug, Kind, Refs
<1>5. draft \in SUBSET Nat /\ IsFiniteSet(draft) /\ draft # {} /\ Unblocked(Plan)
  BY <1>1, <1>2, DraftFinite DEF Accepted
<1>6. /\ levels' \in Seq(SUBSET draft) /\ levels' # <<>>
      /\ \A k \in 1..Len(levels') : \A i \in levels'[k] : \A j \in Deps(i) \cap draft :
            \E m \in 1..(k - 1) : j \in levels'[m]
  BY <1>2, <1>5, DepsBefore
<1>7. TypeInv' BY <1>1, <1>2, <1>3, <1>6 DEF TypeInv
<1>8. (LastWord /\ Created /\ ReferencesLive)'
  BY <1>1, <1>2, <1>3, <1>4 DEF LastWord, Created, ReferencesLive
<1>9. /\ NoTwins /\ NoneDeletes /\ Targets
      /\ \A i \in draft : \A s \in Refs(i) \ (Live \cup withdrawn) :
            \E j \in (Deps(i) \cap draft) \ done : Slug(j) = s /\ Kind(j) \in NewKinds
      /\ \A i \in draft : Kind(i) \in DelKinds =>
            \A s \in Live \ (withdrawn \cup {Slug(i)}) : Slug(i) \in live[s] =>
                \E j \in (Deps(i) \cap draft) \ acted : Slug(j) = s
  BY <1>1, <1>2, AcceptedRuns
<1>10. (NoTwins /\ NoneDeletes /\ Targets)'
  BY <1>2, <1>3, <1>4, <1>9 DEF NoTwins, NoneDeletes, Targets
<1>11. \A k \in 1..Len(levels') : levels'[k] \subseteq draft BY <1>6
<1>12. ASSUME NEW k \in 1..Len(levels') PROVE RefsBefore(k)'
  <2> SUFFICES ASSUME NEW i \in levels'[k], NEW s \in Refs(i) \ (Live \cup withdrawn)
               PROVE \E m \in 1..(k - 1) : \E j \in levels'[m] \ done :
                        Slug(j) = s /\ Kind(j) \in NewKinds
    BY <1>2, <1>3, <1>4 DEF RefsBefore
  <2>1. i \in draft BY <1>11
  <2>2. PICK j \in (Deps(i) \cap draft) \ done : Slug(j) = s /\ Kind(j) \in NewKinds
    BY <1>9, <2>1
  <2>3. PICK m \in 1..(k - 1) : j \in levels'[m] BY <1>6
  <2> QED BY <2>2, <2>3
<1>13. ASSUME NEW k \in 1..Len(levels') PROVE RewrittenBefore(k)'
  <2> SUFFICES ASSUME NEW i \in levels'[k], Kind(i) \in DelKinds,
                      NEW s \in Live \ (withdrawn \cup {Slug(i)}), Slug(i) \in live[s]
               PROVE \E m \in 1..(k - 1) : \E j \in levels'[m] \ acted : Slug(j) = s
    BY <1>2, <1>3, <1>4 DEF RewrittenBefore
  <2>1. i \in draft BY <1>11
  <2>2. PICK j \in (Deps(i) \cap draft) \ acted : Slug(j) = s BY <1>9, <2>1
  <2>3. PICK m \in 1..(k - 1) : j \in levels'[m] BY <1>6
  <2> QED BY <2>2, <2>3
<1>14. Running' BY <1>10, <1>12, <1>13 DEF Running
<1> QED BY <1>7, <1>8, <1>14 DEF Inv

\* Every step keeps the invariant.
LEMMA StepInv == Inv /\ [Next]_vars => Inv'
<1> SUFFICES ASSUME Inv, [Next]_vars PROVE Inv' OBVIOUS
<1>1. CASE UNCHANGED vars
  <2>1. /\ item' = item /\ draft' = draft /\ live' = live /\ status' = status /\ done' = done
        /\ failed' = failed /\ canceled' = canceled /\ levels' = levels /\ edits' = edits
        /\ acted' = acted /\ withdrawn' = withdrawn
    BY <1>1 DEF vars
  <2>2. Live' = Live BY <2>1 DEF Live
  <2>3. \A j : Slug(j)' = Slug(j) /\ Kind(j)' = Kind(j) /\ Refs(j)' = Refs(j)
    BY <2>1 DEF Slug, Kind, Refs
  <2>4. (TypeInv /\ LastWord /\ Created /\ ReferencesLive)'
    <3>1. TypeInv' BY <2>1, <2>2 DEF Inv, TypeInv
    <3>2. LastWord' BY <2>1, <2>2, <2>3 DEF Inv, LastWord
    <3>3. Created' BY <2>1, <2>2, <2>3 DEF Inv, Created
    <3>4. ReferencesLive' BY <2>1, <2>2 DEF Inv, ReferencesLive
    <3> QED BY <3>1, <3>2, <3>3, <3>4
  <2>5. ASSUME status' = "applying" PROVE Running'
    <3>1. Running BY <2>1, <2>5 DEF Inv
    <3>2. (NoTwins /\ NoneDeletes /\ Targets)'
      BY <2>1, <2>2, <2>3, <3>1 DEF Running, NoTwins, NoneDeletes, Targets
    <3>3. ASSUME NEW k \in 1..Len(levels) PROVE RefsBefore(k)' /\ RewrittenBefore(k)'
      <4>1. RefsBefore(k) /\ RewrittenBefore(k) BY <3>1 DEF Running
      <4>2. RefsBefore(k)' BY <2>1, <2>2, <2>3, <4>1 DEF RefsBefore
      <4>3. RewrittenBefore(k)' BY <2>1, <2>2, <2>3, <4>1 DEF RewrittenBefore
      <4> QED BY <4>2, <4>3
    <3> QED BY <2>1, <3>2, <3>3 DEF Running
  <2> QED BY <2>4, <2>5 DEF Inv
<1>2. CASE apply BY <1>2, applyInv
<1>3. CASE LevelDone BY <1>3, LevelDoneInv
<1>4. ASSUME NEW i \in draft, deleteItem(i) \/ Succeeds(i) \/ Fails(i) \/ Canceled(i) PROVE Inv'
  BY <1>4, deleteItemInv, SucceedsInv, FailsInv, CanceledInv
<1>5. ASSUME Len(item) < MaxItems, NEW x \in ItemChoices[Len(item) + 1], stageItem(x) PROVE Inv'
  <2>1. item \in Seq(Item) /\ Len(item) \in Nat BY DEF Inv, TypeInv
  <2>2. Len(item) + 1 \in 1..MaxItems BY <1>5, <2>1, ChoicesAssumption
  <2>3. x \in Item BY <2>2, ChoicesAssumption
  <2> QED BY <1>5, <2>3, StageInv
<1>6. ASSUME NEW i \in draft, NEW new \in ItemChoices[i], updateItem(i, new) PROVE Inv'
  <2>1. i \in 1..Len(item) /\ Len(item) <= MaxItems /\ Len(item) \in Nat BY DEF Inv, TypeInv
  <2>2. i \in 1..MaxItems BY <2>1, ChoicesAssumption
  <2>3. new \in Item BY <2>2, ChoicesAssumption
  <2> QED BY <1>6, <2>3, updateItemInv
<1> QED BY <1>1, <1>2, <1>3, <1>4, <1>5, <1>6 DEF Next

(***************************************************************************)
(* The theorems.                                                           *)
(***************************************************************************)

\* Types, and what was applied so far together with what is still to come,
\* hold at any moment (stageItem ... getChangeSetApplyGraph, apply workflow).
THEOREM InvHolds == Spec => []Inv
<1>1. Init => Inv BY InitInv
<1>2. Inv /\ [Next]_vars => Inv' BY StepInv
<1> QED BY <1>1, <1>2, PTL DEF Spec

\* No live resource refers to one that is gone, whatever is staged, applied,
\* failed half way, edited and applied again, for what no edit withdrew: the
\* blockers of planChangesetApply and the levels see to it.
THEOREM ReferencesStayLive == Spec => []ReferencesLive
<1>1. Inv => ReferencesLive BY DEF Inv
<1> QED BY <1>1, InvHolds, PTL

\* When a level of getChangeSetApplyGraph starts, its items can run: what they
\* refer to is there, their target is there, a new one's slug is free.
THEOREM LevelsReady == Spec => []LevelReady
<1>1. ASSUME Inv PROVE LevelReady
  <2> SUFFICES ASSUME status = "applying", NEW i \in Head(levels) \ Settled
               PROVE /\ Refs(i) \subseteq Live \cup withdrawn
                     /\ Kind(i) \in {"update", "delete"} => Slug(i) \in Live
                     /\ Kind(i) \in NewKinds => Slug(i) \notin Live
    BY DEF LevelReady
  <2>1. levels \in Seq(SUBSET draft) /\ levels # <<>> BY <1>1 DEF Inv, TypeInv
  <2>2. 1 \in 1..Len(levels) /\ levels[1] = Head(levels) /\ i \in draft BY <2>1
  <2>3. i \in draft \ done BY <2>2 DEF Settled
  <2>4. Targets /\ RefsBefore(1) BY <1>1, <2>2 DEF Inv, Running
  <2>5. Refs(i) \subseteq Live \cup withdrawn BY <2>2, <2>4 DEF RefsBefore
  <2> QED BY <2>3, <2>4, <2>5 DEF Targets
<1>2. Inv => LevelReady BY <1>1
<1> QED BY <1>2, InvHolds, PTL

\* The levels of getChangeSetApplyGraph peel the draft, each of them what
\* waits for nothing that is left.
THEOREM LevelsPeelAlways == Spec => []LevelsPeel
<1>1. Inv => LevelsPeel BY DraftFinite, LevelsArePeeled DEF Inv
<1> QED BY <1>1, InvHolds, PTL

\* planChangesetApply refuses exactly what it must: its order is the largest
\* set without a blocked item, a cycle, or an item that leads to one.
THEOREM BlockersExactAlways == Spec => []BlockersExact
<1>1. Inv => BlockersExact BY DraftFinite, OrderExact DEF Inv
<1> QED BY <1>1, InvHolds, PTL
==============================================================================
