--------------------------- MODULE UnitSumsProofs ---------------------------
(***************************************************************************)
(* What the proofs need to know about numbers: how a sum changes when one  *)
(* summand changes, that it is monotone, that a set of numbers has a least *)
(* one and, if it is bounded, a greatest, what a sequence is with an       *)
(* element more or less, and what a filter keeps.                          *)
(***************************************************************************)
EXTENDS UnitSums, Filters, Integers, Sequences, FiniteSetTheorems,
        WellFoundedInduction, TLAPS

\* A sum over a finite set is a natural number.
LEMMA TotalType ==
  ASSUME NEW S, IsFiniteSet(S), NEW f \in [S -> Nat]
  PROVE  /\ IsFiniteSet(Units(f, S))
         /\ Total(f, S) \in Nat
<1> DEFINE g == [x \in S |-> {x} \X (1..f[x])]
           T == {g[x] : x \in S}
<1>1. g \in Surjection(S, T)
  BY DEF Surjection
<1>2. IsFiniteSet(T)
  BY <1>1, FS_Surjection
<1>3. ASSUME NEW t \in T PROVE IsFiniteSet(t)
  <2>1. PICK x \in S : t = {x} \X (1..f[x])
    OBVIOUS
  <2>2. IsFiniteSet({x})
    BY FS_Singleton
  <2>3. IsFiniteSet(1..f[x])
    <3>1. 1 \in Int /\ f[x] \in Int
      OBVIOUS
    <3> QED
      BY <3>1, FS_Interval
  <2>4. IsFiniteSet({x} \X (1..f[x]))
    BY <2>2, <2>3, FS_Product
  <2> QED
    BY <2>1, <2>4
<1>4. IsFiniteSet(UNION T)
  BY <1>2, <1>3, FS_UNION
<1>5. UNION T = Units(f, S)
  BY DEF Units
<1> QED
  BY <1>4, <1>5, FS_CardinalityType DEF Total

\* Only the values on S matter, and larger summands give a larger sum.
LEMMA TotalMonotone ==
  ASSUME NEW S, IsFiniteSet(S), NEW f \in [S -> Nat], NEW g \in [S -> Nat],
         \A x \in S : f[x] <= g[x]
  PROVE  Total(f, S) <= Total(g, S)
<1>1. \A x \in S : 1..f[x] \subseteq 1..g[x]
  OBVIOUS
<1>2. Units(f, S) \subseteq Units(g, S)
  BY <1>1 DEF Units
<1> QED
  BY <1>2, TotalType, FS_Subset DEF Total

\* The sum of zeros is zero.
LEMMA TotalZero ==
  ASSUME NEW S, NEW f, \A x \in S : f[x] = 0
  PROVE  Total(f, S) = 0
<1>1. \A x \in S : 1..f[x] = {}
  OBVIOUS
<1>2. Units(f, S) = {}
  BY <1>1 DEF Units
<1> QED
  BY <1>2, FS_EmptySet DEF Total

\* One summand can be taken out of the sum.
LEMMA TotalRemove ==
  ASSUME NEW S, IsFiniteSet(S), NEW f \in [S -> Nat], NEW x \in S
  PROVE  /\ Total(f, S \ {x}) \in Nat
         /\ Total(f, S) = Total(f, S \ {x}) + f[x]
<1> DEFINE R == S \ {x}
           r == [y \in R |-> f[y]]
           P == {x} \X (1..f[x])
<1>1. IsFiniteSet(R)
  BY FS_RemoveElement
<1>2. Units(f, R) = Units(r, R)
  BY DEF Units
<1>3. IsFiniteSet(Units(f, R)) /\ Total(f, R) \in Nat
  BY <1>1, <1>2, TotalType DEF Total
<1>4. /\ IsFiniteSet(P)
      /\ Cardinality(P) = f[x]
  <2>1. IsFiniteSet({x}) /\ Cardinality({x}) = 1
    BY FS_Singleton
  <2>2. IsFiniteSet(1..f[x]) /\ Cardinality(1..f[x]) = f[x]
    <3>1. 1 \in Int /\ f[x] \in Int /\ f[x] \in Nat
      OBVIOUS
    <3> QED
      BY <3>1, FS_Interval
  <2>3. /\ IsFiniteSet({x} \X (1..f[x]))
        /\ Cardinality({x} \X (1..f[x])) = Cardinality({x}) * Cardinality(1..f[x])
    BY <2>1, <2>2, FS_Product
  <2>4. 1 * f[x] = f[x]
    OBVIOUS
  <2> QED
    BY <2>1, <2>2, <2>3, <2>4
<1>5. Units(f, S) = Units(f, R) \cup P
  BY DEF Units
<1>6. Units(f, R) \cap P = {}
  BY DEF Units
<1>7. Cardinality(Units(f, R) \cap P) = 0
  BY <1>6, FS_EmptySet
<1>8. Cardinality(Units(f, S)) = Cardinality(Units(f, R)) + f[x] - 0
  <2>1. Cardinality(Units(f, R) \cup P)
          = Cardinality(Units(f, R)) + Cardinality(P) - Cardinality(Units(f, R) \cap P)
    <3> HIDE DEF P, R
    <3> QED
      BY <1>3, <1>4, FS_Union
  <2> HIDE DEF P, R
  <2> QED
    BY <2>1, <1>4, <1>5, <1>7
<1> QED
  BY <1>3, <1>8 DEF Total

\* No summand exceeds the sum.
LEMMA TotalElement ==
  ASSUME NEW S, IsFiniteSet(S), NEW f \in [S -> Nat], NEW x \in S
  PROVE  f[x] <= Total(f, S)
<1>1. Total(f, S \ {x}) \in Nat /\ Total(f, S) = Total(f, S \ {x}) + f[x]
  BY TotalRemove
<1>2. f[x] \in Nat
  OBVIOUS
<1> QED
  BY <1>1, <1>2

\* Changing one summand changes the sum by the difference.
LEMMA TotalUpdate ==
  ASSUME NEW S, IsFiniteSet(S), NEW f \in [S -> Nat], NEW x \in S, NEW n \in Nat
  PROVE  Total([f EXCEPT ![x] = n], S) + f[x] = Total(f, S) + n
<1> DEFINE g == [f EXCEPT ![x] = n]
<1>1. g \in [S -> Nat] /\ g[x] = n
  OBVIOUS
<1>2. Units(g, S \ {x}) = Units(f, S \ {x})
  <2>1. \A y \in S \ {x} : g[y] = f[y]
    OBVIOUS
  <2> HIDE DEF g
  <2> QED
    BY <2>1 DEF Units
<1> HIDE DEF g
<1>3. Total(g, S \ {x}) = Total(f, S \ {x})
  BY <1>2 DEF Total
<1>4. Total(f, S \ {x}) \in Nat /\ Total(f, S) = Total(f, S \ {x}) + f[x]
  BY TotalRemove
<1>5. Total(g, S) = Total(g, S \ {x}) + n
  BY <1>1, TotalRemove
<1>6. f[x] \in Nat
  OBVIOUS
<1>7. Total(g, S) + f[x] = Total(f, S) + n
  BY <1>3, <1>4, <1>5, <1>6
<1> QED
  BY <1>7 DEF g

\* Moving units from one summand to another leaves the sum as it was.
LEMMA TotalMove ==
  ASSUME NEW S, IsFiniteSet(S), NEW f \in [S -> Nat],
         NEW x \in S, NEW y \in S, x # y, NEW m \in Nat, NEW n \in Nat,
         m + n = f[x] + f[y]
  PROVE  Total([f EXCEPT ![x] = m, ![y] = n], S) = Total(f, S)
<1> DEFINE k == [f EXCEPT ![x] = m]
           g == [k EXCEPT ![y] = n]
<1>1. k \in [S -> Nat] /\ k[y] = f[y]
  OBVIOUS
<1>2. g = [f EXCEPT ![x] = m, ![y] = n]
  OBVIOUS
<1>3. Total(k, S) + f[x] = Total(f, S) + m
  BY TotalUpdate
<1> HIDE DEF k
<1>4. g \in [S -> Nat]
  BY <1>1
<1>5. Total(g, S) + k[y] = Total(k, S) + n
  BY <1>1, TotalUpdate
<1> HIDE DEF g
<1>6. Total(f, S) \in Nat
  BY TotalType
<1>7. Total(k, S) \in Nat
  BY <1>1, TotalType
<1>8. Total(g, S) \in Nat
  BY <1>4, TotalType
<1>9. Total(g, S) = Total(f, S)
  <2>1. f[x] \in Nat /\ f[y] \in Nat
    OBVIOUS
  <2> QED
    BY <2>1, <1>1, <1>3, <1>5, <1>6, <1>7, <1>8
<1> QED
  BY <1>2, <1>9

\* A set of numbers has a least one.
LEMMA LeastOf ==
  ASSUME NEW S, S \subseteq Nat, S # {}
  PROVE  \E x \in S : \A y \in S : x <= y
<1> DEFINE R == {p \in Nat \X Nat : p[1] < p[2]}
<1>1. IsWellFoundedOn(R, Nat)
  BY NatLessThanWellFounded DEF OpToRel
<1>2. \A x, y \in Nat : x < y => <<x, y>> \in R
  OBVIOUS
<1> HIDE DEF R
<1>3. PICK x \in S : \A y \in S : <<y, x>> \notin R
  BY <1>1, WFMin
<1>4. ASSUME NEW y \in S PROVE x <= y
  <2>1. x \in Nat /\ y \in Nat /\ <<y, x>> \notin R
    BY <1>3
  <2> QED
    BY <2>1, <1>2
<1> QED
  BY <1>4

\* A bounded set of numbers has a greatest one.
LEMMA GreatestOf ==
  ASSUME NEW n \in Nat, NEW S, S \subseteq 0..n, S # {}
  PROVE  \E x \in S : \A y \in S : x >= y
<1> DEFINE T == {n - x : x \in S}
<1>1. T \subseteq Nat /\ T # {}
  <2>1. \A x \in S : x \in 0..n
    OBVIOUS
  <2>2. \A x \in 0..n : n - x \in Nat
    OBVIOUS
  <2> QED
    BY <2>1, <2>2
<1>2. PICK t \in T : \A u \in T : t <= u
  BY <1>1, LeastOf
<1>3. PICK x \in S : t = n - x
  OBVIOUS
<1>4. ASSUME NEW y \in S PROVE x >= y
  <2>1. n - y \in T
    OBVIOUS
  <2>2. n - x <= n - y /\ x \in 0..n /\ y \in 0..n
    BY <1>2, <1>3, <2>1
  <2> QED
    BY <2>2
<1> QED
  BY <1>4

-----------------------------------------------------------------------------
(* Sequences and filters.                                                  *)

\* A sequence with one more element.
LEMMA AppendTo ==
  ASSUME NEW A, NEW s \in Seq(A), NEW x \in A, NEW n \in Nat, n = Len(s)
  PROVE  /\ DOMAIN s = 1..n /\ DOMAIN Append(s, x) = 1..(n + 1)
         /\ Append(s, x) \in Seq(A) /\ Len(Append(s, x)) = n + 1 /\ Append(s, x)[n + 1] = x
         /\ \A i \in 1..n : Append(s, x)[i] = s[i]
  OBVIOUS

\* A sequence without its first element.
LEMMA TailOf ==
  ASSUME NEW A, NEW s \in Seq(A), NEW n \in Nat, n = Len(s), n # 0
  PROVE  /\ Head(s) = s[1] /\ Head(s) \in A
         /\ Tail(s) \in Seq(A) /\ Len(Tail(s)) = n - 1 /\ DOMAIN Tail(s) = 1..(n - 1)
         /\ \A i \in 1..(n - 1) : Tail(s)[i] = s[i + 1]
  OBVIOUS

\* q has the numbers of S from the least to the greatest.
Sorts(q, S) ==
  /\ q \in [1..Cardinality(S) -> S]
  /\ \A i, j \in 1..Cardinality(S) : i < j => q[i] < q[j]

Sortable(S) == \E q \in [1..Cardinality(S) -> S] : Sorts(q, S)

\* The least number, and then the others.
LEMMA LeastFirst ==
  ASSUME NEW S, S \subseteq Nat, IsFiniteSet(S), S # {},
         \A T \in SUBSET Nat :
           IsFiniteSet(T) /\ Cardinality(T) \in Nat /\ Cardinality(T) < Cardinality(S) => Sortable(T)
  PROVE  Sortable(S)
<1>1. PICK m \in S : \A y \in S : m <= y
  BY LeastOf
<1>2. PICK T : T = S \ {m}
  OBVIOUS
<1>3. IsFiniteSet(T) /\ T \in SUBSET Nat
  BY <1>2, FS_RemoveElement
<1>4. Cardinality(S) \in Nat /\ Cardinality(T) = Cardinality(S) - 1 /\ Cardinality(T) \in Nat
  BY <1>2, <1>3, FS_RemoveElement, FS_CardinalityType
<1>5. PICK p \in [1..Cardinality(T) -> T] : Sorts(p, T)
  BY <1>3, <1>4 DEF Sortable
<1>6. PICK n \in Nat : n = Cardinality(T) /\ Cardinality(S) = n + 1
  BY <1>4
<1> DEFINE q == [i \in 1..(n + 1) |-> IF i = 1 THEN m ELSE p[i - 1]]
<1>7. \A i \in 1..(n + 1) : i # 1 => i - 1 \in 1..n
  OBVIOUS
<1>8. q \in [1..Cardinality(S) -> S]
  BY <1>2, <1>6, <1>7
<1>9. ASSUME NEW i \in 1..(n + 1), NEW j \in 1..(n + 1), i < j
      PROVE  q[i] < q[j]
  <2>1. j # 1 /\ j - 1 \in 1..n /\ q[j] = p[j - 1]
    BY <1>7, <1>9
  <2>2. q[j] \in T
    BY <1>6, <2>1
  <2>3. CASE i = 1
    <3>1. PICK y \in T : y = q[j]
      BY <2>2
    <3>2. y \in S /\ y # m /\ y \in Nat /\ m \in Nat
      BY <1>2
    <3>3. m < y
      BY <1>1, <3>2
    <3> QED
      BY <2>3, <3>1, <3>3
  <2>4. CASE i # 1
    <3>1. q[i] = p[i - 1] /\ i - 1 \in 1..n /\ i - 1 < j - 1
      BY <1>7, <1>9, <2>4
    <3> QED
      BY <1>5, <1>6, <2>1, <3>1 DEF Sorts
  <2> QED
    BY <2>3, <2>4
<1> QED
  BY <1>6, <1>8, <1>9 DEF Sortable, Sorts

\* Every finite set of numbers can be put in order: no least size of one that cannot.
LEMMA AllSortable ==
  ASSUME NEW S \in SUBSET Nat, IsFiniteSet(S)
  PROVE  Sortable(S)
<1> DEFINE Bad == {n \in Nat : \E T \in SUBSET Nat : IsFiniteSet(T) /\ Cardinality(T) = n /\ ~Sortable(T)}
<1>1. SUFFICES ASSUME ~Sortable(S) PROVE FALSE
  OBVIOUS
<1>2. Cardinality(S) \in Bad
  BY <1>1, FS_CardinalityType
<1>3. PICK n \in Bad : \A k \in Bad : n <= k
  <2>1. Bad \subseteq Nat /\ Bad # {}
    BY <1>2
  <2> HIDE DEF Bad
  <2> QED
    BY <2>1, LeastOf
<1>4. PICK T \in SUBSET Nat : IsFiniteSet(T) /\ Cardinality(T) = n /\ ~Sortable(T)
  OBVIOUS
<1>5. ASSUME NEW U \in SUBSET Nat, IsFiniteSet(U), Cardinality(U) \in Nat,
             Cardinality(U) < Cardinality(T), ~Sortable(U)
      PROVE  FALSE
  <2>1. Cardinality(U) \in Bad
    BY <1>5
  <2>2. n <= Cardinality(U) /\ n \in Nat
    BY <1>3, <2>1
  <2> QED
    BY <1>4, <1>5, <2>2
<1>6. CASE T = {}
  <2>1. Cardinality(T) = 0
    BY <1>6, FS_EmptySet
  <2>2. <<>> \in [1..0 -> T] /\ \A i, j \in 1..0 : i < j => <<>>[i] < <<>>[j]
    OBVIOUS
  <2> QED
    BY <1>4, <2>1, <2>2 DEF Sortable, Sorts
<1>7. CASE T # {}
  BY <1>4, <1>5, <1>7, LeastFirst
<1> QED
  BY <1>6, <1>7

\* The order of a finite set has each number once.
LEMMA AscendingSorts ==
  ASSUME NEW S \in SUBSET Nat, IsFiniteSet(S)
  PROVE  /\ Sorts(Ascending(S), S)
         /\ \A x \in S : \E i \in 1..Cardinality(S) : Ascending(S)[i] = x
<1>1. Sorts(Ascending(S), S)
  BY AllSortable DEF Sortable, Sorts, Ascending
<1> DEFINE q == Ascending(S)
           n == Cardinality(S)
<1>2. n \in Nat
  BY FS_CardinalityType
<1>3. q \in [1..n -> S] /\ \A i, j \in 1..n : i < j => q[i] < q[j]
  BY <1>1 DEF Sorts
<1> HIDE DEF q, n
<1>4. ASSUME NEW i \in 1..n, NEW j \in 1..n, q[i] = q[j]
      PROVE  i = j
  <2>1. q[i] \in Nat /\ q[j] \in Nat
    BY <1>3
  <2>2. ~(i < j) /\ ~(j < i)
    BY <1>3, <1>4, <2>1
  <2> QED
    BY <1>2, <2>2
<1>5. q \in Injection(1..n, S)
  BY <1>3, <1>4 DEF Injection, IsInjective
<1>6. IsFiniteSet(1..n) /\ Cardinality(1..n) = n
  <2>1. 1 \in Int /\ n \in Int
    BY <1>2
  <2> QED
    BY <1>2, <2>1, FS_Interval
<1>7. q \in Surjection(1..n, S)
  BY <1>5, <1>6, FS_Injection DEF n
<1>8. \A x \in S : \E i \in 1..n : q[i] = x
  BY <1>7 DEF Surjection
<1> QED
  BY <1>1, <1>8 DEF q, n

\* A filter keeps what stands at the places, in the order of the places.
LEMMA FilteredKeeps ==
  ASSUME NEW A, NEW s \in Seq(A), NEW places \in SUBSET DOMAIN s
  PROVE  /\ Filtered(s, places) \in Seq(A)
         /\ Len(Filtered(s, places)) = Cardinality(places)
         /\ Cardinality(places) \in Nat
         /\ IsFiniteSet(places)
         /\ Sorts(Ascending(places), places)
         /\ \A i \in 1..Cardinality(places) : Filtered(s, places)[i] = s[Ascending(places)[i]]
         /\ \A x \in places : \E i \in 1..Cardinality(places) : Filtered(s, places)[i] = s[x]
<1>1. DOMAIN s = 1..Len(s) /\ Len(s) \in Nat
  OBVIOUS
<1>2. IsFiniteSet(DOMAIN s)
  <2>1. 1 \in Int /\ Len(s) \in Int
    BY <1>1
  <2> QED
    BY <1>1, <2>1, FS_Interval
<1>3. IsFiniteSet(places) /\ places \in SUBSET Nat
  BY <1>1, <1>2, FS_Subset
<1>4. Cardinality(places) \in Nat
  BY <1>3, FS_CardinalityType
<1>5. /\ Sorts(Ascending(places), places)
      /\ \A x \in places : \E i \in 1..Cardinality(places) : Ascending(places)[i] = x
  BY <1>3, AscendingSorts
<1>6. \A i \in 1..Cardinality(places) : Ascending(places)[i] \in DOMAIN s
  BY <1>5 DEF Sorts
<1> DEFINE n == Cardinality(places)
           q == Ascending(places)
<1>7. Filtered(s, places) = [i \in 1..n |-> s[q[i]]]
  BY DEF Filtered
<1> HIDE DEF n, q
<1>8. n \in Nat /\ \A i \in 1..n : s[q[i]] \in A
  BY <1>4, <1>6 DEF n, q
<1>9. Filtered(s, places) \in Seq(A) /\ Len(Filtered(s, places)) = n
  BY <1>7, <1>8
<1> QED
  BY <1>3, <1>4, <1>5, <1>7, <1>9 DEF n, q

\* k ascending numbers of an interval with k numbers are all of them: neither is there a
\* first that is too small, nor a last that is too great.
LEMMA IntervalAscends ==
  ASSUME NEW k \in Nat, NEW m \in Nat, NEW q \in [1..k -> (m + 1)..(m + k)],
         \A i, j \in 1..k : i < j => q[i] < q[j]
  PROVE  \A i \in 1..k : q[i] = m + i
<1>0. \A i \in 1..k : q[i] \in Nat /\ q[i] >= m + 1 /\ q[i] <= m + k
  OBVIOUS
<1>1. \A i \in 1..k : q[i] >= m + i
  <2> DEFINE S == {i \in 1..k : q[i] < m + i}
  <2>1. SUFFICES ASSUME S # {} PROVE FALSE
    BY <1>0
  <2>2. PICK i \in S : \A j \in S : i <= j
    <3>1. S \subseteq Nat
      OBVIOUS
    <3> HIDE DEF S
    <3> QED
      BY <2>1, <3>1, LeastOf
  <2>3. i # 1 /\ i - 1 \in 1..k /\ i - 1 \notin S
    BY <1>0, <2>2
  <2>4. q[i - 1] >= m + (i - 1) /\ q[i - 1] < q[i]
    BY <1>0, <2>2, <2>3
  <2> QED
    BY <1>0, <2>2, <2>3, <2>4
<1>2. \A i \in 1..k : q[i] <= m + i
  <2> DEFINE S == {i \in 1..k : q[i] > m + i}
  <2>1. SUFFICES ASSUME S # {} PROVE FALSE
    BY <1>0
  <2>2. PICK i \in S : \A j \in S : i >= j
    <3>1. S \subseteq 0..k
      OBVIOUS
    <3> HIDE DEF S
    <3> QED
      BY <2>1, <3>1, GreatestOf
  <2>3. i # k /\ i + 1 \in 1..k /\ i + 1 \notin S
    BY <1>0, <2>2
  <2>4. q[i + 1] <= m + (i + 1) /\ q[i] < q[i + 1]
    BY <1>0, <2>2, <2>3
  <2> QED
    BY <1>0, <2>2, <2>3, <2>4
<1> SUFFICES ASSUME NEW i \in 1..k PROVE q[i] = m + i
  OBVIOUS
<1>3. q[i] \in Nat /\ i \in Nat /\ q[i] >= m + i /\ q[i] <= m + i
  BY <1>0, <1>1, <1>2
<1> QED
  BY <1>3

\* A filter whose places are the last ones keeps the end of the sequence.
LEMMA FilteredEnd ==
  ASSUME NEW A, NEW s \in Seq(A), NEW m \in 0..Len(s), NEW places,
         places = {i \in DOMAIN s : i > m}
  PROVE  /\ Filtered(s, places) \in Seq(A)
         /\ Len(Filtered(s, places)) = Len(s) - m
         /\ \A i \in 1..(Len(s) - m) : Filtered(s, places)[i] = s[m + i]
<1>1. DOMAIN s = 1..Len(s) /\ Len(s) \in Nat /\ m \in Nat
  OBVIOUS
<1>2. PICK k \in Nat : k = Len(s) - m
  OBVIOUS
<1>3. places = (m + 1)..(m + k) /\ places \in SUBSET DOMAIN s
  BY <1>1, <1>2
<1>4. Cardinality(places) = k
  <2>1. m + 1 \in Int /\ m + k \in Int
    BY <1>1, <1>2
  <2>2. Cardinality((m + 1)..(m + k)) = IF m + 1 > m + k THEN 0 ELSE (m + k) - (m + 1) + 1
    BY <2>1, FS_Interval
  <2>3. (m + k) - (m + 1) + 1 = k /\ (m + 1 > m + k => k = 0)
    <3>1. \A x, y \in Nat : (x + y) - (x + 1) + 1 = y /\ (x + 1 > x + y => y = 0)
      OBVIOUS
    <3> QED
      BY <1>1, <3>1
  <2> QED
    BY <1>3, <2>2, <2>3
<1>5. /\ Filtered(s, places) \in Seq(A)
      /\ Len(Filtered(s, places)) = Cardinality(places)
      /\ Sorts(Ascending(places), places)
      /\ \A i \in 1..Cardinality(places) : Filtered(s, places)[i] = s[Ascending(places)[i]]
  BY <1>3, FilteredKeeps
<1>6. \A i \in 1..k : Ascending(places)[i] = m + i
  <2>1. PICK q : q = Ascending(places)
    OBVIOUS
  <2>2. q \in [1..k -> (m + 1)..(m + k)] /\ \A i, j \in 1..k : i < j => q[i] < q[j]
    BY <1>3, <1>4, <1>5, <2>1 DEF Sorts
  <2>3. \A i \in 1..k : q[i] = m + i
    BY <1>1, <2>2, IntervalAscends
  <2> QED
    BY <2>1, <2>3
<1> QED
  BY <1>2, <1>4, <1>5, <1>6

=============================================================================
