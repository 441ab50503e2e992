----------------------------- MODULE OrderProofs -----------------------------
(***************************************************************************)
(* Facts about the orders of a finite set: the functions that put each of  *)
(* its elements at one place.  What a list shows is one of them, and what  *)
(* an ORDER BY leaves open is which.                                       *)
(***************************************************************************)
EXTENDS Integers, FiniteSetTheorems, TLAPS

Orders(D) == Bijection(1..Cardinality(D), D)

\* The order follows the keys; elements with one key come as they please.
Follows(order, key) ==
  \A i, j \in DOMAIN order : i < j => key[order[i]] <= key[order[j]]

-----------------------------------------------------------------------------
LEMMA CountUpTo ==
  ASSUME NEW n \in Nat
  PROVE  IsFiniteSet(1..n) /\ Cardinality(1..n) = n
<1>1. /\ IsFiniteSet(1..n)
      /\ Cardinality(1..n) = IF 1 > n THEN 0 ELSE n - 1 + 1
  BY FS_Interval
<1>2. (1 > n => n = 0) /\ n - 1 + 1 = n
  OBVIOUS
<1> QED
  BY <1>1, <1>2

LEMMA OrderShape ==
  ASSUME NEW D, NEW order \in Orders(D)
  PROVE  /\ order \in [1..Cardinality(D) -> D]
         /\ DOMAIN order = 1..Cardinality(D)
         /\ \A i, j \in 1..Cardinality(D) : order[i] = order[j] => i = j
         /\ \A x \in D : \E i \in 1..Cardinality(D) : order[i] = x
  BY DEF Orders, Bijection, Injection, Surjection, IsInjective

LEMMA FollowsShape ==
  ASSUME NEW D, NEW key, NEW order \in Orders(D), Follows(order, key)
  PROVE  \A i, j \in 1..Cardinality(D) : i < j => key[order[i]] <= key[order[j]]
  BY OrderShape DEF Follows

\* A list of as many elements as the set has, without repeats, leaves none out.
LEMMA NoneLeftOut ==
  ASSUME NEW D, IsFiniteSet(D), NEW order \in [1..Cardinality(D) -> D],
         \A i, j \in 1..Cardinality(D) : order[i] = order[j] => i = j
  PROVE  order \in Orders(D)
<1>1. Cardinality(D) \in Nat
  BY FS_CardinalityType
<1>2. Cardinality(1..Cardinality(D)) = Cardinality(D)
  BY <1>1, FS_Interval
<1>3. order \in Injection(1..Cardinality(D), D)
  BY DEF Injection, IsInjective
<1>4. order \in Surjection(1..Cardinality(D), D)
  BY <1>2, <1>3, FS_Injection
<1> QED
  BY <1>3, <1>4 DEF Orders, Bijection

\* With fewer elements before a place than there are places before it, an order
\* that follows the keys could not be filled: the keys at each place are given.
LEMMA NoSmallerKey ==
  ASSUME NEW D, IsFiniteSet(D), NEW key \in [D -> Int],
         NEW f \in Orders(D), Follows(f, key),
         NEW g \in Orders(D), Follows(g, key),
         NEW k \in 1..Cardinality(D)
  PROVE  key[g[k]] <= key[f[k]]
<1> DEFINE n == Cardinality(D)
           low == {x \in D : key[x] <= key[f[k]]}
           first == [i \in 1..k |-> f[i]]
           placeIn == [x \in low |-> CHOOSE i \in 1..n : g[i] = x]
<1>1. n \in Nat /\ k \in Nat /\ k >= 1 /\ k <= n
  BY FS_CardinalityType
<1>2. /\ f \in [1..n -> D] /\ \A i, j \in 1..n : f[i] = f[j] => i = j
      /\ \A i, j \in 1..n : i < j => key[f[i]] <= key[f[j]]
  BY OrderShape, FollowsShape
<1>3. /\ g \in [1..n -> D] /\ \A x \in D : \E i \in 1..n : g[i] = x
      /\ \A i, j \in 1..n : i < j => key[g[i]] <= key[g[j]]
  BY OrderShape, FollowsShape
<1>4. key[f[k]] \in Int /\ key[g[k]] \in Int
  BY <1>2, <1>3
<1> SUFFICES ASSUME key[f[k]] < key[g[k]] PROVE FALSE
  BY <1>4
<1>5. \A i \in 1..k : f[i] \in low
  <2> SUFFICES ASSUME NEW i \in 1..k PROVE f[i] \in low
    OBVIOUS
  <2>1. i \in 1..n /\ (i = k \/ i < k)
    BY <1>1
  <2>2. f[i] \in D /\ key[f[i]] <= key[f[k]]
    BY <1>2, <1>4, <2>1
  <2> QED
    BY <2>2
<1>6. first \in Injection(1..k, low)
  <2>1. \A i, j \in 1..k : f[i] = f[j] => i = j
    BY <1>1, <1>2
  <2> HIDE DEF low
  <2> QED
    BY <1>5, <2>1 DEF Injection, IsInjective
<1>7. IsFiniteSet(low)
  BY FS_Subset
<1>8. k <= Cardinality(low)
  <2>1. Cardinality(1..k) = k
    BY <1>1, FS_Interval
  <2> HIDE DEF low, first
  <2> QED
    BY <1>6, <1>7, <2>1, FS_Injection
<1>9. \A x \in low : placeIn[x] \in 1..n /\ g[placeIn[x]] = x
  BY <1>3
<1>10. ASSUME NEW x \in low, NEW i \in 1..n, g[i] = x
       PROVE  i < k
  <2>1. i # k
    BY <1>4, <1>10
  <2>2. ~(k < i)
    <3> SUFFICES ASSUME k < i PROVE FALSE
      OBVIOUS
    <3>1. key[g[k]] <= key[g[i]] /\ key[g[i]] <= key[f[k]] /\ key[g[i]] \in Int
      BY <1>3, <1>10
    <3> QED
      BY <1>4, <3>1
  <2> QED
    BY <1>1, <2>1, <2>2
<1> HIDE DEF placeIn
<1>11. \A x \in low : placeIn[x] \in 1..(k - 1)
  BY <1>1, <1>9, <1>10
<1>12. placeIn \in Injection(low, 1..(k - 1))
  <2>1. \A x, y \in low : placeIn[x] = placeIn[y] => x = y
    BY <1>9
  <2>2. placeIn \in [low -> 1..(k - 1)]
    BY <1>11 DEF placeIn
  <2> HIDE DEF low
  <2> QED
    BY <2>1, <2>2 DEF Injection, IsInjective
<1>13. Cardinality(low) <= k - 1
  <2>1. IsFiniteSet(1..(k - 1)) /\ Cardinality(1..(k - 1)) = k - 1
    <3>1. k - 1 \in Int /\ 1 \in Int /\ (1 > k - 1 => k - 1 = 0)
      BY <1>1
    <3>2. /\ IsFiniteSet(1..(k - 1))
          /\ Cardinality(1..(k - 1)) = IF 1 > k - 1 THEN 0 ELSE (k - 1) - 1 + 1
      BY <3>1, FS_Interval
    <3> QED
      BY <1>1, <3>2
  <2> HIDE DEF low
  <2> QED
    BY <1>12, <2>1, FS_Injection
<1>14. Cardinality(low) \in Nat
  BY <1>7, FS_CardinalityType
<1> HIDE DEF low
<1> QED
  BY <1>1, <1>8, <1>13, <1>14

\* Two orders that follow the keys have the same key at each place ...
LEMMA SamePlacesSameKeys ==
  ASSUME NEW D, IsFiniteSet(D), NEW key \in [D -> Int],
         NEW f \in Orders(D), Follows(f, key),
         NEW g \in Orders(D), Follows(g, key)
  PROVE  \A k \in 1..Cardinality(D) : key[f[k]] = key[g[k]]
<1> SUFFICES ASSUME NEW k \in 1..Cardinality(D) PROVE key[f[k]] = key[g[k]]
  OBVIOUS
<1>1. f \in [1..Cardinality(D) -> D] /\ g \in [1..Cardinality(D) -> D]
  BY OrderShape
<1>2. key[f[k]] <= key[g[k]] /\ key[g[k]] <= key[f[k]]
  BY NoSmallerKey
<1>3. key[f[k]] \in Int /\ key[g[k]] \in Int
  BY <1>1
<1> QED
  BY <1>2, <1>3

\* ... and are one order where no two elements share a key.
LEMMA OneOrderOfDistinctKeys ==
  ASSUME NEW D, IsFiniteSet(D), NEW key \in [D -> Int],
         \A x, y \in D : key[x] = key[y] => x = y,
         NEW f \in Orders(D), Follows(f, key),
         NEW g \in Orders(D), Follows(g, key)
  PROVE  f = g
<1>1. \A k \in 1..Cardinality(D) : key[f[k]] = key[g[k]]
  BY SamePlacesSameKeys
<1>2. f \in [1..Cardinality(D) -> D] /\ g \in [1..Cardinality(D) -> D]
  BY OrderShape
<1> DEFINE places == 1..Cardinality(D)
<1>3. \A k \in places : f[k] = g[k]
  BY <1>1, <1>2
<1>4. f \in [places -> D] /\ g \in [places -> D]
  BY <1>2
<1> HIDE DEF places
<1> QED
  BY <1>3, <1>4

-----------------------------------------------------------------------------
StrictTotal(R, D) ==
  /\ R \subseteq D \X D
  /\ \A x \in D : <<x, x>> \notin R
  /\ \A x, y, z \in D : <<x, y>> \in R /\ <<y, z>> \in R => <<x, z>> \in R
  /\ \A x, y \in D : x # y => <<x, y>> \in R \/ <<y, x>> \in R

Ascends(order, R) ==
  \A i, j \in DOMAIN order : i < j => <<order[i], order[j]>> \in R

\* A strict total order of a finite set can be written down.
LEMMA OrderExists ==
  ASSUME NEW D, IsFiniteSet(D), NEW R, StrictTotal(R, D)
  PROVE  \E order \in Orders(D) : Ascends(order, R)
<1> USE DEF StrictTotal
<1> DEFINE n == Cardinality(D)
           upTo(x) == {y \in D : y = x \/ <<y, x>> \in R}
           rank == [x \in D |-> Cardinality(upTo(x))]
           order == [k \in 1..n |-> CHOOSE x \in D : rank[x] = k]
<1>1. n \in Nat
  BY FS_CardinalityType
<1>2. ASSUME NEW x \in D
      PROVE  rank[x] \in 1..n
  <2>1. IsFiniteSet(upTo(x)) /\ Cardinality(upTo(x)) <= n
    BY FS_Subset
  <2>2. x \in upTo(x)
    OBVIOUS
  <2> HIDE DEF upTo
  <2>3. Cardinality(upTo(x)) \in Nat /\ Cardinality(upTo(x)) # 0
    BY <2>1, <2>2, FS_CardinalityType, FS_EmptySet
  <2> QED
    BY <1>1, <2>1, <2>3
<1>3. ASSUME NEW x \in D, NEW y \in D, <<x, y>> \in R
      PROVE  rank[x] < rank[y]
  <2>1. upTo(x) \in SUBSET upTo(y) /\ y \in upTo(y) /\ y \notin upTo(x)
    BY <1>3
  <2>2. IsFiniteSet(upTo(x)) /\ IsFiniteSet(upTo(y))
    BY FS_Subset
  <2> HIDE DEF upTo
  <2>3. /\ Cardinality(upTo(x)) <= Cardinality(upTo(y))
        /\ Cardinality(upTo(x)) # Cardinality(upTo(y))
    BY <2>1, <2>2, FS_Subset
  <2>4. Cardinality(upTo(x)) \in Nat /\ Cardinality(upTo(y)) \in Nat
    BY <2>2, FS_CardinalityType
  <2> QED
    BY <2>3, <2>4
<1> HIDE DEF rank
<1>4. rank \in [D -> 1..n]
  BY <1>2 DEF rank
<1>5. \A x, y \in D : rank[x] = rank[y] => x = y
  <2> SUFFICES ASSUME NEW x \in D, NEW y \in D, x # y PROVE rank[x] # rank[y]
    OBVIOUS
  <2>1. rank[x] < rank[y] \/ rank[y] < rank[x]
    BY <1>3
  <2>2. rank[x] \in Int /\ rank[y] \in Int
    BY <1>2
  <2> QED
    BY <2>1, <2>2
<1>6. \A k \in 1..n : \E x \in D : rank[x] = k
  <2>1. Cardinality(1..n) = Cardinality(D) /\ IsFiniteSet(1..n)
    BY <1>1, FS_Interval
  <2>2. rank \in Injection(D, 1..n)
    BY <1>4, <1>5 DEF Injection, IsInjective
  <2>3. rank \in Surjection(D, 1..n)
    BY <2>1, <2>2, FS_Injection
  <2> QED
    BY <2>3 DEF Surjection
<1>7. \A k \in 1..n : order[k] \in D /\ rank[order[k]] = k
  BY <1>6
<1> HIDE DEF order
<1>8. order \in [1..n -> D]
  BY <1>7 DEF order
<1>9. order \in Orders(D)
  BY <1>7, <1>8, NoneLeftOut
<1>10. ASSUME NEW i \in 1..n, NEW j \in 1..n, i < j
       PROVE  <<order[i], order[j]>> \in R
  <2>1. order[i] # order[j]
    BY <1>7, <1>10
  <2>2. ~(rank[order[j]] < rank[order[i]])
    BY <1>7, <1>10
  <2> QED
    BY <1>3, <1>7, <2>1, <2>2
<1> QED
  BY <1>8, <1>9, <1>10 DEF Ascends

\* The order a stable sort makes of places in a list.
LEMMA StableOrderExists ==
  ASSUME NEW D \in SUBSET Int, IsFiniteSet(D), NEW key \in [D -> Int]
  PROVE  \E order \in Orders(D) :
           \A i, j \in 1..Cardinality(D) : i < j =>
             \/ key[order[i]] < key[order[j]]
             \/ key[order[i]] = key[order[j]] /\ order[i] < order[j]
<1> DEFINE R == {p \in D \X D : \/ key[p[1]] < key[p[2]]
                                \/ key[p[1]] = key[p[2]] /\ p[1] < p[2]}
<1>1. R \in SUBSET (D \X D)
  OBVIOUS
<1>2. \A x, y \in D : <<x, y>> \in R <=> \/ key[x] < key[y]
                                         \/ key[x] = key[y] /\ x < y
  OBVIOUS
<1>3. \A x \in D : x \in Int /\ key[x] \in Int
  OBVIOUS
<1> HIDE DEF R
<1>4. \A x \in D : <<x, x>> \notin R
  BY <1>2, <1>3
<1>5. \A x, y, z \in D : <<x, y>> \in R /\ <<y, z>> \in R => <<x, z>> \in R
  BY <1>2, <1>3
<1>6. \A x, y \in D : x # y => <<x, y>> \in R \/ <<y, x>> \in R
  BY <1>2, <1>3
<1>7. StrictTotal(R, D)
  BY <1>1, <1>4, <1>5, <1>6 DEF StrictTotal
<1>8. PICK order \in Orders(D) : Ascends(order, R)
  BY <1>7, OrderExists
<1>9. DOMAIN order = 1..Cardinality(D) /\ order \in [1..Cardinality(D) -> D]
  BY OrderShape
<1>10. ASSUME NEW i \in 1..Cardinality(D), NEW j \in 1..Cardinality(D), i < j
      PROVE  \/ key[order[i]] < key[order[j]]
             \/ key[order[i]] = key[order[j]] /\ order[i] < order[j]
  <2>1. <<order[i], order[j]>> \in R /\ order[i] \in D /\ order[j] \in D
    BY <1>8, <1>9, <1>10 DEF Ascends
  <2> QED
    BY <1>2, <2>1
<1> QED
  BY <1>10

\* Exchanging two elements of an order makes another.
LEMMA Exchanged ==
  ASSUME NEW D, IsFiniteSet(D), NEW f \in Orders(D),
         NEW i \in DOMAIN f, NEW j \in DOMAIN f, i # j
  PROVE  LET g == [f EXCEPT ![i] = f[j], ![j] = f[i]]
         IN  g \in Orders(D) /\ g # f
<1> DEFINE g == [f EXCEPT ![i] = f[j], ![j] = f[i]]
<1>1. /\ f \in [1..Cardinality(D) -> D]
      /\ \A k, l \in 1..Cardinality(D) : f[k] = f[l] => k = l
  BY OrderShape
<1>2. g \in [1..Cardinality(D) -> D]
  BY <1>1
<1>3. g[i] = f[j] /\ g[j] = f[i] /\ \A k \in DOMAIN f \ {i, j} : g[k] = f[k]
  BY <1>1
<1> HIDE DEF g
<1>4. \A k, l \in 1..Cardinality(D) : g[k] = g[l] => k = l
  BY <1>1, <1>3
<1>5. g \in Orders(D) /\ g # f
  BY <1>1, <1>2, <1>3, <1>4, NoneLeftOut
<1> QED
  BY <1>5 DEF g

-----------------------------------------------------------------------------
\* Elements matched one to one are as many, those picked out on one side too.
LEMMA CountThrough ==
  ASSUME NEW D, NEW E, IsFiniteSet(D), NEW f \in Bijection(D, E), NEW T \in SUBSET E
  PROVE  /\ IsFiniteSet(T)
         /\ Cardinality({x \in D : f[x] \in T}) = Cardinality(T)
<1> DEFINE picked == {x \in D : f[x] \in T}
           g == [x \in picked |-> f[x]]
<1>1. /\ f \in [D -> E] /\ \A x, y \in D : f[x] = f[y] => x = y
      /\ \A e \in E : \E x \in D : f[x] = e
  BY DEF Bijection, Injection, Surjection, IsInjective
<1>2. IsFiniteSet(picked)
  BY FS_Subset
<1>3. g \in [picked -> T]
  BY <1>1
<1>4. \A x, y \in picked : g[x] = g[y] => x = y
  BY <1>1
<1>5. \A e \in T : \E x \in picked : g[x] = e
  BY <1>1
<1> HIDE DEF g, picked
<1>6. g \in Bijection(picked, T)
  BY <1>3, <1>4, <1>5 DEF Bijection, Injection, Surjection, IsInjective
<1>7. ExistsBijection(picked, T)
  BY <1>6 DEF ExistsBijection
<1>8. IsFiniteSet(T) /\ Cardinality(T) = Cardinality(picked)
  BY <1>2, <1>7, FS_Bijection
<1> QED
  BY <1>8 DEF picked

\* Replacing each element of an order by its match makes an order of those.
LEMMA Relabelled ==
  ASSUME NEW D, NEW E, IsFiniteSet(D), NEW f \in Bijection(D, E), NEW order \in Orders(D)
  PROVE  /\ IsFiniteSet(E) /\ Cardinality(E) = Cardinality(D)
         /\ [k \in DOMAIN order |-> f[order[k]]] \in Orders(E)
<1> DEFINE g == [k \in DOMAIN order |-> f[order[k]]]
<1>1. f \in [D -> E] /\ \A x, y \in D : f[x] = f[y] => x = y
  BY DEF Bijection, Injection, Surjection, IsInjective
<1>2. IsFiniteSet(E) /\ Cardinality(E) = Cardinality(D)
  <2>1. ExistsBijection(D, E)
    BY DEF ExistsBijection
  <2> QED
    BY <2>1, FS_Bijection
<1>3. /\ order \in [1..Cardinality(D) -> D] /\ DOMAIN order = 1..Cardinality(D)
      /\ \A k, l \in 1..Cardinality(D) : order[k] = order[l] => k = l
  BY OrderShape
<1>4. g \in [1..Cardinality(E) -> E]
  BY <1>1, <1>2, <1>3
<1>5. \A k, l \in 1..Cardinality(E) : g[k] = g[l] => k = l
  <2> SUFFICES ASSUME NEW k \in 1..Cardinality(E), NEW l \in 1..Cardinality(E), g[k] = g[l]
               PROVE  k = l
    OBVIOUS
  <2>1. order[k] \in D /\ order[l] \in D /\ f[order[k]] = f[order[l]]
    BY <1>2, <1>3
  <2> QED
    BY <1>1, <1>2, <1>3, <2>1
<1> HIDE DEF g
<1>6. g \in Orders(E)
  BY <1>2, <1>4, <1>5, NoneLeftOut
<1> QED
  BY <1>2, <1>6 DEF g

=============================================================================
