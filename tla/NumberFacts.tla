------------------------------ MODULE NumberFacts ------------------------------
(***************************************************************************)
(* The least and the greatest member of a set of numbers: what the first   *)
(* or the last match in a list rests on, and, with the least number a      *)
(* claim fails of, what stands in for induction.  Then what the operators  *)
(* of StableOrder return.                                                  *)
(***************************************************************************)
EXTENDS StableOrder, FiniteSetTheorems, WellFoundedInduction, TLAPS

Less == {pair \in Nat \X Nat : pair[1] < pair[2]}

\* A nonempty set of natural numbers has a least member.
LEMMA LeastNat ==
  ASSUME NEW S \in SUBSET Nat, S # {}
  PROVE  \E x \in S : \A y \in S : x <= y
<1>1. IsWellFoundedOn(Less, Nat)
  BY NatLessThanWellFounded, SMT DEF OpToRel, Less
<1>2. PICK x \in S : \A y \in S : ~ (<<y, x>> \in Less)
  BY <1>1, WFMin, Zenon
<1>3. \A y \in S : y < x => <<y, x>> \in Less
  BY DEF Less
<1>4. \A y \in S : ~ (y < x)
  BY <1>2, <1>3, Zenon
<1> QED
  BY <1>4

\* A nonempty set of natural numbers up to a bound has a greatest one.
LEMMA GreatestNat ==
  ASSUME NEW n \in Nat, NEW S \in SUBSET (1..n), S # {}
  PROVE  \E x \in S : \A y \in S : y <= x
<1> DEFINE T == {n - x : x \in S}
<1>1. T \in SUBSET Nat /\ T # {}
  <2>1. \A x \in S : n - x \in Nat
    OBVIOUS
  <2> QED
    BY <2>1
<1>2. PICK m \in T : \A y \in T : m <= y
  BY <1>1, LeastNat
<1>3. PICK x \in S : m = n - x
  BY <1>2
<1>4. \A y \in S : n - x <= n - y
  BY <1>2, <1>3
<1> QED
  BY <1>4

LEMMA UpTo ==
  ASSUME NEW n \in Nat
  PROVE  IsFiniteSet(1..n) /\ Cardinality(1..n) = n
BY FS_Interval

-----------------------------------------------------------------------------

LEMMA ComputedIs ==
  ASSUME NEW n \in Nat, NEW f, f = [k \in 1..n |-> f[k]]
  PROVE  Computed(f) = f
<1> DEFINE S == {f[k] : k \in 1..n}
<1>1. f \in [1..n -> S]
  OBVIOUS
<1>2. f \in Seq(S) /\ Len(f) = n
  BY <1>1
<1> HIDE DEF S
<1>3. f \o <<>> \in Seq(S) /\ Len(f \o <<>>) = n /\ \A k \in 1..n : (f \o <<>>)[k] = f[k]
  BY <1>2
<1> QED
  BY <1>2, <1>3 DEF Computed

\* The members of S in the order before: all of them, each once, in that order.
LEMMA InOrderIs ==
  ASSUME NEW S, IsFiniteSet(S), NEW before,
         \A x \in S : <<x, x>> \notin before,
         \A x, y, z \in S : <<x, y>> \in before /\ <<y, z>> \in before => <<x, z>> \in before,
         \A x, y \in S : x # y => <<x, y>> \in before \/ <<y, x>> \in before
  PROVE  /\ Cardinality(S) \in Nat
         /\ InOrder(S, before) \in [1..Cardinality(S) -> S]
         /\ \A x \in S : \E k \in 1..Cardinality(S) : InOrder(S, before)[k] = x
         /\ \A k, l \in 1..Cardinality(S) : k < l =>
              <<InOrder(S, before)[k], InOrder(S, before)[l]>> \in before
<1> DEFINE n       == Cardinality(S)
           Down(x) == {y \in S : <<y, x>> \in before}
           place   == [x \in S |-> Cardinality(Down(x))]
           order   == InOrder(S, before)
<1>1. n \in Nat
  BY FS_CardinalityType
<1>2. ASSUME NEW x \in S PROVE IsFiniteSet(Down(x)) /\ place[x] \in 0..(n - 1)
  <2>1. IsFiniteSet(Down(x)) /\ Cardinality(Down(x)) <= n /\ (n = Cardinality(Down(x)) => S = Down(x))
    BY FS_Subset
  <2>2. x \notin Down(x)
    OBVIOUS
  <2>3. Cardinality(Down(x)) \in Nat /\ n # Cardinality(Down(x))
    BY <2>1, <2>2, FS_CardinalityType
  <2> QED
    BY <1>1, <2>1, <2>3
<1>3. ASSUME NEW x \in S, NEW y \in S, <<x, y>> \in before PROVE place[x] < place[y]
  <2>1. Down(x) \in SUBSET Down(y) /\ Down(x) # Down(y)
    <3>1. x \in Down(y) /\ x \notin Down(x)
      BY <1>3
    <3> QED
      BY <1>3, <3>1
  <2>2. IsFiniteSet(Down(y))
    BY <1>2
  <2> HIDE DEF Down
  <2>3. Cardinality(Down(x)) <= Cardinality(Down(y)) /\ Cardinality(Down(y)) # Cardinality(Down(x))
    BY <2>1, <2>2, FS_Subset
  <2>4. place[x] \in Int /\ place[y] \in Int
    BY <1>2
  <2> QED
    BY <2>3, <2>4
<1> HIDE DEF n
<1>4. place \in [S -> 0..(n - 1)]
  BY <1>2
<1>5. ASSUME NEW x \in S, NEW y \in S, x # y PROVE place[x] # place[y]
  <2> HIDE DEF place
  <2>1. place[x] \in Int /\ place[y] \in Int
    BY <1>1, <1>4
  <2>2. place[x] < place[y] \/ place[y] < place[x]
    BY <1>3, <1>5
  <2> QED
    BY <2>1, <2>2
<1>6. \A k \in 0..(n - 1) : \E x \in S : place[x] = k
  <2> HIDE DEF place
  <2>1. place \in Injection(S, 0..(n - 1))
    BY <1>4, <1>5 DEF Injection, IsInjective
  <2>2. IsFiniteSet(0..(n - 1)) /\ Cardinality(0..(n - 1)) = n
    BY <1>1, FS_Interval
  <2>3. place \in Surjection(S, 0..(n - 1))
    BY <2>1, <2>2, FS_Injection DEF n
  <2> QED
    BY <2>3 DEF Surjection
<1>7. /\ order = [k \in 1..n |-> order[k]]
      /\ \A k \in 1..n : order[k] \in S /\ place[order[k]] = k - 1
  <2>1. order = [k \in 1..n |-> CHOOSE x \in S : Cardinality(Down(x)) = k - 1]
    <3> DEFINE at(k) == CHOOSE x \in S : Cardinality(Down(x)) = k - 1
               f     == [k \in 1..n |-> at(k)]
    <3>1. order = Computed(f)
      BY DEF InOrder, n
    <3> HIDE DEF at
    <3>2. f = [k \in 1..n |-> f[k]]
      OBVIOUS
    <3> HIDE DEF f, order
    <3>3. order = f
      BY <1>1, <3>1, <3>2, ComputedIs
    <3> QED
      BY <3>3 DEF f, at
  <2>2. \A x \in S : place[x] = Cardinality(Down(x))
    OBVIOUS
  <2> HIDE DEF place, Down, order
  <2>3. \A k \in 1..n : \E x \in S : Cardinality(Down(x)) = k - 1
    BY <1>1, <1>6, <2>2
  <2>4. ASSUME NEW k \in 1..n PROVE order[k] \in S /\ Cardinality(Down(order[k])) = k - 1
    <3>1. order[k] = CHOOSE x \in S : Cardinality(Down(x)) = k - 1
      BY <2>1
    <3>2. PICK x \in S : Cardinality(Down(x)) = k - 1
      BY <2>3
    <3> QED
      BY <3>1, <3>2
  <2> QED
    BY <2>1, <2>2, <2>4
<1> HIDE DEF place, Down, order
<1>8. order \in [1..n -> S]
  BY <1>7
<1>9. ASSUME NEW x \in S PROVE \E k \in 1..n : order[k] = x
  <2>1. place[x] + 1 \in 1..n
    BY <1>1, <1>4
  <2>2. order[place[x] + 1] = x
    BY <1>1, <1>4, <1>5, <1>7, <2>1
  <2> QED
    BY <2>1, <2>2
<1>10. ASSUME NEW k \in 1..n, NEW l \in 1..n, k < l PROVE <<order[k], order[l]>> \in before
  <2>1. order[k] \in S /\ order[l] \in S /\ place[order[k]] = k - 1 /\ place[order[l]] = l - 1
    BY <1>7
  <2>2. order[k] # order[l] /\ ~ (place[order[l]] < place[order[k]])
    BY <1>1, <1>10, <2>1
  <2> QED
    BY <1>3, <2>1, <2>2
<1> QED
  BY <1>1, <1>8, <1>9, <1>10 DEF n, order

\* The elements of s at the n indices of o.
Along(s, o, n) == [k \in 1..n |-> s[o[k]]]

LEMMA AlongIs ==
  ASSUME NEW n \in Nat, NEW o, DOMAIN o = 1..n, NEW s
  PROVE  Computed([k \in DOMAIN o |-> s[o[k]]]) = Along(s, o, n)
<1> DEFINE f == [k \in 1..n |-> s[o[k]]]
<1>1. f = [k \in 1..n |-> f[k]]
  OBVIOUS
<1> HIDE DEF f
<1>2. Computed(f) = f
  BY <1>1, ComputedIs
<1> QED
  BY <1>2 DEF f, Along

\* A list of indices: all of I, each once, in increasing order.
Enumerates(o, I) ==
  /\ o \in [1..Cardinality(I) -> I]
  /\ \A i \in I : \E k \in 1..Cardinality(I) : o[k] = i
  /\ \A k, l \in 1..Cardinality(I) : k < l => o[k] < o[l]

\* Picked elements are in the order of their indices, which are those given.
LEMMA PickIs ==
  ASSUME NEW I \in SUBSET Int, IsFiniteSet(I), NEW s
  PROVE  /\ Cardinality(I) \in Nat
         /\ \E o : Enumerates(o, I) /\ Pick(s, I) = Along(s, o, Cardinality(I))
<1> DEFINE before == {p \in I \X I : p[1] < p[2]}
           o      == InOrder(I, before)
<1>1. \A x, y \in I : <<x, y>> \in before <=> x < y
  OBVIOUS
<1> HIDE DEF before
<1>2. /\ \A x \in I : <<x, x>> \notin before
      /\ \A x, y, z \in I : <<x, y>> \in before /\ <<y, z>> \in before => <<x, z>> \in before
      /\ \A x, y \in I : x # y => <<x, y>> \in before \/ <<y, x>> \in before
  BY <1>1
<1>3. /\ Cardinality(I) \in Nat
      /\ o \in [1..Cardinality(I) -> I]
      /\ \A x \in I : \E k \in 1..Cardinality(I) : o[k] = x
      /\ \A k, l \in 1..Cardinality(I) : k < l => <<o[k], o[l]>> \in before
  BY <1>2, InOrderIs
<1>4. Pick(s, I) = Computed([k \in DOMAIN o |-> s[o[k]]])
  BY DEF Pick, before
<1> HIDE DEF o
<1>5. Enumerates(o, I)
  BY <1>1, <1>3 DEF Enumerates
<1>6. Pick(s, I) = Along(s, o, Cardinality(I))
  BY <1>3, <1>4, AlongIs
<1> QED
  BY <1>3, <1>5, <1>6

\* A list of indices: each of 1..n once, by rank, and within a rank in their order.
Sorts(o, n, rank) ==
  /\ o \in [1..n -> 1..n]
  /\ \A i \in 1..n : \E k \in 1..n : o[k] = i
  /\ \A k, l \in 1..n : k < l =>
       \/ rank[o[k]] < rank[o[l]]
       \/ rank[o[k]] = rank[o[l]] /\ o[k] < o[l]

\* A sorted list has each element once, by rank and within a rank in their order.
LEMMA SortedByIs ==
  ASSUME NEW n \in Nat, NEW s, DOMAIN s = 1..n, NEW rank, \A i \in 1..n : rank[i] \in Int
  PROVE  \E o : Sorts(o, n, rank) /\ SortedBy(s, rank) = Along(s, o, n)
<1> DEFINE I      == 1..n
           before == {p \in I \X I : \/ rank[p[1]] < rank[p[2]]
                                     \/ rank[p[1]] = rank[p[2]] /\ p[1] < p[2]}
           o      == InOrder(I, before)
<1>1. \A x, y \in I : <<x, y>> \in before <=>
                        rank[x] < rank[y] \/ (rank[x] = rank[y] /\ x < y)
  OBVIOUS
<1> HIDE DEF before
<1>2. /\ \A x \in I : <<x, x>> \notin before
      /\ \A x, y, z \in I : <<x, y>> \in before /\ <<y, z>> \in before => <<x, z>> \in before
      /\ \A x, y \in I : x # y => <<x, y>> \in before \/ <<y, x>> \in before
  <2>1. I \subseteq Int /\ \A x \in I : rank[x] \in Int
    OBVIOUS
  <2> HIDE DEF I
  <2>2. ASSUME NEW x \in I PROVE <<x, x>> \notin before
    BY <1>1, <2>1
  <2>3. ASSUME NEW x \in I, NEW y \in I, NEW z \in I, <<x, y>> \in before, <<y, z>> \in before
        PROVE  <<x, z>> \in before
    <3>1. /\ rank[x] < rank[y] \/ (rank[x] = rank[y] /\ x < y)
          /\ rank[y] < rank[z] \/ (rank[y] = rank[z] /\ y < z)
      BY <1>1, <2>3
    <3>2. rank[x] < rank[z] \/ (rank[x] = rank[z] /\ x < z)
      BY <2>1, <3>1
    <3> QED
      BY <1>1, <3>2
  <2>4. ASSUME NEW x \in I, NEW y \in I, x # y PROVE <<x, y>> \in before \/ <<y, x>> \in before
    <3>1. \/ rank[x] < rank[y] \/ (rank[x] = rank[y] /\ x < y)
          \/ rank[y] < rank[x] \/ (rank[y] = rank[x] /\ y < x)
      BY <2>1, <2>4
    <3> QED
      BY <1>1, <3>1
  <2> QED
    BY <2>2, <2>3, <2>4
<1>3. IsFiniteSet(I) /\ Cardinality(I) = n
  BY FS_Interval
<1> HIDE DEF I
<1>4. /\ o \in [1..n -> I]
      /\ \A x \in I : \E k \in 1..n : o[k] = x
      /\ \A k, l \in 1..n : k < l => <<o[k], o[l]>> \in before
  <2>1. /\ Cardinality(I) \in Nat
        /\ o \in [1..Cardinality(I) -> I]
        /\ \A x \in I : \E k \in 1..Cardinality(I) : o[k] = x
        /\ \A k, l \in 1..Cardinality(I) : k < l => <<o[k], o[l]>> \in before
    BY <1>2, <1>3, InOrderIs
  <2> HIDE DEF o
  <2> QED
    BY <1>3, <2>1
<1>5. SortedBy(s, rank) = Computed([k \in DOMAIN o |-> s[o[k]]])
  BY DEF SortedBy, before, I
<1> HIDE DEF o
<1>6. SortedBy(s, rank) = Along(s, o, n)
  BY <1>4, <1>5, AlongIs
<1>7. \A k, l \in 1..n : k < l => rank[o[k]] < rank[o[l]] \/ (rank[o[k]] = rank[o[l]] /\ o[k] < o[l])
  BY <1>1, <1>4
<1> QED
  BY <1>4, <1>6, <1>7 DEF I, Sorts

LEMMA SortsAlike ==
  ASSUME NEW n, NEW o, NEW rank, Sorts(o, n, rank), NEW of, \A i \in 1..n : of[i] = rank[i]
  PROVE  Sorts(o, n, of)
<1>1. /\ o \in [1..n -> 1..n] /\ \A i \in 1..n : \E k \in 1..n : o[k] = i
      /\ \A k, l \in 1..n : k < l =>
           rank[o[k]] < rank[o[l]] \/ (rank[o[k]] = rank[o[l]] /\ o[k] < o[l])
  BY DEF Sorts
<1>2. \A k \in 1..n : of[o[k]] = rank[o[k]]
  BY <1>1
<1>3. ASSUME NEW k \in 1..n, NEW l \in 1..n, k < l
      PROVE  of[o[k]] < of[o[l]] \/ (of[o[k]] = of[o[l]] /\ o[k] < o[l])
  <2>1. rank[o[k]] < rank[o[l]] \/ (rank[o[k]] = rank[o[l]] /\ o[k] < o[l])
    BY <1>1, <1>3
  <2>2. of[o[k]] = rank[o[k]] /\ of[o[l]] = rank[o[l]]
    BY <1>2
  <2> QED
    BY <2>1, <2>2, Zenon
<1>4. \A k, l \in 1..n : k < l => of[o[k]] < of[o[l]] \/ (of[o[k]] = of[o[l]] /\ o[k] < o[l])
  BY <1>3
<1> QED
  BY <1>1, <1>4, Zenon DEF Sorts

\* A list s: the n elements of a before the m-th, as f sorts them, and the m-th.
OneUnsorted(s, rank, a, of, f, n, m) ==
  /\ n \in Nat /\ m \in Nat /\ m = n + 1
  /\ Sorts(f, n, of) /\ \A i \in 1..m : of[i] \in Int
  /\ DOMAIN s = 1..m
  /\ \A k \in 1..n : s[k] = a[f[k]] /\ rank[k] = of[f[k]]
  /\ s[m] = a[m] /\ rank[m] = of[m]

\* Sorted again, it has the m elements of a, by rank and within a rank in their order.
LEMMA SortedWithOneMore ==
  ASSUME NEW s, NEW rank, NEW a, NEW of, NEW f, NEW n, NEW m, OneUnsorted(s, rank, a, of, f, n, m)
  PROVE  \E h : Sorts(h, m, of) /\ SortedBy(s, rank) = Along(a, h, m)
<1> DEFINE g == [k \in 1..m |-> IF k = m THEN m ELSE f[k]]
<1>1. /\ n \in Nat /\ m \in Nat /\ m = n + 1 /\ DOMAIN s = 1..m
      /\ Sorts(f, n, of) /\ \A i \in 1..m : of[i] \in Int
      /\ \A k \in 1..n : s[k] = a[f[k]] /\ rank[k] = of[f[k]]
      /\ s[m] = a[m] /\ rank[m] = of[m]
  BY DEF OneUnsorted
<1>2. /\ f \in [1..n -> 1..n] /\ \A i \in 1..n : \E k \in 1..n : f[k] = i
      /\ \A k, l \in 1..n : k < l =>
           of[f[k]] < of[f[l]] \/ (of[f[k]] = of[f[l]] /\ f[k] < f[l])
  BY <1>1 DEF Sorts
<1>3. \A k \in 1..m : k \in 1..n \/ k = m
  BY <1>1
<1>4. 1..n \subseteq 1..m /\ m \in 1..m
  BY <1>1
<1>5. g \in [1..m -> 1..m] /\ g[m] = m /\ \A k \in 1..n : g[k] = f[k] /\ g[k] \in 1..n
  <2>1. \A k \in 1..n : f[k] \in 1..n /\ k # m
    BY <1>2, <1>1
  <2> QED
    BY <1>3, <1>4, <2>1
<1> HIDE DEF g
<1>6. \A i \in 1..m : \E k \in 1..m : g[k] = i
  BY <1>2, <1>3, <1>4, <1>5
<1>7. \A k \in 1..m : s[k] = a[g[k]] /\ rank[k] = of[g[k]]
  BY <1>3, <1>5, <1>1
<1>8. \A k \in 1..m : rank[k] \in Int
  BY <1>5, <1>7, <1>1
<1>9. ASSUME NEW k \in 1..m, NEW l \in 1..m, k < l, rank[k] = rank[l] PROVE g[k] < g[l]
  <2>1. k \in 1..n
    BY <1>9, <1>1
  <2>2. CASE l = m
    BY <1>5, <1>1, <2>1, <2>2
  <2>3. CASE l # m
    <3>1. l \in 1..n
      BY <1>3, <2>3
    <3>2. of[f[k]] = of[f[l]] /\ f[k] \in 1..m
      BY <1>2, <1>4, <1>9, <1>1, <2>1, <3>1
    <3>3. of[f[k]] < of[f[l]] \/ f[k] < f[l]
      BY <1>2, <1>9, <2>1, <3>1
    <3>4. f[k] < f[l]
      BY <1>1, <3>2, <3>3
    <3> QED
      BY <1>5, <2>1, <3>1, <3>4
  <2> QED
    BY <2>2, <2>3
<1>10. PICK o : Sorts(o, m, rank) /\ SortedBy(s, rank) = Along(s, o, m)
  <2>1. m \in Nat /\ DOMAIN s = 1..m
    BY <1>1
  <2> QED
    BY <1>8, <2>1, SortedByIs
<1> DEFINE h == [k \in 1..m |-> g[o[k]]]
<1>11. /\ o \in [1..m -> 1..m] /\ \A i \in 1..m : \E k \in 1..m : o[k] = i
       /\ \A k, l \in 1..m : k < l =>
            rank[o[k]] < rank[o[l]] \/ (rank[o[k]] = rank[o[l]] /\ o[k] < o[l])
  BY <1>10 DEF Sorts
<1>12. h \in [1..m -> 1..m] /\ \A k \in 1..m : h[k] = g[o[k]] /\ o[k] \in 1..m
  BY <1>5, <1>11
<1> HIDE DEF h
<1>13. ASSUME NEW i \in 1..m PROVE \E k \in 1..m : h[k] = i
  <2>1. PICK j \in 1..m : g[j] = i
    BY <1>6
  <2>2. PICK k \in 1..m : o[k] = j
    BY <1>11
  <2> QED
    BY <1>12, <2>1, <2>2
<1>14. ASSUME NEW k \in 1..m, NEW l \in 1..m, k < l
       PROVE  of[h[k]] < of[h[l]] \/ (of[h[k]] = of[h[l]] /\ h[k] < h[l])
  <2>1. o[k] \in 1..m /\ o[l] \in 1..m /\ h[k] = g[o[k]] /\ h[l] = g[o[l]]
    BY <1>12
  <2>2. of[h[k]] = rank[o[k]] /\ of[h[l]] = rank[o[l]]
    BY <1>7, <2>1, Zenon
  <2>3. rank[o[k]] < rank[o[l]] \/ (rank[o[k]] = rank[o[l]] /\ o[k] < o[l])
    BY <1>11, <1>14
  <2>4. rank[o[k]] = rank[o[l]] /\ o[k] < o[l] => h[k] < h[l]
    BY <1>9, <2>1, Zenon
  <2> QED
    BY <2>2, <2>3, <2>4, Zenon
<1>15. Sorts(h, m, of)
  BY <1>12, <1>13, <1>14 DEF Sorts
<1>16. SortedBy(s, rank) = Along(a, h, m)
  <2>1. \A k \in 1..m : s[o[k]] = a[h[k]]
    BY <1>7, <1>12
  <2> QED
    BY <1>10, <2>1 DEF Along
<1> QED
  BY <1>15, <1>16

\* Of some of n elements, one is the first of those of the least rank.
LEMMA FirstOfLeastRank ==
  ASSUME NEW n \in Nat, NEW rank, \A i \in 1..n : rank[i] \in Int,
         NEW I \in SUBSET (1..n), I # {}
  PROVE  \E i \in I : \A j \in I : rank[i] < rank[j] \/ (rank[i] = rank[j] /\ i <= j)
<1> DEFINE s == [i \in 1..n |-> i]
<1>1. PICK o : Sorts(o, n, rank)
  <2>1. DOMAIN s = 1..n
    OBVIOUS
  <2> HIDE DEF s
  <2> QED
    BY <2>1, SortedByIs
<1>2. /\ o \in [1..n -> 1..n] /\ \A i \in 1..n : \E k \in 1..n : o[k] = i
      /\ \A k, l \in 1..n : k < l =>
           rank[o[k]] < rank[o[l]] \/ (rank[o[k]] = rank[o[l]] /\ o[k] < o[l])
  BY <1>1 DEF Sorts
<1> DEFINE K == {k \in 1..n : o[k] \in I}
<1>3. PICK k \in K : \A l \in K : k <= l
  <2>1. K \in SUBSET Nat
    OBVIOUS
  <2>2. PICK i \in I : i \in 1..n
    OBVIOUS
  <2>3. K # {}
    BY <1>2, <2>2
  <2> QED
    BY <2>1, <2>3, LeastNat
<1>4. ASSUME NEW j \in I PROVE rank[o[k]] < rank[j] \/ (rank[o[k]] = rank[j] /\ o[k] <= j)
  <2>1. PICK l \in 1..n : o[l] = j
    BY <1>2
  <2>2. k <= l /\ k \in 1..n
    BY <1>3, <2>1
  <2>3. CASE k = l
    BY <2>1, <2>3
  <2>4. CASE k < l
    <3>1. rank[o[k]] < rank[j] \/ (rank[o[k]] = rank[j] /\ o[k] < j)
      BY <1>2, <2>1, <2>2, <2>4
    <3> QED
      BY <1>2, <2>2, <3>1
  <2> QED
    BY <2>2, <2>3, <2>4
<1> QED
  BY <1>3, <1>4

\* There is one way to list numbers in increasing order.
LEMMA OneEnumeration ==
  ASSUME NEW I \in SUBSET Int, IsFiniteSet(I), NEW f, NEW g, Enumerates(f, I), Enumerates(g, I)
  PROVE  f = g
<1> DEFINE n   == Cardinality(I)
           bad == {k \in 1..n : f[k] # g[k]}
<1>1. n \in Nat
  BY FS_CardinalityType
<1>2. /\ f \in [1..n -> I] /\ g \in [1..n -> I]
      /\ \A i \in I : (\E k \in 1..n : f[k] = i) /\ (\E k \in 1..n : g[k] = i)
      /\ \A k, l \in 1..n : k < l => f[k] < f[l] /\ g[k] < g[l]
  BY DEF Enumerates
<1> HIDE DEF n
<1>3. SUFFICES ASSUME bad # {} PROVE FALSE
  <2>1. f = [k \in 1..n |-> f[k]] /\ g = [k \in 1..n |-> g[k]]
    BY <1>2
  <2>2. bad = {} => f = g
    BY <2>1
  <2> QED
    BY <2>2
<1>4. PICK k \in bad : \A m \in bad : k <= m
  <2>1. bad \in SUBSET Nat
    BY <1>1
  <2> QED
    BY <1>3, <2>1, LeastNat
<1>5. /\ k \in 1..n /\ f[k] \in I /\ g[k] \in I /\ f[k] # g[k]
      /\ \A m \in 1..n : m < k => f[m] = g[m]
  BY <1>1, <1>2, <1>4
<1>6. PICK l \in 1..n : g[l] = f[k]
  BY <1>2, <1>5
<1>7. PICK m \in 1..n : f[m] = g[k]
  BY <1>2, <1>5
<1>8. \A a, b \in 1..n : a # b => f[a] # f[b] /\ g[a] # g[b]
  <2> SUFFICES ASSUME NEW a \in 1..n, NEW b \in 1..n, a # b PROVE f[a] # f[b] /\ g[a] # g[b]
    OBVIOUS
  <2>1. f[a] \in Int /\ f[b] \in Int /\ g[a] \in Int /\ g[b] \in Int
    BY <1>2
  <2>2. a < b \/ b < a
    BY <1>1
  <2> QED
    BY <1>2, <2>1, <2>2
<1>9. k < l /\ k < m
  <2>1. k # l /\ k # m
    BY <1>5, <1>6, <1>7
  <2>2. ~ (l < k)
    BY <1>5, <1>6, <1>8
  <2>3. ~ (m < k)
    BY <1>5, <1>7, <1>8
  <2> QED
    BY <1>1, <1>5, <2>1, <2>2, <2>3
<1>10. g[k] < f[k] /\ f[k] < g[k]
  BY <1>2, <1>5, <1>6, <1>7, <1>9
<1>11. f[k] \in Int /\ g[k] \in Int
  BY <1>5
<1> QED
  BY <1>10, <1>11

=============================================================================
