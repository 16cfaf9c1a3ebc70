-------------------------- MODULE OrderingProofs ---------------------------
(***************************************************************************)
(* What the lists in the order of a key contain, and what Max of the       *)
(* community modules returns: the ids and sequence numbers of the models   *)
(* are computed with it, as max(...) in the queries.                       *)
(***************************************************************************)
EXTENDS Ordering, FiniteSetsExt, FiniteSetTheorems, FunctionTheorems,
        WellFoundedInduction, TLAPS

\* A finite set of integers that is not empty has a largest element.
LEMMA MaxOfFinite ==
    ASSUME NEW S \in SUBSET Int, IsFiniteSet(S), S # {}
    PROVE  Max(S) \in S /\ \A y \in S : y <= Max(S)
<1> DEFINE Above(x) == {y \in S : y > x}
           Family == {Above(x) : x \in S}
<1>1. Family \subseteq FiniteSubsetsOf(S) /\ Family # {}
  <2>1. \A x \in S : Above(x) \subseteq S /\ IsFiniteSet(Above(x))
    BY FS_Subset
  <2>2. QED
    BY <2>1 DEF FiniteSubsetsOf
<1>2. PICK A \in Family :
         \A B \in Family : ~(<<B, A>> \in StrictSubsetOrdering(S))
  <2> HIDE DEF Family
  <2>1. IsWellFoundedOn(StrictSubsetOrdering(S), FiniteSubsetsOf(S))
    BY FS_StrictSubsetOrderingWellFounded
  <2>2. QED
    BY <1>1, <2>1, WFMin
<1>3. PICK x \in S : A = Above(x)
  BY <1>2
<1>4. \A y \in S : y <= x
  <2> SUFFICES ASSUME NEW y \in S, y > x
               PROVE  FALSE
    OBVIOUS
  <2>0. x \in Int /\ y \in Int /\ \A z \in S : z \in Int
    OBVIOUS
  <2>1. Above(y) \in Family
    OBVIOUS
  <2>4. Above(y) \subseteq Above(x)
    <3> SUFFICES ASSUME NEW z \in S, z > y
                 PROVE  z > x
      OBVIOUS
    <3> HIDE DEF Above, Family
    <3>1. z \in Int
      BY <2>0
    <3>2. QED
      BY <2>0, <3>1
  <2>2. y \in Above(x) /\ y \notin Above(y)
    OBVIOUS
  <2>3. <<Above(y), Above(x)>> \in StrictSubsetOrdering(S)
    BY <2>1, <2>2, <2>4 DEF StrictSubsetOrdering
  <2>5. QED
    BY <1>2, <1>3, <2>1, <2>3
<1>5. QED
  BY <1>4 DEF Max

\* Every element of a finite set once.
Lists(list, S) ==
    /\ list \in [1 .. Cardinality(S) -> S]
    /\ \A i, j \in 1 .. Cardinality(S) : list[i] = list[j] => i = j
    /\ \A x \in S : \E i \in 1 .. Cardinality(S) : list[i] = x

\* A list in the order of a key is such a list.
LEMMA OrderedList ==
    ASSUME NEW S, IsFiniteSet(S), NEW key \in [S -> Int],
           \A x, y \in S : key[x] = key[y] => x = y
    PROVE  Cardinality(S) \in Nat /\ Lists(Ordered(S, key), S)
<1> DEFINE Below(x) == {y \in S : key[y] < key[x]}
           rank == [x \in S |-> Cardinality(Below(x))]
           n == Cardinality(S)
<1>1. n \in Nat
  BY FS_CardinalityType
<1>2. ASSUME NEW x \in S
      PROVE  IsFiniteSet(Below(x)) /\ Cardinality(Below(x)) \in 0 .. n - 1
  <2>1. Below(x) \in SUBSET S /\ x \notin Below(x)
    OBVIOUS
  <2> HIDE DEF Below
  <2>2. IsFiniteSet(Below(x)) /\ Cardinality(Below(x)) <= n /\ Cardinality(Below(x)) # n
    BY <2>1, FS_Subset
  <2>3. Cardinality(Below(x)) \in Nat
    BY <2>2, FS_CardinalityType
  <2>4. QED
    BY <1>1, <2>2, <2>3
<1>3. ASSUME NEW x \in S, NEW y \in S, key[x] < key[y]
      PROVE  Cardinality(Below(x)) < Cardinality(Below(y))
  <2>1. /\ Below(x) \in SUBSET Below(y)
        /\ x \in Below(y) /\ x \notin Below(x)
    BY <1>3
  <2> HIDE DEF Below
  <2>2. /\ Cardinality(Below(x)) <= Cardinality(Below(y))
        /\ Cardinality(Below(x)) # Cardinality(Below(y))
    BY <1>2, <2>1, FS_Subset
  <2>3. QED
    BY <1>1, <1>2, <2>2
<1>4. rank \in [S -> 0 .. n - 1]
  BY <1>2
<1>5. ASSUME NEW x \in S, NEW y \in S, rank[x] = rank[y]
      PROVE  x = y
  <2>1. key[x] \in Int /\ key[y] \in Int
    OBVIOUS
  <2>2. rank[x] = Cardinality(Below(x)) /\ rank[y] = Cardinality(Below(y))
    OBVIOUS
  <2>3. ~(key[x] < key[y]) /\ ~(key[y] < key[x])
    <3>1. Cardinality(Below(x)) = Cardinality(Below(y))
      BY <1>5, <2>2
    <3> HIDE DEF rank, Below
    <3>2. Cardinality(Below(x)) \in Int /\ Cardinality(Below(y)) \in Int
      BY <1>1, <1>2
    <3>3. QED
      BY <1>3, <3>1, <3>2
  <2>4. QED
    BY <2>1, <2>3
<1>6. rank \in Surjection(S, 0 .. n - 1)
  <2>1. rank \in Injection(S, 0 .. n - 1)
    BY <1>4, <1>5 DEF Injection, IsInjective
  <2>2. IsFiniteSet(0 .. n - 1) /\ Cardinality(0 .. n - 1) = n
    BY <1>1, FS_Interval
  <2> HIDE DEF rank
  <2>3. QED
    BY <2>1, <2>2, FS_Injection
<1>7. ASSUME NEW k \in 1 .. n
      PROVE  \E x \in S : Cardinality(Below(x)) = k - 1
  <2>1. k - 1 \in 0 .. n - 1
    BY <1>1
  <2>2. PICK x \in S : rank[x] = k - 1
    BY <1>6, <2>1 DEF Surjection
  <2>3. QED
    BY <2>2
<1>8. ASSUME NEW k \in 1 .. n
      PROVE  Ordered(S, key)[k] \in S /\ rank[Ordered(S, key)[k]] = k - 1
  <2>1. Ordered(S, key)[k] = CHOOSE x \in S : Cardinality(Below(x)) = k - 1
    BY DEF Ordered
  <2>2. /\ Ordered(S, key)[k] \in S
        /\ Cardinality(Below(Ordered(S, key)[k])) = k - 1
    <3> HIDE DEF Below
    <3>1. QED
      BY <1>7, <2>1
  <2>3. QED
    BY <2>2
<1>9. Ordered(S, key) \in [1 .. n -> S]
  <2> DEFINE place(k) == CHOOSE x \in S : Cardinality(Below(x)) = k - 1
  <2>1. Ordered(S, key) = [k \in 1 .. n |-> place(k)]
    BY DEF Ordered
  <2> HIDE DEF place
  <2>2. \A k \in 1 .. n : Ordered(S, key)[k] = place(k)
    BY <2>1
  <2>3. QED
    BY <1>8, <2>1, <2>2
<1>10. ASSUME NEW i \in 1 .. n, NEW j \in 1 .. n, Ordered(S, key)[i] = Ordered(S, key)[j]
       PROVE  i = j
  <2>1. i - 1 = j - 1
    BY <1>8, <1>10
  <2>2. QED
    BY <1>1, <2>1
<1>11. ASSUME NEW x \in S
       PROVE  \E i \in 1 .. n : Ordered(S, key)[i] = x
  <2>1. rank[x] + 1 \in 1 .. n /\ (rank[x] + 1) - 1 = rank[x]
    BY <1>1, <1>4
  <2>2. rank[Ordered(S, key)[rank[x] + 1]] = rank[x] /\ Ordered(S, key)[rank[x] + 1] \in S
    <3> HIDE DEF rank
    <3>1. QED
      BY <1>8, <2>1
  <2>3. QED
    BY <1>5, <2>1, <2>2
<1>12. QED
  BY <1>1, <1>9, <1>10, <1>11 DEF Lists

\* A sublist has what the list has at these places, each place once.
LEMMA SublistOf ==
    ASSUME NEW list, NEW places \in SUBSET Int, IsFiniteSet(places)
    PROVE  /\ Cardinality(places) \in Nat
           /\ DOMAIN Sublist(list, places) = 1 .. Cardinality(places)
           /\ \E order : /\ Lists(order, places)
                         /\ \A k \in 1 .. Cardinality(places) :
                               Sublist(list, places)[k] = list[order[k]]
<1>1. PICK key \in [places -> Int] : key = [i \in places |-> i]
  OBVIOUS
<1> DEFINE order == Ordered(places, key)
<1>2. Cardinality(places) \in Nat /\ Lists(order, places)
  <2>1. \A x, y \in places : key[x] = key[y] => x = y
    BY <1>1
  <2>2. QED
    BY <2>1, OrderedList
<1>3. Sublist(list, places) = [k \in DOMAIN order |-> list[order[k]]]
  BY <1>1 DEF Sublist
<1> HIDE DEF order
<1>4. /\ DOMAIN Sublist(list, places) = 1 .. Cardinality(places)
      /\ \A k \in 1 .. Cardinality(places) : Sublist(list, places)[k] = list[order[k]]
  BY <1>2, <1>3 DEF Lists
<1>5. QED
  BY <1>2, <1>4
=============================================================================
