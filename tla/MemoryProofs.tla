---------------------------- MODULE MemoryProofs ----------------------------
(***************************************************************************)
(* Proofs about the episodic memory: its two lists agree, what an entry     *)
(* says is what happened, and the exemplars are the best successes, for     *)
(* every stream of arrivals, capacity, policy and scale of scores.          *)
(*                                                                         *)
(* Retrieval sorts, filters and cuts a list three times over.  Each of      *)
(* those is a choice of positions, and the choices are sound because the    *)
(* members of a finite totally ordered set can be numbered.                 *)
(***************************************************************************)
EXTENDS Memory, FiniteSetTheorems, TLAPS

(***************************************************************************)
(* Numbering a finite set along an order.                                   *)
(***************************************************************************)
TotalOrder(R, S) ==
  /\ \A a, b \in S : <<a, b>> \in R => <<b, a>> \notin R
  /\ \A a, b, c \in S : <<a, b>> \in R /\ <<b, c>> \in R => <<a, c>> \in R
  /\ \A a, b \in S : a # b => <<a, b>> \in R \/ <<b, a>> \in R

\* Every number up to the size of the set is taken, once, and they follow the
\* order.
LEMMA NthNumbers ==
  ASSUME NEW S, IsFiniteSet(S), NEW R, TotalOrder(R, S)
  PROVE  /\ Cardinality(S) \in Nat
         /\ \A k \in 1..Cardinality(S) : Nth(R, S, k) \in S
         /\ \A k, l \in 1..Cardinality(S) : k < l => <<Nth(R, S, k), Nth(R, S, l)>> \in R
         /\ \A a \in S : \E k \in 1..Cardinality(S) : Nth(R, S, k) = a
<1> DEFINE n == Cardinality(S)
           below(i) == {j \in S : <<j, i>> \in R}
           rank == [i \in S |-> Cardinality(below(i))]
<1>1. n \in Nat
  BY FS_CardinalityType
<1>2. ASSUME NEW i \in S
      PROVE  /\ IsFiniteSet(below(i)) /\ rank[i] \in Nat
             /\ rank[i] = Cardinality(below(i)) /\ rank[i] \in 0..(n - 1)
  <2>1. IsFiniteSet(below(i)) /\ Cardinality(below(i)) \in Nat
    BY FS_Subset, FS_CardinalityType
  <2>2. below(i) \subseteq S \ {i}
    BY DEF TotalOrder
  <2>3. IsFiniteSet(S \ {i}) /\ Cardinality(S \ {i}) = n - 1
    BY FS_RemoveElement
  <2>4. Cardinality(below(i)) <= n - 1
    <3> HIDE DEF n, below
    <3>1. Cardinality(below(i)) <= Cardinality(S \ {i})
      BY <2>2, <2>3, FS_Subset
    <3> QED BY <2>3, <3>1
  <2>5. rank[i] = Cardinality(below(i))
    OBVIOUS
  <2> QED BY <1>1, <2>1, <2>4, <2>5
<1>3. ASSUME NEW i \in S, NEW j \in S, <<i, j>> \in R
      PROVE  rank[i] < rank[j]
  <2>1. i \notin below(i) /\ below(i) \cup {i} \subseteq below(j)
    BY <1>3 DEF TotalOrder
  <2>2. Cardinality(below(i) \cup {i}) = Cardinality(below(i)) + 1
    BY <1>2, <2>1, FS_AddElement
  <2>3. Cardinality(below(i) \cup {i}) <= Cardinality(below(j))
    BY <1>2, <2>1, FS_Subset
  <2> QED BY <1>2, <2>2, <2>3
<1>12. rank \in [S -> 0..(n - 1)]
  BY <1>2
<1>13. \A i \in S : rank[i] \in Int
  BY <1>2
<1> HIDE DEF rank
<1>4. \A i, j \in S : rank[i] = rank[j] => i = j
  <2> SUFFICES ASSUME NEW i \in S, NEW j \in S, <<i, j>> \in R PROVE rank[i] # rank[j]
    BY DEF TotalOrder
  <2> QED BY <1>3, <1>13
<1>5. rank \in Injection(S, 0..(n - 1))
  <2>1. rank \in [S -> 0..(n - 1)]
    BY <1>12
  <2> QED BY <1>4, <2>1 DEF Injection, IsInjective
<1>6. IsFiniteSet(0..(n - 1)) /\ Cardinality(0..(n - 1)) = n
  <2>1. n - 1 \in Int
    BY <1>1
  <2> HIDE DEF n
  <2>2. IsFiniteSet(0..(n - 1)) /\ Cardinality(0..(n - 1)) = IF 0 > n - 1 THEN 0 ELSE (n - 1) - 0 + 1
    BY <2>1, FS_Interval
  <2> QED BY <1>1, <2>2
<1>7. rank \in Surjection(S, 0..(n - 1))
  BY <1>5, <1>6, FS_Injection
<1>8. ASSUME NEW k \in 1..n PROVE \E i \in S : rank[i] = k - 1
  <2>1. k - 1 \in 0..(n - 1)
    BY <1>1
  <2> QED BY <1>7, <2>1 DEF Surjection
<1>9. ASSUME NEW k \in 1..n PROVE Nth(R, S, k) \in S /\ rank[Nth(R, S, k)] = k - 1
  <2>1. \A i \in S : rank[i] = Cardinality({j \in S : <<j, i>> \in R})
    BY <1>2
  <2> QED BY <1>8, <2>1 DEF Nth
<1>10. ASSUME NEW k \in 1..n, NEW l \in 1..n, k < l
       PROVE  <<Nth(R, S, k), Nth(R, S, l)>> \in R
  <2> DEFINE a == Nth(R, S, k)
             b == Nth(R, S, l)
  <2>1. a \in S /\ b \in S /\ rank[a] < rank[b]
    BY <1>1, <1>9, <1>10
  <2>2. a # b /\ <<b, a>> \notin R
    BY <1>3, <1>13, <2>1
  <2> QED BY <2>1, <2>2 DEF TotalOrder
<1>11. ASSUME NEW a \in S PROVE \E k \in 1..n : Nth(R, S, k) = a
  <2>1. rank[a] \in 0..(n - 1)
    BY <1>2
  <2>2. rank[a] + 1 \in 1..n /\ (rank[a] + 1) - 1 = rank[a]
    BY <1>1, <2>1
  <2>3. Nth(R, S, rank[a] + 1) \in S /\ rank[Nth(R, S, rank[a] + 1)] = rank[a]
    BY <1>9, <2>2
  <2> QED BY <1>4, <2>2, <2>3
<1> QED BY <1>1, <1>9, <1>10, <1>11

(***************************************************************************)
(* Filtering and sorting a sequence without repetitions.                    *)
(***************************************************************************)
\* t is made of positions of s, in ascending order when `ordered`.
Selects(place, t, s, at) ==
  /\ place \in [1..Cardinality(at) -> at]
  /\ \A k, l \in 1..Cardinality(at) : place[k] = place[l] => k = l
  /\ \A i \in at : \E k \in 1..Cardinality(at) : place[k] = i
  /\ t = [k \in 1..Cardinality(at) |-> s[place[k]]]

\* Positions, in ascending order.
Ascending(at) == {w \in at \X at : w[1] < w[2]}

LEMMA AscendingNumbers ==
  ASSUME NEW n \in Nat, NEW at \in SUBSET (1..n)
  PROVE  /\ IsFiniteSet(at) /\ TotalOrder(Ascending(at), at)
         /\ \A a, b \in at : <<a, b>> \in Ascending(at) <=> a < b
         /\ \A k \in 1..Cardinality(at) : Nth(Ascending(at), at, k) \in at
<1> DEFINE R == Ascending(at)
<1>1. IsFiniteSet(at) /\ at \subseteq Int
  <2>1. IsFiniteSet(1..n)
    BY FS_Interval
  <2>2. IsFiniteSet(at)
    BY <2>1, FS_Subset
  <2> QED BY <2>2
<1>2. \A a, b \in at : <<a, b>> \in R <=> a < b
  BY DEF Ascending
<1> HIDE DEF R
<1>3. TotalOrder(R, at)
  BY <1>1, <1>2 DEF TotalOrder
<1>4. \A k \in 1..Cardinality(at) : Nth(R, at, k) \in at
  BY <1>1, <1>3, NthNumbers
<1> QED BY <1>1, <1>2, <1>3, <1>4 DEF R

\* What a filter returns.
LEMMA PickedSelects ==
  ASSUME NEW s, NEW n \in Nat, DOMAIN s = 1..n, NEW at \in SUBSET (1..n)
  PROVE  \E place : /\ Selects(place, Picked(s, at), s, at)
                    /\ \A k, l \in 1..Cardinality(at) : k < l => place[k] < place[l]
<1> DEFINE R == Ascending(at)
           m == Cardinality(at)
           place == [k \in 1..m |-> Nth(R, at, k)]
<1>1. IsFiniteSet(at) /\ at \subseteq Int
  <2>1. IsFiniteSet(at)
    BY AscendingNumbers
  <2> QED BY <2>1
<1>2. \A a, b \in at : <<a, b>> \in R <=> a < b
  BY DEF Ascending
<1>3. TotalOrder(R, at)
  BY AscendingNumbers
<1> HIDE DEF R
<1>4. /\ m \in Nat /\ \A k \in 1..m : place[k] \in at
      /\ \A k, l \in 1..m : k < l => place[k] < place[l]
      /\ \A i \in at : \E k \in 1..m : place[k] = i
  <2>1. /\ m \in Nat /\ \A k \in 1..m : Nth(R, at, k) \in at
        /\ \A k, l \in 1..m : k < l => <<Nth(R, at, k), Nth(R, at, l)>> \in R
        /\ \A i \in at : \E k \in 1..m : Nth(R, at, k) = i
    BY <1>1, <1>3, NthNumbers
  <2> QED BY <1>2, <2>1
<1>5. \A k, l \in 1..m : place[k] = place[l] => k = l
  <2> SUFFICES ASSUME NEW k \in 1..m, NEW l \in 1..m, k < l PROVE place[k] # place[l]
    BY <1>4
  <2>1. place[k] \in Int /\ place[l] \in Int /\ place[k] < place[l]
    BY <1>1, <1>4
  <2> QED BY <2>1
<1>6. Picked(s, at) = [k \in 1..m |-> s[place[k]]]
  BY DEF Picked, R, Ascending
<1>7. Selects(place, Picked(s, at), s, at)
  BY <1>4, <1>5, <1>6 DEF Selects
<1> QED BY <1>4, <1>7

\* A strict order in which being level is an equivalence.
WeakOrder(above, S) ==
  /\ \A a, b \in S : <<a, b>> \in above => <<b, a>> \notin above
  /\ \A a, b, c \in S : <<a, b>> \notin above /\ <<b, c>> \notin above => <<a, c>> \notin above

\* What a stable sort returns: all of it, and nothing before what is above it.
LEMMA SortedSelects ==
  ASSUME NEW s, NEW n \in Nat, DOMAIN s = 1..n, NEW above, WeakOrder(above, Range(s))
  PROVE  \E place : /\ Selects(place, Sorted(s, above), s, 1..n)
                    /\ \A k, l \in 1..n : k < l => <<s[place[l]], s[place[k]]>> \notin above
<1> DEFINE R == Ahead(s, above)
           place == [k \in 1..n |-> Nth(R, 1..n, k)]
           A(i, j) == <<s[i], s[j]>> \in above
<1>1. IsFiniteSet(1..n) /\ Cardinality(1..n) = n
  BY FS_Interval
<1>2. \A i, j \in 1..n : <<i, j>> \in R <=> A(i, j) \/ (~A(j, i) /\ i < j)
  BY DEF Ahead
<1>3. \A i \in 1..n : s[i] \in Range(s)
  BY DEF Range
<1>4. \A i, j \in 1..n : A(i, j) => ~A(j, i)
  BY <1>3 DEF WeakOrder
<1>5. \A i, j, k \in 1..n : ~A(i, j) /\ ~A(j, k) => ~A(i, k)
  BY <1>3 DEF WeakOrder
<1> HIDE DEF R, A
<1>6. TotalOrder(R, 1..n)
  <2>1. \A i, j \in 1..n : <<i, j>> \in R => <<j, i>> \notin R
    BY <1>2, <1>4
  <2>2. ASSUME NEW i \in 1..n, NEW j \in 1..n, NEW k \in 1..n, <<i, j>> \in R, <<j, k>> \in R
        PROVE  <<i, k>> \in R
    <3>1. ~A(j, i) /\ ~A(k, j)
      BY <1>2, <1>4, <2>2
    <3>2. ~A(k, i)
      BY <1>5, <3>1
    <3>3. CASE A(i, j) \/ A(j, k)
      <4>1. A(i, k)
        BY <1>5, <3>1, <3>3
      <4> QED BY <1>2, <4>1
    <3>4. CASE i < j /\ j < k
      BY <1>2, <3>2, <3>4
    <3> QED BY <1>2, <2>2, <3>3, <3>4
  <2>3. \A i, j \in 1..n : i # j => <<i, j>> \in R \/ <<j, i>> \in R
    BY <1>2
  <2> QED BY <2>1, <2>2, <2>3 DEF TotalOrder
<1>7. /\ \A k \in 1..n : place[k] \in 1..n
      /\ \A k, l \in 1..n : k < l => <<place[k], place[l]>> \in R
      /\ \A i \in 1..n : \E k \in 1..n : place[k] = i
  <2> DEFINE S == 1..n
  <2>1. IsFiniteSet(S) /\ Cardinality(S) = n /\ TotalOrder(R, S)
    BY <1>1, <1>6
  <2> HIDE DEF S
  <2>2. /\ \A k \in 1..Cardinality(S) : Nth(R, S, k) \in S
        /\ \A k, l \in 1..Cardinality(S) : k < l => <<Nth(R, S, k), Nth(R, S, l)>> \in R
        /\ \A a \in S : \E k \in 1..Cardinality(S) : Nth(R, S, k) = a
    BY <2>1, NthNumbers
  <2> QED BY <2>1, <2>2 DEF S
<1>8. \A k, l \in 1..n : k < l => ~A(place[l], place[k])
  BY <1>2, <1>4, <1>7
<1>9. \A k, l \in 1..n : place[k] = place[l] => k = l
  <2> SUFFICES ASSUME NEW k \in 1..n, NEW l \in 1..n, k < l PROVE place[k] # place[l]
    OBVIOUS
  <2>1. <<place[k], place[l]>> \in R /\ place[k] \in 1..n /\ place[l] \in 1..n
    BY <1>7
  <2> HIDE DEF place
  <2> QED BY <1>6, <2>1 DEF TotalOrder
<1>10. Sorted(s, above) = [k \in 1..n |-> s[place[k]]]
  BY DEF Sorted, R
<1>11. Selects(place, Sorted(s, above), s, 1..n)
  BY <1>1, <1>7, <1>9, <1>10 DEF Selects
<1> QED BY <1>8, <1>11 DEF A

(***************************************************************************)
(* A list is a sequence without repetitions; what retrieval makes of one.   *)
(***************************************************************************)
Lists(s, S) == s \in Seq(S) /\ IsInjective(s)

LEMMA CountTo ==
  ASSUME NEW n \in Nat
  PROVE  IsFiniteSet(1..n) /\ Cardinality(1..n) = n
  BY FS_Interval

LEMMA ListedSet ==
  ASSUME NEW S, NEW s, Lists(s, S)
  PROVE  /\ Len(s) \in Nat /\ DOMAIN s = 1..Len(s) /\ Range(s) \subseteq S
         /\ IsFiniteSet(Range(s)) /\ Cardinality(Range(s)) = Len(s)
<1>1. Len(s) \in Nat /\ DOMAIN s = 1..Len(s) /\ Range(s) \subseteq S
  BY DEF Lists, Range
<1>2. IsFiniteSet(1..Len(s)) /\ Cardinality(1..Len(s)) = Len(s)
  BY <1>1, CountTo
<1>3. s \in Bijection(1..Len(s), Range(s))
  BY <1>1 DEF Lists, Range, IsInjective, Bijection, Injection, Surjection
<1>4. IsFiniteSet(Range(s)) /\ Cardinality(Range(s)) = Cardinality(1..Len(s))
  <2>1. \E f : f \in Bijection(1..Len(s), Range(s))
    BY <1>3
  <2>2. ExistsBijection(1..Len(s), Range(s))
    BY <2>1 DEF ExistsBijection
  <2> QED BY <1>2, <2>2, FS_Bijection
<1> QED BY <1>1, <1>2, <1>4

\* What is made of distinct positions of a list.
LEMMA SelectedLists ==
  ASSUME NEW S, NEW s, Lists(s, S), NEW at \in SUBSET (DOMAIN s), NEW place, NEW t,
         Selects(place, t, s, at), Cardinality(at) \in Nat
  PROVE  /\ Lists(t, S) /\ Len(t) = Cardinality(at)
         /\ Range(t) = {s[i] : i \in at}
<1> DEFINE m == Cardinality(at)
<1>1. DOMAIN s = 1..Len(s) /\ \A i \in DOMAIN s : s[i] \in S
  BY DEF Lists
<1>2. t = [k \in 1..m |-> s[place[k]]] /\ \A k \in 1..m : place[k] \in at
  BY DEF Selects
<1>3. t \in [1..m -> S]
  BY <1>1, <1>2
<1>4. t \in Seq(S) /\ Len(t) = m
  BY <1>3
<1>5. IsInjective(t)
  BY <1>1, <1>2 DEF Selects, Lists, IsInjective
<1>6. ASSUME NEW x \in Range(t) PROVE x \in {s[i] : i \in at}
  BY <1>2, <1>6 DEF Range
<1>7. ASSUME NEW i \in at PROVE s[i] \in Range(t)
  <2> PICK k \in 1..m : place[k] = i
    BY DEF Selects
  <2> QED BY <1>2 DEF Range
<1> QED BY <1>4, <1>5, <1>6, <1>7 DEF Lists

\* A filter keeps the order.
LEMMA PickedLists ==
  ASSUME NEW S, NEW s, Lists(s, S), NEW at \in SUBSET (DOMAIN s)
  PROVE  /\ Lists(Picked(s, at), S) /\ Range(Picked(s, at)) = {s[i] : i \in at}
         /\ Len(Picked(s, at)) = Cardinality(at)
         /\ \A k, l \in DOMAIN Picked(s, at) : k < l =>
              \E i, j \in at : i < j /\ Picked(s, at)[k] = s[i] /\ Picked(s, at)[l] = s[j]
<1>1. Len(s) \in Nat /\ DOMAIN s = 1..Len(s)
  BY ListedSet
<1>2. PICK place : /\ Selects(place, Picked(s, at), s, at)
                   /\ \A k, l \in 1..Cardinality(at) : k < l => place[k] < place[l]
  BY <1>1, PickedSelects
<1>3. Cardinality(at) \in Nat
  <2>1. IsFiniteSet(1..Len(s))
    BY <1>1, FS_Interval
  <2>2. IsFiniteSet(at)
    BY <1>1, <2>1, FS_Subset
  <2> QED BY <2>2, FS_CardinalityType
<1>4. /\ Lists(Picked(s, at), S) /\ Range(Picked(s, at)) = {s[i] : i \in at}
      /\ Len(Picked(s, at)) = Cardinality(at)
  BY <1>2, <1>3, SelectedLists
<1>5. ASSUME NEW k \in DOMAIN Picked(s, at), NEW l \in DOMAIN Picked(s, at), k < l
      PROVE  \E i, j \in at : i < j /\ Picked(s, at)[k] = s[i] /\ Picked(s, at)[l] = s[j]
  <2>1. k \in 1..Cardinality(at) /\ l \in 1..Cardinality(at)
    BY <1>2 DEF Selects
  <2>2. Picked(s, at)[k] = s[place[k]] /\ Picked(s, at)[l] = s[place[l]]
    BY <1>2, <2>1 DEF Selects
  <2>3. place[k] \in at /\ place[l] \in at /\ place[k] < place[l]
    BY <1>2, <1>5, <2>1 DEF Selects
  <2> QED BY <2>2, <2>3
<1> QED BY <1>4, <1>5

\* A sort leaves nothing out and puts nothing before what is above it.
LEMMA SortedLists ==
  ASSUME NEW S, NEW s, Lists(s, S), NEW above, WeakOrder(above, Range(s))
  PROVE  /\ Lists(Sorted(s, above), S) /\ Range(Sorted(s, above)) = Range(s)
         /\ Len(Sorted(s, above)) = Len(s)
         /\ \A k, l \in DOMAIN Sorted(s, above) : k < l =>
              <<Sorted(s, above)[l], Sorted(s, above)[k]>> \notin above
<1> DEFINE n == Len(s)
<1>1. n \in Nat /\ DOMAIN s = 1..n
  BY ListedSet
<1>2. PICK place : /\ Selects(place, Sorted(s, above), s, 1..n)
                   /\ \A k, l \in 1..n : k < l => <<s[place[l]], s[place[k]]>> \notin above
  BY <1>1, SortedSelects
<1>3. Cardinality(1..n) = n
  BY <1>1, CountTo
<1>4. /\ Lists(Sorted(s, above), S) /\ Range(Sorted(s, above)) = {s[i] : i \in 1..n}
      /\ Len(Sorted(s, above)) = Cardinality(1..n)
  <2>1. 1..n \in SUBSET (DOMAIN s) /\ Cardinality(1..n) \in Nat
    BY <1>1, <1>3
  <2> HIDE DEF n
  <2> QED BY <1>2, <2>1, SelectedLists
<1>5. Sorted(s, above) = [k \in 1..n |-> s[place[k]]]
  BY <1>2, <1>3 DEF Selects
<1>6. \A k, l \in DOMAIN Sorted(s, above) : k < l =>
        <<Sorted(s, above)[l], Sorted(s, above)[k]>> \notin above
  BY <1>2, <1>5
<1>7. Range(s) = {s[i] : i \in 1..n}
  BY <1>1 DEF Range
<1> QED BY <1>3, <1>4, <1>6, <1>7

LEMMA BestFirstLists ==
  ASSUME NEW S, NEW s, Lists(s, S), NEW score, \A x \in Range(s) : score[x] \in Int
  PROVE  /\ Lists(BestFirst(s, score), S) /\ Range(BestFirst(s, score)) = Range(s)
         /\ Len(BestFirst(s, score)) = Len(s)
         /\ \A k, l \in DOMAIN BestFirst(s, score) : k < l =>
              score[BestFirst(s, score)[k]] >= score[BestFirst(s, score)[l]]
<1> DEFINE above == {w \in Pairs(s) : score[w[1]] > score[w[2]]}
<1>1. \A x, y \in Range(s) : <<x, y>> \in above <=> score[x] > score[y]
  BY DEF Pairs
<1>2. BestFirst(s, score) = Sorted(s, above)
  BY DEF BestFirst
<1> HIDE DEF above
<1>3. WeakOrder(above, Range(s))
  BY <1>1 DEF WeakOrder
<1>4. /\ Lists(Sorted(s, above), S) /\ Range(Sorted(s, above)) = Range(s)
      /\ Len(Sorted(s, above)) = Len(s)
      /\ \A k, l \in DOMAIN Sorted(s, above) : k < l =>
           <<Sorted(s, above)[l], Sorted(s, above)[k]>> \notin above
  BY <1>3, SortedLists
<1> DEFINE t == Sorted(s, above)
<1>5. \A k \in DOMAIN t : t[k] \in Range(s)
  BY <1>4 DEF Range
<1>6. \A k, l \in DOMAIN t : k < l => score[t[k]] >= score[t[l]]
  <2> HIDE DEF t
  <2> SUFFICES ASSUME NEW k \in DOMAIN t, NEW l \in DOMAIN t, k < l
               PROVE  score[t[k]] >= score[t[l]]
    OBVIOUS
  <2>1. <<t[l], t[k]>> \notin above
    BY <1>4 DEF t
  <2>2. t[k] \in Range(s) /\ t[l] \in Range(s)
    BY <1>5
  <2>3. ~(score[t[l]] > score[t[k]])
    BY <1>1, <2>1, <2>2
  <2> QED BY <2>2, <2>3
<1> QED BY <1>2, <1>4, <1>6

LEMMA CutLists ==
  ASSUME NEW S, NEW s, Lists(s, S), NEW k \in Nat
  PROVE  /\ Lists(Cut(s, k), S) /\ Range(Cut(s, k)) \subseteq Range(s)
         /\ Len(Cut(s, k)) = IF k < Len(s) THEN k ELSE Len(s)
         /\ \A i \in DOMAIN Cut(s, k) : i \in DOMAIN s /\ Cut(s, k)[i] = s[i]
         /\ Len(s) <= k => Range(Cut(s, k)) = Range(s)
<1> DEFINE t == Cut(s, k)
           n == IF k < Len(s) THEN k ELSE Len(s)
<1>1. s \in Seq(S) /\ Len(s) \in Nat /\ DOMAIN s = 1..Len(s) /\ n \in 0..Len(s)
  BY DEF Lists
<1>2. t = SubSeq(s, 1, n)
  BY DEF Cut
<1> HIDE DEF t, n
<1>3. t \in Seq(S) /\ Len(t) = n /\ DOMAIN t = 1..n /\ \A i \in 1..n : t[i] = s[i]
  BY <1>1, <1>2
<1>4. IsInjective(t)
  BY <1>1, <1>3 DEF Lists, IsInjective
<1>5. Range(t) \subseteq Range(s)
  BY <1>1, <1>3 DEF Range
<1>6. Len(s) <= k => Range(t) = Range(s)
  BY <1>1, <1>3 DEF Range, n
<1>7. \A i \in DOMAIN t : i \in DOMAIN s /\ t[i] = s[i]
  BY <1>1, <1>3
<1> QED BY <1>3, <1>4, <1>5, <1>6, <1>7 DEF Lists, t, n

(***************************************************************************)
(* The pipeline without filters, on a list: what it returns is of that list *)
(* and without repetitions, and all of it when k is no smaller.             *)
(***************************************************************************)
\* Comparing fractions by cross-multiplication is an order.
LEMMA FractionOrder ==
  ASSUME NEW X, NEW score,
         \A x \in X : score[x].num \in Nat /\ score[x].den \in Nat \ {0},
         NEW above,
         \A x, y \in X : <<x, y>> \in above
            <=> score[x].num * score[y].den > score[y].num * score[x].den
  PROVE  WeakOrder(above, X)
<1>1. \A a, b, d, e \in Nat : a * e \in Nat /\ b * d \in Nat
  OBVIOUS
<1>2. ASSUME NEW a \in Nat, NEW d \in Nat \ {0}, NEW b \in Nat, NEW e \in Nat \ {0},
             NEW c \in Nat, NEW f \in Nat \ {0}, a * e <= b * d, b * f <= c * e
      PROVE  a * f <= c * d
  <2>1. \A x, y, z \in Nat : x <= y => x * z <= y * z
    OBVIOUS
  <2>2. a * e \in Nat /\ b * d \in Nat /\ b * f \in Nat /\ c * e \in Nat
        /\ a * f \in Nat /\ c * d \in Nat
    OBVIOUS
  <2>3. (a * e) * f <= (b * d) * f
    BY <1>2, <2>1, <2>2
  <2>4. (b * f) * d <= (c * e) * d
    BY <1>2, <2>1, <2>2
  <2>5. (a * e) * f = (a * f) * e /\ (b * d) * f = (b * f) * d /\ (c * e) * d = (c * d) * e
    OBVIOUS
  <2>6. (a * f) * e <= (c * d) * e
    <3>1. \A x, y, z \in Nat : x * z \in Nat /\ y * z \in Nat
      OBVIOUS
    <3>2. (a * e) * f \in Nat /\ (b * d) * f \in Nat /\ (c * e) * d \in Nat
      BY <2>2, <3>1
    <3> QED BY <2>3, <2>4, <2>5, <3>2
  <2>7. \A x, y \in Nat : \A z \in Nat \ {0} : x * z <= y * z => x <= y
    <3> SUFFICES ASSUME NEW x \in Nat, NEW y \in Nat, NEW z \in Nat \ {0}, x >= y + 1
                 PROVE  ~(x * z <= y * z)
      OBVIOUS
    <3>1. (y + 1) * z <= x * z
      BY <2>1
    <3>2. (y + 1) * z = y * z + z
      OBVIOUS
    <3>3. x * z \in Nat /\ y * z \in Nat
      OBVIOUS
    <3> QED BY <3>1, <3>2, <3>3
  <2> QED BY <2>2, <2>6, <2>7
<1>3. ASSUME NEW x \in X, NEW y \in X, <<x, y>> \in above PROVE <<y, x>> \notin above
  <2>1. score[x].num * score[y].den \in Nat /\ score[y].num * score[x].den \in Nat
    BY <1>1
  <2> QED BY <1>3, <2>1
<1>4. ASSUME NEW x \in X, NEW y \in X, NEW z \in X, <<x, y>> \notin above, <<y, z>> \notin above
      PROVE  <<x, z>> \notin above
  <2> DEFINE a == score[x].num
             d == score[x].den
             b == score[y].num
             e == score[y].den
             c == score[z].num
             f == score[z].den
  <2>1. /\ a \in Nat /\ b \in Nat /\ c \in Nat
        /\ d \in Nat \ {0} /\ e \in Nat \ {0} /\ f \in Nat \ {0}
    OBVIOUS
  <2>2. ~(a * e > b * d) /\ ~(b * f > c * e) /\ (<<x, z>> \in above <=> a * f > c * d)
    BY <1>4
  <2> HIDE DEF a, b, c, d, e, f
  <2>3. /\ a * e \in Nat /\ b * d \in Nat /\ b * f \in Nat /\ c * e \in Nat
        /\ a * f \in Nat /\ c * d \in Nat
    BY <1>1, <2>1
  <2>4. a * e <= b * d /\ b * f <= c * e
    BY <2>2, <2>3
  <2>5. a * f <= c * d
    BY <1>2, <2>1, <2>4
  <2> QED BY <2>2, <2>3, <2>5
<1> QED BY <1>3, <1>4 DEF WeakOrder

LEMMA RankNumbers ==
  ASSUME NEW S, NEW s, Lists(s, S), NEW x \in Range(s)
  PROVE  RankIn(s, x) \in Nat \ {0}
<1>1. DOMAIN s = 1..Len(s) /\ Len(s) \in Nat
  BY ListedSet
<1>2. \E i \in DOMAIN s : s[i] = x
  BY DEF Range
<1>3. RankIn(s, x) \in DOMAIN s
  BY <1>2 DEF RankIn
<1> QED BY <1>1, <1>3

LEMMA FusedLists ==
  ASSUME NEW S, NEW dense, Lists(dense, S), NEW lexical, Lists(lexical, S)
  PROVE  /\ Lists(Fused(dense, lexical), S) /\ Range(Fused(dense, lexical)) = Range(dense)
         /\ Len(Fused(dense, lexical)) = Len(dense)
<1> DEFINE score == [x \in Range(dense) |-> FusionScore(dense, lexical, x)]
           above == {w \in Pairs(dense) :
                       score[w[1]].num * score[w[2]].den > score[w[2]].num * score[w[1]].den}
<1>1. Fused(dense, lexical) = Sorted(dense, above)
  BY DEF Fused
<1>2. \A x, y \in Range(dense) : <<x, y>> \in above
         <=> score[x].num * score[y].den > score[y].num * score[x].den
  BY DEF Pairs
<1> HIDE DEF above
<1>3. ASSUME NEW x \in Range(dense)
      PROVE  score[x].num \in Nat /\ score[x].den \in Nat \ {0}
  <2> DEFINE a == RrfK + RankIn(dense, x)
  <2>1. a \in Nat \ {0}
    BY RankNumbers, RetrievalAssumption
  <2> HIDE DEF a
  <2>2. CASE x \in Range(lexical)
    <3> DEFINE b == RrfK + RankIn(lexical, x)
    <3>1. b \in Nat \ {0}
      BY <2>2, RankNumbers, RetrievalAssumption
    <3>2. score[x] = [num |-> a + b, den |-> a * b]
      BY <2>2 DEF FusionScore, a
    <3> HIDE DEF b, score
    <3>3. \A p, q \in Nat \ {0} : p + q \in Nat /\ p * q \in Nat /\ p * q # 0
      OBVIOUS
    <3>4. a + b \in Nat /\ a * b \in Nat /\ a * b # 0
      BY <2>1, <3>1, <3>3
    <3> QED BY <3>2, <3>4
  <2>3. CASE x \notin Range(lexical)
    <3>1. score[x] = [num |-> 1, den |-> a]
      BY <2>3 DEF FusionScore, a
    <3> HIDE DEF score
    <3> QED BY <2>1, <3>1
  <2> QED BY <2>2, <2>3
<1> HIDE DEF score
<1>4. WeakOrder(above, Range(dense))
  BY <1>2, <1>3, FractionOrder
<1> QED BY <1>1, <1>4, SortedLists

LEMMA MostBounds ==
  ASSUME NEW a \in Nat, NEW b \in Nat
  PROVE  Most(a, b) \in Nat /\ a <= Most(a, b) /\ b <= Most(a, b)
  BY DEF Most

LEMMA RetrievedLists ==
  ASSUME NEW S, NEW s, Lists(s, S), NEW fit, NEW k \in Nat,
         \A x \in Range(s) : x.last \in Int /\ fit[x] \in Int
  PROVE  /\ Lists(Retrieved(s, NoFilters, fit, k), S)
         /\ Range(Retrieved(s, NoFilters, fit, k)) \subseteq Range(s)
         /\ Len(s) <= k => Range(Retrieved(s, NoFilters, fit, k)) = Range(s)
<1> DEFINE passing == {i \in DOMAIN s : Matches(s[i], NoFilters)}
           candidates == Picked(s, passing)
           dense == Dense(candidates)
           best == BestFirst(dense, fit)
           lexical == Lexical(dense, fit, k)
           fused == Fused(dense, lexical)
           first == Cut(fused, Most(AfterRrf, k))
<1>1. passing = DOMAIN s
  BY DEF Matches, NoFilters
<1>2. Len(s) \in Nat /\ DOMAIN s = 1..Len(s)
  BY ListedSet
<1>3. Lists(candidates, S) /\ Range(candidates) = Range(s) /\ Len(candidates) = Len(s)
  <2>1. /\ Lists(candidates, S) /\ Range(candidates) = {s[i] : i \in passing}
        /\ Len(candidates) = Cardinality(passing)
    BY PickedLists
  <2>2. Cardinality(passing) = Len(s)
    BY <1>1, <1>2, CountTo
  <2>3. {s[i] : i \in passing} = Range(s)
    BY <1>1 DEF Range
  <2> QED BY <2>1, <2>2, <2>3
<1> HIDE DEF candidates
<1>4. Lists(dense, S) /\ Range(dense) = Range(s) /\ Len(dense) = Len(s)
  <2> DEFINE age == [x \in Range(candidates) |-> x.last]
  <2>1. \A x \in Range(candidates) : age[x] \in Int
    BY <1>3
  <2>2. dense = BestFirst(candidates, age)
    BY DEF Dense
  <2> HIDE DEF age, dense
  <2> QED BY <1>3, <2>1, <2>2, BestFirstLists
<1> HIDE DEF dense
<1>5. Lists(best, S)
  BY <1>4, BestFirstLists
<1>6. Most(AfterDense, k) \in Nat /\ Most(AfterRrf, k) \in Nat /\ k <= Most(AfterRrf, k)
  BY MostBounds, RetrievalAssumption
<1>7. Lists(lexical, S)
  <2>1. lexical = Cut(best, Most(AfterDense, k))
    BY DEF Lexical
  <2> HIDE DEF best, lexical
  <2> QED BY <1>5, <1>6, <2>1, CutLists
<1> HIDE DEF lexical, best
<1>8. Lists(fused, S) /\ Range(fused) = Range(s) /\ Len(fused) = Len(s)
  BY <1>4, <1>7, FusedLists
<1> HIDE DEF fused
<1>9. /\ Lists(first, S) /\ Range(first) \subseteq Range(s) /\ Len(first) \in Nat
      /\ Len(s) <= k => Range(first) = Range(s) /\ Len(first) <= k
  BY <1>2, <1>6, <1>8, CutLists
<1> HIDE DEF first
<1>10. /\ Lists(Cut(first, k), S) /\ Range(Cut(first, k)) \subseteq Range(s)
       /\ Len(s) <= k => Range(Cut(first, k)) = Range(s)
  BY <1>9, CutLists
<1>11. Retrieved(s, NoFilters, fit, k) = Cut(first, k)
  BY DEF Retrieved, first, fused, lexical, dense, candidates
<1> QED BY <1>10, <1>11

(***************************************************************************)
(* What is retrieved from a store whose two lists agree.                    *)
(***************************************************************************)
LEMMA AgreeingNumbers ==
  ASSUME NEW a, NEW b
  PROVE  Agreeing(a, b) \in Nat
<1>1. IsFiniteSet({"level"}) /\ IsFiniteSet({"level"} \cup {"bucket"})
  BY FS_Singleton, FS_AddElement
<1>2. {"level", "bucket"} = {"level"} \cup {"bucket"}
  OBVIOUS
<1>3. {f \in {"level", "bucket"} : a[f] = b[f]} \subseteq {"level"} \cup {"bucket"}
  OBVIOUS
<1>4. IsFiniteSet({f \in {"level", "bucket"} : a[f] = b[f]})
  BY <1>1, <1>3, FS_Subset
<1> QED BY <1>4, FS_CardinalityType DEF Agreeing

LEMMA ScoresAreNumbers ==
  ASSUME NEW kind, NEW cond, NEW e
  PROVE  TextFit(kind, cond, e) \in Nat /\ Combined(kind, cond, e) \in Nat
<1>1. TaskWeight \in Nat /\ StateWeight \in Nat
  BY MemoryAssumption
<1>2. TaskFit(kind, e) \in Nat
  BY <1>1 DEF TaskFit
<1> DEFINE n == Agreeing(cond, e.condition)
<1>3. n \in Nat
  BY AgreeingNumbers
<1> HIDE DEF n
<1>4. StateWeight * n \in Nat
  BY <1>1, <1>3
<1>5. TextFit(kind, cond, e) \in Nat
  BY <1>2, <1>3 DEF TextFit, n
<1>6. Combined(kind, cond, e) = TaskFit(kind, e) + (IF cond = None THEN 0 ELSE StateWeight * n)
  BY DEF Combined, n
<1>7. Combined(kind, cond, e) \in Nat
  BY <1>2, <1>4, <1>6
<1> QED BY <1>5, <1>7

LEMMA PoolSizeIsANumber == PoolSize \in Nat /\ TopK \in Nat \ {0}
<1>1. TopK \in Nat \ {0} /\ PoolFactor \in Nat /\ MinPool \in Nat
  BY MemoryAssumption
<1>2. \A a, b \in Nat : a * b \in Nat
  OBVIOUS
<1>3. TopK * PoolFactor \in Nat
  BY <1>1, <1>2
<1> HIDE DEF PoolSize
<1>4. PoolSize = Most(TopK * PoolFactor, MinPool)
  BY DEF PoolSize
<1> QED BY <1>1, <1>3, <1>4, MostBounds

\* The successes of the store; those that fit.
Examples == {e \in Range(entries) : IsExample(e)}
Fitting(kind, cond) == {e \in Examples : Combined(kind, cond, e) >= FloorFor(cond)}

LEMMA PooledLists ==
  ASSUME NEW S, entries \in Seq(S),
         index = [i \in DOMAIN entries |-> entries[i].id], IsInjective(index),
         \A e \in Range(entries) : e.last \in Int,
         NEW kind, NEW cond
  PROVE  /\ Lists(Pooled(kind, cond), S) /\ Range(Pooled(kind, cond)) \subseteq Examples
         /\ Len(entries) <= PoolSize => Range(Pooled(kind, cond)) = Examples
<1> DEFINE at(id) == CHOOSE e \in Range(entries) : e.id = id
           searched == [i \in DOMAIN index |-> at(index[i])]
           fit == [e \in Range(searched) |-> TextFit(kind, cond, e)]
           pool == Retrieved(searched, NoFilters, fit, PoolSize)
           kept == {i \in DOMAIN pool : IsExample(pool[i])}
<1>1. DOMAIN entries = 1..Len(entries) /\ Len(entries) \in Nat
      /\ entries = [i \in 1..Len(entries) |-> entries[i]]
  OBVIOUS
<1>2. \A i, j \in DOMAIN entries : entries[i].id = entries[j].id => i = j
  BY DEF IsInjective
<1>3. ASSUME NEW i \in DOMAIN entries PROVE at(index[i]) = entries[i]
  <2>1. entries[i] \in Range(entries) /\ index[i] = entries[i].id
    BY <1>3 DEF Range
  <2>2. at(index[i]) \in Range(entries) /\ at(index[i]).id = entries[i].id
    BY <2>1
  <2> HIDE DEF at
  <2>3. PICK j \in DOMAIN entries : at(index[i]) = entries[j]
    BY <2>2 DEF Range
  <2> QED BY <1>2, <2>2, <2>3
<1>4. searched = entries
  <2>1. DOMAIN index = DOMAIN entries
    OBVIOUS
  <2>2. searched = [i \in DOMAIN entries |-> entries[i]]
    BY <1>3, <2>1
  <2> HIDE DEF searched
  <2> QED BY <1>1, <2>2
<1> HIDE DEF searched
<1>5. Lists(searched, S)
  BY <1>2, <1>4 DEF Lists, IsInjective
<1>6. \A x \in Range(searched) : x.last \in Int /\ fit[x] \in Int
  BY <1>4, ScoresAreNumbers
<1> HIDE DEF fit
<1>7. PoolSize \in Nat
  BY PoolSizeIsANumber
<1>8. /\ Lists(pool, S) /\ Range(pool) \subseteq Range(entries)
      /\ Len(entries) <= PoolSize => Range(pool) = Range(entries)
  BY <1>4, <1>5, <1>6, <1>7, RetrievedLists
<1>9. Pooled(kind, cond) = Picked(pool, kept)
  BY DEF Pooled, searched, fit
<1> HIDE DEF pool
<1>10. Lists(Picked(pool, kept), S) /\ Range(Picked(pool, kept)) = {pool[i] : i \in kept}
  BY <1>8, PickedLists
<1>11. {pool[i] : i \in kept} = {e \in Range(pool) : IsExample(e)}
  BY DEF Range
<1> QED BY <1>8, <1>9, <1>10, <1>11 DEF Examples

LEMMA KeptIsSound ==
  ASSUME NEW S, entries \in Seq(S),
         index = [i \in DOMAIN entries |-> entries[i].id], IsInjective(index),
         \A e \in Range(entries) : e.last \in Int,
         NEW kind, NEW cond, NEW out, out = Kept(kind, cond)
  PROVE  /\ Lists(out, S) /\ Range(out) \subseteq Fitting(kind, cond)
         /\ Len(out) <= TopK
         /\ \A i, j \in DOMAIN out :
              i < j => Combined(kind, cond, out[i]) >= Combined(kind, cond, out[j])
         /\ Len(entries) <= PoolSize =>
              Len(out) = IF Cardinality(Fitting(kind, cond)) < TopK
                         THEN Cardinality(Fitting(kind, cond)) ELSE TopK
<1> DEFINE pool == Pooled(kind, cond)
           score == [e \in Range(pool) |-> Combined(kind, cond, e)]
           ranked == BestFirst(pool, score)
           fit == {i \in DOMAIN ranked : score[ranked[i]] >= FloorFor(cond)}
           best == Picked(ranked, fit)
           C(e) == Combined(kind, cond, e)
<1>1. /\ Lists(pool, S) /\ Range(pool) \subseteq Examples
      /\ Len(entries) <= PoolSize => Range(pool) = Examples
  BY PooledLists
<1>2. out = Cut(best, TopK)
  BY DEF Kept
<1> HIDE DEF pool
<1>3. \A e \in Range(pool) : score[e] = C(e) /\ C(e) \in Nat
  BY ScoresAreNumbers
<1> HIDE DEF score, C
<1>4. /\ Lists(ranked, S) /\ Range(ranked) = Range(pool)
      /\ \A k, l \in DOMAIN ranked : k < l => score[ranked[k]] >= score[ranked[l]]
  <2>1. \A e \in Range(pool) : score[e] \in Int
    BY <1>3
  <2> QED BY <1>1, <2>1, BestFirstLists
<1> HIDE DEF ranked
<1>5. \A i \in DOMAIN ranked : ranked[i] \in Range(pool) /\ score[ranked[i]] = C(ranked[i])
  BY <1>3, <1>4 DEF Range
<1>6. /\ Lists(best, S) /\ Range(best) = {ranked[i] : i \in fit}
      /\ \A k, l \in DOMAIN best : k < l =>
           \E i, j \in fit : i < j /\ best[k] = ranked[i] /\ best[l] = ranked[j]
  <2>1. fit \in SUBSET (DOMAIN ranked)
    OBVIOUS
  <2> HIDE DEF fit
  <2> QED BY <1>4, <2>1, PickedLists
<1>7. Range(best) = {e \in Range(pool) : C(e) >= FloorFor(cond)}
  <2>1. \A e \in Range(pool) : \E i \in DOMAIN ranked : e = ranked[i]
    BY <1>4 DEF Range
  <2>2. {ranked[i] : i \in fit} = {e \in Range(pool) : C(e) >= FloorFor(cond)}
    BY <1>5, <2>1
  <2> QED BY <1>6, <2>2
<1>8. \A k, l \in DOMAIN best : k < l => C(best[k]) >= C(best[l])
  <2> SUFFICES ASSUME NEW k \in DOMAIN best, NEW l \in DOMAIN best, k < l
               PROVE  C(best[k]) >= C(best[l])
    OBVIOUS
  <2>1. PICK i \in fit, j \in fit : i < j /\ best[k] = ranked[i] /\ best[l] = ranked[j]
    BY <1>6
  <2>2. score[ranked[i]] >= score[ranked[j]]
    BY <1>4, <2>1
  <2> QED BY <1>5, <2>1, <2>2
<1> HIDE DEF best
<1>9. TopK \in Nat \ {0}
  BY PoolSizeIsANumber
<1>10. /\ Lists(out, S) /\ Range(out) \subseteq Range(best)
       /\ Len(out) = IF TopK < Len(best) THEN TopK ELSE Len(best)
       /\ \A i \in DOMAIN out : i \in DOMAIN best /\ out[i] = best[i]
  BY <1>2, <1>6, <1>9, CutLists
<1>11. Len(best) \in Nat /\ Cardinality(Range(best)) = Len(best)
  BY <1>6, ListedSet
<1>12. Fitting(kind, cond) = {e \in Examples : C(e) >= FloorFor(cond)}
  BY DEF Fitting, C
<1>13. Range(out) \subseteq Fitting(kind, cond)
  BY <1>1, <1>7, <1>10, <1>12
<1>14. Len(entries) <= PoolSize => Range(best) = Fitting(kind, cond)
  BY <1>1, <1>7, <1>12
<1>15. \A i, j \in DOMAIN out : i < j => C(out[i]) >= C(out[j])
  BY <1>8, <1>10
<1>16. Len(entries) <= PoolSize =>
         Len(out) = IF Cardinality(Fitting(kind, cond)) < TopK
                    THEN Cardinality(Fitting(kind, cond)) ELSE TopK
  BY <1>9, <1>10, <1>11, <1>14
<1>17. Len(out) <= TopK
  BY <1>9, <1>10, <1>11
<1> QED BY <1>10, <1>13, <1>15, <1>16, <1>17 DEF C

(***************************************************************************)
(* The invariant.  ArrivalInv: what was read for the arrival in hand is what *)
(* it found, also where _accumulating keeps it.  StoreInv: no entry is of    *)
(* the arrival in hand, so nothing it does later can contradict one.         *)
(***************************************************************************)
Conditions == [level : {WarmLevel, EvalLevel}, bucket : {"tight", "free"}]
Tags == [label : {{"success"}, {"failure"}}, slice_type : SUBSET Kinds]
Episodes == [id : Nat, kind : Kinds, condition : Conditions, last : Nat, count : Nat,
             tags : Tags]

ArrivalInv ==
  /\ phase \in {"warm", "eval"}
  /\ arrival \in 0..Len(Stream) /\ held \in SUBSET (1..arrival)
  /\ seen \in Seq(Conditions) /\ Len(seen) = arrival
  /\ \A p \in pending : p.id \in 1..arrival /\ p.condition = seen[p.id]
  /\ pc # "idle" =>
       arrival >= 1 /\ condition = seen[arrival] /\ (arrival \in held <=> pc = "kept")

StoreInv ==
  /\ entries \in Seq(Episodes) /\ clock \in Nat /\ StoreAgrees /\ EpisodesTrue
  /\ \A e \in Range(entries) : e.id \in 1..arrival /\ (pc # "idle" => e.id # arrival)

AnswerInv ==
  /\ \A e \in Range(answer.from) : e.id # arrival
  /\ ExemplarsSound

MemoryInv == ArrivalInv /\ StoreInv /\ AnswerInv

\* An answer that shows the right exemplars, h being the arrivals that stayed on.
AnswerFit(a, h) ==
  {e \in Range(a.from) : e.id \in h
     /\ Combined(a.kind, a.condition, e) >= FloorFor(a.condition)}
AnswerSound(a, h) ==
  /\ Range(a.out) \subseteq AnswerFit(a, h)
  /\ Len(a.out) <= TopK
  /\ \A i, j \in DOMAIN a.out : i < j =>
       Combined(a.kind, a.condition, a.out[i]) >= Combined(a.kind, a.condition, a.out[j])
  /\ Len(a.from) <= PoolSize =>
       Len(a.out) = IF Cardinality(AnswerFit(a, h)) < TopK
                    THEN Cardinality(AnswerFit(a, h)) ELSE TopK

LEMMA SoundAnswer == (ExemplarsSound <=> AnswerSound(answer, held))
                     /\ (ExemplarsSound' <=> AnswerSound(answer', held'))
<1>1. ExemplarsSound <=> AnswerSound(answer, held)
  BY DEF ExemplarsSound, AnswerSound, AnswerFit, PoolSize, FloorFor
<1>2. ExemplarsSound' <=> AnswerSound(answer', held')
  BY DEF ExemplarsSound, AnswerSound, AnswerFit, PoolSize, FloorFor
<1> QED BY <1>1, <1>2

\* What an arrival does after it was answered says nothing about that answer.
LEMMA AnswerStands ==
  ASSUME NEW a, NEW h, NEW g, AnswerSound(a, h),
         \A e \in Range(a.from) : e.id \in h <=> e.id \in g
  PROVE  AnswerSound(a, g)
<1>1. AnswerFit(a, h) = AnswerFit(a, g)
  BY DEF AnswerFit
<1> QED BY <1>1 DEF AnswerSound

LEMMA NoAnswerSound == ASSUME NEW h PROVE AnswerSound(NoAnswer, h) /\ Range(NoAnswer.from) = {}
<1>1. NoAnswer.from = <<>> /\ NoAnswer.out = <<>> /\ DOMAIN <<>> = {} /\ Len(<<>>) = 0
  BY DEF NoAnswer
<1>2. Range(<<>>) = {}
  BY <1>1 DEF Range
<1>3. AnswerFit(NoAnswer, h) = {}
  BY <1>1, <1>2 DEF AnswerFit
<1>4. Cardinality({}) = 0 /\ TopK \in Nat \ {0}
  BY FS_EmptySet, PoolSizeIsANumber
<1> QED BY <1>1, <1>2, <1>3, <1>4 DEF AnswerSound

LEMMA InitHolds == Init => MemoryInv
<1> SUFFICES ASSUME Init PROVE MemoryInv
  OBVIOUS
<1>1. /\ phase = "warm" /\ pc = "idle" /\ arrival = 0 /\ pending = {} /\ entries = <<>>
      /\ index = <<>> /\ clock = 0 /\ answer = NoAnswer /\ seen = <<>> /\ held = {}
  BY DEF Init
<1>2. Len(Stream) \in Nat /\ Capacity \in Nat
  BY MemoryAssumption
<1>3. ArrivalInv
  BY <1>1, <1>2 DEF ArrivalInv
<1>4. Range(entries) = {} /\ DOMAIN entries = {} /\ DOMAIN index = {} /\ Len(entries) = 0
  BY <1>1 DEF Range
<1>5. StoreInv
  <2>1. index = [i \in DOMAIN entries |-> entries[i].id]
    BY <1>1, <1>4
  <2>2. IsInjective(index)
    BY <1>4 DEF IsInjective
  <2> QED BY <1>1, <1>2, <1>4, <2>1, <2>2 DEF StoreInv, StoreAgrees, EpisodesTrue
<1>6. AnswerInv
  BY <1>1, NoAnswerSound, SoundAnswer DEF AnswerInv
<1> QED BY <1>3, <1>5, <1>6 DEF MemoryInv

(***************************************************************************)
(* Reading and writing the store.                                           *)
(***************************************************************************)
\* An entry that is looked up keeps its id, its condition and its tags.
LEMMA TouchedKeeps ==
  ASSUME NEW list, list \in Seq(Episodes), NEW out, out \in Seq(Episodes), clock \in Nat
  PROVE  /\ Touched(list, out) \in Seq(Episodes) /\ Len(Touched(list, out)) = Len(list)
         /\ DOMAIN Touched(list, out) = DOMAIN list
         /\ \A i \in DOMAIN list : /\ Touched(list, out)[i].id = list[i].id
                                   /\ Touched(list, out)[i].condition = list[i].condition
                                   /\ Touched(list, out)[i].tags = list[i].tags
<1> DEFINE hit(i) == CHOOSE k \in DOMAIN out : out[k].id = list[i].id
           new(i) == IF \E k \in DOMAIN out : out[k].id = list[i].id
                     THEN [list[i] EXCEPT !.last = clock + hit(i) - 1, !.count = @ + 1]
                     ELSE list[i]
<1>1. DOMAIN list = 1..Len(list) /\ Len(list) \in Nat /\ \A i \in DOMAIN list : list[i] \in Episodes
  OBVIOUS
<1>2. Touched(list, out) = [i \in DOMAIN list |-> new(i)]
  BY DEF Touched
<1>3. ASSUME NEW i \in DOMAIN list
      PROVE  /\ new(i) \in Episodes /\ new(i).id = list[i].id
             /\ new(i).condition = list[i].condition /\ new(i).tags = list[i].tags
  <2>1. CASE \E k \in DOMAIN out : out[k].id = list[i].id
    <3>1. hit(i) \in DOMAIN out
      BY <2>1
    <3> HIDE DEF hit
    <3> DEFINE l == clock + hit(i) - 1
               e == list[i]
    <3>2. l \in Nat
      BY <3>1
    <3>3. new(i) = [e EXCEPT !.last = l, !.count = @ + 1]
      BY <2>1
    <3> HIDE DEF new, l
    <3>4. e \in Episodes
      BY <1>1
    <3> HIDE DEF e
    <3>5. e = [id |-> e.id, kind |-> e.kind, condition |-> e.condition, last |-> e.last,
               count |-> e.count, tags |-> e.tags]
      BY <3>4 DEF Episodes
    <3>6. new(i) = [id |-> e.id, kind |-> e.kind, condition |-> e.condition, last |-> l,
                    count |-> e.count + 1, tags |-> e.tags]
      BY <3>3, <3>5
    <3>7. new(i) \in Episodes
      <4>1. /\ e.id \in Nat /\ e.kind \in Kinds /\ e.condition \in Conditions
            /\ e.count \in Nat /\ e.tags \in Tags
        BY <3>4 DEF Episodes
      <4>2. e.count + 1 \in Nat
        BY <4>1
      <4> QED BY <3>2, <3>6, <4>1, <4>2 DEF Episodes
    <3>8. new(i).id = e.id /\ new(i).condition = e.condition /\ new(i).tags = e.tags
      BY <3>6
    <3> QED BY <3>7, <3>8 DEF e
  <2>2. CASE ~(\E k \in DOMAIN out : out[k].id = list[i].id)
    BY <1>1, <2>2
  <2> QED BY <2>1, <2>2
<1> HIDE DEF new
<1>4. Touched(list, out) \in [1..Len(list) -> Episodes]
  BY <1>1, <1>2, <1>3
<1>5. Touched(list, out) \in Seq(Episodes) /\ Len(Touched(list, out)) = Len(list)
  BY <1>1, <1>4
<1> QED BY <1>2, <1>3, <1>5

LEMMA ConsultKeeps ==
  ASSUME MemoryInv, pc = "plan", Consult, UNCHANGED <<arrival, seen, held>>
  PROVE  StoreInv' /\ AnswerInv'
<1> DEFINE cond == IF phase = "warm" THEN None ELSE condition
           out == Kept(Kind, cond)
<1>1. /\ answer' = [kind |-> Kind, condition |-> cond, from |-> entries, out |-> out]
      /\ entries' = Touched(entries, out) /\ clock' = clock + Len(out) /\ index' = index
  BY DEF Consult, Retrieve
<1>2. /\ entries \in Seq(Episodes) /\ clock \in Nat /\ EpisodesTrue
      /\ index = [i \in DOMAIN entries |-> entries[i].id] /\ IsInjective(index)
      /\ Len(entries) <= Capacity
      /\ \A e \in Range(entries) : e.id \in 1..arrival /\ e.id # arrival
  BY DEF MemoryInv, StoreInv, StoreAgrees
<1>3. \A e \in Range(entries) : e.last \in Int
  <2> SUFFICES ASSUME NEW i \in DOMAIN entries PROVE entries[i].last \in Int
    BY DEF Range
  <2>1. entries[i] \in Episodes
    BY <1>2
  <2> QED BY <2>1 DEF Episodes
<1> HIDE DEF cond
<1>4. /\ Lists(out, Episodes) /\ Range(out) \subseteq Fitting(Kind, cond) /\ Len(out) <= TopK
      /\ \A i, j \in DOMAIN out :
           i < j => Combined(Kind, cond, out[i]) >= Combined(Kind, cond, out[j])
      /\ Len(entries) <= PoolSize =>
           Len(out) = IF Cardinality(Fitting(Kind, cond)) < TopK
                      THEN Cardinality(Fitting(Kind, cond)) ELSE TopK
  BY <1>2, <1>3, KeptIsSound
<1> HIDE DEF out
<1>5. out \in Seq(Episodes) /\ Len(out) \in Nat
  BY <1>4 DEF Lists
<1>6. /\ entries' \in Seq(Episodes) /\ Len(entries') = Len(entries)
      /\ DOMAIN entries' = DOMAIN entries
      /\ \A i \in DOMAIN entries : /\ entries'[i].id = entries[i].id
                                   /\ entries'[i].condition = entries[i].condition
                                   /\ entries'[i].tags = entries[i].tags
  BY <1>1, <1>2, <1>5, TouchedKeeps
<1>7. StoreAgrees'
  <2>1. index' = [i \in DOMAIN entries' |-> entries'[i].id]
    BY <1>1, <1>2, <1>6
  <2> QED BY <1>1, <1>2, <1>6, <2>1 DEF StoreAgrees
<1>8. ASSUME NEW e \in Range(entries')
      PROVE  \E d \in Range(entries) : e.id = d.id /\ e.condition = d.condition /\ e.tags = d.tags
  <2> PICK i \in DOMAIN entries : e = entries'[i]
    BY <1>6 DEF Range
  <2> QED BY <1>6 DEF Range
<1>9. EpisodesTrue' /\ \A e \in Range(entries') : e.id \in 1..arrival /\ e.id # arrival
  <2> SUFFICES ASSUME NEW e \in Range(entries')
               PROVE  /\ e.condition = seen[e.id] /\ (IsExample(e) <=> e.id \in held)
                      /\ e.id \in 1..arrival /\ e.id # arrival
    BY DEF EpisodesTrue
  <2> PICK d \in Range(entries) : e.id = d.id /\ e.condition = d.condition /\ e.tags = d.tags
    BY <1>8
  <2>1. d.condition = seen[d.id] /\ (IsExample(d) <=> d.id \in held)
    BY <1>2 DEF EpisodesTrue
  <2> QED BY <1>2, <2>1 DEF IsExample
<1>10. clock' \in Nat
  BY <1>1, <1>2, <1>5
<1>11. StoreInv'
  BY <1>6, <1>7, <1>9, <1>10 DEF StoreInv
<1>12. AnswerFit(answer', held') = Fitting(Kind, cond)
  <2>1. \A e \in Range(entries) : IsExample(e) <=> e.id \in held
    BY <1>2 DEF EpisodesTrue
  <2>2. AnswerFit(answer', held') = {e \in Range(entries) :
          e.id \in held /\ Combined(Kind, cond, e) >= FloorFor(cond)}
    BY <1>1 DEF AnswerFit
  <2> QED BY <2>1, <2>2 DEF Fitting, Examples
<1>13. AnswerSound(answer', held')
  <2>1. answer'.out = out /\ answer'.from = entries /\ answer'.kind = Kind /\ answer'.condition = cond
    BY <1>1
  <2> QED BY <1>4, <1>12, <2>1 DEF AnswerSound
<1>14. \A e \in Range(answer'.from) : e.id # arrival'
  BY <1>1, <1>2
<1>15. AnswerInv'
  BY <1>13, <1>14, SoundAnswer DEF AnswerInv
<1> QED BY <1>11, <1>15

\* An eviction takes the same entries from both lists, and at least one.
LEMMA EvictedAgree ==
  ASSUME NEW list, list \in Seq(Episodes), NEW ids, ids \in Seq(Nat),
         DOMAIN ids = DOMAIN list,
         \A i \in DOMAIN list : ids[i] = list[i].id,
         IsInjective(ids), NEW gone, gone \in SUBSET (DOMAIN list), gone # {},
         NEW goneIds, \A d : d \in goneIds <=> \E i \in gone : d = list[i].id
  PROVE  /\ Without(list, gone) \in Seq(Episodes)
         /\ Range(Without(list, gone)) \subseteq Range(list)
         /\ Indexed(ids, goneIds) = [k \in DOMAIN Without(list, gone) |-> Without(list, gone)[k].id]
         /\ IsInjective(Indexed(ids, goneIds))
         /\ Len(Without(list, gone)) <= Len(list) - 1
<1> DEFINE n == Len(list)
           stay == DOMAIN list \ gone
           m == Cardinality(stay)
           nth(k) == Nth(Ascending(stay), stay, k)
           left == Without(list, gone)
           leftIds == Indexed(ids, goneIds)
<1>1. n \in Nat /\ DOMAIN list = 1..n /\ DOMAIN ids = 1..n /\ stay \in SUBSET (1..n)
  OBVIOUS
<1>2. \A i, j \in 1..n : list[i].id = list[j].id => i = j
  BY <1>1 DEF IsInjective
<1>3. Lists(list, Episodes)
  BY <1>1, <1>2 DEF Lists, IsInjective
<1>4. {i \in DOMAIN ids : ids[i] \notin goneIds} = stay
  <2>1. \A i \in 1..n : ids[i] = list[i].id
    BY <1>1
  <2>2. \A i \in 1..n : ids[i] \in goneIds <=> i \in gone
    BY <1>1, <1>2, <2>1
  <2> QED BY <1>1, <2>2
<1> HIDE DEF stay, n
<1>5. left = Picked(list, stay) /\ leftIds = Picked(ids, stay)
  BY <1>4 DEF Without, Indexed, stay
<1> HIDE DEF left, leftIds
<1>6. left = [k \in 1..m |-> list[nth(k)]] /\ leftIds = [k \in 1..m |-> ids[nth(k)]]
  BY <1>5 DEF Picked, Ascending
<1>7. \A k \in 1..m : nth(k) \in stay
  BY <1>1, AscendingNumbers
<1>8. leftIds = [k \in DOMAIN left |-> left[k].id]
  <2> HIDE DEF nth
  <2>1. \A k \in 1..m : ids[nth(k)] = list[nth(k)].id
    BY <1>1, <1>7
  <2> HIDE DEF m
  <2>2. DOMAIN left = 1..m /\ \A k \in 1..m : left[k] = list[nth(k)]
    BY <1>6
  <2>3. leftIds = [k \in 1..m |-> left[k].id]
    BY <1>6, <2>1, <2>2
  <2> QED BY <2>2, <2>3
<1>9. Lists(left, Episodes) /\ Range(left) = {list[i] : i \in stay} /\ Len(left) = m
  <2>1. stay \in SUBSET (DOMAIN list)
    BY <1>1
  <2> QED BY <1>3, <1>5, <2>1, PickedLists
<1>10. Range(left) \subseteq Range(list)
  BY <1>1, <1>9 DEF Range
<1>11. m <= n - 1 /\ m \in Nat
  <2> PICK g \in gone : TRUE
    OBVIOUS
  <2> DEFINE S == 1..n
  <2>1. IsFiniteSet(S) /\ Cardinality(S) = n /\ g \in S /\ stay \subseteq S \ {g}
    BY <1>1, CountTo DEF stay
  <2> HIDE DEF S
  <2>2. IsFiniteSet(S \ {g}) /\ Cardinality(S \ {g}) = n - 1
    BY <2>1, FS_RemoveElement
  <2>3. IsFiniteSet(stay) /\ m <= n - 1
    BY <2>1, <2>2, FS_Subset
  <2> QED BY <2>3, FS_CardinalityType
<1>12. IsInjective(leftIds)
  <2>1. Lists(ids, Nat) /\ stay \in SUBSET (DOMAIN ids)
    BY <1>1 DEF Lists
  <2>3. Lists(leftIds, Nat)
    BY <1>5, <2>1, PickedLists
  <2> QED BY <2>3 DEF Lists
<1> QED BY <1>8, <1>9, <1>10, <1>11, <1>12 DEF Lists, n, left, leftIds

LEMMA VictimsExist ==
  ASSUME NEW list, list \in Seq(Episodes), Len(list) >= 1, NEW gone \in Victims(list)
  PROVE  gone \in SUBSET (DOMAIN list) /\ gone # {}
<1> DEFINE n == Most(1, Len(list) \div EvictShare)
<1>1. Len(list) \in Nat /\ DOMAIN list = 1..Len(list) /\ EvictShare \in Nat \ {0}
  BY MemoryAssumption
<1>2. Len(list) \div EvictShare \in Nat /\ Len(list) \div EvictShare <= Len(list)
  <2> SUFFICES ASSUME NEW a \in Nat, NEW b \in Nat \ {0}
               PROVE  a \div b \in Nat /\ a \div b <= a
    BY <1>1
  <2> DEFINE q == a \div b
  <2>1. q \in Int /\ b * q <= a /\ a < b * (q + 1)
    OBVIOUS
  <2> HIDE DEF q
  <2>2. \A x \in Int : x < 0 => b * (x + 1) <= 0
    OBVIOUS
  <2>3. q \in Nat
    BY <2>1, <2>2
  <2>4. \A x \in Nat : x <= b * x
    OBVIOUS
  <2> QED BY <2>1, <2>3, <2>4 DEF q
<1>3. n \in 1..Len(list)
  BY <1>1, <1>2 DEF Most
<1>4. CASE policy.evict = "fifo"
  <2>1. gone \in {1..n}
    BY <1>4 DEF Victims
  <2> QED BY <1>1, <1>3, <2>1
<1>5. CASE policy.evict # "fifo"
  <2>1. gone \in kSubset(n, DOMAIN list)
    BY <1>5 DEF Victims
  <2>2. gone \in SUBSET (DOMAIN list) /\ Cardinality(gone) = n
    BY <2>1 DEF kSubset
  <2>3. Cardinality({}) = 0
    BY FS_EmptySet
  <2> HIDE DEF n
  <2>4. n # 0
    BY <1>1, <1>3
  <2> QED BY <2>2, <2>3, <2>4
<1> QED BY <1>4, <1>5

LEMMA RecordKeeps ==
  ASSUME MemoryInv, pc # "idle", pc' = "idle", UNCHANGED <<arrival, seen, held>>,
         NEW ok \in BOOLEAN, NEW violated \in BOOLEAN, NEW cond, cond = seen[arrival],
         Record(ok, violated, cond), (ok /\ ~violated) <=> arrival \in held
  PROVE  StoreInv'
<1> DEFINE e == Entry(Label(ok, violated), cond)
           list == Append(entries, e)
           ids == Append(index, arrival)
           n == Len(entries)
<1>1. /\ entries \in Seq(Episodes) /\ clock \in Nat /\ EpisodesTrue
      /\ index = [i \in DOMAIN entries |-> entries[i].id] /\ IsInjective(index)
      /\ n <= Capacity
      /\ \A d \in Range(entries) : d.id \in 1..arrival /\ d.id # arrival
  BY DEF MemoryInv, StoreInv, StoreAgrees
<1>2. arrival \in 1..Len(Stream) /\ seen \in Seq(Conditions) /\ Len(seen) = arrival
  BY DEF MemoryInv, ArrivalInv
<1>3. Kind \in Kinds /\ Capacity \in Nat \ {0}
  <2>1. Stream \in Seq(Kinds) /\ Capacity \in Nat \ {0}
    BY MemoryAssumption
  <2> QED BY <1>2, <2>1 DEF Kind
<1>4. cond \in Conditions
  BY <1>2
<1>5. /\ e \in Episodes /\ e.id = arrival /\ e.condition = cond
      /\ (IsExample(e) <=> arrival \in held)
  <2> DEFINE l == Label(ok, violated)
             t == [label |-> {l}, slice_type |-> {Kind}]
  <2>1. l \in {"success", "failure"} /\ (l = "success" <=> arrival \in held)
    BY DEF Label
  <2>2. e = [id |-> arrival, kind |-> Kind, condition |-> cond, last |-> clock, count |-> 0,
             tags |-> t]
    BY DEF Entry
  <2> HIDE DEF l
  <2>3. t \in Tags /\ t.label = {l}
    BY <1>3, <2>1 DEF Tags
  <2> HIDE DEF e, t
  <2>4. e \in Episodes
    BY <1>1, <1>2, <1>3, <1>4, <2>2, <2>3 DEF Episodes
  <2>5. e.id = arrival /\ e.condition = cond /\ e.tags = t
    BY <2>2
  <2>6. IsExample(e) <=> "success" = l
    BY <2>3, <2>5 DEF IsExample
  <2> QED BY <2>1, <2>4, <2>5, <2>6
<1> HIDE DEF e
<1>6. /\ n \in Nat /\ DOMAIN entries = 1..n /\ list \in Seq(Episodes) /\ Len(list) = n + 1
      /\ DOMAIN list = 1..(n + 1) /\ list[n + 1] = e
      /\ \A i \in 1..n : list[i] = entries[i] /\ entries[i] \in Episodes
  BY <1>1, <1>5
<1> HIDE DEF list, n
<1>7. ids = [i \in DOMAIN list |-> list[i].id] /\ IsInjective(ids) /\ ids \in Seq(Nat)
  <2>1. index \in [1..n -> Nat]
    <3>1. \A i \in 1..n : entries[i].id \in Nat
      BY <1>1, <1>6 DEF Episodes
    <3> QED BY <1>1, <1>6, <3>1
  <2>2. index \in Seq(Nat) /\ Len(index) = n
    BY <1>6, <2>1
  <2>10. ids \in Seq(Nat) /\ Len(ids) = n + 1 /\ arrival \in Nat
    BY <1>2, <2>2
  <2>11. ids[n + 1] = arrival /\ \A i \in 1..n : ids[i] = index[i]
    BY <1>6, <2>2, <2>10
  <2>3. /\ DOMAIN ids = 1..(n + 1) /\ ids[n + 1] = arrival
        /\ \A i \in 1..n : ids[i] = index[i]
        /\ ids = [i \in 1..(n + 1) |-> ids[i]]
    <3> HIDE DEF ids
    <3> QED BY <2>10, <2>11
  <2> HIDE DEF ids
  <2>4. \A i \in 1..n : ids[i] = list[i].id
    BY <1>1, <1>6, <2>3
  <2>5. \A i \in 1..(n + 1) : ids[i] = list[i].id
    <3> SUFFICES ASSUME NEW i \in 1..(n + 1) PROVE ids[i] = list[i].id
      OBVIOUS
    <3>1. i \in 1..n \/ i = n + 1
      BY <1>6
    <3> QED BY <1>5, <1>6, <2>3, <2>4, <3>1
  <2>6. ids = [i \in DOMAIN list |-> list[i].id]
    BY <1>6, <2>3, <2>5
  <2>7. \A i \in 1..n : ids[i] # arrival
    BY <1>1, <1>6, <2>3 DEF Range
  <2>8. ASSUME NEW i \in 1..(n + 1), NEW j \in 1..(n + 1), ids[i] = ids[j] PROVE i = j
    <3>1. CASE i \in 1..n /\ j \in 1..n
      <4>1. index[i] = index[j] /\ i \in DOMAIN index /\ j \in DOMAIN index
        BY <2>1, <2>3, <2>8, <3>1
      <4> QED BY <1>1, <4>1 DEF IsInjective
    <3>2. CASE i \notin 1..n \/ j \notin 1..n
      <4>1. i = n + 1 \/ j = n + 1
        BY <1>6, <3>2
      <4>2. (i = n + 1 \/ i \in 1..n) /\ (j = n + 1 \/ j \in 1..n)
        BY <1>6
      <4> QED BY <2>3, <2>7, <2>8, <4>1, <4>2
    <3> QED BY <3>1, <3>2
  <2>9. IsInjective(ids)
    BY <2>3, <2>8 DEF IsInjective
  <2> QED BY <2>6, <2>9, <2>10
<1> HIDE DEF ids
<1>8. ASSUME NEW d \in Range(list) PROVE d \in Range(entries) \/ d = e
  <2> PICK i \in 1..(n + 1) : d = list[i]
    BY <1>6 DEF Range
  <2>1. i \in 1..n \/ i = n + 1
    BY <1>6
  <2> QED BY <1>6, <2>1 DEF Range
\* It is enough that the new lists are among the old ones and the new entry.
<1>9. SUFFICES /\ entries' \in Seq(Episodes) /\ Len(entries') <= Capacity /\ clock' \in Nat
               /\ index' = [i \in DOMAIN entries' |-> entries'[i].id] /\ IsInjective(index')
               /\ \A d \in Range(entries') : d \in Range(entries) \/ d = e
  <2>1. StoreAgrees'
    BY <1>9 DEF StoreAgrees
  <2>2. ASSUME NEW d \in Range(entries')
        PROVE  d.condition = seen[d.id] /\ (IsExample(d) <=> d.id \in held) /\ d.id \in 1..arrival
    <3>1. CASE d \in Range(entries)
      BY <1>1, <3>1 DEF EpisodesTrue
    <3>2. CASE d = e
      BY <1>2, <1>5, <3>2
    <3> QED BY <1>9, <2>2, <3>1, <3>2
  <2>3. EpisodesTrue'
    BY <2>2 DEF EpisodesTrue
  <2>4. \A d \in Range(entries') : d.id \in 1..arrival'
    BY <2>2
  <2> QED BY <1>9, <2>1, <2>3, <2>4 DEF StoreInv
<1>10. CASE UNCHANGED store
  <2>1. entries' = entries /\ index' = index /\ clock' = clock
    BY <1>10 DEF store
  <2> QED BY <1>1, <2>1 DEF n
<1>11. CASE ~(UNCHANGED store)
  <2>1. /\ clock' = clock + 1
        /\ IF Len(list) > Capacity THEN Evict(list, ids) ELSE entries' = list /\ index' = ids
    BY <1>11 DEF Record, list, ids, e
  <2>2. clock' \in Nat
    BY <1>1, <2>1
  <2>3. CASE Len(list) > Capacity
    <3>1. PICK gone \in Victims(list) : /\ entries' = Without(list, gone)
                                        /\ index' = Indexed(ids, {list[i].id : i \in gone})
      BY <2>1, <2>3 DEF Evict
    <3>2. gone \in SUBSET (DOMAIN list) /\ gone # {}
      BY <1>6, VictimsExist
    <3> DEFINE goneIds == {list[i].id : i \in gone}
    <3>5. index' = Indexed(ids, goneIds) /\ \A d : d \in goneIds <=> \E i \in gone : d = list[i].id
      BY <3>1
    <3> HIDE DEF goneIds
    <3>6. /\ list \in Seq(Episodes) /\ ids \in Seq(Nat) /\ IsInjective(ids) /\ DOMAIN ids = DOMAIN list
          /\ \A i \in DOMAIN list : ids[i] = list[i].id
      BY <1>6, <1>7
    <3>7. /\ Without(list, gone) \in Seq(Episodes)
          /\ Range(Without(list, gone)) \subseteq Range(list)
          /\ Indexed(ids, goneIds) = [k \in DOMAIN Without(list, gone) |-> Without(list, gone)[k].id]
          /\ IsInjective(Indexed(ids, goneIds))
          /\ Len(Without(list, gone)) <= Len(list) - 1
      BY <3>2, <3>5, <3>6, EvictedAgree
    <3>3. /\ entries' \in Seq(Episodes) /\ Range(entries') \subseteq Range(list)
          /\ index' = [k \in DOMAIN entries' |-> entries'[k].id] /\ IsInjective(index')
          /\ Len(entries') <= Len(list) - 1
      BY <3>1, <3>5, <3>7
    <3>4. Len(entries') <= Capacity
      BY <1>1, <1>3, <1>6, <3>3
    <3> QED BY <1>8, <2>2, <3>3, <3>4
  <2>4. CASE ~(Len(list) > Capacity)
    <3>1. entries' = list /\ index' = ids
      BY <2>1, <2>4
    <3>2. Len(list) <= Capacity
      BY <1>3, <1>6, <2>4
    <3> QED BY <1>6, <1>7, <1>8, <2>2, <3>1, <3>2
  <2> QED BY <2>3, <2>4
<1> QED BY <1>10, <1>11

(***************************************************************************)
(* The actions.                                                            *)
(***************************************************************************)
LEMMA ArriveKeeps == ASSUME MemoryInv, Arrive PROVE MemoryInv'
<1>1. /\ pc = "idle" /\ arrival < PhaseEnd /\ arrival' = arrival + 1 /\ pc' = "plan"
      /\ condition' = [level |-> Level, bucket |-> Bucket(active')]
      /\ seen' = Append(seen, condition') /\ answer' = NoAnswer
      /\ phase' = phase /\ pending' = pending /\ held' = held
      /\ entries' = entries /\ index' = index /\ clock' = clock
  BY DEF Arrive, store
<1>2. /\ phase \in {"warm", "eval"} /\ arrival \in 0..Len(Stream) /\ held \in SUBSET (1..arrival)
      /\ seen \in Seq(Conditions) /\ Len(seen) = arrival
      /\ \A p \in pending : p.id \in 1..arrival /\ p.condition = seen[p.id]
  BY DEF MemoryInv, ArrivalInv
<1>3. /\ entries \in Seq(Episodes) /\ clock \in Nat /\ StoreAgrees /\ EpisodesTrue
      /\ \A e \in Range(entries) : e.id \in 1..arrival
  BY DEF MemoryInv, StoreInv
<1>4. Len(Stream) \in Nat /\ WarmUpLength \in 0..Len(Stream)
  BY MemoryAssumption
<1>5. arrival' \in 1..Len(Stream) /\ arrival \in Nat
  BY <1>1, <1>2, <1>4 DEF PhaseEnd
<1>6. condition' \in Conditions
  <2>1. Level \in {WarmLevel, EvalLevel} /\ Bucket(active') \in {"tight", "free"}
    BY DEF Level, Bucket
  <2> QED BY <1>1, <2>1 DEF Conditions
<1>7. /\ seen' \in Seq(Conditions) /\ Len(seen') = arrival' /\ seen'[arrival'] = condition'
      /\ \A i \in 1..arrival : seen'[i] = seen[i]
  BY <1>1, <1>2, <1>6
<1>8. ArrivalInv'
  <2>1. held' \in SUBSET (1..arrival') /\ arrival' \notin held'
    BY <1>1, <1>2, <1>5
  <2>2. \A p \in pending' : p.id \in 1..arrival' /\ p.condition = seen'[p.id]
    BY <1>1, <1>2, <1>5, <1>7
  <2> QED BY <1>1, <1>2, <1>5, <1>7, <2>1, <2>2 DEF ArrivalInv
<1>9. StoreInv'
  <2>1. StoreAgrees'
    BY <1>1, <1>3 DEF StoreAgrees
  <2>2. \A e \in Range(entries') : e.id \in 1..arrival /\ e.id \in 1..arrival' /\ e.id # arrival'
    BY <1>1, <1>3, <1>5
  <2>3. EpisodesTrue'
    BY <1>1, <1>3, <1>7, <2>2 DEF EpisodesTrue
  <2> QED BY <1>1, <1>3, <2>1, <2>2, <2>3 DEF StoreInv
<1>10. AnswerInv'
  BY <1>1, NoAnswerSound, SoundAnswer DEF AnswerInv
<1> QED BY <1>8, <1>9, <1>10 DEF MemoryInv

\* Nothing but the arrival in hand is decided between its answer and its record.
LEMMA StoreStands ==
  ASSUME MemoryInv, UNCHANGED <<arrival, seen, answer, store>>, pc # "idle",
         held' \subseteq held \cup {arrival}, held \subseteq held'
  PROVE  StoreInv' /\ AnswerInv'
<1>1. /\ entries \in Seq(Episodes) /\ clock \in Nat /\ StoreAgrees /\ EpisodesTrue
      /\ \A e \in Range(entries) : e.id \in 1..arrival /\ e.id # arrival
  BY DEF MemoryInv, StoreInv
<1>2. entries' = entries /\ index' = index /\ clock' = clock /\ arrival' = arrival
      /\ seen' = seen /\ answer' = answer
  BY DEF store
<1>3. \A d : d # arrival => (d \in held <=> d \in held')
  OBVIOUS
<1>4. StoreAgrees'
  BY <1>1, <1>2 DEF StoreAgrees
<1>5. EpisodesTrue'
  BY <1>1, <1>2, <1>3 DEF EpisodesTrue
<1>6. (\A e \in Range(answer.from) : e.id # arrival) /\ ExemplarsSound
  BY DEF MemoryInv, AnswerInv
<1>7. AnswerSound(answer, held')
  BY <1>3, <1>6, SoundAnswer, AnswerStands
<1>8. AnswerInv'
  BY <1>2, <1>6, <1>7, SoundAnswer DEF AnswerInv
<1> QED BY <1>1, <1>2, <1>4, <1>5, <1>8 DEF StoreInv

LEMMA DecisionKeeps ==
  ASSUME MemoryInv, PlanFromCache \/ Commit \/ Refuse \/ Verify PROVE MemoryInv'
<1>1. /\ pc \in {"plan", "decide", "verify"} /\ phase' = phase /\ arrival' = arrival
      /\ condition' = condition /\ pending' = pending /\ seen' = seen /\ answer' = answer
      /\ UNCHANGED store
  BY DEF PlanFromCache, Commit, Refuse, Verify
<1>2. \/ pc' \in {"decide", "verify", "refused"} /\ held' = held
      \/ pc' = "kept" /\ held' = held \cup {arrival}
  BY DEF PlanFromCache, Commit, Refuse, Verify
<1>3. StoreInv' /\ AnswerInv'
  <2>1. held' \subseteq held \cup {arrival} /\ held \subseteq held' /\ pc # "idle"
    BY <1>1, <1>2
  <2> QED BY <1>1, <2>1, StoreStands
<1>4. /\ phase \in {"warm", "eval"} /\ arrival \in 0..Len(Stream) /\ held \in SUBSET (1..arrival)
      /\ seen \in Seq(Conditions) /\ Len(seen) = arrival
      /\ \A p \in pending : p.id \in 1..arrival /\ p.condition = seen[p.id]
      /\ arrival >= 1 /\ condition = seen[arrival] /\ arrival \notin held
  BY <1>1 DEF MemoryInv, ArrivalInv
<1>5. held' \in SUBSET (1..arrival) /\ (arrival \in held' <=> pc' = "kept")
  <2>1. arrival \in 1..arrival
    BY <1>4
  <2>2. CASE pc' \in {"decide", "verify", "refused"} /\ held' = held
    BY <1>4, <2>2
  <2>3. CASE pc' = "kept" /\ held' = held \cup {arrival}
    BY <1>4, <2>1, <2>3
  <2> QED BY <1>2, <2>2, <2>3
<1>6. ArrivalInv'
  BY <1>1, <1>4, <1>5 DEF ArrivalInv
<1> QED BY <1>3, <1>6 DEF MemoryInv

LEMMA PlanKeeps == ASSUME MemoryInv, PlanMade \/ PlanFails PROVE MemoryInv'
<1>1. /\ pc = "plan" /\ Consult /\ phase' = phase /\ arrival' = arrival
      /\ condition' = condition /\ seen' = seen /\ held' = held
      /\ pc' \in {"decide", "failed", "idle"}
      /\ \A p \in pending' : p \in pending \/ p = [id |-> arrival, condition |-> condition]
  BY DEF PlanMade, PlanFails
<1>2. StoreInv' /\ AnswerInv'
  BY <1>1, ConsultKeeps
<1>3. /\ phase \in {"warm", "eval"} /\ arrival \in 0..Len(Stream) /\ held \in SUBSET (1..arrival)
      /\ seen \in Seq(Conditions) /\ Len(seen) = arrival
      /\ \A p \in pending : p.id \in 1..arrival /\ p.condition = seen[p.id]
      /\ arrival >= 1 /\ condition = seen[arrival] /\ arrival \notin held
  BY <1>1 DEF MemoryInv, ArrivalInv
<1>4. \A p \in pending' : p.id \in 1..arrival /\ p.condition = seen[p.id]
  BY <1>1, <1>3
<1>5. ArrivalInv'
  BY <1>1, <1>3, <1>4 DEF ArrivalInv
<1> QED BY <1>2, <1>5 DEF MemoryInv

LEMMA OutcomeKeeps == ASSUME MemoryInv, RecordFailure \/ RecordOutcome PROVE MemoryInv'
<1>1. /\ pc \in {"failed", "kept", "refused"} /\ pc' = "idle" /\ phase' = phase
      /\ arrival' = arrival /\ condition' = condition /\ seen' = seen /\ held' = held
      /\ answer' = answer /\ \A p \in pending' : p \in pending
  BY DEF RecordFailure, RecordOutcome
<1>2. /\ phase \in {"warm", "eval"} /\ arrival \in 0..Len(Stream) /\ held \in SUBSET (1..arrival)
      /\ seen \in Seq(Conditions) /\ Len(seen) = arrival
      /\ \A p \in pending : p.id \in 1..arrival /\ p.condition = seen[p.id]
      /\ arrival >= 1 /\ condition = seen[arrival] /\ (arrival \in held <=> pc = "kept")
  BY <1>1 DEF MemoryInv, ArrivalInv
<1>3. ArrivalInv'
  BY <1>1, <1>2 DEF ArrivalInv
<1>4. AnswerInv'
  <2>1. (\A e \in Range(answer.from) : e.id # arrival) /\ ExemplarsSound
    BY DEF MemoryInv, AnswerInv
  <2> QED BY <1>1, <2>1, SoundAnswer DEF AnswerInv
<1>5. ASSUME NEW ok \in BOOLEAN, ok <=> pc = "kept", NEW violated \in BOOLEAN,
             pc = "kept" => ~violated, Record(ok, violated, seen[arrival])
      PROVE  StoreInv'
  <2>1. (ok /\ ~violated) <=> arrival \in held
    BY <1>2, <1>5
  <2> QED BY <1>1, <1>5, <2>1, RecordKeeps
<1>6. CASE RecordFailure
  <2>1. PICK violated \in BOOLEAN : Record(FALSE, violated, condition)
    BY <1>6 DEF RecordFailure
  <2>2. pc = "failed"
    BY <1>6 DEF RecordFailure
  <2>3. StoreInv'
    BY <1>2, <1>5, <2>1, <2>2
  <2> QED BY <1>3, <1>4, <2>3 DEF MemoryInv
<1>7. CASE RecordOutcome
  <2> DEFINE ok == pc = "kept"
             mine == {p \in pending : p.id = arrival}
  <2>1. PICK violated \in IF pc = "kept" THEN {FALSE} ELSE BOOLEAN :
          CASE phase = "warm" -> Record(ok, violated, ConditionOf(condition))
            [] phase = "eval" /\ mine = {} -> UNCHANGED store
            [] OTHER -> \E p \in mine : Record(ok, violated, ConditionOf(p.condition))
    BY <1>7 DEF RecordOutcome
  <2>2. violated \in BOOLEAN /\ (pc = "kept" => ~violated)
    OBVIOUS
  <2>3. ok \in BOOLEAN /\ (ok <=> pc = "kept")
    OBVIOUS
  <2> HIDE DEF ok
  <2>4. CASE phase = "warm"
    <3>1. Record(ok, violated, seen[arrival])
      BY <1>2, <2>1, <2>4 DEF ConditionOf
    <3> QED BY <1>3, <1>4, <1>5, <2>2, <2>3, <3>1 DEF MemoryInv
  <2>5. CASE phase = "eval" /\ mine = {}
    <3>1. UNCHANGED store
      BY <2>1, <2>5
    <3>2. StoreInv' /\ AnswerInv'
      BY <1>1, <3>1, StoreStands
    <3> QED BY <1>3, <3>2 DEF MemoryInv
  <2>6. CASE phase = "eval" /\ mine # {}
    <3>1. PICK p \in mine : Record(ok, violated, ConditionOf(p.condition))
      BY <2>1, <2>6
    <3>2. p.condition = seen[arrival]
      BY <1>2
    <3>3. Record(ok, violated, seen[arrival])
      BY <3>1, <3>2 DEF ConditionOf
    <3> QED BY <1>3, <1>4, <1>5, <2>2, <2>3, <3>3 DEF MemoryInv
  <2> QED BY <1>2, <2>4, <2>5, <2>6
<1> QED BY <1>6, <1>7

LEMMA StartKeeps == ASSUME MemoryInv, StartEvaluation PROVE MemoryInv'
<1>1. /\ pc = "idle" /\ pc' = pc /\ phase' = "eval" /\ arrival' = arrival /\ condition' = condition
      /\ pending' = pending /\ entries' = entries /\ clock' = clock /\ answer' = answer
      /\ seen' = seen /\ held' = held /\ index' = [i \in DOMAIN entries |-> entries[i].id]
  BY DEF StartEvaluation
<1>2. ArrivalInv'
  BY <1>1 DEF MemoryInv, ArrivalInv
<1>3. StoreInv'
  <2>1. /\ entries \in Seq(Episodes) /\ clock \in Nat /\ StoreAgrees /\ EpisodesTrue
        /\ \A e \in Range(entries) : e.id \in 1..arrival
    BY DEF MemoryInv, StoreInv
  <2>2. index' = index
    BY <1>1, <2>1 DEF StoreAgrees
  <2>3. StoreAgrees' /\ EpisodesTrue'
    BY <1>1, <2>1, <2>2 DEF StoreAgrees, EpisodesTrue
  <2> QED BY <1>1, <2>1, <2>3 DEF StoreInv
<1>4. AnswerInv'
  <2>1. (\A e \in Range(answer.from) : e.id # arrival) /\ ExemplarsSound
    BY DEF MemoryInv, AnswerInv
  <2> QED BY <1>1, <2>1, SoundAnswer DEF AnswerInv
<1> QED BY <1>2, <1>3, <1>4 DEF MemoryInv

LEMMA StutterKeeps == ASSUME MemoryInv, UNCHANGED vars PROVE MemoryInv'
<1>1. /\ phase' = phase /\ pc' = pc /\ arrival' = arrival /\ condition' = condition
      /\ pending' = pending /\ entries' = entries /\ index' = index /\ clock' = clock
      /\ answer' = answer /\ seen' = seen /\ held' = held
  BY DEF vars, store
<1>2. ArrivalInv'
  BY <1>1 DEF MemoryInv, ArrivalInv
<1>3. StoreInv'
  BY <1>1 DEF MemoryInv, StoreInv, StoreAgrees, EpisodesTrue
<1>4. AnswerInv'
  <2>1. (\A e \in Range(answer.from) : e.id # arrival) /\ ExemplarsSound
    BY DEF MemoryInv, AnswerInv
  <2> QED BY <1>1, <2>1, SoundAnswer DEF AnswerInv
<1> QED BY <1>2, <1>3, <1>4 DEF MemoryInv

LEMMA MemoryInvHolds == Spec => []MemoryInv
<1>1. MemoryInv /\ [Next]_vars => MemoryInv'
  <2> SUFFICES ASSUME MemoryInv, [Next]_vars PROVE MemoryInv'
    OBVIOUS
  <2>1. CASE Arrive
    BY <2>1, ArriveKeeps
  <2>2. CASE PlanFromCache \/ Commit \/ Refuse \/ Verify
    BY <2>2, DecisionKeeps
  <2>3. CASE PlanMade \/ PlanFails
    BY <2>3, PlanKeeps
  <2>4. CASE RecordFailure \/ RecordOutcome
    BY <2>4, OutcomeKeeps
  <2>5. CASE StartEvaluation
    BY <2>5, StartKeeps
  <2>6. CASE UNCHANGED vars
    BY <2>6, StutterKeeps
  <2> QED BY <2>1, <2>2, <2>3, <2>4, <2>5, <2>6 DEF Next
<1> QED BY <1>1, InitHolds, PTL DEF Spec

(***************************************************************************)
(* The theorems.                                                           *)
(***************************************************************************)
\* The memory's list and the list its pipeline searches hold the same entries in
\* the same order, at most as many as the capacity, through every record,
\* eviction, look-up, save and load (episodic_memory.py record, _evict, load).
THEOREM TheListsAgree == Spec => []StoreAgrees
<1>1. MemoryInv => StoreAgrees
  BY DEF MemoryInv, StoreInv
<1> QED BY <1>1, MemoryInvHolds, PTL

\* Every entry carries the condition its arrival found, not the one its own
\* admission made, and is a success exactly if the slice stayed on after the
\* verification (_accumulating's two halves in scripts/grid_runner.py).
THEOREM EntriesAreTrue == Spec => []EpisodesTrue
<1>1. MemoryInv => EpisodesTrue
  BY DEF MemoryInv, StoreInv
<1> QED BY <1>1, MemoryInvHolds, PTL

\* What the planner is shown are successes at or above the floor of the scale
\* they were scored on, the best first, at most TopK of them, and as many as
\* there are when the pool holds the whole store: filter, two rankings, fusion,
\* cuts and the second ranking lose none (episodic_memory.py retrieve,
\* retrieval/pipeline.py retrieve and _k).
THEOREM ShownTheBest == Spec => []ExemplarsSound
<1>1. MemoryInv => ExemplarsSound
  BY DEF MemoryInv, AnswerInv
<1> QED BY <1>1, MemoryInvHolds, PTL
=============================================================================
