------------------------- MODULE PlanBuildersProofs -------------------------
(***************************************************************************)
(* Proofs about the builders and the repairs, for every substrate, slice    *)
(* and guard.                                                              *)
(*                                                                         *)
(* Order: the builders that walk the chain never propose a partition C10    *)
(* refuses.  Contiguity compares two cardinalities; what the walk maintains *)
(* is a bijection between them: every domain used has a run, and only one.  *)
(*                                                                         *)
(* Room: the running estimates are the summaries less what was seated       *)
(* (FitInv), so that what is proposed fits as a whole, and what is moved    *)
(* fits beside what came before.                                            *)
(*                                                                         *)
(* Choice: the enumerating builders pick the least of finitely many         *)
(* partitions under an order, and what is least compares as is claimed.     *)
(***************************************************************************)
EXTENDS PlanBuilders, SubstrateProofs

\* Every domain of p has exactly one run.
OneRunEach(p) ==
  /\ \A i \in Runs(p), j \in Runs(p) : p[i] = p[j] => i = j
  /\ \A i \in DOMAIN p : \E j \in Runs(p) : p[j] = p[i]

\* What closes: every domain walked but the last one.
Left(p) == {d \in Range(p) : d # p[Len(p)]}

WalkInv ==
  program \in Walkers =>
    /\ pc \in {"start", "walk", "done"}
    /\ chosen \in Seq(Domains)
    /\ OneRunEach(chosen)
    /\ cur = IF chosen = <<>> THEN NoDomain ELSE chosen[Len(chosen)]
    /\ closed = Left(chosen)
    /\ pc = "done" /\ plan # NoPlan => plan = chosen

LEMMA OneRunEachIsContiguous ==
  ASSUME NEW S, NEW p \in Seq(S), OneRunEach(p)
  PROVE  Contiguous(p)
<1> DEFINE f == [i \in Runs(p) |-> p[i]]
<1>1. IsFiniteSet(Runs(p))
  <2>1. Runs(p) \subseteq 1 .. Len(p)
    BY DEF Runs
  <2>2. IsFiniteSet(1 .. Len(p))
    BY FS_Interval
  <2> QED
    BY <2>1, <2>2, FS_Subset
<1>2. f \in Bijection(Runs(p), Range(p))
  <2>1. f \in [Runs(p) -> Range(p)]
    BY DEF Runs, Range
  <2>2. f \in Injection(Runs(p), Range(p))
    BY <2>1 DEF Injection, IsInjective, OneRunEach
  <2>3. \A d \in Range(p) : \E i \in Runs(p) : f[i] = d
    BY DEF Range, OneRunEach
  <2> QED
    BY <2>1, <2>2, <2>3 DEF Bijection, Surjection
<1>3. ExistsBijection(Runs(p), Range(p))
  BY <1>2 DEF ExistsBijection
<1> QED
  BY <1>1, <1>3, FS_Bijection DEF Contiguous

\* A domain that is the last one, or new, keeps one run each.
LEMMA AppendOneRun ==
  ASSUME NEW S, NEW p \in Seq(S), NEW d \in S,
         OneRunEach(p), d \notin Left(p)
  PROVE  /\ OneRunEach(Append(p, d))
         /\ Left(Append(p, d)) =
              IF p = <<>> \/ p[Len(p)] = d THEN Left(p) ELSE Left(p) \cup {p[Len(p)]}
<1> DEFINE q == Append(p, d)
           n == Len(p)
<1>1. /\ n \in Nat /\ q \in Seq(S) /\ Len(q) = n + 1
      /\ q[n + 1] = d /\ \A i \in 1 .. n : q[i] = p[i]
      /\ DOMAIN p = 1 .. n /\ DOMAIN q = 1 .. n + 1
  OBVIOUS
<1> HIDE DEF q, n
<1>2. \A i \in 1 .. n : i \in Runs(q) <=> i \in Runs(p)
  BY <1>1 DEF Runs
<1>3. n + 1 \in Runs(q) <=> n = 0 \/ p[n] # d
  BY <1>1 DEF Runs
<1>4. n > 0 /\ p[n] # d => \A i \in 1 .. n : p[i] # d
  BY <1>1 DEF Left, Range, n
<1>5. Range(q) = Range(p) \cup {d}
  BY <1>1 DEF Range
<1>6. p = <<>> <=> n = 0
  BY DEF n
<1>7. OneRunEach(q)
  <2>1. ASSUME NEW i \in Runs(q), NEW j \in Runs(q), q[i] = q[j]
        PROVE  i = j
    <3>1. i \in 1 .. n + 1 /\ j \in 1 .. n + 1
      BY <1>1 DEF Runs
    <3>2. CASE i \in 1 .. n /\ j \in 1 .. n
      BY <2>1, <3>2, <1>1, <1>2 DEF OneRunEach
    <3>3. CASE i = n + 1 /\ j \in 1 .. n
      BY <2>1, <3>3, <1>1, <1>3, <1>4
    <3>4. CASE j = n + 1 /\ i \in 1 .. n
      BY <2>1, <3>4, <1>1, <1>3, <1>4
    <3> QED
      BY <3>1, <3>2, <3>3, <3>4, <1>1
  <2>2. ASSUME NEW i \in DOMAIN q
        PROVE  \E j \in Runs(q) : q[j] = q[i]
    <3>1. CASE i \in 1 .. n
      <4>1. PICK j \in Runs(p) : p[j] = p[i]
        BY <3>1, <1>1 DEF OneRunEach
      <4>2. j \in 1 .. n
        BY <1>1 DEF Runs
      <4> QED
        BY <4>1, <4>2, <3>1, <1>1, <1>2
    <3>2. CASE i = n + 1 /\ n + 1 \in Runs(q)
      BY <3>2
    <3>3. CASE i = n + 1 /\ n + 1 \notin Runs(q)
      <4>1. n \in 1 .. n /\ p[n] = d
        BY <3>3, <1>1, <1>3
      <4>2. PICK j \in Runs(p) : p[j] = p[n]
        BY <4>1, <1>1 DEF OneRunEach
      <4>3. j \in 1 .. n
        BY <1>1 DEF Runs
      <4> QED
        BY <4>1, <4>2, <4>3, <3>3, <1>1, <1>2
    <3> QED
      BY <3>1, <3>2, <3>3, <1>1
  <2> QED
    BY <2>1, <2>2 DEF OneRunEach
<1>8. Left(q) = {e \in Range(p) : e # d}
  BY <1>1, <1>5 DEF Left
<1>9. CASE n = 0
  <2>1. Range(p) = {}
    BY <1>1, <1>9 DEF Range
  <2> QED
    BY <2>1, <1>6, <1>7, <1>8, <1>9 DEF Left, q
<1>10. CASE n > 0 /\ p[n] = d
  BY <1>7, <1>8, <1>10 DEF Left, q, n
<1>11. CASE n > 0 /\ p[n] # d
  <2>1. d \notin Range(p) /\ p[n] \in Range(p)
    BY <1>1, <1>4, <1>11 DEF Range
  <2>2. Left(q) = Left(p) \cup {p[n]}
    BY <2>1, <1>8 DEF Left, n
  <2> QED
    BY <2>2, <1>6, <1>7, <1>11 DEF q, n
<1> QED
  BY <1>1, <1>9, <1>10, <1>11

LEMMA WalkInvInitial == Init => WalkInv
<1> SUFFICES ASSUME Init PROVE WalkInv
  OBVIOUS
<1>1. chosen = <<>> /\ cur = NoDomain /\ closed = {} /\ pc = "start"
  BY DEF Init
<1>2. chosen \in Seq(Domains) /\ DOMAIN chosen = {}
  BY <1>1
<1>3. OneRunEach(chosen) /\ Left(chosen) = {}
  BY <1>1, <1>2 DEF OneRunEach, Runs, Left, Range
<1> QED
  BY <1>1, <1>2, <1>3 DEF WalkInv

\* One VNF of a builder's walk.
LEMMA SeatKeepsWalkInv ==
  ASSUME WalkInv, program \in Walkers, pc = "walk",
         NEW d \in Takers(next), Seat(d)
  PROVE  WalkInv'
<1>1. d \in Domains /\ d \notin closed
  BY DEF Takers, Candidates, Summarised, KeepsContiguous
<1>2. /\ chosen \in Seq(Domains) /\ OneRunEach(chosen) /\ closed = Left(chosen)
  BY DEF WalkInv
<1>3. /\ OneRunEach(Append(chosen, d))
      /\ Left(Append(chosen, d)) =
           IF chosen = <<>> \/ chosen[Len(chosen)] = d THEN Left(chosen)
           ELSE Left(chosen) \cup {chosen[Len(chosen)]}
  BY <1>1, <1>2, AppendOneRun
<1>4. cur = IF chosen = <<>> THEN NoDomain ELSE chosen[Len(chosen)]
  BY DEF WalkInv
<1>5. chosen # <<>> => chosen[Len(chosen)] \in Domains
  BY <1>2
<1>6. closed' = IF cur \in {NoDomain, d} THEN closed ELSE closed \cup {cur}
  BY DEF Seat
<1>7. closed' = Left(Append(chosen, d))
  <2>1. CASE chosen = <<>>
    BY <2>1, <1>2, <1>3, <1>4, <1>6
  <2>2. CASE chosen # <<>>
    BY <2>2, <1>2, <1>3, <1>4, <1>5, <1>6, PartitioningAssumption
  <2> QED
    BY <2>1, <2>2
<1>8. chosen' = Append(chosen, d) /\ pc' = "walk" /\ program' = program /\ plan' = plan
  BY DEF Seat, inputs
<1>9. chosen' \in Seq(Domains)
  BY <1>1, <1>2, <1>8
<1>10. cur' = d /\ chosen' # <<>> /\ chosen'[Len(chosen')] = d
  BY <1>1, <1>2, <1>8 DEF Seat
<1> QED
  BY <1>3, <1>7, <1>8, <1>9, <1>10 DEF WalkInv

LEMMA WalkInvKept == WalkInv /\ [Next]_vars => WalkInv'
<1> SUFFICES ASSUME WalkInv, [Next]_vars, program' \in Walkers
             PROVE  WalkInv'
  BY DEF WalkInv
<1>0. program' = program /\ program \in Walkers
  BY DEF Next, Decline, Enumerate, Collapse, BeginWalk, SeatBest, GiveUp, SkipUnknown,
         KeepAuthored, MoveVnf, FinishWalk, Answer, Seat, inputs, vars
<1>1. \A p : Answer(p) /\ (p = NoPlan \/ p = chosen) => WalkInv'
  BY <1>0 DEF Answer, WalkInv, OneRunEach, Left
<1>2. program \notin Repairs /\ program \notin {"guard", "full", "colo", "postdecode", "exact"}
  BY <1>0 DEF Walkers, Repairs
<1>3. ASSUME Decline PROVE WalkInv'
  BY <1>1, <1>2, <1>3 DEF Decline
<1>4. ASSUME Enumerate PROVE WalkInv'
  BY <1>0, <1>2, <1>4 DEF Enumerate, Walkers
<1>5. ASSUME Collapse PROVE WalkInv'
  BY <1>2, <1>5 DEF Collapse, Collapsible
<1>6. ASSUME BeginWalk PROVE WalkInv'
  BY <1>0, <1>6 DEF BeginWalk, WalkInv, OneRunEach, Left
<1>7. ASSUME SeatBest PROVE WalkInv'
  BY <1>7, <1>0, SeatKeepsWalkInv DEF SeatBest, Walking
<1>8. ASSUME GiveUp PROVE WalkInv'
  BY <1>1, <1>8 DEF GiveUp
<1>9. ASSUME SkipUnknown PROVE WalkInv'
  BY <1>2, <1>9 DEF SkipUnknown
<1>10. ASSUME KeepAuthored PROVE WalkInv'
  BY <1>2, <1>10 DEF KeepAuthored
<1>11. ASSUME MoveVnf PROVE WalkInv'
  BY <1>2, <1>11 DEF MoveVnf
<1>12. ASSUME FinishWalk PROVE WalkInv'
  BY <1>1, <1>12 DEF FinishWalk
<1>13. ASSUME UNCHANGED vars PROVE WalkInv'
  BY <1>13 DEF vars, inputs, WalkInv, OneRunEach, Left, Runs, Range
<1> QED
  BY <1>3, <1>4, <1>5, <1>6, <1>7, <1>8, <1>9, <1>10, <1>11, <1>12, <1>13 DEF Next

\* The builders that walk never leave a domain and come back to it: no plan of
\* partial_obs_builder or _fullobs_greedy is refused by C10.
THEOREM BuildersNeverScatter == Spec => []WalkPlansContiguous
<1>1. WalkInv => WalkPlansContiguous
  BY OneRunEachIsContiguous DEF WalkInv, WalkPlansContiguous, Built, Walkers
<1> QED
  BY <1>1, WalkInvInitial, WalkInvKept, PTL DEF Spec

-----------------------------------------------------------------------------
(***************************************************************************)
(* The left-to-right repair: closed holds every domain some other domain    *)
(* follows, known or kept, so a VNF that is moved never goes back to one.   *)
(***************************************************************************)
Abandoned(p) ==
  {d \in Range(p) \ {NoDomain} :
     \E i \in DOMAIN p, j \in DOMAIN p : i < j /\ p[i] = d /\ p[j] \notin {NoDomain, d}}

\* c is the last known domain of p.
RunIn(p, c) ==
  IF c = NoDomain
  THEN \A i \in DOMAIN p : p[i] = NoDomain
  ELSE \E i \in DOMAIN p :
         p[i] = c /\ \A j \in DOMAIN p : j > i => p[j] = NoDomain

PassInv ==
  program = "postdecode" =>
    /\ pc \in {"start", "walk", "done"}
    /\ chosen \in Seq(Domains \cup {NoDomain})
    /\ authored \in Seq(Domains \cup {NoDomain}) /\ Len(authored) = Len(chain)
    /\ RunIn(chosen, cur)
    /\ closed = Abandoned(chosen)
    /\ \A k \in DOMAIN chosen : chosen[k] # authored[k] => ~ReentersAt(chosen, k)
    /\ pc = "done" => plan = chosen

LEMMA AppendKnown ==
  ASSUME NEW S, NEW p \in Seq(S), NEW d \in S, d # NoDomain,
         NEW c, RunIn(p, c)
  PROVE  /\ RunIn(Append(p, d), d)
         /\ Abandoned(Append(p, d)) =
              IF c \in {NoDomain, d} THEN Abandoned(p) ELSE Abandoned(p) \cup {c}
         /\ \A k \in DOMAIN p : ReentersAt(Append(p, d), k) => ReentersAt(p, k)
         /\ d \notin Abandoned(p) => ~ReentersAt(Append(p, d), Len(p) + 1)
<1> DEFINE q == Append(p, d)
           n == Len(p)
<1>1. /\ n \in Nat /\ q \in Seq(S) /\ Len(q) = n + 1
      /\ q[n + 1] = d /\ \A i \in 1 .. n : q[i] = p[i]
      /\ DOMAIN p = 1 .. n /\ DOMAIN q = 1 .. n + 1
  OBVIOUS
<1> HIDE DEF q, n
<1>2. RunIn(q, d)
  <2>1. n + 1 \in DOMAIN q /\ \A j \in DOMAIN q : ~(j > n + 1)
    BY <1>1
  <2> QED
    BY <1>1, <2>1 DEF RunIn
<1>3. \A k \in DOMAIN p : ReentersAt(q, k) => ReentersAt(p, k)
  BY <1>1 DEF ReentersAt
<1>4. d \notin Abandoned(p) => ~ReentersAt(q, n + 1)
  <2> SUFFICES ASSUME ReentersAt(q, n + 1) PROVE d \in Abandoned(p)
    OBVIOUS
  <2>1. PICK i \in 1 .. n, j \in 1 .. n : i < j /\ p[i] = d /\ p[j] \notin {d, NoDomain}
    BY <1>1 DEF ReentersAt
  <2> QED
    BY <2>1, <1>1 DEF Abandoned, Range
<1>5. Abandoned(q) = Abandoned(p) \cup {p[i] : i \in {j \in DOMAIN p : p[j] \notin {NoDomain, d}}}
  <2>1. ASSUME NEW e \in Abandoned(q)
        PROVE  e \in Abandoned(p) \/ \E i \in DOMAIN p : p[i] = e /\ e \notin {NoDomain, d}
    <3>1. PICK i \in DOMAIN q, j \in DOMAIN q : i < j /\ q[i] = e /\ q[j] \notin {NoDomain, e}
      BY DEF Abandoned
    <3>2. i \in DOMAIN p /\ p[i] = e /\ e # NoDomain
      BY <3>1, <1>1 DEF Abandoned
    <3>3. CASE j = n + 1
      BY <3>1, <3>2, <3>3, <1>1
    <3>4. CASE j \in DOMAIN p
      BY <3>1, <3>2, <3>4, <1>1 DEF Abandoned, Range
    <3> QED
      BY <3>1, <3>3, <3>4, <1>1
  <2>2. ASSUME NEW e \in Abandoned(p) PROVE e \in Abandoned(q)
    <3>1. PICK i \in DOMAIN p, j \in DOMAIN p : i < j /\ p[i] = e /\ p[j] \notin {NoDomain, e}
      BY DEF Abandoned
    <3>2. i \in DOMAIN q /\ j \in DOMAIN q /\ q[i] = e /\ q[j] = p[j] /\ e # NoDomain
      BY <3>1, <1>1 DEF Abandoned
    <3> QED
      BY <3>1, <3>2 DEF Abandoned, Range
  <2>3. ASSUME NEW i \in DOMAIN p, p[i] \notin {NoDomain, d} PROVE p[i] \in Abandoned(q)
    <3>1. i \in DOMAIN q /\ n + 1 \in DOMAIN q /\ i < n + 1 /\ q[i] = p[i]
      BY <1>1
    <3> QED
      BY <3>1, <2>3, <1>1 DEF Abandoned, Range
  <2> QED
    BY <2>1, <2>2, <2>3
<1>6. Abandoned(q) = IF c \in {NoDomain, d} THEN Abandoned(p) ELSE Abandoned(p) \cup {c}
  <2>1. ASSUME NEW i \in DOMAIN p, p[i] \notin {NoDomain, d}, p[i] # c
        PROVE  p[i] \in Abandoned(p)
    <3>1. c # NoDomain
      BY <2>1 DEF RunIn
    <3>2. PICK j \in DOMAIN p : p[j] = c /\ \A h \in DOMAIN p : h > j => p[h] = NoDomain
      BY <3>1 DEF RunIn
    <3>3. i < j
      BY <3>2, <2>1, <1>1
    <3> QED
      BY <3>1, <3>2, <3>3, <2>1 DEF Abandoned, Range
  <2>2. c # NoDomain => \E j \in DOMAIN p : p[j] = c
    BY DEF RunIn
  <2>3. CASE c \in {NoDomain, d}
    <3>1. \A i \in DOMAIN p : p[i] \notin {NoDomain, d} => p[i] \in Abandoned(p)
      BY <2>1, <2>3
    <3> QED
      BY <3>1, <2>3, <1>5
  <2>4. CASE c \notin {NoDomain, d}
    <3>1. \A i \in DOMAIN p : p[i] \notin {NoDomain, d} => p[i] \in Abandoned(p) \cup {c}
      BY <2>1
    <3>2. \E j \in DOMAIN p : p[j] = c /\ p[j] \notin {NoDomain, d}
      BY <2>2, <2>4
    <3> QED
      BY <3>1, <3>2, <2>4, <1>5
  <2> QED
    BY <2>3, <2>4
<1> QED
  BY <1>2, <1>3, <1>4, <1>6 DEF q, n

LEMMA AppendUnknown ==
  ASSUME NEW S, NEW p \in Seq(S), NoDomain \in S, NEW c, RunIn(p, c)
  PROVE  /\ RunIn(Append(p, NoDomain), c)
         /\ Abandoned(Append(p, NoDomain)) = Abandoned(p)
         /\ \A k \in DOMAIN p : ReentersAt(Append(p, NoDomain), k) => ReentersAt(p, k)
<1> DEFINE q == Append(p, NoDomain)
           n == Len(p)
<1>1. /\ n \in Nat /\ q \in Seq(S) /\ Len(q) = n + 1
      /\ q[n + 1] = NoDomain /\ \A i \in 1 .. n : q[i] = p[i]
      /\ DOMAIN p = 1 .. n /\ DOMAIN q = 1 .. n + 1
  OBVIOUS
<1> HIDE DEF q, n
<1>2. RunIn(q, c)
  BY <1>1 DEF RunIn
<1>3. Range(q) \ {NoDomain} = Range(p) \ {NoDomain}
  <2>1. ASSUME NEW i \in DOMAIN q, q[i] # NoDomain PROVE q[i] \in Range(p)
    BY <2>1, <1>1 DEF Range
  <2>2. ASSUME NEW i \in DOMAIN p PROVE p[i] \in Range(q)
    <3>1. i \in DOMAIN q /\ q[i] = p[i]
      BY <1>1
    <3> QED
      BY <3>1 DEF Range
  <2> QED
    BY <2>1, <2>2 DEF Range
<1>4. ASSUME NEW e \in Range(p) \ {NoDomain}
      PROVE  (\E i \in DOMAIN q, j \in DOMAIN q : i < j /\ q[i] = e /\ q[j] \notin {NoDomain, e})
        <=> (\E i \in DOMAIN p, j \in DOMAIN p : i < j /\ p[i] = e /\ p[j] \notin {NoDomain, e})
  BY <1>1
<1>5. Abandoned(q) = Abandoned(p)
  BY <1>3, <1>4 DEF Abandoned
<1>6. \A k \in DOMAIN p : ReentersAt(q, k) => ReentersAt(p, k)
  BY <1>1 DEF ReentersAt
<1> QED
  BY <1>2, <1>5, <1>6 DEF q

LEMMA PassInvInitial == Init => PassInv
<1> SUFFICES ASSUME Init, program = "postdecode" PROVE PassInv
  BY DEF PassInv
<1>1. chosen = <<>> /\ cur = NoDomain /\ closed = {} /\ pc = "start"
  BY DEF Init
<1>2. authored \in [1 .. Len(chain) -> Domains \cup {NoDomain}]
  BY DEF Init, Authorable, Repairs, chain
<1>3. Len(chain) \in Nat
  BY BuildersAssumption DEF Init, chain
<1>4. authored \in Seq(Domains \cup {NoDomain}) /\ Len(authored) = Len(chain)
  BY <1>2, <1>3
<1>5. DOMAIN chosen = {} /\ RunIn(chosen, cur) /\ Abandoned(chosen) = {}
  BY <1>1 DEF RunIn, Abandoned, Range
<1> QED
  BY <1>1, <1>4, <1>5 DEF PassInv

\* One VNF of the repair, kept where it was authored or moved.
LEMMA PassSeats ==
  ASSUME PassInv, program = "postdecode", Walking,
         NEW d \in Domains, Seat(d),
         d = authored[next] \/ d \notin closed
  PROVE  PassInv'
<1>1. /\ chosen \in Seq(Domains \cup {NoDomain}) /\ RunIn(chosen, cur)
      /\ closed = Abandoned(chosen)
      /\ \A k \in DOMAIN chosen : chosen[k] # authored[k] => ~ReentersAt(chosen, k)
  BY DEF PassInv
<1>2. d # NoDomain /\ d \in Domains \cup {NoDomain}
  BY PartitioningAssumption
<1>3. /\ RunIn(Append(chosen, d), d)
      /\ Abandoned(Append(chosen, d)) =
           IF cur \in {NoDomain, d} THEN Abandoned(chosen) ELSE Abandoned(chosen) \cup {cur}
      /\ \A k \in DOMAIN chosen : ReentersAt(Append(chosen, d), k) => ReentersAt(chosen, k)
      /\ d \notin Abandoned(chosen) => ~ReentersAt(Append(chosen, d), Len(chosen) + 1)
  BY <1>1, <1>2, AppendKnown
<1>4. /\ chosen' = Append(chosen, d) /\ cur' = d
      /\ closed' = Abandoned(Append(chosen, d))
      /\ pc' = "walk" /\ authored' = authored /\ chain' = chain /\ program' = program
  BY <1>1, <1>3 DEF Seat, inputs, Walking, chain
<1>5. \A k \in DOMAIN chosen' : chosen'[k] # authored[k] => ~ReentersAt(chosen', k)
  <2> SUFFICES ASSUME NEW k \in DOMAIN chosen', chosen'[k] # authored[k]
               PROVE  ~ReentersAt(chosen', k)
    OBVIOUS
  <2>1. CASE k \in DOMAIN chosen
    <3>1. chosen'[k] = chosen[k]
      BY <2>1, <1>1, <1>2, <1>4
    <3> QED
      BY <3>1, <2>1, <1>1, <1>3, <1>4
  <2>2. CASE k = Len(chosen) + 1
    <3>1. chosen'[k] = d /\ k = next
      BY <2>2, <1>1, <1>2, <1>4 DEF next
    <3> QED
      BY <3>1, <2>2, <1>1, <1>3, <1>4
  <2> QED
    BY <2>1, <2>2, <1>1, <1>2, <1>4
<1>6. chosen' \in Seq(Domains \cup {NoDomain})
  BY <1>1, <1>2, <1>4
<1> QED
  BY <1>3, <1>4, <1>5, <1>6 DEF PassInv

LEMMA PassSkips ==
  ASSUME PassInv, program = "postdecode", SkipUnknown
  PROVE  PassInv'
<1>1. /\ chosen \in Seq(Domains \cup {NoDomain}) /\ RunIn(chosen, cur)
      /\ closed = Abandoned(chosen)
      /\ \A k \in DOMAIN chosen : chosen[k] # authored[k] => ~ReentersAt(chosen, k)
  BY DEF PassInv
<1>2. /\ RunIn(Append(chosen, NoDomain), cur)
      /\ Abandoned(Append(chosen, NoDomain)) = Abandoned(chosen)
      /\ \A k \in DOMAIN chosen :
           ReentersAt(Append(chosen, NoDomain), k) => ReentersAt(chosen, k)
  BY <1>1, AppendUnknown
<1>3. /\ chosen' = Append(chosen, NoDomain) /\ cur' = cur /\ closed' = closed
      /\ pc' = "walk" /\ authored' = authored /\ chain' = chain /\ program' = program
      /\ authored[next] = NoDomain
  BY DEF SkipUnknown, inputs, Walking, chain
<1>4. \A k \in DOMAIN chosen' : chosen'[k] # authored[k] => ~ReentersAt(chosen', k)
  <2> SUFFICES ASSUME NEW k \in DOMAIN chosen', chosen'[k] # authored[k]
               PROVE  ~ReentersAt(chosen', k)
    OBVIOUS
  <2>1. k # Len(chosen) + 1
    BY <1>1, <1>3 DEF next
  <2>2. k \in DOMAIN chosen /\ chosen'[k] = chosen[k]
    BY <2>1, <1>1, <1>3
  <2> QED
    BY <2>2, <1>1, <1>2, <1>3
<1>5. chosen' \in Seq(Domains \cup {NoDomain})
  BY <1>1, <1>3
<1> QED
  BY <1>1, <1>2, <1>3, <1>4, <1>5 DEF PassInv

LEMMA PassInvKept == PassInv /\ [Next]_vars => PassInv'
<1> SUFFICES ASSUME PassInv, [Next]_vars, program' = "postdecode"
             PROVE  PassInv'
  BY DEF PassInv
<1>0. program = "postdecode"
  BY DEF Next, Decline, Enumerate, Collapse, BeginWalk, SeatBest, GiveUp, SkipUnknown,
         KeepAuthored, MoveVnf, FinishWalk, Answer, Seat, inputs, vars
<1>1. program \notin Walkers /\ program \notin Builders /\ program \notin {"fullobs", "oracle"}
      /\ program \notin {"guard", "full", "colo"} /\ program # "exact"
  BY <1>0 DEF Walkers, Builders
<1>2. Walking => next \in 1 .. Len(chain) /\ authored[next] \in Domains \cup {NoDomain}
  <2>1. chosen \in Seq(Domains \cup {NoDomain}) /\ authored \in Seq(Domains \cup {NoDomain})
        /\ Len(authored) = Len(chain)
    BY <1>0 DEF PassInv
  <2> QED
    BY <2>1 DEF Walking, next
<1>3. ASSUME Decline PROVE PassInv'
  BY <1>1, <1>3 DEF Decline
<1>4. ASSUME Enumerate PROVE PassInv'
  BY <1>1, <1>4 DEF Enumerate
<1>5. ASSUME Collapse PROVE PassInv'
  BY <1>0, <1>5 DEF Collapse, Collapsible
<1>6. ASSUME BeginWalk PROVE PassInv'
  BY <1>0, <1>6 DEF BeginWalk, PassInv, inputs, chain
<1>7. ASSUME SeatBest PROVE PassInv'
  BY <1>1, <1>7 DEF SeatBest
<1>8. ASSUME GiveUp PROVE PassInv'
  BY <1>1, <1>8 DEF GiveUp
<1>9. ASSUME SkipUnknown PROVE PassInv'
  BY <1>0, <1>9, PassSkips
<1>10. ASSUME KeepAuthored PROVE PassInv'
  BY <1>0, <1>2, <1>10, PassSeats DEF KeepAuthored
<1>11. ASSUME MoveVnf PROVE PassInv'
  <2>1. PICK d \in IF Takers(next) # {} THEN Takers(next) ELSE {authored[next]} : Seat(d)
    BY <1>11 DEF MoveVnf
  <2>2. CASE d \in Takers(next)
    <3>1. d \in Domains /\ d \notin closed
      BY <2>2, <1>0 DEF Takers, Candidates, Summarised, KeepsContiguous
    <3> QED
      BY <3>1, <2>1, <1>0, <1>11, PassSeats DEF MoveVnf
  <2>3. CASE d = authored[next]
    <3>1. d \in Domains
      BY <2>3, <1>2, <1>11 DEF MoveVnf
    <3> QED
      BY <3>1, <2>1, <2>3, <1>0, <1>11, PassSeats DEF MoveVnf
  <2> QED
    BY <2>1, <2>2, <2>3
<1>12. ASSUME FinishWalk PROVE PassInv'
  BY <1>0, <1>12 DEF FinishWalk, Answer, PassInv, inputs, chain
<1>13. ASSUME UNCHANGED vars PROVE PassInv'
  BY <1>13 DEF vars, inputs, PassInv, chain
<1> QED
  BY <1>3, <1>4, <1>5, <1>6, <1>7, <1>8, <1>9, <1>10, <1>11, <1>12, <1>13 DEF Next

\* A VNF that repair_partition moves never goes back to a domain the chain has
\* left; what it may scatter is a VNF it keeps (RepairKeepsChainOrder).
THEOREM PassMovesOnward == Spec => []PassNeverReenters
<1>1. PassInv => PassNeverReenters
  BY DEF PassInv, PassNeverReenters, Repaired
<1> QED
  BY <1>1, PassInvInitial, PassInvKept, PTL DEF Spec
-----------------------------------------------------------------------------
(***************************************************************************)
(* What fits.  The estimates are what the summaries reported less what the  *)
(* walk has put in each domain; so a domain that is a taker has room for    *)
(* all of it, and what has gone through the walk is admitted where it is.   *)
(***************************************************************************)
InputsInv ==
  /\ residual \in Residuals /\ slice \in Slices
  /\ program \in Programs /\ guardMode \in GuardModes
  /\ authored \in IF program \in Repairs THEN Authorable(slice) ELSE {<<>>}

EstInv ==
  /\ pc \in {"start", "walk", "done"}
  /\ chosen \in Seq(Domains \cup {NoDomain}) /\ Len(chosen) <= Len(chain)
  /\ est \in [Domains \X Kinds -> Int]
  /\ \A d \in Domains, q \in Kinds :
       est[<<d, q>>] = Aggregate(residual)[<<d, q>>] - Demand(chain, chosen, d, q)

WalkedInv ==
  /\ program \in Walkers =>
       \A k \in DOMAIN chosen : chosen[k] \in Domains /\ Admissible(k, chosen[k])
  /\ program = "partial" =>
       \A k \in DOMAIN chosen, q \in Kinds : est[<<chosen[k], q>>] >= 0
  /\ program \in Repairs =>
       \A k \in DOMAIN chosen : chosen[k] # authored[k] =>
         /\ chosen[k] \in Domains /\ Admissible(k, chosen[k])
         /\ \A q \in Kinds : Demand(chain, SubSeq(chosen, 1, k), chosen[k], q)
                               <= Aggregate(residual)[<<chosen[k], q>>]

\* Where a plan may come from.
Origin ==
  \/ program \in Builders /\ plan = NoPlan
  \/ program \in Walkers \cup {"guard", "full", "colo", "postdecode"} /\ plan = chosen
       /\ Len(chosen) = Len(chain)
  \/ program \in Repairs /\ plan = authored
  \/ program \in {"full", "colo"} /\ \E d \in WholeChainHosts : plan = Everywhere(d)
  \/ program = "exact" /\ plan = ExactRepair(residual, chain, authored)
  \/ program \in {"fullobs", "oracle"} /\ CommittableOnes(guardMode, residual, chain) # {}
       /\ plan = IF program = "oracle" THEN Oracle(guardMode, residual, slice)
                 ELSE FullObs(guardMode, residual, slice)

FitInv ==
  /\ InputsInv /\ EstInv /\ WalkedInv
  /\ pc = "walk" => program \in Walkers \cup {"guard", "full", "colo", "postdecode"}
  /\ pc = "done" => Origin

LEMMA InputFacts ==
  ASSUME InputsInv
  PROVE  /\ chain \in Seq(VnfType) /\ Len(chain) \in Nat /\ Len(chain) > 0
         /\ DOMAIN chain = 1 .. Len(chain)
         /\ \A k \in 1 .. Len(chain), q \in Kinds : chain[k][q] \in Nat
         /\ \A d \in Domains, q \in Kinds : Aggregate(residual)[<<d, q>>] \in Nat
         /\ \A c \in Cells : residual[c] \in Nat
         /\ program \in Repairs =>
              authored \in Seq(Domains \cup {NoDomain}) /\ DOMAIN authored = 1 .. Len(chain)
<1>1. chain \in Seq(VnfType) /\ Len(chain) > 0
  BY BuildersAssumption DEF InputsInv, chain
<1>2. Len(chain) \in Nat /\ DOMAIN chain = 1 .. Len(chain)
  BY <1>1
<1>3. ASSUME NEW k \in 1 .. Len(chain) PROVE chain[k]["cpu"] \in Nat /\ chain[k]["ram"] \in Nat
  <2>1. chain[k] \in VnfType
    BY <1>1, <1>2
  <2> QED BY <2>1 DEF VnfType
<1>4. \A c \in Cells : residual[c] \in Nat
  BY BuildersAssumption DEF InputsInv
<1>5. ASSUME NEW d \in Domains, NEW q \in Kinds PROVE Aggregate(residual)[<<d, q>>] \in Nat
  <2>1. \A n \in Nodes : residual[<<n, q>>] \in Nat
    BY <1>4 DEF Cells, NodeCells
  <2> QED BY <2>1, AggregateType
<1>6. ASSUME program \in Repairs
      PROVE  authored \in Seq(Domains \cup {NoDomain}) /\ DOMAIN authored = 1 .. Len(chain)
  <2>1. authored \in [1 .. Len(chain) -> Domains \cup {NoDomain}]
    BY <1>6 DEF InputsInv, Authorable, chain
  <2> QED BY <1>2, <2>1
<1> QED BY <1>1, <1>2, <1>3, <1>4, <1>5, <1>6 DEF Kinds

LEMMA AdmittedIsSummarised ==
  ASSUME NEW g, NEW r, NEW c, NEW k, NEW d \in Domains, Admits(g, r, c, k, d)
  PROVE  d \in Summarised
<1>1. UsableTiers(c[k], d) # {}
  BY DEF Admits
<1>2. NodesIn(d) # {}
  BY <1>1 DEF UsableTiers, TiersOf
<1> QED BY <1>2 DEF Summarised

\* What a step that leaves the inputs alone leaves alone.
LEMMA InputsStay ==
  ASSUME InputsInv, UNCHANGED inputs
  PROVE  /\ InputsInv' /\ chain' = chain /\ program' = program /\ authored' = authored
         /\ residual' = residual /\ guardMode' = guardMode /\ slice' = slice
         /\ \A k, d : Admissible(k, d)' <=> Admissible(k, d)
         /\ \A d : Everywhere(d)' = Everywhere(d)
         /\ WholeChainHosts' = WholeChainHosts
<1>1. /\ chain' = chain /\ program' = program /\ authored' = authored
      /\ residual' = residual /\ guardMode' = guardMode /\ slice' = slice
  BY DEF inputs, chain
<1>2. Guard' = Guard
  BY <1>1 DEF Guard
<1>3. \A k, d : Admissible(k, d)' <=> Admissible(k, d)
  BY <1>1, <1>2 DEF Admissible
<1>4. \A d : Everywhere(d)' = Everywhere(d)
  BY <1>1 DEF Everywhere
<1>5. \A d : Slack(d)' = Slack(d)
  BY <1>1, <1>4 DEF Slack
<1>6. \A d : HostsWholeChain(d)' <=> HostsWholeChain(d)
  BY <1>1, <1>3, <1>5 DEF HostsWholeChain
<1>7. WholeChainHosts' = WholeChainHosts
  BY <1>6 DEF WholeChainHosts
<1>8. InputsInv'
  BY <1>1 DEF InputsInv
<1> QED BY <1>1, <1>3, <1>4, <1>7, <1>8

\* The estimates follow the walk.
LEMMA SeatKeepsEst ==
  ASSUME InputsInv, EstInv, Walking, NEW d \in Domains, Seat(d)
  PROVE  EstInv'
<1>1. /\ chosen \in Seq(Domains \cup {NoDomain}) /\ Len(chosen) \in Nat
      /\ Len(chosen) + 1 <= Len(chain) /\ pc = "walk"
      /\ est \in [Domains \X Kinds -> Int]
      /\ \A e \in Domains, q \in Kinds :
           est[<<e, q>>] = Aggregate(residual)[<<e, q>>] - Demand(chain, chosen, e, q)
  BY DEF EstInv, Walking, next
<1>2. /\ UNCHANGED inputs /\ pc' = pc /\ chosen' = Append(chosen, d)
      /\ est' = [c \in DOMAIN est |-> IF c[1] = d THEN est[c] - chain[next][c[2]] ELSE est[c]]
  BY DEF Seat
<1>3. chain' = chain /\ residual' = residual
  BY <1>2, InputsStay
<1>4. /\ \A k \in 1 .. Len(chosen) + 1, q \in Kinds : chain[k][q] \in Nat
      /\ Len(chosen) + 1 \in 1 .. Len(chosen) + 1
  BY <1>1, InputFacts
<1>5. ASSUME NEW e \in Domains, NEW q \in Kinds
      PROVE  /\ est'[<<e, q>>] \in Int
             /\ est'[<<e, q>>] = Aggregate(residual)[<<e, q>>] - Demand(chain, Append(chosen, d), e, q)
  <2>1. Demand(chain, Append(chosen, d), e, q)
          = Demand(chain, chosen, e, q) + (IF d = e THEN chain[Len(chosen) + 1][q] ELSE 0)
    <3> DEFINE S == Domains \cup {NoDomain}
    <3>1. chosen \in Seq(S) /\ d \in S /\ \A k \in 1 .. Len(chosen) + 1 : chain[k][q] \in Nat
      BY <1>1, <1>4
    <3> HIDE DEF S
    <3> QED BY <3>1, DemandAppend
  <2>2. est'[<<e, q>>] = IF e = d THEN est[<<e, q>>] - chain[Len(chosen) + 1][q] ELSE est[<<e, q>>]
    <3>1. <<e, q>> \in DOMAIN est /\ <<e, q>>[1] = e /\ <<e, q>>[2] = q
      BY <1>1
    <3> QED BY <1>2, <3>1 DEF next
  <2>3. Demand(chain, chosen, e, q) \in Nat
    BY <1>1, <1>4, DemandType
  <2>4. Aggregate(residual)[<<e, q>>] \in Nat /\ chain[Len(chosen) + 1][q] \in Nat
    BY <1>4, InputFacts
  <2>5. est[<<e, q>>] = Aggregate(residual)[<<e, q>>] - Demand(chain, chosen, e, q)
    BY <1>1
  <2> QED BY <2>1, <2>2, <2>3, <2>4, <2>5
<1>6. est' \in [Domains \X Kinds -> Int]
  <2>1. DOMAIN est' = Domains \X Kinds /\ est' = [c \in Domains \X Kinds |-> est'[c]]
    BY <1>1, <1>2
  <2>2. \A c \in Domains \X Kinds : est'[c] \in Int
    <3> SUFFICES ASSUME NEW c \in Domains \X Kinds PROVE est'[c] \in Int
      OBVIOUS
    <3>1. c[1] \in Domains /\ c[2] \in Kinds /\ c = <<c[1], c[2]>>
      OBVIOUS
    <3> QED BY <1>5, <3>1
  <2> QED BY <2>1, <2>2
<1>7. chosen' \in Seq(Domains \cup {NoDomain}) /\ Len(chosen') = Len(chosen) + 1
  BY <1>1, <1>2
<1> QED BY <1>1, <1>2, <1>3, <1>5, <1>6, <1>7 DEF EstInv

\* A taker has room: not less than the VNF asks for, of either kind.
LEMMA TakersHaveRoom ==
  ASSUME InputsInv, EstInv, Walking, NEW d \in Takers(next)
  PROVE  /\ d \in Domains /\ Admissible(next, d)
         /\ program # "greedy" => \A q \in Kinds : chain[next][q] <= est[<<d, q>>]
<1>1. d \in Summarised /\ Admissible(next, d) /\ (program = "greedy" \/ Room(next, d) > 0)
  BY DEF Takers, Candidates
<1>2. d \in Domains
  BY <1>1 DEF Summarised
<1>3. next \in 1 .. Len(chain)
  BY InputFacts DEF EstInv, Walking, next
<1>4. ASSUME program # "greedy", NEW q \in Kinds PROVE chain[next][q] <= est[<<d, q>>]
  <2> DEFINE m(x) == est[<<d, x>>] - chain[next][x]
  <2>1. \A x \in Kinds : chain[next][x] \in Nat /\ est[<<d, x>>] \in Int
    BY <1>2, <1>3, InputFacts DEF EstInv
  <2>2. m("cpu") \in Int /\ m("ram") \in Int
    BY <2>1 DEF Kinds
  <2>3. {m(x) : x \in Kinds} = {m("cpu"), m("ram")}
    BY DEF Kinds
  <2>4. Room(next, d) = Min({m("cpu"), m("ram")})
    BY <2>3 DEF Room
  <2>5. Min({m("cpu"), m("ram")}) \in Int /\ m("cpu") >= Min({m("cpu"), m("ram")})
        /\ m("ram") >= Min({m("cpu"), m("ram")})
    <3> HIDE DEF m
    <3> QED BY <2>2, MinOfTwo
  <2>6. m("cpu") >= 0 /\ m("ram") >= 0
    <3> HIDE DEF m
    <3> QED BY <1>1, <1>4, <2>2, <2>4, <2>5
  <2>7. m(q) >= 0
    BY <2>6 DEF Kinds
  <2> QED BY <2>1, <2>7
<1> QED BY <1>1, <1>2, <1>4

\* One VNF of any walk, kept where it was authored or seated at a taker.
LEMMA SeatKeepsWalked ==
  ASSUME FitInv, Walking, NEW d \in Domains, Seat(d),
         \/ d \in Takers(next) /\ program \in Walkers \cup Repairs
         \/ program \in Repairs /\ d = authored[next]
  PROVE  WalkedInv'
<1> DEFINE n == Len(chosen) + 1
<1>1. /\ UNCHANGED inputs /\ chosen' = Append(chosen, d)
      /\ chosen \in Seq(Domains \cup {NoDomain})
      /\ n \in Nat /\ n \in 1 .. Len(chain) /\ next = n /\ DOMAIN chosen = 1 .. n - 1
      /\ DOMAIN chosen' = 1 .. n /\ chosen'[n] = d
      /\ \A k \in 1 .. n - 1 : chosen'[k] = chosen[k]
  <2>1. UNCHANGED inputs /\ chosen' = Append(chosen, d)
    BY DEF Seat
  <2>2. chosen \in Seq(Domains \cup {NoDomain}) /\ next <= Len(chain) /\ next = n
    BY DEF FitInv, EstInv, Walking, next
  <2>3. Len(chain) \in Nat
    BY InputFacts DEF FitInv
  <2> QED BY <2>1, <2>2, <2>3
<1>2. /\ chain' = chain /\ program' = program /\ authored' = authored /\ residual' = residual
      /\ \A k, e : Admissible(k, e)' <=> Admissible(k, e)
  BY <1>1, InputsStay DEF FitInv
<1>3. EstInv'
  BY SeatKeepsEst DEF FitInv
<1>4. /\ \A q \in Kinds : est'[<<d, q>>] = Aggregate(residual)[<<d, q>>] - Demand(chain, chosen', d, q)
      /\ \A q \in Kinds : est'[<<d, q>>] = est[<<d, q>>] - chain[n][q]
      /\ \A e \in Domains \ {d}, q \in Kinds : est'[<<e, q>>] = est[<<e, q>>]
  <2>1. \A q \in Kinds : est'[<<d, q>>] = Aggregate(residual)[<<d, q>>] - Demand(chain, chosen', d, q)
    BY <1>2, <1>3 DEF EstInv
  <2>2. /\ DOMAIN est = Domains \X Kinds
        /\ est' = [c \in DOMAIN est |-> IF c[1] = d THEN est[c] - chain[n][c[2]] ELSE est[c]]
    BY <1>1 DEF Seat, FitInv, EstInv
  <2> QED BY <2>1, <2>2
<1>5. \A q \in Kinds : /\ est[<<d, q>>] \in Int /\ chain[n][q] \in Nat
                       /\ Aggregate(residual)[<<d, q>>] \in Nat
                       /\ Demand(chain, chosen', d, q) \in Nat
  <2>1. \A q \in Kinds : est[<<d, q>>] \in Int
    BY DEF FitInv, EstInv
  <2>2. \A k \in 1 .. Len(chain), q \in Kinds : chain[k][q] \in Nat
    BY InputFacts DEF FitInv
  <2>3. \A q \in Kinds : Demand(chain, chosen', d, q) \in Nat
    <3>1. 1 .. n \subseteq 1 .. Len(chain)
      BY <1>1
    <3> QED BY <1>1, <2>2, <3>1, DemandType
  <2> QED BY <1>1, <2>1, <2>2, <2>3, InputFacts DEF FitInv
<1>6. d \in Takers(next) => /\ Admissible(n, d)
                            /\ program # "greedy" => \A q \in Kinds : est'[<<d, q>>] >= 0
  <2> SUFFICES ASSUME d \in Takers(next)
               PROVE  /\ Admissible(n, d)
                      /\ program # "greedy" => \A q \in Kinds : est'[<<d, q>>] >= 0
    OBVIOUS
  <2>1. /\ Admissible(n, d)
        /\ program # "greedy" => \A q \in Kinds : chain[n][q] <= est[<<d, q>>]
    BY <1>1, TakersHaveRoom DEF FitInv
  <2> QED BY <1>4, <1>5, <2>1
<1>7. program \in Walkers =>
        \A k \in DOMAIN chosen' : chosen'[k] \in Domains /\ Admissible(k, chosen'[k])
  <2> SUFFICES ASSUME program \in Walkers, NEW k \in 1 .. n
               PROVE  chosen'[k] \in Domains /\ Admissible(k, chosen'[k])
    BY <1>1, <1>2
  <2>1. CASE k = n
    BY <1>1, <1>6, <2>1 DEF Walkers, Repairs
  <2>2. CASE k \in 1 .. n - 1
    BY <1>1, <2>2 DEF FitInv, WalkedInv
  <2> QED BY <2>1, <2>2, <1>1
<1>8. program = "partial" =>
        \A k \in DOMAIN chosen', q \in Kinds : est'[<<chosen'[k], q>>] >= 0
  <2> SUFFICES ASSUME program = "partial", NEW k \in 1 .. n, NEW q \in Kinds
               PROVE  est'[<<chosen'[k], q>>] >= 0
    BY <1>1
  <2>0. est'[<<d, q>>] >= 0
    BY <1>6 DEF Repairs
  <2>1. CASE k = n
    BY <1>1, <2>0, <2>1
  <2>2. CASE k \in 1 .. n - 1
    <3>1. est[<<chosen[k], q>>] >= 0 /\ chosen[k] \in Domains
      BY <1>1, <2>2 DEF FitInv, WalkedInv, Walkers
    <3> QED BY <1>1, <1>4, <2>0, <2>2, <3>1
  <2>3. k = n \/ k \in 1 .. n - 1
    BY <1>1
  <2> QED BY <2>1, <2>2, <2>3
<1>9. program \in Repairs =>
        \A k \in DOMAIN chosen' : chosen'[k] # authored[k] =>
          /\ chosen'[k] \in Domains /\ Admissible(k, chosen'[k])
          /\ \A q \in Kinds : Demand(chain, SubSeq(chosen', 1, k), chosen'[k], q)
                                <= Aggregate(residual)[<<chosen'[k], q>>]
  <2> SUFFICES ASSUME program \in Repairs, NEW k \in 1 .. n, chosen'[k] # authored[k]
               PROVE  /\ chosen'[k] \in Domains /\ Admissible(k, chosen'[k])
                      /\ \A q \in Kinds : Demand(chain, SubSeq(chosen', 1, k), chosen'[k], q)
                                            <= Aggregate(residual)[<<chosen'[k], q>>]
    BY <1>1
  <2>1. CASE k = n
    <3>1. d \in Takers(next) /\ program # "greedy"
      BY <1>1, <2>1 DEF Repairs
    <3>2. SubSeq(chosen', 1, n) = chosen'
      BY <1>1
    <3>3. \A q \in Kinds : Demand(chain, chosen', d, q) <= Aggregate(residual)[<<d, q>>]
      <4> SUFFICES ASSUME NEW q \in Kinds
                   PROVE  Demand(chain, chosen', d, q) <= Aggregate(residual)[<<d, q>>]
        OBVIOUS
      <4>1. est'[<<d, q>>] >= 0
        BY <1>6, <3>1
      <4>2. est'[<<d, q>>] = Aggregate(residual)[<<d, q>>] - Demand(chain, chosen', d, q)
        BY <1>4
      <4>3. Aggregate(residual)[<<d, q>>] \in Nat /\ Demand(chain, chosen', d, q) \in Nat
        BY <1>5
      <4> QED BY <4>1, <4>2, <4>3
    <3> QED BY <1>1, <1>6, <2>1, <3>1, <3>2, <3>3
  <2>2. CASE k \in 1 .. n - 1
    <3>1. SubSeq(chosen', 1, k) = SubSeq(chosen, 1, k) /\ chosen'[k] = chosen[k]
      BY <1>1, <2>2
    <3> QED BY <1>1, <2>2, <3>1 DEF FitInv, WalkedInv
  <2> QED BY <2>1, <2>2, <1>1
<1> QED BY <1>2, <1>7, <1>8, <1>9 DEF WalkedInv
LEMMA FitInvInitial == Init => FitInv
<1> SUFFICES ASSUME Init PROVE FitInv
  OBVIOUS
<1>1. InputsInv
  BY DEF Init, InputsInv
<1>2. chosen = <<>> /\ est = Aggregate(residual) /\ pc = "start"
  BY DEF Init
<1>3. chosen \in Seq(Domains \cup {NoDomain}) /\ Len(chosen) = 0 /\ DOMAIN chosen = {}
  BY <1>2
<1>4. DOMAIN est = Domains \X Kinds /\ est = [c \in Domains \X Kinds |-> est[c]]
  BY <1>2 DEF Aggregate
<1>5. \A d \in Domains, q \in Kinds : est[<<d, q>>] \in Int /\ est[<<d, q>>] = est[<<d, q>>] - 0
  <2>1. \A d \in Domains, q \in Kinds : est[<<d, q>>] \in Nat
    BY <1>1, <1>2, InputFacts
  <2>2. \A e \in Nat : e \in Int /\ e = e - 0
    OBVIOUS
  <2> QED BY <2>1, <2>2
<1>6. est \in [Domains \X Kinds -> Int]
  <2> SUFFICES ASSUME NEW c \in Domains \X Kinds PROVE est[c] \in Int
    BY <1>4
  <2>1. c[1] \in Domains /\ c[2] \in Kinds /\ c = <<c[1], c[2]>>
    OBVIOUS
  <2> QED BY <1>5, <2>1
<1>7. EstInv
  BY <1>1, <1>2, <1>3, <1>5, <1>6, InputFacts, DemandOfNone DEF EstInv
<1>8. WalkedInv
  BY <1>3 DEF WalkedInv
<1> QED BY <1>1, <1>2, <1>7, <1>8 DEF FitInv

\* An answer from one of the origins.
LEMMA AnswerKeepsFit ==
  ASSUME FitInv, NEW p, Answer(p), plan' = p => Origin'
  PROVE  FitInv'
<1>1. UNCHANGED <<inputs, chosen, est>> /\ pc' = "done" /\ Origin'
  BY DEF Answer
<1>2. /\ InputsInv' /\ chain' = chain /\ program' = program /\ authored' = authored
      /\ residual' = residual
      /\ \A k, d : Admissible(k, d)' <=> Admissible(k, d)
  BY <1>1, InputsStay DEF FitInv
<1>3. EstInv'
  BY <1>1, <1>2 DEF FitInv, EstInv
<1>4. WalkedInv'
  BY <1>1, <1>2 DEF FitInv, WalkedInv
<1> QED BY <1>1, <1>2, <1>3, <1>4 DEF FitInv

LEMMA FitInvKept == FitInv /\ [Next]_vars => FitInv'
<1> SUFFICES ASSUME FitInv, [Next]_vars PROVE FitInv'
  OBVIOUS
<1>0. UNCHANGED inputs
  BY DEF Next, Decline, Enumerate, Collapse, BeginWalk, SeatBest, GiveUp, SkipUnknown,
         KeepAuthored, MoveVnf, FinishWalk, Answer, Seat, vars
<1>1. /\ InputsInv' /\ chain' = chain /\ program' = program /\ authored' = authored
      /\ residual' = residual /\ guardMode' = guardMode /\ slice' = slice
      /\ \A k, d : Admissible(k, d)' <=> Admissible(k, d)
      /\ \A d : Everywhere(d)' = Everywhere(d)
      /\ WholeChainHosts' = WholeChainHosts
  BY <1>0, InputsStay DEF FitInv
<1>2. ASSUME NEW p, Answer(p),
             \/ program \in Builders /\ p = NoPlan
             \/ program \in Repairs /\ p = authored
             \/ program \in {"full", "colo"} /\ \E d \in WholeChainHosts : p = Everywhere(d)
             \/ program = "exact" /\ p = ExactRepair(residual, chain, authored)
             \/ program \in {"fullobs", "oracle"} /\ CommittableOnes(guardMode, residual, chain) # {}
                  /\ p = IF program = "oracle" THEN Oracle(guardMode, residual, slice)
                         ELSE FullObs(guardMode, residual, slice)
      PROVE  FitInv'
  <2>1. plan' = p => Origin'
    BY <1>1, <1>2 DEF Origin
  <2> QED BY <1>2, <2>1, AnswerKeepsFit
<1>3. ASSUME NEW d \in Domains, Walking, Seat(d),
             \/ d \in Takers(next) /\ program \in Walkers \cup Repairs
             \/ program \in Repairs /\ d = authored[next]
      PROVE  FitInv'
  <2>1. EstInv' /\ WalkedInv'
    BY <1>3, SeatKeepsEst, SeatKeepsWalked DEF FitInv
  <2>2. pc' = pc /\ pc = "walk"
    BY <1>3 DEF Seat, Walking
  <2> QED BY <1>1, <2>1, <2>2 DEF FitInv
<1>4. ASSUME Decline PROVE FitInv'
  BY <1>2, <1>4 DEF Decline, Repairs
<1>5. ASSUME Enumerate PROVE FitInv'
  <2>1. CASE program = "exact" /\ Answer(ExactRepair(residual, chain, authored))
    BY <1>2, <2>1
  <2>2. CASE /\ program \in {"fullobs", "oracle"}
             /\ CommittableOnes(guardMode, residual, chain) = {} /\ Answer(NoPlan)
    BY <1>2, <2>2 DEF Builders
  <2>3. CASE /\ program \in {"fullobs", "oracle"}
             /\ CommittableOnes(guardMode, residual, chain) # {}
             /\ Answer(IF program = "oracle" THEN Oracle(guardMode, residual, slice)
                       ELSE FullObs(guardMode, residual, slice))
    BY <1>2, <2>3
  <2> QED BY <1>5, <2>1, <2>2, <2>3 DEF Enumerate
<1>6. ASSUME Collapse PROVE FitInv'
  <2>1. program \in {"full", "colo"} /\ program \in Repairs
    BY <1>6 DEF Collapse, Collapsible, Repairs
  <2> QED BY <1>2, <1>6, <2>1 DEF Collapse
<1>7. ASSUME BeginWalk PROVE FitInv'
  <2>1. UNCHANGED <<chosen, est>> /\ pc' = "walk"
    BY <1>7 DEF BeginWalk
  <2>2. EstInv'
    BY <1>1, <2>1 DEF FitInv, EstInv
  <2>3. WalkedInv'
    BY <1>1, <2>1 DEF FitInv, WalkedInv
  <2> QED BY <1>1, <1>7, <2>1, <2>2, <2>3 DEF FitInv, BeginWalk
<1>8. ASSUME SeatBest PROVE FitInv'
  <2>1. PICK d \in Takers(next) : Seat(d)
    BY <1>8 DEF SeatBest
  <2>2. Walking /\ program \in Walkers
    BY <1>8 DEF SeatBest
  <2>3. d \in Domains
    BY <2>2, TakersHaveRoom DEF FitInv
  <2> QED BY <1>3, <2>1, <2>2, <2>3
<1>9. ASSUME GiveUp PROVE FitInv'
  BY <1>2, <1>9 DEF GiveUp, Builders
<1>10. Walking /\ program \in Repairs /\ authored[next] # NoDomain => authored[next] \in Domains
  <2>1. program \in Repairs =>
          authored \in Seq(Domains \cup {NoDomain}) /\ DOMAIN authored = 1 .. Len(chain)
    BY InputFacts DEF FitInv
  <2>2. Walking => next \in 1 .. Len(chain)
    BY InputFacts DEF FitInv, EstInv, Walking, next
  <2> QED BY <2>1, <2>2
<1>11. ASSUME SkipUnknown PROVE FitInv'
  <2>1. /\ chosen \in Seq(Domains \cup {NoDomain}) /\ Len(chosen) + 1 <= Len(chain)
        /\ chosen' = Append(chosen, NoDomain) /\ est' = est /\ pc' = pc /\ pc = "walk"
        /\ program = "postdecode" /\ authored[Len(chosen) + 1] = NoDomain
    BY <1>11 DEF SkipUnknown, Walking, next, FitInv, EstInv
  <2>2. \A d \in Domains, q \in Kinds :
          Demand(chain, Append(chosen, NoDomain), d, q) = Demand(chain, chosen, d, q)
    <3> SUFFICES ASSUME NEW d \in Domains, NEW q \in Kinds
                 PROVE  Demand(chain, Append(chosen, NoDomain), d, q) = Demand(chain, chosen, d, q)
      OBVIOUS
    <3>1. \A k \in 1 .. Len(chosen) + 1 : chain[k][q] \in Nat
      BY <2>1, InputFacts DEF FitInv
    <3>2. Demand(chain, Append(chosen, NoDomain), d, q)
            = Demand(chain, chosen, d, q) + (IF NoDomain = d THEN chain[Len(chosen) + 1][q] ELSE 0)
      <4> DEFINE S == Domains \cup {NoDomain}
      <4>1. chosen \in Seq(S) /\ NoDomain \in S
        BY <2>1
      <4> HIDE DEF S
      <4> QED BY <3>1, <4>1, DemandAppend
    <3>3. Demand(chain, chosen, d, q) \in Nat
      BY <2>1, <3>1, DemandType
    <3> QED BY <3>2, <3>3, PartitioningAssumption
  <2>3. EstInv'
    BY <1>1, <2>1, <2>2 DEF FitInv, EstInv
  <2>4. \A k \in DOMAIN chosen' : chosen'[k] # authored[k] =>
          k \in DOMAIN chosen /\ chosen'[k] = chosen[k] /\ SubSeq(chosen', 1, k) = SubSeq(chosen, 1, k)
    BY <2>1
  <2>5. WalkedInv'
    <3>1. \A k \in DOMAIN chosen : chosen[k] # authored[k] =>
            /\ chosen[k] \in Domains /\ Admissible(k, chosen[k])
            /\ \A q \in Kinds : Demand(chain, SubSeq(chosen, 1, k), chosen[k], q)
                                  <= Aggregate(residual)[<<chosen[k], q>>]
      BY <2>1 DEF FitInv, WalkedInv, Repairs
    <3>2. \A k \in DOMAIN chosen' : chosen'[k] # authored'[k] =>
            /\ chosen'[k] \in Domains /\ Admissible(k, chosen'[k])
            /\ \A q \in Kinds : Demand(chain', SubSeq(chosen', 1, k), chosen'[k], q)
                                  <= Aggregate(residual')[<<chosen'[k], q>>]
      BY <1>1, <2>4, <3>1
    <3>3. program' = "postdecode" /\ program' \notin Walkers
      BY <1>1, <2>1 DEF Walkers
    <3> QED BY <1>1, <3>2, <3>3 DEF WalkedInv
  <2> QED BY <1>1, <2>1, <2>3, <2>5 DEF FitInv
<1>12. ASSUME KeepAuthored PROVE FitInv'
  BY <1>3, <1>10, <1>12 DEF KeepAuthored
<1>13. ASSUME MoveVnf PROVE FitInv'
  <2>1. /\ Walking /\ program \in Repairs /\ authored[next] \in Domains
        /\ \E d \in IF Takers(next) # {} THEN Takers(next) ELSE {authored[next]} : Seat(d)
    BY <1>10, <1>13 DEF MoveVnf
  <2>2. CASE \E d \in Takers(next) : Seat(d)
    <3>1. PICK d \in Takers(next) : Seat(d)
      BY <2>2
    <3>2. d \in Domains
      BY <2>1, TakersHaveRoom DEF FitInv
    <3> QED BY <1>3, <2>1, <3>1, <3>2
  <2>3. CASE Seat(authored[next])
    BY <1>3, <2>1, <2>3
  <2> QED BY <2>1, <2>2, <2>3
<1>14. ASSUME FinishWalk PROVE FitInv'
  <2>1. Answer(chosen) /\ pc = "walk" /\ Len(chosen) = Len(chain)
    BY <1>14, InputFacts DEF FinishWalk, next, FitInv, EstInv
  <2>2. program \in Walkers \cup {"guard", "full", "colo", "postdecode"}
    BY <1>14 DEF FinishWalk, FitInv
  <2>3. plan' = chosen => Origin'
    BY <1>1, <2>1, <2>2 DEF Origin, Answer
  <2> QED BY <2>1, <2>3, AnswerKeepsFit
<1>15. ASSUME UNCHANGED vars PROVE FitInv'
  <2>1. UNCHANGED <<pc, chosen, est, plan>>
    BY <1>15 DEF vars
  <2>2. EstInv' /\ WalkedInv'
    BY <1>1, <2>1 DEF FitInv, EstInv, WalkedInv
  <2>3. pc' = "done" => Origin'
    BY <1>1, <2>1 DEF FitInv, Origin
  <2> QED BY <1>1, <2>1, <2>2, <2>3 DEF FitInv
<1> QED
  BY <1>4, <1>5, <1>6, <1>7, <1>8, <1>9, <1>11, <1>12, <1>13, <1>14, <1>15 DEF Next
-----------------------------------------------------------------------------
(***************************************************************************)
(* The searches.  Each picks by two numbers and then by the order of the    *)
(* domains along the chain, which is a strict order on partitions: what is  *)
(* picked exists, whatever the numbers are.                                *)
(***************************************************************************)
Partitions(n) == [1 .. n -> Summarised]

LEMMA FiniteSummarised == IsFiniteSet(Summarised)
<1> DEFINE T == {DomainOf[n] : n \in Nodes}
<1>1. IsFiniteSet(T)
  BY TopologyAssumption, ImageIsFinite
<1>2. Summarised \in SUBSET T
  BY DEF Summarised, NodesIn
<1> HIDE DEF T
<1> QED BY <1>1, <1>2, FS_Subset

LEMMA FinitePartitions ==
  ASSUME NEW n \in Nat
  PROVE  IsFiniteSet(Partitions(n))
<1> DEFINE G == (1 .. n) \X Summarised
           f == [p \in Partitions(n) |-> {<<i, p[i]>> : i \in 1 .. n}]
<1>1. IsFiniteSet(SUBSET G)
  <2>1. IsFiniteSet(1 .. n)
    BY FS_Interval
  <2>2. IsFiniteSet(G)
    BY <2>1, FiniteSummarised, FS_Product
  <2> QED BY <2>2, FS_SUBSET
<1>2. ASSUME NEW p \in Partitions(n) PROVE f[p] \in SUBSET G
  BY DEF Partitions
<1>3. ASSUME NEW p \in Partitions(n), NEW r \in Partitions(n), f[p] = f[r] PROVE p = r
  <2> SUFFICES ASSUME NEW i \in 1 .. n PROVE p[i] = r[i]
    BY DEF Partitions
  <2>1. <<i, p[i]>> \in f[r]
    BY <1>3
  <2> QED BY <2>1
<1>4. f \in [Partitions(n) -> SUBSET G]
  <2>1. f = [p \in Partitions(n) |-> f[p]]
    OBVIOUS
  <2> HIDE DEF f, G
  <2> QED BY <1>2, <2>1
<1>5. f \in Injection(Partitions(n), SUBSET G)
  <2> HIDE DEF f, G
  <2> QED BY <1>3, <1>4 DEF Injection, IsInjective
<1> HIDE DEF f, G
<1> QED BY <1>1, <1>5, FS_Injection

LEMMA ModalTierType ==
  ASSUME NEW ns \in SUBSET Nodes, ns # {}
  PROVE  ModalTier(ns) \in Nat
<1> DEFINE T == TiersOf(ns)
           votes(t) == Cardinality({n \in ns : TierOf[n] = t})
           Top == {t \in T : \A u \in T : votes(u) <= votes(t)}
           R == {e \in T \X T : votes(e[1]) > votes(e[2])}
<1>1. IsFiniteSet(ns)
  BY TopologyAssumption, FS_Subset
<1>2. IsFiniteSet(T) /\ T \subseteq Nat /\ T # {}
  <2>1. IsFiniteSet({TierOf[n] : n \in ns})
    BY <1>1, ImageIsFinite
  <2> QED BY <2>1, TopologyAssumption DEF TiersOf
<1>3. \A t \in T : votes(t) \in Nat
  BY <1>1, FS_Subset, FS_CardinalityType
<1> HIDE DEF T, votes
<1>4. /\ \A t \in T : <<t, t>> \notin R
      /\ \A t, u, v \in T : <<t, u>> \in R /\ <<u, v>> \in R => <<t, v>> \in R
  BY <1>3
<1>5. \A t, u \in T : <<t, u>> \in R <=> votes(t) > votes(u)
  OBVIOUS
<1>6. PICK t \in T : \A u \in T : <<u, t>> \notin R
  <2> HIDE DEF R
  <2> QED BY <1>2, <1>4, LeastExists
<1>7. \A u \in T : ~(votes(u) > votes(t))
  BY <1>5, <1>6
<1>8. Top # {}
  BY <1>3, <1>7
<1>9. Top \in SUBSET Int /\ Top \in SUBSET T /\ IsFiniteSet(Top)
  <2>1. Top \in SUBSET T
    OBVIOUS
  <2> HIDE DEF Top
  <2>2. IsFiniteSet(Top)
    BY <1>2, <2>1, FS_Subset
  <2>3. Top \in SUBSET Int
    BY <1>2, <2>1
  <2> QED BY <2>1, <2>2, <2>3
<1>10. Min(Top) \in Top
  <2> HIDE DEF Top
  <2> QED BY <1>8, <1>9, MinOfInts
<1>11. ModalTier(ns) = Min(Top)
  BY DEF ModalTier, T, votes
<1> QED BY <1>2, <1>9, <1>10, <1>11

LEMMA BeforeOrders ==
  /\ \A d \in Summarised : ~Before(d, d)
  /\ \A d, e, f \in Summarised : Before(d, e) /\ Before(e, f) => Before(d, f)
  /\ \A d, e \in Summarised : d = e \/ Before(d, e) \/ Before(e, d)
<1> DEFINE tier(d) == ModalTier(NodesIn(d))
<1>1. \A d \in Summarised : tier(d) \in Nat /\ d \in Nat
  <2> SUFFICES ASSUME NEW d \in Summarised PROVE tier(d) \in Nat /\ d \in Nat
    OBVIOUS
  <2>1. NodesIn(d) \in SUBSET Nodes /\ NodesIn(d) # {} /\ d \in Domains
    BY DEF Summarised, NodesIn
  <2> QED BY <2>1, ModalTierType, PartitioningAssumption
<1>2. \A d, e : Before(d, e) <=> tier(d) < tier(e) \/ (tier(d) = tier(e) /\ d < e)
  BY DEF Before
<1> HIDE DEF tier
<1> QED BY <1>1, <1>2

LEMMA EarlierOrders ==
  ASSUME NEW n \in Nat
  PROVE  /\ \A p \in Partitions(n) : ~Earlier(p, p)
         /\ \A p, q, r \in Partitions(n) : Earlier(p, q) /\ Earlier(q, r) => Earlier(p, r)
         /\ \A p, q \in Partitions(n) : p = q \/ Earlier(p, q) \/ Earlier(q, p)
<1>1. \A p \in Partitions(n) : DOMAIN p = 1 .. n /\ \A k \in 1 .. n : p[k] \in Summarised
  BY DEF Partitions
<1>2. ASSUME NEW p \in Partitions(n) PROVE ~Earlier(p, p)
  BY <1>1, BeforeOrders DEF Earlier
<1>3. ASSUME NEW p \in Partitions(n), NEW q \in Partitions(n), NEW r \in Partitions(n),
             Earlier(p, q), Earlier(q, r)
      PROVE  Earlier(p, r)
  <2>1. PICK k \in 1 .. n : Before(p[k], q[k]) /\ \A i \in 1 .. k - 1 : p[i] = q[i]
    BY <1>1, <1>3 DEF Earlier
  <2>2. PICK j \in 1 .. n : Before(q[j], r[j]) /\ \A i \in 1 .. j - 1 : q[i] = r[i]
    BY <1>1, <1>3 DEF Earlier
  <2>3. CASE k < j
    <3>1. q[k] = r[k] /\ \A i \in 1 .. k - 1 : p[i] = r[i]
      BY <2>1, <2>2, <2>3
    <3> QED BY <1>1, <2>1, <3>1 DEF Earlier
  <2>4. CASE j < k
    <3>1. p[j] = q[j] /\ \A i \in 1 .. j - 1 : p[i] = r[i]
      BY <2>1, <2>2, <2>4
    <3> QED BY <1>1, <2>2, <3>1 DEF Earlier
  <2>5. CASE j = k
    <3>1. Before(p[k], r[k])
      BY <1>1, <2>1, <2>2, <2>5, BeforeOrders
    <3>2. \A i \in 1 .. k - 1 : p[i] = r[i]
      BY <2>1, <2>2, <2>5
    <3> QED BY <1>1, <3>1, <3>2 DEF Earlier
  <2> QED BY <2>3, <2>4, <2>5
<1>4. ASSUME NEW p \in Partitions(n), NEW q \in Partitions(n), p # q
      PROVE  Earlier(p, q) \/ Earlier(q, p)
  <2> DEFINE D == {k \in 1 .. n : p[k] # q[k]}
  <2>1. D # {}
    BY <1>4 DEF Partitions
  <2>2. D \in SUBSET Int /\ IsFiniteSet(D)
    <3>1. IsFiniteSet(1 .. n) /\ D \in SUBSET (1 .. n)
      BY FS_Interval
    <3> QED BY <3>1, FS_Subset
  <2>3. Min(D) \in D /\ \A i \in D : Min(D) <= i
    <3> HIDE DEF D
    <3> QED BY <2>1, <2>2, MinOfInts
  <2>4. PICK k \in 1 .. n : p[k] # q[k] /\ \A i \in D : k <= i
    BY <2>3
  <2>5. \A i \in 1 .. k - 1 : p[i] = q[i] /\ q[i] = p[i]
    BY <2>4
  <2>6. Before(p[k], q[k]) \/ Before(q[k], p[k])
    BY <1>1, <2>4, BeforeOrders
  <2> QED BY <1>1, <2>5, <2>6 DEF Earlier
<1> QED BY <1>2, <1>3, <1>4

\* The order of the searches: by two numbers, and then Earlier.
Preferred(a, b, p, q) ==
  \/ a[p] < a[q]
  \/ a[p] = a[q] /\ b[p] < b[q]
  \/ a[p] = a[q] /\ b[p] = b[q] /\ Earlier(p, q)

\* Of finitely many partitions one is least in it.
LEMMA LeastPartition ==
  ASSUME NEW n \in Nat, NEW F \in SUBSET Partitions(n), F # {},
         NEW a \in [F -> Int], NEW b \in [F -> Int]
  PROVE  \E p \in F : \A q \in F \ {p} : Preferred(a, b, p, q)
<1> DEFINE L(p, q) == Preferred(a, b, p, q)
           R == {e \in F \X F : L(e[1], e[2])}
<1>1. IsFiniteSet(F)
  BY FinitePartitions, FS_Subset
<1>2. \A p \in F : a[p] \in Int /\ b[p] \in Int
  OBVIOUS
<1>3. /\ \A p \in F : ~Earlier(p, p)
      /\ \A p, q, r \in F : Earlier(p, q) /\ Earlier(q, r) => Earlier(p, r)
      /\ \A p, q \in F : p = q \/ Earlier(p, q) \/ Earlier(q, p)
  BY EarlierOrders
<1>4. /\ \A p \in F : ~L(p, p)
      /\ \A p, q, r \in F : L(p, q) /\ L(q, r) => L(p, r)
      /\ \A p, q \in F : p = q \/ L(p, q) \/ L(q, p)
  BY <1>2, <1>3 DEF Preferred
<1> HIDE DEF L
<1>5. \A p, q \in F : <<p, q>> \in R <=> L(p, q)
  OBVIOUS
<1> HIDE DEF R
<1>6. \E p \in F : \A q \in F : <<q, p>> \notin R
  <2>1. /\ \A p \in F : <<p, p>> \notin R
        /\ \A p, q, r \in F : <<p, q>> \in R /\ <<q, r>> \in R => <<p, r>> \in R
    BY <1>4, <1>5
  <2> QED BY <1>1, <2>1, LeastExists
<1>7. PICK p \in F : \A q \in F : ~L(q, p)
  BY <1>5, <1>6
<1>8. \A q \in F \ {p} : L(p, q)
  BY <1>4, <1>7
<1> QED BY <1>8 DEF L
-----------------------------------------------------------------------------
(***************************************************************************)
(* What the searches rank by are numbers.                                   *)
(***************************************************************************)
LEMMA LeastBy ==
  ASSUME NEW T, IsFiniteSet(T), T # {}, NEW f, \A t \in T : f[t] \in Int
  PROVE  \E t \in T : \A u \in T : f[t] <= f[u]
<1> DEFINE S == {f[t] : t \in T}
<1>1. S \in SUBSET Int /\ IsFiniteSet(S) /\ S # {}
  BY ImageIsFinite
<1>2. Min(S) \in S /\ \A y \in S : Min(S) <= y
  <2> HIDE DEF S
  <2> QED BY <1>1, MinOfInts
<1> QED BY <1>2

LEMMA SpreadType ==
  ASSUME NEW n \in Nat, NEW p \in Partitions(n)
  PROVE  Spread(p) \in Nat
<1>1. IsFiniteSet(1 .. n) /\ DOMAIN p = 1 .. n
  BY FS_Interval DEF Partitions
<1>2. IsFiniteSet(Range(p))
  BY <1>1, ImageIsFinite DEF Range
<1> QED BY <1>2, FS_CardinalityType DEF Spread

LEMMA EditsType ==
  ASSUME NEW n \in Nat, NEW p \in Partitions(n), NEW q
  PROVE  Edits(p, q) \in Nat
<1>1. IsFiniteSet(1 .. n) /\ DOMAIN p = 1 .. n
  BY FS_Interval DEF Partitions
<1>2. IsFiniteSet({k \in DOMAIN p : p[k] # q[k]})
  BY <1>1, FS_Subset
<1> QED BY <1>2, FS_CardinalityType DEF Edits

LEMMA HeadroomType ==
  ASSUME InputsInv, NEW p \in Partitions(Len(chain))
  PROVE  Headroom(residual, chain, p) \in Int
<1> DEFINE h == [d \in Range(p) |-> Aggregate(residual)[<<d, "cpu">>] - Demand(chain, p, d, "cpu")]
           S == {h[d] : d \in Range(p)}
<1>1. /\ Len(chain) \in Nat /\ Len(chain) > 0 /\ IsFiniteSet(1 .. Len(chain))
      /\ DOMAIN p = 1 .. Len(chain) /\ Range(p) \subseteq Domains
  <2>1. Len(chain) \in Nat /\ Len(chain) > 0
    BY InputFacts
  <2>2. IsFiniteSet(1 .. Len(chain))
    BY <2>1, FS_Interval
  <2> QED BY <2>1, <2>2 DEF Partitions, Summarised, Range
<1>2. IsFiniteSet(Range(p)) /\ Range(p) # {}
  BY <1>1, ImageIsFinite DEF Range
<1>3. \A d \in Range(p) : h[d] \in Int
  <2> SUFFICES ASSUME NEW d \in Range(p)
               PROVE  Aggregate(residual)[<<d, "cpu">>] - Demand(chain, p, d, "cpu") \in Int
    OBVIOUS
  <2>1. "cpu" \in Kinds
    BY DEF Kinds
  <2>2. Demand(chain, p, d, "cpu") \in Nat
    BY <1>1, <2>1, InputFacts, DemandType
  <2>3. Aggregate(residual)[<<d, "cpu">>] \in Nat
    BY <1>1, <2>1, InputFacts
  <2> QED BY <2>2, <2>3
<1>4. Headroom(residual, chain, p) = Min(S)
  BY DEF Headroom
<1>5. S \in SUBSET Int /\ IsFiniteSet(S) /\ S # {}
  <2> HIDE DEF h
  <2> QED BY <1>2, <1>3, ImageIsFinite
<1> HIDE DEF S
<1> QED BY <1>4, <1>5, MinOfInts

LEMMA CheapestIsOne ==
  ASSUME InputsInv, NEW F \in SUBSET Partitions(Len(chain)), F # {}
  PROVE  Cheapest(residual, chain, F) \in F
<1> DEFINE a == [p \in F |-> Spread(p)]
           b == [p \in F |-> -Headroom(residual, chain, p)]
<1>1. Len(chain) \in Nat
  BY InputFacts
<1>2. \A p \in F : Spread(p) \in Int /\ Headroom(residual, chain, p) \in Int
  BY <1>1, SpreadType, HeadroomType
<1>3. a \in [F -> Int] /\ b \in [F -> Int]
  BY <1>2
<1>4. \E p \in F : \A q \in F \ {p} : Preferred(a, b, p, q)
  <2>1. F \subseteq Partitions(Len(chain)) /\ F # {}
    OBVIOUS
  <2> DEFINE n == Len(chain)
  <2>2. n \in Nat /\ F \subseteq Partitions(n)
    BY <1>1, <2>1
  <2> HIDE DEF a, b, n
  <2> QED BY <1>3, <2>1, <2>2, LeastPartition
<1>5. \E p \in F : \A q \in F \ {p} : Cheaper(residual, chain, p, q)
  <2>1. PICK p \in F : \A q \in F \ {p} : Preferred(a, b, p, q)
    BY <1>4
  <2>2. \A q \in F \ {p} : Cheaper(residual, chain, p, q)
    BY <1>2, <2>1 DEF Cheaper, Preferred
  <2> QED BY <2>2
<1> QED BY <1>5 DEF Cheapest

LEMMA CommittablePartitions ==
  ASSUME InputsInv, NEW g
  PROVE  CommittableOnes(g, residual, chain)
           = {p \in Partitions(Len(chain)) : Committable(g, residual, chain, p)}
BY InputFacts DEF CommittableOnes, Partitions

LEMMA FullObsIsOne ==
  ASSUME InputsInv, CommittableOnes(guardMode, residual, chain) # {}
  PROVE  FullObs(guardMode, residual, slice) \in CommittableOnes(guardMode, residual, chain)
<1> DEFINE F == CommittableOnes(guardMode, residual, chain)
           top == {p \in F : Cardinality({q \in F : Cheaper(residual, chain, q, p)}) < DelayTop}
           good == {p \in top : InBudget(residual, slice, p)}
<1>1. F \in SUBSET Partitions(Len(chain))
  BY CommittablePartitions
<1>2. FullObs(guardMode, residual, slice)
        = IF good # {} THEN Cheapest(residual, chain, good) ELSE Cheapest(residual, chain, F)
  BY DEF FullObs, chain
<1>3. good \in SUBSET F
  OBVIOUS
<1>4. F # {}
  OBVIOUS
<1> HIDE DEF F, good
<1>5. good # {} => Cheapest(residual, chain, good) \in good
  BY <1>1, <1>3, CheapestIsOne
<1>6. Cheapest(residual, chain, F) \in F
  BY <1>1, <1>4, CheapestIsOne
<1> QED BY <1>2, <1>3, <1>5, <1>6 DEF F
-----------------------------------------------------------------------------
(***************************************************************************)
(* The predicted delay of a partition is a number.                          *)
(***************************************************************************)
LEMMA PlacedType ==
  ASSUME InputsInv, NEW p \in Partitions(Len(chain)), NEW k \in 1 .. Len(chain),
         NEW before \in Seq(Nodes), Len(before) <= k - 1
  PROVE  /\ Placed(residual, chain, p, before, k) \in Seq(Nodes)
         /\ Len(Placed(residual, chain, p, before, k)) <= k
<1> DEFINE m(n, q) == (residual[<<n, q>>] - Demand(chain, before, n, q)) - chain[k][q]
           slack(n) == Min({m(n, q) : q \in Kinds})
           fits == {n \in NodesIn(p[k]) \cap chain[k].permitted : slack(n) >= 0}
           best == CHOOSE n \in fits : \A e \in fits : slack(n) <= slack(e)
<1>1. Placed(residual, chain, p, before, k) =
        IF Len(before) < k - 1 \/ fits = {} THEN before ELSE Append(before, best)
  BY DEF Placed
<1>2. /\ Len(chain) \in Nat /\ k \in Nat /\ Len(before) \in Nat
      /\ \A j \in 1 .. Len(chain), q \in Kinds : chain[j][q] \in Nat
      /\ \A c \in Cells : residual[c] \in Nat
  BY InputFacts
<1>3. ASSUME NEW n \in Nodes, NEW q \in Kinds PROVE m(n, q) \in Int
  <2>1. <<n, q>> \in Cells
    BY DEF Cells, NodeCells
  <2>2. Demand(chain, before, n, q) \in Nat
    <3>1. DOMAIN before = 1 .. Len(before) /\ \A j \in 1 .. Len(before) : chain[j][q] \in Nat
      BY <1>2
    <3> QED BY <1>2, <3>1, DemandType
  <2>3. residual[<<n, q>>] \in Nat /\ chain[k][q] \in Nat
    BY <1>2, <2>1
  <2> QED BY <2>2, <2>3
<1> HIDE DEF m
<1>4. ASSUME NEW n \in Nodes PROVE slack(n) \in Int
  <2>1. m(n, "cpu") \in Int /\ m(n, "ram") \in Int
    BY <1>3 DEF Kinds
  <2>2. {m(n, q) : q \in Kinds} = {m(n, "cpu"), m(n, "ram")}
    BY DEF Kinds
  <2>3. slack(n) \in {m(n, "cpu"), m(n, "ram")}
    BY <2>1, <2>2, MinOfTwo
  <2> QED BY <2>1, <2>3
<1> HIDE DEF slack
<1>5. fits \subseteq Nodes /\ IsFiniteSet(fits)
  <2>1. fits \in SUBSET Nodes
    BY DEF NodesIn
  <2> HIDE DEF fits
  <2> QED BY <2>1, TopologyAssumption, FS_Subset
<1>6. fits # {} => best \in fits
  <2> SUFFICES ASSUME fits # {} PROVE best \in fits
    OBVIOUS
  <2> DEFINE f == [n \in fits |-> slack(n)]
  <2>1. \A n \in fits : f[n] \in Int
    BY <1>4, <1>5
  <2>2. \E n \in fits : \A e \in fits : f[n] <= f[e]
    <3> HIDE DEF f, fits
    <3> QED BY <1>5, <2>1, LeastBy
  <2>3. \E n \in fits : \A e \in fits : slack(n) <= slack(e)
    BY <2>2
  <2> HIDE DEF fits
  <2> QED BY <2>3
<1> HIDE DEF fits, best
<1>7. CASE Len(before) < k - 1 \/ fits = {}
  BY <1>1, <1>2, <1>7
<1>8. CASE ~(Len(before) < k - 1 \/ fits = {})
  <2>1. best \in Nodes
    BY <1>5, <1>6, <1>8
  <2> QED BY <1>1, <1>2, <1>8, <2>1
<1> QED BY <1>7, <1>8

\* The table Hosts fills, VNF by VNF.
IsHosts(g, p, n) ==
  g = [k \in 0 .. n |-> IF k = 0 THEN <<>> ELSE Placed(residual, chain, p, g[k - 1], k)]

LEMMA HostsTableExists ==
  ASSUME NEW p, NEW n \in Nat
  PROVE  \E g : IsHosts(g, p, n)
<1> DEFINE D == {k \in 0 .. n : ~ \E g : IsHosts(g, p, k)}
<1> SUFFICES ASSUME D # {} PROVE FALSE
  <2>1. n \in 0 .. n
    OBVIOUS
  <2> QED BY <2>1
<1>1. D \in SUBSET Int /\ IsFiniteSet(D)
  <2>1. IsFiniteSet(0 .. n) /\ D \in SUBSET (0 .. n)
    BY FS_Interval
  <2>2. IsFiniteSet(D)
    <3> HIDE DEF D
    <3> QED BY <2>1, FS_Subset
  <2> QED BY <2>1, <2>2
<1>2. Min(D) \in D /\ \A i \in D : Min(D) <= i
  <2> HIDE DEF D
  <2> QED BY <1>1, MinOfInts
<1>3. PICK k \in 0 .. n : (~ \E g : IsHosts(g, p, k)) /\ \A i \in D : k <= i
  BY <1>2
<1>4. CASE k = 0
  <2> DEFINE g == [j \in 0 .. 0 |-> <<>>]
  <2>1. g = [j \in 0 .. 0 |-> IF j = 0 THEN <<>> ELSE Placed(residual, chain, p, g[j - 1], j)]
    BY \A j \in 0 .. 0 : j = 0
  <2> HIDE DEF g
  <2>2. IsHosts(g, p, 0)
    BY <2>1 DEF IsHosts
  <2> QED BY <1>3, <1>4, <2>2
<1>5. CASE k # 0
  <2>1. k \in Nat /\ k - 1 \in 0 .. n /\ k - 1 \notin D
    BY <1>3, <1>5
  <2>2. PICK h : IsHosts(h, p, k - 1)
    BY <2>1
  <2> DEFINE last == Placed(residual, chain, p, h[k - 1], k)
             g == [j \in 0 .. k |-> IF j = k THEN last ELSE h[j]]
  <2>3. \A j \in 0 .. k - 1 :
          h[j] = IF j = 0 THEN <<>> ELSE Placed(residual, chain, p, h[j - 1], j)
    BY <2>2 DEF IsHosts
  <2>4. /\ \A j \in 0 .. k - 1 : g[j] = h[j]
        /\ g[k] = last
    BY <2>1
  <2>5. \A j \in 0 .. k : g[j] = IF j = 0 THEN <<>> ELSE Placed(residual, chain, p, g[j - 1], j)
    <3> SUFFICES ASSUME NEW j \in 0 .. k
                 PROVE  g[j] = IF j = 0 THEN <<>> ELSE Placed(residual, chain, p, g[j - 1], j)
      OBVIOUS
    <3> HIDE DEF g
    <3>1. CASE j = k
      <4>1. g[k - 1] = h[k - 1]
        BY <2>1, <2>4
      <4> QED BY <1>5, <2>4, <3>1, <4>1
    <3>2. CASE j \in 0 .. k - 1 /\ j # 0
      <4>1. g[j - 1] = h[j - 1]
        BY <2>4, <3>2
      <4> QED BY <2>3, <2>4, <3>2, <4>1
    <3>3. CASE j \in 0 .. k - 1 /\ j = 0
      BY <2>3, <2>4, <3>3
    <3>4. j = k \/ j \in 0 .. k - 1
      BY <2>1
    <3> QED BY <3>1, <3>2, <3>3, <3>4
  <2>6. g = [j \in 0 .. k |-> g[j]]
    OBVIOUS
  <2> HIDE DEF g
  <2>7. IsHosts(g, p, k)
    BY <2>5, <2>6 DEF IsHosts
  <2> QED BY <1>3, <2>7
<1> QED BY <1>4, <1>5

LEMMA HostsType ==
  ASSUME InputsInv, NEW p \in Partitions(Len(chain))
  PROVE  Hosts(residual, chain, p) \in Seq(Nodes) /\ Len(Hosts(residual, chain, p)) <= Len(chain)
<1> DEFINE N == Len(chain)
           h == CHOOSE g : IsHosts(g, p, N)
           Typed(k) == h[k] \in Seq(Nodes) /\ Len(h[k]) <= k
           D == {k \in 0 .. N : ~Typed(k)}
<1>1. N \in Nat
  BY InputFacts
<1>2. IsHosts(h, p, N)
  BY <1>1, HostsTableExists
<1>3. Hosts(residual, chain, p) = h[N]
  BY DEF Hosts, IsHosts
<1> HIDE DEF h
<1>4. h[0] = <<>> /\ \A k \in 1 .. N : h[k] = Placed(residual, chain, p, h[k - 1], k)
  BY <1>1, <1>2 DEF IsHosts
<1> HIDE DEF N
<1>5. D = {}
  <2> SUFFICES ASSUME D # {} PROVE FALSE
    OBVIOUS
  <2>1. D \in SUBSET Int /\ IsFiniteSet(D)
    <3>1. IsFiniteSet(0 .. N) /\ D \in SUBSET (0 .. N)
      BY <1>1, FS_Interval
    <3>2. IsFiniteSet(D)
      <4> HIDE DEF D
      <4> QED BY <3>1, FS_Subset
    <3> QED BY <3>1, <3>2
  <2>2. Min(D) \in D /\ \A i \in D : Min(D) <= i
    <3> HIDE DEF D
    <3> QED BY <2>1, MinOfInts
  <2>3. PICK k \in 0 .. N : ~Typed(k) /\ \A i \in D : k <= i
    BY <2>2
  <2>4. Typed(0)
    BY <1>4
  <2>5. k \in 1 .. N /\ k - 1 \in 0 .. N /\ k - 1 \notin D
    BY <1>1, <2>3, <2>4
  <2>6. h[k - 1] \in Seq(Nodes) /\ Len(h[k - 1]) <= k - 1
    BY <2>5
  <2>7. Typed(k)
    BY <1>4, <2>5, <2>6, PlacedType DEF N
  <2> QED BY <2>3, <2>7
<1>6. Typed(N)
  <2>1. N \in 0 .. N
    BY <1>1
  <2> QED BY <1>5, <2>1
<1> QED BY <1>3, <1>6 DEF N
LEMMA FiniteLinksBetween == ASSUME NEW d, NEW e PROVE IsFiniteSet(LinksBetween(d, e))
  BY FiniteLinks, FS_Subset DEF LinksBetween

LEMMA BestLinkIsOne ==
  ASSUME InputsInv, NEW d, NEW e, LinksBetween(d, e) # {}
  PROVE  BestLink(residual, d, e) \in Links
<1> DEFINE ls == LinksBetween(d, e)
           f == [l \in ls |-> -residual[l]]
<1>1. ls \subseteq Links /\ IsFiniteSet(ls) /\ ls # {}
  <2>1. LinksBetween(d, e) \subseteq Links
    BY DEF LinksBetween
  <2> QED BY <2>1, FiniteLinksBetween
<1>2. \A l \in ls : residual[l] \in Nat
  BY <1>1, InputFacts DEF Cells
<1>3. \A l \in ls : f[l] \in Int
  BY <1>2
<1>4. \E l \in ls : \A m \in ls : f[l] <= f[m]
  <2> HIDE DEF f, ls
  <2> QED BY <1>1, <1>3, LeastBy
<1>5. \E l \in ls : \A m \in ls : residual[m] <= residual[l]
  <2>1. PICK l \in ls : \A m \in ls : f[l] <= f[m]
    BY <1>4
  <2>2. \A m \in ls : -residual[l] <= -residual[m]
    BY <2>1
  <2> HIDE DEF f, ls
  <2> QED BY <1>2, <2>2
<1> QED BY <1>1, <1>5 DEF BestLink

LEMMA SojournType ==
  ASSUME NEW base \in Nat, NEW unit \in Nat, NEW headroom \in Int
  PROVE  Sojourn(base, unit, headroom) \in Nat
<1>1. headroom > 0 => unit \div headroom \in Nat
  OBVIOUS
<1> QED BY <1>1 DEF Sojourn

LEMMA PredictedDelayType ==
  ASSUME InputsInv, NEW p \in Partitions(Len(chain)), Servable(residual, slice, p)
  PROVE  PredictedDelay(residual, slice, p) \in Nat
<1> DEFINE hosts == Hosts(residual, chain, p)
           nodes == [k \in DOMAIN hosts |-> NodeDelay(residual, slice, hosts, k)]
           links == [f \in Crossings(p) |-> LinkDelay(residual, slice, p, f)]
<1>1. /\ Len(chain) \in Nat /\ chain = slice.vnfs /\ chain \in Seq(VnfType)
      /\ \A k \in 1 .. Len(chain), q \in Kinds : chain[k][q] \in Nat
      /\ \A c \in Cells : residual[c] \in Nat
  BY InputFacts DEF chain
<1>2. hosts \in Seq(Nodes) /\ Len(hosts) \in Nat /\ Len(hosts) <= Len(chain)
  BY HostsType
<1> HIDE DEF hosts
<1>3. ASSUME NEW k \in DOMAIN hosts PROVE NodeDelay(residual, slice, hosts, k) \in Nat
  <2>1. hosts[k] \in Nodes /\ k \in 1 .. Len(chain)
    BY <1>1, <1>2
  <2>2. chain[k].intensity \in Nat
    <3>1. chain[k] \in VnfType
      BY <1>1, <2>1
    <3> QED BY <3>1 DEF VnfType
  <2>3. ProcDelay[hosts[k]] \in Nat
    BY <2>1, TopologyAssumption
  <2>4. ProcDelay[hosts[k]] * chain[k].intensity \in Nat
    BY <2>2, <2>3
  <2>5. "cpu" \in Kinds /\ <<hosts[k], "cpu">> \in Cells
    BY <2>1 DEF Cells, NodeCells, Kinds
  <2>6. residual[<<hosts[k], "cpu">>] \in Nat /\ chain[k].cpu \in Nat
    BY <1>1, <2>1, <2>5
  <2>7. NodeHeadroom(residual, chain, hosts, k) \in Int
    BY <2>6 DEF NodeHeadroom
  <2> QED BY <1>1, <2>4, <2>7, SojournType, PartitioningAssumption DEF NodeDelay
<1>4. ASSUME NEW f \in Crossings(p) PROVE LinkDelay(residual, slice, p, f) \in Nat
  <2>1. LinksBetween(p[f], p[f + 1]) # {}
    BY <1>4 DEF Servable
  <2> DEFINE l == BestLink(residual, p[f], p[f + 1])
  <2>2. l \in Links
    BY <2>1, BestLinkIsOne
  <2> HIDE DEF l
  <2>3. PropDelay[l] \in Nat /\ residual[l] \in Nat
    BY <1>1, <2>2, TopologyAssumption DEF Cells
  <2>4. slice.bw[f] \in Nat
    <3>1. slice.bw \in Seq(Nat) /\ Len(slice.bw) = Len(chain) - 1
      BY BuildersAssumption DEF InputsInv, chain
    <3>2. f \in 1 .. Len(p) - 1 /\ Len(p) = Len(chain)
      BY <1>1 DEF Crossings, Partitions
    <3>3. f \in 1 .. Len(slice.bw)
      BY <1>1, <3>1, <3>2
    <3> HIDE DEF Crossings
    <3> QED BY <3>1, <3>3
  <2>5. LinkHeadroom(residual, slice, p, f) \in Int
    BY <2>3, <2>4 DEF LinkHeadroom, l
  <2> QED BY <2>3, <2>5, SojournType, PartitioningAssumption DEF LinkDelay, l
<1>5. IsFiniteSet(DOMAIN hosts) /\ IsFiniteSet(Crossings(p))
  <2>1. IsFiniteSet(1 .. Len(hosts)) /\ DOMAIN hosts = 1 .. Len(hosts)
    BY <1>2, FS_Interval
  <2>2. Len(p) - 1 \in Int
    BY <1>1 DEF Partitions
  <2>3. IsFiniteSet(1 .. Len(p) - 1) /\ Crossings(p) \in SUBSET (1 .. Len(p) - 1)
    BY <2>2, FS_Interval DEF Crossings
  <2> QED BY <2>1, <2>3, FS_Subset
<1>6. (\A k \in DOMAIN hosts : nodes[k] \in Nat) /\ (\A f \in Crossings(p) : links[f] \in Nat)
  BY <1>3, <1>4
<1>7. PredictedDelay(residual, slice, p)
        = SumFunctionOnSet(nodes, DOMAIN hosts) + SumFunctionOnSet(links, Crossings(p))
  BY <1>1 DEF PredictedDelay, hosts
<1>8. SumFunctionOnSet(nodes, DOMAIN hosts) \in Nat /\ SumFunctionOnSet(links, Crossings(p)) \in Nat
  <2> HIDE DEF nodes, links
  <2> QED BY <1>5, <1>6, SumType
<1> HIDE DEF nodes, links
<1> QED BY <1>7, <1>8

\* The oracle picks a committable partition: of those in budget, if there are
\* any, one over no more domains than any other.
LEMMA OracleIsBest ==
  ASSUME InputsInv, CommittableOnes(guardMode, residual, chain) # {}
  PROVE  /\ Oracle(guardMode, residual, slice) \in CommittableOnes(guardMode, residual, chain)
         /\ \A q \in CommittableOnes(guardMode, residual, chain) : InBudget(residual, slice, q) =>
              /\ InBudget(residual, slice, Oracle(guardMode, residual, slice))
              /\ Spread(Oracle(guardMode, residual, slice)) <= Spread(q)
<1> DEFINE F == CommittableOnes(guardMode, residual, chain)
           good == {p \in F : InBudget(residual, slice, p)}
           delay(p) == PredictedDelay(residual, slice, p)
           O == Oracle(guardMode, residual, slice)
           Least(p) == \A q \in good \ {p} :
             \/ Spread(p) < Spread(q)
             \/ Spread(p) = Spread(q) /\ delay(p) < delay(q)
             \/ Spread(p) = Spread(q) /\ delay(p) = delay(q) /\ Earlier(p, q)
<1>1. F \in SUBSET Partitions(Len(chain)) /\ F # {} /\ Len(chain) \in Nat
  BY CommittablePartitions, InputFacts
<1>2. O = IF good = {} THEN Cheapest(residual, chain, F) ELSE CHOOSE p \in good : Least(p)
  BY DEF Oracle, chain
<1>3. \A p \in good : Spread(p) \in Nat /\ delay(p) \in Nat
  <2> SUFFICES ASSUME NEW p \in good PROVE Spread(p) \in Nat /\ delay(p) \in Nat
    OBVIOUS
  <2>1. p \in Partitions(Len(chain)) /\ Servable(residual, slice, p)
    BY <1>1 DEF InBudget
  <2> QED BY <1>1, <2>1, SpreadType, PredictedDelayType
<1>4. good \in SUBSET F
  OBVIOUS
<1> HIDE DEF F, O, good, delay
<1>5. good # {} => \E p \in good : Least(p)
  <2> SUFFICES ASSUME good # {} PROVE \E p \in good : Least(p)
    OBVIOUS
  <2> DEFINE a == [p \in good |-> Spread(p)]
             b == [p \in good |-> delay(p)]
  <2>1. a \in [good -> Int] /\ b \in [good -> Int] /\ good \in SUBSET Partitions(Len(chain))
    BY <1>1, <1>3, <1>4
  <2>2. \E p \in good : \A q \in good \ {p} : Preferred(a, b, p, q)
    <3> DEFINE n == Len(chain)
    <3>1. n \in Nat /\ good \in SUBSET Partitions(n)
      BY <1>1, <2>1
    <3> HIDE DEF a, b, n
    <3> QED BY <2>1, <3>1, LeastPartition
  <2> QED BY <2>2 DEF Preferred
<1>6. good = {} => O \in F
  BY <1>1, <1>2, CheapestIsOne
<1>7. good # {} => O \in good /\ Least(O)
  <2> HIDE DEF Least
  <2> QED BY <1>2, <1>5
<1>8. ASSUME NEW q \in good PROVE O \in good /\ Spread(O) <= Spread(q)
  <2>1. O \in good /\ Least(O)
    BY <1>7
  <2> QED BY <1>3, <2>1
<1>9. O \in F
  BY <1>4, <1>6, <1>7
<1>10. \A q \in F : InBudget(residual, slice, q) => InBudget(residual, slice, O) /\ Spread(O) <= Spread(q)
  BY <1>8 DEF good
<1> QED BY <1>9, <1>10 DEF O, F

\* The exact repair returns what it was given or a committable partition, and
\* the latter changes no more than any other.
LEMMA ExactRepairIsLeast ==
  ASSUME InputsInv, NEW t \in Seq(Domains \cup {NoDomain})
  PROVE  LET F == CommittableOnes("full", residual, chain)
             e == ExactRepair(residual, chain, t)
         IN  /\ e = t \/ e \in F
             /\ Committable("full", residual, chain, t) => e = t
             /\ Enumerable(chain) /\ NoDomain \notin Range(t) /\ F # {} =>
                  /\ Committable("full", residual, chain, e)
                  /\ e # t => \A q \in F : Edits(e, t) <= Edits(q, t)
<1> DEFINE F == CommittableOnes("full", residual, chain)
           e == ExactRepair(residual, chain, t)
           edits(p) == Edits(p, t)
           Least(p) == \A q \in F \ {p} :
             \/ edits(p) < edits(q)
             \/ edits(p) = edits(q) /\ Spread(p) < Spread(q)
             \/ edits(p) = edits(q) /\ Spread(p) = Spread(q) /\ Earlier(p, q)
           Kept == \/ ~Enumerable(chain) \/ NoDomain \in Range(t)
                   \/ Committable("full", residual, chain, t) \/ F = {}
<1>1. e = IF Kept THEN t ELSE CHOOSE p \in F : Least(p)
  BY DEF ExactRepair
<1>2. /\ F = {p \in Partitions(Len(chain)) : Committable("full", residual, chain, p)}
      /\ Len(chain) \in Nat
  BY CommittablePartitions, InputFacts
<1>3. \A p \in F : edits(p) \in Nat /\ Spread(p) \in Nat
  BY <1>2, EditsType, SpreadType
<1> HIDE DEF F, e, edits
<1>4. F # {} => \E p \in F : Least(p)
  <2> SUFFICES ASSUME F # {} PROVE \E p \in F : Least(p)
    OBVIOUS
  <2> DEFINE a == [p \in F |-> edits(p)]
             b == [p \in F |-> Spread(p)]
  <2>1. a \in [F -> Int] /\ b \in [F -> Int] /\ F \in SUBSET Partitions(Len(chain))
    BY <1>2, <1>3
  <2>2. \E p \in F : \A q \in F \ {p} : Preferred(a, b, p, q)
    <3> DEFINE n == Len(chain)
    <3>1. n \in Nat /\ F \in SUBSET Partitions(n) /\ F # {}
      BY <1>2, <2>1
    <3> HIDE DEF a, b, n
    <3> QED BY <2>1, <3>1, LeastPartition
  <2> QED BY <2>2 DEF Preferred
<1>5. ~Kept => e \in F /\ Least(e)
  <2> HIDE DEF Least
  <2> QED BY <1>1, <1>4
<1>6. ~Kept => \A q \in F : edits(e) <= edits(q)
  BY <1>3, <1>5
<1>7. Kept => e = t
  BY <1>1
<1>8. \A p \in F : Committable("full", residual, chain, p)
  BY <1>2
<1> HIDE DEF Least
<1> QED BY <1>5, <1>6, <1>7, <1>8 DEF F, e, edits
-----------------------------------------------------------------------------
(***************************************************************************)
(* What follows for the plans.                                              *)
(***************************************************************************)
LEMMA RepairsAreNotBuilders == Repairs \cap Builders = {}
  BY DEF Repairs, Builders, Walkers

LEMMA WholeChainHostFits ==
  ASSUME InputsInv, NEW d \in WholeChainHosts
  PROVE  /\ d \in Summarised /\ Everywhere(d) \in Partitions(Len(chain))
         /\ Everywhere(d) \in Seq(Domains) /\ Len(Everywhere(d)) = Len(chain)
         /\ \A k \in 1 .. Len(chain) : Everywhere(d)[k] = d /\ Admissible(k, d)
         /\ \A q \in Kinds : Demand(chain, Everywhere(d), d, q) <= Aggregate(residual)[<<d, q>>]
<1> DEFINE e == Everywhere(d)
           m(q) == Aggregate(residual)[<<d, q>>] - Demand(chain, e, d, q)
<1>1. /\ DOMAIN chain = 1 .. Len(chain) /\ Len(chain) \in Nat
      /\ \A k \in 1 .. Len(chain), q \in Kinds : chain[k][q] \in Nat
  BY InputFacts
<1>2. d \in Summarised /\ d \in Domains /\ HostsWholeChain(d)
  BY DEF WholeChainHosts, Summarised
<1>3. e = [k \in 1 .. Len(chain) |-> d]
  BY <1>1 DEF Everywhere
<1>4. e \in Partitions(Len(chain)) /\ e \in Seq(Domains) /\ Len(e) = Len(chain)
      /\ DOMAIN e = 1 .. Len(chain)
  BY <1>1, <1>2, <1>3 DEF Partitions
<1>5. \A k \in 1 .. Len(chain) : e[k] = d /\ Admissible(k, d)
  BY <1>1, <1>2, <1>3 DEF HostsWholeChain
<1> HIDE DEF e
<1>6. \A q \in Kinds : /\ Aggregate(residual)[<<d, q>>] \in Nat
                       /\ Demand(chain, e, d, q) \in Nat
  BY <1>1, <1>2, <1>4, InputFacts, DemandType
<1>7. Slack(d) = Min({m("cpu"), m("ram")})
  <2>1. {m(q) : q \in Kinds} = {m("cpu"), m("ram")}
    BY DEF Kinds
  <2> QED BY <2>1 DEF Slack, e
<1>8. m("cpu") \in Int /\ m("ram") \in Int
  BY <1>6 DEF Kinds
<1>9. Slack(d) > 0
  BY <1>2 DEF HostsWholeChain
<1>10. m("cpu") >= 0 /\ m("ram") >= 0
  <2> HIDE DEF m
  <2>1. Min({m("cpu"), m("ram")}) \in Int /\ Min({m("cpu"), m("ram")}) <= m("cpu")
        /\ Min({m("cpu"), m("ram")}) <= m("ram")
    BY <1>8, MinOfTwo
  <2> QED BY <1>7, <1>8, <1>9, <2>1
<1>11. \A q \in Kinds : Demand(chain, e, d, q) <= Aggregate(residual)[<<d, q>>]
  <2> SUFFICES ASSUME NEW q \in Kinds
               PROVE  Demand(chain, e, d, q) <= Aggregate(residual)[<<d, q>>]
    OBVIOUS
  <2>1. m(q) >= 0
    BY <1>10 DEF Kinds
  <2> QED BY <1>6, <2>1
<1> QED BY <1>2, <1>4, <1>5, <1>11 DEF e

\* What a walk without estimates of more than is there has used.
LEMMA PartialPlansCommittable ==
  ASSUME FitInv, WalkInv, program = "partial", pc = "done", plan # NoPlan
  PROVE  plan \in Seq(Domains) /\ Committable(guardMode, residual, chain, plan)
<1>1. plan = chosen /\ chosen \in Seq(Domains) /\ OneRunEach(chosen)
  BY DEF WalkInv, Walkers
<1>2. Contiguous(chosen)
  BY <1>1, OneRunEachIsContiguous
<1>3. \A k \in DOMAIN chosen : Admits(guardMode, residual, chain, k, chosen[k])
  BY DEF FitInv, WalkedInv, Walkers, Admissible, Guard
<1>4. ASSUME NEW d \in Range(chosen), NEW q \in Kinds
      PROVE  Demand(chain, chosen, d, q) <= Aggregate(residual)[<<d, q>>]
  <2>1. PICK k \in DOMAIN chosen : chosen[k] = d
    BY DEF Range
  <2>2. d \in Domains /\ est[<<d, q>>] >= 0
    BY <1>1, <2>1 DEF FitInv, WalkedInv
  <2>3. est[<<d, q>>] = Aggregate(residual)[<<d, q>>] - Demand(chain, chosen, d, q)
    BY <2>2 DEF FitInv, EstInv
  <2>4. Demand(chain, chosen, d, q) \in Nat /\ Aggregate(residual)[<<d, q>>] \in Nat
    <3>1. /\ Len(chosen) \in Nat /\ DOMAIN chosen = 1 .. Len(chosen)
          /\ \A j \in 1 .. Len(chosen) : chain[j][q] \in Nat
      BY <1>1, InputFacts DEF FitInv, EstInv
    <3> QED BY <2>2, <3>1, DemandType, InputFacts DEF FitInv
  <2> QED BY <2>2, <2>3, <2>4
<1> QED BY <1>1, <1>2, <1>3, <1>4 DEF Committable

LEMMA BuilderPlansCommittable ==
  ASSUME FitInv, WalkInv, Built, program # "greedy"
  PROVE  plan \in Seq(Domains) /\ Committable(guardMode, residual, chain, plan)
<1>1. pc = "done" /\ plan # NoPlan /\ program \in {"partial", "fullobs", "oracle"}
      /\ InputsInv /\ Origin
  BY DEF Built, Builders, Walkers, FitInv
<1>2. CASE program = "partial"
  BY <1>1, <1>2, PartialPlansCommittable
<1>3. CASE program \in {"fullobs", "oracle"}
  <2>1. /\ CommittableOnes(guardMode, residual, chain) # {}
        /\ plan = IF program = "oracle" THEN Oracle(guardMode, residual, slice)
                  ELSE FullObs(guardMode, residual, slice)
    BY <1>1, <1>3 DEF Origin, Repairs, Walkers
  <2>2. plan \in CommittableOnes(guardMode, residual, chain)
    BY <1>1, <2>1, FullObsIsOne, OracleIsBest
  <2>3. plan \in Partitions(Len(chain)) /\ Committable(guardMode, residual, chain, plan)
    BY <1>1, <2>2, CommittablePartitions
  <2>4. plan \in Seq(Domains)
    BY <1>1, <2>3, InputFacts DEF Partitions, Summarised
  <2> QED BY <2>3, <2>4
<1> QED BY <1>1, <1>2, <1>3

\* What the policy of the modal tier admits, the full guard admits.
LEMMA ModalAdmitsLess ==
  ASSUME NEW g \in {"full", "modal"}, NEW r, NEW c, NEW k, NEW d, Admits(g, r, c, k, d)
  PROVE  Admits("full", r, c, k, d)
BY DEF Admits, FitsANode, ConsultedTiers, Covers

LEMMA GuardsKeep ==
  ASSUME FitInv, WalkInv, Built, program # "greedy", guardMode \in {"full", "modal"}
  PROVE  /\ ExactRepair(residual, chain, plan) = plan
         /\ \A k \in DOMAIN plan : Admits("full", residual, chain, k, plan[k])
<1>1. plan \in Seq(Domains) /\ Committable(guardMode, residual, chain, plan)
  BY BuilderPlansCommittable
<1>2. \A k \in DOMAIN plan : Admits("full", residual, chain, k, plan[k])
  BY <1>1, ModalAdmitsLess DEF Committable
<1>3. Committable("full", residual, chain, plan)
  BY <1>1, <1>2 DEF Committable
<1>4. plan \in Seq(Domains \cup {NoDomain})
  BY <1>1
<1>5. ExactRepair(residual, chain, plan) = plan
  BY <1>3, <1>4, ExactRepairIsLeast DEF FitInv
<1> QED BY <1>2, <1>5

LEMMA Dominates ==
  ASSUME FitInv, WalkInv
  PROVE  OracleDominates
<1> SUFFICES ASSUME Built, program = "fullobs", InBudget(residual, slice, plan)
             PROVE  /\ InBudget(residual, slice, Oracle(guardMode, residual, slice))
                    /\ Spread(Oracle(guardMode, residual, slice)) <= Spread(plan)
  BY DEF OracleDominates
<1>1. /\ CommittableOnes(guardMode, residual, chain) # {} /\ InputsInv
      /\ plan = FullObs(guardMode, residual, slice)
  BY DEF Built, FitInv, Origin, Repairs, Walkers
<1>2. plan \in CommittableOnes(guardMode, residual, chain)
  BY <1>1, FullObsIsOne
<1> QED BY <1>1, <1>2, OracleIsBest

LEMMA Moves ==
  ASSUME FitInv
  PROVE  MovesFit
<1> SUFFICES ASSUME Repaired, NEW k \in DOMAIN plan, plan[k] # authored[k]
             PROVE  /\ Admissible(k, plan[k])
                    /\ \A q \in Kinds : Demand(chain, SubSeq(plan, 1, k), plan[k], q)
                                          <= Aggregate(residual)[<<plan[k], q>>]
  BY DEF MovesFit
<1>1. Origin /\ program \in Repairs /\ program \notin Builders /\ InputsInv
  BY RepairsAreNotBuilders DEF Repaired, FitInv
<1>2. CASE plan = chosen
  BY <1>1, <1>2 DEF FitInv, WalkedInv
<1>3. ASSUME NEW S, plan \in Seq(S), Len(plan) = Len(chain), plan[k] \in Domains,
             \A q \in Kinds : Demand(chain, plan, plan[k], q) <= Aggregate(residual)[<<plan[k], q>>]
      PROVE  \A q \in Kinds : Demand(chain, SubSeq(plan, 1, k), plan[k], q)
                                <= Aggregate(residual)[<<plan[k], q>>]
  <2> SUFFICES ASSUME NEW q \in Kinds
               PROVE  Demand(chain, SubSeq(plan, 1, k), plan[k], q) <= Aggregate(residual)[<<plan[k], q>>]
    OBVIOUS
  <2>1. /\ Len(plan) \in Nat /\ DOMAIN plan = 1 .. Len(plan) /\ k \in 1 .. Len(plan)
        /\ \A j \in 1 .. Len(plan) : chain[j][q] \in Nat
    BY <1>1, <1>3, InputFacts
  <2>2. Demand(chain, SubSeq(plan, 1, k), plan[k], q) <= Demand(chain, plan, plan[k], q)
    BY <1>3, <2>1, DemandPrefix
  <2>3. Demand(chain, plan, plan[k], q) \in Nat /\ Aggregate(residual)[<<plan[k], q>>] \in Nat
    BY <1>1, <1>3, <2>1, DemandType, InputFacts
  <2>4. Demand(chain, SubSeq(plan, 1, k), plan[k], q) \in Nat
    <3>1. DOMAIN SubSeq(plan, 1, k) = 1 .. k /\ k \in Nat /\ \A j \in 1 .. k : chain[j][q] \in Nat
      BY <1>3, <2>1
    <3> QED BY <3>1, DemandType
  <2> QED BY <1>3, <2>2, <2>3, <2>4
<1>5. CASE \E d \in WholeChainHosts : plan = Everywhere(d)
  <2>1. PICK d \in WholeChainHosts : plan = Everywhere(d)
    BY <1>5
  <2>2. /\ d \in Domains /\ plan \in Seq(Domains) /\ Len(plan) = Len(chain)
        /\ k \in 1 .. Len(chain) /\ plan[k] = d /\ Admissible(k, d)
        /\ \A q \in Kinds : Demand(chain, plan, d, q) <= Aggregate(residual)[<<d, q>>]
    BY <1>1, <2>1, WholeChainHostFits DEF Summarised
  <2> QED BY <1>3, <2>2
<1>6. CASE program = "exact" /\ plan = ExactRepair(residual, chain, authored)
  <2>1. authored \in Seq(Domains \cup {NoDomain})
    BY <1>1, InputFacts
  <2>2. plan \in CommittableOnes("full", residual, chain)
    BY <1>1, <1>6, <2>1, ExactRepairIsLeast
  <2>3. plan \in Partitions(Len(chain)) /\ Committable("full", residual, chain, plan)
    BY <1>1, <2>2, CommittablePartitions
  <2>4. /\ plan \in Seq(Summarised) /\ Len(plan) = Len(chain) /\ DOMAIN plan = 1 .. Len(chain)
        /\ plan[k] \in Domains
    BY <1>1, <2>3, InputFacts DEF Partitions, Summarised
  <2>5. Admissible(k, plan[k])
    BY <1>6, <2>3 DEF Committable, Admissible, Guard
  <2>6. \A q \in Kinds : Demand(chain, plan, plan[k], q) <= Aggregate(residual)[<<plan[k], q>>]
    BY <2>3, <2>4 DEF Committable, Range
  <2> QED BY <1>3, <2>4, <2>5, <2>6
<1> QED BY <1>1, <1>2, <1>5, <1>6 DEF Origin, Repairs

LEMMA Beats ==
  ASSUME FitInv
  PROVE  ExactBeatsWalk
<1> DEFINE e == ExactRepair(residual, chain, authored)
<1> SUFFICES ASSUME Repaired, program = "postdecode", NoDomain \notin Range(authored),
                    Enumerable(chain), Committable("full", residual, chain, plan)
             PROVE  Committable("full", residual, chain, e) /\ Edits(e, authored) <= Edits(plan, authored)
  BY DEF ExactBeatsWalk
<1>1. /\ InputsInv /\ program \in Repairs /\ Len(chain) \in Nat
      /\ authored \in Seq(Domains \cup {NoDomain}) /\ DOMAIN authored = 1 .. Len(chain)
  BY InputFacts DEF FitInv, Repaired
<1>2. plan = authored \/ (plan = chosen /\ Len(chosen) = Len(chain))
  BY <1>1 DEF FitInv, Repaired, Origin, Builders, Walkers
<1>3. \A k \in 1 .. Len(chain) : authored[k] \in Domains
  BY <1>1 DEF Range
<1>4. plan = [k \in 1 .. Len(chain) |-> plan[k]] /\ \A k \in 1 .. Len(chain) : plan[k] \in Domains
  <2>1. CASE plan = authored
    BY <1>1, <1>3, <2>1
  <2>2. CASE plan = chosen /\ Len(chosen) = Len(chain)
    <3>1. chosen \in Seq(Domains \cup {NoDomain}) /\ DOMAIN chosen = 1 .. Len(chain)
      BY <1>2, <2>2 DEF FitInv, EstInv
    <3>2. \A k \in 1 .. Len(chain) : chosen[k] \in Domains
      BY <1>1, <1>3, <3>1 DEF FitInv, WalkedInv
    <3> QED BY <2>2, <3>1, <3>2
  <2> QED BY <1>2, <2>1, <2>2
<1>5. \A k \in 1 .. Len(chain) : Admits("full", residual, chain, k, plan[k])
  BY <1>4 DEF Committable
<1>6. \A k \in 1 .. Len(chain) : plan[k] \in Summarised
  BY <1>4, <1>5, AdmittedIsSummarised
<1>7. plan \in Partitions(Len(chain))
  BY <1>4, <1>6 DEF Partitions
<1>8. plan \in CommittableOnes("full", residual, chain)
  BY <1>1, <1>7, CommittablePartitions
<1>9. /\ Committable("full", residual, chain, e)
      /\ e # authored => Edits(e, authored) <= Edits(plan, authored)
  BY <1>1, <1>8, ExactRepairIsLeast
<1>10. e = authored => Edits(e, authored) = 0
  <2>1. {k \in DOMAIN authored : authored[k] # authored[k]} = {}
    OBVIOUS
  <2> QED BY <2>1, FS_EmptySet DEF Edits
<1>11. Edits(plan, authored) \in Nat
  BY <1>1, <1>7, EditsType
<1> QED BY <1>9, <1>10, <1>11

-----------------------------------------------------------------------------
\* The shape the co-location repair keeps.
ColoInv ==
  program = "colo" /\ WholeChainHosts # {} /\ NoDomain \notin Range(authored)
    /\ ~StructuralReject =>
    /\ pc \in {"start", "done"}
    /\ pc = "done" =>
         /\ \E d \in WholeChainHosts : plan = Everywhere(d)
         /\ \A d \in WholeChainHosts : authored = Everywhere(d) => plan = authored

LEMMA CollapseKeepsShape ==
  ASSUME InputsInv, program \in Repairs, NoDomain \notin Range(authored), Collapse
  PROVE  /\ pc' = "done"
         /\ \E d \in WholeChainHosts : plan' = Everywhere(d)
         /\ \A d \in WholeChainHosts : authored = Everywhere(d) => plan' = authored
<1>1. /\ Len(chain) \in Nat /\ Len(chain) > 0 /\ DOMAIN chain = 1 .. Len(chain)
      /\ authored \in Seq(Domains \cup {NoDomain}) /\ DOMAIN authored = 1 .. Len(chain)
      /\ 1 \in 1 .. Len(chain)
  BY InputFacts
<1>2. pc' = "done"
  BY DEF Collapse, Answer
<1>3. CASE Spread(authored) = 1 /\ HostsWholeChain(authored[1])
  <2>1. plan' = authored
    BY <1>3 DEF Collapse, Answer
  <2>2. authored[1] \in Domains
    BY <1>1 DEF Range
  <2>3. authored[1] \in WholeChainHosts
    <3>1. Admits(Guard, residual, chain, 1, authored[1])
      BY <1>1, <1>3 DEF HostsWholeChain, Admissible
    <3>2. authored[1] \in Summarised
      BY <2>2, <3>1, AdmittedIsSummarised
    <3> QED BY <1>3, <3>2 DEF WholeChainHosts
  <2>4. \A k \in 1 .. Len(chain) : authored[k] = authored[1]
    <3>1. IsFiniteSet(1 .. Len(chain))
      BY <1>1, FS_Interval
    <3>2. IsFiniteSet(Range(authored))
      BY <1>1, <3>1, ImageIsFinite DEF Range
    <3>3. PICK x : Range(authored) = {x}
      BY <1>3, <3>2, FS_Singleton DEF Spread
    <3> QED BY <1>1, <3>3 DEF Range
  <2>5. authored = Everywhere(authored[1])
    BY <1>1, <2>4 DEF Everywhere
  <2> QED BY <1>2, <2>1, <2>3, <2>5
<1>4. CASE ~(Spread(authored) = 1 /\ HostsWholeChain(authored[1]))
  <2>1. \E d \in WholeChainHosts : plan' = Everywhere(d)
    BY <1>4 DEF Collapse, Answer
  <2>2. ASSUME NEW d \in WholeChainHosts, authored = Everywhere(d) PROVE FALSE
    <3>1. authored = [k \in 1 .. Len(chain) |-> d]
      BY <1>1, <2>2 DEF Everywhere
    <3>2. authored[1] = d /\ Range(authored) = {d}
      BY <1>1, <3>1 DEF Range
    <3>3. Spread(authored) = 1
      BY <3>2, FS_Singleton DEF Spread
    <3> QED BY <1>4, <2>2, <3>2, <3>3 DEF WholeChainHosts
  <2> QED BY <1>2, <2>1, <2>2
<1> QED BY <1>3, <1>4

LEMMA ColoInvKept == InputsInv /\ ColoInv /\ [Next]_vars => ColoInv'
<1> SUFFICES ASSUME InputsInv, ColoInv, [Next]_vars PROVE ColoInv'
  OBVIOUS
<1>0. UNCHANGED inputs
  BY DEF Next, Decline, Enumerate, Collapse, BeginWalk, SeatBest, GiveUp, SkipUnknown,
         KeepAuthored, MoveVnf, FinishWalk, Answer, Seat, vars
<1>1. /\ program' = program /\ authored' = authored /\ chain' = chain
      /\ WholeChainHosts' = WholeChainHosts /\ \A d : Everywhere(d)' = Everywhere(d)
  BY <1>0, InputsStay
<1>2. StructuralReject' <=> StructuralReject
  BY <1>1 DEF StructuralReject
<1> SUFFICES ASSUME program = "colo", WholeChainHosts # {}, NoDomain \notin Range(authored),
                    ~StructuralReject
             PROVE  /\ pc' \in {"start", "done"}
                    /\ pc' = "done" =>
                         /\ \E d \in WholeChainHosts : plan' = Everywhere(d)
                         /\ \A d \in WholeChainHosts : authored = Everywhere(d) => plan' = authored
  BY <1>1, <1>2 DEF ColoInv
<1>3. program \in Repairs /\ program \notin Builders /\ program \notin Walkers /\ Collapsible
  BY DEF Repairs, Builders, Walkers, Collapsible
<1>4. /\ pc \in {"start", "done"}
      /\ pc = "done" => /\ \E d \in WholeChainHosts : plan = Everywhere(d)
                        /\ \A d \in WholeChainHosts : authored = Everywhere(d) => plan = authored
  BY DEF ColoInv
<1>5. CASE Collapse
  BY <1>3, <1>5, CollapseKeepsShape
<1>6. CASE UNCHANGED vars
  BY <1>4, <1>6 DEF vars
<1>7. ~Decline /\ ~Enumerate /\ ~BeginWalk
  BY <1>3 DEF Decline, Enumerate, BeginWalk
<1>8. ~SeatBest /\ ~GiveUp /\ ~SkipUnknown /\ ~KeepAuthored /\ ~MoveVnf /\ ~FinishWalk
  BY <1>4 DEF SeatBest, GiveUp, SkipUnknown, KeepAuthored, MoveVnf, FinishWalk, Walking
<1> QED BY <1>5, <1>6, <1>7, <1>8 DEF Next

-----------------------------------------------------------------------------
(***************************************************************************)
(* Theorems.                                                                *)
(***************************************************************************)
\* FitInv is inductive: the estimates are exact, and each plan has its origin.
THEOREM FitInvHolds == Spec => []FitInv
<1> QED BY FitInvInitial, FitInvKept, PTL DEF Spec

\* What partial_obs_builder, fullobs_builder and the oracle propose is contiguous,
\* admitted VNF by VNF and within what each domain has left, together.
THEOREM BuildersProposeCommittable == Spec => []BuilderPlanCommittable
<1>1. FitInv /\ WalkInv => BuilderPlanCommittable
  BY BuilderPlansCommittable DEF BuilderPlanCommittable
<1> QED BY <1>1, FitInvHolds, WalkInvInitial, WalkInvKept, PTL DEF Spec

\* The repairs of admissibility.py leave a builder's plan alone under the guards
\* they have a copy of.
THEOREM RepairsKeepBuilderPlans == Spec => []GuardsKeepBuilderPlans
<1>1. FitInv /\ WalkInv => GuardsKeepBuilderPlans
  BY GuardsKeep DEF GuardsKeepBuilderPlans
<1> QED BY <1>1, FitInvHolds, WalkInvInitial, WalkInvKept, PTL DEF Spec

\* What fullobs_builder serves in budget the oracle does, over no more domains
\* (partition_oracle.py), whatever ties there are.
THEOREM TheOracleDominates == Spec => []OracleDominates
<1>1. FitInv /\ WalkInv => OracleDominates
  BY Dominates
<1> QED BY <1>1, FitInvHolds, WalkInvInitial, WalkInvKept, PTL DEF Spec

\* A VNF a repair moves is admitted where it goes, and there is room for it
\* beside all that the repair put there before it.
THEOREM MovedVnfsFit == Spec => []MovesFit
<1> QED BY FitInvHolds, Moves, PTL

\* The exact repair never does worse than the left-to-right one.
THEOREM ExactRepairBeatsWalk == Spec => []ExactBeatsWalk
<1> QED BY FitInvHolds, Beats, PTL

\* Mode colo ends with the chain in one domain that can host all of it, the
\* authored one if it still can (colocation_candidate).
THEOREM ColocationKeepsShape == Spec => []ColoKeepsShape
<1>1. Init => ColoInv
  BY DEF Init, ColoInv
<1>2. FitInv => InputsInv
  BY DEF FitInv
<1>3. ColoInv => ColoKeepsShape
  BY DEF ColoInv, ColoKeepsShape, Repaired
<1> QED BY <1>1, <1>2, <1>3, FitInvHolds, ColoInvKept, PTL DEF Spec
=============================================================================
