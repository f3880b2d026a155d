---------------------------- MODULE PlannerProofs ----------------------------
(***************************************************************************)
(* Four facts about the planner, for every topology, stream of requests,    *)
(* cache capacity and model: whatever the cache serves can be hosted        *)
(* (PlansHostable), every lookup and every call is counted (CallsAccounted), *)
(* the check refuses nothing the co-location contract let through           *)
(* (ContractPlansPass), and what leaves the cache is what was least         *)
(* recently used (EvictsLeastRecent).                                       *)
(*                                                                         *)
(* For the first: a plan that passes the check, or is decoded under the     *)
(* pinned schema, shares a tier with each VNF; permitted nodes are whole    *)
(* tiers; and the part of the key that is the request's intent fixes them.  *)
(***************************************************************************)
EXTENDS Planner, FiniteSetTheorems, TLAPS

(***************************************************************************)
(* Requests and keys.                                                       *)
(***************************************************************************)
\* A domain that shares a tier with a VNF has a node permitted to it: this is
\* what makes C8 on tiers (structural_checker.py) good enough for nodes.
LEMMA SharedTierHosts ==
  ASSUME NEW s \in Requests, NEW k \in DOMAIN s.vnfs, NEW d,
         SharedTiers(s.vnfs[k], d) # {}
  PROVE  s.vnfs[k].permitted \cap NodesIn(d) # {}
<1>1. PICK t : t \in PermittedTiers(s.vnfs[k]) /\ t \in TiersIn(d)
  BY DEF SharedTiers
<1>2. PICK n \in s.vnfs[k].permitted : TierOf[n] = t
  BY <1>1 DEF PermittedTiers, TiersOf
<1>3. PICK m \in NodesIn(d) : TierOf[m] = t
  BY <1>1 DEF TiersIn, TiersOf
<1>4. m \in s.vnfs[k].permitted
  BY <1>2, <1>3, RequestAssumption DEF NodesIn
<1> QED BY <1>3, <1>4

\* Requests with one key have one chain, whatever the network each found.
LEMMA KeyFixesChain ==
  ASSUME NEW s \in Requests, NEW t \in Requests,
         NEW r \in Residuals, NEW q \in Residuals,
         Key(s, r) = Key(t, q)
  PROVE  SameChain(s, t)
<1>1. Intent[s] = Intent[t]
  BY DEF Key
<1>2. /\ Intent[s] = <<s.kind, DelayBucket(s), RateBucket(s), Template(s)>>
      /\ Intent[t] = <<t.kind, DelayBucket(t), RateBucket(t), Template(t)>>
  BY DEF Intent
<1>3. Intent[s][1] = s.kind /\ Intent[s][4] = Template(s)
  BY <1>2
<1>4. Intent[t][1] = t.kind /\ Intent[t][4] = Template(t)
  BY <1>2
<1> QED BY <1>1, <1>3, <1>4 DEF SameChain

\* So a plan that can be hosted for one can be hosted for the other
\* (instantiate_plan grafts it onto any request of its key).
LEMMA KeySharesPlans ==
  ASSUME NEW s \in Requests, NEW t \in Requests,
         NEW r \in Residuals, NEW q \in Residuals,
         Key(s, r) = Key(t, q),
         NEW plan, Hosts(s, plan)
  PROVE  Hosts(t, plan)
<1>1. SameChain(s, t)
  BY KeyFixesChain
<1>2. DOMAIN s.vnfs = DOMAIN t.vnfs
  <2>1. DOMAIN Template(s) = DOMAIN s.vnfs /\ DOMAIN Template(t) = DOMAIN t.vnfs
    BY DEF Template
  <2> QED BY <1>1, <2>1 DEF SameChain
<1>3. \A k \in DOMAIN s.vnfs : s.vnfs[k].permitted = t.vnfs[k].permitted
  BY <1>1, RequestAssumption
<1> QED BY <1>2, <1>3 DEF Hosts

(***************************************************************************)
(* The cache.                                                               *)
(***************************************************************************)
\* After a store every entry is the plan stored or one that was there.
LEMMA StoreAddsOne ==
  ASSUME NEW plan, NEW k \in Cached(Stored(plan))
  PROVE  \/ k = key /\ Stored(plan).entry[k].plan = plan
         \/ k \in Cached(cache) /\ Stored(plan).entry[k] = cache.entry[k]
<1>1. CASE builder = Profile /\ key \in Cached(cache)
  BY <1>1 DEF Stored, Refreshed, Cached
<1>2. CASE ~(builder = Profile /\ key \in Cached(cache))
  <2> DEFINE order == IF key \in Cached(cache) THEN cache.order ELSE Append(cache.order, key)
             entry == [x \in Cached(cache) \cup {key} |->
                         IF x = key THEN [plan |-> plan, stale |-> FALSE] ELSE cache.entry[x]]
             put == [order |-> order, entry |-> entry]
  <2>1. Stored(plan) = Trimmed(put)
    BY <1>2 DEF Stored, Put
  <2>2. /\ DOMAIN entry = Cached(cache) \cup {key}
        /\ \A x \in DOMAIN entry : entry[x] = IF x = key THEN [plan |-> plan, stale |-> FALSE]
                                              ELSE cache.entry[x]
    OBVIOUS
  <2> HIDE DEF order, entry
  <2>3. k \in DOMAIN entry /\ Trimmed(put).entry[k] = entry[k]
    BY <2>1 DEF Trimmed, Cached
  <2> HIDE DEF put
  <2> QED BY <2>1, <2>2, <2>3
<1> QED BY <1>1, <1>2

(***************************************************************************)
(* The plans the model is held to.                                          *)
(***************************************************************************)
\* A domain that can take the whole chain shares a tier with each VNF: the hosts
\* stay within the tier-feasible domains they stand in for.
LEMMA WholeChainHostsFeasible ==
  ASSUME NEW s \in Requests, NEW r, NEW d \in WholeChainHosts(r, s), NEW k \in DOMAIN s.vnfs
  PROVE  d \in FeasibleDomains(s.vnfs[k])
<1>1. d \in Summarised /\ Seats(r, s.vnfs[k], d)
  BY DEF WholeChainHosts, TakesChain
<1> QED BY <1>1 DEF Seats, FeasibleDomains

\* What the pinned schema can express, under any contract.
LEMMA PinnedFeasible ==
  ASSUME NEW rule \in Contracts, NEW s \in Requests, NEW r \in Residuals,
         NEW p \in Pinned[rule][s][r]
  PROVE  DOMAIN p = DOMAIN s.vnfs /\ \A k \in DOMAIN p : p[k] \in FeasibleDomains(s.vnfs[k])
<1> DEFINE hosts == IF rule = "tiers" THEN {} ELSE WholeChainHosts(r, s)
<1>1. p \in Expressible(rule, s, hosts)
  BY DEF Pinned
<1>2. \A d \in hosts, k \in DOMAIN s.vnfs : d \in FeasibleDomains(s.vnfs[k])
  BY WholeChainHostsFeasible
<1>3. CASE \E d \in hosts : p = Expanded(s, d)
  BY <1>2, <1>3 DEF Expanded
<1>4. CASE /\ p \in [DOMAIN s.vnfs -> Summarised]
           /\ \A k \in DOMAIN p : p[k] \in Selectable(s, hosts, k)
  BY <1>2, <1>4 DEF Selectable
<1> QED BY <1>1, <1>3, <1>4 DEF Expressible

\* So a plan decoded under it can be hosted (build_pinned_plan_schema).
LEMMA PinnedPlanHosts ==
  ASSUME NEW rule \in Contracts, NEW s \in Requests, NEW r \in Residuals,
         NEW p \in Pinned[rule][s][r]
  PROVE  Hosts(s, PinnedPlan(s, p))
<1>1. DOMAIN p = DOMAIN s.vnfs /\ \A k \in DOMAIN p : p[k] \in FeasibleDomains(s.vnfs[k])
  BY PinnedFeasible
<1>2. \A k \in DOMAIN s.vnfs : SharedTiers(s.vnfs[k], p[k]) # {}
  BY <1>1 DEF FeasibleDomains
<1>3. PinnedPlan(s, p).domains = p
  BY DEF PinnedPlan
<1> QED BY <1>2, <1>3, SharedTierHosts DEF Hosts

\* The co-location contract leaves structural checking nothing to refuse: while
\* some domain can take the whole chain, every answer the schema can express
\* passes check_plan, so no attempt is spent on a plan it rejects.
THEOREM ContractPlansPass ==
  ASSUME NEW s \in Requests, NEW r \in Residuals, NEW echoed \in BOOLEAN,
         "colocation" \in Contracts, WholeChainHosts(r, s) # {},
         NEW p \in Pinned["colocation"][s][r],
         DOMAIN s.bw = 1 .. Len(s.vnfs) - 1, Len(s.vnfs) \in Nat,
         DOMAIN s.vnfs = 1 .. Len(s.vnfs)
  PROVE  CheckPlan(r, s, p, echoed)
<1>1. PICK d \in WholeChainHosts(r, s) : p = Expanded(s, d)
  BY DEF Pinned, Expressible
<1>2. TiersSupported(s, p)
  BY PinnedFeasible DEF TiersSupported, FeasibleDomains
<1>3. TakesChain(r, s, d) /\ s.vnfs # <<>>
  BY DEF WholeChainHosts
<1>4. ResourcesSuffice(r, s, p)
  <2> SUFFICES ASSUME NEW e \in Range(p), NEW q \in Kinds
               PROVE  Demand(s.vnfs, p, e, q) <= Aggregate(r)[<<e, q>>]
    BY DEF ResourcesSuffice
  <2>1. e = d
    BY <1>1 DEF Range, Expanded
  <2>2. Demand(s.vnfs, p, d, q) <= Aggregate(r)[<<d, q>>]
    BY <1>1, <1>3 DEF TakesChain
  <2> QED BY <2>1, <2>2
<1>5. FlowsConnect(r, s, p)
  <2> SUFFICES ASSUME NEW k \in DOMAIN s.bw PROVE p[k] = p[k + 1]
    BY DEF FlowsConnect
  <2>1. k \in DOMAIN s.vnfs /\ k + 1 \in DOMAIN s.vnfs
    OBVIOUS
  <2> QED BY <1>1, <2>1 DEF Expanded
<1> QED BY <1>2, <1>4, <1>5 DEF CheckPlan

\* A plan stated freely that passes check_plan.
LEMMA CheckedPlanHosts ==
  ASSUME NEW s \in Requests, NEW r, NEW said \in Said(s), NEW echoed,
         CheckPlan(r, s, SaidDomains(said), echoed)
  PROVE  Hosts(s, RederivedPlan(s, said))
<1>1. DOMAIN SaidDomains(said) = DOMAIN s.vnfs
  BY DEF Said, SaidDomains
<1>2. \A k \in DOMAIN s.vnfs : SharedTiers(s.vnfs[k], SaidDomains(said)[k]) # {}
  BY <1>1 DEF CheckPlan, TiersSupported
<1>3. RederivedPlan(s, said).domains = SaidDomains(said)
  BY DEF RederivedPlan
<1> QED BY <1>2, <1>3, SharedTierHosts DEF Hosts

(***************************************************************************)
(* The inductive invariant: PlansHostable, and what it is stated about.     *)
(***************************************************************************)
IInv ==
  /\ request \in Requests
  /\ found \in Residuals
  /\ builder = Profile => contract \in Contracts
  /\ "entry" \in DOMAIN cache
  /\ PlansHostable

\* A store of a plan that hosts the request in hand keeps the invariant.
LEMMA AcceptInv ==
  ASSUME IInv, NEW plan, Accept(plan),
         builder # Constrained => Hosts(request, plan)
  PROVE  IInv'
<1> USE DEF IInv
<1>1. /\ request' = request /\ found' = found /\ builder' = builder /\ contract' = contract
      /\ cache' = Stored(plan) /\ answer' = [from |-> "model", plan |-> plan]
  BY DEF Accept, setting
<1>2. "entry" \in DOMAIN cache'
  BY <1>1 DEF Stored, Refreshed, Put, Trimmed
<1>3. ASSUME builder # Constrained, NEW s \in Requests, NEW r \in Residuals,
             Key(s, r) \in Cached(cache')
      PROVE  Hosts(s, cache'.entry[Key(s, r)].plan)
  <2>1. CASE Key(s, r) = key /\ cache'.entry[Key(s, r)].plan = plan
    BY <1>3, <2>1, KeySharesPlans DEF key
  <2>2. CASE Key(s, r) \in Cached(cache) /\ cache'.entry[Key(s, r)] = cache.entry[Key(s, r)]
    BY <1>3, <2>2 DEF PlansHostable
  <2> QED BY <1>1, <1>3, <2>1, <2>2, StoreAddsOne
<1>4. \A s, r : Key(s, r)' = Key(s, r)
  BY <1>1 DEF Key
<1> QED BY <1>1, <1>2, <1>3, <1>4 DEF PlansHostable, Hosts, Key, Cached

\* Reading the cache keeps it: only the order, and the stale flag of the
\* constrained builder, change.
LEMMA LookupInv ==
  ASSUME IInv, ServeHit \/ RejectHit
  PROVE  IInv'
<1> USE DEF IInv
<1>1. builder' = builder /\ contract' = contract /\ request' = request /\ found' = found
  BY DEF ServeHit, RejectHit, setting
<1>2. Got(cache, key).entry = cache.entry /\ "entry" \in DOMAIN Got(cache, key)
  BY DEF Got
<1>3. "entry" \in DOMAIN cache'
  BY <1>2 DEF ServeHit, RejectHit, MarkedStale
<1>4. builder # Constrained => Hosts(request, answer'.plan) \/ answer' = Refusal \/ answer' = answer
  <2>1. CASE ServeHit
    BY <2>1 DEF ServeHit, PlansHostable, Live, key
  <2>2. CASE RejectHit
    BY <2>2 DEF RejectHit
  <2> QED BY <2>1, <2>2
<1>5. \A k \in Cached(cache') :
        k \in Cached(cache) /\ cache'.entry[k].plan = cache.entry[k].plan
  <2>1. CASE cache' = Got(cache, key)
    BY <1>2, <2>1 DEF Cached
  <2>2. CASE cache' = MarkedStale(Got(cache, key), key)
    BY <1>2, <2>2 DEF Cached, MarkedStale
  <2> QED BY <2>1, <2>2 DEF ServeHit, RejectHit
<1> QED BY <1>1, <1>3, <1>4, <1>5 DEF PlansHostable, Hosts, Key

\* Every step keeps the invariant.
LEMMA NextInv ==
  ASSUME IInv, [Next]_vars
  PROVE  IInv'
<1> USE DEF IInv
<1>1. CASE \E s \in Requests, r \in Residuals : Arrive(s, r)
  BY <1>1 DEF Arrive, setting, PlansHostable, Hosts, Key, Cached
<1>2. CASE ServeHit \/ RejectHit
  BY <1>2, LookupInv
<1>3. CASE Miss
  BY <1>3 DEF Miss, setting, history, PlansHostable, Hosts, Key, Cached
<1>4. CASE Unplaceable \/ CallRaises
  BY <1>4 DEF Unplaceable, CallRaises, Refuse, setting, history, PlansHostable, Hosts, Key, Cached
<1>5. CASE FailedAttempt
  BY <1>5 DEF FailedAttempt, Refuse, setting, PlansHostable, Hosts, Key, Cached
<1>6. CASE builder = Profile /\ \E p \in MayAnswer : AcceptPinned(p)
  BY <1>6, AcceptInv, PinnedPlanHosts DEF AcceptPinned, MayAnswer
<1>7. ASSUME NEW said \in Said(request), AcceptChecked(said) PROVE IInv'
  BY <1>7, AcceptInv, CheckedPlanHosts DEF AcceptChecked
<1>8. ASSUME NEW said \in Said(request), AcceptStated(said) PROVE IInv'
  BY <1>8, AcceptInv DEF AcceptStated
<1>9. CASE UNCHANGED vars
  BY <1>9 DEF vars, PlansHostable, Hosts, Key, Cached
<1> QED BY <1>1, <1>2, <1>3, <1>4, <1>5, <1>6, <1>7, <1>8, <1>9 DEF Next, Answer

\* Nothing is cached and nothing answered before the first arrival.
LEMMA InitInv ==
  ASSUME Init
  PROVE  IInv
BY DEF Init, IInv, PlansHostable, EmptyCache, Cached, Refusal

\* Whatever the cache holds or the coordinator is given puts each VNF in a
\* domain that has a node permitted to it, although the cache's key does not
\* hold the permitted nodes (plan_cache.py plan_signature, instantiate_plan).
THEOREM CachedPlansAreHostable == Spec => []PlansHostable
<1>1. Init => IInv
  BY InitInv
<1>2. IInv /\ [Next]_vars => IInv'
  BY NextInv
<1>3. IInv => PlansHostable
  BY DEF IInv
<1> QED BY <1>1, <1>2, <1>3, PTL DEF Spec
(***************************************************************************)
(* The counters.  Between the lookup and the answer an arrival is counted   *)
(* and its outcome is not, or, by the profile builder, half of it is.       *)
(***************************************************************************)
CountInv ==
  /\ pc \in {"idle", "lookup", "ask"}
  /\ arrivals \in Nat
  /\ stats \in [hits : Nat, misses : Nat, plans : Nat, fallbacks : Nat, calls : Nat]
  /\ builder = Profile =>
       /\ pc = "lookup" => arrivals = stats.hits + stats.misses + 1
       /\ pc # "lookup" => arrivals = stats.hits + stats.misses
  /\ builder # Profile =>
       /\ pc = "idle" => arrivals = stats.plans + stats.fallbacks
                         /\ arrivals = stats.calls + stats.hits
       /\ pc # "idle" => arrivals = stats.plans + stats.fallbacks + 1
                         /\ arrivals = stats.calls + stats.hits + 1

\* The arrival ends at the model, with a plan or without.
LEMMA TrackedCount ==
  ASSUME CountInv, MayAsk \/ pc = "ask", NEW outcome \in {"plans", "fallbacks"},
         stats' = Tracked(outcome), pc' = "idle", arrivals' = arrivals, builder' = builder
  PROVE  CountInv'
<1>1. pc = "ask"
  BY DEF MayAsk
<1>2. CASE builder = Profile
  BY <1>1, <1>2 DEF CountInv, Tracked
<1>3. CASE builder # Profile /\ outcome = "plans"
  <2>1. stats' = [stats EXCEPT !.plans = @ + 1, !.calls = @ + 1]
    BY <1>3 DEF Tracked
  <2>2. stats' = [hits |-> stats.hits, misses |-> stats.misses, plans |-> stats.plans + 1,
                  fallbacks |-> stats.fallbacks, calls |-> stats.calls + 1]
    BY <2>1 DEF CountInv
  <2> QED BY <1>1, <1>3, <2>2 DEF CountInv
<1>4. CASE builder # Profile /\ outcome = "fallbacks"
  <2>1. stats' = [stats EXCEPT !.fallbacks = @ + 1, !.calls = @ + 1]
    BY <1>4 DEF Tracked
  <2>2. stats' = [hits |-> stats.hits, misses |-> stats.misses, plans |-> stats.plans,
                  fallbacks |-> stats.fallbacks + 1, calls |-> stats.calls + 1]
    BY <2>1 DEF CountInv
  <2> QED BY <1>1, <1>4, <2>2 DEF CountInv
<1> QED BY <1>2, <1>3, <1>4

LEMMA CountNext ==
  ASSUME CountInv, [Next]_vars
  PROVE  CountInv'
<1>1. CASE \E s \in Requests, r \in Residuals : Arrive(s, r)
  BY <1>1 DEF Arrive, setting, CountInv
<1>2. CASE ServeHit
  <2>0. /\ pc = "lookup" /\ pc' = "idle" /\ arrivals' = arrivals /\ builder' = builder
        /\ stats' = [stats EXCEPT !.hits = @ + 1,
                                  !.plans = IF builder = Profile THEN @ ELSE @ + 1]
    BY <1>2 DEF ServeHit, setting
  <2>1. CASE builder = Profile
    <3>1. stats' = [hits |-> stats.hits + 1, misses |-> stats.misses, plans |-> stats.plans,
                    fallbacks |-> stats.fallbacks, calls |-> stats.calls]
      BY <2>0, <2>1 DEF CountInv
    <3> QED BY <2>0, <2>1, <3>1 DEF CountInv
  <2>2. CASE builder # Profile
    <3>1. stats' = [hits |-> stats.hits + 1, misses |-> stats.misses, plans |-> stats.plans + 1,
                    fallbacks |-> stats.fallbacks, calls |-> stats.calls]
      BY <2>0, <2>2 DEF CountInv
    <3> QED BY <2>0, <2>2, <3>1 DEF CountInv
  <2> QED BY <2>1, <2>2
<1>3. CASE RejectHit \/ Miss
  <2>1. /\ pc = "lookup" /\ pc' = "ask" /\ stats' = MissCounted
        /\ arrivals' = arrivals /\ builder' = builder
    BY <1>3 DEF RejectHit, Miss, setting, history
  <2>2. CASE builder = Profile
    BY <2>1, <2>2 DEF CountInv, MissCounted
  <2>3. CASE builder # Profile
    BY <2>1, <2>3 DEF CountInv, MissCounted
  <2> QED BY <2>2, <2>3
<1>4. CASE Unplaceable \/ CallRaises
  BY <1>4, TrackedCount DEF Unplaceable, CallRaises, Refuse, setting, history, MayAsk
<1>5. CASE FailedAttempt
  <2>1. CASE Refuse
    BY <1>5, <2>1, TrackedCount DEF FailedAttempt, Refuse, setting
  <2>2. CASE UNCHANGED <<answer, stats, pc>>
    BY <1>5, <2>2 DEF FailedAttempt, setting, CountInv
  <2> QED BY <1>5, <2>1, <2>2 DEF FailedAttempt
<1>6. ASSUME NEW plan, MayAsk, Accept(plan) PROVE CountInv'
  BY <1>6, TrackedCount DEF Accept, setting
<1>7. CASE builder = Profile /\ \E p \in MayAnswer : AcceptPinned(p)
  BY <1>6, <1>7 DEF AcceptPinned
<1>8. CASE \E said \in Said(request) : AcceptChecked(said) \/ AcceptStated(said)
  BY <1>6, <1>8 DEF AcceptChecked, AcceptStated
<1>9. CASE UNCHANGED vars
  BY <1>9 DEF vars, CountInv
<1> QED BY <1>1, <1>2, <1>3, <1>4, <1>5, <1>7, <1>8, <1>9 DEF Next, Answer

\* Between arrivals every lookup is a hit or a miss, every tracked arrival a
\* plan or a fallback, and every one but the hits a call, whatever failed on the
\* way: what the reported rates are computed from (_cached_plan_builder,
\* PlanQualityTracker).
THEOREM EveryCallIsAccounted == Spec => []CallsAccounted
<1>1. Init => CountInv
  BY DEF Init, CountInv, NoStats, Profile
<1>2. CountInv /\ [Next]_vars => CountInv'
  BY CountNext
<1>3. CountInv => CallsAccounted
  BY DEF CountInv, CallsAccounted
<1> QED BY <1>1, <1>2, <1>3, PTL DEF Spec

-----------------------------------------------------------------------------
(***************************************************************************)
(* Eviction.  The order of the cache lists its keys, each once, and but for *)
(* the constrained builder it is the order of their last use: a hit or a    *)
(* refresh moves the key to the end, and the signature builder never stores *)
(* over a key, because what it stores always revalidates.                   *)
(***************************************************************************)
Tidy(c) ==
  /\ c = [order |-> c.order, entry |-> c.entry]
  /\ c.order \in Seq(Cached(c))
  /\ \A i, j \in DOMAIN c.order : c.order[i] = c.order[j] => i = j
  /\ \A k \in Cached(c) : \E i \in DOMAIN c.order : c.order[i] = k
  /\ Len(c.order) <= CacheCapacity

Dated(c, use) == DOMAIN use = Cached(c) /\ \A k \in Cached(c) : use[k] \in 0..arrivals

Sorted(order, use) ==
  \A i, j \in DOMAIN order : i < j => use[order[i]] <= use[order[j]]

CacheInv ==
  /\ builder \in {Profile, Signature, Constrained} /\ arrivals \in Nat
  /\ Tidy(cache) /\ Dated(cache, lastUse)
  /\ builder # Constrained => Sorted(cache.order, lastUse)
  /\ builder = Signature =>
       /\ \A k \in Cached(cache) : ~cache.entry[k].stale /\ Revalidates(cache.entry[k].plan)
       /\ pc = "ask" => key \notin Cached(cache)

\* There are as many keys as places.
LEMMA TidyCount ==
  ASSUME NEW c, Tidy(c)
  PROVE  Cardinality(Cached(c)) = Len(c.order)
<1> DEFINE n == Len(c.order)
<1>1. n \in Nat /\ DOMAIN c.order = 1..n
  BY DEF Tidy
<1>2. IsFiniteSet(1..n) /\ Cardinality(1..n) = n
  BY <1>1, FS_Interval
<1>3. c.order \in Bijection(1..n, Cached(c))
  <2>1. /\ c.order \in [1..n -> Cached(c)]
        /\ \A i, j \in 1..n : c.order[i] = c.order[j] => i = j
        /\ \A k \in Cached(c) : \E i \in 1..n : c.order[i] = k
    BY <1>1 DEF Tidy
  <2> QED BY <2>1 DEF Bijection, Injection, Surjection, IsInjective
<1>4. ExistsBijection(1..n, Cached(c))
  BY <1>3 DEF ExistsBijection
<1> QED BY <1>2, <1>4, FS_Bijection

\* What PlanCache._touch does to the order.
LEMMA TouchedMoves ==
  ASSUME NEW c, Tidy(c), NEW k \in Cached(c)
  PROVE  /\ Touched(c.order, k) \in Seq(Cached(c))
         /\ Len(Touched(c.order, k)) = Len(c.order)
         /\ \E at \in 1..Len(c.order) :
              /\ c.order[at] = k
              /\ \A i \in 1..Len(c.order) :
                   Touched(c.order, k)[i] = IF i < at THEN c.order[i]
                                            ELSE IF i < Len(c.order) THEN c.order[i + 1] ELSE k
<1> DEFINE s == c.order
           n == Len(s)
           at == CHOOSE i \in DOMAIN s : s[i] = k
           before == SubSeq(s, 1, at - 1)
           after == SubSeq(s, at + 1, n)
           moved == before \o after
<1>1. s \in Seq(Cached(c)) /\ n \in Nat /\ DOMAIN s = 1..n
  BY DEF Tidy
<1>2. at \in 1..n /\ s[at] = k
  BY <1>1 DEF Tidy
<1> HIDE DEF at
<1>3. /\ before \in Seq(Cached(c)) /\ Len(before) = at - 1
      /\ \A i \in 1..(at - 1) : before[i] = s[i]
  BY <1>1, <1>2
<1>4. /\ after \in Seq(Cached(c)) /\ Len(after) = n - at
      /\ \A i \in 1..(n - at) : after[i] = s[at + i]
  BY <1>1, <1>2
<1> HIDE DEF before, after
<1>5. /\ moved \in Seq(Cached(c)) /\ Len(moved) = n - 1
      /\ \A i \in 1..(n - 1) : moved[i] = IF i < at THEN s[i] ELSE s[i + 1]
  <2>1. moved \in Seq(Cached(c)) /\ Len(moved) = n - 1
    <3>1. moved \in Seq(Cached(c))
      BY <1>3, <1>4
    <3>2. Len(moved) = Len(before) + Len(after)
      <4>1. \A a, b \in Seq(Cached(c)) : Len(a \o b) = Len(a) + Len(b)
        OBVIOUS
      <4> QED BY <1>3, <1>4, <4>1
    <3>3. n - 1 = (at - 1) + (n - at)
      BY <1>1, <1>2
    <3> QED BY <1>3, <1>4, <3>1, <3>2, <3>3
  <2>2. ASSUME NEW i \in 1..(n - 1) PROVE moved[i] = IF i < at THEN s[i] ELSE s[i + 1]
    <3>1. CASE i < at
      BY <1>1, <1>2, <1>3, <1>4, <3>1
    <3>2. CASE ~(i < at)
      <4>1. moved[i] = after[i - (at - 1)]
        <5>1. \A a, b \in Seq(Cached(c)) : \A j \in (Len(a) + 1)..(Len(a) + Len(b)) :
                (a \o b)[j] = b[j - Len(a)]
          OBVIOUS
        <5>2. i \in (Len(before) + 1)..(Len(before) + Len(after))
          BY <1>1, <1>2, <1>3, <1>4, <3>2
        <5>3. moved[i] = after[i - Len(before)]
          BY <1>3, <1>4, <5>1, <5>2
        <5> HIDE DEF moved
        <5> QED BY <1>3, <5>3
      <4>2. i - (at - 1) \in 1..(n - at) /\ at + (i - (at - 1)) = i + 1
        BY <1>1, <1>2, <3>2
      <4> QED BY <1>4, <3>2, <4>1, <4>2
    <3> QED BY <3>1, <3>2
  <2> QED BY <2>1, <2>2
<1>6. Touched(s, k) = Append(moved, k)
  BY DEF Touched, RemoveAt, at, before, after
<1> HIDE DEF moved
<1>7. /\ Append(moved, k) \in Seq(Cached(c)) /\ Len(Append(moved, k)) = n
      /\ \A i \in 1..n : Append(moved, k)[i] = IF i < n THEN moved[i] ELSE k
  BY <1>1, <1>2, <1>5
<1>8. \A i \in 1..n : Touched(s, k)[i] = IF i < at THEN s[i] ELSE IF i < n THEN s[i + 1] ELSE k
  BY <1>1, <1>2, <1>5, <1>6, <1>7
<1> QED BY <1>2, <1>6, <1>7, <1>8

\* A cache whose order is c's with one key moved to the end, and that key's date.
LEMMA TouchedTidy ==
  ASSUME NEW c, Tidy(c), NEW k \in Cached(c), NEW entry, DOMAIN entry = Cached(c),
         NEW use, Dated(c, use), arrivals \in Nat,
         NEW d, d = [order |-> Touched(c.order, k), entry |-> entry],
         NEW used, used = [x \in Cached(d) |-> IF x = k THEN arrivals ELSE use[x]]
  PROVE  /\ Tidy(d) /\ Dated(d, used)
         /\ Sorted(c.order, use) => Sorted(d.order, used)
<1> DEFINE s == c.order
           n == Len(s)
           t == Touched(s, k)
<1>1. s \in Seq(Cached(c)) /\ n \in Nat /\ DOMAIN s = 1..n
  BY DEF Tidy
<1>2. PICK at \in 1..n :
        /\ s[at] = k
        /\ \A i \in 1..n : t[i] = IF i < at THEN s[i] ELSE IF i < n THEN s[i + 1] ELSE k
  BY TouchedMoves
<1>3. t \in Seq(Cached(c)) /\ Len(t) = n /\ DOMAIN t = 1..n
  BY <1>1, TouchedMoves
<1>4. Cached(d) = Cached(c) /\ d.order = t /\ d = [order |-> d.order, entry |-> d.entry]
  BY DEF Cached
<1> HIDE DEF t, n, s
<1>5. \A i, j \in 1..n : s[i] = s[j] => i = j
  BY <1>1 DEF Tidy, s
<1>6. \A i \in 1..n : t[i] = k <=> i = n
  BY <1>1, <1>2, <1>5
<1>7. \A i, j \in 1..n : t[i] = t[j] => i = j
  BY <1>1, <1>2, <1>5, <1>6
<1>8. ASSUME NEW x \in Cached(c) PROVE \E i \in 1..n : t[i] = x
  <2>1. PICK i \in 1..n : s[i] = x
    BY <1>1 DEF Tidy, s
  <2>2. CASE i < at
    BY <1>2, <2>1, <2>2
  <2>3. CASE i = at
    BY <1>1, <1>2, <1>6, <2>1, <2>3
  <2>4. CASE i > at
    <3>1. i - 1 \in 1..n /\ ~(i - 1 < at) /\ i - 1 < n /\ (i - 1) + 1 = i
      BY <1>1, <1>2, <2>1, <2>4
    <3> QED BY <1>2, <2>1, <3>1
  <2> QED BY <1>1, <1>2, <2>1, <2>2, <2>3, <2>4
<1>9. n <= CacheCapacity
  BY DEF Tidy, n, s
<1>10. Tidy(d)
  <2>1. d.order \in Seq(Cached(d)) /\ Len(d.order) <= CacheCapacity
    BY <1>3, <1>4, <1>9
  <2>2. \A i, j \in DOMAIN d.order : d.order[i] = d.order[j] => i = j
    BY <1>3, <1>4, <1>7
  <2>3. \A x \in Cached(d) : \E i \in DOMAIN d.order : d.order[i] = x
    BY <1>3, <1>4, <1>8
  <2> QED BY <1>4, <2>1, <2>2, <2>3 DEF Tidy
<1>11. Dated(d, used)
  BY <1>4 DEF Dated
<1>12. ASSUME Sorted(s, use) PROVE Sorted(t, used)
  <2> SUFFICES ASSUME NEW i \in 1..n, NEW j \in 1..n, i < j PROVE used[t[i]] <= used[t[j]]
    BY <1>3 DEF Sorted
  <2>1. t[i] \in Cached(c) /\ t[j] \in Cached(c) /\ t[i] # k
    BY <1>1, <1>3, <1>6
  <2>2. used[t[i]] = use[t[i]] /\ use[t[i]] \in 0..arrivals
    BY <1>4, <2>1 DEF Dated
  <2>3. CASE j = n
    <3>1. used[t[j]] = arrivals
      BY <1>4, <1>6, <2>1, <2>3
    <3> QED BY <2>2, <3>1
  <2>4. CASE j < n
    <3>1. used[t[j]] = use[t[j]]
      BY <1>1, <1>4, <1>6, <2>1, <2>4
    <3>2. PICK a \in 1..n, b \in 1..n : a < b /\ t[i] = s[a] /\ t[j] = s[b]
      <4>1. CASE j < at
        BY <1>1, <1>2, <4>1
      <4>2. CASE i < at /\ ~(j < at)
        BY <1>1, <1>2, <2>4, <4>2
      <4>3. CASE ~(i < at)
        <5>1. i + 1 \in 1..n /\ j + 1 \in 1..n /\ i + 1 < j + 1 /\ ~(j < at)
          BY <1>1, <1>2, <2>4, <4>3
        <5> QED BY <1>2, <2>4, <4>3, <5>1
      <4> QED BY <4>1, <4>2, <4>3
    <3> QED BY <1>1, <1>12, <2>2, <3>1, <3>2 DEF Sorted
  <2> QED BY <1>1, <2>3, <2>4
<1> QED BY <1>4, <1>10, <1>11, <1>12 DEF s

\* What PlanCache._enforce_size_invariant does after one key more.
LEMMA TrimDropsFirst ==
  ASSUME NEW K, NEW o \in Seq(K), NEW e, Len(o) <= CacheCapacity + 1,
         NEW d, d = Trimmed([order |-> o, entry |-> e])
  PROVE  /\ Len(o) <= CacheCapacity => d = [order |-> o, entry |-> [x \in DOMAIN e |-> e[x]]]
         /\ Len(o) = CacheCapacity + 1 =>
              d = [order |-> Tail(o), entry |-> [x \in DOMAIN e \ {o[1]} |-> e[x]]]
<1>1. CacheCapacity \in Nat /\ Len(o) \in Nat
  BY CapacityAssumption
<1>2. PICK excess : excess = IF Len(o) > CacheCapacity THEN Len(o) - CacheCapacity ELSE 0
  OBVIOUS
<1>3. d = [order |-> SubSeq(o, excess + 1, Len(o)),
           entry |-> [x \in DOMAIN e \ ToSet(SubSeq(o, 1, excess)) |-> e[x]]]
  BY <1>2 DEF Trimmed, Cached
<1>4. CASE Len(o) <= CacheCapacity
  <2>1. excess = 0
    BY <1>1, <1>2, <1>4
  <2>2. SubSeq(o, 1, Len(o)) = o
    OBVIOUS
  <2>3. ToSet(SubSeq(o, 1, 0)) = {}
    BY DEF ToSet
  <2>4. excess + 1 = 1
    BY <2>1
  <2>5. d = [order |-> o, entry |-> [x \in DOMAIN e |-> e[x]]]
    BY <1>3, <2>1, <2>2, <2>3, <2>4
  <2> QED BY <1>1, <1>4, <2>5
<1>5. CASE Len(o) = CacheCapacity + 1
  <2>1. excess = 1 /\ excess + 1 = 2
    BY <1>1, <1>2, <1>5
  <2>2. SubSeq(o, 2, Len(o)) = Tail(o)
    BY <1>1, <1>5
  <2>3. ToSet(SubSeq(o, 1, 1)) = {o[1]}
    <3>1. Len(SubSeq(o, 1, 1)) = 1 /\ SubSeq(o, 1, 1)[1] = o[1] /\ DOMAIN SubSeq(o, 1, 1) = 1..1
      BY <1>1, <1>5
    <3> QED BY <3>1 DEF ToSet
  <2>4. d = [order |-> Tail(o), entry |-> [x \in DOMAIN e \ {o[1]} |-> e[x]]]
    BY <1>3, <2>1, <2>2, <2>3
  <2>5. ~(Len(o) <= CacheCapacity)
    BY <1>1, <1>5
  <2> QED BY <2>4, <2>5
<1> QED BY <1>1, <1>4, <1>5

\* A put: a key that is there keeps its place, a new one comes last, and with
\* no room for it the first goes.
LEMMA PutTidy ==
  ASSUME NEW c, Tidy(c), NEW k, NEW plan, NEW use, Dated(c, use), arrivals \in Nat,
         NEW d, d = Put(c, k, plan),
         NEW used, used = [x \in Cached(d) |-> IF x = k THEN arrivals ELSE use[x]]
  PROVE  /\ Tidy(d) /\ Dated(d, used)
         /\ k \notin Cached(c) /\ Sorted(c.order, use) => Sorted(d.order, used)
         /\ \A x \in Cached(c) \ Cached(d) :
              Len(c.order) = CacheCapacity /\ x = c.order[1]
         /\ \A x \in Cached(d) :
              IF x = k THEN d.entry[x] = [plan |-> plan, stale |-> FALSE]
              ELSE x \in Cached(c) /\ d.entry[x] = c.entry[x]
<1> DEFINE K == Cached(c) \cup {k}
           s == c.order
           n == Len(s)
           o == IF k \in Cached(c) THEN s ELSE Append(s, k)
           e == [x \in K |-> IF x = k THEN [plan |-> plan, stale |-> FALSE] ELSE c.entry[x]]
           t == d.order
<1>1. s \in Seq(Cached(c)) /\ n \in Nat /\ DOMAIN s = 1..n /\ n <= CacheCapacity
      /\ CacheCapacity \in Nat /\ CacheCapacity > 0
  BY CapacityAssumption DEF Tidy
<1>2. d = Trimmed([order |-> o, entry |-> e])
  BY DEF Put
<1>3. o \in Seq(K) /\ Len(o) <= n + 1 /\ Len(o) <= CacheCapacity + 1
  BY <1>1
<1>11. DOMAIN e = K /\ \A x \in K : e[x] = IF x = k THEN [plan |-> plan, stale |-> FALSE] ELSE c.entry[x]
  OBVIOUS
<1> HIDE DEF K, e, o, t
<1>4. Len(o) <= CacheCapacity => d = [order |-> o, entry |-> [x \in DOMAIN e |-> e[x]]]
  BY <1>2, <1>3, TrimDropsFirst
<1>5. Len(o) = CacheCapacity + 1 =>
        /\ d = [order |-> t, entry |-> [x \in DOMAIN e \ {o[1]} |-> e[x]]]
        /\ t \in Seq(K) /\ Len(t) = CacheCapacity
        /\ \A i \in 1..CacheCapacity : t[i] = o[i + 1]
  <2>1. Len(o) = CacheCapacity + 1 =>
          d = [order |-> Tail(o), entry |-> [x \in DOMAIN e \ {o[1]} |-> e[x]]]
    BY <1>2, <1>3, TrimDropsFirst
  <2>2. Len(o) = CacheCapacity + 1 =>
          /\ Tail(o) \in Seq(K) /\ Len(Tail(o)) = CacheCapacity
          /\ \A i \in 1..CacheCapacity : Tail(o)[i] = o[i + 1]
    BY <1>1, <1>3
  <2>3. Len(o) = CacheCapacity + 1 => d.order = Tail(o)
    BY <2>1
  <2> QED BY <2>1, <2>2, <2>3 DEF t
<1>6. \A i, j \in 1..n : s[i] = s[j] => i = j
  BY <1>1 DEF Tidy
<1>7. \A x \in Cached(c) : \E i \in 1..n : s[i] = x
  BY <1>1 DEF Tidy
<1>8. \A i \in 1..n : s[i] \in Cached(c)
  BY <1>1
<1>9. CASE k \in Cached(c)
  <2>1. o = s /\ K = Cached(c) /\ DOMAIN e = Cached(c)
    BY <1>9, <1>11 DEF o, K
  <2>2. t = s /\ Cached(d) = Cached(c) /\ d = [order |-> t, entry |-> d.entry]
        /\ \A x \in Cached(d) : d.entry[x] = e[x]
    BY <1>1, <1>4, <1>11, <2>1 DEF Cached, t
  <2>3. Tidy(d)
    <3>1. d.order \in Seq(Cached(d)) /\ Len(d.order) <= CacheCapacity
          /\ d = [order |-> d.order, entry |-> d.entry]
      BY <1>1, <2>2 DEF t
    <3>4. d.order = s /\ DOMAIN d.order = 1..n
      BY <1>1, <2>2 DEF t
    <3>2. \A i, j \in DOMAIN d.order : d.order[i] = d.order[j] => i = j
      BY <1>6, <3>4
    <3>3. \A x \in Cached(d) : \E i \in DOMAIN d.order : d.order[i] = x
      BY <1>7, <2>2, <3>4
    <3> QED BY <3>1, <3>2, <3>3 DEF Tidy
  <2>4. Dated(d, used)
    BY <2>2 DEF Dated
  <2> QED BY <1>9, <1>11, <2>2, <2>3, <2>4 DEF K
<1>10. CASE k \notin Cached(c)
  <2>1. o = Append(s, k) /\ Len(o) = n + 1 /\ DOMAIN o = 1..(n + 1)
        /\ \A i \in 1..(n + 1) : o[i] = IF i <= n THEN s[i] ELSE k
    BY <1>1, <1>10 DEF o
  <2>2. \A i, j \in 1..(n + 1) : o[i] = o[j] => i = j
    BY <1>1, <1>6, <1>8, <1>10, <2>1
  <2>3. \A x \in K : \E i \in 1..(n + 1) : o[i] = x
    <3>1. o[n + 1] = k /\ n + 1 \in 1..(n + 1)
      BY <1>1, <2>1
    <3>2. ASSUME NEW x \in Cached(c) PROVE \E i \in 1..(n + 1) : o[i] = x
      <4>1. PICK i \in 1..n : s[i] = x
        BY <1>7
      <4> QED BY <1>1, <2>1, <4>1
    <3> QED BY <3>1, <3>2 DEF K
  <2>4. \A i \in 1..(n + 1) : o[i] \in K
    BY <1>1, <1>8, <2>1 DEF K
  <2>5. Sorted(s, use) =>
          \A i, j \in 1..(n + 1) : i < j =>
            (IF o[i] = k THEN arrivals ELSE use[o[i]]) <= (IF o[j] = k THEN arrivals ELSE use[o[j]])
    <3> SUFFICES ASSUME Sorted(s, use), NEW i \in 1..(n + 1), NEW j \in 1..(n + 1), i < j
                 PROVE  (IF o[i] = k THEN arrivals ELSE use[o[i]])
                          <= (IF o[j] = k THEN arrivals ELSE use[o[j]])
      OBVIOUS
    <3>1. i \in 1..n /\ o[i] = s[i] /\ s[i] \in Cached(c) /\ o[i] # k
      BY <1>1, <1>8, <1>10, <2>1
    <3>2. use[s[i]] \in 0..arrivals
      BY <3>1 DEF Dated, K
    <3>3. CASE j = n + 1
      BY <1>1, <2>1, <3>1, <3>2, <3>3
    <3>4. CASE j \in 1..n
      <4>1. o[j] = s[j] /\ s[j] \in Cached(c) /\ o[j] # k
        BY <1>1, <1>8, <1>10, <2>1, <3>4
      <4>2. use[s[i]] <= use[s[j]]
        BY <1>1, <3>1, <3>4 DEF Sorted
      <4> QED BY <3>1, <4>1, <4>2
    <3> QED BY <1>1, <3>3, <3>4
  <2>6. CASE n < CacheCapacity
    <3>1. t = o /\ Cached(d) = K /\ d = [order |-> t, entry |-> d.entry]
          /\ \A x \in Cached(d) : d.entry[x] = e[x]
      BY <1>1, <1>4, <1>11, <2>1, <2>6 DEF Cached, t
    <3>2. Tidy(d)
      <4>1. d.order = o /\ d.order \in Seq(Cached(d)) /\ Len(d.order) <= CacheCapacity
            /\ d = [order |-> d.order, entry |-> d.entry]
        BY <1>1, <1>3, <2>1, <2>6, <3>1 DEF t
      <4>2. \A i, j \in DOMAIN d.order : d.order[i] = d.order[j] => i = j
        BY <2>1, <2>2, <4>1
      <4>3. \A x \in Cached(d) : \E i \in DOMAIN d.order : d.order[i] = x
        BY <2>1, <2>3, <3>1, <4>1
      <4> QED BY <4>1, <4>2, <4>3 DEF Tidy
    <3>3. Dated(d, used)
      BY <3>1 DEF Dated, K
    <3>4. Sorted(s, use) => Sorted(t, used)
      BY <2>1, <2>4, <2>5, <3>1 DEF Sorted
    <3> QED BY <1>10, <1>11, <3>1, <3>2, <3>3, <3>4 DEF t, K
  <2>7. CASE n = CacheCapacity
    <3>1. Cached(d) = K \ {o[1]} /\ d = [order |-> t, entry |-> d.entry]
          /\ \A x \in Cached(d) : d.entry[x] = e[x]
      BY <1>1, <1>5, <1>11, <2>1, <2>7 DEF Cached
    <3>2. Len(t) = n /\ DOMAIN t = 1..n /\ \A i \in 1..n : t[i] = o[i + 1] /\ i + 1 \in 1..(n + 1)
      BY <1>1, <1>5, <2>1, <2>7
    <3>3. \A i \in 1..n : t[i] \in Cached(d)
      <4> SUFFICES ASSUME NEW i \in 1..n PROVE o[i + 1] \in K \ {o[1]}
        BY <3>1, <3>2
      <4>1. i + 1 \in 1..(n + 1) /\ 1 \in 1..(n + 1) /\ i + 1 # 1
        BY <1>1
      <4> QED BY <2>2, <2>4, <4>1
    <3>4. t \in Seq(Cached(d))
      <4>1. t \in Seq(K)
        BY <1>5, <2>1, <2>7
      <4> QED BY <1>1, <3>2, <3>3, <4>1
    <3>5. \A i, j \in 1..n : t[i] = t[j] => i = j
      <4> SUFFICES ASSUME NEW i \in 1..n, NEW j \in 1..n, t[i] = t[j] PROVE i = j
        OBVIOUS
      <4>1. i + 1 = j + 1
        BY <2>2, <3>2
      <4> QED BY <4>1
    <3>6. ASSUME NEW x \in Cached(d) PROVE \E i \in 1..n : t[i] = x
      <4>1. PICK j \in 1..(n + 1) : o[j] = x
        BY <2>3, <3>1
      <4>2. j # 1
        BY <3>1, <4>1
      <4>3. j - 1 \in 1..n /\ (j - 1) + 1 = j
        BY <1>1, <4>2
      <4> QED BY <3>2, <4>1, <4>3
    <3>7. Tidy(d)
      BY <1>1, <3>1, <3>2, <3>4, <3>5, <3>6 DEF Tidy, t
    <3>8. Dated(d, used)
      BY <3>1 DEF Dated, K
    <3>9. Sorted(s, use) => Sorted(t, used)
      <4> SUFFICES ASSUME Sorted(s, use), NEW i \in 1..n, NEW j \in 1..n, i < j
                   PROVE  used[t[i]] <= used[t[j]]
        BY <3>2 DEF Sorted
      <4>1. i + 1 \in 1..(n + 1) /\ j + 1 \in 1..(n + 1) /\ i + 1 < j + 1
        BY <1>1
      <4> QED BY <2>5, <3>2, <3>3, <4>1
    <3>10. o[1] = s[1]
      BY <1>1, <2>1, <2>7
    <3> QED BY <1>10, <1>11, <2>7, <3>1, <3>7, <3>8, <3>9, <3>10 DEF t, K
  <2>8. n < CacheCapacity \/ n = CacheCapacity
    BY <1>1
  <2> QED BY <2>6, <2>7, <2>8
<1> QED BY <1>9, <1>10

\* What the signature builder stores it will find valid: the tier of each VNF
\* is taken again from the domain the model chose (recompute_required_tiers).
LEMMA RederivedRevalidates ==
  ASSUME NEW s \in Requests, NEW r, NEW said \in Said(s), NEW echoed,
         CheckPlan(r, s, SaidDomains(said), echoed)
  PROVE  Revalidates(RederivedPlan(s, said))
<1> DEFINE plan == RederivedPlan(s, said)
<1>1. DOMAIN SaidDomains(said) = DOMAIN s.vnfs /\ DOMAIN said = DOMAIN s.vnfs
  BY DEF Said, SaidDomains
<1>2. plan.domains = SaidDomains(said)
      /\ plan.tiers = [k \in DOMAIN said |-> RequiredTier(s.vnfs[k], said[k][1], said[k][2])]
  BY DEF RederivedPlan
<1> SUFFICES ASSUME NEW k \in DOMAIN s.vnfs
             PROVE  RequiredTier(s.vnfs[k], said[k][1], said[k][2]) \in TiersIn(said[k][1])
  BY <1>1, <1>2 DEF Revalidates, SaidDomains
<1> DEFINE shared == SharedTiers(s.vnfs[k], said[k][1])
<1>3. shared # {}
  BY <1>1 DEF CheckPlan, TiersSupported, SaidDomains
<1>4. shared \subseteq Nat /\ shared \subseteq TiersIn(said[k][1])
  BY TopologyAssumption DEF SharedTiers, TiersIn, TiersOf, NodesIn
<1> HIDE DEF shared
<1>5. \A t \in shared : Alphabetical(t) \in 0..2
  BY <1>4 DEF Alphabetical
<1>6. \E t \in shared : \A u \in shared : Alphabetical(t) <= Alphabetical(u)
  <2>1. CASE \E t \in shared : Alphabetical(t) = 0
    BY <1>5, <2>1
  <2>2. CASE (\E t \in shared : Alphabetical(t) = 1) /\ ~(\E t \in shared : Alphabetical(t) = 0)
    BY <1>5, <2>2
  <2>3. CASE ~(\E t \in shared : Alphabetical(t) = 1) /\ ~(\E t \in shared : Alphabetical(t) = 0)
    BY <1>3, <1>5, <2>3
  <2> QED BY <2>1, <2>2, <2>3
<1>7. RequiredTier(s.vnfs[k], said[k][1], said[k][2])
        = CHOOSE t \in shared : \A u \in shared : Alphabetical(t) <= Alphabetical(u)
  BY <1>3 DEF RequiredTier, shared
<1> QED BY <1>4, <1>6, <1>7

\* A key that leaves the cache is the first of a full one.
LeavesFirst ==
  \A k \in Cached(cache) \ Cached(cache') :
    Len(cache.order) = CacheCapacity /\ k = cache.order[1]

LEMMA AcceptCache ==
  ASSUME CacheInv, pc = "ask", NEW plan, Accept(plan),
         builder = Signature => Revalidates(plan)
  PROVE  CacheInv' /\ LeavesFirst
<1>1. /\ cache' = Stored(plan) /\ lastUse' = Used /\ arrivals' = arrivals
      /\ builder' = builder /\ pc' = "idle"
  BY DEF Accept, setting
<1>2. CASE builder = Profile /\ key \in Cached(cache)
  <2> DEFINE entry == [cache.entry EXCEPT ![key] = [plan |-> plan, stale |-> FALSE]]
  <2>1. cache' = [order |-> Touched(cache.order, key), entry |-> entry]
        /\ DOMAIN entry = Cached(cache)
    BY <1>1, <1>2 DEF Stored, Refreshed, Cached
  <2>2. Tidy(cache') /\ Dated(cache', lastUse')
        /\ (Sorted(cache.order, lastUse) => Sorted(cache'.order, lastUse'))
    <3>1. Tidy(cache) /\ Dated(cache, lastUse) /\ arrivals \in Nat
      BY DEF CacheInv
    <3>2. lastUse' = [x \in Cached(cache') |-> IF x = key THEN arrivals ELSE lastUse[x]]
      BY <1>1 DEF Used
    <3> HIDE DEF entry
    <3> QED BY <1>2, <2>1, <3>1, <3>2, TouchedTidy
  <2>3. Cached(cache') = Cached(cache)
    BY <2>1 DEF Cached
  <2>4. builder # Signature /\ builder # Constrained
    BY <1>2 DEF Profile, Signature, Constrained
  <2> QED BY <1>1, <2>2, <2>3, <2>4 DEF CacheInv, LeavesFirst, Tidy, Dated
<1>3. CASE ~(builder = Profile /\ key \in Cached(cache))
  <2>1. cache' = Put(cache, key, plan)
    BY <1>1, <1>3 DEF Stored
  <2>2. /\ Tidy(cache') /\ Dated(cache', lastUse')
        /\ key \notin Cached(cache) /\ Sorted(cache.order, lastUse) => Sorted(cache'.order, lastUse')
        /\ \A x \in Cached(cache) \ Cached(cache') :
             Len(cache.order) = CacheCapacity /\ x = cache.order[1]
        /\ \A x \in Cached(cache') :
             IF x = key THEN cache'.entry[x] = [plan |-> plan, stale |-> FALSE]
             ELSE x \in Cached(cache) /\ cache'.entry[x] = cache.entry[x]
    BY <1>1, <2>1, PutTidy DEF CacheInv, Used
  <2>3. builder # Constrained => key \notin Cached(cache)
    BY <1>3 DEF CacheInv
  <2>4. builder = Signature =>
          \A k \in Cached(cache') : ~cache'.entry[k].stale /\ Revalidates(cache'.entry[k].plan)
    BY <2>2 DEF CacheInv
  <2> QED BY <1>1, <2>2, <2>3, <2>4 DEF CacheInv, LeavesFirst, Tidy, Dated, Revalidates
<1> QED BY <1>2, <1>3

\* A lookup that finds the key.
LEMMA LookupCache ==
  ASSUME CacheInv, ServeHit \/ RejectHit
  PROVE  CacheInv' /\ LeavesFirst
<1> DEFINE got == Got(cache, key)
<1>1. /\ key \in Cached(cache) /\ builder' = builder /\ arrivals' = arrivals
      /\ lastUse' = Used /\ key' = key /\ cache' \in {got, MarkedStale(got, key)}
      /\ cache' # got => builder = Constrained
  <2>1. CASE ServeHit
    BY <2>1 DEF ServeHit, setting, Live, key, Key
  <2>2. CASE RejectHit
    BY <2>2 DEF RejectHit, setting, Live, key, Key, CacheInv
  <2> QED BY <2>1, <2>2
<1>2. got = [order |-> Touched(cache.order, key), entry |-> cache.entry]
  BY DEF Got, CacheInv, Tidy
<1>3. /\ cache' = [order |-> Touched(cache.order, key), entry |-> cache'.entry]
      /\ DOMAIN cache'.entry = Cached(cache)
      /\ cache' = got => cache'.entry = cache.entry
  <2>1. CASE cache' = got
    BY <1>2, <2>1 DEF Cached
  <2>2. CASE cache' = MarkedStale(got, key)
    <3>1. cache' = [order |-> Touched(cache.order, key),
                    entry |-> [cache.entry EXCEPT ![key].stale = TRUE]]
      BY <1>2, <2>2 DEF MarkedStale
    <3>2. cache'.order = Touched(cache.order, key)
          /\ cache'.entry = [cache.entry EXCEPT ![key].stale = TRUE]
      BY <3>1
    <3>3. DOMAIN cache'.entry = Cached(cache)
      BY <3>2 DEF Cached
    <3>4. cache' = got => cache'.entry = cache.entry
      BY <1>2
    <3> QED BY <3>1, <3>2, <3>3, <3>4
  <2> QED BY <1>1, <2>1, <2>2
<1>4. Cached(cache') = Cached(cache)
  BY <1>3 DEF Cached
<1>5. Tidy(cache') /\ Dated(cache', lastUse')
      /\ (Sorted(cache.order, lastUse) => Sorted(cache'.order, lastUse'))
  BY <1>1, <1>3, TouchedTidy DEF CacheInv, Used
<1>6. builder = Signature => cache'.entry = cache.entry /\ pc' # "ask"
  <2>1. builder = Signature => cache' = got
    BY <1>1 DEF Signature, Constrained
  <2>2. builder = Signature => ~RejectHit
    BY DEF RejectHit, CacheInv, Live
  <2> QED BY <1>3, <2>1, <2>2 DEF ServeHit
<1> QED BY <1>1, <1>4, <1>5, <1>6 DEF CacheInv, LeavesFirst, Dated, Revalidates

LEMMA CacheNext ==
  ASSUME IInv, CacheInv, [Next]_vars
  PROVE  CacheInv' /\ LeavesFirst
<1>1. ASSUME cache' = cache, lastUse' = lastUse, builder' = builder, arrivals' \in Nat,
             arrivals <= arrivals',
             pc' = "ask" => key' = key /\ (pc = "ask" \/ ~Live(cache, key))
      PROVE  CacheInv' /\ LeavesFirst
  <2>2. (Dated(cache, lastUse))'
    BY <1>1 DEF CacheInv, Dated
  <2>3. builder = Signature /\ ~Live(cache, key) => key \notin Cached(cache)
    BY DEF CacheInv, Live
  <2> QED BY <1>1, <2>2, <2>3 DEF CacheInv, LeavesFirst, Tidy, Sorted, Revalidates, Cached
<1>2. CASE \E s \in Requests, r \in Residuals : Arrive(s, r)
  BY <1>1, <1>2 DEF Arrive, setting, CacheInv
<1>3. CASE ServeHit \/ RejectHit
  BY <1>3, LookupCache
<1>4. CASE Miss
  BY <1>1, <1>4 DEF Miss, setting, history, CacheInv, key, Key
<1>5. CASE Unplaceable \/ CallRaises
  BY <1>1, <1>5 DEF Unplaceable, CallRaises, Refuse, setting, history, CacheInv
<1>6. CASE FailedAttempt
  <2>1. pc = "ask" /\ key' = key
    BY <1>6 DEF FailedAttempt, MayAsk, setting, key, Key
  <2> QED BY <1>1, <1>6, <2>1 DEF FailedAttempt, setting, CacheInv
<1>7. CASE builder = Profile /\ \E p \in MayAnswer : AcceptPinned(p)
  BY <1>7, AcceptCache DEF AcceptPinned, MayAsk, Profile, Signature
<1>8. ASSUME NEW said \in Said(request), AcceptChecked(said) PROVE CacheInv' /\ LeavesFirst
  <2>1. request \in Requests => Revalidates(RederivedPlan(request, said))
    BY <1>8, RederivedRevalidates DEF AcceptChecked
  <2> QED BY <1>8, <2>1, AcceptCache DEF AcceptChecked, MayAsk, IInv
<1>9. ASSUME NEW said \in Said(request), AcceptStated(said) PROVE CacheInv' /\ LeavesFirst
  BY <1>9, AcceptCache DEF AcceptStated, MayAsk, Constrained, Signature
<1>10. CASE UNCHANGED vars
  <2>1. key' = key
    BY <1>10 DEF vars, key, Key
  <2> QED BY <1>1, <1>10, <2>1 DEF vars, CacheInv
<1> QED BY <1>2, <1>3, <1>4, <1>5, <1>6, <1>7, <1>8, <1>9, <1>10 DEF Next, Answer

LEMMA CacheInit ==
  ASSUME Init
  PROVE  CacheInv
<1>1. CacheCapacity \in Nat
  BY CapacityAssumption
<1>2. EmptyCache.order = <<>> /\ Cached(EmptyCache) = {} /\ DOMAIN <<>> = {} /\ Len(<<>>) = 0
  BY DEF EmptyCache, Cached
<1>3. Tidy(EmptyCache)
  BY <1>1, <1>2 DEF Tidy, EmptyCache
<1>4. Dated(EmptyCache, <<>>) /\ Sorted(EmptyCache.order, <<>>)
  BY <1>2 DEF Dated, Sorted
<1> QED BY <1>2, <1>3, <1>4, BuilderAssumption DEF Init, CacheInv

\* The cache never holds more than its capacity, and a key leaves it only for
\* want of room and only when it is the one longest unread and unwritten
\* (PlanCache's "bounded LRU", of get, put, refresh, mark_stale and
\* _enforce_size_invariant together).
THEOREM EvictionIsLeastRecent == Spec => EvictsLeastRecent
<1>1. Init => CacheInv
  BY CacheInit
<1>2. Init => IInv
  BY InitInv
<1>3. IInv /\ [Next]_vars => IInv'
  BY NextInv
<1>4. IInv /\ CacheInv /\ [Next]_vars => CacheInv'
  BY CacheNext
<1>5. ASSUME IInv, CacheInv, [Next]_vars
      PROVE  /\ Cardinality(Cached(cache')) <= CacheCapacity
             /\ \A k \in Cached(cache) \ Cached(cache') :
                  builder # Constrained =>
                    /\ Cardinality(Cached(cache)) = CacheCapacity
                    /\ \A other \in Cached(cache) : lastUse[k] <= lastUse[other]
  <2>1. CacheInv' /\ LeavesFirst
    BY <1>5, CacheNext
  <2>2. Tidy(cache')
    BY <2>1 DEF CacheInv, Tidy
  <2>3. Cardinality(Cached(cache')) <= CacheCapacity
    BY <2>2, TidyCount DEF Tidy
  <2>4. Cardinality(Cached(cache)) = Len(cache.order)
    BY <1>5, TidyCount DEF CacheInv
  <2>5. ASSUME builder # Constrained, NEW k \in Cached(cache), k = cache.order[1],
               NEW other \in Cached(cache)
        PROVE  lastUse[k] <= lastUse[other]
    <3>1. PICK j \in DOMAIN cache.order : cache.order[j] = other
      BY <1>5 DEF CacheInv, Tidy
    <3>2. DOMAIN cache.order = 1..Len(cache.order) /\ Len(cache.order) \in Nat
      BY <1>5 DEF CacheInv, Tidy
    <3>3. lastUse[k] \in Nat
      BY <1>5 DEF CacheInv, Dated
    <3>4. CASE j = 1
      BY <2>5, <3>1, <3>3, <3>4
    <3>5. CASE 1 < j
      BY <1>5, <2>5, <3>1, <3>2, <3>5 DEF CacheInv, Sorted
    <3> QED BY <3>2, <3>4, <3>5
  <2> QED BY <2>1, <2>3, <2>4, <2>5 DEF LeavesFirst
<1> QED BY <1>1, <1>2, <1>3, <1>4, <1>5, PTL DEF Spec, EvictsLeastRecent
=============================================================================
