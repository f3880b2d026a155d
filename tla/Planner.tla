------------------------------- MODULE Planner -------------------------------
(***************************************************************************)
(* The plan builders backed by a language model, one arrival after another: *)
(* look the request up in the plan cache, revalidate what is found, ask     *)
(* Agent B, check and retry, store.  Three builders share the cache:        *)
(*                                                                         *)
(*   "profile"      scripts/wp7_runner.py, what the experiments run: the    *)
(*                  key carries the network condition, the decoding is      *)
(*                  pinned to feasible domains                              *)
(*   "signature"    make_agent_b_plan_builder: the key is the request's     *)
(*                  intent alone, the model names domains freely            *)
(*   "constrained"  make_constrained_plan_builder: one attempt, and nothing *)
(*                  is checked but the shape                                *)
(*                                                                         *)
(* What the model says is left open.  The residuals an arrival finds are    *)
(* the episode's doing (Admission); here they are any of Residuals.         *)
(***************************************************************************)
EXTENDS StructuralCheck, PlanCache

CONSTANTS
  Requests,     \* records [kind, vnfs, bw, maxDelay, rate]
  Residuals,    \* what the network may be found like
  Builders,     \* the builders of this run
  Contracts,    \* what the schema of the profile builder may hold an answer to
  MaxRetries,   \* regenerations after a failed attempt
  Statements,   \* <<domain, tier>> pairs a free answer may hold; bound
  MaxArrivals   \* bound

Profile == "profile"
Signature == "signature"
Constrained == "constrained"

Template(s) == [k \in DOMAIN s.vnfs |-> s.vnfs[k].type]
SameChain(s, t) == s.kind = t.kind /\ Template(s) = Template(t)

\* slice_generator.py: every request of a kind has the same chain, and a VNF is
\* permitted on all nodes of some tiers.
ASSUME RequestAssumption ==
  /\ \A s \in Requests :
       \A k \in DOMAIN s.vnfs :
         /\ s.vnfs[k].permitted \subseteq Nodes
         /\ \A n \in s.vnfs[k].permitted, m \in Nodes :
              TierOf[m] = TierOf[n] => m \in s.vnfs[k].permitted
  /\ \A s, t \in Requests :
       SameChain(s, t) => \A k \in DOMAIN s.vnfs : s.vnfs[k].permitted = t.vnfs[k].permitted

ASSUME BuilderAssumption ==
  /\ Builders \subseteq {Profile, Signature, Constrained}
  /\ Contracts \subseteq {"tiers", "capacity", "colocation"}
  /\ MaxRetries \in Nat

VARIABLES
  builder,      \* which of the builders this episode runs
  contract,     \* CAPACITY_MASK, COLOCATION_CONTRACT: "tiers" with neither
  cache,        \* its PlanCache
  pc,           \* "idle", "lookup" or "ask"
  request,      \* the request in hand
  found,        \* the network it finds
  attempt,      \* completions asked for it so far
  answer,       \* what the request was given, if anything yet
  stats,        \* hits and misses; plan and fallback counts of the tracker
  \* Of no influence on the rest:
  arrivals,     \* arrivals so far
  lastUse       \* for every cached key, the arrival that last read or stored it

vars == <<builder, contract, cache, pc, request, found, attempt, answer, stats,
          arrivals, lastUse>>
setting == <<builder, contract>>
history == <<arrivals, lastUse>>

(***************************************************************************)
(* Keys.                                                                   *)
(***************************************************************************)
\* Which of the intervals between the bounds x lies in, upper ends excluded.
Bucket(x, bounds) == Cardinality({b \in bounds : b <= x})
DelayBucket(s) == Bucket(s.maxDelay, {5, 10, 20, 50, 100})
RateBucket(s) == Bucket(s.rate, {10, 50, 100, 250, 500})

Intent[s \in Requests] == <<s.kind, DelayBucket(s), RateBucket(s), Template(s)>>

\* part / whole to the nearest of `steps` equal parts, halves to the even one.
Quantised(part, whole, steps) ==
  LET down == (part * steps) \div whole
      rest == (part * steps) % whole
  IN  IF 2 * rest > whole \/ (2 * rest = whole /\ down % 2 = 1) THEN down + 1 ELSE down

CpuLevel(r, nodes, steps) ==
  LET cpu(of) == MapThenSumSet(LAMBDA n : of[<<n, "cpu">>], nodes)
  IN  IF cpu(Capacity) = 0 THEN 0 ELSE Quantised(cpu(r), cpu(Capacity), steps)

\* The CPU left to a tenth, and that of every tier to a quarter.
Condition[r \in Residuals] ==
  <<CpuLevel(r, Nodes, 10),
    [t \in TiersOf(Nodes) |-> CpuLevel(r, {n \in Nodes : TierOf[n] = t}, 4)]>>

Key(s, r) == <<Intent[s], IF builder = Profile THEN Condition[r] ELSE <<>> >>
key == Key(request, found)

(***************************************************************************)
(* Plans: a domain and a required tier for every VNF.                       *)
(***************************************************************************)
Revalidates(plan) ==
  \A k \in DOMAIN plan.domains : plan.tiers[k] \in TiersIn(plan.domains[k])

\* What the pinned schema lets the model say.  With no domain that can take the
\* whole chain it falls back to the tiers, and lets nothing be said when a VNF
\* has no feasible domain.
Selectable(s, hosts, k) == IF hosts = {} THEN FeasibleDomains(s.vnfs[k]) ELSE hosts
Expressible(rule, s, hosts) ==
  IF rule = "colocation" /\ hosts # {}
  THEN {Expanded(s, d) : d \in hosts}
  ELSE {p \in [DOMAIN s.vnfs -> Summarised] :
          \A k \in DOMAIN p : p[k] \in Selectable(s, hosts, k)}
Pinned[rule \in Contracts] ==
  [s \in Requests |-> [r \in Residuals |->
     Expressible(rule, s, IF rule = "tiers" THEN {} ELSE WholeChainHosts(r, s))]]
MayAnswer == Pinned[contract][request][found]

\* The pinned schema asks for domains only: every number is then filled in from
\* the request, and whether a flow crosses from the plan.
Echoed == builder = Profile

PinnedPlan(s, p) ==
  [domains |-> p, tiers |-> [k \in DOMAIN p |-> ModalTier(s.vnfs[k].permitted)]]

Said(s) == [DOMAIN s.vnfs -> Statements]
SaidDomains(said) == [k \in DOMAIN said |-> said[k][1]]
StatedPlan(said) ==
  [domains |-> SaidDomains(said), tiers |-> [k \in DOMAIN said |-> said[k][2]]]
RederivedPlan(s, said) ==
  [domains |-> SaidDomains(said),
   tiers |-> [k \in DOMAIN said |-> RequiredTier(s.vnfs[k], said[k][1], said[k][2])]]

Refusal == [from |-> "refused"]
NoStats == [hits |-> 0, misses |-> 0, plans |-> 0, fallbacks |-> 0, calls |-> 0]

(***************************************************************************)
(* Actions.                                                                *)
(***************************************************************************)
Init ==
  /\ builder \in Builders
  /\ contract \in IF builder = Profile THEN Contracts ELSE {"tiers"}
  /\ cache = EmptyCache
  /\ pc = "idle"
  /\ request \in Requests
  /\ found \in Residuals
  /\ attempt = 0
  /\ answer = Refusal
  /\ stats = NoStats
  /\ arrivals = 0
  /\ lastUse = <<>>

Arrive(s, r) ==
  /\ pc = "idle"
  /\ arrivals < MaxArrivals
  /\ pc' = "lookup"
  /\ request' = s
  /\ found' = r
  /\ attempt' = 0
  /\ answer' = Refusal
  /\ arrivals' = arrivals + 1
  /\ UNCHANGED <<setting, cache, stats, lastUse>>

Used == [k \in Cached(cache') |-> IF k = key THEN arrivals ELSE lastUse[k]]

\* The hit the run reports is one that saved a call.
ServeHit ==
  /\ pc = "lookup"
  /\ Live(cache, key)
  /\ Revalidates(cache.entry[key].plan)
  /\ cache' = Got(cache, key)
  /\ lastUse' = Used
  /\ answer' = [from |-> "cache", plan |-> cache.entry[key].plan]
  /\ stats' = [stats EXCEPT !.hits = @ + 1,
                            !.plans = IF builder = Profile THEN @ ELSE @ + 1]
  /\ pc' = "idle"
  /\ UNCHANGED <<setting, request, found, attempt, arrivals>>

\* Mutant: only a key that is not there counts as a miss.
MissCounted_ColdOnly == IF key \in Cached(cache) THEN stats ELSE [stats EXCEPT !.misses = @ + 1]
MissCounted == [stats EXCEPT !.misses = IF builder = Profile THEN @ + 1 ELSE @]

\* An entry that does not revalidate: the tracked builders mark it stale, the
\* profile builder only asks again.
RejectHit ==
  /\ pc = "lookup"
  /\ Live(cache, key)
  /\ ~Revalidates(cache.entry[key].plan)
  /\ cache' = LET got == Got(cache, key)
              IN  IF builder = Profile THEN got ELSE MarkedStale(got, key)
  /\ lastUse' = Used
  /\ stats' = MissCounted
  /\ pc' = "ask"
  /\ UNCHANGED <<setting, request, found, attempt, answer, arrivals>>

Miss ==
  /\ pc = "lookup"
  /\ ~Live(cache, key)
  /\ stats' = MissCounted
  /\ pc' = "ask"
  /\ UNCHANGED <<setting, cache, request, found, attempt, answer, history>>

\* What the tracker makes of an arrival the model was asked about.
Tracked(outcome) ==
  IF builder = Profile THEN stats
  ELSE [stats EXCEPT ![outcome] = @ + 1, !.calls = @ + 1]

Refuse ==
  /\ answer' = Refusal
  /\ stats' = Tracked("fallbacks")
  /\ pc' = "idle"

\* The pinned schema cannot be built: a refusal without a call.
Unplaceable ==
  /\ pc = "ask"
  /\ builder = Profile
  /\ MayAnswer = {}
  /\ Refuse
  /\ UNCHANGED <<setting, cache, request, found, attempt, history>>

MayAsk == pc = "ask" /\ (builder = Profile => MayAnswer # {})

Attempts == IF builder = Constrained THEN 1 ELSE 1 + MaxRetries

\* A completion was cut off, could not be parsed, or failed the check.
\* Mutant: a truncated completion does not count as an attempt.
FailedAttempt_Uncounted == MayAsk /\ UNCHANGED vars
FailedAttempt ==
  /\ MayAsk
  /\ attempt' = attempt + 1
  /\ IF attempt' < Attempts THEN UNCHANGED <<answer, stats, pc>> ELSE Refuse
  /\ UNCHANGED <<setting, cache, request, found, arrivals, lastUse>>

\* The backend raises.  The tracked builders refuse the arrival; the profile
\* builder lets the exception end the run.
CallRaises ==
  /\ MayAsk
  /\ builder = Signature
  /\ Refuse
  /\ UNCHANGED <<setting, cache, request, found, attempt, history>>

Stored(plan) ==
  IF builder = Profile /\ key \in Cached(cache) THEN Refreshed(cache, key, plan)
  ELSE Put(cache, key, plan)

Accept(plan) ==
  /\ attempt' = attempt + 1
  /\ cache' = Stored(plan)
  /\ lastUse' = Used
  /\ answer' = [from |-> "model", plan |-> plan]
  /\ stats' = Tracked("plans")
  /\ pc' = "idle"
  /\ UNCHANGED <<setting, request, found, arrivals>>

AcceptPinned(p) ==
  /\ MayAsk
  /\ builder = Profile
  /\ CheckPlan(found, request, p, Echoed)
  /\ Accept(PinnedPlan(request, p))

AcceptChecked(said) ==
  /\ MayAsk
  /\ builder = Signature
  /\ CheckPlan(found, request, SaidDomains(said), Echoed)
  /\ Accept(RederivedPlan(request, said))

AcceptStated(said) ==
  /\ MayAsk
  /\ builder = Constrained
  /\ Accept(StatedPlan(said))

Answer ==
  \/ ServeHit
  \/ RejectHit
  \/ Miss
  \/ Unplaceable
  \/ FailedAttempt
  \/ CallRaises
  \/ builder = Profile /\ \E p \in MayAnswer : AcceptPinned(p)
  \/ \E said \in Said(request) : AcceptChecked(said) \/ AcceptStated(said)

Next == Answer \/ (\E s \in Requests, r \in Residuals : Arrive(s, r))

Spec == Init /\ [][Next]_vars
FairSpec == Spec /\ WF_vars(Answer)

(***************************************************************************)
(* Properties.                                                             *)
(***************************************************************************)
Hosts(s, plan) ==
  \A k \in DOMAIN s.vnfs : s.vnfs[k].permitted \cap NodesIn(plan.domains[k]) # {}

\* A plan authored for one request is served to every later one with its key,
\* and the key does not hold the permitted nodes.  Still, whatever the cache
\* holds or the coordinator is given puts each VNF in a domain that has a node
\* permitted to it (plan_cache.py, check_plan's C8, tier_feasible_domains).
PlansHostable ==
  builder # Constrained =>
    /\ \A s \in Requests, r \in Residuals :
         Key(s, r) \in Cached(cache) => Hosts(s, cache.entry[Key(s, r)].plan)
    /\ answer # Refusal => Hosts(request, answer.plan)

\* The cache stays within its capacity; a key leaves it only when there is no
\* room, and then it is the one unread and unwritten for longest (PlanCache's
\* "bounded LRU").  With the constrained builder a plan stored over a stale one
\* keeps the old place.
EvictsLeastRecent ==
  [][/\ Cardinality(Cached(cache')) <= CacheCapacity
     /\ \A k \in Cached(cache) \ Cached(cache') :
          builder # Constrained =>
            /\ Cardinality(Cached(cache)) = CacheCapacity
            /\ \A other \in Cached(cache) : lastUse[k] <= lastUse[other]]_vars

\* The reported rates rest on these: between arrivals every lookup is a hit or
\* a miss; every arrival the tracker saw is a plan or a fallback, and all but
\* the hits are calls (wp7_runner.py _cached_plan_builder, PlanQualityTracker).
CallsAccounted ==
  pc = "idle" =>
    /\ builder = Profile => arrivals = stats.hits + stats.misses
    /\ builder # Profile =>
         /\ arrivals = stats.plans + stats.fallbacks
         /\ stats.calls = arrivals - stats.hits

\* Every arrival is given a plan or refused, whatever the model does: the retry
\* loop ends (generate_and_check).
ArrivalAnswered == pc # "idle" ~> pc = "idle"
=============================================================================
