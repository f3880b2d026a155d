------------------------------ MODULE Admission ------------------------------
(***************************************************************************)
(* One admission episode: EpisodeRunner drains the event stream, and every  *)
(* arrival goes through the plan builder, MDOCoordinator.resolve_arrival,   *)
(* the domain actors, SubstrateNetwork.allocate and the ground-truth        *)
(* verifier.  The program is one thread; a step of this module is a piece   *)
(* of it that reads or writes the residuals, and pc is the point reached.   *)
(*                                                                         *)
(*   idle -> plan -> dispatch <-> act -> cross -> decide -> allocate        *)
(*        -> verify -> idle                                                 *)
(*                                                                         *)
(* Provisional debits are what makes it delicate: actors and the            *)
(* coordinator take capacity from the live residuals while they search, and *)
(* five different pieces of code give it back (two actor rollbacks, the     *)
(* node snapshot, the intra-domain and the cross-domain bandwidth undo).    *)
(***************************************************************************)
EXTENDS Substrate, ChainOrder

CONSTANTS
  Requests,       \* the slice requests of the episode's event stream
  Slice,          \* Slice[r]: vnfs in chain order, bw of flow k -> k+1, maxDelay
  ActorDomains,   \* domains the coordinator holds an actor for
  ActorKind,      \* "greedy" (GreedyDomainActor) or "policy" (DomainActor)
  Planner,        \* "default" (_default_plan_builder) or "external" (Agent B)
  Mode,           \* "masked" (the policy samples) or "follow_prior"
  NodeBasedMask,  \* observation.USE_NODE_BASED_TIER_MASK
  HopLimit,       \* max_inter_domain_hops (C9)
  DelayUnit,      \* delays are in units of 1 / DelayUnit
  NoRequest, NoDomain   \* None

K(r) == Len(Slice[r].vnfs)
Chain(r) == 1 .. K(r)
Flows(r) == 1 .. K(r) - 1        \* flow f joins VNFs f and f + 1
Vnf(r, k) == Slice[r].vnfs[k]

VnfType ==
  [cpu: Nat, ram: Nat, intensity: Nat, permitted: SUBSET Nodes]

ASSUME RequestAssumption ==
  /\ Slice \in [Requests -> [vnfs: Seq(VnfType), bw: Seq(Nat), maxDelay: Nat]]
  /\ \A r \in Requests : K(r) > 0 /\ Len(Slice[r].bw) = K(r) - 1
  /\ NoRequest \notin Requests
  /\ NoDomain \notin Domains
  /\ HopLimit \in Nat
  /\ DelayUnit \in Nat
  /\ ActorKind \in {"greedy", "policy"}
  /\ Planner \in {"default", "external"}
  /\ Mode \in {"masked", "follow_prior"}
  /\ NodeBasedMask \in BOOLEAN

ASSUME PathDelayIsSum ==
  \A p \in AllPaths : PathDelay[p] = SumFunctionOnSet(PropDelay, LinksOf(p))

VARIABLES
  residual,      \* the substrate's residuals, by cell
  registry,      \* SubstrateNetwork._active_slices
  activePlans,   \* EpisodeRunner._active_plans (and _active_requests)
  stream,        \* how far each request's two events have been consumed
  stats,         \* EpisodeStats
  outcome,       \* acceptance._classify of each request's MDOResult
  pc, cur,       \* where the arrival in progress is, and its request
  partition,     \* domain of each VNF
  snapshot,      \* _snapshot_node_residuals, as a function on node cells
  todo,          \* fragments not yet dispatched
  refused,       \* domains whose response is infeasible
  crossTodo,     \* cross-domain flows not yet routed
  crossOk,       \* cross_feasible
  intraDelay, crossDelay, hops,  \* parts of the e2e estimate, inter-domain hops
  actor,         \* the domain whose actor is running
  toPlace, toRoute,   \* its VNFs and intra-domain flows still to do
  actSnap,       \* its node_snapshots
  actDelay,      \* its total_proc_delay + total_route_delay
  placed, route, \* placements and routes of all responses so far
  actorUse,      \* what the actors' placements and routes have debited
  crossUse,      \* what cross-domain routing has debited
  settled        \* history variable: the residuals without this arrival

arrivalVars == <<partition, snapshot, todo, refused, crossTodo, crossOk,
                 intraDelay, crossDelay, hops>>
actorVars == <<actor, toPlace, toRoute, actSnap, actDelay>>
planVars == <<placed, route, actorUse, crossUse>>
runnerVars == <<registry, activePlans, stream, stats, outcome>>
vars == <<residual, runnerVars, pc, cur, arrivalVars, actorVars, planVars, settled>>

-----------------------------------------------------------------------------
(***************************************************************************)
(* Events: each request has one arrival and, later, one departure; the      *)
(* exponential draws allow every interleaving of them.                      *)
(***************************************************************************)
\* The entry of a slice that is not on: no plan, nothing used.
NoPlan == [use |-> Nothing]

EpisodeStats ==
  [arrivals: Nat, admitted: Nat, byMdo: Nat, structural: Nat,
   departures: Nat, hardFires: Nat, buildFailures: Nat]

NoStats ==
  [arrivals |-> 0, admitted |-> 0, byMdo |-> 0, structural |-> 0,
   departures |-> 0, hardFires |-> 0, buildFailures |-> 0]

Init ==
  /\ residual = Capacity
  /\ settled = Capacity
  /\ registry = [r \in Requests |-> NoPlan]
  /\ activePlans = [r \in Requests |-> NoPlan]
  /\ stream = [r \in Requests |-> "future"]
  /\ stats = NoStats
  /\ outcome = [r \in Requests |-> "none"]
  /\ pc = "idle" /\ cur = NoRequest
  /\ partition = <<>> /\ snapshot = <<>>
  /\ todo = {} /\ refused = {} /\ crossTodo = {} /\ crossOk = TRUE
  /\ intraDelay = 0 /\ crossDelay = 0 /\ hops = 0
  /\ actor = NoDomain /\ toPlace = {} /\ toRoute = {} /\ actSnap = <<>>
  /\ actDelay = 0
  /\ placed = <<>> /\ route = <<>> /\ actorUse = Nothing /\ crossUse = Nothing

\* _update_stats, on the outcome after verification.
UpdatedStats(s, admitted) ==
  IF admitted THEN [s EXCEPT !.admitted = @ + 1] ELSE [s EXCEPT !.byMdo = @ + 1]

\* The arrival's locals go out of scope when the handler returns.
ClearArrival ==
  /\ cur' = NoRequest
  /\ partition' = <<>> /\ snapshot' = <<>>
  /\ todo' = {} /\ refused' = {} /\ crossTodo' = {} /\ crossOk' = TRUE
  /\ intraDelay' = 0 /\ crossDelay' = 0 /\ hops' = 0
  /\ placed' = <<>> /\ route' = <<>>
  /\ actorUse' = Nothing /\ crossUse' = Nothing

Arrive(r) ==
  /\ pc = "idle"
  /\ stream[r] = "future"
  /\ stream' = [stream EXCEPT ![r] = "present"]
  /\ stats' = [stats EXCEPT !.arrivals = @ + 1]
  /\ pc' = "plan" /\ cur' = r
  /\ UNCHANGED <<residual, registry, activePlans, outcome, arrivalVars,
                 actorVars, planVars, settled>>

\* Mutant: the runner forgets the slice, the substrate keeps it registered.
DepartAdmitted_LeftRegistered(r) ==
  /\ pc = "idle" /\ stream[r] = "present" /\ activePlans[r] # NoPlan
  /\ stream' = [stream EXCEPT ![r] = "past"]
  /\ activePlans' = [activePlans EXCEPT ![r] = NoPlan]
  /\ residual' = Credited(residual, activePlans[r].use)
  /\ settled' = residual'
  /\ stats' = [stats EXCEPT !.departures = @ + 1]
  /\ UNCHANGED <<registry, outcome, pc, cur, arrivalVars, actorVars, planVars>>

\* _handle_departure: a slice that was never admitted departs as a no-op.
DepartAdmitted(r) ==
  /\ pc = "idle"
  /\ stream[r] = "present"
  /\ activePlans[r] # NoPlan
  /\ registry[r] # NoPlan
  /\ stream' = [stream EXCEPT ![r] = "past"]
  /\ activePlans' = [activePlans EXCEPT ![r] = NoPlan]
  /\ registry' = [registry EXCEPT ![r] = NoPlan]
  /\ residual' = Credited(residual, activePlans[r].use)
  /\ settled' = residual'
  /\ stats' = [stats EXCEPT !.departures = @ + 1]
  /\ UNCHANGED <<outcome, pc, cur, arrivalVars, actorVars, planVars>>

DepartRejected(r) ==
  /\ pc = "idle"
  /\ stream[r] = "present"
  /\ activePlans[r] = NoPlan
  /\ stream' = [stream EXCEPT ![r] = "past"]
  /\ UNCHANGED <<residual, registry, activePlans, stats, outcome, pc, cur,
                 arrivalVars, actorVars, planVars, settled>>

\* EpisodeRunner.reset, between two events (OrionEnv.reset may call it before
\* the stream is drained).
Reset ==
  /\ pc = "idle"
  /\ residual' = Capacity /\ settled' = Capacity
  /\ registry' = [r \in Requests |-> NoPlan]
  /\ activePlans' = [r \in Requests |-> NoPlan]
  /\ stream' = [r \in Requests |-> "future"]
  /\ stats' = NoStats
  /\ outcome' = [r \in Requests |-> "none"]
  /\ UNCHANGED <<pc, cur, arrivalVars, actorVars, planVars>>

-----------------------------------------------------------------------------
(***************************************************************************)
(* Planning: the plan builder, then MDOCoordinator up to dispatch.          *)
(***************************************************************************)
\* plan.required_tiers.  _infer_required_tier takes the most edge-ward tier of
\* the permitted nodes; the external builders take the tier most of them have
\* (among equals the first listed; here the most edge-ward).
RequiredTier(r, k) ==
  LET nodes == Vnf(r, k).permitted
  IN  IF Planner = "default" THEN Min(TiersOf(nodes)) ELSE ModalTier(nodes)

\* The plan builder must return None: some VNF is permitted nowhere.
Unplannable(r) == \E k \in Chain(r) : Vnf(r, k).permitted = {}

\* plan.suggested_domains.  The default builder takes the domain of a permitted
\* node of the required tier; Agent B may name any domain of the substrate.
Suggestion(r, p) ==
  Planner = "default" =>
    \A k \in Chain(r) :
      \E n \in NodesIn(p[k]) : n \in Vnf(r, k).permitted /\ TierOf[n] = RequiredTier(r, k)

\* build_tier_masks: where the policy may seat VNF k.
TierMask(r, k) ==
  IF NodeBasedMask
  THEN {d \in Domains : NodesIn(d) \cap Vnf(r, k).permitted # {}}
  ELSE {d \in Domains : RequiredTier(r, k) \in TiersIn(d)}

\* What the policy can decode.  The advisory bias, and joint_host_decode's
\* restriction to one domain for the whole chain, choose among these.
Masked(r, p) == \A k \in Chain(r) : p[k] \in TierMask(r, k)

\* _sample_partition.  The sampled, advised and argmax modes choose within the
\* mask; follow_prior copies the planner's suggestion unmasked.
MayPartition(r, p) == IF Mode = "masked" THEN Masked(r, p) ELSE Suggestion(r, p)

CrossFlows(r, p) == {f \in Flows(r) : p[f] # p[f + 1]}

\* Mutant: an edge whose target is placed before its source is skipped.
IntraFlows_ForwardOnly(r, p, d) ==
  {f \in Flows(r) : p[f] = d /\ p[f + 1] = d /\ Vnf(r, f).cpu >= Vnf(r, f + 1).cpu}
IntraFlows(r, p, d) == {f \in Flows(r) : p[f] = d /\ p[f + 1] = d}

\* plan_builder returned None.  An external builder may also come back without
\* a plan it can use, whatever the request.
RejectStructural ==
  /\ pc = "plan"
  /\ Unplannable(cur) \/ Planner = "external"
  /\ pc' = "idle"
  /\ stats' = [stats EXCEPT !.structural = @ + 1]
  /\ outcome' = [outcome EXCEPT ![cur] = "structural"]
  /\ ClearArrival
  /\ UNCHANGED <<residual, registry, activePlans, stream, actorVars, settled>>

\* One partition per arrival.  C10 is decided from it alone, and a scattered
\* partition is never dispatched; the snapshot is taken either way.
ChoosePartition(p) ==
  /\ pc = "plan"
  /\ ~Unplannable(cur)
  /\ MayPartition(cur, p)
  /\ partition' = p
  /\ snapshot' = [c \in UNION {NodeCellsIn(d) : d \in Range(p)} |-> residual[c]]
  /\ IF Contiguous(p)
     THEN /\ pc' = "dispatch"
          /\ todo' = Range(p)
          /\ crossTodo' = CrossFlows(cur, p)
     ELSE /\ pc' = "decide"
          /\ UNCHANGED <<todo, crossTodo>>
  /\ UNCHANGED <<residual, runnerVars, cur, refused, crossOk, intraDelay,
                 crossDelay, hops,
                 actorVars, planVars, settled>>

-----------------------------------------------------------------------------
(***************************************************************************)
(* Dispatch: one actor per fragment, in the order of a Python set.  An      *)
(* infeasible response does not stop the loop.                              *)
(***************************************************************************)
StartActor(d) ==
  /\ pc = "dispatch"
  /\ d \in todo
  /\ d \in ActorDomains
  /\ pc' = "act"
  /\ actor' = d
  /\ toPlace' = {k \in Chain(cur) : partition[k] = d}
  /\ toRoute' = IntraFlows(cur, partition, d)
  /\ actSnap' = <<>> /\ actDelay' = 0
  /\ UNCHANGED <<residual, runnerVars, cur, arrivalVars, planVars, settled>>

\* Mutant: the domain is asked again.
NoActor_Again(d) ==
  /\ pc = "dispatch"
  /\ d \in todo \ ActorDomains
  /\ refused' = refused \cup {d}
  /\ UNCHANGED <<residual, runnerVars, pc, cur, todo, partition, snapshot, crossTodo,
                 crossOk, intraDelay, crossDelay, hops, actorVars, planVars, settled>>
NoActor(d) ==
  /\ pc = "dispatch"
  /\ d \in todo \ ActorDomains
  /\ todo' = todo \ {d}
  /\ refused' = refused \cup {d}
  /\ UNCHANGED <<residual, runnerVars, pc, cur, partition, snapshot, crossTodo,
                 crossOk, intraDelay, crossDelay, hops, actorVars, planVars, settled>>

\* Cross-domain flows are routed only when every response is feasible.
FinishDispatch ==
  /\ pc = "dispatch"
  /\ todo = {}
  /\ pc' = IF refused = {} THEN "cross" ELSE "decide"
  /\ UNCHANGED <<residual, runnerVars, cur, arrivalVars, actorVars, planVars, settled>>

-----------------------------------------------------------------------------
(***************************************************************************)
(* The domain actors.  GreedyDomainActor places the whole fragment, biggest *)
(* VNF first, then routes; DomainActor places in chain order and routes     *)
(* each VNF's incoming flow before the next placement.                      *)
(***************************************************************************)
FlowsDue ==
  {f \in toRoute : /\ f \in DOMAIN placed /\ f + 1 \in DOMAIN placed
                   /\ ActorKind = "greedy" => toPlace = {}}

\* sorted by (-cpu_demand, -ram_demand, vnf_id)
Bigger(r, j, k) ==
  LET a == Vnf(r, j)  b == Vnf(r, k)
  IN  \/ a.cpu > b.cpu
      \/ a.cpu = b.cpu /\ a.ram > b.ram
      \/ a.cpu = b.cpu /\ a.ram = b.ram /\ j < k

NextVnf(k) ==
  /\ k \in toPlace
  /\ IF ActorKind = "greedy"
     THEN \A j \in toPlace \ {k} : Bigger(cur, k, j)
     ELSE \A j \in toPlace : k <= j

\* Mutants: any node of the domain will do; the RAM test is missing.
Fitting_AnyNode(k) ==
  {n \in NodesIn(actor) : /\ residual[<<n, "cpu">>] >= Vnf(cur, k).cpu
                          /\ residual[<<n, "ram">>] >= Vnf(cur, k).ram}

\* Nodes of the domain that are permitted and have room now.
Fitting(k) ==
  {n \in NodesIn(actor) \cap Vnf(cur, k).permitted :
     /\ residual[<<n, "cpu">>] >= Vnf(cur, k).cpu
     /\ residual[<<n, "ram">>] >= Vnf(cur, k).ram}

TierMatches(k, n) == TierOf[n] = RequiredTier(cur, k)

\* Greedy ranking: tier match first, then processing delay.  The node id breaks
\* ties, in an order the model leaves open.
RanksBefore(k, n, m) ==
  \/ TierMatches(k, n) /\ ~TierMatches(k, m)
  \/ /\ TierMatches(k, n) = TierMatches(k, m)
     /\ ProcDelay[n] * Vnf(cur, k).intensity < ProcDelay[m] * Vnf(cur, k).intensity

Selectable(k) ==
  IF ActorKind = "greedy"
  THEN {n \in Fitting(k) : \A m \in Fitting(k) : ~RanksBefore(k, m, n)}
  ELSE {n \in Fitting(k) : TierMatches(k, n)}   \* compute_action_mask

\* node_snapshots: the residuals before the first placement on the node.
Remember(n) ==
  [c \in DOMAIN actSnap \cup ({n} \X Kinds) |->
     IF c \in DOMAIN actSnap THEN actSnap[c] ELSE residual[c]]

PlaceVnf(k, n) ==
  /\ pc = "act"
  /\ FlowsDue = {}
  /\ NextVnf(k)
  /\ n \in Selectable(k)
  /\ toPlace' = toPlace \ {k}
  /\ placed' = [j \in DOMAIN placed \cup {k} |-> IF j = k THEN n ELSE placed[j]]
  /\ actSnap' = Remember(n)
  /\ residual' = Debited(residual, NodeUse(n, Vnf(cur, k)))
  /\ actorUse' = Plus(actorUse, NodeUse(n, Vnf(cur, k)))
  /\ actDelay' = actDelay + ProcDelay[n] * Vnf(cur, k).intensity
  /\ UNCHANGED <<runnerVars, pc, cur, arrivalVars, actor, toRoute, route,
                 crossUse, settled>>

\* _rollback: bandwidth route by route, nodes from node_snapshots.
ActorUnwound ==
  [c \in Cells |->
     IF c \in DOMAIN actSnap THEN actSnap[c]
     ELSE IF c \in LinksIn(actor) THEN residual[c] + actorUse[c]
     ELSE residual[c]]

\* The actor's placements and routes are dropped with its response.
ActorRollback ==
  /\ residual' = ActorUnwound
  /\ actorUse' = [c \in Cells |-> IF c \in CellsIn(actor) THEN 0 ELSE actorUse[c]]
  /\ placed' = [k \in {j \in DOMAIN placed : partition[j] # actor} |-> placed[k]]
  /\ route' = [f \in {g \in DOMAIN route : partition[g] # actor} |-> route[f]]
  /\ refused' = refused \cup {actor}
  /\ todo' = todo \ {actor}
  /\ pc' = "dispatch"
  /\ actor' = NoDomain /\ toPlace' = {} /\ toRoute' = {} /\ actSnap' = <<>>
  /\ actDelay' = 0
  /\ UNCHANGED <<runnerVars, cur, partition, snapshot, crossTodo, crossOk,
                 intraDelay, crossDelay, hops, crossUse, settled>>

\* No node can take the VNF; a DomainActor may also decline (NULL_ACTION).
RefuseVnf(k) ==
  /\ pc = "act"
  /\ FlowsDue = {}
  /\ NextVnf(k)
  /\ Selectable(k) = {} \/ ActorKind = "policy"
  /\ ActorRollback

\* What the actor may route flow f over: nothing, when both ends share a node.
IntraBudget == Slice[cur].maxDelay - actDelay

NextFlow(f) == f \in FlowsDue /\ \A g \in FlowsDue : f <= g

RouteOnNode(f) ==
  /\ pc = "act"
  /\ NextFlow(f)
  /\ placed[f] = placed[f + 1]
  /\ toRoute' = toRoute \ {f}
  /\ route' = [g \in DOMAIN route \cup {f} |-> IF g = f THEN {} ELSE route[g]]
  /\ UNCHANGED <<residual, runnerVars, pc, cur, arrivalVars, actor, toPlace,
                 actSnap, actDelay, placed, actorUse, crossUse, settled>>

RouteIntra(f, C, p) ==
  /\ pc = "act"
  /\ NextFlow(f)
  /\ placed[f] # placed[f + 1]
  /\ C \in KShortest(NodesIn(actor), placed[f], placed[f + 1])
  /\ p \in C
  /\ Usable(residual, p, Slice[cur].bw[f], IntraBudget)
  /\ toRoute' = toRoute \ {f}
  /\ route' = [g \in DOMAIN route \cup {f} |-> IF g = f THEN LinksOf(p) ELSE route[g]]
  /\ residual' = Debited(residual, RouteUse(LinksOf(p), Slice[cur].bw[f]))
  /\ actorUse' = Plus(actorUse, RouteUse(LinksOf(p), Slice[cur].bw[f]))
  /\ actDelay' = actDelay + PathDelay[p]
  /\ UNCHANGED <<runnerVars, pc, cur, arrivalVars, actor, toPlace, actSnap,
                 placed, crossUse, settled>>

RefuseFlow(f, C) ==
  /\ pc = "act"
  /\ NextFlow(f)
  /\ placed[f] # placed[f + 1]
  /\ C \in KShortest(NodesIn(actor), placed[f], placed[f + 1])
  /\ \A p \in C : ~Usable(residual, p, Slice[cur].bw[f], IntraBudget)
  /\ ActorRollback

ActorAnswers ==
  /\ pc = "act"
  /\ toPlace = {} /\ toRoute = {}
  /\ pc' = "dispatch"
  /\ todo' = todo \ {actor}
  /\ intraDelay' = intraDelay + actDelay
  /\ actor' = NoDomain /\ actSnap' = <<>> /\ actDelay' = 0
  /\ UNCHANGED <<residual, runnerVars, cur, partition, snapshot, refused,
                 crossTodo, crossOk, crossDelay, hops, toPlace, toRoute, planVars, settled>>

-----------------------------------------------------------------------------
(***************************************************************************)
(* Cross-domain routing on the whole graph, in chain order.                 *)
(***************************************************************************)
NextCross(f) == f \in crossTodo /\ \A g \in crossTodo : f <= g

CrossBudget == Slice[cur].maxDelay - intraDelay - crossDelay

\* Inter-domain hops are counted per link of the route, transit domains too.
HopsAfter(p) == hops + InterHops(LinksOf(p))

RouteCross(f, C, p) ==
  /\ pc = "cross"
  /\ NextCross(f)
  /\ C \in KShortest(Nodes, placed[f], placed[f + 1])
  /\ p \in C
  /\ Usable(residual, p, Slice[cur].bw[f], CrossBudget)
  /\ crossTodo' = crossTodo \ {f}
  /\ route' = [g \in DOMAIN route \cup {f} |-> IF g = f THEN LinksOf(p) ELSE route[g]]
  /\ residual' = Debited(residual, RouteUse(LinksOf(p), Slice[cur].bw[f]))
  /\ crossUse' = Plus(crossUse, RouteUse(LinksOf(p), Slice[cur].bw[f]))
  /\ crossDelay' = crossDelay + PathDelay[p]
  /\ hops' = HopsAfter(p)
  /\ UNCHANGED <<runnerVars, pc, cur, partition, snapshot, todo, refused,
                 crossOk, intraDelay, actorVars, placed, actorUse, settled>>

\* Failure undoes the cross-domain flows routed before and reports none.
CrossFails(f, C) ==
  /\ pc = "cross"
  /\ NextCross(f)
  /\ C \in KShortest(Nodes, placed[f], placed[f + 1])
  /\ \A p \in C : ~Usable(residual, p, Slice[cur].bw[f], CrossBudget)
  /\ residual' = Credited(residual, crossUse)
  /\ crossUse' = Nothing
  /\ route' = [g \in DOMAIN route \ CrossFlows(cur, partition) |-> route[g]]
  /\ crossOk' = FALSE
  /\ crossTodo' = {}
  /\ crossDelay' = 0 /\ hops' = 0
  /\ pc' = "decide"
  /\ UNCHANGED <<runnerVars, cur, partition, snapshot, todo, refused,
                 intraDelay, actorVars, placed, actorUse, settled>>

FinishCross ==
  /\ pc = "cross"
  /\ crossTodo = {}
  /\ pc' = "decide"
  /\ UNCHANGED <<residual, runnerVars, cur, arrivalVars, actorVars, planVars, settled>>

-----------------------------------------------------------------------------
(***************************************************************************)
(* Decision.  Both outcomes give every provisional debit back: node cells   *)
(* from the snapshot, then the bandwidth of each feasible response, then    *)
(* the bandwidth of the cross-domain routes.                                *)
(***************************************************************************)
\* ViolationInfo.has_violation; c5b_violated is never set.
Violations ==
  {v \in {"chain_order", "actor_infeasible", "cross_domain_infeasible",
          "c7_delay", "c9_hops"} :
     \/ v = "chain_order" /\ ~Contiguous(partition)
     \/ v = "actor_infeasible" /\ refused # {}
     \/ v = "cross_domain_infeasible" /\ ~crossOk
     \/ v = "c7_delay" /\ intraDelay + crossDelay > Slice[cur].maxDelay
     \/ v = "c9_hops" /\ hops > HopLimit}

\* _classify on the pre-commit record: the first that matches, in this order.
Bin ==
  IF "chain_order" \in Violations THEN "chain_order"
  ELSE IF "actor_infeasible" \in Violations THEN "actor_infeasible"
  ELSE IF "cross_domain_infeasible" \in Violations THEN "cross_domain_infeasible"
  ELSE IF "c7_delay" \in Violations THEN "c7_delay"
  ELSE "c9_hops"

Answered == Range(partition) \ refused

\* Mutants: the cross-domain bandwidth is kept; the intra-domain bandwidth is.
Unwound_KeepsCross ==
  [c \in Cells |->
     IF c \in DOMAIN snapshot THEN snapshot[c]
     ELSE IF \E d \in Answered : c \in LinksIn(d) THEN residual[c] + actorUse[c]
     ELSE residual[c]]
Unwound_KeepsIntra ==
  [c \in Cells |->
     IF c \in DOMAIN snapshot THEN snapshot[c] ELSE residual[c] + crossUse[c]]
Unwound ==
  [c \in Cells |->
     IF c \in DOMAIN snapshot THEN snapshot[c]
     ELSE IF c \in Links
     THEN residual[c] + crossUse[c]
            + (IF \E d \in Answered : c \in LinksIn(d) THEN actorUse[c] ELSE 0)
     ELSE residual[c]]

\* The asserts on the commit path: every VNF's domain must still be one the
\* mask in force would have allowed.
FrameOk == \A k \in Chain(cur) : partition[k] \in TierMask(cur, k)

Reject ==
  /\ pc = "decide"
  /\ Violations # {}
  /\ pc' = "idle"
  /\ residual' = Unwound
  /\ stats' = UpdatedStats(stats, FALSE)
  /\ outcome' = [outcome EXCEPT ![cur] = Bin]
  /\ ClearArrival
  /\ UNCHANGED <<registry, activePlans, stream, actorVars, settled>>

Commit ==
  /\ pc = "decide"
  /\ Violations = {}
  /\ FrameOk
  /\ pc' = "allocate"
  /\ residual' = Unwound
  /\ UNCHANGED <<runnerVars, cur, arrivalVars, actorVars, planVars, settled>>

-----------------------------------------------------------------------------
(***************************************************************************)
(* The runner: allocate, verify against the load with this slice on, and    *)
(* keep or revoke.                                                          *)
(***************************************************************************)
\* build_placement_plan; use is what the loops of allocate and deallocate add
\* up to over its allocations.
\* Mutant: the coordinator's routes are left out of the allocation.
Plan_ActorsOnly ==
  [partition |-> partition, place |-> placed, route |-> route, use |-> actorUse]
Plan ==
  [partition |-> partition, place |-> placed, route |-> route,
   use |-> Plus(actorUse, crossUse)]

PlanComplete == Chain(cur) \subseteq DOMAIN placed

Allocate ==
  /\ pc = "allocate"
  /\ IF PlanComplete
     THEN /\ registry[cur] = NoPlan        \* else ValueError
          /\ registry' = [registry EXCEPT ![cur] = Plan]
          /\ residual' = Debited(residual, Plan.use)
          /\ pc' = "verify"
          /\ UNCHANGED <<stats, outcome, cur, arrivalVars, planVars>>
     ELSE /\ stats' = UpdatedStats([stats EXCEPT !.buildFailures = @ + 1], FALSE)
          /\ outcome' = [outcome EXCEPT ![cur] = "post_commit_plan_build"]
          /\ pc' = "idle"
          /\ ClearArrival
          /\ UNCHANGED <<residual, registry>>
  /\ UNCHANGED <<activePlans, stream, actorVars, settled>>

\* _compute_ground_truth_e2e: M/M/1 sojourns at the load after allocation.
RouteOf(plan, f) == IF f \in DOMAIN plan.route THEN plan.route[f] ELSE {}
HostCell(plan, k) == <<plan.place[k], "cpu">>

\* Mutant: only a negative headroom counts as saturated.
Saturated_Strict(r, plan) ==
  \/ \E k \in Chain(r) : residual[HostCell(plan, k)] < 0
  \/ \E f \in Flows(r) : \E l \in RouteOf(plan, f) : residual[l] < 0
Saturated(r, plan) ==
  \/ \E k \in Chain(r) : residual[HostCell(plan, k)] <= 0
  \/ \E f \in Flows(r) : \E l \in RouteOf(plan, f) : residual[l] <= 0

HostDelay(r, plan, k) ==
  Sojourn(ProcDelay[plan.place[k]] * Vnf(r, k).intensity, DelayUnit,
          residual[HostCell(plan, k)])

RouteDelay(plan, f) ==
  MapThenSumSet(LAMBDA l : Sojourn(PropDelay[l], DelayUnit, residual[l]), RouteOf(plan, f))

GroundTruthDelay(r, plan) ==
  MapThenSumSet(LAMBDA k : HostDelay(r, plan, k), Chain(r))
    + MapThenSumSet(LAMBDA f : RouteDelay(plan, f), Flows(r))

\* GroundTruthVerdict.violated, the codes that fire the hard penalty.
Fired ==
  {v \in {"C2", "C3", "C7"} :
     \/ v = "C2" /\ OverAllocated(residual, Nodes \X {"cpu"})
     \/ v = "C3" /\ OverAllocated(residual, Nodes \X {"ram"})
     \/ v = "C7" /\ \/ Saturated(cur, registry[cur])
                    \/ GroundTruthDelay(cur, registry[cur]) > Slice[cur].maxDelay}

RevokedBin ==
  IF "C2" \in Fired THEN "post_commit_c2_cpu"
  ELSE IF "C3" \in Fired THEN "post_commit_c3_ram"
  ELSE "post_commit_c7_delay"

Revoke ==
  /\ pc = "verify"
  /\ Fired # {}
  /\ residual' = Credited(residual, registry[cur].use)
  /\ registry' = [registry EXCEPT ![cur] = NoPlan]
  /\ stats' = UpdatedStats([stats EXCEPT !.hardFires = @ + 1], FALSE)
  /\ outcome' = [outcome EXCEPT ![cur] = RevokedBin]
  /\ pc' = "idle"
  /\ ClearArrival
  /\ UNCHANGED <<activePlans, stream, actorVars, settled>>

Keep ==
  /\ pc = "verify"
  /\ Fired = {}
  /\ activePlans' = [activePlans EXCEPT ![cur] = registry[cur]]
  /\ settled' = residual
  /\ stats' = UpdatedStats(stats, TRUE)
  /\ outcome' = [outcome EXCEPT ![cur] = "admitted"]
  /\ pc' = "idle"
  /\ ClearArrival
  /\ UNCHANGED <<residual, registry, stream, actorVars>>

-----------------------------------------------------------------------------
Event == \E r \in Requests : Arrive(r) \/ DepartAdmitted(r) \/ DepartRejected(r)

Dispatch == (\E d \in todo : StartActor(d) \/ NoActor(d)) \/ FinishDispatch

Act ==
  \/ \E k \in toPlace : (\E n \in NodesIn(actor) : PlaceVnf(k, n)) \/ RefuseVnf(k)
  \/ \E f \in toRoute : RouteOnNode(f)
  \/ \E f \in FlowsDue :
       \E C \in KShortest(NodesIn(actor), placed[f], placed[f + 1]) :
         (\E p \in C : RouteIntra(f, C, p)) \/ RefuseFlow(f, C)
  \/ ActorAnswers

Cross ==
  \/ \E f \in {g \in crossTodo : pc = "cross"} :
       \E C \in KShortest(Nodes, placed[f], placed[f + 1]) :
         (\E p \in C : RouteCross(f, C, p)) \/ CrossFails(f, C)
  \/ FinishCross

Advance ==
  \/ Event
  \/ RejectStructural
  \/ pc = "plan" /\ \E p \in [Chain(cur) -> Domains] : ChoosePartition(p)
  \/ Dispatch \/ Act \/ Cross
  \/ Reject \/ Commit \/ Allocate \/ Revoke \/ Keep

Next == Advance \/ Reset

Spec == Init /\ [][Next]_vars

\* run_episode is a loop that runs until the stream is empty.
FairSpec == Spec /\ WF_vars(Advance)

-----------------------------------------------------------------------------
(***************************************************************************)
(* Properties.                                                             *)
(***************************************************************************)
PcValues ==
  {"idle", "plan", "dispatch", "act", "cross", "decide", "allocate", "verify"}

\* The types of all variables, as far as they do not depend on pc.
TypeOK ==
  /\ residual \in [Cells -> Int] /\ settled \in [Cells -> Int]
  /\ DOMAIN registry = Requests /\ DOMAIN activePlans = Requests
  /\ \A r \in Requests : {registry[r].use, activePlans[r].use} \subseteq [Cells -> Nat]
  /\ stream \in [Requests -> {"future", "present", "past"}]
  /\ stats \in EpisodeStats
  /\ DOMAIN outcome = Requests
  /\ pc \in PcValues
  /\ cur \in Requests \cup {NoRequest}
  /\ todo \subseteq Domains /\ refused \subseteq Domains
  /\ crossTodo \subseteq Nat /\ toPlace \subseteq Nat /\ toRoute \subseteq Nat
  /\ actor \in Domains \cup {NoDomain}
  /\ crossOk \in BOOLEAN
  /\ {intraDelay, crossDelay, hops, actDelay} \subseteq Nat
  /\ actorUse \in [Cells -> Nat] /\ crossUse \in [Cells -> Nat]

\* C2, C3 and C5 hold at every step, not only at commit: neither a search in
\* progress nor allocate, which checks nothing itself, takes a node or a link
\* below zero.
NoOverAllocation == ~OverAllocated(residual, Cells)

\* Before an arrival is planned, once it is refused or revoked, and between the
\* coordinator's COMMIT and allocate, the residuals are exactly those the
\* arrival found: the five undo paths cover every provisional debit once.
RefusalLeavesNoTrace == pc \in {"idle", "plan", "allocate"} => residual = settled

\* What allocate charges is what the placements and routes of the plan ask for:
\* no flow of the chain rides for free and none is paid twice.
PlanAccountsForUse ==
  \A r \in {q \in Requests : registry[q] # NoPlan} : \A c \in Cells :
    registry[r].use[c] =
      SumFunctionOnSet([k \in Chain(r) |-> NodeUse(registry[r].place[k], Vnf(r, k))[c]],
                       Chain(r))
        + SumFunctionOnSet([f \in Flows(r) |->
                              RouteUse(RouteOf(registry[r], f), Slice[r].bw[f])[c]],
                           Flows(r))

\* The runner and the substrate agree on which slices are on, so a departure
\* never raises KeyError nor leaks a slice the runner forgot, and a revoked or
\* rejected slice is on in neither.
RegistriesAgree ==
  pc = "idle" =>
    \A r \in Requests :
      /\ registry[r] = activePlans[r]
      /\ registry[r] # NoPlan <=> outcome[r] = "admitted" /\ stream[r] = "present"

ActivePlans == {r \in Requests : activePlans[r] # NoPlan}

\* C8 and C10 of every active slice: each VNF is on a node it is permitted on,
\* in the domain the partition names, and no domain is re-entered.
PlacementSound ==
  \A r \in ActivePlans :
    LET plan == activePlans[r] IN
    /\ DOMAIN plan.place = Chain(r)
    /\ \A k \in Chain(r) : /\ plan.place[k] \in Vnf(r, k).permitted
                           /\ DomainOf[plan.place[k]] = plan.partition[k]
    /\ Contiguous(plan.partition)

\* Every flow of an active slice has a route that joins its two hosts, and a
\* flow inside one domain never leaves it.  C9 does not slip through: over all
\* routes the slice crosses at most HopLimit domain borders, although the
\* verifier never fires on C9 and the coordinator counts only its own routes.
RoutesSound ==
  \A r \in ActivePlans :
    LET plan == activePlans[r] IN
    /\ DOMAIN plan.route = Flows(r)
    /\ \A f \in Flows(r) :
         /\ \/ plan.place[f] = plan.place[f + 1] /\ plan.route[f] = {}
            \/ \E p \in Paths(Nodes, plan.place[f], plan.place[f + 1]) :
                 plan.route[f] = LinksOf(p)
         /\ plan.partition[f] = plan.partition[f + 1] =>
              plan.route[f] \subseteq LinksIn(plan.partition[f])
    /\ SumFunctionOnSet([f \in Flows(r) |-> InterHops(plan.route[f])], Flows(r)) <= HopLimit

\* The verifier looks only at the arriving slice, yet between arrivals no node
\* or link that carries an active slice is ever saturated: whoever would
\* saturate it is revoked.
NoSaturatedElementInUse ==
  pc = "idle" =>
    \A r \in ActivePlans :
      /\ \A k \in Chain(r) : residual[<<activePlans[r].place[k], "cpu">>] > 0
      /\ \A f \in Flows(r) : \A l \in RouteOf(activePlans[r], f) : residual[l] > 0

\* An actor reads and writes its own domain only: its steps, its rollback
\* included, leave every residual outside it alone.
DomainIsolation ==
  [][pc = "act" => \A c \in Cells \ CellsIn(actor) : residual'[c] = residual[c]]_vars

\* The asserts on the commit path never raise.
FrameAssertHolds == pc = "decide" /\ Violations = {} => FrameOk

\* Every slice that is allocated is given back.
EverySliceReleased ==
  \A r \in Requests : registry[r] # NoPlan ~> registry[r] = NoPlan

\* Every arrival is decided: the handler always returns to the event loop.
EveryArrivalDecided == pc = "plan" ~> pc = "idle"

-----------------------------------------------------------------------------
(***************************************************************************)
(* What an episode promises: SliceLedger, with the settled residuals as its *)
(* free capacity and the runner's plans as its holdings.                    *)
(***************************************************************************)
Held == [r \in Requests |-> activePlans[r].use]
Phase ==
  [r \in Requests |->
     IF stream[r] = "future" \/ r = cur THEN "new"
     ELSE IF activePlans[r] # NoPlan THEN "on" ELSE "off"]

Ledger == INSTANCE SliceLedger WITH free <- settled, held <- Held, phase <- Phase

\* Seen between arrivals, an episode is a ledger that admits a slice whole,
\* within what is free, or turns it away untouched, and takes it back whole.
ImplementsLedger == Ledger!Spec
=============================================================================
