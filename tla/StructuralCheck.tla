--------------------------- MODULE StructuralCheck ---------------------------
(***************************************************************************)
(* What Agent B is told of the substrate (llm/abstract_topology.py) and     *)
(* what its plan is held to before it is used (llm/structural_checker.py,   *)
(* with the derived fields of llm/agent_b.py).                              *)
(*                                                                         *)
(* A plan is a sequence of domains as long as the chain; a domain the       *)
(* topology does not have, or a VNF left out, is a value outside Domains.   *)
(***************************************************************************)
EXTENDS Summaries

CONSTANT HostSlackBand   \* ORION_HOST_SLACK_BAND, in percent; 0 keeps every host

ASSUME BandAssumption == HostSlackBand \in Nat

\* permitted_tiers of a VNF, and those of them a domain has (dominant_tiers).
PermittedTiers(vnf) == TiersOf(vnf.permitted)
SharedTiers(vnf, d) == PermittedTiers(vnf) \cap TiersIn(d)

FeasibleDomains(vnf) == {d \in Summarised : SharedTiers(vnf, d) # {}}

\* recompute_required_tiers: the first in alphabetical order (central_cloud,
\* edge, regional_cloud) of those they share, or what the model stated.
Alphabetical(t) == (t + 1) % 3
RequiredTier(vnf, d, stated) ==
  LET shared == SharedTiers(vnf, d)
  IN  IF shared = {} THEN stated
      ELSE CHOOSE t \in shared : \A u \in shared : Alphabetical(t) <= Alphabetical(u)

(***************************************************************************)
(* whole_chain_hosts: the domains that can take a chain alone.              *)
(***************************************************************************)
\* expand_host_domain.
Expanded(slice, host) == [k \in DOMAIN slice.vnfs |-> host]

\* On the node reported for some tier it may use there.
Seats(residual, vnf, d) ==
  \E t \in SharedTiers(vnf, d) :
    \A q \in Kinds : vnf[q] <= residual[<<Reported(residual, d, t), q>>]

\* Together they leave some of either: a slack of zero does not do.
TakesChain(residual, slice, d) ==
  /\ \A k \in DOMAIN slice.vnfs : Seats(residual, slice.vnfs[k], d)
  /\ \A q \in Kinds :
       LET needed == Demand(slice.vnfs, Expanded(slice, d), d, q)
       IN  needed <= Aggregate(residual)[<<d, q>>] /\ needed # Aggregate(residual)[<<d, q>>]

Slack(residual, slice, d) ==
  Min({Aggregate(residual)[<<d, q>>] - Demand(slice.vnfs, Expanded(slice, d), d, q) : q \in Kinds})

\* Those whose slack is within the band of the largest.
WholeChainHosts(residual, slice) ==
  LET able == {d \in Summarised : slice.vnfs # <<>> /\ TakesChain(residual, slice, d)}
  IN  {d \in able : \A e \in able :
         HostSlackBand * Slack(residual, slice, e) <= 100 * Slack(residual, slice, d)}

(***************************************************************************)
(* Inter-domain links, summed per ordered pair of domains.                  *)
(***************************************************************************)
LinksFrom(d, e) == {l \in Links : DomainOf[l[1]] = d /\ DomainOf[l[2]] = e}
PairRoom(residual, d, e) == MapThenSumSet(LAMBDA l : residual[l], LinksFrom(d, e))

Adjacent(d, e) == LinksFrom(d, e) # {} \/ LinksFrom(e, d) # {}

\* Some path of links joins them, in either direction: e is in every set of
\* domains that holds d and the neighbours of its members.
Reachable[d \in Summarised, e \in Summarised] ==
  \A S \in SUBSET Summarised :
    d \in S /\ (\A x \in S, y \in Summarised : Adjacent(x, y) => y \in S) => e \in S

PairDemand(slice, p, d, e) ==
  MapThenSumSet(LAMBDA k : slice.bw[k],
                {k \in DOMAIN slice.bw : p[k] = d /\ p[k + 1] = e})

(***************************************************************************)
(* check_plan.                                                              *)
(***************************************************************************)
TiersSupported(slice, p) == \A k \in DOMAIN p : SharedTiers(slice.vnfs[k], p[k]) # {}

ResourcesSuffice(residual, slice, p) ==
  \A d \in Range(p), q \in Kinds :
    Demand(slice.vnfs, p, d, q) <= Aggregate(residual)[<<d, q>>]

\* Bandwidth is compared only where the two domains are linked directly.
FlowsConnect(residual, slice, p) ==
  \A k \in DOMAIN slice.bw :
    LET d == p[k]
        e == p[k + 1]
    IN  d # e =>
          /\ Reachable[d, e]
          /\ LinksFrom(d, e) # {} => PairDemand(slice, p, d, e) <= PairRoom(residual, d, e)

\* The numbers are those of the plan.  Unless the schema keeps the model from
\* stating them (`echoed`), they are its own and may pass whatever is true.
\* Mutant: C8 is left to the coordinator.
CheckPlan_NoTiers(residual, slice, p, echoed) ==
  echoed => ResourcesSuffice(residual, slice, p) /\ FlowsConnect(residual, slice, p)
CheckPlan(residual, slice, p, echoed) ==
  /\ TiersSupported(slice, p)
  /\ echoed => ResourcesSuffice(residual, slice, p) /\ FlowsConnect(residual, slice, p)
=============================================================================
