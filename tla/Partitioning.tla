---------------------------- MODULE Partitioning ----------------------------
(***************************************************************************)
(* How a chain is split over domains from the coordinator's summaries of    *)
(* the substrate: which VNF a domain is thought able to take (the h^m       *)
(* guard), which partitions are thought committable, and the three searches *)
(* that enumerate them: the full-observability builder, the partition       *)
(* oracle, and the exact repair of a planner's partition.                   *)
(*                                                                         *)
(* A chain is a sequence of VNFs as in Admission; a partition is a sequence *)
(* of domains as long as the chain.  Domains are numbered (domain_id).      *)
(***************************************************************************)
EXTENDS Summaries, ChainOrder

CONSTANTS
  DelayTop,         \* DELAY_SCORED_TOP: candidates fullobs_builder scores
  RepairBudget,     \* EXACT_REPAIR_BUDGET: partitions the exact repair enumerates
  DelayUnit,        \* delays are in units of 1 / DelayUnit
  NoDomain          \* None, or a domain_id no summary carries

ASSUME PartitioningAssumption ==
  /\ Domains \subseteq Nat
  /\ NoDomain \notin Domains
  /\ DelayTop \in Nat /\ RepairBudget \in Nat /\ DelayUnit \in Nat

-----------------------------------------------------------------------------
(***************************************************************************)
(* Domain summaries.                                                       *)
(***************************************************************************)
\* The canonical order of the summaries: by dominant tier, then domain_id.
Before(d, e) ==
  LET tier(x) == ModalTier(NodesIn(x))
  IN  tier(d) < tier(e) \/ (tier(d) = tier(e) /\ d < e)

-----------------------------------------------------------------------------
(***************************************************************************)
(* Admissibility of a VNF in a domain: build_tier_masks and the h^m guard.  *)
(***************************************************************************)
UsableTiers(vnf, d) == TiersOf(NodesIn(d) \cap vnf.permitted)

ConsultedTiers(guard, vnf, d) ==
  IF guard = "modal" THEN UsableTiers(vnf, d) \cap {ModalTier(vnf.permitted)}
                     ELSE UsableTiers(vnf, d)

MaxDemand(chain, q) == Max({chain[k][q] : k \in DOMAIN chain})
MaxCapacity(q) == Max({Aggregate(Capacity)[<<d, q>>] : d \in Summarised})

\* "obsenc" compares what the policy's observation holds, residual over the
\* largest domain and demand over the largest VNF of the chain.
Covers(guard, have, chain, k, q) ==
  IF guard = "obsenc"
  THEN have * MaxDemand(chain, q) >= chain[k][q] * MaxCapacity(q)
  ELSE have >= chain[k][q]

FitsANode(guard, residual, chain, k, d) ==
  \/ guard = "off"
  \/ \E t \in ConsultedTiers(guard, chain[k], d) :
       \A q \in Kinds :
         Covers(guard, residual[<<Reported(residual, d, t), q>>], chain, k, q)

Admits(guard, residual, chain, k, d) ==
  UsableTiers(chain[k], d) # {} /\ FitsANode(guard, residual, chain, k, d)

-----------------------------------------------------------------------------
(***************************************************************************)
(* Committable partitions: contiguous, admissible VNF by VNF, and within    *)
(* the aggregate residual of every domain.                                 *)
(***************************************************************************)
Committable(guard, residual, chain, p) ==
  /\ Contiguous(p)
  /\ \A k \in DOMAIN p : Admits(guard, residual, chain, k, p[k])
  /\ \A d \in Range(p), q \in Kinds :
       Demand(chain, p, d, q) <= Aggregate(residual)[<<d, q>>]

CommittableOnes(guard, residual, chain) ==
  {p \in [DOMAIN chain -> Summarised] : Committable(guard, residual, chain, p)}

Spread(p) == Cardinality(Range(p))

\* CPU left in the tightest domain.
Headroom(residual, chain, p) ==
  Min({Aggregate(residual)[<<d, "cpu">>] - Demand(chain, p, d, "cpu") : d \in Range(p)})

Earlier(p, q) ==
  \E k \in DOMAIN p : Before(p[k], q[k]) /\ \A j \in 1 .. k - 1 : p[j] = q[j]

\* The cheap key: fewest domains, then most headroom, then the order of the
\* domains along the chain.
Cheaper(residual, chain, p, q) ==
  LET h(x) == Headroom(residual, chain, x)
  IN  \/ Spread(p) < Spread(q)
      \/ Spread(p) = Spread(q) /\ h(p) > h(q)
      \/ Spread(p) = Spread(q) /\ h(p) = h(q) /\ Earlier(p, q)

Cheapest(residual, chain, S) ==
  CHOOSE p \in S : \A q \in S \ {p} : Cheaper(residual, chain, p, q)

-----------------------------------------------------------------------------
(***************************************************************************)
(* predicted_e2e: the delay of a partition, from node residuals and the     *)
(* best link between each pair of domains.                                 *)
(***************************************************************************)
\* The node VNF k is predicted to take: best fit, on the residuals the earlier
\* ones leave.  The prediction stops at the first VNF with no node.
Placed(residual, chain, p, before, k) ==
  LET left(n, q) == residual[<<n, q>>] - Demand(chain, before, n, q)
      slack(n) == Min({left(n, q) - chain[k][q] : q \in Kinds})
      fits == {n \in NodesIn(p[k]) \cap chain[k].permitted : slack(n) >= 0}
  IN  IF Len(before) < k - 1 \/ fits = {} THEN before
      ELSE Append(before, CHOOSE n \in fits : \A m \in fits : slack(n) <= slack(m))

Hosts(residual, chain, p) ==
  LET hosts[k \in 0 .. Len(chain)] ==
        IF k = 0 THEN <<>> ELSE Placed(residual, chain, p, hosts[k - 1], k)
  IN  hosts[Len(chain)]

Crossings(p) == {f \in 1 .. Len(p) - 1 : p[f] # p[f + 1]}

LinksBetween(d, e) ==
  {l \in Links : {DomainOf[l[1]], DomainOf[l[2]]} = {d, e} /\ d # e}
BestLink(residual, d, e) ==
  LET ls == LinksBetween(d, e)
  IN  CHOOSE l \in ls : \A m \in ls : residual[m] <= residual[l]

\* The load a VNF is predicted to meet on its node counts itself and the
\* slices already there, not the VNFs of its own chain.
NodeHeadroom(residual, chain, hosts, k) == residual[<<hosts[k], "cpu">>] - chain[k].cpu
LinkHeadroom(residual, slice, p, f) ==
  residual[BestLink(residual, p[f], p[f + 1])] - slice.bw[f]

\* A delay of infinity otherwise.
Servable(residual, slice, p) ==
  LET hosts == Hosts(residual, slice.vnfs, p)
  IN  /\ Len(hosts) = Len(slice.vnfs)
      /\ \A k \in DOMAIN hosts : NodeHeadroom(residual, slice.vnfs, hosts, k) > 0
      /\ \A f \in Crossings(p) :
           LinksBetween(p[f], p[f + 1]) # {} /\ LinkHeadroom(residual, slice, p, f) > 0

NodeDelay(residual, slice, hosts, k) ==
  Sojourn(ProcDelay[hosts[k]] * slice.vnfs[k].intensity, DelayUnit,
          NodeHeadroom(residual, slice.vnfs, hosts, k))

LinkDelay(residual, slice, p, f) ==
  Sojourn(PropDelay[BestLink(residual, p[f], p[f + 1])], DelayUnit,
          LinkHeadroom(residual, slice, p, f))

PredictedDelay(residual, slice, p) ==
  LET hosts == Hosts(residual, slice.vnfs, p)
      nodeDelays == [k \in DOMAIN hosts |-> NodeDelay(residual, slice, hosts, k)]
      linkDelays == [f \in Crossings(p) |-> LinkDelay(residual, slice, p, f)]
  IN  SumFunctionOnSet(nodeDelays, DOMAIN hosts) + SumFunctionOnSet(linkDelays, Crossings(p))

InBudget(residual, slice, p) ==
  Servable(residual, slice, p) /\ PredictedDelay(residual, slice, p) <= slice.maxDelay

-----------------------------------------------------------------------------
(***************************************************************************)
(* The enumerations.                                                       *)
(***************************************************************************)
\* fullobs_builder: the cheapest of the first DelayTop that is in budget.
FullObs(guard, residual, slice) ==
  LET F == CommittableOnes(guard, residual, slice.vnfs)
      cheapest(S) == Cheapest(residual, slice.vnfs, S)
      top == {p \in F :
                Cardinality({q \in F : Cheaper(residual, slice.vnfs, q, p)}) < DelayTop}
      good == {p \in top : InBudget(residual, slice, p)}
  IN  IF good # {} THEN cheapest(good) ELSE cheapest(F)

\* best_feasible_partition: of all in budget, fewest domains, then least delay.
\* Mutant: what is over budget is not left out.
Oracle_AnyDelay(guard, residual, slice) ==
  LET F == CommittableOnes(guard, residual, slice.vnfs)
  IN  Cheapest(residual, slice.vnfs, F)
Oracle(guard, residual, slice) ==
  LET F == CommittableOnes(guard, residual, slice.vnfs)
      delay(p) == PredictedDelay(residual, slice, p)
      good == {p \in F : InBudget(residual, slice, p)}
  IN  IF good = {} THEN Cheapest(residual, slice.vnfs, F)
      ELSE CHOOSE p \in good : \A q \in good \ {p} :
             \/ Spread(p) < Spread(q)
             \/ Spread(p) = Spread(q) /\ delay(p) < delay(q)
             \/ Spread(p) = Spread(q) /\ delay(p) = delay(q) /\ Earlier(p, q)

Edits(p, q) == Cardinality({k \in DOMAIN p : p[k] # q[k]})

\* Whether the exact repair enumerates; it leaves a partition alone otherwise.
Enumerable(chain) == Cardinality(Summarised) ^ Len(chain) <= RepairBudget

\* minimal_committable_partition: the committable partition that changes the
\* fewest of the authored domains.
\* Mutant: fewest domains first.
ExactRepair_FewestDomains(residual, chain, authored) ==
  LET F == CommittableOnes("full", residual, chain)
  IN  IF Committable("full", residual, chain, authored) \/ F = {} THEN authored
      ELSE CHOOSE p \in F : \A q \in F \ {p} :
             Spread(p) < Spread(q) \/ (Spread(p) = Spread(q) /\ Earlier(p, q))
ExactRepair(residual, chain, authored) ==
  LET F == CommittableOnes("full", residual, chain)
      edits(p) == Edits(p, authored)
  IN  IF \/ ~Enumerable(chain)
         \/ NoDomain \in Range(authored)
         \/ Committable("full", residual, chain, authored)
         \/ F = {}
      THEN authored
      ELSE CHOOSE p \in F : \A q \in F \ {p} :
             \/ edits(p) < edits(q)
             \/ edits(p) = edits(q) /\ Spread(p) < Spread(q)
             \/ edits(p) = edits(q) /\ Spread(p) = Spread(q) /\ Earlier(p, q)
=============================================================================
