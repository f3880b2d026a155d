------------------------------ MODULE Substrate ------------------------------
(***************************************************************************)
(* The digital twin of src/src/orion/substrate/graph_model.py and the path  *)
(* search of src/src/orion/actors/routing.py: a directed graph of nodes in  *)
(* administrative domains, the capacities it starts with, and what a debit, *)
(* a credit, and a route do to its residuals.                               *)
(*                                                                         *)
(* Every residual is one CELL: <<n, "cpu">> and <<n, "ram">> are the        *)
(* cpu_residual and ram_residual of node n, and a link <<u, v>> is the      *)
(* bw_residual of the directed edge u -> v (link ids are per direction).    *)
(* A demand or a debit is a function on cells, so allocate, deallocate and  *)
(* every rollback are pointwise arithmetic on one function.                 *)
(* Quantities are naturals: the code's floats, in units of the instance.    *)
(***************************************************************************)
EXTENDS Integers, Sequences, FiniteSetsExt

CONSTANTS
  Nodes,        \* substrate nodes
  Links,        \* directed edges, pairs of nodes
  Domains,      \* administrative domains
  DomainOf,     \* DomainOf[n]: the node's domain_id
  TierOf,       \* TierOf[n]: position of the node's tier in TIER_ORDER (edge first)
  Capacity,     \* Capacity[c]: cpu_capacity, ram_capacity or bandwidth_capacity
  ProcDelay,    \* ProcDelay[n]: processing_delay
  PropDelay,    \* PropDelay[l]: propagation_delay of a link
  PathDelay,    \* PathDelay[p]: propagation delay summed along the path p
  KPaths        \* candidates route_flow examines (its argument k)

Kinds == {"cpu", "ram"}
NodeCells == Nodes \X Kinds
Cells == NodeCells \cup Links

ASSUME TopologyAssumption ==
  /\ Links \subseteq Nodes \X Nodes
  /\ Nodes \cap Kinds = {}
  /\ IsFiniteSet(Nodes)
  /\ DomainOf \in [Nodes -> Domains]
  /\ TierOf \in [Nodes -> Nat]
  /\ Capacity \in [Cells -> Nat]
  /\ ProcDelay \in [Nodes -> Nat]
  /\ PropDelay \in [Links -> Nat]
  /\ KPaths \in Nat \ {0}

(***************************************************************************)
(* Structure.                                                              *)
(***************************************************************************)
NodesIn(d) == {n \in Nodes : DomainOf[n] = d}

\* The domains that have nodes: the others get no summary.
Summarised == {d \in Domains : NodesIn(d) # {}}

InterDomain(l) == DomainOf[l[1]] # DomainOf[l[2]]

\* The cells an actor of domain d can read and write: its nodes' residuals,
\* and the links with both ends in it (the domain subgraph).
NodeCellsIn(d) == NodesIn(d) \X Kinds
LinksIn(d) == {l \in Links : DomainOf[l[1]] = d /\ DomainOf[l[2]] = d}
CellsIn(d) == NodeCellsIn(d) \cup LinksIn(d)

TiersOf(nodes) == {TierOf[n] : n \in nodes}
TiersIn(d) == TiersOf(NodesIn(d))

\* The tiers most of the nodes are of.  The code breaks ties by the order it
\* meets the nodes in; we take the most edge-ward.
ModalTier(nodes) ==
  LET votes(t) == Cardinality({n \in nodes : TierOf[n] = t})
  IN  Min({t \in TiersOf(nodes) : \A u \in TiersOf(nodes) : votes(u) <= votes(t)})

(***************************************************************************)
(* Residual arithmetic.                                                     *)
(***************************************************************************)
Nothing == [c \in Cells |-> 0]

Debited(residual, use) == [c \in Cells |-> residual[c] - use[c]]
Credited(residual, use) == [c \in Cells |-> residual[c] + use[c]]

\* C2, C3 and C5 of the verifier: a residual below zero is an over-allocation.
OverAllocated(residual, cells) == \E c \in cells : residual[c] < 0

\* What one VNF takes from the node it is placed on, and one flow from every
\* link of its route.
NodeUse(n, vnf) ==
  [c \in Cells |-> IF c = <<n, "cpu">> THEN vnf.cpu
                   ELSE IF c = <<n, "ram">> THEN vnf.ram
                   ELSE 0]
RouteUse(links, rate) == [c \in Cells |-> IF c \in links THEN rate ELSE 0]

\* What the summaries say a domain has left, and what the VNFs a partition p
\* puts in domain d demand together.
Aggregate(residual) ==
  [c \in Domains \X Kinds |->
     SumFunctionOnSet([n \in Nodes |-> residual[<<n, c[2]>>]], NodesIn(c[1]))]

Demand(chain, p, d, q) ==
  SumFunctionOnSet([k \in DOMAIN p |-> chain[k][q]], {k \in DOMAIN p : p[k] = d})

Plus(use1, use2) == [c \in Cells |-> use1[c] + use2[c]]

(***************************************************************************)
(* Paths.  A path is a sequence of distinct nodes joined by links.          *)
(***************************************************************************)
LinksOf(p) == {<<p[i], p[i + 1]>> : i \in 1 .. Len(p) - 1}

AllPaths ==
  {p \in UNION {[1 .. m -> Nodes] : m \in 2 .. Cardinality(Nodes)} :
     /\ IsInjective(p)
     /\ LinksOf(p) \subseteq Links}

ASSUME DelayAssumption == PathDelay \in [AllPaths -> Nat]

\* Mutant: the search ignores the domain and uses the whole graph.
Paths_WholeGraph(S, u, v) == {p \in AllPaths : p[1] = u /\ p[Len(p)] = v}
\* The simple paths from u to v that stay within the node set S.
Paths(S, u, v) ==
  {p \in AllPaths : p[1] = u /\ p[Len(p)] = v /\ Range(p) \subseteq S}

\* networkx.shortest_simple_paths cut after k: any k paths of which none is
\* longer than one left out; how it orders equal delays is not ours to say.
KShortest(S, u, v) ==
  {C \in SUBSET Paths(S, u, v) :
     /\ Cardinality(C) = Min({KPaths, Cardinality(Paths(S, u, v))})
     /\ \A p \in C, q \in Paths(S, u, v) \ C : PathDelay[p] <= PathDelay[q]}

\* The filters of route_flow on one candidate.  Which usable candidate wins is
\* the RoutingSelector's score, a mode of the run: any of them may.
\* Mutant: residual bandwidth is not looked at.
Usable_DelayOnly(residual, p, rate, budget) == PathDelay[p] <= budget
Usable(residual, p, rate, budget) ==
  /\ \A l \in LinksOf(p) : residual[l] >= rate
  /\ PathDelay[p] <= budget

InterHops(links) == Cardinality({l \in links : InterDomain(l)})

(***************************************************************************)
(* Load-dependent sojourn (src/src/orion/sim/delay_model.py): base plus     *)
(* 1 / headroom, in units of 1 / DelayUnit.  It is infinite without headroom; *)
(* whoever sums sojourns rules that case out first.                         *)
(***************************************************************************)
Sojourn(base, unit, headroom) ==
  base + (IF headroom > 0 THEN unit \div headroom ELSE 0)
=============================================================================
