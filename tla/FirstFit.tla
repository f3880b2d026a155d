------------------------------ MODULE FirstFit ------------------------------
(***************************************************************************)
(* The static plan builders of src/src/orion/baselines: first-fit           *)
(* decreasing over the whole graph (greedy_ffd.py) and the builders that    *)
(* try one domain first (colocation_ffd.py).  They work on a copy of the    *)
(* residuals that every VNF and every flow placed so far has been taken     *)
(* from, and answer with a plan or with none; the substrate is the          *)
(* caller's.                                                                *)
(*                                                                         *)
(* Each choice is the least of the candidates under a tuple of numbers, as  *)
(* in the code, with node and domain ids as numbers.  Between paths of the  *)
(* same delay the choice is fixed but unspecified.                          *)
(***************************************************************************)
EXTENDS Substrate

CONSTANT IdOf   \* IdOf[x]: node_id of a node, domain_id of a domain

ASSUME IdsAssumption ==
  /\ IdOf \in [Nodes \cup Domains -> Nat]
  /\ \A S \in {Nodes, Domains} : \A x, y \in S : IdOf[x] = IdOf[y] => x = y

NoNode == "no node"

Precedes(a, b) == \E i \in DOMAIN a : a[i] < b[i] /\ \A j \in 1 .. i - 1 : a[j] = b[j]

\* Of the candidates, each with its key, the one with the least: ids differ, so
\* no two keys are the same.
FirstBy(key) ==
  IF DOMAIN key = {} THEN NoNode
  ELSE CHOOSE n \in DOMAIN key : \A m \in DOMAIN key : ~Precedes(key[m], key[n])

\* The largest VNF is placed first: of some, the one that is placed last.
LastPlaced(vnfs, S) == FirstBy([k \in S |-> <<vnfs[k].cpu, vnfs[k].ram, -k>>])

\* No permitted nodes means any node, here.
Permitted(vnf) == IF vnf.permitted = {} THEN Nodes ELSE vnf.permitted
TierMatch(vnf, n) ==
  IF vnf.permitted # {} /\ TiersOf(vnf.permitted) = {TierOf[n]} THEN 1 ELSE 0
TierRequired(vnf) == vnf.permitted # {} /\ Cardinality(TiersOf(vnf.permitted)) = 1

Hosts(residual, vnf, nodes) ==
  {n \in nodes \cap Permitted(vnf) :
     residual[<<n, "cpu">>] >= vnf.cpu /\ residual[<<n, "ram">>] >= vnf.ram}

(***************************************************************************)
(* A run: what is left, where the VNFs are and which links the flows take.  *)
(***************************************************************************)
Start(residual) == [ok |-> TRUE, residual |-> residual, at |-> <<>>, route |-> <<>>]
NoPlan == [ok |-> FALSE, at |-> <<>>, route |-> <<>>]
Failed(run) == [run EXCEPT !.ok = FALSE]

With(f, x, y) == [z \in DOMAIN f \cup {x} |-> IF z = x THEN y ELSE f[z]]

\* Mutant: the running deltas are not kept.
Hosted_NoDelta(run, k, vnf, n) ==
  IF n = NoNode THEN Failed(run) ELSE [run EXCEPT !.at = With(@, k, n)]
Hosted(run, k, vnf, n) ==
  IF n = NoNode THEN Failed(run)
  ELSE [ok |-> TRUE, residual |-> Debited(run.residual, NodeUse(n, vnf)),
        at |-> With(run.at, k, n), route |-> run.route]

\* Where the next VNF goes.  _select_node: the emptiest node of the whole graph.
Spread(run, vnf) ==
  FirstBy([n \in Hosts(run.residual, vnf, Nodes) |->
             <<-TierMatch(vnf, n), -run.residual[<<n, "cpu">>], IdOf[DomainOf[n]], IdOf[n]>>])

\* _select_node_in_domain: best fit in one domain.
Packed(run, vnf, d) ==
  FirstBy([n \in Hosts(run.residual, vnf, NodesIn(d)) |->
             <<-TierMatch(vnf, n), run.residual[<<n, "cpu">>] - vnf.cpu, IdOf[n]>>])

\* Bandwidth between the domains in use and another, in both directions.
BwBetween(residual, used, d) ==
  SumFunctionOnSet(residual,
                   {l \in Links : \/ DomainOf[l[1]] = d /\ DomainOf[l[2]] \in used \ {d}
                                  \/ DomainOf[l[2]] = d /\ DomainOf[l[1]] \in used \ {d}})

\* _select_node_bw_aware: best fit in a domain already used, else towards the
\* domain with most bandwidth to those, as it was when the call began.
Near(run, vnf, start) ==
  LET used == {DomainOf[run.at[k]] : k \in DOMAIN run.at}
      hosts == {n \in Hosts(run.residual, vnf, Nodes) :
                  TierRequired(vnf) => TierMatch(vnf, n) = 1}
      spare(n) == run.residual[<<n, "cpu">>] - vnf.cpu
  IN  FirstBy([n \in hosts |->
                 IF DomainOf[n] \in used THEN <<-1, 0, spare(n), IdOf[n]>>
                 ELSE <<0, -BwBetween(start, used, DomainOf[n]), spare(n), IdOf[n]>>])

Choice(rule, run, vnf) ==
  CASE rule.by = "spread" -> Spread(run, vnf)
    [] rule.by = "packed" -> Packed(run, vnf, rule.domain)
    [] rule.by = "near" -> Near(run, vnf, rule.start)

\* A VNF after those before it, unless one of them found no node.
PlacedNext(vnfs, rule, k, run) ==
  IF run.ok THEN Hosted(run, k, vnfs[k], Choice(rule, run, vnfs[k])) ELSE run

Placed(residual, vnfs, rule) ==
  MapThenFoldSet(LAMBDA k, run : PlacedNext(vnfs, rule, k, run), Start(residual),
                 LAMBDA k : k, LAMBDA S : LastPlaced(vnfs, S), DOMAIN vnfs)

\* networkx.shortest_path over the links with enough left.
ShortestUsable(residual, u, v, rate) ==
  LET usable == {p \in Paths(Nodes, u, v) : \A l \in LinksOf(p) : residual[l] >= rate}
  IN  IF usable = {} THEN <<>>
      ELSE CHOOSE p \in usable : \A q \in usable : PathDelay[p] <= PathDelay[q]

\* route_cross_domain_flow: one of the k shortest that has enough left.
CrossDomain(residual, u, v, rate) ==
  LET tried == CHOOSE C \in KShortest(Nodes, u, v) : TRUE
      usable == {p \in Paths(Nodes, u, v) : p \in tried /\ \A l \in LinksOf(p) : residual[l] >= rate}
  IN  IF usable = {} THEN <<>> ELSE CHOOSE p \in usable : TRUE

\* What the route of one flow does to a run.
Taken(run, k, rate, path) ==
  IF run.at[k] = run.at[k + 1] THEN [run EXCEPT !.route = With(@, k, {})]
  ELSE IF path = <<>> THEN Failed(run)
  ELSE [ok |-> TRUE, residual |-> Debited(run.residual, RouteUse(LinksOf(path), rate)),
        at |-> run.at, route |-> With(run.route, k, LinksOf(path))]

PathFor(wide, residual, u, v, rate) ==
  IF wide THEN CrossDomain(residual, u, v, rate) ELSE ShortestUsable(residual, u, v, rate)

RoutedNext(bw, wide, k, run) ==
  IF run.ok
  THEN Taken(run, k, bw[k], PathFor(wide, run.residual, run.at[k], run.at[k + 1], bw[k]))
  ELSE run

\* Flow after flow, until one has no path; wide: those between domains.
Routed(start, chain, flows, wide) ==
  MapThenFoldSet(LAMBDA k, run : RoutedNext(chain.bw, wide, k, run), start,
                 LAMBDA k : k, Max, flows)

PlanOf(run) == IF run.ok THEN [ok |-> TRUE, at |-> run.at, route |-> run.route] ELSE NoPlan

\* What allocate takes for a plan.
HostUse(vnfs, at, c) == [k \in DOMAIN at |-> NodeUse(at[k], vnfs[k])[c]]
FlowUse(bw, route, c) == [k \in DOMAIN route |-> RouteUse(route[k], bw[k])[c]]
Use(chain, plan) ==
  [c \in Cells |-> SumFunctionOnSet(HostUse(chain.vnfs, plan.at, c), DOMAIN plan.at)
                   + SumFunctionOnSet(FlowUse(chain.bw, plan.route, c), DOMAIN plan.route)]

(***************************************************************************)
(* The builders.                                                           *)
(***************************************************************************)
Completed(run, chain) ==
  IF run.ok THEN PlanOf(Routed(run, chain, DOMAIN chain.bw, FALSE)) ELSE NoPlan

FirstOk(plan, otherwise) == IF plan.ok THEN plan ELSE otherwise

FFD(residual, chain) == Completed(Placed(residual, chain.vnfs, [by |-> "spread"]), chain)

\* Every VNF in one domain, best fit; the routes may leave it.
SingleDomain(residual, chain, d) ==
  Completed(Placed(residual, chain.vnfs, [by |-> "packed", domain |-> d]), chain)

\* Of some domains, the one with the most cpu left.
Richest(residual, domains) ==
  FirstBy([d \in domains |-> <<-Aggregate(residual)[<<d, "cpu">>], IdOf[d]>>])

\* The domains are tried one after the other, until one can take the chain.
PureColocation(residual, chain) ==
  LET feasible == {d \in Summarised : SingleDomain(residual, chain, d).ok}
  IN  IF feasible = {} THEN NoPlan
      ELSE SingleDomain(residual, chain, Richest(residual, feasible))

Colocation(residual, chain) ==
  FirstOk(PureColocation(residual, chain), FFD(residual, chain))

\* Flows within a domain are routed on the running deltas, those between domains
\* on the residuals the call began with.
Crossing(chain, run) == {k \in DOMAIN chain.bw : DomainOf[run.at[k]] # DomainOf[run.at[k + 1]]}
Joined(inner, outer, otherwise) ==
  IF ~inner.ok THEN NoPlan
  ELSE IF ~outer.ok THEN otherwise
  ELSE [ok |-> TRUE, at |-> inner.at,
        route |-> [k \in DOMAIN inner.route \cup DOMAIN outer.route |->
                     IF k \in DOMAIN outer.route THEN outer.route[k] ELSE inner.route[k]]]
ByRoutability(residual, chain, run) ==
  IF ~run.ok THEN NoPlan
  ELSE Joined(Routed(run, chain, DOMAIN chain.bw \ Crossing(chain, run), FALSE),
              Routed([run EXCEPT !.residual = residual], chain, Crossing(chain, run), TRUE),
              FFD(residual, chain))

RoutabilityAware(residual, chain) ==
  FirstOk(PureColocation(residual, chain),
          ByRoutability(residual, chain,
                        Placed(residual, chain.vnfs, [by |-> "near", start |-> residual])))
=============================================================================
