------------------------------ MODULE MCPlanner ------------------------------
(***************************************************************************)
(* Planner on a substrate of three domains in a row: one with an edge and a *)
(* central node, one of edge nodes, one of a central node alone.  The last  *)
(* is where a Firewall, permitted anywhere and most often at the edge, may  *)
(* be put although its required tier is not there.  No node is regional, so *)
(* a chain that needs one cannot be placed.                                 *)
(***************************************************************************)
EXTENDS Planner

CONSTANTS a1, a2, b1, b2, c1

MCNodes == {a1, a2, b1, b2, c1}
MCLinks == {<<a1, b1>>, <<b1, a1>>, <<b1, c1>>, <<c1, b1>>}
MCDomains == {0, 1, 2}
MCDomainOf == [n \in MCNodes |-> IF n \in {a1, a2} THEN 0 ELSE IF n = c1 THEN 2 ELSE 1]
MCTierOf == [n \in MCNodes |-> IF n \in {a2, c1} THEN 2 ELSE 0]
MCCapacity == [c \in Cells |-> IF c = <<a2, "cpu">> THEN 3 ELSE 4]
MCProcDelay == [n \in MCNodes |-> 1]
MCPropDelay == [l \in MCLinks |-> 1]
MCPathDelay == [p \in AllPaths |-> Len(p) - 1]

At(tiers) == {n \in MCNodes : MCTierOf[n] \in tiers}
VnfOf(type, cpu, ram, tiers) ==
  [type |-> type, cpu |-> cpu, ram |-> ram, permitted |-> At(tiers)]

Embb(cpu, rate) ==
  [kind |-> "eMBB",
   vnfs |-> <<VnfOf("Firewall", cpu, 1, {0, 1, 2}), VnfOf("CDN", 1, cpu, {0, 1}),
              VnfOf("vEPC", 1, 1, {2})>>,
   bw |-> <<rate \div 25, 1>>, maxDelay |-> 30, rate |-> rate]
Urllc ==
  [kind |-> "URLLC", vnfs |-> <<VnfOf("Firewall", 1, 1, {0}), VnfOf("vUPF", 1, 1, {0})>>,
   bw |-> <<1>>, maxDelay |-> 5, rate |-> 20]
V2x ==
  [kind |-> "V2X", vnfs |-> <<VnfOf("Firewall", 1, 1, {0}), VnfOf("vEPC", 1, 1, {1})>>,
   bw |-> <<1>>, maxDelay |-> 10, rate |-> 20]

\* Two of the requests share their key and differ in what they demand.
MCRequests == {Embb(1, 50), Embb(2, 75), Urllc, V2x}

\* The empty network, and one so full that no plan for the second request
\* passes the check.
MCResiduals ==
  {Capacity,
   [Capacity EXCEPT ![<<a1, "cpu">>] = 1, ![<<a2, "cpu">>] = 0, ![<<b1, "cpu">>] = 1,
                    ![<<b2, "cpu">>] = 0, ![<<c1, "cpu">>] = 2, ![<<c1, b1>>] = 2]}

MCBuilders == {Profile, Signature, Constrained}

\* No node of domain 2 is of tier 0: a plan that says so is never revalidated.
MCStatements == {<<0, 0>>, <<2, 0>>}
=============================================================================
