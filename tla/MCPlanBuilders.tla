--------------------------- MODULE MCPlanBuilders ---------------------------
(***************************************************************************)
(* Instances of PlanBuilders for TLC: three domains, two of them with two   *)
(* nodes of one tier and different shapes, one with a node of each of two   *)
(* tiers; arrivals meet the substrate empty or after earlier slices have    *)
(* taken some nodes and the bandwidth between the domains.                  *)
(***************************************************************************)
EXTENDS PlanBuilders, TLC

CONSTANTS a1, a2, b1, b2, c1

MCNodes == {a1, a2, b1, b2, c1}
MCDomains == {0, 1, 2}
MCDomainOf == (a1 :> 0) @@ (a2 :> 0) @@ (b1 :> 1) @@ (b2 :> 1) @@ (c1 :> 2)
MCTierOf == (a1 :> 0) @@ (a2 :> 0) @@ (b1 :> 0) @@ (b2 :> 1) @@ (c1 :> 2)
MCLinks ==
  {<<a1, b1>>, <<a2, b2>>, <<b2, c1>>, <<a1, a2>>, <<b1, b2>>}

MCCpu == (a1 :> 4) @@ (a2 :> 3) @@ (b1 :> 3) @@ (b2 :> 4) @@ (c1 :> 5)
MCRam == (a1 :> 4) @@ (a2 :> 8) @@ (b1 :> 4) @@ (b2 :> 6) @@ (c1 :> 8)
MCCapacity ==
  [c \in (MCNodes \X {"cpu", "ram"}) \cup MCLinks |->
     IF c \in MCLinks THEN (IF c = <<a1, b1>> THEN 2 ELSE 4)
     ELSE IF c[2] = "cpu" THEN MCCpu[c[1]] ELSE MCRam[c[1]]]

MCProcDelay == (a1 :> 1) @@ (a2 :> 1) @@ (b1 :> 2) @@ (b2 :> 1) @@ (c1 :> 0)
MCPropDelay == [l \in MCLinks |-> IF l = <<b2, c1>> THEN 4 ELSE 1]
MCPathDelay == [p \in AllPaths |-> SumFunctionOnSet(MCPropDelay, LinksOf(p))]

\* Earlier slices have a VNF on each of these nodes, and flows between them.
Taken(nodes) ==
  [c \in DOMAIN MCCapacity |->
     MCCapacity[c] - (IF c \in MCLinks THEN (IF Cardinality(nodes) > 1 THEN 1 ELSE 0)
                      ELSE IF c[1] \notin nodes THEN 0
                      ELSE IF c[2] = "cpu" THEN 2 ELSE 3)]
MCResiduals == {Taken(nodes) : nodes \in SUBSET MCNodes}

V(cpu, ram, nodes) == [cpu |-> cpu, ram |-> ram, intensity |-> 1, permitted |-> nodes]

\* A chain that fits every domain in parts, one whose middle VNF must leave
\* the edge, and one with a VNF that only two domains may host.
FreeSlice ==
  [vnfs |-> <<V(1, 1, MCNodes), V(2, 2, {a1, b1, b2, c1}), V(2, 3, MCNodes)>>,
   bw |-> <<1, 1>>, maxDelay |-> 14]
LeavingSlice ==
  [vnfs |-> <<V(2, 1, {a1, b2, c1}), V(3, 2, {b1, b2, c1}), V(1, 4, {a1, a2, b2})>>,
   bw |-> <<2, 1>>, maxDelay |-> 12]
PairSlice ==
  [vnfs |-> <<V(3, 1, {a1, a2, b2}), V(1, 3, {a1, a2, b1})>>, bw |-> <<1>>, maxDelay |-> 9]
HomelessSlice ==
  [vnfs |-> <<V(1, 1, MCNodes), V(1, 1, {})>>, bw |-> <<1>>, maxDelay |-> 9]

\* All nine: four builders and five repairs.
MCPrograms ==
  {"partial", "greedy", "fullobs", "oracle"}
    \cup {"guard", "full", "colo", "postdecode", "exact"}

MCSlices == {FreeSlice, LeavingSlice, PairSlice, HomelessSlice}
=============================================================================
