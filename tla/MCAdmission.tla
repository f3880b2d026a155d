----------------------------- MODULE MCAdmission -----------------------------
(***************************************************************************)
(* Instances of Admission for TLC: three domains in a row, an edge domain   *)
(* with two nodes, a regional and a central one, and short chains that      *)
(* contend for the same nodes and links.                                    *)
(***************************************************************************)
EXTENDS Admission, TLC

CONSTANTS a1, a2, b1, c1, dA, dB, dC, r1, r2, r3, r4

MCNodes == {a1, a2, b1, c1}
MCDomains == {dA, dB, dC}
MCDomainOf == (a1 :> dA) @@ (a2 :> dA) @@ (b1 :> dB) @@ (c1 :> dC)
MCTierOf == (a1 :> 0) @@ (a2 :> 1) @@ (b1 :> 1) @@ (c1 :> 2)

\* dA and dB are joined twice, so a cross-domain flow has alternatives.
MCLinks ==
  {<<a1, a2>>, <<a2, a1>>, <<a1, b1>>, <<a2, b1>>, <<b1, a2>>, <<b1, c1>>, <<c1, b1>>}

MCCapacity ==
  [c \in (MCNodes \X {"cpu", "ram"}) \cup MCLinks |->
     IF c = <<a2, b1>> THEN 1
     ELSE IF c \in MCLinks THEN 3
     ELSE IF c[2] = "ram" THEN 2 ELSE 3]

MCProcDelay == (a1 :> 2) @@ (a2 :> 1) @@ (b1 :> 1) @@ (c1 :> 0)
MCPropDelay == [l \in MCLinks |-> IF l \in {<<a1, b1>>} THEN 3 ELSE 1]
MCPathDelay == [p \in AllPaths |-> SumFunctionOnSet(MCPropDelay, LinksOf(p))]

V(cpu, ram, intensity, nodes) ==
  [cpu |-> cpu, ram |-> ram, intensity |-> intensity, permitted |-> nodes]

\* An edge chain that fits one domain or two, a chain of three that may end in
\* the central domain, a request that is permitted nowhere, and a single VNF
\* whose delay only the faster of its two nodes can meet.
EdgeSlice ==
  [vnfs |-> <<V(1, 1, 1, {a1, a2}), V(2, 1, 1, {a1, a2, b1})>>,
   bw |-> <<2>>, maxDelay |-> 22]
AnchoredSlice ==
  [vnfs |-> <<V(1, 1, 1, {a1}), V(1, 1, 1, {a1, a2, b1}), V(1, 1, 1, {a1, b1, c1})>>,
   bw |-> <<2, 1>>, maxDelay |-> 40]
HomelessSlice == [vnfs |-> <<V(1, 1, 1, {})>>, bw |-> <<>>, maxDelay |-> 10]
UrgentSlice == [vnfs |-> <<V(1, 2, 4, {a1, b1})>>, bw |-> <<>>, maxDelay |-> 7]

MCSlice ==
  [r \in Requests |-> CASE r = r1 -> EdgeSlice [] r = r2 -> AnchoredSlice
                        [] r = r3 -> HomelessSlice [] r = r4 -> UrgentSlice]
=============================================================================
