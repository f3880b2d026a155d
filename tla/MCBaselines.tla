---------------------------- MODULE MCBaselines ----------------------------
(* Three slices on two domains.  The nodes of A reach each other through B; *)
(* the substrate has no node of the tier r3's second VNF asks for.         *)
EXTENDS Baselines, SequencesExt, TLC

MCNodes == {"a1", "a2", "b1", "b2"}
MCDomains == {"A", "B"}
MCDomainOf == [n \in MCNodes |-> IF n \in {"a1", "a2"} THEN "A" ELSE "B"]
MCTierOf == [n \in MCNodes |-> IF n \in {"a1", "b1"} THEN 1 ELSE 2]
MCIdOf == "a1" :> 1 @@ "a2" :> 2 @@ "b1" :> 3 @@ "b2" :> 4 @@ "A" :> 1 @@ "B" :> 2
MCLinks ==
  LET pairs == {<<"a1", "b1">>, <<"b1", "a2">>, <<"b1", "b2">>}
  IN  pairs \cup {<<l[2], l[1]>> : l \in pairs}
MCCapacity ==
  [c \in MCNodes \X {"cpu", "ram"} |-> CASE c[1] = "a1" -> 4 [] c[1] = "a2" -> 3
                                       [] c[1] = "b1" -> 5 [] c[1] = "b2" -> 6]
    @@ [l \in MCLinks |-> 4]
MCProcDelay == [n \in MCNodes |-> 1]
MCPropDelay == [l \in MCLinks |-> IF "b2" \in {l[1], l[2]} THEN 2 ELSE 1]
MCPathDelay == [p \in AllPaths |-> MapThenSumSet(LAMBDA l : PropDelay[l], LinksOf(p))]

Vnf(cpu, permitted) == [cpu |-> cpu, ram |-> cpu, intensity |-> 1, permitted |-> permitted]
Edge == {"a1", "b1"}
Core == {"a2", "b2"}
MCSlice ==
  "r1" :> [vnfs |-> <<Vnf(1, MCNodes), Vnf(2, Edge)>>, bw |-> <<2>>, maxDelay |-> 10]
  @@ "r2" :> [vnfs |-> <<Vnf(2, Edge), Vnf(2, MCNodes), Vnf(2, Edge)>>, bw |-> <<2, 2>>,
              maxDelay |-> 14]
  @@ "r3" :> [vnfs |-> <<Vnf(2, Core), Vnf(3, {})>>, bw |-> <<1>>, maxDelay |-> 14]

\* Every order in which each slice arrives before it leaves.
MCStreams ==
  LET events == [request : DOMAIN MCSlice, arrives : BOOLEAN]
  IN  {s \in SetToAllKPermutations(events) :
         /\ Len(s) = 6
         /\ \A i, j \in DOMAIN s :
              s[i].request = s[j].request /\ s[i].arrives /\ ~s[j].arrives => i < j}

\* An older topology had a third node in A.
MCNamedDomain == MCDomainOf @@ "a3" :> "A"

\* What older code drew for r1 and r2 and where its builder put them: larger
\* VNFs, one where it is not permitted now, one on the node that is gone.
MCOldSamples ==
  "r1" :> [vnfs |-> <<Vnf(2, MCNodes), Vnf(6, Core)>>, at |-> <<"b1", "b2">>]
  @@ "r2" :> [vnfs |-> <<Vnf(2, Edge), Vnf(3, MCNodes), Vnf(3, Core)>>,
              at |-> <<"a3", "b2", "a2">>]

\* The file of another seed: other slices under the same names.
MCOtherSamples == "r1" :> [vnfs |-> <<Vnf(1, MCNodes), Vnf(2, MCNodes)>>, at |-> <<"b1", "b1">>]

MCOldFiles ==
  {NoFile, Torn, Dataset("other", Now, MCOtherSamples), Dataset(Here, "older", MCOldSamples)}
=============================================================================
