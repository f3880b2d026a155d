--------------------------- MODULE BaselinesProofs ---------------------------
(***************************************************************************)
(* Proofs about the static builders and the loops that run them.            *)
(*                                                                         *)
(* A builder's plan fits because every step of its run keeps the books:     *)
(* what is left and what is placed and routed so far make up what the       *)
(* builder was given.  The loops then never overdraw, whatever the order of *)
(* events; and since first-fit is a function of the residuals and the       *)
(* stream of events is fixed, a replay goes through the residuals the       *)
(* dataset was made on (Trace), however often the process was killed.       *)
(***************************************************************************)
EXTENDS Baselines, SubstrateProofs

-----------------------------------------------------------------------------
(***************************************************************************)
(* The least of some candidates.                                            *)
(***************************************************************************)
LEMMA PrecedesOrders ==
  ASSUME NEW n \in Nat
  PROVE  /\ \A a \in [1 .. n -> Int] : ~Precedes(a, a)
         /\ \A a, b, c \in [1 .. n -> Int] :
              Precedes(a, b) /\ Precedes(b, c) => Precedes(a, c)
<1>1. ASSUME NEW a \in [1 .. n -> Int] PROVE ~Precedes(a, a)
  BY DEF Precedes
<1>2. ASSUME NEW a \in [1 .. n -> Int], NEW b \in [1 .. n -> Int], NEW c \in [1 .. n -> Int],
             Precedes(a, b), Precedes(b, c)
      PROVE  Precedes(a, c)
  <2>1. DOMAIN a = 1 .. n /\ DOMAIN b = 1 .. n
    OBVIOUS
  <2>2. PICK i \in 1 .. n : a[i] < b[i] /\ \A k \in 1 .. i - 1 : a[k] = b[k]
    BY <1>2, <2>1 DEF Precedes
  <2>3. PICK j \in 1 .. n : b[j] < c[j] /\ \A k \in 1 .. j - 1 : b[k] = c[k]
    BY <1>2, <2>1 DEF Precedes
  <2>4. CASE i < j
    <3>1. b[i] = c[i] /\ \A k \in 1 .. i - 1 : a[k] = c[k]
      BY <2>2, <2>3, <2>4
    <3>. QED  BY <2>1, <2>2, <3>1 DEF Precedes
  <2>5. CASE j < i
    <3>1. a[j] = b[j] /\ \A k \in 1 .. j - 1 : a[k] = c[k]
      BY <2>2, <2>3, <2>5
    <3>. QED  BY <2>1, <2>3, <3>1 DEF Precedes
  <2>6. CASE i = j
    <3>1. a[i] < c[i]
      BY <2>2, <2>3, <2>6
    <3>2. \A k \in 1 .. i - 1 : a[k] = c[k]
      BY <2>2, <2>3, <2>6
    <3>. QED  BY <2>1, <3>1, <3>2 DEF Precedes
  <2>. QED  BY <2>4, <2>5, <2>6
<1>. QED  BY <1>1, <1>2

\* Where there are candidates one of them is chosen.
LEMMA FirstByIn ==
  ASSUME NEW key, IsFiniteSet(DOMAIN key), NEW n \in Nat,
         \A x \in DOMAIN key : key[x] \in [1 .. n -> Int], DOMAIN key # {}
  PROVE  FirstBy(key) \in DOMAIN key
<1> DEFINE T == DOMAIN key
           R == {e \in T \X T : Precedes(key[e[1]], key[e[2]])}
<1>1. \A t, u \in T : <<t, u>> \in R <=> Precedes(key[t], key[u])
  OBVIOUS
<1>2. /\ \A t \in T : <<t, t>> \notin R
      /\ \A t, u, v \in T : <<t, u>> \in R /\ <<u, v>> \in R => <<t, v>> \in R
  <2>. HIDE DEF R
  <2>1. ASSUME NEW t \in T PROVE <<t, t>> \notin R
    <3>1. key[t] \in [1 .. n -> Int]
      OBVIOUS
    <3>. QED  BY <1>1, <3>1, PrecedesOrders
  <2>2. ASSUME NEW t \in T, NEW u \in T, NEW v \in T, <<t, u>> \in R, <<u, v>> \in R
        PROVE  <<t, v>> \in R
    <3>1. key[t] \in [1 .. n -> Int] /\ key[u] \in [1 .. n -> Int] /\ key[v] \in [1 .. n -> Int]
      OBVIOUS
    <3>2. Precedes(key[t], key[u]) /\ Precedes(key[u], key[v])
      BY <1>1, <2>2
    <3>3. Precedes(key[t], key[v])
      BY <3>1, <3>2, PrecedesOrders
    <3>. QED  BY <1>1, <3>3
  <2>. QED  BY <2>1, <2>2
<1>3. IsFiniteSet(T) /\ T # {}
  OBVIOUS
<1>4. \E t \in T : \A u \in T : <<u, t>> \notin R
  <2>. HIDE DEF R, T
  <2>. QED  BY <1>2, <1>3, LeastExists
<1>5. \E t \in T : \A u \in T : ~Precedes(key[u], key[t])
  <2>. HIDE DEF R
  <2>. QED  BY <1>1, <1>4
<1>. QED  BY <1>5 DEF FirstBy

-----------------------------------------------------------------------------
(***************************************************************************)
(* A fold over a set, with the function that says which element it takes    *)
(* last, is a table of its values on the subsets.                           *)
(***************************************************************************)
IsTable(g, U, base, fold, last) ==
  g = [s \in SUBSET U |-> IF s = {} THEN base ELSE fold[<<last[s], g[s \ {last[s]}]>>]]

LEMMA SameTables ==
  ASSUME NEW U, IsFiniteSet(U), NEW V, NEW base, NEW fold, NEW last,
         \A s \in SUBSET U : s # {} => last[s] \in s,
         NEW g, NEW h, IsTable(g, U, base, fold, last), IsTable(h, V, base, fold, last),
         NEW s \in SUBSET U, s \subseteq V
  PROVE  g[s] = h[s]
<1> DEFINE Bad == {t \in SUBSET U : t \subseteq V /\ g[t] # h[t]}
<1> SUFFICES ASSUME Bad # {} PROVE FALSE
  OBVIOUS
<1>0. Bad \in SUBSET (SUBSET U)
  OBVIOUS
<1>1. PICK t \in Bad : \A u \in Bad : u \subseteq t => u = t
  <2>. HIDE DEF Bad
  <2>. QED  BY <1>0, SmallestSubset
<1>2. t # {}
  BY <1>1 DEF IsTable
<1> DEFINE r == t \ {last[t]}
<1>3. r \subseteq t /\ r # t
  BY <1>2
<1>4. g[r] = h[r]
  BY <1>1, <1>3
<1>5. g[t] = fold[<<last[t], g[r]>>] /\ h[t] = fold[<<last[t], h[r]>>]
  BY <1>1, <1>2 DEF IsTable
<1>. QED  BY <1>1, <1>4, <1>5

LEMMA FoldTable ==
  ASSUME NEW U, IsFiniteSet(U), NEW base, NEW fold, NEW last,
         \A s \in SUBSET U : s # {} => last[s] \in s
  PROVE  \E g : IsTable(g, U, base, fold, last)
<1> DEFINE Bad == {t \in SUBSET U : ~ \E g : IsTable(g, t, base, fold, last)}
<1> SUFFICES ASSUME Bad # {} PROVE FALSE
  OBVIOUS
<1>0. Bad \in SUBSET (SUBSET U)
  OBVIOUS
<1>1. PICK t \in Bad : \A u \in Bad : u \subseteq t => u = t
  <2>. HIDE DEF Bad
  <2>. QED  BY <1>0, SmallestSubset
<1> DEFINE T(u) == CHOOSE g : IsTable(g, u, base, fold, last)
           G == [s \in SUBSET t |-> IF s = {} THEN base
                                    ELSE fold[<<last[s], T(s \ {last[s]})[s \ {last[s]}]>>]]
<1>2. ASSUME NEW u \in SUBSET t, u # t PROVE IsTable(T(u), u, base, fold, last)
  <2>1. u \notin Bad /\ u \in SUBSET U
    BY <1>1, <1>2
  <2>2. \E g : IsTable(g, u, base, fold, last)
    BY <2>1
  <2>. QED  BY <2>2
<1>3. ASSUME NEW u \in SUBSET t, u # t PROVE G[u] = T(u)[u]
  <2>0. IsTable(T(u), u, base, fold, last) /\ u \in SUBSET U
    BY <1>2, <1>3
  <2>1. CASE u = {}
    <3>1. T(u)[u] = base
      <4>. HIDE DEF T
      <4>. QED  BY <2>0, <2>1 DEF IsTable
    <3>. QED  BY <3>1, <2>1
  <2>2. CASE u # {}
    <3> DEFINE r == u \ {last[u]}
    <3>1. r \subseteq u /\ r \in SUBSET t /\ r # t
      BY <1>3
    <3>2. T(u)[u] = fold[<<last[u], T(u)[r]>>]
      <4>. HIDE DEF T
      <4>. QED  BY <2>0, <2>2 DEF IsTable
    <3>3. T(u)[r] = T(r)[r]
      <4>1. IsTable(T(r), r, base, fold, last)
        <5>. HIDE DEF T, r
        <5>. QED  BY <1>2, <3>1
      <4>2. IsFiniteSet(u) /\ r \in SUBSET u /\ r \subseteq r /\ \A s \in SUBSET u : s # {} => last[s] \in s
        BY <2>0, <3>1, FS_Subset
      <4>. HIDE DEF T, r
      <4>. QED  BY <2>0, <4>1, <4>2, SameTables
    <3>4. G[u] = fold[<<last[u], T(r)[r]>>]
      BY <2>2
    <3>. QED  BY <3>2, <3>3, <3>4
  <2>. QED  BY <2>1, <2>2
<1>4. IsTable(G, t, base, fold, last)
  <2>1. ASSUME NEW s \in SUBSET t, s # {}
        PROVE  T(s \ {last[s]})[s \ {last[s]}] = G[s \ {last[s]}]
    <3>1. s \ {last[s]} \in SUBSET t /\ s \ {last[s]} # t
      BY <1>1, <2>1
    <3>. HIDE DEF G, T
    <3>. QED  BY <1>3, <3>1
  <2>2. G = [s \in SUBSET t |-> IF s = {} THEN base ELSE fold[<<last[s], G[s \ {last[s]}]>>]]
    <3>. HIDE DEF T
    <3>. QED  BY <2>1
  <2>. HIDE DEF G
  <2>. QED  BY <2>2 DEF IsTable
<1>. QED  BY <1>1, <1>4

\* Induction over the subsets a fold goes through.
Inductive(Good, U, last) ==
  /\ {} \in Good
  /\ \A s \in SUBSET U : s # {} => last[s] \in s /\ (s \ {last[s]} \in Good => s \in Good)

LEMMA SubsetInduction ==
  ASSUME NEW U, IsFiniteSet(U), NEW last, NEW Good, Inductive(Good, U, last)
  PROVE  \A s \in SUBSET U : s \in Good
<1> DEFINE Bad == {t \in SUBSET U : t \notin Good}
<1> SUFFICES ASSUME Bad # {} PROVE FALSE
  OBVIOUS
<1>0. Bad \in SUBSET (SUBSET U)
  OBVIOUS
<1>1. PICK t \in Bad : \A u \in Bad : u \subseteq t => u = t
  <2>. HIDE DEF Bad
  <2>. QED  BY <1>0, SmallestSubset
<1>2. t \in SUBSET U /\ t \notin Good /\ t # {}
  <2>1. t \in SUBSET U /\ t \notin Good
    BY <1>1
  <2>2. {} \in Good
    BY DEF Inductive
  <2>. QED  BY ONLY <2>1, <2>2
<1>3. last[t] \in t /\ (t \ {last[t]} \in Good => t \in Good)
  BY <1>2 DEF Inductive
<1>4. t \ {last[t]} \notin Bad
  BY <1>1, <1>3
<1>. QED  BY <1>2, <1>3, <1>4

-----------------------------------------------------------------------------
(***************************************************************************)
(* What a plan takes.                                                       *)
(***************************************************************************)
ChainOk(chain) ==
  /\ chain.vnfs \in Seq([cpu : Nat, ram : Nat, intensity : Nat, permitted : SUBSET Nodes])
  /\ chain.bw \in Seq(Nat)
  /\ Len(chain.bw) = Len(chain.vnfs) - 1

\* Hosts and routes of some of the VNFs and flows.
PartOf(chain, p) ==
  /\ DOMAIN p.at \subseteq DOMAIN chain.vnfs /\ \A k \in DOMAIN p.at : p.at[k] \in Nodes
  /\ DOMAIN p.route \subseteq DOMAIN chain.bw
  /\ \A k \in DOMAIN p.route : p.route[k] \in SUBSET Links

LEMMA ChainFacts ==
  ASSUME NEW chain, ChainOk(chain)
  PROVE  /\ IsFiniteSet(DOMAIN chain.vnfs) /\ IsFiniteSet(DOMAIN chain.bw)
         /\ \A k \in DOMAIN chain.vnfs :
              /\ chain.vnfs[k].cpu \in Nat /\ chain.vnfs[k].ram \in Nat
              /\ chain.vnfs[k].permitted \in SUBSET Nodes /\ k \in Int
         /\ \A k \in DOMAIN chain.bw :
              chain.bw[k] \in Nat /\ k \in DOMAIN chain.vnfs /\ k + 1 \in DOMAIN chain.vnfs
         /\ DOMAIN chain.vnfs # {}
<1> DEFINE V == [cpu : Nat, ram : Nat, intensity : Nat, permitted : SUBSET Nodes]
<1>0. chain.vnfs \in Seq(V) /\ chain.bw \in Seq(Nat)
  BY DEF ChainOk
<1>1. /\ Len(chain.vnfs) \in Nat /\ DOMAIN chain.vnfs = 1 .. Len(chain.vnfs)
      /\ Len(chain.bw) \in Nat /\ DOMAIN chain.bw = 1 .. Len(chain.bw)
  <2>. HIDE DEF V
  <2>. QED  BY <1>0
<1>2. IsFiniteSet(1 .. Len(chain.vnfs)) /\ IsFiniteSet(1 .. Len(chain.bw))
  <2>1. \A n \in Nat : IsFiniteSet(1 .. n)
    BY FS_Interval
  <2>. QED  BY <1>1, <2>1
<1>3. Len(chain.bw) = Len(chain.vnfs) - 1
  BY DEF ChainOk
<1>5. \A k \in DOMAIN chain.vnfs : chain.vnfs[k] \in V
  <2>. HIDE DEF V
  <2>. QED  BY <1>1, <1>0, ElementOfSeq
<1>6. \A k \in DOMAIN chain.bw : chain.bw[k] \in Nat
  BY <1>1, <1>0, ElementOfSeq
<1>7. \A k \in DOMAIN chain.vnfs :
        /\ chain.vnfs[k].cpu \in Nat /\ chain.vnfs[k].ram \in Nat
        /\ chain.vnfs[k].permitted \in SUBSET Nodes
  BY <1>5
<1>. QED  BY <1>1, <1>2, <1>3, <1>6, <1>7

LEMMA UseFacts ==
  ASSUME NEW chain, ChainOk(chain), NEW p, PartOf(chain, p), NEW c \in Cells
  PROVE  /\ IsFiniteSet(DOMAIN p.at) /\ IsFiniteSet(DOMAIN p.route)
         /\ \A k \in DOMAIN p.at : HostUse(chain.vnfs, p.at, c)[k] \in Nat
         /\ \A k \in DOMAIN p.route : FlowUse(chain.bw, p.route, c)[k] \in Nat
         /\ SumFunctionOnSet(HostUse(chain.vnfs, p.at, c), DOMAIN p.at) \in Nat
         /\ SumFunctionOnSet(FlowUse(chain.bw, p.route, c), DOMAIN p.route) \in Nat
         /\ Use(chain, p)[c] = SumFunctionOnSet(HostUse(chain.vnfs, p.at, c), DOMAIN p.at)
                               + SumFunctionOnSet(FlowUse(chain.bw, p.route, c), DOMAIN p.route)
         /\ Use(chain, p)[c] \in Nat
<1>1. IsFiniteSet(DOMAIN p.at) /\ IsFiniteSet(DOMAIN p.route)
  BY ChainFacts, FS_Subset DEF PartOf
<1>2. \A k \in DOMAIN p.at : HostUse(chain.vnfs, p.at, c)[k] \in Nat
  <2>. SUFFICES ASSUME NEW k \in DOMAIN p.at PROVE HostUse(chain.vnfs, p.at, c)[k] \in Nat
    OBVIOUS
  <2>1. p.at[k] \in Nodes /\ chain.vnfs[k].cpu \in Nat /\ chain.vnfs[k].ram \in Nat
    BY ChainFacts DEF PartOf
  <2>2. NodeUse(p.at[k], chain.vnfs[k]) \in [Cells -> Nat]
    BY <2>1, NodeUseFacts
  <2>. QED  BY <2>2 DEF HostUse
<1>3. \A k \in DOMAIN p.route : FlowUse(chain.bw, p.route, c)[k] \in Nat
  <2>. SUFFICES ASSUME NEW k \in DOMAIN p.route PROVE FlowUse(chain.bw, p.route, c)[k] \in Nat
    OBVIOUS
  <2>1. p.route[k] \in SUBSET Links /\ chain.bw[k] \in Nat
    BY ChainFacts DEF PartOf
  <2> DEFINE links == p.route[k]
             rate == chain.bw[k]
  <2>2. RouteUse(p.route[k], chain.bw[k]) \in [Cells -> Nat]
    <3>1. links \in SUBSET Links /\ rate \in Nat
      BY <2>1
    <3>. HIDE DEF links, rate
    <3>2. RouteUse(links, rate) \in [Cells -> Nat]
      BY ONLY <3>1, RouteUseFacts
    <3>. QED  BY <3>2 DEF links, rate
  <2>. QED  BY <2>2 DEF FlowUse
<1>4. SumFunctionOnSet(HostUse(chain.vnfs, p.at, c), DOMAIN p.at) \in Nat
  BY <1>1, <1>2, SumType
<1>5. SumFunctionOnSet(FlowUse(chain.bw, p.route, c), DOMAIN p.route) \in Nat
  BY <1>1, <1>3, SumType
<1>6. Use(chain, p)[c] = SumFunctionOnSet(HostUse(chain.vnfs, p.at, c), DOMAIN p.at)
                          + SumFunctionOnSet(FlowUse(chain.bw, p.route, c), DOMAIN p.route)
  BY DEF Use
<1>. QED  BY <1>1, <1>2, <1>3, <1>4, <1>5, <1>6

LEMMA UseOfNone ==
  ASSUME NEW chain, NEW p, DOMAIN p.at = {}, DOMAIN p.route = {}, NEW c \in Cells
  PROVE  Use(chain, p)[c] = 0
BY SumEmpty DEF Use

\* One more VNF takes what its host gives it; one more flow, what its links do.
LEMMA UseOfHost ==
  ASSUME NEW chain, ChainOk(chain), NEW p, PartOf(chain, p),
         NEW k \in DOMAIN chain.vnfs, k \notin DOMAIN p.at, NEW n \in Nodes,
         NEW q, q.at = With(p.at, k, n), q.route = p.route, NEW c \in Cells
  PROVE  Use(chain, q)[c] = Use(chain, p)[c] + NodeUse(n, chain.vnfs[k])[c]
<1> DEFINE S == DOMAIN p.at
           f == HostUse(chain.vnfs, p.at, c)
           g == HostUse(chain.vnfs, q.at, c)
<1>1. DOMAIN q.at = S \cup {k} /\ q.at[k] = n /\ \A j \in S : q.at[j] = p.at[j]
  BY DEF With
<1>2. /\ g[k] = NodeUse(n, chain.vnfs[k])[c]
      /\ \A j \in S : g[j] = f[j]
  BY <1>1 DEF HostUse
<1>3. NodeUse(n, chain.vnfs[k])[c] \in Nat
  <2>1. chain.vnfs[k].cpu \in Nat /\ chain.vnfs[k].ram \in Nat
    BY ChainFacts
  <2>. QED  BY <2>1, NodeUseFacts
<1>4. IsFiniteSet(S) /\ \A j \in S : f[j] \in Nat
  BY UseFacts
<1>5. g[k] \in Nat /\ k \notin S
  BY <1>2, <1>3
<1>6. SumFunctionOnSet(g, S \cup {k}) = g[k] + SumFunctionOnSet(f, S)
  <2>. HIDE DEF S, f, g
  <2>1. /\ IsFiniteSet(S) /\ \A j \in S : f[j] \in Nat
        /\ k \notin S /\ g[k] \in Nat /\ \A j \in S : g[j] = f[j]
    BY ONLY <1>2, <1>4, <1>5
  <2>. QED  BY ONLY <2>1, SumExtends
<1>7. Use(chain, q)[c] = SumFunctionOnSet(g, S \cup {k})
                           + SumFunctionOnSet(FlowUse(chain.bw, p.route, c), DOMAIN p.route)
  BY <1>1 DEF Use
<1>8. /\ Use(chain, p)[c] = SumFunctionOnSet(f, S)
                             + SumFunctionOnSet(FlowUse(chain.bw, p.route, c), DOMAIN p.route)
      /\ SumFunctionOnSet(f, S) \in Nat
      /\ SumFunctionOnSet(FlowUse(chain.bw, p.route, c), DOMAIN p.route) \in Nat
  BY UseFacts
<1>. HIDE DEF S, f, g
<1>. QED  BY <1>2, <1>3, <1>6, <1>7, <1>8

LEMMA UseOfFlow ==
  ASSUME NEW chain, ChainOk(chain), NEW p, PartOf(chain, p),
         NEW k \in DOMAIN chain.bw, k \notin DOMAIN p.route, NEW links \in SUBSET Links,
         NEW q, q.route = With(p.route, k, links), q.at = p.at, NEW c \in Cells
  PROVE  Use(chain, q)[c] = Use(chain, p)[c] + RouteUse(links, chain.bw[k])[c]
<1> DEFINE S == DOMAIN p.route
           f == FlowUse(chain.bw, p.route, c)
           g == FlowUse(chain.bw, q.route, c)
<1>1. DOMAIN q.route = S \cup {k} /\ q.route[k] = links /\ \A j \in S : q.route[j] = p.route[j]
  BY DEF With
<1>2. /\ g[k] = RouteUse(links, chain.bw[k])[c]
      /\ \A j \in S : g[j] = f[j]
  BY <1>1 DEF FlowUse
<1>3. RouteUse(links, chain.bw[k])[c] \in Nat
  <2>1. chain.bw[k] \in Nat
    BY ChainFacts
  <2>. QED  BY <2>1, RouteUseFacts
<1>4. IsFiniteSet(S) /\ \A j \in S : f[j] \in Nat
  BY UseFacts
<1>5. g[k] \in Nat /\ k \notin S
  BY <1>2, <1>3
<1>6. SumFunctionOnSet(g, S \cup {k}) = g[k] + SumFunctionOnSet(f, S)
  <2>. HIDE DEF S, f, g
  <2>1. /\ IsFiniteSet(S) /\ \A j \in S : f[j] \in Nat
        /\ k \notin S /\ g[k] \in Nat /\ \A j \in S : g[j] = f[j]
    BY ONLY <1>2, <1>4, <1>5
  <2>. QED  BY ONLY <2>1, SumExtends
<1>7. Use(chain, q)[c] = SumFunctionOnSet(HostUse(chain.vnfs, p.at, c), DOMAIN p.at)
                           + SumFunctionOnSet(g, S \cup {k})
  BY <1>1 DEF Use
<1>8. /\ Use(chain, p)[c] = SumFunctionOnSet(HostUse(chain.vnfs, p.at, c), DOMAIN p.at)
                             + SumFunctionOnSet(f, S)
      /\ SumFunctionOnSet(f, S) \in Nat
      /\ SumFunctionOnSet(HostUse(chain.vnfs, p.at, c), DOMAIN p.at) \in Nat
  BY UseFacts
<1>. HIDE DEF S, f, g
<1>. QED  BY <1>2, <1>3, <1>6, <1>7, <1>8

-----------------------------------------------------------------------------
(***************************************************************************)
(* Where the next VNF goes.                                                 *)
(***************************************************************************)
RuleOk(rule) ==
  /\ rule.by \in {"spread", "packed", "near"}
  /\ rule.by = "near" => rule.start \in [Cells -> Nat]

LEMMA IdsAreNumbers ==
  ASSUME NEW n \in Nodes
  PROVE  IdOf[n] \in Int /\ IdOf[DomainOf[n]] \in Int
<1>1. n \in Nodes \cup Domains /\ DomainOf[n] \in Nodes \cup Domains
  BY TopologyAssumption
<1>. QED  BY <1>1, IdsAssumption

LEMMA BwBetweenType ==
  ASSUME NEW left \in [Cells -> Nat], NEW used, NEW d
  PROVE  BwBetween(left, used, d) \in Int
<1> DEFINE L == {l \in Links : \/ DomainOf[l[1]] = d /\ DomainOf[l[2]] \in used \ {d}
                               \/ DomainOf[l[2]] = d /\ DomainOf[l[1]] \in used \ {d}}
<1>1. IsFiniteSet(L) /\ \A l \in L : left[l] \in Nat
  <2>1. L \subseteq Links /\ \A l \in Links : left[l] \in Nat
    BY DEF Cells
  <2>. HIDE DEF L
  <2>. QED  BY <2>1, FiniteLinks, FS_Subset
<1>2. SumFunctionOnSet(left, L) \in Nat
  <2>. HIDE DEF L
  <2>. QED  BY <1>1, SumType
<1>. QED  BY <1>2 DEF BwBetween

LEMMA ChosenHosts ==
  ASSUME NEW rule, RuleOk(rule), NEW run, run.residual \in [Cells -> Int],
         NEW vnf, vnf.cpu \in Nat
  PROVE  Choice(rule, run, vnf) \in Hosts(run.residual, vnf, Nodes) \cup {NoNode}
<1> DEFINE H == Hosts(run.residual, vnf, Nodes)
<1>1. H \subseteq Nodes /\ IsFiniteSet(H)
  <2>1. H \subseteq Nodes
    BY DEF Hosts
  <2>. HIDE DEF H
  <2>. QED  BY <2>1, TopologyAssumption, FS_Subset
<1>2. \A n \in Nodes : /\ -run.residual[<<n, "cpu">>] \in Int
                       /\ run.residual[<<n, "cpu">>] - vnf.cpu \in Int
                       /\ IdOf[n] \in Int /\ IdOf[DomainOf[n]] \in Int
                       /\ -TierMatch(vnf, n) \in Int
  <2>. SUFFICES ASSUME NEW n \in Nodes
                PROVE  /\ -run.residual[<<n, "cpu">>] \in Int
                       /\ run.residual[<<n, "cpu">>] - vnf.cpu \in Int
                       /\ IdOf[n] \in Int /\ IdOf[DomainOf[n]] \in Int
                       /\ -TierMatch(vnf, n) \in Int
    OBVIOUS
  <2>1. <<n, "cpu">> \in Cells
    BY DEF Cells, NodeCells, Kinds
  <2>2. run.residual[<<n, "cpu">>] \in Int
    BY <2>1
  <2>3. -run.residual[<<n, "cpu">>] \in Int /\ run.residual[<<n, "cpu">>] - vnf.cpu \in Int
    BY <2>2
  <2>4. -TierMatch(vnf, n) \in Int
    BY DEF TierMatch
  <2>. QED  BY <2>3, <2>4, IdsAreNumbers
<1>3. CASE rule.by = "spread"
  <2> DEFINE key == [n \in H |-> <<-TierMatch(vnf, n), -run.residual[<<n, "cpu">>],
                                   IdOf[DomainOf[n]], IdOf[n]>>]
  <2>1. DOMAIN key = H /\ \A n \in DOMAIN key : key[n] \in [1 .. 4 -> Int]
    <3>1. \A a, b, c, d \in Int : <<a, b, c, d>> \in [1 .. 4 -> Int]
      OBVIOUS
    <3>2. \A n \in H : /\ -TierMatch(vnf, n) \in Int /\ -run.residual[<<n, "cpu">>] \in Int
                       /\ IdOf[DomainOf[n]] \in Int /\ IdOf[n] \in Int
      <4>. HIDE DEF H
      <4>. QED  BY <1>1, <1>2
    <3>. HIDE DEF H
    <3>. QED  BY <3>1, <3>2
  <2>2. Choice(rule, run, vnf) = FirstBy(key)
    BY <1>3 DEF Choice, Spread
  <2>3. FirstBy(key) \in H \cup {NoNode}
    <3>1. CASE H = {}
      BY <2>1, <3>1 DEF FirstBy
    <3>2. CASE H # {}
      <4>. HIDE DEF key, H
      <4>. QED  BY <1>1, <2>1, <3>2, FirstByIn
    <3>. QED  BY <3>1, <3>2
  <2>. QED  BY <2>2, <2>3
<1>4. CASE rule.by = "packed"
  <2> DEFINE D == Hosts(run.residual, vnf, NodesIn(rule.domain))
             key == [n \in D |-> <<-TierMatch(vnf, n), run.residual[<<n, "cpu">>] - vnf.cpu, IdOf[n]>>]
  <2>1. D \subseteq H /\ IsFiniteSet(D)
    <3>1. D \subseteq H
      BY DEF Hosts, NodesIn
    <3>. HIDE DEF D, H
    <3>. QED  BY <1>1, <3>1, FS_Subset
  <2>2. DOMAIN key = D /\ \A n \in DOMAIN key : key[n] \in [1 .. 3 -> Int]
    <3>1. \A a, b, c \in Int : <<a, b, c>> \in [1 .. 3 -> Int]
      OBVIOUS
    <3>2. \A n \in D : /\ -TierMatch(vnf, n) \in Int /\ run.residual[<<n, "cpu">>] - vnf.cpu \in Int
                       /\ IdOf[n] \in Int
      <4>. HIDE DEF D, H
      <4>. QED  BY <1>1, <1>2, <2>1
    <3>. HIDE DEF D
    <3>. QED  BY <3>1, <3>2
  <2>3. Choice(rule, run, vnf) = FirstBy(key)
    BY <1>4 DEF Choice, Packed
  <2>4. FirstBy(key) \in D \cup {NoNode}
    <3>1. CASE D = {}
      BY <2>2, <3>1 DEF FirstBy
    <3>2. CASE D # {}
      <4>. HIDE DEF key, D
      <4>. QED  BY <2>1, <2>2, <3>2, FirstByIn
    <3>. QED  BY <3>1, <3>2
  <2>. HIDE DEF D, key, H
  <2>. QED  BY <2>1, <2>3, <2>4 DEF H
<1>5. CASE rule.by = "near"
  <2> DEFINE used == {DomainOf[run.at[k]] : k \in DOMAIN run.at}
             D == {n \in H : TierRequired(vnf) => TierMatch(vnf, n) = 1}
             spare(n) == run.residual[<<n, "cpu">>] - vnf.cpu
             bw(n) == BwBetween(rule.start, used, DomainOf[n])
             key == [n \in D |-> IF DomainOf[n] \in used THEN <<-1, 0, spare(n), IdOf[n]>>
                                 ELSE <<0, -bw(n), spare(n), IdOf[n]>>]
  <2>1. D \subseteq H /\ IsFiniteSet(D)
    <3>1. D \subseteq H
      OBVIOUS
    <3>. HIDE DEF D, H
    <3>. QED  BY <1>1, <3>1, FS_Subset
  <2>2. DOMAIN key = D /\ \A n \in DOMAIN key : key[n] \in [1 .. 4 -> Int]
    <3>1. \A a, b, c, d \in Int : <<a, b, c, d>> \in [1 .. 4 -> Int]
      OBVIOUS
    <3>2. \A n \in D : spare(n) \in Int /\ IdOf[n] \in Int
      <4>. HIDE DEF D, H
      <4>. QED  BY <1>1, <1>2, <2>1
    <3>3. \A n \in D : -bw(n) \in Int
      <4>1. rule.start \in [Cells -> Nat]
        BY <1>5 DEF RuleOk
      <4>2. \A n \in D : bw(n) \in Int
        <5>. HIDE DEF D, used
        <5>. QED  BY <4>1, BwBetweenType
      <4>. HIDE DEF bw
      <4>. QED  BY <4>2
    <3>. HIDE DEF D, used, spare, bw
    <3>. QED  BY <3>1, <3>2, <3>3
  <2>3. Choice(rule, run, vnf) = FirstBy(key)
    BY <1>5 DEF Choice, Near
  <2>4. FirstBy(key) \in D \cup {NoNode}
    <3>1. CASE D = {}
      BY <2>2, <3>1 DEF FirstBy
    <3>2. CASE D # {}
      <4>. HIDE DEF key, D
      <4>. QED  BY <2>1, <2>2, <3>2, FirstByIn
    <3>. QED  BY <3>1, <3>2
  <2>. HIDE DEF D, key, H
  <2>. QED  BY <2>1, <2>3, <2>4 DEF H
<1>. QED  BY <1>3, <1>4, <1>5 DEF RuleOk

-----------------------------------------------------------------------------
(***************************************************************************)
(* The runs of a builder.                                                   *)
(***************************************************************************)
SomeHosts(chain) == UNION {[S -> Nodes] : S \in SUBSET DOMAIN chain.vnfs}
SomeRoutes(chain) == UNION {[S -> SUBSET Links] : S \in SUBSET DOMAIN chain.bw}
RunSet(chain) == [ok : BOOLEAN, residual : [Cells -> Int],
                  at : SomeHosts(chain), route : SomeRoutes(chain)]

\* The run has kept the books from what it was given, and placed VNFs where they
\* are permitted.
Kept(given, chain, run) ==
  /\ \A c \in Cells : run.residual[c] \in Nat /\ run.residual[c] + Use(chain, run)[c] = given[c]
  /\ \A k \in DOMAIN run.at : run.at[k] \in Permitted(chain.vnfs[k])

\* A run that has placed the VNFs S and routed the flows F, if it has not failed.
RunOf(given, chain, run, S, F) ==
  /\ run \in RunSet(chain)
  /\ run.ok => DOMAIN run.at = S /\ DOMAIN run.route = F /\ Kept(given, chain, run)

LEMMA RunFacts ==
  ASSUME NEW chain, NEW run \in RunSet(chain)
  PROVE  /\ run.ok \in BOOLEAN /\ run.residual \in [Cells -> Int]
         /\ run.at \in SomeHosts(chain) /\ run.route \in SomeRoutes(chain)
         /\ PartOf(chain, run)
<1>1. /\ run.ok \in BOOLEAN /\ run.residual \in [Cells -> Int]
      /\ run.at \in SomeHosts(chain) /\ run.route \in SomeRoutes(chain)
  BY DEF RunSet
<1>2. DOMAIN run.at \subseteq DOMAIN chain.vnfs /\ \A k \in DOMAIN run.at : run.at[k] \in Nodes
  BY <1>1 DEF SomeHosts
<1>3. /\ DOMAIN run.route \subseteq DOMAIN chain.bw
      /\ \A k \in DOMAIN run.route : run.route[k] \in SUBSET Links
  BY <1>1 DEF SomeRoutes
<1>. QED  BY <1>1, <1>2, <1>3 DEF PartOf

LEMMA WithHost ==
  ASSUME NEW chain, NEW at \in SomeHosts(chain), NEW k \in DOMAIN chain.vnfs, NEW n \in Nodes
  PROVE  /\ With(at, k, n) \in SomeHosts(chain)
         /\ DOMAIN With(at, k, n) = DOMAIN at \cup {k}
         /\ With(at, k, n)[k] = n
         /\ \A j \in DOMAIN at : j # k => With(at, k, n)[j] = at[j]
<1>1. PICK S \in SUBSET DOMAIN chain.vnfs : at \in [S -> Nodes]
  BY DEF SomeHosts
<1>2. /\ With(at, k, n) \in [S \cup {k} -> Nodes] /\ With(at, k, n)[k] = n
      /\ \A j \in S : j # k => With(at, k, n)[j] = at[j]
  BY <1>1 DEF With
<1>3. S \cup {k} \in SUBSET DOMAIN chain.vnfs
  BY <1>1
<1>. QED  BY <1>1, <1>2, <1>3 DEF SomeHosts

LEMMA WithRoute ==
  ASSUME NEW chain, NEW route \in SomeRoutes(chain), NEW k \in DOMAIN chain.bw,
         NEW links \in SUBSET Links
  PROVE  /\ With(route, k, links) \in SomeRoutes(chain)
         /\ DOMAIN With(route, k, links) = DOMAIN route \cup {k}
         /\ With(route, k, links)[k] = links
         /\ \A j \in DOMAIN route : j # k => With(route, k, links)[j] = route[j]
<1>1. PICK S \in SUBSET DOMAIN chain.bw : route \in [S -> SUBSET Links]
  BY DEF SomeRoutes
<1>2. /\ With(route, k, links) \in [S \cup {k} -> SUBSET Links]
      /\ With(route, k, links)[k] = links
      /\ \A j \in S : j # k => With(route, k, links)[j] = route[j]
  BY <1>1 DEF With
<1>3. S \cup {k} \in SUBSET DOMAIN chain.bw
  BY <1>1
<1>. QED  BY <1>1, <1>2, <1>3 DEF SomeRoutes

LEMMA FailedType ==
  ASSUME NEW chain, NEW run \in RunSet(chain)
  PROVE  Failed(run) \in RunSet(chain) /\ ~Failed(run).ok
BY DEF Failed, RunSet

LEMMA DebitedType ==
  ASSUME NEW left \in [Cells -> Int], NEW use \in [Cells -> Nat]
  PROVE  Debited(left, use) \in [Cells -> Int] /\ \A c \in Cells : Debited(left, use)[c] = left[c] - use[c]
BY DEF Debited

LEMMA HostedType ==
  ASSUME NEW chain, ChainOk(chain), NEW run \in RunSet(chain), NEW k \in DOMAIN chain.vnfs,
         NEW n \in Nodes \cup {NoNode}
  PROVE  Hosted(run, k, chain.vnfs[k], n) \in RunSet(chain)
<1>1. CASE n = NoNode
  BY <1>1, FailedType DEF Hosted
<1>2. CASE n # NoNode
  <2> DEFINE res == Debited(run.residual, NodeUse(n, chain.vnfs[k]))
             at == With(run.at, k, n)
  <2>1. n \in Nodes
    BY <1>2
  <2>2. NodeUse(n, chain.vnfs[k]) \in [Cells -> Nat]
    BY <2>1, ChainFacts, NodeUseFacts
  <2>3. res \in [Cells -> Int]
    BY <2>2, RunFacts, DebitedType
  <2>4. at \in SomeHosts(chain)
    BY <2>1, RunFacts, WithHost
  <2>5. run.route \in SomeRoutes(chain)
    BY RunFacts
  <2>6. Hosted(run, k, chain.vnfs[k], n) = [ok |-> TRUE, residual |-> res, at |-> at, route |-> run.route]
    BY <1>2 DEF Hosted
  <2>. HIDE DEF res, at
  <2>. QED  BY <2>3, <2>4, <2>5, <2>6 DEF RunSet
<1>. QED  BY <1>1, <1>2

\* A VNF is placed on a node that has room for it, and charged for.
LEMMA HostedKeeps ==
  ASSUME NEW given \in [Cells -> Nat], NEW chain, ChainOk(chain),
         NEW S, NEW F, NEW run, RunOf(given, chain, run, S, F), run.ok,
         NEW k \in DOMAIN chain.vnfs, k \notin S,
         NEW n \in Hosts(run.residual, chain.vnfs[k], Nodes) \cup {NoNode}
  PROVE  RunOf(given, chain, Hosted(run, k, chain.vnfs[k], n), S \cup {k}, F)
<1> DEFINE vnf == chain.vnfs[k]
           next == Hosted(run, k, vnf, n)
<1>1. run \in RunSet(chain) /\ DOMAIN run.at = S /\ DOMAIN run.route = F /\ Kept(given, chain, run)
  BY DEF RunOf
<1>2. n \in Nodes \cup {NoNode}
  BY DEF Hosts
<1>3. next \in RunSet(chain)
  BY <1>1, <1>2, HostedType
<1>4. CASE n = NoNode
  <2>1. ~next.ok
    BY <1>1, <1>4, FailedType DEF Hosted
  <2>. HIDE DEF next
  <2>. QED  BY <1>3, <2>1 DEF RunOf, next, vnf
<1>5. CASE n # NoNode
  <2>1. /\ n \in Nodes /\ n \in Permitted(vnf)
        /\ run.residual[<<n, "cpu">>] >= vnf.cpu /\ run.residual[<<n, "ram">>] >= vnf.ram
    BY <1>5 DEF Hosts
  <2>2. next = [ok |-> TRUE, residual |-> Debited(run.residual, NodeUse(n, vnf)),
                at |-> With(run.at, k, n), route |-> run.route]
    BY <1>5 DEF Hosted
  <2>3. next.residual = Debited(run.residual, NodeUse(n, vnf)) /\ next.at = With(run.at, k, n)
          /\ next.route = run.route
    BY <2>2
  <2>4. vnf.cpu \in Nat /\ vnf.ram \in Nat
    BY ChainFacts
  <2>5. /\ NodeUse(n, vnf) \in [Cells -> Nat]
        /\ \A c \in Cells : NodeUse(n, vnf)[c] # 0 => c \in {n} \X Kinds
        /\ NodeUse(n, vnf)[<<n, "cpu">>] = vnf.cpu
        /\ NodeUse(n, vnf)[<<n, "ram">>] = vnf.ram
    BY <2>1, <2>4, NodeUseFacts
  <2>6. run.residual \in [Cells -> Int] /\ run.at \in SomeHosts(chain) /\ PartOf(chain, run)
    BY <1>1, RunFacts
  <2>7. /\ DOMAIN next.at = S \cup {k} /\ next.at[k] = n
        /\ \A j \in S : next.at[j] = run.at[j]
    <3>1. /\ DOMAIN With(run.at, k, n) = DOMAIN run.at \cup {k} /\ With(run.at, k, n)[k] = n
          /\ \A j \in DOMAIN run.at : j # k => With(run.at, k, n)[j] = run.at[j]
      BY DEF With
    <3>. HIDE DEF next
    <3>. QED  BY <1>1, <2>3, <3>1
  <2>8. ASSUME NEW c \in Cells
        PROVE  next.residual[c] \in Nat /\ next.residual[c] + Use(chain, next)[c] = given[c]
    <3>1. /\ run.residual[c] \in Nat /\ run.residual[c] + Use(chain, run)[c] = given[c]
      BY <1>1 DEF Kept
    <3>2. Use(chain, next)[c] = Use(chain, run)[c] + NodeUse(n, vnf)[c]
      <4>1. k \in DOMAIN chain.vnfs /\ k \notin DOMAIN run.at
        BY <1>1
      <4>. HIDE DEF next
      <4>. QED  BY <2>1, <2>3, <2>6, <4>1, UseOfHost DEF vnf
    <3>3. next.residual[c] = run.residual[c] - NodeUse(n, vnf)[c]
      BY <2>3, <2>5, <2>6, DebitedType
    <3>4. NodeUse(n, vnf)[c] <= run.residual[c]
      <4>1. CASE c = <<n, "cpu">>
        BY <2>1, <2>5, <4>1
      <4>2. CASE c = <<n, "ram">>
        BY <2>1, <2>5, <4>2
      <4>3. CASE c \notin {n} \X Kinds
        BY <2>5, <3>1, <4>3
      <4>. QED  BY <4>1, <4>2, <4>3 DEF Kinds
    <3>5. NodeUse(n, vnf)[c] \in Nat /\ Use(chain, run)[c] \in Nat
      BY <2>5, <2>6, UseFacts
    <3>. HIDE DEF next, vnf
    <3>. QED  BY <3>1, <3>2, <3>3, <3>4, <3>5
  <2>9. \A j \in DOMAIN next.at : next.at[j] \in Permitted(chain.vnfs[j])
    <3>1. \A j \in S : run.at[j] \in Permitted(chain.vnfs[j])
      BY <1>1 DEF Kept
    <3>. HIDE DEF next
    <3>. QED  BY <2>1, <2>7, <3>1 DEF vnf
  <2>10. Kept(given, chain, next)
    <3>. HIDE DEF next
    <3>. QED  BY <2>8, <2>9 DEF Kept
  <2>. HIDE DEF next
  <2>. QED  BY <1>1, <1>3, <2>3, <2>7, <2>10 DEF RunOf, next, vnf
<1>. QED  BY <1>4, <1>5

LEMMA TakenType ==
  ASSUME NEW chain, ChainOk(chain), NEW run \in RunSet(chain), run.ok, NEW k \in DOMAIN chain.bw,
         NEW path, path # <<>> => LinksOf(path) \subseteq Links
  PROVE  Taken(run, k, chain.bw[k], path) \in RunSet(chain)
<1> DEFINE next == Taken(run, k, chain.bw[k], path)
<1>1. CASE run.at[k] = run.at[k + 1]
  <2>1. next = [run EXCEPT !.route = With(run.route, k, {})]
    BY <1>1 DEF Taken
  <2>2. With(run.route, k, {}) \in SomeRoutes(chain)
    BY RunFacts, WithRoute, {} \in SUBSET Links
  <2>. HIDE DEF next
  <2>. QED  BY <2>1, <2>2 DEF RunSet, next
<1>2. CASE run.at[k] # run.at[k + 1] /\ path = <<>>
  <2>1. next = Failed(run)
    BY <1>2 DEF Taken
  <2>. QED  BY <2>1, FailedType
<1>3. CASE run.at[k] # run.at[k + 1] /\ path # <<>>
  <2> DEFINE res == Debited(run.residual, RouteUse(LinksOf(path), chain.bw[k]))
             route == With(run.route, k, LinksOf(path))
  <2>1. next = [ok |-> TRUE, residual |-> res, at |-> run.at, route |-> route]
    BY <1>3 DEF Taken
  <2>2. chain.bw[k] \in Nat
    BY ChainFacts
  <2>3. RouteUse(LinksOf(path), chain.bw[k]) \in [Cells -> Nat]
    BY <1>3, <2>2, RouteUseFacts
  <2>4. res \in [Cells -> Int]
    BY <2>3, RunFacts, DebitedType
  <2>5. route \in SomeRoutes(chain)
    BY <1>3, RunFacts, WithRoute
  <2>6. run.at \in SomeHosts(chain)
    BY RunFacts
  <2>. HIDE DEF res, route, next
  <2>. QED  BY <2>1, <2>4, <2>5, <2>6 DEF RunSet, next
<1>. QED  BY <1>1, <1>2, <1>3

\* A flow that takes links with room for it keeps the books.
LEMMA RouteKeeps ==
  ASSUME NEW given \in [Cells -> Nat], NEW chain, ChainOk(chain),
         NEW S, NEW F, NEW run, RunOf(given, chain, run, S, F), run.ok,
         NEW k \in DOMAIN chain.bw, k \notin F, NEW links \in SUBSET Links,
         \A l \in links : run.residual[l] >= chain.bw[k],
         NEW next \in RunSet(chain), next.at = run.at, next.route = With(run.route, k, links),
         \A c \in Cells : next.residual[c] = run.residual[c] - RouteUse(links, chain.bw[k])[c]
  PROVE  RunOf(given, chain, next, S, F \cup {k})
<1> DEFINE rate == chain.bw[k]
<1>1. run \in RunSet(chain) /\ DOMAIN run.at = S /\ DOMAIN run.route = F /\ Kept(given, chain, run)
  BY DEF RunOf
<1>2. rate \in Nat
  BY ChainFacts
<1>3. run.residual \in [Cells -> Int] /\ run.route \in SomeRoutes(chain) /\ PartOf(chain, run)
  BY <1>1, RunFacts
<1>4. DOMAIN next.route = F \cup {k}
  <2>1. DOMAIN With(run.route, k, links) = DOMAIN run.route \cup {k}
    BY DEF With
  <2>. QED  BY <1>1, <2>1
<1>5. ASSUME NEW c \in Cells
      PROVE  next.residual[c] \in Nat /\ next.residual[c] + Use(chain, next)[c] = given[c]
  <2>1. /\ run.residual[c] \in Nat /\ run.residual[c] + Use(chain, run)[c] = given[c]
    BY <1>1 DEF Kept
  <2>2. Use(chain, next)[c] = Use(chain, run)[c] + RouteUse(links, rate)[c]
    <3>1. /\ ChainOk(chain) /\ PartOf(chain, run)
          /\ k \in DOMAIN chain.bw /\ k \notin DOMAIN run.route /\ links \in SUBSET Links
          /\ next.route = With(run.route, k, links) /\ next.at = run.at
      BY <1>1, <1>3
    <3>2. Use(chain, next)[c] = Use(chain, run)[c] + RouteUse(links, chain.bw[k])[c]
      BY ONLY <3>1, UseOfFlow, c \in Cells
    <3>. QED  BY <3>2
  <2>3. RouteUse(links, rate)[c] \in Nat /\ RouteUse(links, rate)[c] <= run.residual[c]
    <3>1. RouteUse(links, rate)[c] = IF c \in links THEN rate ELSE 0
      BY <1>2, RouteUseFacts
    <3>2. \A l \in links : run.residual[l] >= rate
      OBVIOUS
    <3>. HIDE DEF rate
    <3>. QED  BY <1>2, <2>1, <3>1, <3>2
  <2>4. Use(chain, run)[c] \in Nat
    BY <1>3, UseFacts
  <2>5. next.residual[c] = run.residual[c] - RouteUse(links, rate)[c]
    OBVIOUS
  <2>. HIDE DEF rate
  <2>. QED  BY <2>1, <2>2, <2>3, <2>4, <2>5
<1>6. \A j \in DOMAIN next.at : next.at[j] \in Permitted(chain.vnfs[j])
  BY <1>1 DEF Kept
<1>7. Kept(given, chain, next)
  BY <1>5, <1>6 DEF Kept
<1>. QED  BY <1>1, <1>4, <1>7 DEF RunOf

\* A flow takes links with room for it, if any, and is charged for them.
LEMMA TakenKeeps ==
  ASSUME NEW given \in [Cells -> Nat], NEW chain, ChainOk(chain),
         NEW S, NEW F, NEW run, RunOf(given, chain, run, S, F), run.ok,
         NEW k \in DOMAIN chain.bw, k \notin F,
         NEW path, path # <<>> => /\ LinksOf(path) \subseteq Links
                                  /\ \A l \in LinksOf(path) : run.residual[l] >= chain.bw[k]
  PROVE  RunOf(given, chain, Taken(run, k, chain.bw[k], path), S, F \cup {k})
<1> DEFINE rate == chain.bw[k]
           next == Taken(run, k, rate, path)
<1>1. run \in RunSet(chain) /\ DOMAIN run.at = S /\ DOMAIN run.route = F /\ Kept(given, chain, run)
  BY DEF RunOf
<1>2. next \in RunSet(chain)
  BY <1>1, TakenType
<1>3. rate \in Nat
  BY ChainFacts
<1>4. run.residual \in [Cells -> Int]
  BY <1>1, RunFacts
<1>5. CASE run.at[k] # run.at[k + 1] /\ path = <<>>
  <2>1. ~next.ok
    BY <1>1, <1>5, FailedType DEF Taken
  <2>. HIDE DEF next
  <2>. QED  BY <1>2, <2>1 DEF RunOf, next, rate
<1>7. CASE run.at[k] = run.at[k + 1]
  <2>1. next = [run EXCEPT !.route = With(run.route, k, {})]
    BY <1>7 DEF Taken
  <2>2. next.at = run.at /\ next.route = With(run.route, k, {}) /\ next.residual = run.residual
    <3>. HIDE DEF next
    <3>. QED  BY <1>1, <2>1 DEF RunSet
  <2>3. \A c \in Cells : RouteUse({}, rate)[c] = 0 /\ run.residual[c] \in Int
    BY <1>4 DEF RouteUse
  <2>4. \A c \in Cells : next.residual[c] = run.residual[c] - RouteUse({}, rate)[c]
    <3>. HIDE DEF next, rate
    <3>. QED  BY <2>2, <2>3
  <2>5. {} \in SUBSET Links /\ \A l \in {} : run.residual[l] >= rate
    OBVIOUS
  <2>6. RunOf(given, chain, next, S, F \cup {k})
    <3> DEFINE links == {}
    <3>1. /\ links \in SUBSET Links /\ \A l \in links : run.residual[l] >= chain.bw[k]
          /\ next \in RunSet(chain) /\ next.at = run.at /\ next.route = With(run.route, k, links)
          /\ \A c \in Cells : next.residual[c] = run.residual[c] - RouteUse(links, chain.bw[k])[c]
      <4>. HIDE DEF next
      <4>. QED  BY <1>2, <2>2, <2>4, <2>5 DEF rate
    <3>. HIDE DEF next, links
    <3>. QED  BY <3>1, RouteKeeps
  <2>. QED  BY <2>6 DEF next, rate
<1>8. CASE run.at[k] # run.at[k + 1] /\ path # <<>>
  <2> DEFINE links == LinksOf(path)
  <2>1. next = [ok |-> TRUE, residual |-> Debited(run.residual, RouteUse(links, rate)),
                at |-> run.at, route |-> With(run.route, k, links)]
    BY <1>8 DEF Taken
  <2>2. links \in SUBSET Links /\ \A l \in links : run.residual[l] >= rate
    BY <1>8
  <2>. HIDE DEF links, next
  <2>3. next.at = run.at /\ next.route = With(run.route, k, links)
          /\ next.residual = Debited(run.residual, RouteUse(links, rate))
    BY <2>1
  <2>4. RouteUse(links, rate) \in [Cells -> Nat]
    BY <1>3, <2>2, RouteUseFacts
  <2>5. \A c \in Cells : next.residual[c] = run.residual[c] - RouteUse(links, rate)[c]
    <3>1. \A c \in Cells : Debited(run.residual, RouteUse(links, rate))[c]
                            = run.residual[c] - RouteUse(links, rate)[c]
      <4>. HIDE DEF rate
      <4>. QED  BY <1>4, <2>4, DebitedType
    <3>. QED  BY <2>3, <3>1
  <2>6. RunOf(given, chain, next, S, F \cup {k})
    <3>1. /\ links \in SUBSET Links /\ \A l \in links : run.residual[l] >= chain.bw[k]
          /\ next \in RunSet(chain) /\ next.at = run.at /\ next.route = With(run.route, k, links)
          /\ \A c \in Cells : next.residual[c] = run.residual[c] - RouteUse(links, chain.bw[k])[c]
      BY <1>2, <2>2, <2>3, <2>5 DEF rate
    <3>. QED  BY <3>1, RouteKeeps
  <2>. QED  BY <2>6 DEF next, rate
<1>. QED  BY <1>5, <1>7, <1>8

\* The path of a flow, if there is one, has room for it.
LEMMA PathHasRoom ==
  ASSUME NEW wide, NEW left, NEW u, NEW v, NEW rate, PathFor(wide, left, u, v, rate) # <<>>
  PROVE  /\ LinksOf(PathFor(wide, left, u, v, rate)) \subseteq Links
         /\ \A l \in LinksOf(PathFor(wide, left, u, v, rate)) : left[l] >= rate
<1> DEFINE usable == {p \in Paths(Nodes, u, v) : \A l \in LinksOf(p) : left[l] >= rate}
<1>1. ASSUME usable # {} PROVE \E p \in usable : \A q \in usable : PathDelay[p] <= PathDelay[q]
  <2> DEFINE D == {PathDelay[p] : p \in usable}
  <2>1. \A p \in usable : PathDelay[p] \in Nat
    BY PathFacts
  <2>2. D \subseteq Nat /\ D # {}
    <3>. HIDE DEF usable
    <3>. QED  BY <1>1, <2>1
  <2>3. PICK d \in D : \A e \in D : ~(<<e, d>> \in OpToRel(<, Nat))
    <3>. HIDE DEF D
    <3>. QED  BY <2>2, NatLessThanWellFounded, WFMin
  <2>4. \A e \in D : d <= e
    <3>. HIDE DEF D
    <3>. SUFFICES ASSUME NEW e \in D PROVE d <= e
      OBVIOUS
    <3>1. e \in Nat /\ d \in Nat
      BY <2>2
    <3>2. e < d => <<e, d>> \in OpToRel(<, Nat)
      BY <3>1 DEF OpToRel
    <3>3. ~(e < d)
      BY <2>3, <3>2
    <3>. QED  BY <3>1, <3>3
  <2>5. PICK p \in usable : d = PathDelay[p]
    <3>. HIDE DEF usable
    <3>. QED  BY <2>3
  <2>6. \A q \in usable : PathDelay[q] \in D
    <3>. HIDE DEF usable
    <3>. QED  OBVIOUS
  <2>. HIDE DEF usable, D
  <2>. QED  BY <2>4, <2>5, <2>6
<1>2. PathFor(wide, left, u, v, rate) \in usable
  <2>1. CASE wide
    <3> DEFINE tried == CHOOSE C \in KShortest(Nodes, u, v) : TRUE
               some == {p \in Paths(Nodes, u, v) : p \in tried /\ \A l \in LinksOf(p) : left[l] >= rate}
    <3>1. PathFor(wide, left, u, v, rate) = CrossDomain(left, u, v, rate)
      BY <2>1 DEF PathFor
    <3>2. CrossDomain(left, u, v, rate) = IF some = {} THEN <<>> ELSE CHOOSE p \in some : TRUE
      BY DEF CrossDomain
    <3>3. some \subseteq usable
      <4>. HIDE DEF tried
      <4>. QED  OBVIOUS
    <3>. HIDE DEF some, usable
    <3>. QED  BY <3>1, <3>2, <3>3
  <2>2. CASE ~wide
    <3>1. PathFor(wide, left, u, v, rate) = ShortestUsable(left, u, v, rate)
      BY <2>2 DEF PathFor
    <3>2. ShortestUsable(left, u, v, rate) =
            IF usable = {} THEN <<>>
            ELSE CHOOSE p \in usable : \A q \in usable : PathDelay[p] <= PathDelay[q]
      BY DEF ShortestUsable
    <3>. HIDE DEF usable
    <3>. QED  BY <1>1, <3>1, <3>2
  <2>. QED  BY <2>1, <2>2
<1>3. PathFor(wide, left, u, v, rate) \in Paths(Nodes, u, v)
  BY <1>2
<1>4. LinksOf(PathFor(wide, left, u, v, rate)) \subseteq Links
  BY <1>3, PathFacts
<1>. QED  BY <1>2, <1>4

LEMMA LastPlacedIn ==
  ASSUME NEW chain, ChainOk(chain), NEW S \in SUBSET DOMAIN chain.vnfs, S # {}
  PROVE  LastPlaced(chain.vnfs, S) \in S
<1> DEFINE key == [k \in S |-> <<chain.vnfs[k].cpu, chain.vnfs[k].ram, -k>>]
<1>1. DOMAIN key = S /\ \A k \in DOMAIN key : key[k] \in [1 .. 3 -> Int]
  <2>1. \A a, b, c \in Int : <<a, b, c>> \in [1 .. 3 -> Int]
    OBVIOUS
  <2>2. \A k \in S : chain.vnfs[k].cpu \in Int /\ chain.vnfs[k].ram \in Int /\ k \in Int
    BY ChainFacts
  <2>3. \A k \in S : -k \in Int
    BY <2>2
  <2>. QED  BY <2>1, <2>2, <2>3
<1>2. IsFiniteSet(S)
  BY ChainFacts, FS_Subset
<1>3. FirstBy(key) \in S
  <2>. HIDE DEF key
  <2>. QED  BY <1>1, <1>2, FirstByIn
<1>. QED  BY <1>3 DEF LastPlaced

LEMMA MaxIn ==
  ASSUME NEW S \in SUBSET Int, IsFiniteSet(S), S # {}
  PROVE  Max(S) \in S
<1> DEFINE R == {e \in S \X S : e[1] > e[2]}
<1>1. /\ \A t \in S : <<t, t>> \notin R
      /\ \A t, u, v \in S : <<t, u>> \in R /\ <<u, v>> \in R => <<t, v>> \in R
  OBVIOUS
<1>2. \A t, u \in S : <<t, u>> \in R <=> t > u
  OBVIOUS
<1>3. \E t \in S : \A u \in S : <<u, t>> \notin R
  <2>. HIDE DEF R
  <2>. QED  BY <1>1, LeastExists
<1>4. \E t \in S : \A u \in S : t >= u
  <2>1. PICK t \in S : \A u \in S : <<u, t>> \notin R
    BY <1>3
  <2>2. \A u \in S : ~(u > t)
    BY <1>2, <2>1
  <2>. HIDE DEF R
  <2>. QED  BY <2>2
<1>. QED  BY <1>4 DEF Max

-----------------------------------------------------------------------------
(***************************************************************************)
(* Placing and routing, step by step.                                       *)
(***************************************************************************)
PlacedTable(h, left, vnfs, rule) ==
  h = [s \in SUBSET DOMAIN vnfs |->
         IF s = {} THEN Start(left)
         ELSE PlacedNext(vnfs, rule, LastPlaced(vnfs, s), h[s \ {LastPlaced(vnfs, s)}])]

RoutedTable(h, start, bw, flows, wide) ==
  h = [s \in SUBSET flows |->
         IF s = {} THEN start ELSE RoutedNext(bw, wide, Max(s), h[s \ {Max(s)}])]

LEMMA StartIsRun ==
  ASSUME NEW given \in [Cells -> Nat], NEW chain
  PROVE  RunOf(given, chain, Start(given), {}, {})
<1>1. /\ Start(given).residual = given /\ Start(given).ok = TRUE
      /\ DOMAIN Start(given).at = {} /\ DOMAIN Start(given).route = {}
  BY DEF Start
<1>2. <<>> \in SomeHosts(chain) /\ <<>> \in SomeRoutes(chain)
  <2>1. <<>> \in [{} -> Nodes] /\ <<>> \in [{} -> SUBSET Links]
    OBVIOUS
  <2>2. {} \in SUBSET DOMAIN chain.vnfs /\ {} \in SUBSET DOMAIN chain.bw
    OBVIOUS
  <2>. QED  BY <2>1, <2>2 DEF SomeHosts, SomeRoutes
<1>3. Start(given) \in RunSet(chain)
  BY <1>2 DEF Start, RunSet
<1>4. \A c \in Cells : Use(chain, Start(given))[c] = 0 /\ given[c] \in Nat
  BY <1>1, UseOfNone
<1>5. Kept(given, chain, Start(given))
  BY <1>1, <1>4 DEF Kept
<1>. QED  BY <1>1, <1>3, <1>5 DEF RunOf

LEMMA PlacedNextType ==
  ASSUME NEW chain, ChainOk(chain), NEW rule, RuleOk(rule), NEW k \in DOMAIN chain.vnfs,
         NEW run \in RunSet(chain)
  PROVE  PlacedNext(chain.vnfs, rule, k, run) \in RunSet(chain)
<1> DEFINE n == Choice(rule, run, chain.vnfs[k])
<1>1. n \in Hosts(run.residual, chain.vnfs[k], Nodes) \cup {NoNode}
  BY RunFacts, ChainFacts, ChosenHosts
<1>2. n \in Nodes \cup {NoNode}
  BY <1>1 DEF Hosts
<1>3. Hosted(run, k, chain.vnfs[k], n) \in RunSet(chain)
  <2>. HIDE DEF n
  <2>. QED  BY <1>2, HostedType
<1>4. PlacedNext(chain.vnfs, rule, k, run) = IF run.ok THEN Hosted(run, k, chain.vnfs[k], n) ELSE run
  BY DEF PlacedNext
<1>. HIDE DEF n
<1>. QED  BY <1>3, <1>4

LEMMA PlacedNextKeeps ==
  ASSUME NEW given \in [Cells -> Nat], NEW chain, ChainOk(chain), NEW rule, RuleOk(rule),
         NEW S, NEW k \in DOMAIN chain.vnfs, k \notin S,
         NEW run, RunOf(given, chain, run, S, {})
  PROVE  RunOf(given, chain, PlacedNext(chain.vnfs, rule, k, run), S \cup {k}, {})
<1> DEFINE n == Choice(rule, run, chain.vnfs[k])
<1>1. run \in RunSet(chain)
  BY DEF RunOf
<1>2. n \in Hosts(run.residual, chain.vnfs[k], Nodes) \cup {NoNode}
  BY <1>1, RunFacts, ChainFacts, ChosenHosts
<1>3. PlacedNext(chain.vnfs, rule, k, run) = IF run.ok THEN Hosted(run, k, chain.vnfs[k], n) ELSE run
  BY DEF PlacedNext
<1>. HIDE DEF n
<1>4. CASE run.ok
  <2>1. RunOf(given, chain, Hosted(run, k, chain.vnfs[k], n), S \cup {k}, {})
    BY <1>2, <1>4, HostedKeeps
  <2>. QED  BY <1>3, <1>4, <2>1
<1>5. CASE ~run.ok
  <2>1. PlacedNext(chain.vnfs, rule, k, run) = run
    BY <1>3, <1>5
  <2>. QED  BY <1>1, <1>5, <2>1 DEF RunOf
<1>. QED  BY <1>4, <1>5

\* Placing the whole chain.
LEMMA PlacedIsRun ==
  ASSUME NEW given \in [Cells -> Nat], NEW chain, ChainOk(chain), NEW rule, RuleOk(rule)
  PROVE  RunOf(given, chain, Placed(given, chain.vnfs, rule), DOMAIN chain.vnfs, {})
<1> DEFINE U == DOMAIN chain.vnfs
           X == RunSet(chain)
           last == [s \in SUBSET U |-> LastPlaced(chain.vnfs, s)]
           fold == [e \in U \X X |-> PlacedNext(chain.vnfs, rule, e[1], e[2])]
           base == Start(given)
           h == CHOOSE t : PlacedTable(t, given, chain.vnfs, rule)
<1>1. IsFiniteSet(U)
  BY ChainFacts
<1>2. \A s \in SUBSET U : s # {} => last[s] \in s /\ last[s] \in U
  <2>1. \A s \in SUBSET U : s # {} => LastPlaced(chain.vnfs, s) \in s
    BY LastPlacedIn
  <2>. HIDE DEF U
  <2>. QED  BY <2>1
<1>3. base \in X /\ RunOf(given, chain, base, {}, {})
  <2>1. RunOf(given, chain, base, {}, {})
    BY StartIsRun
  <2>. HIDE DEF base
  <2>. QED  BY <2>1 DEF RunOf
<1>4. \A k \in U, run \in X : /\ PlacedNext(chain.vnfs, rule, k, run) \in X
                              /\ fold[<<k, run>>] = PlacedNext(chain.vnfs, rule, k, run)
  <2>. SUFFICES ASSUME NEW k \in U, NEW run \in X
                PROVE  /\ PlacedNext(chain.vnfs, rule, k, run) \in X
                       /\ fold[<<k, run>>] = PlacedNext(chain.vnfs, rule, k, run)
    OBVIOUS
  <2>1. PlacedNext(chain.vnfs, rule, k, run) \in X
    BY PlacedNextType
  <2>2. <<k, run>> \in U \X X
    OBVIOUS
  <2>3. fold[<<k, run>>] = PlacedNext(chain.vnfs, rule, k, run)
    <3>. HIDE DEF U, X
    <3>. QED  BY <2>2
  <2>. QED  BY <2>1, <2>3
<1>5. \E t : PlacedTable(t, given, chain.vnfs, rule)
  <2>. HIDE DEF fold, base, X
  <2>1. PICK g : IsTable(g, U, base, fold, last)
    <3>. HIDE DEF last, U
    <3>. QED  BY <1>1, <1>2, FoldTable
  <2> DEFINE Good == {s \in SUBSET U : g[s] \in X}
  <2>2. g[{}] = base /\ {} \in Good
    <3>1. g[{}] = base
      BY <2>1 DEF IsTable
    <3>. QED  BY <1>3, <3>1
  <2>3. ASSUME NEW s \in SUBSET U, s # {}, s \ {last[s]} \in Good PROVE s \in Good
    <3>1. g[s] = fold[<<last[s], g[s \ {last[s]}]>>]
      <4>. HIDE DEF last, U
      <4>. QED  BY <2>1, <2>3 DEF IsTable
    <3>2. last[s] \in U /\ g[s \ {last[s]}] \in X
      <4>. HIDE DEF last, U
      <4>. QED  BY <1>2, <2>3
    <3>. HIDE DEF last, U
    <3>3. fold[<<last[s], g[s \ {last[s]}]>>] \in X
      BY ONLY <1>4, <3>2
    <3>. QED  BY ONLY <2>3, <3>1, <3>3
  <2>4. \A s \in SUBSET U : s \in Good
    <3>. HIDE DEF Good, last, U
    <3>1. Inductive(Good, U, last)
      BY <1>2, <2>2, <2>3 DEF Inductive
    <3>. QED  BY <1>1, <3>1, SubsetInduction
  <2>5. \A s \in SUBSET U : s # {} =>
          fold[<<last[s], g[s \ {last[s]}]>>]
            = PlacedNext(chain.vnfs, rule, LastPlaced(chain.vnfs, s), g[s \ {LastPlaced(chain.vnfs, s)}])
    <3>. SUFFICES ASSUME NEW s \in SUBSET U, s # {}
                  PROVE  fold[<<last[s], g[s \ {last[s]}]>>]
                           = PlacedNext(chain.vnfs, rule, LastPlaced(chain.vnfs, s),
                                        g[s \ {LastPlaced(chain.vnfs, s)}])
      OBVIOUS
    <3>1. last[s] = LastPlaced(chain.vnfs, s)
      OBVIOUS
    <3>2. last[s] \in U /\ g[s \ {last[s]}] \in X
      <4>1. s \ {last[s]} \in SUBSET U
        OBVIOUS
      <4>. HIDE DEF last, U
      <4>. QED  BY <1>2, <2>4, <4>1
    <3>3. fold[<<last[s], g[s \ {last[s]}]>>] = PlacedNext(chain.vnfs, rule, last[s], g[s \ {last[s]}])
      <4>. HIDE DEF last, U
      <4>. QED  BY <1>4, <3>2
    <3>. HIDE DEF last, U
    <3>. QED  BY <3>1, <3>3
  <2>6. PlacedTable(g, given, chain.vnfs, rule)
    <3>1. g = [s \in SUBSET U |-> IF s = {} THEN base ELSE fold[<<last[s], g[s \ {last[s]}]>>]]
      BY <2>1 DEF IsTable
    <3>2. g = [s \in SUBSET U |-> IF s = {} THEN base
                 ELSE PlacedNext(chain.vnfs, rule, LastPlaced(chain.vnfs, s),
                                 g[s \ {LastPlaced(chain.vnfs, s)}])]
      <4>. HIDE DEF last, U
      <4>. QED  BY <2>5, <3>1
    <3>. QED  BY <3>2 DEF PlacedTable, base
  <2>. QED  BY <2>6
<1>6. PlacedTable(h, given, chain.vnfs, rule)
  BY <1>5
<1>7. Placed(given, chain.vnfs, rule) = h[U]
  BY DEF Placed, MapThenFoldSet, PlacedTable
<1>. HIDE DEF h, fold
<1> DEFINE Good == {s \in SUBSET U : RunOf(given, chain, h[s], s, {})}
<1>8. {} \in Good
  <2>1. h[{}] = base
    BY <1>6 DEF PlacedTable
  <2>. HIDE DEF base
  <2>. QED  BY <1>3, <2>1
<1>9. ASSUME NEW s \in SUBSET U, s # {}, s \ {last[s]} \in Good PROVE s \in Good
  <2> DEFINE k == LastPlaced(chain.vnfs, s)
             r == s \ {k}
  <2>1. k = last[s] /\ k \in s /\ k \in U /\ k \notin r /\ r \cup {k} = s
    <3>1. k = last[s]
      OBVIOUS
    <3>2. last[s] \in s
      <4>. HIDE DEF last, U
      <4>. QED  BY <1>2, <1>9
    <3>. QED  BY <3>1, <3>2
  <2>2. h[s] = PlacedNext(chain.vnfs, rule, k, h[r])
    BY <1>6, <1>9 DEF PlacedTable
  <2>3. RunOf(given, chain, h[r], r, {})
    <3>. HIDE DEF k, last
    <3>. QED  BY <1>9, <2>1
  <2>4. RunOf(given, chain, h[s], r \cup {k}, {})
    <3>1. k \in DOMAIN chain.vnfs /\ k \notin r
      BY <2>1
    <3>. HIDE DEF k, r
    <3>2. RunOf(given, chain, PlacedNext(chain.vnfs, rule, k, h[r]), r \cup {k}, {})
      BY <2>3, <3>1, PlacedNextKeeps
    <3>. QED  BY <2>2, <3>2
  <2>. HIDE DEF k, r
  <2>. QED  BY <2>1, <2>4
<1>10. \A s \in SUBSET U : s \in Good
  <2>. HIDE DEF Good, last, U
  <2>1. Inductive(Good, U, last)
    BY <1>2, <1>8, <1>9 DEF Inductive
  <2>. QED  BY <1>1, <2>1, SubsetInduction
<1>11. RunOf(given, chain, h[U], U, {})
  <2>. HIDE DEF U
  <2>. QED  BY <1>10
<1>. QED  BY <1>7, <1>11

LEMMA RoutedNextType ==
  ASSUME NEW chain, ChainOk(chain), NEW wide, NEW k \in DOMAIN chain.bw,
         NEW run \in RunSet(chain)
  PROVE  RoutedNext(chain.bw, wide, k, run) \in RunSet(chain)
<1> DEFINE path == PathFor(wide, run.residual, run.at[k], run.at[k + 1], chain.bw[k])
<1>1. path # <<>> => LinksOf(path) \subseteq Links
  BY PathHasRoom
<1>2. RoutedNext(chain.bw, wide, k, run) = IF run.ok THEN Taken(run, k, chain.bw[k], path) ELSE run
  BY DEF RoutedNext
<1>. HIDE DEF path
<1>3. CASE run.ok
  <2>1. Taken(run, k, chain.bw[k], path) \in RunSet(chain)
    BY <1>1, <1>3, TakenType
  <2>. QED  BY <1>2, <1>3, <2>1
<1>. QED  BY <1>2, <1>3

LEMMA RoutedNextKeeps ==
  ASSUME NEW given \in [Cells -> Nat], NEW chain, ChainOk(chain), NEW wide,
         NEW S, NEW F, NEW k \in DOMAIN chain.bw, k \notin F,
         NEW run, RunOf(given, chain, run, S, F)
  PROVE  RunOf(given, chain, RoutedNext(chain.bw, wide, k, run), S, F \cup {k})
<1> DEFINE path == PathFor(wide, run.residual, run.at[k], run.at[k + 1], chain.bw[k])
<1>1. path # <<>> => /\ LinksOf(path) \subseteq Links
                     /\ \A l \in LinksOf(path) : run.residual[l] >= chain.bw[k]
  BY PathHasRoom
<1>2. RoutedNext(chain.bw, wide, k, run) = IF run.ok THEN Taken(run, k, chain.bw[k], path) ELSE run
  BY DEF RoutedNext
<1>. HIDE DEF path
<1>3. CASE run.ok
  <2>1. RunOf(given, chain, Taken(run, k, chain.bw[k], path), S, F \cup {k})
    BY <1>1, <1>3, TakenKeeps
  <2>. QED  BY <1>2, <1>3, <2>1
<1>4. CASE ~run.ok
  <2>1. RoutedNext(chain.bw, wide, k, run) = run
    BY <1>2, <1>4
  <2>. QED  BY <1>4, <2>1 DEF RunOf
<1>. QED  BY <1>3, <1>4

\* Routing some of the flows.
LEMMA RoutedRuns ==
  ASSUME NEW chain, ChainOk(chain), NEW start \in RunSet(chain),
         NEW flows \in SUBSET DOMAIN chain.bw, NEW wide
  PROVE  /\ Routed(start, chain, flows, wide) \in RunSet(chain)
         /\ \A given \in [Cells -> Nat], S \in SUBSET DOMAIN chain.vnfs :
              RunOf(given, chain, start, S, {})
                => RunOf(given, chain, Routed(start, chain, flows, wide), S, flows)
<1> DEFINE U == flows
           X == RunSet(chain)
           last == [s \in SUBSET U |-> Max(s)]
           fold == [e \in U \X X |-> RoutedNext(chain.bw, wide, e[1], e[2])]
           h == CHOOSE t : RoutedTable(t, start, chain.bw, flows, wide)
<1>1. IsFiniteSet(U) /\ U \subseteq Int /\ U \subseteq DOMAIN chain.bw
  <2>1. \A k \in DOMAIN chain.bw : k \in Int
    BY ChainFacts
  <2>2. IsFiniteSet(DOMAIN chain.bw)
    BY ChainFacts
  <2>. QED  BY <2>1, <2>2, FS_Subset
<1>2. \A s \in SUBSET U : s # {} => last[s] \in s /\ last[s] \in U
  <2>. SUFFICES ASSUME NEW s \in SUBSET U, s # {} PROVE Max(s) \in s
    OBVIOUS
  <2>1. IsFiniteSet(s) /\ s \in SUBSET Int
    BY <1>1, FS_Subset
  <2>. QED  BY <2>1, MaxIn
<1>4. \A k \in U, run \in X : /\ RoutedNext(chain.bw, wide, k, run) \in X
                              /\ fold[<<k, run>>] = RoutedNext(chain.bw, wide, k, run)
  <2>. SUFFICES ASSUME NEW k \in U, NEW run \in X
                PROVE  /\ RoutedNext(chain.bw, wide, k, run) \in X
                       /\ fold[<<k, run>>] = RoutedNext(chain.bw, wide, k, run)
    OBVIOUS
  <2>1. RoutedNext(chain.bw, wide, k, run) \in X
    <3>1. k \in DOMAIN chain.bw
      BY <1>1
    <3>. QED  BY <3>1, RoutedNextType
  <2>2. <<k, run>> \in U \X X
    OBVIOUS
  <2>3. fold[<<k, run>>] = RoutedNext(chain.bw, wide, k, run)
    <3>. HIDE DEF U, X
    <3>. QED  BY <2>2
  <2>. QED  BY <2>1, <2>3
<1>5. \E t : RoutedTable(t, start, chain.bw, flows, wide)
  <2>. HIDE DEF fold, X
  <2>1. PICK g : IsTable(g, U, start, fold, last)
    <3>. HIDE DEF last, U
    <3>. QED  BY <1>1, <1>2, FoldTable
  <2> DEFINE Good == {s \in SUBSET U : g[s] \in X}
  <2>2. g[{}] = start /\ {} \in Good
    <3>1. g[{}] = start
      BY <2>1 DEF IsTable
    <3>. QED  BY <3>1 DEF X
  <2>3. ASSUME NEW s \in SUBSET U, s # {}, s \ {last[s]} \in Good PROVE s \in Good
    <3>1. g[s] = fold[<<last[s], g[s \ {last[s]}]>>]
      <4>. HIDE DEF last, U
      <4>. QED  BY <2>1, <2>3 DEF IsTable
    <3>2. last[s] \in U /\ g[s \ {last[s]}] \in X
      <4>. HIDE DEF last, U
      <4>. QED  BY <1>2, <2>3
    <3>. HIDE DEF last, U
    <3>3. fold[<<last[s], g[s \ {last[s]}]>>] \in X
      BY ONLY <1>4, <3>2
    <3>. QED  BY ONLY <2>3, <3>1, <3>3
  <2>4. \A s \in SUBSET U : s \in Good
    <3>. HIDE DEF Good, last, U
    <3>1. Inductive(Good, U, last)
      BY <1>2, <2>2, <2>3 DEF Inductive
    <3>. QED  BY <1>1, <3>1, SubsetInduction
  <2>5. \A s \in SUBSET U : s # {} =>
          fold[<<last[s], g[s \ {last[s]}]>>] = RoutedNext(chain.bw, wide, Max(s), g[s \ {Max(s)}])
    <3>. SUFFICES ASSUME NEW s \in SUBSET U, s # {}
                  PROVE  fold[<<last[s], g[s \ {last[s]}]>>]
                           = RoutedNext(chain.bw, wide, Max(s), g[s \ {Max(s)}])
      OBVIOUS
    <3>1. last[s] = Max(s)
      OBVIOUS
    <3>2. last[s] \in U /\ g[s \ {last[s]}] \in X
      <4>1. s \ {last[s]} \in SUBSET U
        OBVIOUS
      <4>. HIDE DEF last, U
      <4>. QED  BY <1>2, <2>4, <4>1
    <3>3. fold[<<last[s], g[s \ {last[s]}]>>] = RoutedNext(chain.bw, wide, last[s], g[s \ {last[s]}])
      <4>. HIDE DEF last, U
      <4>. QED  BY <1>4, <3>2
    <3>. HIDE DEF last, U
    <3>. QED  BY <3>1, <3>3
  <2>6. RoutedTable(g, start, chain.bw, flows, wide)
    <3>1. g = [s \in SUBSET U |-> IF s = {} THEN start ELSE fold[<<last[s], g[s \ {last[s]}]>>]]
      BY <2>1 DEF IsTable
    <3>2. g = [s \in SUBSET U |-> IF s = {} THEN start
                                  ELSE RoutedNext(chain.bw, wide, Max(s), g[s \ {Max(s)}])]
      <4>. HIDE DEF last, U
      <4>. QED  BY <2>5, <3>1
    <3>. QED  BY <3>2 DEF RoutedTable
  <2>. QED  BY <2>6
<1>6. RoutedTable(h, start, chain.bw, flows, wide)
  BY <1>5
<1>7. Routed(start, chain, flows, wide) = h[U]
  BY DEF Routed, MapThenFoldSet, RoutedTable
<1>. HIDE DEF h, fold
<1>8. /\ h[{}] = start
      /\ \A s \in SUBSET U : s # {} => h[s] = RoutedNext(chain.bw, wide, last[s], h[s \ {last[s]}])
  <2>1. h[{}] = start
    BY <1>6 DEF RoutedTable
  <2>2. \A s \in SUBSET U : s # {} => h[s] = RoutedNext(chain.bw, wide, last[s], h[s \ {last[s]}])
    BY <1>6 DEF RoutedTable
  <2>. QED  BY <2>1, <2>2
<1>. HIDE DEF last
<1>9. h[U] \in X
  <2> DEFINE Good == {s \in SUBSET U : h[s] \in X}
  <2>1. {} \in Good
    BY <1>8
  <2>2. ASSUME NEW s \in SUBSET U, s # {}, s \ {last[s]} \in Good PROVE s \in Good
    <3>1. last[s] \in U /\ h[s \ {last[s]}] \in X
      BY <1>2, <2>2
    <3>. HIDE DEF X
    <3>2. RoutedNext(chain.bw, wide, last[s], h[s \ {last[s]}]) \in X
      BY ONLY <1>4, <3>1
    <3>3. h[s] = RoutedNext(chain.bw, wide, last[s], h[s \ {last[s]}])
      BY ONLY <1>8, <2>2
    <3>. QED  BY ONLY <2>2, <3>2, <3>3
  <2>3. Inductive(Good, U, last)
    <3>. HIDE DEF Good, U
    <3>. QED  BY <1>2, <2>1, <2>2 DEF Inductive
  <2>4. \A s \in SUBSET U : s \in Good
    <3>. HIDE DEF Good, U
    <3>. QED  BY <1>1, <2>3, SubsetInduction
  <2>. HIDE DEF X
  <2>. QED  BY <2>4
<1>10. ASSUME NEW given \in [Cells -> Nat], NEW S \in SUBSET DOMAIN chain.vnfs,
              RunOf(given, chain, start, S, {})
       PROVE  RunOf(given, chain, h[U], S, U)
  <2> DEFINE Good == {s \in SUBSET U : RunOf(given, chain, h[s], S, s)}
  <2>1. {} \in Good
    BY <1>8, <1>10
  <2>2. ASSUME NEW s \in SUBSET U, s # {}, s \ {last[s]} \in Good PROVE s \in Good
    <3> DEFINE k == last[s]
               r == s \ {k}
    <3>1. k \in DOMAIN chain.bw /\ k \notin r /\ r \cup {k} = s
      <4>1. k \in s /\ k \in U
        BY <1>2, <2>2
      <4>. QED  BY <1>1, <4>1
    <3>2. h[s] = RoutedNext(chain.bw, wide, k, h[r])
      BY <1>8, <2>2
    <3>3. RunOf(given, chain, h[r], S, r)
      BY <2>2
    <3>. HIDE DEF k, r
    <3>4. RunOf(given, chain, RoutedNext(chain.bw, wide, k, h[r]), S, r \cup {k})
      BY <3>1, <3>3, RoutedNextKeeps
    <3>. QED  BY <3>1, <3>2, <3>4
  <2>3. Inductive(Good, U, last)
    <3>. HIDE DEF Good, U
    <3>. QED  BY <1>2, <2>1, <2>2 DEF Inductive
  <2>4. \A s \in SUBSET U : s \in Good
    <3>. HIDE DEF Good, U
    <3>. QED  BY <1>1, <2>3, SubsetInduction
  <2>. QED  BY <2>4
<1>. QED  BY <1>7, <1>9, <1>10

-----------------------------------------------------------------------------
(***************************************************************************)
(* The builders.                                                           *)
(***************************************************************************)
\* A plan for the whole chain: its VNFs where they are permitted, a route for
\* every flow, and room for all of it together.
PlanFor(given, chain, p) ==
  /\ p.ok = TRUE
  /\ PartOf(chain, p) /\ DOMAIN p.at = DOMAIN chain.vnfs /\ DOMAIN p.route = DOMAIN chain.bw
  /\ \A k \in DOMAIN p.at : p.at[k] \in Permitted(chain.vnfs[k])
  /\ \A c \in Cells : Use(chain, p)[c] <= given[c]

LEMMA PlanOfRun ==
  ASSUME NEW given \in [Cells -> Nat], NEW chain, ChainOk(chain),
         NEW run, RunOf(given, chain, run, DOMAIN chain.vnfs, DOMAIN chain.bw)
  PROVE  PlanOf(run) = NoPlan \/ PlanFor(given, chain, PlanOf(run))
<1> DEFINE p == PlanOf(run)
<1>1. CASE ~run.ok
  BY <1>1 DEF PlanOf
<1>2. CASE run.ok
  <2>1. p.ok = TRUE /\ p.at = run.at /\ p.route = run.route
    BY <1>2 DEF PlanOf
  <2>. HIDE DEF p
  <2>2. /\ run \in RunSet(chain) /\ DOMAIN run.at = DOMAIN chain.vnfs
        /\ DOMAIN run.route = DOMAIN chain.bw /\ Kept(given, chain, run)
    BY <1>2 DEF RunOf
  <2>3. PartOf(chain, run)
    BY <2>2, RunFacts
  <2>4. PartOf(chain, p)
    BY <2>1, <2>3 DEF PartOf
  <2>5. ASSUME NEW c \in Cells PROVE Use(chain, p)[c] <= given[c]
    <3>1. Use(chain, p) = Use(chain, run)
      BY <2>1 DEF Use
    <3>2. run.residual[c] \in Nat /\ run.residual[c] + Use(chain, run)[c] = given[c]
      BY <2>2 DEF Kept
    <3>3. Use(chain, run)[c] \in Nat /\ given[c] \in Nat
      BY <2>3, UseFacts
    <3>. QED  BY <3>1, <3>2, <3>3
  <2>6. \A k \in DOMAIN p.at : p.at[k] \in Permitted(chain.vnfs[k])
    BY <2>1, <2>2 DEF Kept
  <2>. QED  BY <2>1, <2>2, <2>4, <2>5, <2>6 DEF PlanFor, p
<1>. QED  BY <1>1, <1>2

LEMMA CompletedFits ==
  ASSUME NEW given \in [Cells -> Nat], NEW chain, ChainOk(chain), NEW rule, RuleOk(rule)
  PROVE  \/ Completed(Placed(given, chain.vnfs, rule), chain) = NoPlan
         \/ PlanFor(given, chain, Completed(Placed(given, chain.vnfs, rule), chain))
<1> DEFINE run == Placed(given, chain.vnfs, rule)
           last == Routed(run, chain, DOMAIN chain.bw, FALSE)
           S == DOMAIN chain.vnfs
<1>1. RunOf(given, chain, run, DOMAIN chain.vnfs, {})
  BY PlacedIsRun
<1>. HIDE DEF run
<1>2. run \in RunSet(chain)
  BY <1>1 DEF RunOf
<1>3. RunOf(given, chain, last, DOMAIN chain.vnfs, DOMAIN chain.bw)
  <2> DEFINE F == DOMAIN chain.bw
  <2>1. S \in SUBSET DOMAIN chain.vnfs /\ F \in SUBSET DOMAIN chain.bw /\ RunOf(given, chain, run, S, {})
    BY <1>1
  <2>. HIDE DEF F, S
  <2>2. RunOf(given, chain, Routed(run, chain, F, FALSE), S, F)
    BY <1>2, <2>1, RoutedRuns
  <2>. QED  BY <2>2 DEF F, S
<1>. HIDE DEF last
<1>4. PlanOf(last) = NoPlan \/ PlanFor(given, chain, PlanOf(last))
  BY <1>3, PlanOfRun
<1>5. Completed(run, chain) = IF run.ok THEN PlanOf(last) ELSE NoPlan
  BY DEF Completed, last
<1>6. Completed(run, chain) = NoPlan \/ PlanFor(given, chain, Completed(run, chain))
  BY <1>4, <1>5
<1>. QED  BY <1>6 DEF run

LEMMA FFDFits ==
  ASSUME NEW given \in [Cells -> Nat], NEW chain, ChainOk(chain)
  PROVE  FFD(given, chain) = NoPlan \/ PlanFor(given, chain, FFD(given, chain))
<1> DEFINE rule == [by |-> "spread"]
<1>1. RuleOk(rule)
  BY DEF RuleOk
<1>2. FFD(given, chain) = Completed(Placed(given, chain.vnfs, rule), chain)
  BY DEF FFD
<1>. HIDE DEF rule
<1>. QED  BY <1>1, <1>2, CompletedFits

LEMMA SingleDomainFits ==
  ASSUME NEW given \in [Cells -> Nat], NEW chain, ChainOk(chain), NEW d
  PROVE  \/ SingleDomain(given, chain, d) = NoPlan
         \/ PlanFor(given, chain, SingleDomain(given, chain, d))
<1> DEFINE rule == [by |-> "packed", domain |-> d]
<1>1. RuleOk(rule)
  BY DEF RuleOk
<1>2. SingleDomain(given, chain, d) = Completed(Placed(given, chain.vnfs, rule), chain)
  BY DEF SingleDomain
<1>. HIDE DEF rule
<1>. QED  BY <1>1, <1>2, CompletedFits

LEMMA PureColocationFits ==
  ASSUME NEW given \in [Cells -> Nat], NEW chain, ChainOk(chain)
  PROVE  PureColocation(given, chain) = NoPlan \/ PlanFor(given, chain, PureColocation(given, chain))
<1> DEFINE feasible == {d \in Summarised : SingleDomain(given, chain, d).ok}
<1>1. PureColocation(given, chain) = IF feasible = {} THEN NoPlan
                                     ELSE SingleDomain(given, chain, Richest(given, feasible))
  BY DEF PureColocation
<1>. QED  BY <1>1, SingleDomainFits

LEMMA ColocationFits ==
  ASSUME NEW given \in [Cells -> Nat], NEW chain, ChainOk(chain)
  PROVE  Colocation(given, chain) = NoPlan \/ PlanFor(given, chain, Colocation(given, chain))
BY PureColocationFits, FFDFits DEF Colocation, FirstOk

\* Routability-aware co-location: what its hosts take.
LEMMA RoutabilityHostsFit ==
  ASSUME NEW given \in [Cells -> Nat], NEW chain, ChainOk(chain), NEW c \in NodeCells,
         RoutabilityAware(given, chain).ok
  PROVE  /\ Use(chain, RoutabilityAware(given, chain))[c] \in Nat
         /\ Use(chain, RoutabilityAware(given, chain))[c] <= given[c]
<1> DEFINE rule == [by |-> "near", start |-> given]
           run == Placed(given, chain.vnfs, rule)
           cross == Crossing(chain, run)
           inner == Routed(run, chain, DOMAIN chain.bw \ cross, FALSE)
           from == [run EXCEPT !.residual = given]
           outer == Routed(from, chain, cross, TRUE)
           p == RoutabilityAware(given, chain)
<1>0. c \in Cells /\ c \notin Links
  BY LinksAreNoNodeCells DEF Cells
<1>1. ASSUME NEW q, q = NoPlan \/ PlanFor(given, chain, q), q.ok
      PROVE  Use(chain, q)[c] \in Nat /\ Use(chain, q)[c] <= given[c]
  <2>1. ~NoPlan.ok
    BY DEF NoPlan
  <2>2. PartOf(chain, q) /\ Use(chain, q)[c] <= given[c]
    BY <1>0, <1>1, <2>1 DEF PlanFor
  <2>. QED  BY <1>0, <2>2, UseFacts
<1>2. CASE p = PureColocation(given, chain)
  BY <1>1, <1>2, PureColocationFits
<1>3. CASE p = FFD(given, chain)
  BY <1>1, <1>3, FFDFits
<1>4. CASE /\ inner.ok /\ outer.ok /\ run.ok
           /\ p = [ok |-> TRUE, at |-> inner.at,
                   route |-> [k \in DOMAIN inner.route \cup DOMAIN outer.route |->
                                IF k \in DOMAIN outer.route THEN outer.route[k] ELSE inner.route[k]]]
  <2>1. RuleOk(rule)
    BY DEF RuleOk
  <2>2. RunOf(given, chain, run, DOMAIN chain.vnfs, {}) /\ run \in RunSet(chain)
    <3>. HIDE DEF rule
    <3>. QED  BY <2>1, PlacedIsRun DEF RunOf
  <2>. HIDE DEF run, rule
  <2>3. cross \in SUBSET DOMAIN chain.bw /\ DOMAIN chain.bw \ cross \in SUBSET DOMAIN chain.bw
    BY DEF Crossing
  <2>. HIDE DEF cross
  <2>4. /\ inner \in RunSet(chain)
        /\ RunOf(given, chain, inner, DOMAIN chain.vnfs, DOMAIN chain.bw \ cross)
    <3> DEFINE F == DOMAIN chain.bw \ cross
               S == DOMAIN chain.vnfs
    <3>1. S \in SUBSET DOMAIN chain.vnfs /\ RunOf(given, chain, run, S, {}) /\ F \in SUBSET DOMAIN chain.bw
      BY <2>2, <2>3
    <3>. HIDE DEF F, S
    <3>2. /\ Routed(run, chain, F, FALSE) \in RunSet(chain)
          /\ RunOf(given, chain, Routed(run, chain, F, FALSE), S, F)
      BY <2>2, <3>1, RoutedRuns
    <3>. QED  BY <3>2 DEF F, S
  <2>5. from \in RunSet(chain)
    <3>1. given \in [Cells -> Int]
      OBVIOUS
    <3>. QED  BY <2>2, <3>1 DEF RunSet
  <2>. HIDE DEF from
  <2>6. outer \in RunSet(chain)
    BY <2>3, <2>5, RoutedRuns
  <2>. HIDE DEF inner, outer
  <2>7. /\ p.at = inner.at
        /\ \A k \in DOMAIN p.route :
             \/ k \in DOMAIN inner.route /\ p.route[k] = inner.route[k]
             \/ k \in DOMAIN outer.route /\ p.route[k] = outer.route[k]
    <3>. HIDE DEF p
    <3>. QED  BY <1>4
  <2>. HIDE DEF p
  <2>8. PartOf(chain, inner) /\ PartOf(chain, outer)
    BY <2>4, <2>6, RunFacts
  <2>9. \A k \in DOMAIN p.route : /\ k \in DOMAIN chain.bw /\ p.route[k] \in SUBSET Links
    BY <2>7, <2>8 DEF PartOf
  <2>10. PartOf(chain, p)
    <3>1. DOMAIN p.at \subseteq DOMAIN chain.vnfs /\ \A k \in DOMAIN p.at : p.at[k] \in Nodes
      BY <2>7, <2>8 DEF PartOf
    <3>. QED  BY <2>9, <3>1 DEF PartOf
  <2>11. SumFunctionOnSet(FlowUse(chain.bw, p.route, c), DOMAIN p.route) = 0
    <3>1. \A k \in DOMAIN p.route : FlowUse(chain.bw, p.route, c)[k] = 0
      BY <1>0, <2>9 DEF FlowUse, RouteUse
    <3>2. IsFiniteSet(DOMAIN p.route)
      BY <1>0, <2>10, UseFacts
    <3>. QED  BY <3>1, <3>2, SumOfZeros
  <2> DEFINE hosts == SumFunctionOnSet(HostUse(chain.vnfs, inner.at, c), DOMAIN inner.at)
             flows == SumFunctionOnSet(FlowUse(chain.bw, inner.route, c), DOMAIN inner.route)
  <2>12. Use(chain, p)[c] = hosts + 0
    <3>1. Use(chain, p)[c] = SumFunctionOnSet(HostUse(chain.vnfs, p.at, c), DOMAIN p.at)
                             + SumFunctionOnSet(FlowUse(chain.bw, p.route, c), DOMAIN p.route)
      BY <1>0, <2>10, UseFacts
    <3>. QED  BY <2>7, <2>11, <3>1
  <2>13. Use(chain, inner)[c] = hosts + flows /\ hosts \in Nat /\ flows \in Nat
    BY <1>0, <2>8, UseFacts
  <2>14. inner.residual[c] \in Nat /\ inner.residual[c] + Use(chain, inner)[c] = given[c]
    BY <1>0, <1>4, <2>4 DEF RunOf, Kept
  <2>. HIDE DEF hosts, flows
  <2>15. Use(chain, p)[c] \in Nat /\ Use(chain, p)[c] <= given[c]
    BY <2>12, <2>13, <2>14
  <2>. QED  BY <2>15 DEF p
<1>5. p \in {PureColocation(given, chain), FFD(given, chain)} \/ p = NoPlan
        \/ /\ inner.ok /\ outer.ok /\ run.ok
           /\ p = [ok |-> TRUE, at |-> inner.at,
                   route |-> [k \in DOMAIN inner.route \cup DOMAIN outer.route |->
                                IF k \in DOMAIN outer.route THEN outer.route[k] ELSE inner.route[k]]]
  <2>1. p = FirstOk(PureColocation(given, chain), ByRoutability(given, chain, run))
    BY DEF RoutabilityAware
  <2>. HIDE DEF run, p
  <2>2. ByRoutability(given, chain, run) = IF ~run.ok THEN NoPlan ELSE Joined(inner, outer, FFD(given, chain))
    BY DEF ByRoutability
  <2>. HIDE DEF inner, outer
  <2>. QED  BY <2>1, <2>2 DEF FirstOk, Joined
<1>6. p # NoPlan
  BY DEF NoPlan
<1>. HIDE DEF inner, outer, run
<1>. QED  BY <1>2, <1>3, <1>4, <1>5, <1>6

-----------------------------------------------------------------------------
(***************************************************************************)
(* The loops.                                                              *)
(***************************************************************************)
Arrived == pos <= Len(stream) /\ Event.arrives

\* The types, and that nothing is overdrawn.
BooksInv ==
  /\ stream \in Streams /\ pos \in 1 .. Len(stream) + 1
  /\ step \in {"plain", "load", "generate", "save", "replay", "over"}
  /\ step = "plain" => job = "plain"
  /\ active = [r \in Requests |-> active[r]] /\ outcome = [r \in Requests |-> outcome[r]]
  /\ \A r \in Requests : \/ active[r] = NoPlan
                         \/ active[r].ok = TRUE /\ PartOf(Slice[r], active[r])
  /\ Free \in [Cells -> Nat]

\* A plan in hand is for the arrival in hand, and fits.
PlanInv ==
  plan # NoPlan => step = "plain" /\ Arrived /\ PlanFor(residual, Slice[Req], plan)

\* A slice that has not arrived is not on.
PendingInv ==
  /\ \A i \in pos .. Len(stream) : stream[i].arrives => outcome[stream[i].request] = "new"
  /\ \A r \in Requests : outcome[r] = "new" => active[r] = NoPlan

\* A projection takes from nodes only.
ShownInv ==
  /\ toShow # {} => snapshot # <<>>
  /\ snapshot # <<>> =>
       /\ step = "replay" /\ Arrived
       /\ residual = [c \in Cells |-> residual[c]]
       /\ \A l \in Links : residual[l] = snapshot[l]

LoopInv == BooksInv /\ PlanInv /\ PendingInv /\ ShownInv

LEMMA EventFacts ==
  ASSUME NEW s \in Streams
  PROVE  /\ Len(s) \in Nat /\ DOMAIN s = 1 .. Len(s)
         /\ \A i \in 1 .. Len(s) : s[i].request \in Requests /\ s[i].arrives \in BOOLEAN
         /\ \A i, j \in 1 .. Len(s) :
              s[i].arrives /\ s[j].arrives /\ s[i].request = s[j].request => i = j
<1> DEFINE E == [request : Requests, arrives : BOOLEAN]
<1>1. s \in Seq(E)
  BY StreamsAssumption
<1>2. Len(s) \in Nat /\ DOMAIN s = 1 .. Len(s)
  BY <1>1
<1>3. \A i \in 1 .. Len(s) : s[i] \in E
  <2>. HIDE DEF E
  <2>. QED  BY <1>1, ElementOfSeq
<1>4. \A i \in 1 .. Len(s) : s[i].request \in Requests /\ s[i].arrives \in BOOLEAN
  BY <1>3
<1>5. ASSUME NEW i \in 1 .. Len(s), NEW j \in 1 .. Len(s), s[i].arrives, s[j].arrives,
             s[i].request = s[j].request
      PROVE  i = j
  <2> DEFINE r == s[i].request
  <2>1. r \in Requests
    BY <1>4
  <2>2. PICK a \in DOMAIN s, b \in DOMAIN s :
          /\ a < b /\ s[a] = [request |-> r, arrives |-> TRUE]
          /\ s[b] = [request |-> r, arrives |-> FALSE]
          /\ \A k \in DOMAIN s : s[k].request = r => k \in {a, b}
    BY <2>1, StreamsAssumption
  <2>3. i \in {a, b} /\ j \in {a, b} /\ i # b /\ j # b
    BY <1>2, <1>5, <2>2
  <2>. QED  BY <2>3
<1>. QED  BY <1>2, <1>4, <1>5

LEMMA SlicesAreChains == ASSUME NEW r \in Requests PROVE ChainOk(Slice[r])
BY SliceAssumption DEF ChainOk

LEMMA SomeCell ==
  ASSUME NEW left \in [Cells -> Nat]
  PROVE  left # <<>>
<1>1. PICK n \in Nodes : TRUE
  BY SliceAssumption
<1>2. <<n, "cpu">> \in DOMAIN left
  BY DEF Cells, NodeCells, Kinds
<1>. QED  BY <1>2

LEMMA ReqFacts ==
  ASSUME BooksInv, Arrived
  PROVE  Req \in Requests /\ ChainOk(Slice[Req]) /\ pos \in 1 .. Len(stream) /\ Len(stream) \in Nat
<1>1. pos \in 1 .. Len(stream) /\ Len(stream) \in Nat
  BY EventFacts DEF BooksInv, Arrived
<1>2. Req \in Requests
  BY <1>1, EventFacts DEF BooksInv, Req, Event
<1>. QED  BY <1>1, <1>2, SlicesAreChains

\* The arrival in hand is settled, on what is left.
Settles(left, answer) ==
  /\ Arrived /\ Free = left
  /\ pos' = pos + 1 /\ plan' = NoPlan /\ toShow' = {} /\ snapshot' = <<>>
  /\ UNCHANGED <<job, stream, step>>
  /\ \/ /\ PlanFor(left, Slice[Req], answer)
        /\ residual' = Debited(left, Use(Slice[Req], answer))
        /\ active' = [active EXCEPT ![Req] = answer]
        /\ outcome' = [outcome EXCEPT ![Req] = "admitted"]
     \/ /\ residual' = left /\ active' = active
        /\ \E bin \in {"structural", "chain_order", "qos_gate"} :
             outcome' = [outcome EXCEPT ![Req] = bin]

LEMMA PlacedSettles ==
  ASSUME NEW left, NEW answer, answer = NoPlan \/ PlanFor(left, Slice[Req], answer),
         Arrived, Free = left, PlacedOn(left, answer),
         pos' = pos + 1, plan' = NoPlan, toShow' = {}, snapshot' = <<>>,
         UNCHANGED <<job, stream, step>>
  PROVE  Settles(left, answer)
<1>1. CASE answer.ok
  <2>1. PlanFor(left, Slice[Req], answer)
    BY <1>1 DEF NoPlan
  <2>. QED  BY <1>1, <2>1 DEF Settles, PlacedOn
<1>2. CASE ~answer.ok
  BY <1>2 DEF Settles, PlacedOn
<1>. QED  BY <1>1, <1>2

LEMMA DebitFits ==
  ASSUME NEW left \in [Cells -> Nat], NEW chain, ChainOk(chain), NEW p, PlanFor(left, chain, p)
  PROVE  /\ Debited(left, Use(chain, p)) \in [Cells -> Nat]
         /\ Use(chain, p) \in [Cells -> Nat]
         /\ \A c \in Cells : Use(chain, p)[c] <= left[c]
<1>1. PartOf(chain, p) /\ \A c \in Cells : Use(chain, p)[c] <= left[c]
  BY DEF PlanFor
<1>2. \A c \in Cells : Use(chain, p)[c] \in Nat
  BY <1>1, UseFacts
<1>3. Use(chain, p) \in [Cells -> Nat]
  <2>1. Use(chain, p) = [c \in Cells |-> Use(chain, p)[c]]
    BY DEF Use
  <2>. QED  BY <1>2, <2>1
<1>4. \A c \in Cells : left[c] - Use(chain, p)[c] \in Nat
  <2>. SUFFICES ASSUME NEW c \in Cells PROVE left[c] - Use(chain, p)[c] \in Nat
    OBVIOUS
  <2>1. left[c] \in Nat /\ Use(chain, p)[c] \in Nat /\ Use(chain, p)[c] <= left[c]
    BY <1>1, <1>2
  <2>. QED  BY <2>1
<1>5. Debited(left, Use(chain, p)) \in [Cells -> Nat]
  BY <1>4 DEF Debited
<1>. QED  BY <1>1, <1>3, <1>5

LEMMA SettlesKeeps ==
  ASSUME LoopInv, NEW answer, Settles(Free, answer)
  PROVE  LoopInv'
<1>0. /\ BooksInv /\ PlanInv /\ PendingInv /\ ShownInv /\ Arrived
      /\ Free \in [Cells -> Nat]
  BY DEF LoopInv, BooksInv, Settles
<1>1. Req \in Requests /\ ChainOk(Slice[Req]) /\ pos \in 1 .. Len(stream) /\ Len(stream) \in Nat
  BY <1>0, ReqFacts
<1>2. /\ pos' = pos + 1 /\ plan' = NoPlan /\ toShow' = {} /\ snapshot' = <<>>
      /\ job' = job /\ stream' = stream /\ step' = step
  BY DEF Settles
<1>3. PICK bin \in {"admitted", "structural", "chain_order", "qos_gate"} :
        outcome' = [outcome EXCEPT ![Req] = bin]
  BY DEF Settles
<1>4. /\ outcome' = [r \in Requests |-> outcome'[r]]
      /\ outcome'[Req] # "new" /\ \A r \in Requests : r # Req => outcome'[r] = outcome[r]
  BY <1>0, <1>1, <1>3 DEF BooksInv
<1>5. /\ active' = [r \in Requests |-> active'[r]]
      /\ \A r \in Requests : r # Req => active'[r] = active[r]
      /\ \/ active'[Req] = active[Req]
         \/ active'[Req].ok = TRUE /\ PartOf(Slice[Req], active'[Req])
  <2>1. CASE active' = [active EXCEPT ![Req] = answer] /\ PlanFor(Free, Slice[Req], answer)
    BY <1>0, <1>1, <2>1 DEF BooksInv, PlanFor
  <2>2. CASE active' = active
    <3>1. \A r \in Requests : active'[r] = active[r]
      BY <2>2
    <3>2. active = [r \in Requests |-> active[r]]
      BY <1>0 DEF BooksInv
    <3>. QED  BY ONLY <2>2, <3>1, <3>2, <1>1
  <2>. QED  BY <2>1, <2>2 DEF Settles
<1>6. Free' \in [Cells -> Nat]
  <2>1. residual' \in [Cells -> Nat]
    <3>1. CASE residual' = Free
      BY <1>0, <3>1
    <3>2. CASE PlanFor(Free, Slice[Req], answer) /\ residual' = Debited(Free, Use(Slice[Req], answer))
      BY <1>0, <1>1, <3>2, DebitFits
    <3>. QED  BY <3>1, <3>2 DEF Settles
  <2>2. Free' = residual'
    BY <1>2 DEF Free
  <2>. QED  BY <2>1, <2>2
<1>7. BooksInv'
  <2>1. stream' \in Streams /\ pos' \in 1 .. Len(stream') + 1
    BY <1>0, <1>1, <1>2 DEF BooksInv
  <2>2. /\ step' \in {"plain", "load", "generate", "save", "replay", "over"}
        /\ step' = "plain" => job' = "plain"
    BY <1>0, <1>2 DEF BooksInv
  <2>3. \A r \in Requests :
          \/ active'[r] = NoPlan
          \/ active'[r].ok = TRUE /\ PartOf(Slice[r], active'[r])
    BY <1>0, <1>5 DEF BooksInv
  <2>. QED  BY <1>4, <1>5, <1>6, <2>1, <2>2, <2>3 DEF BooksInv
<1>8. PendingInv'
  <2>1. ASSUME NEW i \in pos' .. Len(stream'), stream'[i].arrives
        PROVE  outcome'[stream'[i].request] = "new"
    <3>1. i \in pos .. Len(stream) /\ i \in 1 .. Len(stream) /\ i # pos /\ stream[i].arrives
      BY <1>1, <1>2, <2>1
    <3>2. stream[i].request \in Requests /\ outcome[stream[i].request] = "new"
      BY <1>0, <3>1, EventFacts DEF BooksInv, PendingInv
    <3>3. stream[i].request # Req
      BY <1>0, <1>1, <3>1, EventFacts DEF BooksInv, Arrived, Req, Event
    <3>. QED  BY <1>2, <1>4, <3>2, <3>3
  <2>2. ASSUME NEW r \in Requests, outcome'[r] = "new" PROVE active'[r] = NoPlan
    BY <1>0, <1>4, <1>5, <2>2 DEF PendingInv
  <2>. QED  BY <2>1, <2>2 DEF PendingInv
<1>. QED  BY <1>2, <1>7, <1>8 DEF LoopInv, PlanInv, ShownInv

\* First-fit answers the arrival in hand.
LEMMA FirstFitSettles ==
  ASSUME LoopInv, Arrived, NEW left, Free = left, Greedy(left),
         pos' = pos + 1, plan' = NoPlan, toShow' = {}, snapshot' = <<>>,
         UNCHANGED <<job, stream, step>>
  PROVE  Settles(Free, FFD(left, Slice[Req]))
<1> DEFINE answer == FFD(left, Slice[Req])
<1>1. BooksInv
  BY DEF LoopInv
<1>2. Req \in Requests /\ ChainOk(Slice[Req]) /\ left \in [Cells -> Nat]
  BY <1>1, ReqFacts DEF BooksInv
<1>3. answer = NoPlan \/ PlanFor(left, Slice[Req], answer)
  BY <1>2, FFDFits
<1>4. PlacedOn(left, answer)
  BY DEF Greedy
<1>. HIDE DEF answer
<1>5. Settles(Free, answer)
  BY <1>3, <1>4, PlacedSettles
<1>. QED  BY <1>5 DEF answer

\* A projection leaves nothing behind.
LEMMA ProjectionRestores ==
  ASSUME LoopInv, snapshot # <<>>
  PROVE  Restored(residual) = Free
<1>1. Free = snapshot /\ snapshot \in [Cells -> Nat]
  BY DEF LoopInv, BooksInv, Free
<1>2. \A c \in Cells : c \notin NodeCells => residual[c] = snapshot[c]
  BY DEF LoopInv, ShownInv, Cells
<1>3. Restored(residual) = [c \in Cells |-> snapshot[c]]
  BY <1>2 DEF Restored
<1>. QED  BY <1>1, <1>3

\* The steps that settle an arrival.
Settling ==
  \/ Plan /\ plan' = NoPlan
  \/ RejectChainOrder \/ RejectGate \/ Admit
  \/ Demonstrate \/ ReplayRejection \/ FinishProjection

LEMMA SettlingSettles ==
  ASSUME LoopInv, Settling
  PROVE  \E answer : Settles(Free, answer)
<1>0. snapshot # <<>> => step = "replay" /\ Arrived
  BY DEF LoopInv, ShownInv
<1>00. toShow # {} => snapshot # <<>>
  BY DEF LoopInv, ShownInv
<1>01. plan # NoPlan => step = "plain" /\ Arrived /\ PlanFor(residual, Slice[Req], plan)
  BY DEF LoopInv, PlanInv
<1>1. CASE Plan /\ plan' = NoPlan
  <2>1. Arrived /\ snapshot = <<>> /\ toShow = {}
    BY <1>1 DEF Plan, Arriving, Arrived
  <2>2. /\ outcome' = [outcome EXCEPT ![Req] = "structural"] /\ pos' = pos + 1
    BY <1>1 DEF Plan, Answered, NoPlan
  <2>3. Settles(Free, NoPlan)
    BY <1>1, <2>1, <2>2 DEF Plan, Settles, Free
  <2>. QED  BY <2>3
<1>2. CASE RejectChainOrder \/ RejectGate
  <2>1. plan # NoPlan
    BY <1>2 DEF RejectChainOrder, RejectGate, NoPlan
  <2>2. Arrived /\ snapshot = <<>> /\ toShow = {}
    BY <1>0, <1>00, <1>01, <2>1
  <2>3. Settles(Free, NoPlan)
    BY <1>2, <2>2 DEF RejectChainOrder, RejectGate, Turned, Settles, Free
  <2>. QED  BY <2>3
<1>3. CASE Admit
  <2>1. plan # NoPlan
    BY <1>3 DEF Admit, NoPlan
  <2>2. /\ Arrived /\ snapshot = <<>> /\ toShow = {} /\ Free = residual
        /\ PlanFor(residual, Slice[Req], plan)
    BY <1>0, <1>00, <1>01, <2>1 DEF Free
  <2>3. Settles(Free, plan)
    BY <1>3, <2>2 DEF Admit, Turned, Allocate, Settles
  <2>. QED  BY <2>3
<1>4. CASE Demonstrate
  <2>1. /\ Arrived /\ snapshot = <<>> /\ toShow = {} /\ Free = residual /\ plan = NoPlan
    BY <1>4 DEF Demonstrate, Arriving, Arrived, Free
  <2>2. /\ Greedy(residual) /\ pos' = pos + 1 /\ plan' = NoPlan /\ toShow' = {} /\ snapshot' = <<>>
        /\ UNCHANGED <<job, stream, step>>
    BY <1>4, <2>1 DEF Demonstrate
  <2>. QED  BY <2>1, <2>2, FirstFitSettles
<1>5. CASE ReplayRejection
  <2>1. /\ Arrived /\ snapshot = <<>> /\ toShow = {} /\ Free = residual /\ plan = NoPlan
    BY <1>5 DEF ReplayRejection, Arriving, Arrived, Free
  <2>2. /\ Greedy(residual) /\ pos' = pos + 1 /\ plan' = NoPlan /\ toShow' = {} /\ snapshot' = <<>>
        /\ UNCHANGED <<job, stream, step>>
    BY <1>5, <2>1 DEF ReplayRejection
  <2>. QED  BY <2>1, <2>2, FirstFitSettles
<1>6. CASE FinishProjection
  <2>1. Arrived /\ snapshot # <<>> /\ toShow = {} /\ plan = NoPlan
    BY <1>0, <1>01, <1>6 DEF FinishProjection
  <2>2. Greedy(Restored(residual)) /\ Free = Restored(residual)
    BY <1>6, <2>1, ProjectionRestores DEF FinishProjection
  <2>3. /\ pos' = pos + 1 /\ plan' = NoPlan /\ toShow' = {} /\ snapshot' = <<>>
        /\ UNCHANGED <<job, stream, step>>
    BY <1>6, <2>1 DEF FinishProjection
  <2>. QED  BY <2>1, <2>2, <2>3, FirstFitSettles
<1>. QED  BY <1>1, <1>2, <1>3, <1>4, <1>5, <1>6 DEF Settling

LEMMA DepartKeeps ==
  ASSUME LoopInv, Depart
  PROVE  LoopInv'
<1>0. BooksInv /\ PlanInv /\ PendingInv /\ ShownInv
  BY DEF LoopInv
<1>1. /\ pos <= Len(stream) /\ ~Event.arrives /\ Departure(Req) /\ pos' = pos + 1
      /\ UNCHANGED <<job, stream, step, plan, outcome, toShow, snapshot>>
  BY DEF Depart
<1>2. plan = NoPlan /\ snapshot = <<>> /\ toShow = {}
  BY <1>0, <1>1 DEF PlanInv, ShownInv, Arrived
<1>3. pos \in 1 .. Len(stream) /\ Len(stream) \in Nat /\ Req \in Requests /\ ChainOk(Slice[Req])
  <2>1. pos \in 1 .. Len(stream) /\ Len(stream) \in Nat
    BY <1>0, <1>1, EventFacts DEF BooksInv
  <2>2. Req \in Requests
    BY <1>0, <2>1, EventFacts DEF BooksInv, Req, Event
  <2>. QED  BY <2>1, <2>2, SlicesAreChains
<1>4. residual \in [Cells -> Nat]
  BY <1>0, <1>2 DEF BooksInv, Free
<1>5. residual' \in [Cells -> Nat]
  <2>1. CASE active[Req].ok
    <3>1. residual' = Credited(residual, Use(Slice[Req], active[Req]))
      BY <1>1, <2>1 DEF Departure
    <3>2. PartOf(Slice[Req], active[Req])
      BY <1>0, <1>3, <2>1 DEF BooksInv, NoPlan
    <3>3. \A c \in Cells : residual[c] + Use(Slice[Req], active[Req])[c] \in Nat
      BY <1>3, <1>4, <3>2, UseFacts
    <3>. QED  BY <3>1, <3>3 DEF Credited
  <2>2. CASE ~active[Req].ok
    BY <1>1, <1>4, <2>2 DEF Departure
  <2>. QED  BY <2>1, <2>2
<1>6. /\ active' = [r \in Requests |-> active'[r]]
      /\ \A r \in Requests : active'[r] = active[r] \/ active'[r] = NoPlan
  <2>1. CASE active' = [active EXCEPT ![Req] = NoPlan]
    BY <1>0, <1>3, <2>1 DEF BooksInv
  <2>2. CASE active' = active
    <3>1. \A r \in Requests : active'[r] = active[r]
      BY <2>2
    <3>2. active = [r \in Requests |-> active[r]]
      BY <1>0 DEF BooksInv
    <3>. QED  BY ONLY <2>2, <3>1, <3>2
  <2>. QED  BY <1>1, <2>1, <2>2 DEF Departure
<1>7. BooksInv'
  <2>1. Free' = residual'
    BY <1>1, <1>2 DEF Free
  <2>2. pos' \in 1 .. Len(stream') + 1
    BY <1>1, <1>3
  <2>3. outcome' = [r \in Requests |-> outcome'[r]]
    <3>1. outcome = [r \in Requests |-> outcome[r]] /\ outcome' = outcome
      BY <1>0, <1>1 DEF BooksInv
    <3>. QED  BY ONLY <3>1
  <2>4. \A r \in Requests :
           \/ active'[r] = NoPlan
           \/ active'[r].ok = TRUE /\ PartOf(Slice[r], active'[r])
    BY <1>0, <1>6 DEF BooksInv
  <2>. QED  BY <1>0, <1>1, <1>5, <1>6, <2>1, <2>2, <2>3, <2>4 DEF BooksInv
<1>8. PendingInv'
  <2>1. ASSUME NEW i \in pos' .. Len(stream'), stream'[i].arrives
        PROVE  outcome'[stream'[i].request] = "new"
    BY <1>0, <1>1, <1>3, <2>1 DEF PendingInv
  <2>2. ASSUME NEW r \in Requests, outcome'[r] = "new" PROVE active'[r] = NoPlan
    BY <1>0, <1>1, <1>6, <2>2 DEF PendingInv
  <2>. QED  BY <2>1, <2>2 DEF PendingInv
<1>. QED  BY <1>1, <1>2, <1>7, <1>8 DEF LoopInv, PlanInv, ShownInv

LEMMA StartOverKeeps ==
  ASSUME stream \in Streams, plan' = NoPlan, stream' = stream,
         step' \in {"load", "generate", "save", "replay", "over"}, StartOver
  PROVE  LoopInv'
<1>1. /\ pos' = 1 /\ residual' = Capacity /\ active' = Off /\ outcome' = Fresh
      /\ toShow' = {} /\ snapshot' = <<>>
  BY DEF StartOver
<1>2. Free' \in [Cells -> Nat]
  BY <1>1, TopologyAssumption DEF Free
<1>3. Len(stream) \in Nat /\ \A i \in 1 .. Len(stream) : stream[i].request \in Requests
  BY EventFacts
<1>4. BooksInv'
  <2>1. \A r \in Requests : active'[r] = NoPlan
    BY <1>1 DEF Off
  <2>2. active' = [r \in Requests |-> active'[r]] /\ outcome' = [r \in Requests |-> outcome'[r]]
    BY <1>1 DEF Off, Fresh
  <2>3. pos' \in 1 .. Len(stream') + 1 /\ step' # "plain"
    BY <1>1, <1>3
  <2>. QED  BY <1>2, <2>1, <2>2, <2>3 DEF BooksInv
<1>5. PendingInv'
  BY <1>1, <1>3 DEF PendingInv, Off, Fresh
<1>. QED  BY <1>1, <1>4, <1>5 DEF LoopInv, PlanInv, ShownInv

LEMMA LaunchKeeps ==
  ASSUME LoopInv, Load \/ WriteFile \/ Kill
  PROVE  LoopInv'
<1>1. stream \in Streams /\ stream' = stream /\ StartOver
  BY DEF LoopInv, BooksInv, Load, WriteFile, Kill
<1>2. step # "plain"
  BY DEF LoopInv, BooksInv, Load, WriteFile, Kill
<1>3. plan' = NoPlan
  BY <1>2 DEF LoopInv, PlanInv, Load, WriteFile, Kill
<1>4. step' \in {"load", "generate", "save", "replay", "over"}
  BY DEF Load, WriteFile, Kill, ReplayOf
<1>. QED  BY <1>1, <1>3, <1>4, StartOverKeeps

\* The steps of which the ledger shows nothing.
Quiet ==
  \/ Plan /\ plan' # NoPlan
  \/ OpenFile \/ StartProjection \/ Show

LEMMA QuietFacts ==
  ASSUME LoopInv, Quiet
  PROVE  /\ Free' = Free
         /\ UNCHANGED <<job, stream, pos, active, outcome>>
<1>0. /\ BooksInv /\ ShownInv
      /\ snapshot # <<>> => Free = snapshot
      /\ snapshot = <<>> => Free = residual
  BY DEF LoopInv, Free
<1>1. CASE Plan /\ plan' # NoPlan
  BY <1>1 DEF Plan, Arriving, Answered, Free
<1>2. CASE OpenFile
  BY <1>2 DEF OpenFile, Free
<1>3. CASE StartProjection
  <2>1. snapshot = <<>> /\ snapshot' = residual /\ UNCHANGED <<job, stream, pos, active, outcome>>
    BY <1>3 DEF StartProjection, Arriving
  <2>2. residual # <<>>
    BY <1>0, <2>1, SomeCell DEF BooksInv
  <2>. QED  BY <2>1, <2>2 DEF Free
<1>4. CASE Show
  BY <1>0, <1>4 DEF Show, ShownInv, Free
<1>. QED  BY <1>1, <1>2, <1>3, <1>4 DEF Quiet

LEMMA QuietKeeps ==
  ASSUME LoopInv, Quiet
  PROVE  LoopInv'
<1>0. BooksInv /\ PlanInv /\ PendingInv /\ ShownInv
  BY DEF LoopInv
<1>1. Free' = Free /\ UNCHANGED <<job, stream, pos, active, outcome>>
  BY QuietFacts
<1>2. PendingInv'
  BY <1>0, <1>1 DEF PendingInv
<1>3. /\ step' \in {"plain", "load", "generate", "save", "replay", "over"}
      /\ step' = "plain" => step = "plain"
  BY <1>0 DEF BooksInv, Quiet, Plan, OpenFile, StartProjection, Show
<1>4. BooksInv'
  BY <1>0, <1>1, <1>3 DEF BooksInv
<1>5. PlanInv' /\ ShownInv'
  <2>1. CASE Plan /\ plan' # NoPlan
    <3>1. /\ Arrived /\ plan = NoPlan /\ snapshot = <<>> /\ toShow = {}
          /\ UNCHANGED <<step, stream, pos, residual, toShow, snapshot>> /\ step = "plain"
      BY <1>1, <2>1 DEF Plan, Arriving, Arrived
    <3>2. plan' = Colocation(residual, Slice[Req])
      BY <2>1, <3>1 DEF Plan, Answered
    <3>3. residual \in [Cells -> Nat] /\ Req \in Requests /\ ChainOk(Slice[Req])
      BY <1>0, <3>1, ReqFacts DEF BooksInv, Free
    <3>4. PlanFor(residual, Slice[Req], plan')
      <4>1. \/ Colocation(residual, Slice[Req]) = NoPlan
            \/ PlanFor(residual, Slice[Req], Colocation(residual, Slice[Req]))
        BY <3>3, ColocationFits
      <4>. QED  BY <2>1, <3>2, <4>1
    <3>5. Req' = Req /\ Arrived'
      BY <3>1 DEF Req, Event, Arrived
    <3>6. PlanFor(residual, Slice[Req], plan)'
      BY <3>1, <3>4, <3>5 DEF PlanFor
    <3>. QED  BY <3>1, <3>5, <3>6 DEF PlanInv, ShownInv
  <2>2. CASE OpenFile
    <3>1. step = "generate" /\ UNCHANGED <<plan, toShow, snapshot>>
      BY <2>2 DEF OpenFile
    <3>. QED  BY <1>0, <3>1 DEF PlanInv, ShownInv
  <2>3. CASE StartProjection
    <3>1. /\ Arrived /\ plan' = NoPlan /\ step' = "replay" /\ snapshot' = residual /\ residual' = residual
          /\ snapshot = <<>> /\ UNCHANGED <<stream, pos>>
      BY <2>3 DEF StartProjection, Arriving, Arrived
    <3>2. residual \in [Cells -> Nat]
      BY <1>0, <3>1 DEF BooksInv, Free
    <3>3. residual # <<>>
      BY <3>2, SomeCell
    <3>4. Arrived' /\ plan' = NoPlan
      BY <3>1 DEF Arrived, Event
    <3>5. residual' = [c \in Cells |-> residual'[c]] /\ \A l \in Links : residual'[l] = snapshot'[l]
      BY <3>1, <3>2
    <3>. QED  BY <3>1, <3>3, <3>4, <3>5 DEF PlanInv, ShownInv
  <2>4. CASE Show
    <3>1. toShow # {} /\ snapshot # <<>> /\ snapshot' = snapshot /\ UNCHANGED <<stream, pos, step, plan>>
      BY <1>0, <2>4 DEF Show, ShownInv
    <3>2. step = "replay" /\ Arrived /\ Arrived' /\ plan' = NoPlan
      BY <1>0, <3>1 DEF ShownInv, PlanInv, Arrived, Event
    <3>3. snapshot \in [Cells -> Nat] /\ \A l \in Links : residual[l] = snapshot[l] /\ l \in Cells
      BY <1>0, <3>1 DEF BooksInv, Free, ShownInv, Cells
    <3>4. PICK k : residual' = Debited(residual, NodeUse(samples[Req].at[k], samples[Req].vnfs[k]))
      BY <2>4 DEF Show
    <3>5. residual' = [c \in Cells |-> residual'[c]]
      BY <3>4 DEF Debited
    <3>6. ASSUME NEW l \in Links PROVE residual'[l] = snapshot'[l]
      <4>1. l \in Cells /\ residual[l] = snapshot[l] /\ snapshot[l] \in Nat
        BY <3>3
      <4>2. l \notin NodeCells
        BY LinksAreNoNodeCells
      <4> DEFINE use == NodeUse(samples[Req].at[k], samples[Req].vnfs[k])
      <4>3. use[l] = 0
        <5>1. l # <<samples[Req].at[k], "cpu">> /\ l # <<samples[Req].at[k], "ram">>
          BY TopologyAssumption DEF Kinds
        <5>. QED  BY <4>1, <5>1 DEF NodeUse
      <4>4. residual'[l] = residual[l] - use[l]
        BY <3>4, <4>1 DEF Debited
      <4>. HIDE DEF use
      <4>. QED  BY <3>1, <4>1, <4>3, <4>4
    <3>. QED  BY <3>1, <3>2, <3>5, <3>6 DEF PlanInv, ShownInv
  <2>. QED  BY <2>1, <2>2, <2>3, <2>4 DEF Quiet
<1>. QED  BY <1>2, <1>4, <1>5 DEF LoopInv

LEMMA LoopInit == Init => LoopInv
<1>. SUFFICES ASSUME Init PROVE LoopInv
  OBVIOUS
<1>1. /\ stream \in Streams /\ pos = 1 /\ residual = Capacity /\ active = Off /\ plan = NoPlan
      /\ outcome = Fresh /\ toShow = {} /\ snapshot = <<>>
      /\ step = IF job = "plain" THEN "plain" ELSE "load"
  BY DEF Init
<1>2. Free \in [Cells -> Nat]
  BY <1>1, TopologyAssumption DEF Free
<1>3. Len(stream) \in Nat /\ \A i \in 1 .. Len(stream) : stream[i].request \in Requests
  BY <1>1, EventFacts
<1>4. BooksInv
  <2>1. active = [r \in Requests |-> active[r]] /\ outcome = [r \in Requests |-> outcome[r]]
    BY <1>1 DEF Off, Fresh
  <2>2. pos \in 1 .. Len(stream) + 1
    BY <1>1, <1>3
  <2>3. \A r \in Requests : active[r] = NoPlan
    BY <1>1 DEF Off
  <2>. QED  BY <1>1, <1>2, <2>1, <2>2, <2>3 DEF BooksInv
<1>5. PendingInv
  BY <1>1, <1>3 DEF PendingInv, Off, Fresh
<1>. QED  BY <1>1, <1>4, <1>5 DEF LoopInv, PlanInv, ShownInv

LEMMA LoopStep == LoopInv /\ [Next]_vars => LoopInv'
<1>. SUFFICES ASSUME LoopInv, [Next]_vars PROVE LoopInv'
  OBVIOUS
<1>1. CASE Settling
  BY <1>1, SettlingSettles, SettlesKeeps
<1>2. CASE Depart
  BY <1>2, DepartKeeps
<1>3. CASE Load \/ WriteFile \/ Kill
  BY <1>3, LaunchKeeps
<1>4. CASE Quiet
  BY <1>4, QuietKeeps
<1>5. CASE UNCHANGED vars
  BY <1>5 DEF vars, LoopInv, BooksInv, PlanInv, PendingInv, ShownInv, Free, Arrived, Event, Req,
              PlanFor
<1>. QED  BY <1>1, <1>2, <1>3, <1>4, <1>5 DEF Next, Settling, Quiet

\* The books of both loops: whatever the order of events, and however often the
\* process is killed, nothing is overdrawn, a slice is on with a plan for all it
\* has placed only after it arrived, a plan in hand fits what is left, and a
\* projection takes from nodes only.
THEOREM LoopInvHolds == Spec => []LoopInv
<1>1. LoopInv /\ [Next]_vars => LoopInv'
  BY LoopStep
<1>. QED  BY <1>1, LoopInit, PTL DEF Spec

\* Whenever a builder is asked in a loop, the plan it calls feasible fits, all
\* VNFs and flows together, what the substrate has left; of a routability-aware
\* plan the hosts do.
THEOREM SuggestionsAlwaysFit == Spec => []SuggestionsFit
<1>1. LoopInv => SuggestionsFit
  <2>. SUFFICES ASSUME LoopInv, Arriving, step \in {"plain", "generate"}
                PROVE  /\ \A p \in {FFD(residual, Slice[Req]), PureColocation(residual, Slice[Req])} :
                            Fits(Cells, p)
                       /\ Fits(NodeCells, RoutabilityAware(residual, Slice[Req]))
    BY DEF SuggestionsFit
  <2> DEFINE chain == Slice[Req]
  <2>1. BooksInv /\ Arrived /\ snapshot = <<>>
    BY DEF LoopInv, Arriving, Arrived
  <2>2. residual \in [Cells -> Nat] /\ ChainOk(chain)
    BY <2>1, ReqFacts DEF BooksInv, Free
  <2>3. ASSUME NEW p, p = NoPlan \/ PlanFor(residual, chain, p) PROVE Fits(Cells, p)
    <3>. SUFFICES ASSUME p.ok PROVE ~OverAllocated(Debited(residual, Use(chain, p)), Cells)
      BY DEF Fits
    <3>1. PlanFor(residual, chain, p)
      BY <2>3 DEF NoPlan
    <3>2. Debited(residual, Use(chain, p)) \in [Cells -> Nat]
      BY <2>2, <3>1, DebitFits
    <3>. QED  BY <3>2 DEF OverAllocated
  <2>4. Fits(NodeCells, RoutabilityAware(residual, chain))
    <3> DEFINE p == RoutabilityAware(residual, chain)
               use == Use(chain, p)
    <3>. SUFFICES ASSUME p.ok PROVE ~OverAllocated(Debited(residual, use), NodeCells)
      BY DEF Fits
    <3>1. ASSUME NEW c \in NodeCells PROVE ~(Debited(residual, use)[c] < 0)
      <4>1. c \in Cells
        BY DEF Cells
      <4>2. use[c] \in Nat /\ use[c] <= residual[c]
        BY <2>2, RoutabilityHostsFit
      <4>3. Debited(residual, use)[c] = residual[c] - use[c] /\ residual[c] \in Nat
        BY <2>2, <4>1 DEF Debited
      <4>. HIDE DEF use
      <4>. QED  BY <4>2, <4>3
    <3>. QED  BY <3>1 DEF OverAllocated
  <2>. QED  BY <2>2, <2>3, <2>4, FFDFits, PureColocationFits
<1>. QED  BY <1>1, LoopInvHolds, PTL

\* What the gate adds up for a plan is what allocation takes.
LEMMA OwnLoadIsUse ==
  ASSUME NEW r \in Requests, NEW p, PartOf(Slice[r], p), NEW c \in Cells
  PROVE  OwnLoad(r, p)[c] = Use(Slice[r], p)[c]
<1> DEFINE chain == Slice[r]
           hosts == HostUse(chain.vnfs, p.at, c)
           flows == FlowUse(chain.bw, p.route, c)
<1>0. ChainOk(chain)
  BY SlicesAreChains
<1>. HIDE DEF chain
<1>1. PartOf(chain, p)
  BY DEF chain
<1>2. /\ IsFiniteSet(DOMAIN p.at) /\ IsFiniteSet(DOMAIN p.route)
      /\ \A k \in DOMAIN p.at : hosts[k] \in Nat
      /\ \A k \in DOMAIN p.route : flows[k] \in Nat
      /\ SumFunctionOnSet(hosts, DOMAIN p.at) \in Nat
      /\ SumFunctionOnSet(flows, DOMAIN p.route) \in Nat
      /\ Use(chain, p)[c] = SumFunctionOnSet(hosts, DOMAIN p.at) + SumFunctionOnSet(flows, DOMAIN p.route)
  BY <1>0, <1>1, UseFacts
<1>3. CASE c \in Links
  <2> DEFINE R == {k \in DOMAIN p.route : c \in p.route[k]}
  <2>1. OwnLoad(r, p)[c] = SumFunctionOnSet(chain.bw, R)
    BY <1>3 DEF OwnLoad, chain
  <2>2. \A k \in DOMAIN p.at : hosts[k] = 0
    <3>1. \A n : c # <<n, "cpu">> /\ c # <<n, "ram">>
      BY <1>3, TopologyAssumption DEF Kinds
    <3>. QED  BY <3>1 DEF HostUse, NodeUse
  <2>3. \A k \in R : chain.bw[k] = flows[k]
    BY DEF FlowUse, RouteUse
  <2>4. \A k \in DOMAIN p.route \ R : flows[k] = 0
    BY DEF FlowUse, RouteUse
  <2>5. R \in SUBSET DOMAIN p.route
    OBVIOUS
  <2>. HIDE DEF R, hosts, flows
  <2>6. SumFunctionOnSet(flows, DOMAIN p.route) = SumFunctionOnSet(chain.bw, R)
    BY <1>2, <2>3, <2>4, <2>5, SumsEqual
  <2>7. SumFunctionOnSet(hosts, DOMAIN p.at) = 0
    BY <1>2, <2>2, SumOfZeros
  <2>8. Use(chain, p)[c] = 0 + SumFunctionOnSet(flows, DOMAIN p.route)
    BY <1>2, <2>7
  <2>9. Use(chain, p)[c] = SumFunctionOnSet(flows, DOMAIN p.route)
    BY <1>2, <2>8
  <2>. QED  BY <2>1, <2>6, <2>9 DEF chain
<1>4. CASE c \notin Links
  <2>1. PICK n \in Nodes, q \in {"cpu", "ram"} : c = <<n, q>>
    BY <1>4 DEF Cells, NodeCells, Kinds
  <2> DEFINE taken == [k \in DOMAIN p.at |-> chain.vnfs[k][q]]
             R == {k \in DOMAIN p.at : p.at[k] = n}
  <2>2. OwnLoad(r, p)[c] = SumFunctionOnSet(taken, R)
    BY <1>4, <2>1 DEF OwnLoad, chain
  <2>3. \A k \in DOMAIN p.route : flows[k] = 0
    BY <1>1, <1>4 DEF FlowUse, RouteUse, PartOf
  <2>4. /\ \A k \in R : taken[k] = hosts[k]
        /\ \A k \in DOMAIN p.at \ R : hosts[k] = 0
    BY <2>1 DEF HostUse, NodeUse
  <2>5. R \in SUBSET DOMAIN p.at
    OBVIOUS
  <2>. HIDE DEF R, hosts, flows, taken
  <2>6. SumFunctionOnSet(hosts, DOMAIN p.at) = SumFunctionOnSet(taken, R)
    BY <1>2, <2>4, <2>5, SumsEqual
  <2>7. SumFunctionOnSet(flows, DOMAIN p.route) = 0
    BY <1>2, <2>3, SumOfZeros
  <2>8. Use(chain, p)[c] = SumFunctionOnSet(hosts, DOMAIN p.at) + 0
    BY <1>2, <2>7
  <2>9. Use(chain, p)[c] = SumFunctionOnSet(hosts, DOMAIN p.at)
    BY <1>2, <2>8
  <2>. QED  BY <2>2, <2>6, <2>9 DEF chain
<1>. QED  BY <1>3, <1>4

\* The gate foresees the verifier: what it adds up before allocation is what
\* allocation takes, a builder's plan overdraws nothing, and so the two agree on
\* the constraints that are left, C7 and C9.
THEOREM GateAlwaysIsVerifier == Spec => []GateIsVerifier
<1>1. LoopInv => GateIsVerifier
  <2>. SUFFICES ASSUME LoopInv, step = "plain", plan.ok
                PROVE  LET found_after == Violated(Debited(residual, Use(Slice[Req], plan)), Req, plan)
                           reason == Reason(Req, plan)
                       IN  /\ (reason = "none") <=> (found_after = {})
                           /\ reason # "none" => reason \in found_after
    BY DEF GateIsVerifier
  <2> DEFINE after == Debited(residual, Use(Slice[Req], plan))
             left == Debited(residual, OwnLoad(Req, plan))
             found_after == Violated(after, Req, plan)
             reason == Reason(Req, plan)
             late == SaturatedAt(after, plan) \/ DelayAt(after, Req, plan) > Slice[Req].maxDelay
             far == InterLinks(plan) > HopLimit
  <2>1. BooksInv /\ Arrived /\ snapshot = <<>> /\ PlanFor(residual, Slice[Req], plan)
    BY DEF LoopInv, PlanInv, ShownInv, NoPlan
  <2>2. residual \in [Cells -> Nat] /\ Req \in Requests /\ ChainOk(Slice[Req])
    BY <2>1, ReqFacts DEF BooksInv, Free
  <2>3. left = after
    <3>1. \A c \in Cells : OwnLoad(Req, plan)[c] = Use(Slice[Req], plan)[c]
      BY <2>1, <2>2, OwnLoadIsUse DEF PlanFor
    <3>. QED  BY <3>1 DEF Debited
  <2>4. after \in [Cells -> Nat]
    BY <2>1, <2>2, DebitFits
  <2>5. reason = IF far THEN "C9" ELSE IF late THEN "C7" ELSE "none"
    <3>1. reason = IF far THEN "C9"
                   ELSE IF SaturatedAt(left, plan) \/ DelayAt(left, Req, plan) > Slice[Req].maxDelay
                        THEN "C7" ELSE "none"
      BY DEF Reason
    <3>. HIDE DEF after, left, reason, far
    <3>. QED  BY <2>3, <3>1
  <2>. HIDE DEF after, left, reason
  <2>6. /\ ~OverAllocated(after, Nodes \X {"cpu"}) /\ ~OverAllocated(after, Nodes \X {"ram"})
        /\ ~OverAllocated(after, Links)
    BY <2>4 DEF OverAllocated, Cells, NodeCells, Kinds
  <2>7. found_after = {v \in {"C2", "C3", "C5", "C7", "C9"} : (v = "C7" /\ late) \/ (v = "C9" /\ far)}
    BY <2>6 DEF Violated
  <2>. HIDE DEF late, far, found_after
  <2>8. /\ (reason = "none") <=> (found_after = {})
        /\ reason # "none" => reason \in found_after
    BY <2>5, <2>7
  <2>. QED  BY <2>8 DEF found_after, reason, after
<1>. QED  BY <1>1, LoopInvHolds, PTL

-----------------------------------------------------------------------------
(***************************************************************************)
(* The loops implement the ledger.                                          *)
(***************************************************************************)
LEMMA LedgerInit == Init => Ledger!Init
<1>. SUFFICES ASSUME Init PROVE Ledger!Init
  OBVIOUS
<1>1. residual = Capacity /\ active = Off /\ outcome = Fresh /\ snapshot = <<>>
  BY DEF Init
<1>2. Free = Capacity /\ Held = [r \in Requests |-> Ledger!None] /\ Phase = [r \in Requests |-> "new"]
  BY <1>1 DEF Free, Held, Phase, Off, Fresh, NoPlan, Nothing, Ledger!None
<1>. QED  BY <1>2 DEF Ledger!Init

\* Who is neither settled nor departs stays as it was.
LEMMA LedgerOthers ==
  ASSUME NEW r \in Requests,
         \A s \in Requests : s # r => active'[s] = active[s] /\ outcome'[s] = outcome[s]
  PROVE  /\ Held' = [Held EXCEPT ![r] = Held'[r]]
         /\ Phase' = [Phase EXCEPT ![r] = Phase'[r]]
<1>1. \A s \in Requests : s # r => Held'[s] = Held[s] /\ Phase'[s] = Phase[s]
  BY DEF Held, Phase
<1>2. /\ DOMAIN Held = Requests /\ DOMAIN Phase = Requests
      /\ Held' = [s \in Requests |-> Held'[s]] /\ Phase' = [s \in Requests |-> Phase'[s]]
  BY DEF Held, Phase
<1>. HIDE DEF Held, Phase
<1>. QED  BY <1>1, <1>2

LEMMA LedgerSettles ==
  ASSUME LoopInv, NEW answer, Settles(Free, answer)
  PROVE  \E r \in Requests : Ledger!Admit(r) \/ Ledger!Refuse(r)
<1>0. BooksInv /\ PendingInv /\ Arrived /\ Free \in [Cells -> Nat]
  BY DEF LoopInv, BooksInv, Settles
<1>1. Req \in Requests /\ ChainOk(Slice[Req]) /\ pos \in 1 .. Len(stream) /\ Len(stream) \in Nat
  BY <1>0, ReqFacts
<1>2. outcome[Req] = "new" /\ active[Req] = NoPlan
  <2>1. stream[pos].arrives /\ pos \in pos .. Len(stream)
    BY <1>0, <1>1 DEF Arrived, Event
  <2>. QED  BY <1>0, <1>1, <2>1 DEF PendingInv, Req, Event
<1>3. Phase[Req] = "new" /\ Free' = residual'
  BY <1>1, <1>2 DEF Phase, NoPlan, Free, Settles
<1>4. DOMAIN active = Requests /\ DOMAIN outcome = Requests
  BY <1>0 DEF BooksInv
<1>5. CASE /\ PlanFor(Free, Slice[Req], answer)
           /\ residual' = Debited(Free, Use(Slice[Req], answer))
           /\ active' = [active EXCEPT ![Req] = answer]
           /\ outcome' = [outcome EXCEPT ![Req] = "admitted"]
  <2>1. Held'[Req] = Use(Slice[Req], answer) /\ Phase'[Req] = "on"
    BY <1>1, <1>4, <1>5 DEF Held, Phase, PlanFor
  <2>2. /\ Use(Slice[Req], answer) \in [Cells -> Nat]
        /\ \A c \in Cells : Use(Slice[Req], answer)[c] <= Free[c]
    BY <1>0, <1>1, <1>5, DebitFits
  <2>3. Held' = [Held EXCEPT ![Req] = Held'[Req]] /\ Phase' = [Phase EXCEPT ![Req] = "on"]
    BY <1>1, <1>4, <1>5, <2>1, LedgerOthers
  <2>4. Free' = [c \in Cells |-> Free[c] - Held'[Req][c]]
    BY <1>3, <1>5, <2>1 DEF Debited
  <2>. HIDE DEF Free, Held, Phase
  <2>5. Ledger!Admit(Req)
    BY <1>3, <2>1, <2>2, <2>3, <2>4 DEF Ledger!Admit
  <2>. QED  BY <1>1, <2>5
<1>6. CASE /\ residual' = Free /\ active' = active
           /\ \E bin \in {"structural", "chain_order", "qos_gate"} :
                outcome' = [outcome EXCEPT ![Req] = bin]
  <2>1. Phase'[Req] = "off"
    BY <1>1, <1>2, <1>4, <1>6 DEF Phase, NoPlan
  <2>2. Phase' = [Phase EXCEPT ![Req] = "off"]
    BY <1>1, <1>4, <1>6, <2>1, LedgerOthers
  <2>3. Free' = Free /\ Held' = Held
    BY <1>3, <1>6 DEF Held
  <2>. HIDE DEF Free, Held, Phase
  <2>4. Ledger!Refuse(Req)
    BY <1>3, <2>2, <2>3 DEF Ledger!Refuse
  <2>. QED  BY <1>1, <2>4
<1>. QED  BY <1>5, <1>6 DEF Settles

LEMMA LedgerDepart ==
  ASSUME LoopInv, Depart
  PROVE  (\E r \in Requests : Ledger!Depart(r)) \/ UNCHANGED Ledger!vars
<1>0. BooksInv /\ PendingInv /\ ShownInv
  BY DEF LoopInv
<1>1. /\ pos <= Len(stream) /\ ~Event.arrives /\ Departure(Req)
      /\ outcome' = outcome /\ snapshot = <<>> /\ snapshot' = <<>>
  BY <1>0 DEF Depart, ShownInv, Arrived
<1>2. Free = residual /\ Free' = residual'
  BY <1>1 DEF Free
<1>3. CASE active[Req].ok
  <2>1. Req \in Requests
    <3>1. pos \in 1 .. Len(stream)
      BY <1>0, <1>1, EventFacts DEF BooksInv
    <3>. QED  BY <1>0, <3>1, EventFacts DEF BooksInv, Req, Event
  <2>2. /\ residual' = Credited(residual, Use(Slice[Req], active[Req]))
        /\ active' = [active EXCEPT ![Req] = NoPlan]
    BY <1>1, <1>3 DEF Departure
  <2>3. outcome[Req] # "new" /\ DOMAIN active = Requests
    BY <1>0, <1>3, <2>1 DEF PendingInv, BooksInv, NoPlan
  <2>4. Phase[Req] = "on" /\ Phase'[Req] = "off" /\ Held'[Req] = Ledger!None
    BY <1>1, <1>3, <2>1, <2>2, <2>3 DEF Phase, Held, NoPlan, Nothing, Ledger!None
  <2>5. Phase' = [Phase EXCEPT ![Req] = "off"] /\ Held' = [Held EXCEPT ![Req] = Ledger!None]
    BY <1>1, <2>1, <2>2, <2>3, <2>4, LedgerOthers
  <2>6. Free' = [c \in Cells |-> Free[c] + Held[Req][c]]
    BY <1>2, <1>3, <2>1, <2>2 DEF Held, Credited
  <2>. HIDE DEF Free, Held, Phase
  <2>7. Ledger!Depart(Req)
    BY <2>4, <2>5, <2>6 DEF Ledger!Depart
  <2>. QED  BY <2>1, <2>7
<1>4. CASE ~active[Req].ok
  <2>1. UNCHANGED <<residual, active, outcome>>
    BY <1>1, <1>4 DEF Departure
  <2>. QED  BY <1>2, <2>1 DEF Ledger!vars, Held, Phase
<1>. QED  BY <1>3, <1>4

LEMMA LedgerReset ==
  ASSUME StartOver
  PROVE  Ledger!Reset
<1>1. residual' = Capacity /\ active' = Off /\ outcome' = Fresh /\ snapshot' = <<>>
  BY DEF StartOver
<1>2. /\ Free' = Capacity /\ Held' = [r \in Requests |-> Ledger!None]
      /\ Phase' = [r \in Requests |-> "new"]
  BY <1>1 DEF Free, Held, Phase, Off, Fresh, NoPlan, Nothing, Ledger!None
<1>. QED  BY <1>2 DEF Ledger!Reset

LEMMA LedgerStep == LoopInv /\ [Next]_vars => [Ledger!Next]_Ledger!vars
<1>. SUFFICES ASSUME LoopInv, [Next]_vars PROVE [Ledger!Next]_Ledger!vars
  OBVIOUS
<1>1. CASE Settling
  BY <1>1, SettlingSettles, LedgerSettles DEF Ledger!Next
<1>2. CASE Depart
  BY <1>2, LedgerDepart DEF Ledger!Next
<1>3. CASE Load \/ WriteFile \/ Kill
  BY <1>3, LedgerReset DEF Ledger!Next, Load, WriteFile, Kill
<1>4. CASE Quiet
  <2>1. Free' = Free /\ UNCHANGED <<active, outcome>>
    BY <1>4, QuietFacts
  <2>. QED  BY <2>1 DEF Ledger!vars, Held, Phase
<1>5. CASE UNCHANGED vars
  BY <1>5 DEF vars, Ledger!vars, Free, Held, Phase
<1>. QED  BY <1>1, <1>2, <1>3, <1>4, <1>5 DEF Next, Settling, Quiet

\* Whatever the loop and however often it is killed, the substrate is a ledger:
\* a slice takes its whole use at once and never more than is free, its
\* departure gives back exactly that, once, and a projection leaves nothing
\* behind.
THEOREM LoopsImplementLedger == Spec => LedgerKept
<1>1. LoopInv /\ [Next]_vars => [Ledger!Next]_Ledger!vars
  BY LedgerStep
<1>. QED  BY <1>1, LedgerInit, LoopInvHolds, PTL DEF Spec, LedgerKept, Ledger!Spec

-----------------------------------------------------------------------------
(***************************************************************************)
(* First-fit on a stream of events: the residuals and the slices that are   *)
(* on before each of them.                                                  *)
(***************************************************************************)
Opening == [residual |-> Capacity, active |-> Off]

After(event, sub) ==
  LET r == event.request
      answer == FFD(sub.residual, Slice[r])
  IN  IF event.arrives
      THEN IF answer.ok
           THEN [residual |-> Debited(sub.residual, Use(Slice[r], answer)),
                 active |-> [sub.active EXCEPT ![r] = answer]]
           ELSE sub
      ELSE IF sub.active[r].ok
           THEN [residual |-> Credited(sub.residual, Use(Slice[r], sub.active[r])),
                 active |-> [sub.active EXCEPT ![r] = NoPlan]]
           ELSE sub

Traces(t, s, n) == t[1] = Opening /\ \A i \in 1 .. n - 1 : t[i + 1] = After(s[i], t[i])
Trace(s) == CHOOSE t : Traces(t, s, Len(s) + 1)

LEMMA TraceExists ==
  ASSUME NEW s \in Streams
  PROVE  Traces(Trace(s), s, Len(s) + 1)
<1> DEFINE N == Len(s) + 1
           Bad == {n \in 1 .. N : ~ \E t : Traces(t, s, n)}
<1>1. N \in Nat /\ N \in 1 .. N
  BY EventFacts
<1>2. CASE Bad = {}
  <2>1. \E t : Traces(t, s, N)
    <3>. HIDE DEF N
    <3>. QED  BY <1>1, <1>2
  <2>. QED  BY <2>1 DEF Trace
<1>3. CASE Bad # {}
  <2>. HIDE DEF N
  <2>1. Bad \in SUBSET Int /\ IsFiniteSet(Bad)
    <3>1. Bad \subseteq 1 .. N /\ 1 \in Int /\ N \in Int
      BY <1>1
    <3>2. IsFiniteSet(1 .. N)
      BY <3>1, FS_Interval
    <3>3. 1 .. N \subseteq Int
      OBVIOUS
    <3>. HIDE DEF Bad
    <3>. QED  BY <3>1, <3>2, <3>3, FS_Subset
  <2> DEFINE n == Min(Bad)
  <2>2. n \in Bad /\ \A m \in Bad : n <= m
    <3>. HIDE DEF Bad
    <3>. QED  BY <1>3, <2>1, MinOfInts
  <2>. HIDE DEF n
  <2>3. n \in 1 .. N /\ n \in Int /\ ~ \E t : Traces(t, s, n)
    BY <1>1, <2>2
  <2>4. CASE n = 1
    <3>1. Traces([k \in {1} |-> Opening], s, 1)
      BY DEF Traces
    <3>. QED  BY <2>3, <2>4, <3>1
  <2>5. CASE n # 1
    <3>1. n - 1 \in 1 .. N /\ n - 1 \notin Bad
      <4>1. n - 1 \in 1 .. N /\ ~(n <= n - 1)
        BY <1>1, <2>3, <2>5
      <4>. QED  BY <2>2, <4>1
    <3>2. PICK t : Traces(t, s, n - 1)
      BY <3>1
    <3> DEFINE u == [k \in 1 .. n |-> IF k = n THEN After(s[n - 1], t[n - 1]) ELSE t[k]]
    <3>3. u[1] = Opening
      BY <2>3, <2>5, <3>2 DEF Traces
    <3>4. ASSUME NEW i \in 1 .. n - 1 PROVE u[i + 1] = After(s[i], u[i])
      <4>1. i \in 1 .. n /\ i + 1 \in 1 .. n /\ u[i] = t[i]
        BY <2>3
      <4>2. CASE i = n - 1
        <5>1. u[i + 1] = After(s[n - 1], t[n - 1])
          BY <2>3, <4>1, <4>2
        <5>. HIDE DEF u
        <5>. QED  BY <4>1, <4>2, <5>1
      <4>3. CASE i # n - 1
        <5>1. i + 1 # n /\ i \in 1 .. (n - 1) - 1
          BY <2>3, <4>3
        <5>2. u[i + 1] = t[i + 1]
          BY <4>1, <5>1
        <5>3. t[i + 1] = After(s[i], t[i])
          BY <3>2, <5>1 DEF Traces
        <5>. HIDE DEF u
        <5>. QED  BY <4>1, <5>2, <5>3
      <4>. QED  BY <4>2, <4>3
    <3>. HIDE DEF u
    <3>5. Traces(u, s, n)
      BY <3>3, <3>4 DEF Traces
    <3>. QED  BY <2>3, <3>5
  <2>. QED  BY <2>4, <2>5
<1>. QED  BY <1>2, <1>3

\* When a request arrives, what first-fit answers then, and the requests before
\* an event that it has a placement for.
ArrivalOf(s, r) == CHOOSE j \in 1 .. Len(s) : s[j].arrives /\ s[j].request = r
Answer(s, r) == FFD(Trace(s)[ArrivalOf(s, r)].residual, Slice[r])
Demonstrated(s, i) == {r \in Requests : ArrivalOf(s, r) < i /\ Answer(s, r).ok}

LEMMA ArrivalFacts ==
  ASSUME NEW s \in Streams
  PROVE  /\ \A r \in Requests : ArrivalOf(s, r) \in 1 .. Len(s)
         /\ \A i \in 1 .. Len(s) : s[i].arrives => ArrivalOf(s, s[i].request) = i
         /\ \A i \in 1 .. Len(s), r \in Requests :
              ArrivalOf(s, r) = i => s[i].arrives /\ s[i].request = r
<1>1. ASSUME NEW r \in Requests
      PROVE  /\ ArrivalOf(s, r) \in 1 .. Len(s)
             /\ s[ArrivalOf(s, r)].arrives /\ s[ArrivalOf(s, r)].request = r
  <2>1. PICK a \in DOMAIN s : s[a] = [request |-> r, arrives |-> TRUE]
    BY StreamsAssumption
  <2>2. a \in 1 .. Len(s) /\ s[a].arrives /\ s[a].request = r
    BY <2>1, EventFacts
  <2>. QED  BY <2>2 DEF ArrivalOf
<1>2. ASSUME NEW i \in 1 .. Len(s), s[i].arrives PROVE ArrivalOf(s, s[i].request) = i
  <2>1. s[i].request \in Requests
    BY EventFacts
  <2>. QED  BY <1>1, <1>2, <2>1, EventFacts
<1>. QED  BY <1>1, <1>2

LEMMA DemonstratedNext ==
  ASSUME NEW s \in Streams, NEW i \in 1 .. Len(s)
  PROVE  /\ Demonstrated(s, 1) = {}
         /\ Demonstrated(s, i) \subseteq Demonstrated(s, i + 1)
         /\ Demonstrated(s, i + 1) \subseteq Demonstrated(s, Len(s) + 1)
         /\ ~s[i].arrives => Demonstrated(s, i + 1) = Demonstrated(s, i)
         /\ s[i].arrives =>
              Demonstrated(s, i + 1) = Demonstrated(s, i) \cup {r \in {s[i].request} : Answer(s, r).ok}
<1>1. Len(s) \in Nat /\ s[i].request \in Requests
  BY EventFacts
<1>2. \A r \in Requests : ArrivalOf(s, r) \in 1 .. Len(s) /\ ArrivalOf(s, r) \in Int
  BY <1>1, ArrivalFacts
<1>3. \A r \in Requests : ArrivalOf(s, r) < i + 1 <=> ArrivalOf(s, r) < i \/ ArrivalOf(s, r) = i
  BY <1>1, <1>2
<1>4. \A r \in Requests : ArrivalOf(s, r) = i <=> s[i].arrives /\ s[i].request = r
  BY ArrivalFacts
<1>5. Demonstrated(s, 1) = {}
  BY <1>1, <1>2 DEF Demonstrated
<1>6. \A r \in Requests : ArrivalOf(s, r) < i + 1 => ArrivalOf(s, r) < Len(s) + 1
  BY <1>1, <1>2
<1>7. Demonstrated(s, i + 1) \subseteq Demonstrated(s, Len(s) + 1)
  BY <1>6 DEF Demonstrated
<1>8. Demonstrated(s, i) \subseteq Demonstrated(s, i + 1)
  BY <1>3 DEF Demonstrated
<1>9. ~s[i].arrives => Demonstrated(s, i + 1) = Demonstrated(s, i)
  BY <1>3, <1>4 DEF Demonstrated
<1>10. s[i].arrives =>
         Demonstrated(s, i + 1) = Demonstrated(s, i) \cup {r \in {s[i].request} : Answer(s, r).ok}
  BY <1>1, <1>3, <1>4 DEF Demonstrated
<1>. QED  BY <1>5, <1>7, <1>8, <1>9, <1>10

-----------------------------------------------------------------------------
(***************************************************************************)
(* Generation and replay go through that trace.                             *)
(***************************************************************************)
OnTrace ==
  /\ Free = Trace(stream)[pos].residual /\ active = Trace(stream)[pos].active
  /\ \A r \in Requests :
       active[r].ok => r \in Demonstrated(stream, pos) /\ active[r] = Answer(stream, r)

TraceInv ==
  /\ step \in {"generate", "replay"} => OnTrace
  /\ \A r \in DOMAIN found : found[r] = Trace(stream)[ArrivalOf(stream, r)].residual

\* The demonstrations of the requests that arrive before event i.
Demonstration(r) == [vnfs |-> Slice[r].vnfs, at |-> Answer(stream, r).at]

Demonstrates(content, i) ==
  /\ DOMAIN content = Demonstrated(stream, i)
  /\ \A r \in DOMAIN content : content[r] = Demonstration(r)
  /\ Demonstrated(stream, i) \subseteq DOMAIN found

\* A file of older code may hold anything.
DataInv ==
  /\ step = "generate" => Demonstrates(samples, pos)
  /\ step = "save" => Demonstrates(samples, Len(stream) + 1)
  /\ step = "replay" /\ ByThisCode => Demonstrates(samples, Len(stream) + 1)
  /\ ByThisCode /\ file.hash = Here => Demonstrates(file.samples, Len(stream) + 1)

\* What is shown of a sample has been taken from the nodes.
ProjectionInv ==
  snapshot # <<>> /\ ByThisCode =>
    /\ Req \in DOMAIN samples /\ toShow \subseteq DOMAIN samples[Req].at
    /\ \A c \in NodeCells :
         /\ residual[c] \in Int
         /\ residual[c] + SumFunctionOnSet(HostUse(Slice[Req].vnfs, samples[Req].at, c),
                                           DOMAIN samples[Req].at \ toShow)
              = snapshot[c]

CloneInv == LoopInv /\ TraceInv /\ DataInv /\ ProjectionInv

LEMMA TraceStep ==
  ASSUME BooksInv, pos <= Len(stream)
  PROVE  Trace(stream)[pos + 1] = After(Event, Trace(stream)[pos])
<1>1. pos \in 1 .. (Len(stream) + 1) - 1
  BY EventFacts DEF BooksInv
<1>2. Traces(Trace(stream), stream, Len(stream) + 1)
  BY TraceExists DEF BooksInv
<1>. QED  BY <1>1, <1>2 DEF Traces, Event

\* The arrival in hand meets the residuals of the trace.
LEMMA ArrivalOnTrace ==
  ASSUME BooksInv, OnTrace, Arrived
  PROVE  /\ ArrivalOf(stream, Req) = pos
         /\ Free = Trace(stream)[ArrivalOf(stream, Req)].residual
         /\ Answer(stream, Req) = FFD(Free, Slice[Req])
<1>1. pos \in 1 .. Len(stream)
  BY ReqFacts
<1>2. ArrivalOf(stream, Req) = pos
  BY <1>1, ArrivalFacts DEF BooksInv, Arrived, Req, Event
<1>. QED  BY <1>2 DEF OnTrace, Answer

LEMMA GreedyWalks ==
  ASSUME BooksInv, OnTrace, Arrived, Greedy(Free),
         pos' = pos + 1, stream' = stream, snapshot' = <<>>
  PROVE  OnTrace'
<1> DEFINE answer == FFD(Free, Slice[Req])
           sub == Trace(stream)[pos]
           next == Trace(stream)[pos + 1]
<1>1. pos <= Len(stream) /\ Event.arrives /\ Free = sub.residual /\ active = sub.active
  BY DEF Arrived, OnTrace
<1>2. next = After(Event, sub)
  BY <1>1, TraceStep
<1>3. Free' = residual'
  BY DEF Free
<1>4. PlacedOn(Free, answer)
  BY DEF Greedy
<1>5. /\ Req \in Requests /\ pos \in 1 .. Len(stream) /\ Answer(stream, Req) = answer
      /\ DOMAIN active = Requests /\ stream \in Streams
  BY ReqFacts, ArrivalOnTrace DEF BooksInv
<1>6. Demonstrated(stream, pos + 1) =
        Demonstrated(stream, pos) \cup {r \in {Req} : Answer(stream, r).ok}
  BY <1>1, <1>5, DemonstratedNext DEF Req, Event
<1>7. CASE answer.ok
  <2>1. next = [residual |-> Debited(sub.residual, Use(Slice[Req], answer)),
                active |-> [sub.active EXCEPT ![Req] = answer]]
    BY <1>1, <1>2, <1>7 DEF After, Req
  <2>2. residual' = Debited(Free, Use(Slice[Req], answer)) /\ active' = [active EXCEPT ![Req] = answer]
    BY <1>4, <1>7 DEF PlacedOn
  <2>. HIDE DEF answer
  <2>3. residual' = next.residual /\ active' = next.active
    BY <1>1, <2>1, <2>2
  <2>4. ASSUME NEW r \in Requests, active'[r].ok
        PROVE  r \in Demonstrated(stream, pos + 1) /\ active'[r] = Answer(stream, r)
    <3>1. CASE r = Req
      BY <1>5, <1>6, <1>7, <2>2, <3>1
    <3>2. CASE r # Req
      <4>1. active'[r] = active[r]
        BY <1>5, <2>2, <3>2
      <4>. QED  BY <1>6, <2>4, <4>1 DEF OnTrace
    <3>. QED  BY <3>1, <3>2
  <2>. QED  BY <1>3, <2>3, <2>4 DEF OnTrace
<1>8. CASE ~answer.ok
  <2>1. next = sub
    BY <1>1, <1>2, <1>8 DEF After, Req
  <2>2. residual' = Free /\ active' = active
    BY <1>4, <1>8 DEF PlacedOn
  <2>3. \A r \in Requests :
          active'[r].ok => r \in Demonstrated(stream, pos + 1) /\ active'[r] = Answer(stream, r)
    BY <1>6, <2>2 DEF OnTrace
  <2>. QED  BY <1>1, <1>3, <2>1, <2>2, <2>3 DEF OnTrace
<1>. QED  BY <1>7, <1>8

LEMMA DepartWalks ==
  ASSUME BooksInv, OnTrace, Depart, snapshot = <<>>
  PROVE  OnTrace'
<1> DEFINE sub == Trace(stream)[pos]
           next == Trace(stream)[pos + 1]
<1>1. /\ pos <= Len(stream) /\ ~Event.arrives /\ Free = sub.residual /\ active = sub.active
      /\ pos' = pos + 1 /\ stream' = stream /\ snapshot' = <<>> /\ Departure(Req)
  BY DEF Depart, OnTrace
<1>2. next = After(Event, sub)
  BY <1>1, TraceStep
<1>3. Free' = residual' /\ Free = residual
  BY <1>1 DEF Free
<1>5. /\ Req \in Requests /\ pos \in 1 .. Len(stream) /\ DOMAIN active = Requests /\ stream \in Streams
  <2>1. pos \in 1 .. Len(stream) /\ stream \in Streams
    BY <1>1, EventFacts DEF BooksInv
  <2>. QED  BY <2>1, EventFacts DEF BooksInv, Req, Event
<1>6. Demonstrated(stream, pos + 1) = Demonstrated(stream, pos)
  BY <1>1, <1>5, DemonstratedNext DEF Event
<1>7. CASE active[Req].ok
  <2>1. next = [residual |-> Credited(sub.residual, Use(Slice[Req], sub.active[Req])),
                active |-> [sub.active EXCEPT ![Req] = NoPlan]]
    BY <1>1, <1>2, <1>7 DEF After, Req
  <2>2. /\ residual' = Credited(Free, Use(Slice[Req], active[Req]))
        /\ active' = [active EXCEPT ![Req] = NoPlan]
    BY <1>1, <1>3, <1>7 DEF Departure
  <2>3. residual' = next.residual /\ active' = next.active
    BY <1>1, <2>1, <2>2
  <2>4. ASSUME NEW r \in Requests, active'[r].ok
        PROVE  r \in Demonstrated(stream, pos + 1) /\ active'[r] = Answer(stream, r)
    <3>1. r # Req
      BY <1>5, <2>2, <2>4 DEF NoPlan
    <3>2. active'[r] = active[r]
      BY <1>5, <2>2, <3>1
    <3>. QED  BY <1>6, <2>4, <3>2 DEF OnTrace
  <2>. QED  BY <1>1, <1>3, <2>3, <2>4 DEF OnTrace
<1>8. CASE ~active[Req].ok
  <2>1. next = sub
    BY <1>1, <1>2, <1>8 DEF After, Req
  <2>2. residual' = residual /\ active' = active
    BY <1>1, <1>8 DEF Departure
  <2>3. \A r \in Requests :
          active'[r].ok => r \in Demonstrated(stream, pos + 1) /\ active'[r] = Answer(stream, r)
    BY <1>6, <2>2 DEF OnTrace
  <2>. QED  BY <1>1, <1>3, <2>1, <2>2, <2>3 DEF OnTrace
<1>. QED  BY <1>7, <1>8

LEMMA OpeningOnTrace ==
  ASSUME stream \in Streams, stream' = stream, StartOver
  PROVE  OnTrace'
<1>1. pos' = 1 /\ residual' = Capacity /\ active' = Off /\ snapshot' = <<>>
  BY DEF StartOver
<1>2. Trace(stream)[1] = [residual |-> Capacity, active |-> Off]
  BY TraceExists DEF Traces, Opening
<1>3. Free' = Capacity
  BY <1>1 DEF Free
<1>. QED  BY <1>1, <1>2, <1>3 DEF OnTrace, Off, NoPlan

\* The steps that leave the trace, the dataset and its residuals alone.
LEMMA PlainKeeps ==
  ASSUME CloneInv, Plan \/ RejectChainOrder \/ RejectGate \/ Admit
  PROVE  TraceInv' /\ DataInv' /\ ProjectionInv'
<1>1. step = "plain" /\ UNCHANGED <<stream, step, file, samples, snapshot, found>>
  BY DEF Plan, RejectChainOrder, RejectGate, Admit, Turned
<1>2. snapshot = <<>>
  BY <1>1 DEF CloneInv, LoopInv, ShownInv
<1>. QED  BY <1>1, <1>2 DEF CloneInv, TraceInv, DataInv, ProjectionInv, Demonstrates, Demonstration,
                            ByThisCode

LEMMA LaunchKeepsData ==
  ASSUME CloneInv, Load \/ WriteFile \/ Kill
  PROVE  TraceInv' /\ DataInv' /\ ProjectionInv'
<1>1. stream \in Streams /\ stream' = stream /\ StartOver /\ found' = found
  BY DEF CloneInv, LoopInv, BooksInv, Load, WriteFile, Kill
<1>2. pos' = 1 /\ snapshot' = <<>> /\ OnTrace'
  BY <1>1, OpeningOnTrace DEF StartOver
<1>3. TraceInv' /\ ProjectionInv'
  BY <1>1, <1>2 DEF CloneInv, TraceInv, ProjectionInv
<1>4. CASE Load
  <2>1. file' = file /\ step' \in {"generate", "replay", "over"}
    BY <1>4 DEF Load, ReplayOf
  <2>2. CASE Current
    <3>1. samples' = file.samples /\ step' # "generate"
      BY <1>4, <2>2 DEF Load, ReplayOf
    <3>2. ByThisCode => Demonstrates(file.samples, Len(stream) + 1)
      BY <2>2 DEF CloneInv, DataInv, Current
    <3>3. file' = file /\ file.hash = Here /\ step' # "save" /\ ByThisCode' = ByThisCode
      BY <2>1, <2>2 DEF Current, ByThisCode
    <3>. QED  BY <1>1, <1>3, <3>1, <3>2, <3>3 DEF DataInv, Demonstrates, Demonstration
  <2>3. CASE ~Current
    <3>1. samples' = <<>> /\ step' = "generate"
      BY <1>4, <2>3 DEF Load
    <3>2. Demonstrated(stream, 1) = {}
      <4>1. ASSUME NEW r \in Requests PROVE ~(ArrivalOf(stream, r) < 1)
        <5>1. ArrivalOf(stream, r) \in 1 .. Len(stream) /\ Len(stream) \in Nat
          BY <1>1, ArrivalFacts, EventFacts
        <5>. QED  BY <5>1
      <4>. QED  BY <4>1 DEF Demonstrated
    <3>3. DOMAIN <<>> = {}
      OBVIOUS
    <3>. QED  BY <1>1, <1>2, <1>3, <2>1, <2>3, <3>1, <3>2, <3>3
              DEF DataInv, Demonstrates, Current, ByThisCode
  <2>. QED  BY <2>2, <2>3
<1>5. CASE WriteFile
  <2>1. /\ step = "save" /\ file' = Dataset(Here, Now, samples) /\ samples' = samples
        /\ step' \in {"replay", "over"}
    BY <1>5 DEF WriteFile, ReplayOf
  <2>2. Demonstrates(samples, Len(stream) + 1)
    BY <2>1 DEF CloneInv, DataInv
  <2>3. file'.samples = samples
    BY <2>1 DEF Dataset
  <2>. QED  BY <1>1, <1>3, <2>1, <2>2, <2>3 DEF DataInv, Demonstrates, Demonstration
<1>6. CASE Kill
  <2>1. step' = "load" /\ file' = file
    BY <1>6 DEF Kill
  <2>. QED  BY <1>1, <1>3, <2>1 DEF CloneInv, DataInv, Demonstrates, Demonstration, ByThisCode
<1>. QED  BY <1>3, <1>4, <1>5, <1>6

LEMMA OpenFileKeeps ==
  ASSUME CloneInv, OpenFile
  PROVE  TraceInv' /\ DataInv' /\ ProjectionInv'
<1>1. /\ step = "generate" /\ pos > Len(stream) /\ file' = Torn /\ step' = "save"
      /\ UNCHANGED <<stream, samples, snapshot, found>>
  BY DEF OpenFile
<1>2. snapshot = <<>> /\ Demonstrates(samples, pos)
  BY <1>1 DEF CloneInv, LoopInv, ShownInv, DataInv
<1>3. pos = Len(stream) + 1
  BY <1>1, EventFacts DEF CloneInv, LoopInv, BooksInv
<1>4. file'.state # "whole"
  BY <1>1 DEF Torn
<1>. QED  BY <1>1, <1>2, <1>3, <1>4 DEF CloneInv, TraceInv, DataInv, ProjectionInv, Demonstrates,
                                        Demonstration, ByThisCode

LEMMA DepartKeepsData ==
  ASSUME CloneInv, Depart
  PROVE  TraceInv' /\ DataInv' /\ ProjectionInv'
<1>1. /\ UNCHANGED <<stream, step, samples, file, snapshot, found>> /\ pos' = pos + 1
      /\ pos <= Len(stream) /\ ~Event.arrives
  BY DEF Depart
<1>2. snapshot = <<>> /\ BooksInv
  BY <1>1 DEF CloneInv, LoopInv, ShownInv, Arrived
<1>3. step \in {"generate", "replay"} => OnTrace'
  BY <1>2, DepartWalks DEF CloneInv, TraceInv
<1>4. Demonstrated(stream, pos + 1) = Demonstrated(stream, pos)
  <2>1. pos \in 1 .. Len(stream) /\ stream \in Streams
    BY <1>1, <1>2, EventFacts DEF BooksInv
  <2>. QED  BY <1>1, <2>1, DemonstratedNext DEF Event
<1>5. TraceInv' /\ ProjectionInv'
  BY <1>1, <1>2, <1>3 DEF CloneInv, TraceInv, ProjectionInv
<1>6. DataInv'
  BY <1>1, <1>4 DEF CloneInv, DataInv, Demonstrates, Demonstration, ByThisCode
<1>. QED  BY <1>5, <1>6

LEMMA ReplayKeeps ==
  ASSUME CloneInv, ReplayRejection \/ FinishProjection
  PROVE  TraceInv' /\ DataInv' /\ ProjectionInv'
<1>1. /\ UNCHANGED <<stream, step, samples, file, found>> /\ pos' = pos + 1 /\ snapshot' = <<>>
      /\ step = "replay" /\ Arrived /\ BooksInv /\ OnTrace
  BY DEF ReplayRejection, FinishProjection, Arriving, Arrived, CloneInv, LoopInv, ShownInv, TraceInv
<1>2. Greedy(Free)
  <2>1. CASE ReplayRejection
    <3>1. Greedy(residual) /\ Free = residual
      BY <2>1 DEF ReplayRejection, Arriving, Free
    <3>. QED  BY <3>1
  <2>2. CASE FinishProjection
    <3>1. Greedy(Restored(residual)) /\ Restored(residual) = Free
      BY <2>2, ProjectionRestores DEF FinishProjection, CloneInv
    <3>. QED  BY <3>1
  <2>. QED  BY <2>1, <2>2
<1>3. OnTrace'
  BY <1>1, <1>2, GreedyWalks
<1>4. TraceInv' /\ ProjectionInv'
  BY <1>1, <1>3 DEF CloneInv, TraceInv, ProjectionInv
<1>5. DataInv'
  BY <1>1 DEF CloneInv, DataInv, Demonstrates, Demonstration, ByThisCode
<1>. QED  BY <1>4, <1>5

LEMMA DemonstrateKeeps ==
  ASSUME CloneInv, Demonstrate
  PROVE  TraceInv' /\ DataInv' /\ ProjectionInv'
<1> DEFINE answer == FFD(residual, Slice[Req])
<1>1. /\ UNCHANGED <<stream, step, file, snapshot>> /\ pos' = pos + 1 /\ snapshot = <<>>
      /\ step = "generate" /\ Arrived /\ BooksInv /\ PendingInv /\ OnTrace
      /\ Demonstrates(samples, pos) /\ Free = residual /\ Greedy(residual)
  BY DEF Demonstrate, Arriving, Arrived, CloneInv, LoopInv, TraceInv, DataInv, Free
<1>2. OnTrace'
  <2>1. Greedy(Free)
    BY <1>1
  <2>. QED  BY <1>1, <2>1, GreedyWalks
<1>3. /\ Answer(stream, Req) = answer
      /\ residual = Trace(stream)[ArrivalOf(stream, Req)].residual
  BY <1>1, ArrivalOnTrace
<1>4. /\ Req \in Requests /\ pos \in 1 .. Len(stream) /\ Len(stream) \in Nat
      /\ DOMAIN active = Requests /\ stream \in Streams
  BY <1>1, ReqFacts DEF BooksInv
<1>5. ~active[Req].ok
  BY <1>1, <1>4 DEF PendingInv, Req, Event, Arrived, NoPlan
<1>6. Demonstrated(stream, pos + 1) =
        Demonstrated(stream, pos) \cup {r \in {Req} : Answer(stream, r).ok}
  BY <1>1, <1>4, DemonstratedNext DEF Arrived, Req, Event
<1>7. CASE answer.ok
  <2>1. active' = [active EXCEPT ![Req] = answer]
    BY <1>1, <1>7 DEF Greedy, PlacedOn
  <2>. HIDE DEF answer
  <2>2. active'[Req] = answer
    BY <1>4, <2>1
  <2>3. /\ samples' = With(samples, Req, [vnfs |-> Slice[Req].vnfs, at |-> answer.at])
        /\ found' = With(found, Req, residual)
    BY <1>7, <2>2 DEF Demonstrate
  <2>4. /\ DOMAIN samples' = DOMAIN samples \cup {Req}
        /\ samples'[Req] = [vnfs |-> Slice[Req].vnfs, at |-> answer.at]
        /\ \A r \in DOMAIN samples : r # Req => samples'[r] = samples[r]
        /\ DOMAIN found' = DOMAIN found \cup {Req} /\ found'[Req] = residual
        /\ \A r \in DOMAIN found : r # Req => found'[r] = found[r]
    BY <2>3 DEF With
  <2>5. Demonstrated(stream, pos + 1) = Demonstrated(stream, pos) \cup {Req}
    BY <1>3, <1>6, <1>7
  <2>6. Demonstrates(samples, pos)'
    BY <1>1, <1>3, <2>4, <2>5 DEF Demonstrates, Demonstration
  <2>7. TraceInv' /\ ProjectionInv'
    BY <1>1, <1>2, <1>3, <2>4 DEF CloneInv, TraceInv, ProjectionInv
  <2>8. (ByThisCode /\ file.hash = Here => Demonstrates(file.samples, Len(stream) + 1))'
    BY <1>1, <2>4 DEF CloneInv, DataInv, Demonstrates, Demonstration, ByThisCode
  <2>. QED  BY <1>1, <2>6, <2>7, <2>8 DEF DataInv
<1>8. CASE ~answer.ok
  <2>1. active' = active
    BY <1>1, <1>8 DEF Greedy, PlacedOn
  <2>2. samples' = samples /\ found' = found
    BY <1>5, <2>1 DEF Demonstrate
  <2>3. Demonstrated(stream, pos + 1) = Demonstrated(stream, pos)
    BY <1>3, <1>6, <1>8
  <2>4. TraceInv' /\ ProjectionInv'
    BY <1>1, <1>2, <2>2 DEF CloneInv, TraceInv, ProjectionInv
  <2>5. DataInv'
    BY <1>1, <2>2, <2>3 DEF CloneInv, DataInv, Demonstrates, Demonstration, ByThisCode
  <2>. QED  BY <2>4, <2>5
<1>. QED  BY <1>7, <1>8

\* A sample in projection is what first-fit answered on these residuals.
LEMMA SampleFits ==
  ASSUME CloneInv, Arrived, step = "replay", ByThisCode, Req \in DOMAIN samples
  PROVE  /\ Req \in DOMAIN found /\ Free = found[Req]
         /\ samples[Req].vnfs = Slice[Req].vnfs /\ samples[Req].at = Answer(stream, Req).at
         /\ PlanFor(Free, Slice[Req], Answer(stream, Req))
<1>1. BooksInv /\ OnTrace /\ Demonstrates(samples, Len(stream) + 1) /\ Free \in [Cells -> Nat]
  BY DEF CloneInv, LoopInv, TraceInv, DataInv, BooksInv
<1>2. /\ Free = Trace(stream)[ArrivalOf(stream, Req)].residual
      /\ Answer(stream, Req) = FFD(Free, Slice[Req])
  BY <1>1, ArrivalOnTrace
<1>3. /\ Req \in DOMAIN found /\ Answer(stream, Req).ok
      /\ samples[Req].vnfs = Slice[Req].vnfs /\ samples[Req].at = Answer(stream, Req).at
  <2>1. /\ Req \in Demonstrated(stream, Len(stream) + 1) /\ Req \in DOMAIN found
        /\ samples[Req] = Demonstration(Req)
    BY <1>1 DEF Demonstrates
  <2>. QED  BY <2>1 DEF Demonstrated, Demonstration
<1>4. Free = found[Req]
  BY <1>2, <1>3 DEF CloneInv, TraceInv
<1>5. PlanFor(Free, Slice[Req], Answer(stream, Req))
  <2>1. ChainOk(Slice[Req])
    BY <1>1, ReqFacts
  <2>2. FFD(Free, Slice[Req]) = NoPlan \/ PlanFor(Free, Slice[Req], FFD(Free, Slice[Req]))
    BY <1>1, <2>1, FFDFits
  <2>. QED  BY <1>2, <1>3, <2>2 DEF NoPlan
<1>. QED  BY <1>3, <1>4, <1>5

LEMMA NextShownIn ==
  ASSUME NEW at, DOMAIN at \in SUBSET Int, IsFiniteSet(DOMAIN at),
         NEW left \in SUBSET DOMAIN at, left # {}
  PROVE  NextShown(at, left) \in left
<1> DEFINE key == [k \in left |-> <<MetFirst(at, k), k>>]
<1>1. ASSUME NEW k \in left PROVE MetFirst(at, k) \in Int /\ k \in Int
  <2> DEFINE S == {j \in DOMAIN at : NamedDomain[at[j]] = NamedDomain[at[k]]}
  <2>1. S \in SUBSET Int /\ S # {} /\ IsFiniteSet(S)
    BY FS_Subset
  <2>2. Min(S) \in Int
    <3>. HIDE DEF S
    <3>. QED  BY <2>1, MinOfInts
  <2>. QED  BY <2>2 DEF MetFirst
<1>2. \A a, b \in Int : <<a, b>> \in [1 .. 2 -> Int]
  OBVIOUS
<1>3. \A k \in left : key[k] \in [1 .. 2 -> Int]
  BY <1>1, <1>2
<1>4. DOMAIN key = left /\ IsFiniteSet(left)
  BY FS_Subset
<1>. HIDE DEF key
<1>5. FirstBy(key) \in left
  BY <1>3, <1>4, FirstByIn
<1>. QED  BY <1>5 DEF NextShown, key

\* What the next VNF of a projection asks of its node is there.
LEMMA ShowFacts ==
  ASSUME CloneInv, ByThisCode, toShow # {}, NEW k, k = NextShown(samples[Req].at, toShow)
  PROVE  /\ step = "replay" /\ Arrived /\ snapshot # <<>>
         /\ samples[Req].vnfs = Slice[Req].vnfs /\ k \in toShow /\ k \in DOMAIN samples[Req].at 
         /\ k \in DOMAIN Slice[Req].vnfs
         /\ samples[Req].at[k] \in Permitted(Slice[Req].vnfs[k])
         /\ \A c \in NodeCells :
              LET use == HostUse(Slice[Req].vnfs, samples[Req].at, c)
                  shown == DOMAIN samples[Req].at \ toShow
              IN  /\ residual[c] >= use[k] /\ use[k] \in Nat
                  /\ SumFunctionOnSet(use, shown \cup {k}) = use[k] + SumFunctionOnSet(use, shown)
                  /\ SumFunctionOnSet(use, shown) \in Nat
<1> DEFINE chain == Slice[Req]
           at == samples[Req].at
           p == Answer(stream, Req)
           shown == DOMAIN at \ toShow
<1>1. snapshot # <<>> /\ step = "replay" /\ Arrived /\ Free = snapshot /\ BooksInv
  BY DEF CloneInv, LoopInv, ShownInv, Free
<1>2. /\ Req \in DOMAIN samples /\ toShow \subseteq DOMAIN at
      /\ \A c \in NodeCells :
           /\ residual[c] \in Int
           /\ residual[c] + SumFunctionOnSet(HostUse(chain.vnfs, at, c), shown) = snapshot[c]
  BY <1>1 DEF CloneInv, ProjectionInv
<1>3. at = p.at /\ samples[Req].vnfs = chain.vnfs /\ PlanFor(snapshot, chain, p)
  BY <1>1, <1>2, SampleFits
<1>4. ChainOk(chain) /\ snapshot \in [Cells -> Nat]
  BY <1>1, ReqFacts DEF BooksInv
<1>. HIDE DEF chain, at, p
<1>5. PartOf(chain, p) /\ DOMAIN at = DOMAIN chain.vnfs
  BY <1>3 DEF PlanFor
<1>6. DOMAIN at \in SUBSET Int /\ IsFiniteSet(DOMAIN at)
  BY <1>4, <1>5, ChainFacts
<1>7. k \in toShow /\ k \in DOMAIN at
  <2>1. k = NextShown(at, toShow)
    BY DEF at
  <2>. QED  BY <1>2, <1>6, <2>1, NextShownIn
<1>8. at[k] \in Permitted(chain.vnfs[k])
  BY <1>3, <1>7 DEF PlanFor
<1>9. ASSUME NEW c \in NodeCells
      PROVE  /\ residual[c] >= HostUse(chain.vnfs, at, c)[k] /\ HostUse(chain.vnfs, at, c)[k] \in Nat
             /\ SumFunctionOnSet(HostUse(chain.vnfs, at, c), shown \cup {k})
                  = HostUse(chain.vnfs, at, c)[k] + SumFunctionOnSet(HostUse(chain.vnfs, at, c), shown)
             /\ SumFunctionOnSet(HostUse(chain.vnfs, at, c), shown) \in Nat
  <2> DEFINE use == HostUse(chain.vnfs, at, c)
             flows == SumFunctionOnSet(FlowUse(chain.bw, p.route, c), DOMAIN p.route)
  <2>0. c \in Cells
    BY DEF Cells
  <2>1. /\ \A j \in DOMAIN at : use[j] \in Nat
        /\ Use(chain, p)[c] = SumFunctionOnSet(use, DOMAIN at) + flows
        /\ SumFunctionOnSet(use, DOMAIN at) \in Nat /\ flows \in Nat
    BY <1>3, <1>4, <1>5, <2>0, UseFacts
  <2>2. Use(chain, p)[c] <= snapshot[c] /\ snapshot[c] \in Nat
    BY <1>3, <1>4, <2>0 DEF PlanFor
  <2>3. residual[c] \in Int /\ residual[c] + SumFunctionOnSet(use, shown) = snapshot[c]
    BY <1>2
  <2>4. /\ shown \in SUBSET DOMAIN at /\ shown \cup {k} \in SUBSET DOMAIN at /\ k \notin shown
        /\ IsFiniteSet(shown)
    BY <1>6, <1>7, FS_Subset
  <2>. HIDE DEF use, flows, shown
  <2>5. SumFunctionOnSet(use, shown) \in Nat
    <3>1. \A j \in shown : use[j] \in Nat
      BY <2>1, <2>4
    <3>. QED  BY <2>4, <3>1, SumType
  <2>6. SumFunctionOnSet(use, shown \cup {k}) = use[k] + SumFunctionOnSet(use, shown)
    <3>1. \A j \in shown : use[j] \in Nat /\ use[j] = use[j]
      BY <2>1, <2>4
    <3>2. use[k] \in Nat
      BY <1>7, <2>1
    <3>. QED  BY <2>4, <3>1, <3>2, SumExtends
  <2>7. SumFunctionOnSet(use, shown \cup {k}) <= SumFunctionOnSet(use, DOMAIN at)
    BY <1>6, <2>1, <2>4, SumMonotone
  <2>8. use[k] \in Nat
    BY <1>7, <2>1
  <2>9. residual[c] >= use[k]
    BY <2>1, <2>2, <2>3, <2>5, <2>6, <2>7, <2>8
  <2>. QED  BY <2>5, <2>6, <2>8, <2>9 DEF use
<1>10. k \in DOMAIN chain.vnfs
  BY <1>5, <1>7
<1>. QED  BY <1>1, <1>3, <1>7, <1>8, <1>9, <1>10 DEF chain, at

LEMMA StartProjectionKeeps ==
  ASSUME CloneInv, StartProjection
  PROVE  TraceInv' /\ DataInv' /\ ProjectionInv'
<1>1. /\ UNCHANGED <<stream, step, pos, active, file, samples, found, residual>>
      /\ snapshot = <<>> /\ snapshot' = residual /\ toShow' = Targets(samples[Req])
      /\ step = "replay" /\ Arrived /\ Req \in DOMAIN samples /\ BooksInv
  BY DEF StartProjection, Arriving, Arrived, Sampled, CloneInv, LoopInv
<1>2. Free' = Free
  BY QuietFacts DEF Quiet, CloneInv
<1>3. TraceInv'
  BY <1>1, <1>2 DEF CloneInv, TraceInv, OnTrace
<1>4. DataInv'
  BY <1>1 DEF CloneInv, DataInv, Demonstrates, Demonstration, ByThisCode
<1>5. ASSUME ByThisCode PROVE ProjectionInv'
  <2>0. Targets(samples[Req]) = DOMAIN samples[Req].at
    <3> DEFINE p == Answer(stream, Req)
    <3>1. samples[Req].at = p.at /\ PlanFor(Free, Slice[Req], p) /\ ChainOk(Slice[Req])
      BY <1>1, <1>5, SampleFits, ReqFacts
    <3>2. \A k \in DOMAIN p.at : k \in DOMAIN Slice[Req].vnfs /\ p.at[k] \in Permitted(Slice[Req].vnfs[k])
      BY <3>1 DEF PlanFor
    <3>3. \A k \in DOMAIN p.at : p.at[k] \in Nodes
      BY <3>1, <3>2, ChainFacts DEF Permitted
    <3>. QED  BY <3>1, <3>3 DEF Targets
  <2>1. Req' = Req /\ DOMAIN samples'[Req'].at \ toShow' = {}
    BY <1>1, <2>0 DEF Req, Event
  <2>2. residual \in [Cells -> Nat]
    BY <1>1 DEF BooksInv, Free
  <2>3. ASSUME NEW c \in NodeCells
        PROVE  /\ residual'[c] \in Int
               /\ residual'[c] + SumFunctionOnSet(HostUse(Slice[Req'].vnfs, samples'[Req'].at, c),
                                                  DOMAIN samples'[Req'].at \ toShow')
                    = snapshot'[c]
    <3>1. residual[c] \in Nat
      BY <2>2 DEF Cells
    <3>2. SumFunctionOnSet(HostUse(Slice[Req'].vnfs, samples'[Req'].at, c),
                           DOMAIN samples'[Req'].at \ toShow') = 0
      BY <2>1, SumEmpty
    <3>. QED  BY <1>1, <3>1, <3>2
  <2>4. Req' \in DOMAIN samples' /\ toShow' \subseteq DOMAIN samples'[Req'].at
    BY <1>1, <2>0, <2>1
  <2>. QED  BY <2>3, <2>4 DEF ProjectionInv
<1>6. ~ByThisCode => ProjectionInv'
  BY <1>1 DEF ProjectionInv, ByThisCode
<1>. QED  BY <1>3, <1>4, <1>5, <1>6

LEMMA ShowKeeps ==
  ASSUME CloneInv, Show
  PROVE  TraceInv' /\ DataInv' /\ ProjectionInv'
<1> DEFINE k == NextShown(samples[Req].at, toShow)
           shown == DOMAIN samples[Req].at \ toShow
<1>1. /\ UNCHANGED <<stream, step, pos, active, file, samples, found, snapshot>>
      /\ toShow # {} /\ toShow' = toShow \ {k}
      /\ residual' = Debited(residual, NodeUse(samples[Req].at[k], samples[Req].vnfs[k]))
  BY DEF Show
<1>2. Free' = Free
  BY QuietFacts DEF Quiet, CloneInv
<1>3. TraceInv'
  BY <1>1, <1>2 DEF CloneInv, TraceInv, OnTrace
<1>4. DataInv'
  BY <1>1 DEF CloneInv, DataInv, Demonstrates, Demonstration, ByThisCode
<1>00. ~ByThisCode => ProjectionInv'
  BY <1>1 DEF ProjectionInv, ByThisCode
<1>0. SUFFICES ASSUME ByThisCode PROVE ProjectionInv'
  BY <1>3, <1>4, <1>00
<1>. HIDE DEF k
<1>5. /\ snapshot # <<>> /\ k \in toShow /\ k \in DOMAIN samples[Req].at
      /\ samples[Req].vnfs = Slice[Req].vnfs
      /\ \A c \in NodeCells :
           LET use == HostUse(Slice[Req].vnfs, samples[Req].at, c)
           IN  /\ residual[c] >= use[k] /\ use[k] \in Nat
               /\ SumFunctionOnSet(use, shown \cup {k}) = use[k] + SumFunctionOnSet(use, shown)
               /\ SumFunctionOnSet(use, shown) \in Nat
  BY <1>0, <1>1, ShowFacts DEF k
<1>6. /\ Req \in DOMAIN samples /\ toShow \subseteq DOMAIN samples[Req].at
      /\ \A c \in NodeCells :
           /\ residual[c] \in Int
           /\ residual[c] + SumFunctionOnSet(HostUse(Slice[Req].vnfs, samples[Req].at, c), shown)
                = snapshot[c]
  BY <1>0, <1>5 DEF CloneInv, ProjectionInv
<1>7. Req' = Req /\ DOMAIN samples[Req].at \ toShow' = shown \cup {k}
  BY <1>1, <1>5, <1>6 DEF Req, Event
<1>8. ASSUME NEW c \in NodeCells
      PROVE  /\ residual'[c] \in Int
             /\ residual'[c] + SumFunctionOnSet(HostUse(Slice[Req].vnfs, samples[Req].at, c), shown \cup {k})
                  = snapshot[c]
  <2> DEFINE use == HostUse(Slice[Req].vnfs, samples[Req].at, c)
  <2>1. residual'[c] = residual[c] - use[k]
    <3>1. c \in Cells
      BY DEF Cells
    <3>2. use[k] = NodeUse(samples[Req].at[k], samples[Req].vnfs[k])[c]
      BY <1>5 DEF HostUse
    <3>. QED  BY <1>1, <3>1, <3>2 DEF Debited
  <2>2. /\ use[k] \in Nat /\ SumFunctionOnSet(use, shown) \in Nat
        /\ SumFunctionOnSet(use, shown \cup {k}) = use[k] + SumFunctionOnSet(use, shown)
    BY <1>5
  <2>3. residual[c] \in Int /\ residual[c] + SumFunctionOnSet(use, shown) = snapshot[c]
    BY <1>6
  <2>. HIDE DEF use, shown
  <2>4. /\ residual'[c] \in Int
        /\ residual'[c] + SumFunctionOnSet(use, shown \cup {k}) = snapshot[c]
    BY <2>1, <2>2, <2>3
  <2>. QED  BY <2>4 DEF use
<1>9. toShow' \subseteq DOMAIN samples[Req].at
  BY <1>1, <1>6
<1>. HIDE DEF shown
<1>. QED  BY <1>1, <1>6, <1>7, <1>8, <1>9 DEF ProjectionInv

LEMMA CloneInit == Init => CloneInv
<1>. SUFFICES ASSUME Init PROVE CloneInv
  OBVIOUS
<1>1. /\ step \in {"plain", "load"} /\ found = <<>> /\ snapshot = <<>> /\ file \in OldFiles
  BY DEF Init
<1>2. DOMAIN <<>> = {}
  OBVIOUS
<1>3. DataInv
  BY <1>1, FilesAssumption DEF DataInv, ByThisCode
<1>. QED  BY <1>1, <1>2, <1>3, LoopInit DEF CloneInv, TraceInv, ProjectionInv

LEMMA CloneStep == CloneInv /\ [Next]_vars => CloneInv'
<1>. SUFFICES ASSUME CloneInv, [Next]_vars PROVE CloneInv'
  OBVIOUS
<1>1. LoopInv'
  BY LoopStep DEF CloneInv
<1>2. TraceInv' /\ DataInv' /\ ProjectionInv'
  <2>1. CASE Plan \/ RejectChainOrder \/ RejectGate \/ Admit
    BY <2>1, PlainKeeps
  <2>2. CASE Load \/ WriteFile \/ Kill
    BY <2>2, LaunchKeepsData
  <2>3. CASE Depart
    BY <2>3, DepartKeepsData
  <2>4. CASE Demonstrate
    BY <2>4, DemonstrateKeeps
  <2>5. CASE OpenFile
    BY <2>5, OpenFileKeeps
  <2>6. CASE ReplayRejection \/ FinishProjection
    BY <2>6, ReplayKeeps
  <2>7. CASE StartProjection
    BY <2>7, StartProjectionKeeps
  <2>8. CASE Show
    BY <2>8, ShowKeeps
  <2>9. CASE UNCHANGED vars
    BY <2>9 DEF vars, CloneInv, TraceInv, DataInv, ProjectionInv, OnTrace, Demonstrates, Demonstration,
                   ByThisCode, Free, Req, Event
  <2>. QED  BY <2>1, <2>2, <2>3, <2>4, <2>5, <2>6, <2>7, <2>8, <2>9 DEF Next
<1>. QED  BY <1>1, <1>2 DEF CloneInv

LEMMA CloneInvHolds == Spec => []CloneInv
<1>1. CloneInv /\ [Next]_vars => CloneInv'
  BY CloneStep
<1>. QED  BY <1>1, CloneInit, PTL DEF Spec

\* A demonstration in a file this code made is replayed on the substrate it was
\* made on and for the slice it was made for, across kills and whatever files
\* other configurations, older code and torn writes left; each target the actor
\* is shown is one its action mask allows (but where nothing is permitted), and
\* first-fit answers the sample again.
THEOREM ReplayAlwaysMatches == Spec => []ReplayMatches
<1>1. CloneInv => ReplayMatches
  <2>. SUFFICES ASSUME CloneInv, step = "replay", ByThisCode
                PROVE  /\ (snapshot # <<>>) => /\ Req \in DOMAIN found /\ snapshot = found[Req]
                                               /\ samples[Req].vnfs = Slice[Req].vnfs
                       /\ toShow # {} =>
                            LET sample == samples[Req]
                                k == NextShown(sample.at, toShow)
                                vnf == sample.vnfs[k]
                                n == sample.at[k]
                            IN  /\ vnf.permitted # {} => n \in vnf.permitted
                                /\ residual[<<n, "cpu">>] >= vnf.cpu
                                /\ residual[<<n, "ram">>] >= vnf.ram
                       /\ \A r \in Requests :
                            active[r].ok => r \in DOMAIN samples /\ active[r].at = samples[r].at
    BY DEF ReplayMatches
  <2>1. BooksInv /\ OnTrace /\ Demonstrates(samples, Len(stream) + 1)
    BY DEF CloneInv, LoopInv, TraceInv, DataInv
  <2>2. ASSUME snapshot # <<>> 
        PROVE  /\ Req \in DOMAIN found /\ snapshot = found[Req]
               /\ samples[Req].vnfs = Slice[Req].vnfs
    <3>1. Arrived /\ Req \in DOMAIN samples /\ Free = snapshot
      BY <2>2 DEF CloneInv, LoopInv, ShownInv, ProjectionInv, Free
    <3>. QED  BY <3>1, SampleFits
  <2>3. ASSUME toShow # {}, NEW k, k = NextShown(samples[Req].at, toShow)
        PROVE  /\ samples[Req].vnfs[k].permitted # {} =>
                    samples[Req].at[k] \in samples[Req].vnfs[k].permitted
               /\ residual[<<samples[Req].at[k], "cpu">>] >= samples[Req].vnfs[k].cpu
               /\ residual[<<samples[Req].at[k], "ram">>] >= samples[Req].vnfs[k].ram
    <3> DEFINE n == samples[Req].at[k]
               vnf == Slice[Req].vnfs[k]
    <3>0. samples[Req].vnfs = Slice[Req].vnfs
      BY <2>3, ShowFacts
    <3>1. /\ k \in DOMAIN samples[Req].at /\ n \in Permitted(vnf) /\ k \in DOMAIN Slice[Req].vnfs
          /\ \A c \in NodeCells : residual[c] >= HostUse(Slice[Req].vnfs, samples[Req].at, c)[k]
      BY <2>3, ShowFacts
    <3>2. n \in Nodes
      <4>1. Req \in Requests /\ Arrived
        BY <2>1, <2>3, ReqFacts DEF CloneInv, LoopInv, ShownInv
      <4>2. vnf.permitted \in SUBSET Nodes
        BY <3>1, <4>1, SlicesAreChains, ChainFacts
      <4>. QED  BY <3>1, <4>2 DEF Permitted
    <3>3. <<n, "cpu">> \in NodeCells /\ <<n, "ram">> \in NodeCells
      BY <3>2 DEF NodeCells, Kinds
    <3>4. /\ HostUse(Slice[Req].vnfs, samples[Req].at, <<n, "cpu">>)[k] = vnf.cpu
          /\ HostUse(Slice[Req].vnfs, samples[Req].at, <<n, "ram">>)[k] = vnf.ram
      BY <3>1, <3>3 DEF HostUse, NodeUse, Cells
    <3>. QED  BY <3>0, <3>1, <3>3, <3>4 DEF Permitted
  <2>4. ASSUME NEW r \in Requests, active[r].ok
        PROVE  r \in DOMAIN samples /\ active[r].at = samples[r].at
    <3>1. r \in Demonstrated(stream, pos) /\ active[r] = Answer(stream, r)
      BY <2>1, <2>4 DEF OnTrace
    <3>2. Demonstrated(stream, pos) \subseteq Demonstrated(stream, Len(stream) + 1)
      <4>1. CASE pos = Len(stream) + 1
        BY <4>1
      <4>2. CASE pos # Len(stream) + 1
        <5>1. pos \in 1 .. Len(stream) /\ stream \in Streams
          BY <2>1, <4>2, EventFacts DEF BooksInv
        <5>. QED  BY <5>1, DemonstratedNext
      <4>. QED  BY <4>1, <4>2
    <3>. QED  BY <2>1, <3>1, <3>2 DEF Demonstrates, Demonstration
  <2>. QED  BY <2>2, <2>3, <2>4
<1>. QED  BY <1>1, CloneInvHolds, PTL
=============================================================================
