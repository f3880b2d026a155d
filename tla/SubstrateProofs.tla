--------------------------- MODULE SubstrateProofs ---------------------------
(***************************************************************************)
(* Facts about cells, uses and paths that the proofs of the components      *)
(* built on Substrate rest on.                                              *)
(***************************************************************************)
EXTENDS Substrate, FiniteSetTheorems, SequenceTheorems, WellFoundedInduction, TLAPS

\* A cell belongs to one domain: that of the node, or of the link's source.
LEMMA CellDomain ==
  ASSUME NEW d, NEW c \in CellsIn(d)
  PROVE  c \in Cells /\ DomainOf[c[1]] = d
<1>1. CASE c \in NodeCellsIn(d)
  BY <1>1 DEF NodeCellsIn, NodesIn, Cells, NodeCells
<1>2. CASE c \in LinksIn(d)
  BY <1>2 DEF LinksIn, Cells
<1>. QED  BY <1>1, <1>2 DEF CellsIn

\* Links and node residuals are different cells.
LEMMA LinksAreNoNodeCells ==
  ASSUME NEW c \in Links
  PROVE  c \notin NodeCells
<1>1. c[2] \in Nodes
  BY TopologyAssumption
<1>. QED  BY <1>1, TopologyAssumption DEF NodeCells

\* What a placement takes: naturals, from the node's own two cells only, and
\* never more than is there when the node was found to fit.
LEMMA NodeUseFacts ==
  ASSUME NEW n \in Nodes, NEW vnf, vnf.cpu \in Nat, vnf.ram \in Nat
  PROVE  /\ NodeUse(n, vnf) \in [Cells -> Nat]
         /\ \A c \in Cells : NodeUse(n, vnf)[c] # 0 => c \in {n} \X Kinds
         /\ NodeUse(n, vnf)[<<n, "cpu">>] = vnf.cpu
         /\ NodeUse(n, vnf)[<<n, "ram">>] = vnf.ram
<1>1. <<n, "cpu">> \in Cells /\ <<n, "ram">> \in Cells
  BY DEF Cells, NodeCells, Kinds
<1>. QED  BY <1>1 DEF NodeUse, Kinds

\* What a route takes: naturals, from its links only.
LEMMA RouteUseFacts ==
  ASSUME NEW links \in SUBSET Links, NEW rate \in Nat
  PROVE  /\ RouteUse(links, rate) \in [Cells -> Nat]
         /\ \A c \in Cells : RouteUse(links, rate)[c] = IF c \in links THEN rate ELSE 0
  BY DEF RouteUse

LEMMA PlusFacts ==
  ASSUME NEW u \in [Cells -> Nat], NEW v \in [Cells -> Nat]
  PROVE  /\ Plus(u, v) \in [Cells -> Nat]
         /\ \A c \in Cells : Plus(u, v)[c] = u[c] + v[c]
  BY DEF Plus

\* A simple path within S uses links both of whose ends are in S.
LEMMA PathFacts ==
  ASSUME NEW S, NEW u, NEW v, NEW p \in Paths(S, u, v)
  PROVE  /\ p \in AllPaths
         /\ LinksOf(p) \subseteq Links
         /\ PathDelay[p] \in Nat
         /\ \A l \in LinksOf(p) : l[1] \in S /\ l[2] \in S
<1>1. p \in AllPaths /\ Range(p) \subseteq S
  BY DEF Paths
<1>2. PICK m \in 2 .. Cardinality(Nodes) : p \in [1 .. m -> Nodes]
  BY <1>1 DEF AllPaths
<1>3. m \in Nat
  BY <1>2, TopologyAssumption, FS_CardinalityType
<1>4. p \in Seq(Nodes)
  BY <1>2, <1>3, SeqDef
<1>5. Len(p) \in Nat /\ DOMAIN p = 1 .. Len(p)
  BY <1>4, LenProperties
<1>6. LinksOf(p) \subseteq Links
  BY <1>1 DEF AllPaths
<1>7. ASSUME NEW l \in LinksOf(p)
      PROVE  l[1] \in S /\ l[2] \in S
  <2>1. PICK i \in 1 .. Len(p) - 1 : l = <<p[i], p[i + 1]>>
    BY <1>7 DEF LinksOf
  <2>2. i \in DOMAIN p /\ i + 1 \in DOMAIN p
    BY <1>5, <2>1
  <2>. QED  BY <1>1, <2>1, <2>2 DEF Range
<1>. QED  BY <1>1, <1>6, <1>7, DelayAssumption

LEMMA FiniteLinks == IsFiniteSet(Links)
  BY TopologyAssumption, FS_Product, FS_Subset

LEMMA InterHopsType ==
  ASSUME NEW links \in SUBSET Links
  PROVE  InterHops(links) \in Nat
<1>1. IsFiniteSet({l \in links : InterDomain(l)})
  BY FiniteLinks, FS_Subset
<1>. QED  BY <1>1, FS_CardinalityType DEF InterHops

-----------------------------------------------------------------------------
(***************************************************************************)
(* Finite sums.  SumFunctionOnSet is a recursion over sets; the induction   *)
(* theorems cannot be instantiated, so each fact is proved by taking a      *)
(* smallest set for which it fails.                                         *)
(***************************************************************************)
\* The element a fold takes first, and the table it fills.
First(s) == CHOOSE x \in s : TRUE

IsSum(g, f, U) ==
  g = [s \in SUBSET U |-> IF s = {} THEN 0 ELSE f[First(s)] + g[s \ {First(s)}]]

LEMMA SmallestSubset ==
  ASSUME NEW U, IsFiniteSet(U), NEW T \in SUBSET (SUBSET U), T # {}
  PROVE  \E s \in T : \A t \in T : t \subseteq s => t = s
<1>1. T \subseteq FiniteSubsetsOf(U)
  BY FS_FiniteSubsetsOfFinite
<1>2. PICK s \in T : \A t \in T : <<t, s>> \notin StrictSubsetOrdering(U)
  BY <1>1, FS_StrictSubsetOrderingWellFounded, WFMin
<1>. QED  BY <1>2 DEF StrictSubsetOrdering

LEMMA SumIsTable ==
  ASSUME NEW f, NEW S
  PROVE  SumFunctionOnSet(f, S) = (CHOOSE g : IsSum(g, f, S))[S]
BY DEF SumFunctionOnSet, FoldFunctionOnSet, MapThenFoldSet, IsSum, First

LEMMA FirstIn == ASSUME NEW s, s # {} PROVE First(s) \in s
BY DEF First

LEMMA TablesAgree ==
  ASSUME NEW f, NEW U, IsFiniteSet(U), NEW V, NEW g, NEW h, IsSum(g, f, U), IsSum(h, f, V),
         NEW s \in SUBSET U, s \subseteq V
  PROVE  g[s] = h[s]
<1> DEFINE Bad == {t \in SUBSET U : t \subseteq V /\ g[t] # h[t]}
<1> SUFFICES ASSUME Bad # {} PROVE FALSE
  OBVIOUS
<1>0. Bad \in SUBSET (SUBSET U)
  OBVIOUS
<1>1. PICK t \in Bad : \A u \in Bad : u \subseteq t => u = t
  <2>. HIDE DEF Bad
  <2>. QED  BY <1>0, SmallestSubset
<1>2. t # {}
  BY <1>1 DEF IsSum
<1> DEFINE r == t \ {First(t)}
<1>3. r \subseteq t /\ r # t
  BY <1>2, FirstIn
<1>4. g[r] = h[r]
  BY <1>1, <1>3
<1>5. g[t] = f[First(t)] + g[r] /\ h[t] = f[First(t)] + h[r]
  BY <1>1, <1>2 DEF IsSum
<1>. QED  BY <1>1, <1>4, <1>5

LEMMA TableExists ==
  ASSUME NEW f, NEW S, IsFiniteSet(S)
  PROVE  \E g : IsSum(g, f, S)
<1> DEFINE Bad == {t \in SUBSET S : ~ \E g : IsSum(g, f, t)}
<1> SUFFICES ASSUME Bad # {} PROVE FALSE
  OBVIOUS
<1>0. Bad \in SUBSET (SUBSET S)
  OBVIOUS
<1>1. PICK t \in Bad : \A u \in Bad : u \subseteq t => u = t
  <2>. HIDE DEF Bad
  <2>. QED  BY <1>0, SmallestSubset
<1> DEFINE T(u) == CHOOSE g : IsSum(g, f, u)
           G == [s \in SUBSET t |-> IF s = {} THEN 0
                                    ELSE f[First(s)] + T(s \ {First(s)})[s \ {First(s)}]]
<1>2. ASSUME NEW u \in SUBSET t, u # t PROVE IsSum(T(u), f, u)
  <2>1. u \notin Bad /\ u \in SUBSET S
    BY <1>1, <1>2
  <2>2. \E g : IsSum(g, f, u)
    BY <2>1
  <2>. QED  BY <2>2
<1>3. ASSUME NEW u \in SUBSET t, u # t PROVE G[u] = T(u)[u]
  <2>1. CASE u = {}
    <3>1. IsSum(T(u), f, u)
      BY <1>2, <1>3
    <3>2. T(u)[u] = 0
      <4>. HIDE DEF T
      <4>. QED  BY <3>1, <2>1 DEF IsSum
    <3>. QED  BY <3>2, <2>1
  <2>2. CASE u # {}
    <3> DEFINE r == u \ {First(u)}
    <3>1. r \subseteq u /\ r \in SUBSET t /\ r # t
      BY <1>3
    <3>2. T(u)[u] = f[First(u)] + T(u)[r]
      <4>1. IsSum(T(u), f, u)
        BY <1>2, <1>3
      <4>. HIDE DEF T
      <4>. QED BY <4>1, <2>2 DEF IsSum
    <3>3. T(u)[r] = T(r)[r]
      <4>1. IsSum(T(u), f, u) /\ IsSum(T(r), f, r) /\ IsFiniteSet(u)
        BY <1>2, <1>3, <3>1, FS_Subset
      <4>2. r \in SUBSET u /\ r \subseteq r
        BY <3>1
      <4>. HIDE DEF T, r
      <4>. QED BY <4>1, <4>2, TablesAgree
    <3>4. G[u] = f[First(u)] + T(r)[r]
      BY <2>2
    <3>. QED  BY <3>2, <3>3, <3>4
  <2>. QED  BY <2>1, <2>2
<1>4. IsSum(G, f, t)
  <2>1. ASSUME NEW s \in SUBSET t, s # {}
        PROVE  T(s \ {First(s)})[s \ {First(s)}] = G[s \ {First(s)}]
    <3>1. s \ {First(s)} \in SUBSET t /\ s \ {First(s)} # t
      BY <2>1, FirstIn
    <3>. HIDE DEF G, T
    <3>. QED  BY <1>3, <3>1
  <2>2. G = [s \in SUBSET t |-> IF s = {} THEN 0 ELSE f[First(s)] + G[s \ {First(s)}]]
    <3>. HIDE DEF T
    <3>. QED  BY <2>1
  <2>. HIDE DEF G
  <2>. QED  BY <2>2 DEF IsSum
<1>. QED  BY <1>1, <1>4

\* A sum is empty, or a first term and the sum of the rest.
LEMMA SumUnfolds ==
  ASSUME NEW f, NEW S, IsFiniteSet(S)
  PROVE  SumFunctionOnSet(f, S) =
           IF S = {} THEN 0 ELSE f[First(S)] + SumFunctionOnSet(f, S \ {First(S)})
<1> DEFINE T(u) == CHOOSE g : IsSum(g, f, u)
           r == S \ {First(S)}
<1>1. IsFiniteSet(r)
  BY FS_Subset
<1>2. IsSum(T(S), f, S) /\ IsSum(T(r), f, r)
  <2>1. (\E g : IsSum(g, f, S)) /\ (\E g : IsSum(g, f, r))
    BY <1>1, TableExists
  <2>. QED BY <2>1
<1>3. SumFunctionOnSet(f, S) = T(S)[S] /\ SumFunctionOnSet(f, r) = T(r)[r]
  BY SumIsTable
<1>. HIDE DEF T
<1>4. T(S)[r] = T(r)[r]
  BY <1>1, <1>2, TablesAgree
<1>5. T(S)[S] = IF S = {} THEN 0 ELSE f[First(S)] + T(S)[r]
  BY <1>2 DEF IsSum
<1>. QED  BY <1>3, <1>4, <1>5

LEMMA SumEmpty ==
  ASSUME NEW f
  PROVE  SumFunctionOnSet(f, {}) = 0
BY SumUnfolds, FS_EmptySet

LEMMA SumType ==
  ASSUME NEW f, NEW S, IsFiniteSet(S), \A x \in S : f[x] \in Nat
  PROVE  SumFunctionOnSet(f, S) \in Nat
<1> DEFINE Bad == {t \in SUBSET S : SumFunctionOnSet(f, t) \notin Nat}
<1> SUFFICES ASSUME Bad # {} PROVE FALSE
  OBVIOUS
<1>0. Bad \in SUBSET (SUBSET S)
  OBVIOUS
<1>1. PICK t \in Bad : \A u \in Bad : u \subseteq t => u = t
  <2>. HIDE DEF Bad
  <2>. QED  BY <1>0, SmallestSubset
<1>2. IsFiniteSet(t)
  BY <1>1, FS_Subset
<1>3. t # {}
  <2>1. SumFunctionOnSet(f, t) \notin Nat
    BY <1>1
  <2>. QED  BY <2>1, SumEmpty
<1>4. First(t) \in t /\ t \ {First(t)} \notin Bad
  BY <1>1, <1>3, FirstIn
<1>5. SumFunctionOnSet(f, t \ {First(t)}) \in Nat /\ f[First(t)] \in Nat
  BY <1>4, <1>1
<1>. QED  BY <1>1, <1>2, <1>3, <1>5, SumUnfolds

\* Any term may be taken out first.
LEMMA SumTakes ==
  ASSUME NEW f, NEW S, IsFiniteSet(S), \A x \in S : f[x] \in Nat, NEW e \in S
  PROVE  SumFunctionOnSet(f, S) = f[e] + SumFunctionOnSet(f, S \ {e})
<1> DEFINE Bad == {t \in SUBSET S : \E x \in t :
                     SumFunctionOnSet(f, t) # f[x] + SumFunctionOnSet(f, t \ {x})}
<1> SUFFICES ASSUME Bad # {} PROVE FALSE
  OBVIOUS
<1>0. Bad \in SUBSET (SUBSET S)
  OBVIOUS
<1>1. PICK t \in Bad : \A u \in Bad : u \subseteq t => u = t
  <2>. HIDE DEF Bad
  <2>. QED  BY <1>0, SmallestSubset
<1>2. PICK x \in t : SumFunctionOnSet(f, t) # f[x] + SumFunctionOnSet(f, t \ {x})
  BY <1>1
<1> DEFINE y == First(t)
<1>3. y \in t /\ SumFunctionOnSet(f, t) = f[y] + SumFunctionOnSet(f, t \ {y})
  BY <1>1, <1>2, FirstIn, SumUnfolds, FS_Subset
<1>4. x # y
  BY <1>2, <1>3
<1>. HIDE DEF y
<1>5. t \ {y} \notin Bad /\ t \ {x} \notin Bad /\ t \ {y} \in SUBSET S /\ t \ {x} \in SUBSET S
  BY <1>1, <1>2, <1>3
<1>6. SumFunctionOnSet(f, t \ {y}) = f[x] + SumFunctionOnSet(f, (t \ {y}) \ {x})
  BY <1>2, <1>4, <1>5
<1>7. SumFunctionOnSet(f, t \ {x}) = f[y] + SumFunctionOnSet(f, (t \ {x}) \ {y})
  BY <1>3, <1>4, <1>5
<1>8. (t \ {y}) \ {x} = (t \ {x}) \ {y}
  OBVIOUS
<1>9. SumFunctionOnSet(f, (t \ {x}) \ {y}) \in Nat /\ f[x] \in Nat /\ f[y] \in Nat
  BY <1>1, <1>2, <1>3, SumType, FS_Subset
<1>. HIDE DEF Bad
<1>. QED  BY <1>2, <1>3, <1>6, <1>7, <1>8, <1>9

\* The sum depends on the terms that are not zero, and on nothing else.
LEMMA SumsEqual ==
  ASSUME NEW f, NEW g, NEW S, IsFiniteSet(S), NEW R \in SUBSET S,
         \A x \in S : f[x] \in Nat, \A x \in R : g[x] = f[x], \A x \in S \ R : f[x] = 0
  PROVE  SumFunctionOnSet(f, S) = SumFunctionOnSet(g, R)
<1> DEFINE Bad == {t \in SUBSET S :
                     SumFunctionOnSet(f, t) # SumFunctionOnSet(g, t \cap R)}
<1> SUFFICES ASSUME Bad # {} PROVE FALSE
  <2>1. S \cap R = R
    OBVIOUS
  <2>. QED BY <2>1
<1>0. Bad \in SUBSET (SUBSET S)
  OBVIOUS
<1>1. PICK t \in Bad : \A u \in Bad : u \subseteq t => u = t
  <2>. HIDE DEF Bad
  <2>. QED  BY <1>0, SmallestSubset
<1>2. t # {}
  <2>1. SumFunctionOnSet(f, {}) = SumFunctionOnSet(g, {} \cap R)
    BY SumEmpty
  <2>. QED  BY <1>1, <2>1
<1>3. PICK x \in t : TRUE
  BY <1>2
<1>4. IsFiniteSet(t) /\ IsFiniteSet(t \cap R)
  BY <1>1, FS_Subset
<1>5. SumFunctionOnSet(f, t) = f[x] + SumFunctionOnSet(f, t \ {x})
  BY <1>1, <1>4, SumTakes
<1>6. SumFunctionOnSet(f, t \ {x}) = SumFunctionOnSet(g, (t \ {x}) \cap R)
  BY <1>1, <1>3
<1>7. CASE x \in R
  <2>1. \A z \in t \cap R : g[z] \in Nat
    OBVIOUS
  <2>2. x \in t \cap R /\ (t \cap R) \ {x} = (t \ {x}) \cap R
    BY <1>7
  <2>3. SumFunctionOnSet(g, t \cap R) = g[x] + SumFunctionOnSet(g, (t \cap R) \ {x})
    BY <2>1, <2>2, <1>4, SumTakes
  <2>. QED  BY <1>1, <1>5, <1>6, <1>7, <2>2, <2>3
<1>8. CASE x \notin R
  <2>1. (t \ {x}) \cap R = t \cap R /\ f[x] = 0
    BY <1>8, <1>1
  <2>2. SumFunctionOnSet(g, t \cap R) \in Nat
    BY <1>4, SumType
  <2>. QED  BY <1>1, <1>5, <1>6, <2>1, <2>2
<1>. QED  BY <1>7, <1>8

LEMMA SumSame ==
  ASSUME NEW f, NEW g, NEW S, IsFiniteSet(S), \A x \in S : f[x] \in Nat, \A x \in S : g[x] = f[x]
  PROVE  SumFunctionOnSet(f, S) = SumFunctionOnSet(g, S)
<1>1. S \in SUBSET S /\ \A x \in S \ S : f[x] = 0
  OBVIOUS
<1>. QED  BY <1>1, SumsEqual

LEMMA SumOfZeros ==
  ASSUME NEW f, NEW S, IsFiniteSet(S), \A x \in S : f[x] = 0
  PROVE  SumFunctionOnSet(f, S) = 0
<1>1. SumFunctionOnSet(f, S) = SumFunctionOnSet(f, {})
  BY SumsEqual, {} \in SUBSET S
<1>. QED  BY <1>1, SumEmpty

LEMMA SumExtends ==
  ASSUME NEW f, NEW S, IsFiniteSet(S), \A x \in S : f[x] \in Nat,
         NEW e, e \notin S, NEW g, g[e] \in Nat, \A x \in S : g[x] = f[x]
  PROVE  SumFunctionOnSet(g, S \cup {e}) = g[e] + SumFunctionOnSet(f, S)
<1>1. IsFiniteSet(S \cup {e})
  BY FS_AddElement
<1>2. (S \cup {e}) \ {e} = S /\ e \in S \cup {e}
  OBVIOUS
<1>3. SumFunctionOnSet(g, S \cup {e}) = g[e] + SumFunctionOnSet(g, S)
  <2>1. \A x \in S \cup {e} : g[x] \in Nat
    OBVIOUS
  <2>. QED  BY <1>1, <1>2, <2>1, SumTakes
<1>4. SumFunctionOnSet(f, S) = SumFunctionOnSet(g, S)
  <2>1. S \in SUBSET S /\ S \ S = {}
    OBVIOUS
  <2>. QED  BY <2>1, SumsEqual
<1>. QED  BY <1>3, <1>4

\* Fewer terms are no larger a sum.
LEMMA SumMonotone ==
  ASSUME NEW f, NEW S, IsFiniteSet(S), \A x \in S : f[x] \in Nat, NEW R \in SUBSET S
  PROVE  SumFunctionOnSet(f, R) <= SumFunctionOnSet(f, S)
<1> DEFINE Bad == {t \in SUBSET S :
                     ~(SumFunctionOnSet(f, t \cap R) <= SumFunctionOnSet(f, t))}
<1> SUFFICES ASSUME Bad # {} PROVE FALSE
  <2>1. S \cap R = R
    OBVIOUS
  <2>. QED BY <2>1
<1>0. Bad \in SUBSET (SUBSET S)
  OBVIOUS
<1>1. PICK t \in Bad : \A u \in Bad : u \subseteq t => u = t
  <2>. HIDE DEF Bad
  <2>. QED  BY <1>0, SmallestSubset
<1>2. IsFiniteSet(t) /\ IsFiniteSet(t \cap R)
  BY <1>1, FS_Subset
<1>3. SumFunctionOnSet(f, t) \in Nat /\ SumFunctionOnSet(f, t \cap R) \in Nat
  BY <1>1, <1>2, SumType
<1>4. t # {}
  <2>. SUFFICES ASSUME t = {} PROVE FALSE
    OBVIOUS
  <2>1. t \cap R = t
    OBVIOUS
  <2>2. ~(SumFunctionOnSet(f, t) <= SumFunctionOnSet(f, t))
    BY <1>1, <2>1
  <2>. QED  BY <1>3, <2>2
<1>5. PICK x \in t : TRUE
  BY <1>4
<1>6. SumFunctionOnSet(f, t) = f[x] + SumFunctionOnSet(f, t \ {x})
  BY <1>1, <1>2, SumTakes
<1>7. SumFunctionOnSet(f, (t \ {x}) \cap R) <= SumFunctionOnSet(f, t \ {x})
  BY <1>1, <1>5
<1>8. SumFunctionOnSet(f, t \ {x}) \in Nat /\ f[x] \in Nat
  BY <1>1, <1>2, FS_Subset, SumType
<1>9. CASE x \in R
  <2>1. x \in t \cap R /\ (t \cap R) \ {x} = (t \ {x}) \cap R /\ \A z \in t \cap R : f[z] \in Nat
    BY <1>1, <1>9
  <2>2. SumFunctionOnSet(f, t \cap R) = f[x] + SumFunctionOnSet(f, (t \ {x}) \cap R)
    BY <1>2, <2>1, SumTakes
  <2>3. SumFunctionOnSet(f, (t \ {x}) \cap R) \in Nat
    BY <1>1, <1>2, FS_Subset, SumType
  <2>. QED  BY <1>1, <1>3, <1>6, <1>7, <1>8, <2>2, <2>3
<1>10. CASE x \notin R
  <2>1. (t \ {x}) \cap R = t \cap R
    BY <1>10
  <2>. QED  BY <1>1, <1>3, <1>6, <1>7, <1>8, <2>1
<1>. QED  BY <1>9, <1>10

-----------------------------------------------------------------------------
(***************************************************************************)
(* Least elements.                                                          *)
(***************************************************************************)
\* A finite set has a least element under any strict order.
LEMMA LeastExists ==
  ASSUME NEW T, IsFiniteSet(T), T # {}, NEW R,
         \A t \in T : <<t, t>> \notin R,
         \A t, u, v \in T : <<t, u>> \in R /\ <<u, v>> \in R => <<t, v>> \in R
  PROVE  \E t \in T : \A u \in T : <<u, t>> \notin R
<1>. DEFINE Below(t) == {u \in T : <<u, t>> \in R}
            Ranks == {Cardinality(Below(t)) : t \in T}
<1>1. \A t \in T : IsFiniteSet(Below(t)) /\ Cardinality(Below(t)) \in Nat
  BY FS_Subset, FS_CardinalityType
<1>2. PICK r \in Ranks : \A q \in Ranks : ~(<<q, r>> \in OpToRel(<, Nat))
  <2>1. Ranks \subseteq Nat /\ Ranks # {}
    <3>. HIDE DEF Below
    <3>. QED BY <1>1
  <2>. HIDE DEF Ranks
  <2>. QED BY <2>1, NatLessThanWellFounded, WFMin
<1>3. PICK t \in T : r = Cardinality(Below(t))
  <2>. HIDE DEF Below
  <2>. QED OBVIOUS
<1>4. \A u \in T : <<u, t>> \notin R
  <2>. SUFFICES ASSUME NEW u \in T, <<u, t>> \in R PROVE FALSE
    OBVIOUS
  <2>1. Below(u) \subseteq Below(t) /\ u \in Below(t) /\ u \notin Below(u)
    OBVIOUS
  <2>2. Cardinality(Below(u)) < Cardinality(Below(t))
    <3>. DEFINE A == Below(u)  B == Below(t)
    <3>1. A \subseteq B /\ A # B /\ IsFiniteSet(B)
      BY <2>1, <1>1
    <3>2. Cardinality(A) <= Cardinality(B) /\ (Cardinality(A) = Cardinality(B) => A = B)
      <4>. HIDE DEF A, B
      <4>. QED BY <3>1, FS_Subset
    <3>3. Cardinality(A) \in Nat /\ Cardinality(B) \in Nat
      BY <1>1
    <3>. HIDE DEF A, B
    <3>4. Cardinality(A) < Cardinality(B)
      BY <3>1, <3>2, <3>3
    <3>. QED BY <3>4 DEF A, B
  <2>3. Cardinality(Below(u)) \in Ranks /\ Cardinality(Below(u)) \in Nat /\ r \in Nat
    <3>. HIDE DEF Below
    <3>. QED BY <1>1, <1>3
  <2>. HIDE DEF Ranks, Below
  <2>4. <<Cardinality(Below(u)), r>> \notin OpToRel(<, Nat)
    BY <2>3, <1>2
  <2>. QED BY <2>2, <2>3, <2>4, <1>3 DEF OpToRel
<1>. QED BY <1>4

LEMMA ImageIsFinite ==
  ASSUME NEW S, IsFiniteSet(S), NEW f
  PROVE  IsFiniteSet({f[x] : x \in S})
<1> DEFINE T == {f[x] : x \in S}
           g == [x \in S |-> f[x]]
<1>1. g \in Surjection(S, T)
  BY DEF Surjection
<1>. QED  BY <1>1, FS_Surjection

\* The least of two, and of finitely many, integers.
LEMMA MinOfTwo ==
  ASSUME NEW a \in Int, NEW b \in Int
  PROVE  Min({a, b}) \in {a, b} /\ Min({a, b}) <= a /\ Min({a, b}) <= b
<1> DEFINE P(x) == x \in {a, b} /\ \A y \in {a, b} : x <= y
<1>1. \E x : P(x)
  <2>1. CASE a <= b
    BY <2>1
  <2>2. CASE b <= a
    BY <2>2
  <2>. QED  BY <2>1, <2>2
<1>2. Min({a, b}) = CHOOSE x : P(x)
  BY DEF Min
<1>. QED  BY <1>1, <1>2

LEMMA MinOfInts ==
  ASSUME NEW S \in SUBSET Int, IsFiniteSet(S), S # {}
  PROVE  Min(S) \in S /\ \A y \in S : Min(S) <= y
<1> DEFINE R == {e \in S \X S : e[1] < e[2]}
<1>1. /\ \A t \in S : <<t, t>> \notin R
      /\ \A t, u, v \in S : <<t, u>> \in R /\ <<u, v>> \in R => <<t, v>> \in R
  OBVIOUS
<1>2. \A t, u \in S : <<t, u>> \in R <=> t < u
  OBVIOUS
<1>3. \E t \in S : \A u \in S : <<u, t>> \notin R
  <2>. HIDE DEF R
  <2>. QED  BY <1>1, LeastExists
<1>4. \E t \in S : \A u \in S : t <= u
  <2>1. PICK t \in S : \A u \in S : <<u, t>> \notin R
    BY <1>3
  <2>2. \A u \in S : ~(u < t)
    BY <1>2, <2>1
  <2>. HIDE DEF R
  <2>. QED  BY <2>2
<1>. QED  BY <1>4 DEF Min
-----------------------------------------------------------------------------
(***************************************************************************)
(* What domains have left, and what a partition asks of them.               *)
(***************************************************************************)
LEMMA FiniteNodesIn == ASSUME NEW d PROVE IsFiniteSet(NodesIn(d))
  BY TopologyAssumption, FS_Subset DEF NodesIn

LEMMA AggregateType ==
  ASSUME NEW residual, NEW q \in Kinds, \A n \in Nodes : residual[<<n, q>>] \in Nat,
         NEW d \in Domains
  PROVE  Aggregate(residual)[<<d, q>>] \in Nat
<1> DEFINE f == [n \in Nodes |-> residual[<<n, q>>]]
<1>1. \A n \in NodesIn(d) : f[n] \in Nat
  BY DEF NodesIn
<1>2. SumFunctionOnSet(f, NodesIn(d)) \in Nat
  <2>. HIDE DEF f
  <2>. QED  BY <1>1, FiniteNodesIn, SumType
<1>3. Aggregate(residual)[<<d, q>>] = SumFunctionOnSet(f, NodesIn(d))
  <2>1. <<d, q>> \in Domains \X Kinds
    OBVIOUS
  <2>. QED  BY <2>1 DEF Aggregate
<1>. QED  BY <1>2, <1>3

LEMMA DemandType ==
  ASSUME NEW n \in Nat, NEW p, DOMAIN p = 1 .. n, NEW chain, NEW q,
         \A k \in 1 .. n : chain[k][q] \in Nat, NEW d
  PROVE  Demand(chain, p, d, q) \in Nat
<1> DEFINE f == [k \in DOMAIN p |-> chain[k][q]]
           S == {k \in DOMAIN p : p[k] = d}
<1>1. IsFiniteSet(S)
  BY FS_Interval, FS_Subset
<1>2. \A k \in S : f[k] \in Nat
  OBVIOUS
<1>3. Demand(chain, p, d, q) = SumFunctionOnSet(f, S)
  BY DEF Demand
<1>. HIDE DEF f, S
<1>. QED  BY <1>1, <1>2, <1>3, SumType

LEMMA DemandOfNone ==
  ASSUME NEW chain, NEW d, NEW q
  PROVE  Demand(chain, <<>>, d, q) = 0
<1>1. {k \in DOMAIN <<>> : <<>>[k] = d} = {}
  OBVIOUS
<1>. QED  BY <1>1, SumEmpty DEF Demand

\* One more VNF asks for more in its own domain only.
LEMMA DemandAppend ==
  ASSUME NEW S, NEW p \in Seq(S), NEW e \in S, NEW chain, NEW q,
         \A k \in 1 .. Len(p) + 1 : chain[k][q] \in Nat, NEW d
  PROVE  Demand(chain, Append(p, e), d, q)
           = Demand(chain, p, d, q) + (IF e = d THEN chain[Len(p) + 1][q] ELSE 0)
<1> DEFINE n == Len(p)
           r == Append(p, e)
           f == [k \in DOMAIN p |-> chain[k][q]]
           g == [k \in DOMAIN r |-> chain[k][q]]
           A == {k \in DOMAIN p : p[k] = d}
           B == {k \in DOMAIN r : r[k] = d}
<1>1. /\ n \in Nat /\ DOMAIN p = 1 .. n /\ DOMAIN r = 1 .. n + 1 /\ r[n + 1] = e
      /\ \A k \in 1 .. n : r[k] = p[k]
  OBVIOUS
<1>2. IsFiniteSet(A) /\ n + 1 \notin A
  <2>1. IsFiniteSet(1 .. n) /\ A \in SUBSET (1 .. n)
    BY <1>1, FS_Interval
  <2>2. IsFiniteSet(A)
    <3>. HIDE DEF A
    <3>. QED  BY <2>1, FS_Subset
  <2>. QED  BY <1>1, <2>2
<1>3. B = IF e = d THEN A \cup {n + 1} ELSE A
  BY <1>1
<1>4. /\ \A k \in A : f[k] \in Nat /\ g[k] = f[k]
      /\ g[n + 1] = chain[n + 1][q] /\ g[n + 1] \in Nat
  BY <1>1
<1>5. Demand(chain, p, d, q) = SumFunctionOnSet(f, A) /\ Demand(chain, r, d, q) = SumFunctionOnSet(g, B)
  BY DEF Demand
<1>6. SumFunctionOnSet(f, A) \in Nat
  <2>. HIDE DEF f, A
  <2>. QED  BY <1>2, <1>4, SumType
<1>. HIDE DEF f, g, A, B, r, n
<1>7. CASE e = d
  <2>1. SumFunctionOnSet(g, A \cup {n + 1}) = g[n + 1] + SumFunctionOnSet(f, A)
    BY <1>2, <1>4, SumExtends
  <2>. QED  BY <1>3, <1>4, <1>5, <1>6, <1>7, <2>1 DEF r, n
<1>8. CASE e # d
  <2>1. A \in SUBSET A /\ A \ A = {}
    OBVIOUS
  <2>2. SumFunctionOnSet(f, A) = SumFunctionOnSet(g, A)
    BY <1>2, <1>4, <2>1, SumsEqual
  <2>. QED  BY <1>3, <1>5, <1>6, <1>8, <2>2 DEF r, n
<1>. QED  BY <1>7, <1>8

\* The first VNFs of a chain ask for no more than the chain.
LEMMA DemandPrefix ==
  ASSUME NEW S, NEW p \in Seq(S), NEW j \in 1 .. Len(p), NEW chain, NEW q,
         \A k \in 1 .. Len(p) : chain[k][q] \in Nat, NEW d
  PROVE  Demand(chain, SubSeq(p, 1, j), d, q) <= Demand(chain, p, d, q)
<1> DEFINE r == SubSeq(p, 1, j)
           f == [k \in DOMAIN p |-> chain[k][q]]
           g == [k \in DOMAIN r |-> chain[k][q]]
           A == {k \in DOMAIN p : p[k] = d}
           B == {k \in DOMAIN r : r[k] = d}
<1>1. DOMAIN p = 1 .. Len(p) /\ DOMAIN r = 1 .. j /\ \A k \in 1 .. j : r[k] = p[k]
  OBVIOUS
<1>2. IsFiniteSet(A) /\ B \in SUBSET A /\ IsFiniteSet(B)
  <2>1. IsFiniteSet(1 .. Len(p)) /\ A \in SUBSET (1 .. Len(p)) /\ B \in SUBSET A
    <3>1. IsFiniteSet(1 .. Len(p))
      BY FS_Interval
    <3>. QED  BY <1>1, <3>1
  <2>. HIDE DEF A, B
  <2>. QED  BY <2>1, FS_Subset
<1>3. /\ \A k \in A : f[k] \in Nat
      /\ \A k \in B : f[k] \in Nat /\ g[k] = f[k]
  BY <1>1
<1>4. Demand(chain, p, d, q) = SumFunctionOnSet(f, A) /\ Demand(chain, r, d, q) = SumFunctionOnSet(g, B)
  BY DEF Demand
<1>. HIDE DEF f, g, A, B, r
<1>5. SumFunctionOnSet(f, B) = SumFunctionOnSet(g, B)
  <2>1. IsFiniteSet(B) /\ (\A k \in B : f[k] \in Nat) /\ (\A k \in B : g[k] = f[k])
    BY <1>2, <1>3
  <2>. QED  BY <2>1, SumSame
<1>6. SumFunctionOnSet(f, B) <= SumFunctionOnSet(f, A)
  BY <1>2, <1>3, SumMonotone
<1>. QED  BY <1>4, <1>5, <1>6 DEF r
=============================================================================
