--------------------------- MODULE AdmissionProofs ---------------------------
(***************************************************************************)
(* Proofs about Admission, for every topology, every set of requests and    *)
(* every mode of the planner, the policy and the actors.                    *)
(*                                                                         *)
(* The inductive invariant says, at every point of the program, who holds   *)
(* what: while an arrival is being searched the residuals are the settled   *)
(* ones less what the actors and the coordinator have debited, and every    *)
(* debit sits where one of the undo paths will look for it.                 *)
(***************************************************************************)
EXTENDS Admission, SubstrateProofs

Searching == pc \in {"dispatch", "act", "cross", "decide"}

\* The request in progress, and the agreement of the two registries.
RequestInv ==
  /\ pc = "idle" => cur = NoRequest
  /\ pc # "idle" =>
       /\ cur \in Requests
       /\ stream[cur] = "present" /\ outcome[cur] = "none"
       /\ activePlans[cur] = NoPlan
  /\ \A r \in Requests :
       /\ stream[r] = "future" => activePlans[r] = NoPlan /\ outcome[r] = "none"
       /\ r # cur \/ pc # "verify" => registry[r] = activePlans[r]
       /\ r # cur =>
            (activePlans[r] # NoPlan <=> outcome[r] = "admitted" /\ stream[r] = "present")
  /\ pc = "verify" => registry[cur] # NoPlan

\* Who holds what.
BalanceInv ==
  /\ \A c \in Cells : residual[c] >= 0 /\ settled[c] >= 0
  /\ pc \in {"idle", "plan", "allocate"} => residual = settled
  /\ pc \in {"idle", "plan"} => actorUse = Nothing /\ crossUse = Nothing
  /\ Searching => \A c \in Cells : residual[c] = settled[c] - actorUse[c] - crossUse[c]
  /\ pc = "allocate" => \A c \in Cells : actorUse[c] + crossUse[c] <= settled[c]
  /\ pc = "verify" => \A c \in Cells : residual[c] = settled[c] - registry[cur].use[c]

\* The coordinator can undo everything: node cells from its snapshot, links of
\* the domains that answered, links of its own routes.
UndoInv ==
  /\ pc \in {"idle", "plan"} => todo = {} /\ refused = {} /\ crossTodo = {}
  /\ Searching =>
       /\ partition \in [Chain(cur) -> Domains]
       /\ todo \subseteq Range(partition) \ refused
       /\ crossTodo \subseteq Flows(cur)
       /\ DOMAIN snapshot = UNION {NodeCellsIn(d) : d \in Range(partition)}
       /\ \A c \in DOMAIN snapshot : snapshot[c] = settled[c]
       /\ \A c \in Cells : actorUse[c] # 0 =>
            \E d \in Range(partition) \ refused :
              c \in CellsIn(d) /\ (d \in todo => pc = "act" /\ d = actor)
       /\ \A c \in NodeCells : crossUse[c] = 0
  /\ pc \in {"dispatch", "act"} => crossUse = Nothing
  /\ pc \in {"cross", "decide"} => todo = {}

\* So can the actor that is running.
ActorInv ==
  pc = "act" =>
    /\ actor \in todo
    /\ toPlace \subseteq Chain(cur) /\ toRoute \subseteq Flows(cur)
    /\ DOMAIN actSnap \subseteq NodeCellsIn(actor)
    /\ \A c \in DOMAIN actSnap : actSnap[c] = settled[c]
    /\ \A c \in NodeCellsIn(actor) \ DOMAIN actSnap : actorUse[c] = 0

IInv == TypeOK /\ RequestInv /\ BalanceInv /\ UndoInv /\ ActorInv

-----------------------------------------------------------------------------
(***************************************************************************)
(* Types of the request's data.                                             *)
(***************************************************************************)
LEMMA VnfFacts ==
  ASSUME NEW r \in Requests
  PROVE  /\ K(r) \in Nat
         /\ Chain(r) \subseteq Nat
         /\ Flows(r) \subseteq Nat
         /\ \A k \in Chain(r) : Vnf(r, k) \in VnfType
         /\ \A f \in Flows(r) : Slice[r].bw[f] \in Nat
         /\ Slice[r].maxDelay \in Nat
<1>1. /\ Slice[r].vnfs \in Seq(VnfType)
      /\ Slice[r].bw \in Seq(Nat)
      /\ Slice[r].maxDelay \in Nat
      /\ Len(Slice[r].bw) = K(r) - 1
  BY RequestAssumption
<1>2. K(r) \in Nat
  BY <1>1, LenProperties DEF K
<1>3. \A k \in Chain(r) : Vnf(r, k) \in VnfType
  BY <1>1, ElementOfSeq DEF Chain, Vnf, K
<1>4. \A f \in Flows(r) : Slice[r].bw[f] \in Nat
  BY <1>1, ElementOfSeq DEF Flows
<1>. QED  BY <1>1, <1>2, <1>3, <1>4 DEF Chain, Flows

\* A plan with placements is told apart from the empty entry.
LEMMA PlanIsNoNoPlan == Plan # NoPlan
<1>1. "place" \in DOMAIN Plan
  BY DEF Plan
<1>2. "place" \notin DOMAIN NoPlan
  BY DEF NoPlan
<1>. QED  BY <1>1, <1>2

LEMMA NothingFacts ==
  /\ Nothing \in [Cells -> Nat]
  /\ NoPlan.use = Nothing
  /\ \A c \in Cells : Nothing[c] = 0
  BY DEF Nothing, NoPlan

-----------------------------------------------------------------------------
(***************************************************************************)
(* The initial states.                                                     *)
(***************************************************************************)
LEMMA InitInv == Init => IInv
<1> SUFFICES ASSUME Init PROVE IInv
  OBVIOUS
<1>1. Capacity \in [Cells -> Nat]
  BY TopologyAssumption
<1>2. TypeOK
  BY <1>1, NothingFacts DEF Init, TypeOK, EpisodeStats, NoStats, PcValues
<1>3. RequestInv
  BY DEF Init, RequestInv
<1>4. BalanceInv
  BY <1>1 DEF Init, BalanceInv, Searching
<1>5. UndoInv
  BY DEF Init, UndoInv, Searching
<1>6. ActorInv
  BY DEF Init, ActorInv
<1>. QED  BY <1>2, <1>3, <1>4, <1>5, <1>6 DEF IInv

-----------------------------------------------------------------------------
(***************************************************************************)
(* Events.                                                                 *)
(***************************************************************************)
LEMMA ArriveInv ==
  ASSUME IInv, NEW r \in Requests, Arrive(r)
  PROVE  IInv'
<1>. USE DEF IInv
<1>1. TypeOK'
  BY DEF Arrive, TypeOK, EpisodeStats, PcValues, arrivalVars, actorVars, planVars
<1>2. RequestInv'
  BY RequestAssumption DEF Arrive, TypeOK, RequestInv
<1>3. BalanceInv'
  BY DEF Arrive, BalanceInv, Searching, planVars
<1>4. UndoInv'
  BY DEF Arrive, UndoInv, Searching, arrivalVars
<1>5. ActorInv'
  BY DEF Arrive, ActorInv
<1>. QED  BY <1>1, <1>2, <1>3, <1>4, <1>5

LEMMA DepartAdmittedInv ==
  ASSUME IInv, NEW r \in Requests, DepartAdmitted(r)
  PROVE  IInv'
<1>. USE DEF IInv
<1>1. activePlans[r].use \in [Cells -> Nat] /\ residual \in [Cells -> Int]
  BY DEF TypeOK
<1>2. residual' \in [Cells -> Int]
  BY <1>1 DEF DepartAdmitted, Credited
<1>3. TypeOK'
  BY <1>2, NothingFacts DEF DepartAdmitted, TypeOK, EpisodeStats, arrivalVars, actorVars, planVars
<1>4. RequestInv'
  BY DEF DepartAdmitted, TypeOK, RequestInv
<1>5. BalanceInv'
  <2>1. \A c \in Cells : residual'[c] >= 0
    BY <1>1 DEF DepartAdmitted, Credited, BalanceInv
  <2>. QED  BY <2>1 DEF DepartAdmitted, BalanceInv, Searching, planVars
<1>6. UndoInv'
  BY DEF DepartAdmitted, UndoInv, Searching, arrivalVars
<1>7. ActorInv'
  BY DEF DepartAdmitted, ActorInv
<1>. QED  BY <1>3, <1>4, <1>5, <1>6, <1>7

LEMMA DepartRejectedInv ==
  ASSUME IInv, NEW r \in Requests, DepartRejected(r)
  PROVE  IInv'
<1>. USE DEF IInv
<1>1. TypeOK'
  BY DEF DepartRejected, TypeOK, arrivalVars, actorVars, planVars
<1>2. RequestInv'
  BY DEF DepartRejected, TypeOK, RequestInv
<1>3. BalanceInv'
  BY DEF DepartRejected, BalanceInv, Searching, planVars
<1>4. UndoInv'
  BY DEF DepartRejected, UndoInv, Searching, arrivalVars
<1>5. ActorInv'
  BY DEF DepartRejected, ActorInv
<1>. QED  BY <1>1, <1>2, <1>3, <1>4, <1>5

LEMMA ResetInv ==
  ASSUME IInv, Reset
  PROVE  IInv'
<1>. USE DEF IInv
<1>1. Capacity \in [Cells -> Nat]
  BY TopologyAssumption
<1>2. TypeOK'
  BY <1>1, NothingFacts DEF Reset, TypeOK, EpisodeStats, NoStats, arrivalVars, actorVars, planVars
<1>3. RequestInv'
  BY DEF Reset, RequestInv
<1>4. BalanceInv'
  BY <1>1 DEF Reset, BalanceInv, Searching, planVars
<1>5. UndoInv'
  BY DEF Reset, UndoInv, Searching, arrivalVars
<1>6. ActorInv'
  BY DEF Reset, ActorInv
<1>. QED  BY <1>2, <1>3, <1>4, <1>5, <1>6

-----------------------------------------------------------------------------
(***************************************************************************)
(* Planning and dispatch.                                                   *)
(***************************************************************************)
LEMMA RejectStructuralInv ==
  ASSUME IInv, RejectStructural
  PROVE  IInv'
<1>. USE DEF IInv
<1>1. TypeOK'
  <2>1. stats' \in EpisodeStats
    BY DEF RejectStructural, TypeOK, EpisodeStats
  <2>2. pc' \in PcValues /\ DOMAIN outcome' = Requests
    BY DEF RejectStructural, TypeOK, PcValues
  <2>. QED  BY <2>1, <2>2, NothingFacts DEF RejectStructural, ClearArrival, TypeOK, actorVars
<1>2. RequestInv'
  BY RequestAssumption DEF RejectStructural, ClearArrival, TypeOK, RequestInv
<1>3. BalanceInv'
  BY DEF RejectStructural, ClearArrival, BalanceInv, Searching
<1>4. UndoInv'
  BY DEF RejectStructural, ClearArrival, UndoInv, Searching
<1>5. ActorInv'
  BY DEF RejectStructural, ActorInv
<1>. QED  BY <1>1, <1>2, <1>3, <1>4, <1>5

LEMMA ChoosePartitionInv ==
  ASSUME IInv, NEW p \in [Chain(cur) -> Domains], ChoosePartition(p)
  PROVE  IInv'
<1>. USE DEF IInv
<1>1. pc = "plan" /\ cur \in Requests /\ actorUse = Nothing /\ crossUse = Nothing
      /\ residual = settled /\ todo = {} /\ refused = {} /\ pc' \in {"dispatch", "decide"}
  BY DEF ChoosePartition, RequestInv, BalanceInv, UndoInv
<1>2. Range(p) \subseteq Domains
  BY DEF Range
<1>3. CrossFlows(cur, p) \subseteq Flows(cur) /\ Flows(cur) \subseteq Nat
  BY <1>1, VnfFacts DEF CrossFlows
<1>4. TypeOK'
  BY <1>2, <1>3 DEF ChoosePartition, TypeOK, PcValues, runnerVars, actorVars, planVars
<1>5. RequestInv'
  BY <1>1 DEF ChoosePartition, RequestInv, runnerVars
<1>6. BalanceInv'
  BY <1>1, NothingFacts DEF ChoosePartition, BalanceInv, Searching, TypeOK, planVars
<1>7. UndoInv'
  <2>1. partition' = p /\ todo' \subseteq Range(p) /\ refused' = {}
    BY <1>1 DEF ChoosePartition
  <2>2. crossTodo' \subseteq Flows(cur)
    <3>1. CASE Contiguous(p)
      BY <1>3, <3>1 DEF ChoosePartition
    <3>2. CASE ~Contiguous(p)
      BY <1>1, <3>2 DEF ChoosePartition, UndoInv
    <3>. QED  BY <3>1, <3>2
  <2>3. /\ DOMAIN snapshot' = UNION {NodeCellsIn(d) : d \in Range(p)}
        /\ \A c \in DOMAIN snapshot' : snapshot'[c] = settled[c]
    BY <1>1 DEF ChoosePartition
  <2>4. pc' = "decide" => todo' = {}
    BY <1>1 DEF ChoosePartition
  <2>. QED
    BY <1>1, <2>1, <2>2, <2>3, <2>4, NothingFacts
       DEF ChoosePartition, UndoInv, Searching, Cells, planVars
<1>8. ActorInv'
  BY <1>1 DEF ActorInv
<1>. QED  BY <1>4, <1>5, <1>6, <1>7, <1>8

LEMMA StartActorInv ==
  ASSUME IInv, NEW d \in todo, StartActor(d)
  PROVE  IInv'
<1>. USE DEF IInv
<1>1. pc = "dispatch" /\ cur \in Requests /\ d \in Domains
  BY DEF StartActor, RequestInv, TypeOK
<1>2. toPlace' \subseteq Chain(cur) /\ toRoute' \subseteq Flows(cur)
  BY DEF StartActor, IntraFlows
<1>3. TypeOK'
  BY <1>1, <1>2, VnfFacts
     DEF StartActor, TypeOK, PcValues, runnerVars, arrivalVars, planVars
<1>4. RequestInv'
  BY <1>1 DEF StartActor, RequestInv, runnerVars
<1>5. BalanceInv'
  BY <1>1 DEF StartActor, BalanceInv, Searching, planVars
<1>6. UndoInv'
  BY <1>1 DEF StartActor, UndoInv, Searching, arrivalVars, planVars
<1>7. \A c \in NodeCellsIn(d) : actorUse[c] = 0
  <2> SUFFICES ASSUME NEW c \in NodeCellsIn(d), actorUse[c] # 0 PROVE FALSE
    OBVIOUS
  <2>1. c \in CellsIn(d) /\ c \in Cells /\ DomainOf[c[1]] = d
    BY CellDomain DEF CellsIn
  <2>2. PICK e \in Range(partition) \ refused :
          c \in CellsIn(e) /\ (e \in todo => pc = "act" /\ e = actor)
    BY <1>1, <2>1 DEF UndoInv, Searching
  <2>3. e = d
    BY <2>1, <2>2, CellDomain
  <2>. QED  BY <1>1, <2>2, <2>3
<1>8. ActorInv'
  BY <1>2, <1>7 DEF StartActor, ActorInv, arrivalVars, planVars
<1>. QED  BY <1>3, <1>4, <1>5, <1>6, <1>8

LEMMA NoActorInv ==
  ASSUME IInv, NEW d \in todo, NoActor(d)
  PROVE  IInv'
<1>. USE DEF IInv
<1>1. pc = "dispatch" /\ pc' = "dispatch"
  BY DEF NoActor
<1>2. TypeOK'
  BY DEF NoActor, TypeOK, runnerVars, actorVars, planVars
<1>3. RequestInv'
  BY DEF NoActor, RequestInv, runnerVars
<1>4. BalanceInv'
  BY <1>1 DEF NoActor, BalanceInv, Searching, planVars
<1>5. UndoInv'
  <2>1. \A c \in Cells : actorUse[c] # 0 =>
          \E e \in Range(partition) \ refused : c \in CellsIn(e) /\ e \notin todo
    BY <1>1 DEF UndoInv, Searching
  <2>. QED  BY <1>1, <2>1 DEF NoActor, UndoInv, Searching, planVars
<1>6. ActorInv'
  BY <1>1 DEF ActorInv
<1>. QED  BY <1>2, <1>3, <1>4, <1>5, <1>6

LEMMA FinishDispatchInv ==
  ASSUME IInv, FinishDispatch
  PROVE  IInv'
<1>. USE DEF IInv
<1>1. pc = "dispatch" /\ pc' \in {"cross", "decide"} /\ todo = {}
  BY DEF FinishDispatch
<1>2. TypeOK'
  BY <1>1 DEF FinishDispatch, TypeOK, PcValues, runnerVars, arrivalVars, actorVars, planVars
<1>3. RequestInv'
  BY <1>1 DEF FinishDispatch, RequestInv, runnerVars
<1>4. BalanceInv'
  BY <1>1 DEF FinishDispatch, BalanceInv, Searching, planVars
<1>5. UndoInv'
  BY <1>1 DEF FinishDispatch, UndoInv, Searching, arrivalVars, planVars
<1>6. ActorInv'
  BY <1>1 DEF ActorInv
<1>. QED  BY <1>2, <1>3, <1>4, <1>5, <1>6

-----------------------------------------------------------------------------
(***************************************************************************)
(* The actors.                                                             *)
(***************************************************************************)
\* While an actor runs, what it has debited comes off the settled residuals.
LEMMA ActFacts ==
  ASSUME IInv, pc = "act"
  PROVE  /\ cur \in Requests /\ actor \in todo /\ actor \in Range(partition) \ refused
         /\ crossUse = Nothing
         /\ residual \in [Cells -> Int] /\ settled \in [Cells -> Int]
         /\ actorUse \in [Cells -> Nat]
         /\ \A c \in Cells : residual[c] = settled[c] - actorUse[c]
         /\ NodeCellsIn(actor) \subseteq Cells /\ LinksIn(actor) \subseteq Cells
<1>1. crossUse = Nothing /\ actor \in todo /\ todo \subseteq Range(partition) \ refused
  BY DEF IInv, UndoInv, ActorInv, Searching
<1>2. \A c \in Cells : residual[c] = settled[c] - actorUse[c] - crossUse[c]
  BY DEF IInv, BalanceInv, Searching
<1>3. residual \in [Cells -> Int] /\ settled \in [Cells -> Int] /\ actorUse \in [Cells -> Nat]
  BY DEF IInv, TypeOK
<1>4. NodeCellsIn(actor) \subseteq Cells /\ LinksIn(actor) \subseteq Cells
  BY CellDomain DEF CellsIn
<1>. QED  BY <1>1, <1>2, <1>3, <1>4, NothingFacts DEF IInv, RequestInv

LEMMA PlaceVnfInv ==
  ASSUME IInv, NEW k \in toPlace, NEW n \in NodesIn(actor), PlaceVnf(k, n)
  PROVE  IInv'
<1> DEFINE use == NodeUse(n, Vnf(cur, k))
<1>1. pc = "act" /\ pc' = "act" /\ n \in Nodes /\ k \in Chain(cur) /\ n \in Fitting(k)
  BY DEF IInv, PlaceVnf, NodesIn, ActorInv, Selectable
<1>2. /\ Vnf(cur, k).cpu \in Nat /\ Vnf(cur, k).ram \in Nat /\ Vnf(cur, k).intensity \in Nat
  BY <1>1, ActFacts, VnfFacts DEF VnfType
<1>3. /\ use \in [Cells -> Nat]
      /\ \A c \in Cells : use[c] # 0 => c \in {n} \X Kinds
      /\ use[<<n, "cpu">>] = Vnf(cur, k).cpu
      /\ use[<<n, "ram">>] = Vnf(cur, k).ram
  BY <1>1, <1>2, NodeUseFacts
<1>4. {n} \X Kinds \subseteq NodeCellsIn(actor) /\ {n} \X Kinds \subseteq NodeCells
  BY <1>1 DEF NodeCellsIn, NodeCells
<1>5. /\ actorUse' \in [Cells -> Nat]
      /\ \A c \in Cells : actorUse'[c] = actorUse[c] + use[c]
  BY <1>1, <1>3, ActFacts, PlusFacts DEF PlaceVnf
<1>6. /\ residual' \in [Cells -> Int]
      /\ \A c \in Cells : residual'[c] = residual[c] - use[c]
  BY <1>1, <1>3, ActFacts DEF PlaceVnf, Debited
<1>7. \A c \in Cells : residual'[c] >= 0
  <2> SUFFICES ASSUME NEW c \in Cells PROVE residual'[c] >= 0
    OBVIOUS
  <2>1. CASE c \in {n} \X Kinds
    <3>1. c = <<n, "cpu">> \/ c = <<n, "ram">>
      BY <2>1 DEF Kinds
    <3>2. residual[<<n, "cpu">>] >= Vnf(cur, k).cpu /\ residual[<<n, "ram">>] >= Vnf(cur, k).ram
      BY <1>1 DEF Fitting
    <3>. QED  BY <1>1, <1>2, <1>3, <1>6, <3>1, <3>2, ActFacts
  <2>2. CASE c \notin {n} \X Kinds
    BY <1>1, <1>3, <1>6, <2>2, ActFacts DEF IInv, BalanceInv
  <2>. QED  BY <2>1, <2>2
<1>8. TypeOK'
  <2>1. ProcDelay[n] * Vnf(cur, k).intensity \in Nat
    BY <1>1, <1>2, TopologyAssumption
  <2>2. actDelay' \in Nat
    BY <2>1 DEF IInv, TypeOK, PlaceVnf
  <2>3. toPlace' \subseteq Nat
    BY DEF IInv, TypeOK, PlaceVnf
  <2>. QED
    BY <1>5, <1>6, <2>2, <2>3 DEF IInv, TypeOK, PlaceVnf, runnerVars, arrivalVars
<1>9. RequestInv'
  BY <1>1 DEF IInv, RequestInv, PlaceVnf, runnerVars
<1>10. BalanceInv'
  <2>1. \A c \in Cells : residual'[c] = settled[c] - actorUse'[c] - crossUse[c]
    <3>1. \A c \in Cells :
            /\ residual[c] = settled[c] - actorUse[c] /\ crossUse[c] = 0
            /\ {residual[c], settled[c], actorUse[c], use[c]} \subseteq Int
      BY <1>1, <1>3, ActFacts, NothingFacts
    <3>. HIDE DEF use
    <3>. QED  BY <1>5, <1>6, <3>1
  <2>2. settled' = settled /\ crossUse' = crossUse
    BY DEF PlaceVnf, runnerVars
  <2>3. \A c \in Cells : settled[c] >= 0
    BY DEF IInv, BalanceInv
  <2>. QED  BY <1>1, <1>7, <2>1, <2>2, <2>3 DEF BalanceInv, Searching
<1>11. UndoInv'
  <2>1. \A c \in Cells : actorUse'[c] # 0 =>
          \E d \in Range(partition) \ refused :
            c \in CellsIn(d) /\ (d \in todo => d = actor)
    <3> SUFFICES ASSUME NEW c \in Cells, actorUse'[c] # 0
                 PROVE  \E d \in Range(partition) \ refused :
                          c \in CellsIn(d) /\ (d \in todo => d = actor)
      OBVIOUS
    <3>1. CASE c \in {n} \X Kinds
      BY <1>1, <1>4, <3>1, ActFacts DEF CellsIn
    <3>2. CASE c \notin {n} \X Kinds
      <4>1. actorUse[c] # 0
        BY <1>1, <1>3, <1>5, <3>2, ActFacts
      <4>. QED  BY <1>1, <4>1 DEF IInv, UndoInv, Searching
    <3>. QED  BY <3>1, <3>2
  <2>. QED
    BY <1>1, <2>1 DEF IInv, UndoInv, Searching, PlaceVnf, arrivalVars
<1>12. ActorInv'
  <2>1. DOMAIN actSnap' = DOMAIN actSnap \cup ({n} \X Kinds)
    BY DEF PlaceVnf, Remember
  <2>2. \A c \in DOMAIN actSnap' : actSnap'[c] = settled[c]
    <3> SUFFICES ASSUME NEW c \in DOMAIN actSnap' PROVE actSnap'[c] = settled[c]
      OBVIOUS
    <3>1. CASE c \in DOMAIN actSnap
      BY <1>1, <2>1, <3>1 DEF IInv, ActorInv, PlaceVnf, Remember
    <3>2. CASE c \notin DOMAIN actSnap
      <4>1. c \in {n} \X Kinds /\ actSnap'[c] = residual[c]
        BY <2>1, <3>2 DEF PlaceVnf, Remember
      <4>2. actorUse[c] = 0 /\ c \in Cells
        BY <1>1, <1>4, <3>2, <4>1, ActFacts DEF IInv, ActorInv
      <4>. QED  BY <1>1, <4>1, <4>2, ActFacts
    <3>. QED  BY <3>1, <3>2
  <2>3. \A c \in NodeCellsIn(actor) \ DOMAIN actSnap' : actorUse'[c] = 0
    BY <1>1, <1>3, <1>5, <2>1, ActFacts DEF IInv, ActorInv
  <2>. QED
    BY <1>1, <1>4, <2>1, <2>2, <2>3
       DEF IInv, ActorInv, PlaceVnf, arrivalVars
<1>. QED  BY <1>8, <1>9, <1>10, <1>11, <1>12 DEF IInv

\* An actor that gives up leaves the residuals as the other actors made them.
LEMMA ActorUnwoundFacts ==
  ASSUME IInv, pc = "act"
  PROVE  /\ ActorUnwound \in [Cells -> Int]
         /\ \A c \in Cells :
              ActorUnwound[c] = settled[c] - (IF c \in CellsIn(actor) THEN 0 ELSE actorUse[c])
<1> SUFFICES ASSUME NEW c \in Cells
             PROVE  /\ ActorUnwound[c] \in Int
                    /\ ActorUnwound[c] =
                         settled[c] - (IF c \in CellsIn(actor) THEN 0 ELSE actorUse[c])
  BY DEF ActorUnwound
<1>1. residual[c] = settled[c] - actorUse[c] /\ {residual[c], settled[c]} \subseteq Int
      /\ actorUse[c] \in Nat
  BY ActFacts
<1>2. CASE c \in DOMAIN actSnap
  <2>1. actSnap[c] = settled[c] /\ c \in CellsIn(actor)
    BY <1>2 DEF IInv, ActorInv, CellsIn
  <2>. QED  BY <1>1, <1>2, <2>1 DEF ActorUnwound
<1>3. CASE c \notin DOMAIN actSnap /\ c \in LinksIn(actor)
  BY <1>1, <1>3 DEF ActorUnwound, CellsIn
<1>4. CASE c \notin DOMAIN actSnap /\ c \notin LinksIn(actor)
  <2>1. c \in CellsIn(actor) => actorUse[c] = 0
    BY <1>4 DEF IInv, ActorInv, CellsIn
  <2>. QED  BY <1>1, <1>4, <2>1 DEF ActorUnwound
<1>. QED  BY <1>2, <1>3, <1>4

LEMMA ActorRollbackInv ==
  ASSUME IInv, pc = "act", ActorRollback
  PROVE  IInv'
<1>1. pc' = "dispatch"
  BY DEF ActorRollback
<1>2. /\ actorUse' \in [Cells -> Nat]
      /\ \A c \in Cells : actorUse'[c] = IF c \in CellsIn(actor) THEN 0 ELSE actorUse[c]
  BY ActFacts DEF ActorRollback
<1>3. /\ residual' \in [Cells -> Int]
      /\ \A c \in Cells : residual'[c] = settled[c] - actorUse'[c]
  BY <1>2, ActorUnwoundFacts DEF ActorRollback
<1>4. \A c \in Cells : residual'[c] >= 0
  <2> SUFFICES ASSUME NEW c \in Cells PROVE residual'[c] >= 0
    OBVIOUS
  <2>1. residual[c] >= 0 /\ settled[c] >= 0 /\ residual[c] = settled[c] - actorUse[c]
    BY ActFacts DEF IInv, BalanceInv
  <2>2. CASE c \in CellsIn(actor)
    BY <1>2, <1>3, <2>1, <2>2, ActFacts
  <2>3. CASE c \notin CellsIn(actor)
    BY <1>2, <1>3, <2>1, <2>3, ActFacts
  <2>. QED  BY <2>2, <2>3
<1>5. TypeOK'
  <2>1. refused' \subseteq Domains
    BY ActFacts DEF IInv, TypeOK, ActorRollback
  <2>. QED
    BY <1>2, <1>3, <2>1 DEF IInv, TypeOK, PcValues, ActorRollback, runnerVars
<1>6. RequestInv'
  BY DEF IInv, RequestInv, ActorRollback, runnerVars
<1>7. BalanceInv'
  <2>1. \A c \in Cells : residual'[c] >= 0 /\ settled[c] >= 0
    BY <1>1, <1>2, <1>3, <1>4 DEF IInv, BalanceInv
  <2>2. settled' = settled /\ crossUse' = crossUse
    BY DEF ActorRollback
  <2>. QED
    BY <1>1, <1>2, <1>3, <1>4, <2>1, <2>2, ActFacts, NothingFacts DEF BalanceInv, Searching
<1>8. UndoInv'
  <2>1. \A c \in Cells : actorUse'[c] # 0 =>
          \E d \in Range(partition) \ refused' : c \in CellsIn(d) /\ d \notin todo'
    <3> SUFFICES ASSUME NEW c \in Cells, actorUse'[c] # 0
                 PROVE  \E d \in Range(partition) \ refused' :
                          c \in CellsIn(d) /\ d \notin todo'
      OBVIOUS
    <3>1. c \notin CellsIn(actor) /\ actorUse[c] # 0
      BY <1>2
    <3>2. PICK d \in Range(partition) \ refused :
            c \in CellsIn(d) /\ (d \in todo => d = actor)
      BY <3>1 DEF IInv, UndoInv, Searching
    <3>. QED  BY <3>1, <3>2 DEF ActorRollback
  <2>. QED
    BY <1>1, <2>1 DEF IInv, UndoInv, Searching, ActorRollback
<1>9. ActorInv'
  BY <1>1 DEF ActorInv
<1>. QED  BY <1>5, <1>6, <1>7, <1>8, <1>9 DEF IInv

LEMMA RouteOnNodeInv ==
  ASSUME IInv, NEW f \in toRoute, RouteOnNode(f)
  PROVE  IInv'
<1>. USE DEF IInv
<1>1. pc = "act" /\ pc' = "act"
  BY DEF RouteOnNode
<1>2. TypeOK'
  BY DEF RouteOnNode, TypeOK, runnerVars, arrivalVars
<1>3. RequestInv'
  BY DEF RouteOnNode, RequestInv, runnerVars
<1>4. BalanceInv'
  BY <1>1 DEF RouteOnNode, BalanceInv, Searching
<1>5. UndoInv'
  BY <1>1 DEF RouteOnNode, UndoInv, Searching, arrivalVars
<1>6. ActorInv'
  BY <1>1 DEF RouteOnNode, ActorInv, arrivalVars
<1>. QED  BY <1>2, <1>3, <1>4, <1>5, <1>6

\* What a usable route debits is there to be debited.
LEMMA UsableRouteFacts ==
  ASSUME IInv, NEW rate \in Nat, NEW S, NEW u, NEW v, NEW p \in Paths(S, u, v),
         NEW budget, Usable(residual, p, rate, budget)
  PROVE  /\ RouteUse(LinksOf(p), rate) \in [Cells -> Nat]
         /\ \A c \in Cells :
              /\ RouteUse(LinksOf(p), rate)[c] # 0 => c \in LinksOf(p)
              /\ RouteUse(LinksOf(p), rate)[c] <= residual[c]
<1>1. LinksOf(p) \subseteq Links
  BY PathFacts
<1>2. residual \in [Cells -> Int] /\ \A c \in Cells : residual[c] >= 0
  BY DEF IInv, TypeOK, BalanceInv
<1>. QED  BY <1>1, <1>2, RouteUseFacts DEF Usable

LEMMA RouteIntraInv ==
  ASSUME IInv, NEW f \in toRoute, NEW C, NEW p \in C, RouteIntra(f, C, p)
  PROVE  IInv'
<1> DEFINE use == RouteUse(LinksOf(p), Slice[cur].bw[f])
<1>1. pc = "act" /\ pc' = "act" /\ f \in Flows(cur)
      /\ p \in Paths(NodesIn(actor), placed[f], placed[f + 1])
  BY DEF IInv, RouteIntra, ActorInv, KShortest
<1>2. Slice[cur].bw[f] \in Nat /\ PathDelay[p] \in Nat
  BY <1>1, ActFacts, VnfFacts, PathFacts
<1>3. /\ use \in [Cells -> Nat]
      /\ \A c \in Cells : use[c] # 0 => c \in LinksOf(p)
      /\ \A c \in Cells : use[c] <= residual[c]
  BY <1>1, <1>2, UsableRouteFacts DEF RouteIntra
<1>4. LinksOf(p) \subseteq LinksIn(actor)
  BY <1>1, PathFacts DEF LinksIn, NodesIn
<1>5. /\ actorUse' \in [Cells -> Nat]
      /\ \A c \in Cells : actorUse'[c] = actorUse[c] + use[c]
  BY <1>1, <1>3, ActFacts, PlusFacts DEF RouteIntra
<1>6. /\ residual' \in [Cells -> Int]
      /\ \A c \in Cells : residual'[c] = residual[c] - use[c]
  <2>1. residual' = Debited(residual, use)
    BY DEF RouteIntra
  <2>2. residual \in [Cells -> Int] /\ use \in [Cells -> Nat]
    BY <1>1, <1>3, ActFacts
  <2>. HIDE DEF use
  <2>. QED  BY <2>1, <2>2 DEF Debited
<1>7. \A c \in Cells : residual'[c] >= 0
  <2>1. \A c \in Cells : residual[c] \in Int /\ use[c] \in Nat
    BY <1>1, <1>3, ActFacts
  <2>. HIDE DEF use
  <2>. QED  BY <1>3, <1>6, <2>1
<1>8. TypeOK'
  <2>1. actDelay' \in Nat
    BY <1>2 DEF IInv, TypeOK, RouteIntra
  <2>4. toRoute' \subseteq Nat
    BY DEF IInv, TypeOK, RouteIntra
  <2>2. UNCHANGED <<runnerVars, pc, cur, arrivalVars, actor, toPlace, crossUse, settled>>
    BY DEF RouteIntra
  <2>3. TypeOK
    BY DEF IInv
  <2>. QED
    BY <1>1, <1>5, <1>6, <2>1, <2>2, <2>3, <2>4 DEF TypeOK, runnerVars, arrivalVars
<1>9. RequestInv'
  BY <1>1 DEF IInv, RequestInv, RouteIntra, runnerVars
<1>10. BalanceInv'
  <2>1. \A c \in Cells : residual'[c] = settled[c] - actorUse'[c] - crossUse[c]
    <3>1. \A c \in Cells :
            /\ residual[c] = settled[c] - actorUse[c] /\ crossUse[c] = 0
            /\ {residual[c], settled[c], actorUse[c], use[c]} \subseteq Int
      BY <1>1, <1>3, ActFacts, NothingFacts
    <3>. HIDE DEF use
    <3>. QED  BY <1>5, <1>6, <3>1
  <2>2. settled' = settled /\ crossUse' = crossUse
    BY DEF RouteIntra, runnerVars
  <2>3. \A c \in Cells : settled[c] >= 0
    BY DEF IInv, BalanceInv
  <2>. QED  BY <1>1, <1>7, <2>1, <2>2, <2>3 DEF BalanceInv, Searching
<1>11. UndoInv'
  <2>1. \A c \in Cells : actorUse'[c] # 0 =>
          \E d \in Range(partition) \ refused :
            c \in CellsIn(d) /\ (d \in todo => d = actor)
    <3> SUFFICES ASSUME NEW c \in Cells, actorUse'[c] # 0
                 PROVE  \E d \in Range(partition) \ refused :
                          c \in CellsIn(d) /\ (d \in todo => d = actor)
      OBVIOUS
    <3>1. CASE c \in LinksOf(p)
      BY <1>1, <1>4, <3>1, ActFacts DEF CellsIn
    <3>2. CASE c \notin LinksOf(p)
      <4>1. actorUse[c] # 0
        BY <1>1, <1>3, <1>5, <3>2, ActFacts
      <4>. QED  BY <1>1, <4>1 DEF IInv, UndoInv, Searching
    <3>. QED  BY <3>1, <3>2
  <2>. QED
    BY <1>1, <2>1 DEF IInv, UndoInv, Searching, RouteIntra, arrivalVars
<1>12. ActorInv'
  <2>1. \A c \in NodeCellsIn(actor) : use[c] = 0
    <3> SUFFICES ASSUME NEW c \in NodeCellsIn(actor) PROVE use[c] = 0
      OBVIOUS
    <3>1. c \in NodeCells /\ c \in Cells
      BY DEF NodeCellsIn, NodesIn, NodeCells, Cells
    <3>2. c \notin LinksOf(p)
      BY <1>1, <3>1, PathFacts, LinksAreNoNodeCells
    <3>. QED  BY <1>3, <3>1, <3>2
  <2>2. \A c \in NodeCellsIn(actor) \ DOMAIN actSnap : actorUse'[c] = 0
    BY <1>1, <1>3, <1>5, <2>1, ActFacts DEF IInv, ActorInv
  <2>. QED
    BY <1>1, <2>2 DEF IInv, ActorInv, RouteIntra, arrivalVars
<1>. QED  BY <1>8, <1>9, <1>10, <1>11, <1>12 DEF IInv

LEMMA ActorAnswersInv ==
  ASSUME IInv, ActorAnswers
  PROVE  IInv'
<1>. USE DEF IInv
<1>1. pc = "act" /\ pc' = "dispatch"
  BY DEF ActorAnswers
<1>2. TypeOK'
  BY DEF ActorAnswers, TypeOK, PcValues, runnerVars, planVars
<1>3. RequestInv'
  BY <1>1 DEF ActorAnswers, RequestInv, runnerVars
<1>4. BalanceInv'
  BY <1>1 DEF ActorAnswers, BalanceInv, Searching, planVars
<1>5. UndoInv'
  <2>1. \A c \in Cells : actorUse[c] # 0 =>
          \E d \in Range(partition) \ refused :
            c \in CellsIn(d) /\ (d \in todo => d = actor)
    BY <1>1 DEF UndoInv, Searching
  <2>. QED
    BY <1>1, <2>1 DEF ActorAnswers, UndoInv, Searching, planVars
<1>6. ActorInv'
  BY <1>1 DEF ActorInv
<1>. QED  BY <1>2, <1>3, <1>4, <1>5, <1>6

-----------------------------------------------------------------------------
(***************************************************************************)
(* Cross-domain routing.                                                    *)
(***************************************************************************)
LEMMA RouteCrossInv ==
  ASSUME IInv, NEW f \in crossTodo, NEW C, NEW p \in C, RouteCross(f, C, p)
  PROVE  IInv'
<1> DEFINE use == RouteUse(LinksOf(p), Slice[cur].bw[f])
<1>1. pc = "cross" /\ pc' = "cross" /\ cur \in Requests /\ f \in Flows(cur)
      /\ p \in Paths(Nodes, placed[f], placed[f + 1])
  BY DEF IInv, RouteCross, UndoInv, Searching, RequestInv, KShortest
<1>2. Slice[cur].bw[f] \in Nat /\ PathDelay[p] \in Nat /\ LinksOf(p) \subseteq Links
  BY <1>1, VnfFacts, PathFacts
<1>3. /\ use \in [Cells -> Nat]
      /\ \A c \in Cells : use[c] # 0 => c \in LinksOf(p)
      /\ \A c \in Cells : use[c] <= residual[c]
  BY <1>1, <1>2, UsableRouteFacts DEF RouteCross
<1>4. /\ residual \in [Cells -> Int] /\ settled \in [Cells -> Int]
      /\ actorUse \in [Cells -> Nat] /\ crossUse \in [Cells -> Nat]
  BY DEF IInv, TypeOK
<1>5. /\ crossUse' \in [Cells -> Nat]
      /\ \A c \in Cells : crossUse'[c] = crossUse[c] + use[c]
  BY <1>3, <1>4, PlusFacts DEF RouteCross
<1>6. /\ residual' \in [Cells -> Int]
      /\ \A c \in Cells : residual'[c] = residual[c] - use[c]
  BY <1>3, <1>4 DEF RouteCross, Debited
<1>7. TypeOK'
  <2>1. crossDelay' \in Nat
    BY <1>2 DEF IInv, TypeOK, RouteCross
  <2>2. hops' \in Nat
    BY <1>2, InterHopsType DEF IInv, TypeOK, RouteCross, HopsAfter
  <2>. QED
    BY <1>5, <1>6, <2>1, <2>2 DEF IInv, TypeOK, RouteCross, runnerVars, actorVars
<1>8. RequestInv'
  BY <1>1 DEF IInv, RequestInv, RouteCross, runnerVars
<1>9. BalanceInv'
  <2>1. \A c \in Cells : residual'[c] >= 0
    BY <1>3, <1>4, <1>6
  <2>2. \A c \in Cells : residual'[c] = settled[c] - actorUse[c] - crossUse'[c]
    <3> SUFFICES ASSUME NEW c \in Cells
                 PROVE  residual'[c] = settled[c] - actorUse[c] - crossUse'[c]
      OBVIOUS
    <3>1. residual[c] = settled[c] - actorUse[c] - crossUse[c]
      BY <1>1 DEF IInv, BalanceInv, Searching
    <3>. QED  BY <1>3, <1>4, <1>5, <1>6, <3>1
  <2>. QED  BY <1>1, <2>1, <2>2 DEF IInv, BalanceInv, RouteCross
<1>10. UndoInv'
  <2>1. \A c \in NodeCells : crossUse'[c] = 0
    <3> SUFFICES ASSUME NEW c \in NodeCells PROVE crossUse'[c] = 0
      OBVIOUS
    <3>1. c \in Cells /\ c \notin LinksOf(p)
      BY <1>2, LinksAreNoNodeCells DEF Cells
    <3>. QED  BY <1>1, <1>3, <1>5, <3>1 DEF IInv, UndoInv, Searching
  <2>. QED
    BY <1>1, <2>1 DEF IInv, UndoInv, Searching, RouteCross, actorVars
<1>11. ActorInv'
  BY <1>1 DEF ActorInv
<1>. QED  BY <1>7, <1>8, <1>9, <1>10, <1>11 DEF IInv

LEMMA CrossFailsInv ==
  ASSUME IInv, NEW f \in crossTodo, NEW C, CrossFails(f, C)
  PROVE  IInv'
<1>1. pc = "cross" /\ pc' = "decide" /\ crossUse' = Nothing
  BY DEF CrossFails
<1>2. /\ residual \in [Cells -> Int] /\ settled \in [Cells -> Int]
      /\ actorUse \in [Cells -> Nat] /\ crossUse \in [Cells -> Nat]
  BY DEF IInv, TypeOK
<1>3. /\ residual' \in [Cells -> Int]
      /\ \A c \in Cells : residual'[c] = residual[c] + crossUse[c]
  BY <1>2 DEF CrossFails, Credited
<1>4. TypeOK'
  <2>1. hops' \in Nat /\ crossDelay' \in Nat /\ crossOk' \in BOOLEAN /\ crossTodo' \subseteq Nat
    BY DEF CrossFails
  <2>2. crossUse' \in [Cells -> Nat]
    BY <1>1, NothingFacts
  <2>. QED
    BY <1>1, <1>3, <2>1, <2>2
       DEF IInv, TypeOK, PcValues, CrossFails, runnerVars, actorVars
<1>5. RequestInv'
  BY <1>1 DEF IInv, RequestInv, CrossFails, runnerVars
<1>6. BalanceInv'
  <2>1. \A c \in Cells : residual'[c] >= 0 /\ residual'[c] = settled[c] - actorUse[c]
    <3> SUFFICES ASSUME NEW c \in Cells
                 PROVE  residual'[c] >= 0 /\ residual'[c] = settled[c] - actorUse[c]
      OBVIOUS
    <3>1. residual[c] >= 0 /\ residual[c] = settled[c] - actorUse[c] - crossUse[c]
      BY <1>1 DEF IInv, BalanceInv, Searching
    <3>. QED  BY <1>2, <1>3, <3>1
  <2>. QED
    BY <1>1, <1>2, <2>1, NothingFacts DEF IInv, BalanceInv, CrossFails
<1>7. UndoInv'
  <2>1. \A c \in NodeCells : crossUse'[c] = 0
    BY <1>1, NothingFacts DEF Cells
  <2>2. \A c \in Cells : actorUse[c] # 0 =>
          \E d \in Range(partition) \ refused : c \in CellsIn(d) /\ d \notin todo
    BY <1>1 DEF IInv, UndoInv, Searching
  <2>. QED
    BY <1>1, <2>1, <2>2 DEF IInv, UndoInv, Searching, CrossFails, actorVars
<1>8. ActorInv'
  BY <1>1 DEF ActorInv
<1>. QED  BY <1>4, <1>5, <1>6, <1>7, <1>8 DEF IInv

LEMMA FinishCrossInv ==
  ASSUME IInv, FinishCross
  PROVE  IInv'
<1>. USE DEF IInv
<1>1. pc = "cross" /\ pc' = "decide"
  BY DEF FinishCross
<1>2. TypeOK'
  BY DEF FinishCross, TypeOK, PcValues, runnerVars, arrivalVars, actorVars, planVars
<1>3. RequestInv'
  BY <1>1 DEF FinishCross, RequestInv, runnerVars
<1>4. BalanceInv'
  BY <1>1 DEF FinishCross, BalanceInv, Searching, planVars
<1>5. UndoInv'
  BY <1>1 DEF FinishCross, UndoInv, Searching, arrivalVars, planVars
<1>6. ActorInv'
  BY <1>1 DEF ActorInv
<1>. QED  BY <1>2, <1>3, <1>4, <1>5, <1>6

-----------------------------------------------------------------------------
(***************************************************************************)
(* Decision and commit.                                                     *)
(***************************************************************************)
\* The undo puts back exactly what the arrival found.
LEMMA UnwoundFacts ==
  ASSUME IInv, pc = "decide"
  PROVE  Unwound = settled
<1>1. /\ residual \in [Cells -> Int] /\ settled \in [Cells -> Int]
      /\ actorUse \in [Cells -> Nat] /\ crossUse \in [Cells -> Nat]
  BY DEF IInv, TypeOK
<1> SUFFICES ASSUME NEW c \in Cells PROVE Unwound[c] = settled[c]
  BY <1>1 DEF Unwound
<1>2. residual[c] = settled[c] - actorUse[c] - crossUse[c]
  BY DEF IInv, BalanceInv, Searching
<1>3. actorUse[c] # 0 => \E d \in Answered : c \in CellsIn(d)
  BY DEF IInv, UndoInv, Searching, Answered
<1>4. CASE c \in DOMAIN snapshot
  BY <1>4 DEF IInv, UndoInv, Searching, Unwound
<1>5. CASE c \notin DOMAIN snapshot /\ c \in Links
  <2>1. c \notin NodeCells
    BY <1>5, LinksAreNoNodeCells
  <2>2. \A d : c \in CellsIn(d) => c \in LinksIn(d)
    BY <2>1 DEF CellsIn, NodeCellsIn, NodesIn, NodeCells
  <2>3. CASE \E d \in Answered : c \in LinksIn(d)
    <3>1. Unwound[c] = residual[c] + crossUse[c] + actorUse[c]
      BY <1>5, <2>3 DEF Unwound
    <3>. QED  BY <1>1, <1>2, <3>1
  <2>4. CASE ~\E d \in Answered : c \in LinksIn(d)
    <3>1. Unwound[c] = residual[c] + crossUse[c] + 0
      BY <1>5, <2>4 DEF Unwound
    <3>2. actorUse[c] = 0
      BY <1>3, <2>2, <2>4
    <3>. QED  BY <1>1, <1>2, <3>1, <3>2
  <2>. QED  BY <2>3, <2>4
<1>6. CASE c \notin DOMAIN snapshot /\ c \notin Links
  <2>1. c \in NodeCells
    BY <1>6 DEF Cells
  <2>2. crossUse[c] = 0
    BY <2>1 DEF IInv, UndoInv, Searching
  <2>3. \A d \in Answered : c \notin CellsIn(d)
    BY <1>6 DEF IInv, UndoInv, Searching, Answered, CellsIn, LinksIn
  <2>4. actorUse[c] = 0
    BY <1>3, <2>3
  <2>. QED  BY <1>1, <1>2, <1>6, <2>2, <2>4 DEF Unwound
<1>. QED  BY <1>4, <1>5, <1>6

LEMMA UpdatedStatsType ==
  ASSUME NEW s \in EpisodeStats, NEW admitted \in BOOLEAN
  PROVE  UpdatedStats(s, admitted) \in EpisodeStats
  BY DEF EpisodeStats, UpdatedStats

\* What the handler's locals are when it has returned.
LEMMA ClearedTypes ==
  ASSUME ClearArrival
  PROVE  /\ cur' = NoRequest /\ todo' = {} /\ refused' = {} /\ crossTodo' = {}
         /\ crossOk' \in BOOLEAN /\ {intraDelay', crossDelay', hops'} \subseteq Nat
         /\ actorUse' = Nothing /\ crossUse' = Nothing
  BY DEF ClearArrival

LEMMA RejectInv ==
  ASSUME IInv, Reject
  PROVE  IInv'
<1>. USE DEF IInv
<1>1. pc = "decide" /\ pc' = "idle" /\ residual' = settled /\ cur \in Requests
  BY UnwoundFacts DEF Reject, RequestInv
<1>2. Bin # "admitted"
  BY DEF Bin
<1>3. TypeOK'
  <2>1. stats' \in EpisodeStats
    BY UpdatedStatsType DEF Reject, TypeOK
  <2>. QED
    BY <1>1, <2>1, NothingFacts, ClearedTypes DEF Reject, TypeOK, PcValues, actorVars
<1>4. RequestInv'
  BY <1>1, <1>2 DEF Reject, ClearArrival, TypeOK, RequestInv
<1>5. BalanceInv'
  BY <1>1, NothingFacts DEF Reject, ClearArrival, BalanceInv, Searching, TypeOK
<1>6. UndoInv'
  BY <1>1 DEF Reject, ClearArrival, UndoInv, Searching
<1>7. ActorInv'
  BY <1>1 DEF ActorInv
<1>. QED  BY <1>3, <1>4, <1>5, <1>6, <1>7

LEMMA CommitInv ==
  ASSUME IInv, Commit
  PROVE  IInv'
<1>. USE DEF IInv
<1>1. pc = "decide" /\ pc' = "allocate" /\ residual' = settled
  BY UnwoundFacts DEF Commit
<1>2. TypeOK'
  BY <1>1 DEF Commit, TypeOK, PcValues, runnerVars, arrivalVars, actorVars, planVars
<1>3. RequestInv'
  BY <1>1 DEF Commit, RequestInv, runnerVars
<1>4. BalanceInv'
  <2>1. ASSUME NEW c \in Cells
        PROVE  settled[c] >= 0 /\ actorUse[c] + crossUse[c] <= settled[c]
    <3>1. /\ residual[c] >= 0 /\ settled[c] >= 0
          /\ residual[c] = settled[c] - actorUse[c] - crossUse[c]
      BY <1>1 DEF BalanceInv, Searching
    <3>2. settled[c] \in Int /\ actorUse[c] \in Nat /\ crossUse[c] \in Nat
      BY DEF TypeOK
    <3>. QED  BY <3>1, <3>2
  <2>. QED  BY <1>1, <2>1 DEF Commit, BalanceInv, Searching, planVars
<1>5. UndoInv'
  BY <1>1 DEF UndoInv, Searching
<1>6. ActorInv'
  BY <1>1 DEF ActorInv
<1>. QED  BY <1>2, <1>3, <1>4, <1>5, <1>6

-----------------------------------------------------------------------------
(***************************************************************************)
(* Allocation and verification.                                             *)
(***************************************************************************)
LEMMA AllocatePlanInv ==
  ASSUME IInv, Allocate, PlanComplete
  PROVE  IInv'
<1>. USE DEF IInv
<1>1. /\ pc = "allocate" /\ pc' = "verify" /\ residual = settled
      /\ registry' = [registry EXCEPT ![cur] = Plan] /\ cur \in Requests
  BY DEF Allocate, BalanceInv, RequestInv
<1>2. actorUse \in [Cells -> Nat] /\ crossUse \in [Cells -> Nat] /\ settled \in [Cells -> Int]
  BY DEF TypeOK
<1>3. /\ Plan.use \in [Cells -> Nat]
      /\ \A c \in Cells : Plan.use[c] = actorUse[c] + crossUse[c]
  BY <1>2, PlusFacts DEF Plan
<1>4. registry'[cur] = Plan
  BY <1>1 DEF TypeOK
<1>5. /\ residual' \in [Cells -> Int]
      /\ \A c \in Cells : residual'[c] = settled[c] - registry'[cur].use[c]
  BY <1>1, <1>2, <1>3, <1>4 DEF Allocate, Debited
<1>6. TypeOK'
  BY <1>1, <1>3, <1>5
     DEF Allocate, TypeOK, PcValues, arrivalVars, actorVars, planVars
<1>7. RequestInv'
  BY <1>1, <1>4, PlanIsNoNoPlan DEF Allocate, TypeOK, RequestInv
<1>8. BalanceInv'
  <2>1. \A c \in Cells : residual'[c] >= 0
    BY <1>1, <1>2, <1>3, <1>4, <1>5 DEF BalanceInv
  <2>. QED  BY <1>1, <1>5, <2>1 DEF Allocate, BalanceInv, Searching
<1>9. UndoInv'
  BY <1>1 DEF UndoInv, Searching
<1>10. ActorInv'
  BY <1>1 DEF ActorInv
<1>. QED  BY <1>6, <1>7, <1>8, <1>9, <1>10

LEMMA AllocateFailsInv ==
  ASSUME IInv, Allocate, ~PlanComplete
  PROVE  IInv'
<1>. USE DEF IInv
<1>1. pc = "allocate" /\ pc' = "idle" /\ residual' = settled /\ cur \in Requests
  BY DEF Allocate, BalanceInv, RequestInv
<1>2. TypeOK'
  <2>1. stats' \in EpisodeStats
    <3>1. [stats EXCEPT !.buildFailures = @ + 1] \in EpisodeStats
      BY DEF TypeOK, EpisodeStats
    <3>. QED  BY <3>1, UpdatedStatsType DEF Allocate
  <2>2. /\ ClearArrival /\ DOMAIN outcome' = DOMAIN outcome
        /\ UNCHANGED <<residual, registry, activePlans, stream, actorVars, settled>>
    BY DEF Allocate
  <2>. QED
    BY <1>1, <2>1, <2>2, NothingFacts, ClearedTypes DEF TypeOK, PcValues, actorVars
<1>3. RequestInv'
  BY <1>1 DEF Allocate, ClearArrival, TypeOK, RequestInv
<1>4. BalanceInv'
  BY <1>1, NothingFacts DEF Allocate, ClearArrival, BalanceInv, Searching, TypeOK
<1>5. UndoInv'
  BY <1>1 DEF Allocate, ClearArrival, UndoInv, Searching
<1>6. ActorInv'
  BY <1>1 DEF ActorInv
<1>. QED  BY <1>2, <1>3, <1>4, <1>5, <1>6

\* A revoked slice's use comes back whole.
LEMMA RevokeFacts ==
  ASSUME IInv, Revoke
  PROVE  residual' = settled
<1>1. /\ cur \in Requests /\ residual \in [Cells -> Int] /\ settled \in [Cells -> Int]
      /\ registry[cur].use \in [Cells -> Nat]
      /\ \A c \in Cells : residual[c] = settled[c] - registry[cur].use[c]
  BY DEF IInv, TypeOK, RequestInv, BalanceInv, Revoke
<1>2. ASSUME NEW c \in Cells
      PROVE  residual'[c] = settled[c]
  BY <1>1 DEF Revoke, Credited
<1>. QED  BY <1>1, <1>2 DEF Revoke, Credited

LEMMA RevokeInv ==
  ASSUME IInv, Revoke
  PROVE  IInv'
<1>. USE DEF IInv
<1>1. pc = "verify" /\ pc' = "idle" /\ residual' = settled /\ cur \in Requests
  BY RevokeFacts DEF Revoke, RequestInv
<1>2. RevokedBin # "admitted"
  BY DEF RevokedBin
<1>3. TypeOK'
  <2>1. stats' \in EpisodeStats
    <3>1. [stats EXCEPT !.hardFires = @ + 1] \in EpisodeStats
      BY DEF TypeOK, EpisodeStats
    <3>. QED  BY <3>1, UpdatedStatsType DEF Revoke
  <2>. QED
    BY <1>1, <2>1, NothingFacts, ClearedTypes DEF Revoke, TypeOK, PcValues, actorVars
<1>4. RequestInv'
  BY <1>1, <1>2 DEF Revoke, ClearArrival, TypeOK, RequestInv
<1>5. BalanceInv'
  BY <1>1, NothingFacts DEF Revoke, ClearArrival, BalanceInv, Searching, TypeOK
<1>6. UndoInv'
  BY <1>1 DEF Revoke, ClearArrival, UndoInv, Searching
<1>7. ActorInv'
  BY <1>1 DEF ActorInv
<1>. QED  BY <1>3, <1>4, <1>5, <1>6, <1>7

LEMMA KeepInv ==
  ASSUME IInv, Keep
  PROVE  IInv'
<1>. USE DEF IInv
<1>1. pc = "verify" /\ pc' = "idle" /\ cur \in Requests
  BY DEF Keep, RequestInv
<1>2. TypeOK'
  <2>1. stats' \in EpisodeStats
    BY UpdatedStatsType DEF Keep, TypeOK
  <2>2. /\ DOMAIN registry' = Requests /\ DOMAIN activePlans' = Requests
        /\ \A r \in Requests : {registry'[r].use, activePlans'[r].use} \subseteq [Cells -> Nat]
    BY <1>1 DEF Keep, TypeOK
  <2>3. DOMAIN outcome' = Requests /\ settled' = residual /\ residual' = residual
    BY DEF Keep, TypeOK
  <2>4. /\ stream' = stream /\ UNCHANGED actorVars /\ ClearArrival
    BY DEF Keep
  <2>. QED
    BY <1>1, <2>1, <2>2, <2>3, <2>4, NothingFacts, ClearedTypes DEF TypeOK, PcValues, actorVars
<1>3. RequestInv'
  BY <1>1 DEF Keep, ClearArrival, TypeOK, RequestInv
<1>4. BalanceInv'
  BY <1>1, NothingFacts DEF Keep, ClearArrival, BalanceInv, Searching, TypeOK
<1>5. UndoInv'
  BY <1>1 DEF Keep, ClearArrival, UndoInv, Searching
<1>6. ActorInv'
  BY <1>1 DEF ActorInv
<1>. QED  BY <1>2, <1>3, <1>4, <1>5, <1>6

-----------------------------------------------------------------------------
(***************************************************************************)
(* The invariant, and what follows from it.                                 *)
(***************************************************************************)
LEMMA StutterInv ==
  ASSUME IInv, UNCHANGED vars
  PROVE  IInv'
<1>. USE DEF IInv, vars, runnerVars, arrivalVars, actorVars, planVars
<1>1. TypeOK'
  BY DEF TypeOK
<1>2. RequestInv'
  BY DEF RequestInv
<1>3. BalanceInv'
  BY DEF BalanceInv, Searching
<1>4. UndoInv'
  BY DEF UndoInv, Searching
<1>5. ActorInv'
  BY DEF ActorInv
<1>. QED  BY <1>1, <1>2, <1>3, <1>4, <1>5

LEMMA AllocateInv ==
  ASSUME IInv, Allocate
  PROVE  IInv'
  BY AllocatePlanInv, AllocateFailsInv

LEMMA ActInv ==
  ASSUME IInv, Act
  PROVE  IInv'
<1>1. ASSUME NEW k \in toPlace, NEW n \in NodesIn(actor), PlaceVnf(k, n)
      PROVE  IInv'
  BY <1>1, PlaceVnfInv
<1>2. ASSUME NEW k \in toPlace, RefuseVnf(k)
      PROVE  IInv'
  BY <1>2, ActorRollbackInv DEF RefuseVnf
<1>3. ASSUME NEW f \in toRoute, RouteOnNode(f)
      PROVE  IInv'
  BY <1>3, RouteOnNodeInv
<1>4. ASSUME NEW f \in toRoute, NEW C, NEW p \in C, RouteIntra(f, C, p)
      PROVE  IInv'
  BY <1>4, RouteIntraInv
<1>5. ASSUME NEW f \in toRoute, NEW C, RefuseFlow(f, C)
      PROVE  IInv'
  BY <1>5, ActorRollbackInv DEF RefuseFlow
<1>6. FlowsDue \subseteq toRoute
  BY DEF FlowsDue
<1>. QED  BY <1>1, <1>2, <1>3, <1>4, <1>5, <1>6, ActorAnswersInv DEF Act

LEMMA CrossInv ==
  ASSUME IInv, Cross
  PROVE  IInv'
<1>1. ASSUME NEW f \in crossTodo, NEW C, NEW p \in C, RouteCross(f, C, p)
      PROVE  IInv'
  BY <1>1, RouteCrossInv
<1>2. ASSUME NEW f \in crossTodo, NEW C, CrossFails(f, C)
      PROVE  IInv'
  BY <1>2, CrossFailsInv
<1>. QED  BY <1>1, <1>2, FinishCrossInv DEF Cross

LEMMA NextInv ==
  ASSUME IInv, [Next]_vars
  PROVE  IInv'
<1>1. CASE Event
  BY <1>1, ArriveInv, DepartAdmittedInv, DepartRejectedInv DEF Event
<1>2. CASE RejectStructural
  BY <1>2, RejectStructuralInv
<1>3. CASE \E p \in [Chain(cur) -> Domains] : ChoosePartition(p)
  BY <1>3, ChoosePartitionInv
<1>4. CASE Dispatch
  BY <1>4, StartActorInv, NoActorInv, FinishDispatchInv DEF Dispatch
<1>5. CASE Act
  BY <1>5, ActInv
<1>6. CASE Cross
  BY <1>6, CrossInv
<1>7. CASE Reject
  BY <1>7, RejectInv
<1>8. CASE Commit
  BY <1>8, CommitInv
<1>9. CASE Allocate
  BY <1>9, AllocateInv
<1>10. CASE Revoke
  BY <1>10, RevokeInv
<1>11. CASE Keep
  BY <1>11, KeepInv
<1>12. CASE Reset
  BY <1>12, ResetInv
<1>13. CASE UNCHANGED vars
  BY <1>13, StutterInv
<1>. QED
  BY <1>1, <1>2, <1>3, <1>4, <1>5, <1>6, <1>7, <1>8, <1>9, <1>10, <1>11, <1>12, <1>13
     DEF Next, Advance

\* At every point of an episode the live residuals are the settled ones less
\* what the search in progress has debited, and every debit is where one of the
\* undo paths of the actors and of resolve_arrival looks for it.
THEOREM IInvHolds == Spec => []IInv
  BY InitInv, NextInv, PTL DEF Spec

\* Every variable keeps its type: no counter goes below zero, no plan charges a
\* negative amount, whatever the request stream and the topology.
THEOREM TypeCorrect == Spec => []TypeOK
<1>1. IInv => TypeOK
  BY DEF IInv
<1>. QED  BY <1>1, IInvHolds, PTL

\* SubstrateNetwork.allocate checks no capacity, and yet no node or link is ever
\* below zero: the actors' and the router's filters are enough.
THEOREM NeverOverAllocated == Spec => []NoOverAllocation
<1>1. IInv => NoOverAllocation
  BY DEF IInv, TypeOK, BalanceInv, NoOverAllocation, OverAllocated
<1>. QED  BY <1>1, IInvHolds, PTL

\* A refused, revoked or not yet committed arrival leaves the residuals exactly
\* as it found them: the rollbacks of resolve_arrival and of the actors, and
\* deallocate after a revocation, cover every debit once.
THEOREM RefusalIsTraceless == Spec => []RefusalLeavesNoTrace
<1>1. IInv => RefusalLeavesNoTrace
  BY DEF IInv, BalanceInv, RefusalLeavesNoTrace
<1>. QED  BY <1>1, IInvHolds, PTL

\* EpisodeRunner._active_plans and SubstrateNetwork._active_slices name the same
\* slices between events, so no departure raises KeyError or leaks a slice.
THEOREM RegistriesAlwaysAgree == Spec => []RegistriesAgree
<1>1. ASSUME IInv PROVE RegistriesAgree
  <2> SUFFICES ASSUME pc = "idle", NEW r \in Requests
               PROVE  /\ registry[r] = activePlans[r]
                      /\ registry[r] # NoPlan <=>
                           outcome[r] = "admitted" /\ stream[r] = "present"
    BY DEF RegistriesAgree
  <2>1. r # cur
    BY <1>1, RequestAssumption DEF IInv, RequestInv
  <2>2. registry[r] = activePlans[r]
    BY <1>1 DEF IInv, RequestInv
  <2>3. activePlans[r] # NoPlan <=> outcome[r] = "admitted" /\ stream[r] = "present"
    BY <1>1, <2>1 DEF IInv, RequestInv
  <2>. QED  BY <2>2, <2>3
<1>. QED  BY <1>1, IInvHolds, PTL

-----------------------------------------------------------------------------
(***************************************************************************)
(* What an actor's step leaves alone.                                       *)
(***************************************************************************)
LEMMA ActStaysInDomain ==
  ASSUME IInv, Act, pc = "act", NEW c \in Cells \ CellsIn(actor)
  PROVE  residual'[c] = residual[c]
<1>1. residual \in [Cells -> Int]
  BY ActFacts
<1>2. ASSUME NEW k \in toPlace, NEW n \in NodesIn(actor), PlaceVnf(k, n)
      PROVE  residual'[c] = residual[c]
  <2>1. n \in Nodes /\ k \in Chain(cur)
    BY DEF IInv, ActorInv, NodesIn
  <2>2. Vnf(cur, k).cpu \in Nat /\ Vnf(cur, k).ram \in Nat
    BY <2>1, ActFacts, VnfFacts DEF VnfType
  <2>3. c \notin {n} \X Kinds
    BY DEF CellsIn, NodeCellsIn
  <2>4. NodeUse(n, Vnf(cur, k))[c] = 0
    BY <2>1, <2>2, <2>3, NodeUseFacts
  <2>. QED  BY <1>1, <1>2, <2>4 DEF PlaceVnf, Debited
<1>3. ASSUME NEW f \in toRoute, NEW C, NEW p \in C, RouteIntra(f, C, p)
      PROVE  residual'[c] = residual[c]
  <2>1. f \in Flows(cur) /\ p \in Paths(NodesIn(actor), placed[f], placed[f + 1])
    BY <1>3 DEF IInv, RouteIntra, ActorInv, KShortest
  <2>2. Slice[cur].bw[f] \in Nat
    BY <2>1, ActFacts, VnfFacts
  <2>3. LinksOf(p) \subseteq Links /\ LinksOf(p) \subseteq LinksIn(actor)
    BY <2>1, PathFacts DEF LinksIn, NodesIn
  <2>4. RouteUse(LinksOf(p), Slice[cur].bw[f])[c] = 0
    BY <2>2, <2>3, RouteUseFacts DEF CellsIn
  <2>. QED  BY <1>1, <1>3, <2>4 DEF RouteIntra, Debited
<1>4. ASSUME ActorRollback
      PROVE  residual'[c] = residual[c]
  <2>1. residual[c] = settled[c] - actorUse[c]
    BY ActFacts
  <2>2. residual'[c] = settled[c] - actorUse[c]
    BY <1>4, ActorUnwoundFacts DEF ActorRollback
  <2>. QED  BY <2>1, <2>2
<1>5. ASSUME NEW f \in toRoute, RouteOnNode(f)
      PROVE  residual'[c] = residual[c]
  BY <1>5 DEF RouteOnNode
<1>6. FlowsDue \subseteq toRoute
  BY DEF FlowsDue
<1>. QED
  BY <1>2, <1>3, <1>4, <1>5, <1>6 DEF Act, RefuseVnf, RefuseFlow, ActorAnswers

\* The domain subgraph that route_flow searches, the nodes the actor selects
\* from and both _rollbacks keep an actor's writes inside its own domain.
THEOREM ActorsAreIsolated == Spec => DomainIsolation
<1>1. IInv /\ [Next]_vars =>
        [pc = "act" => \A c \in Cells \ CellsIn(actor) : residual'[c] = residual[c]]_vars
  <2> SUFFICES ASSUME IInv, Next, pc = "act", NEW c \in Cells \ CellsIn(actor)
               PROVE  residual'[c] = residual[c]
    OBVIOUS
  <2>1. Act
    BY DEF Next, Advance, Event, Arrive, DepartAdmitted, DepartRejected,
           RejectStructural, Dispatch, StartActor, NoActor, FinishDispatch,
           Cross, RouteCross, CrossFails, FinishCross, Reject, Commit, Allocate,
           Revoke, Keep, Reset
  <2>. QED  BY <2>1, ActStaysInDomain
<1>. QED  BY <1>1, IInvHolds, PTL DEF Spec, DomainIsolation

-----------------------------------------------------------------------------
(***************************************************************************)
(* An episode implements the ledger.                                        *)
(***************************************************************************)
LEMMA LedgerInit == Init => Ledger!Init
  BY RequestAssumption
     DEF Init, Ledger!Init, Ledger!None, Held, Phase, NoPlan, Nothing

\* A step that leaves the runner's books and the request in progress alone is
\* no step of the ledger.
LEMMA LedgerQuiet ==
  ASSUME UNCHANGED <<activePlans, stream, cur, settled>>
  PROVE  UNCHANGED Ledger!vars
  BY DEF Ledger!vars, Held, Phase

LEMMA LedgerArrive ==
  ASSUME IInv, NEW r \in Requests, Arrive(r)
  PROVE  UNCHANGED Ledger!vars
<1>1. cur = NoRequest /\ cur' = r /\ stream' = [stream EXCEPT ![r] = "present"]
      /\ stream[r] = "future" /\ stream \in [Requests -> {"future", "present", "past"}]
  BY DEF IInv, RequestInv, TypeOK, Arrive
<1>2. UNCHANGED <<settled, Held>>
  BY DEF Arrive, Held
<1>3. Phase' = Phase
  BY <1>1, RequestAssumption DEF Arrive, Phase
<1>. QED  BY <1>2, <1>3 DEF Ledger!vars

LEMMA LedgerDepartRejected ==
  ASSUME IInv, NEW r \in Requests, DepartRejected(r)
  PROVE  UNCHANGED Ledger!vars
<1>1. stream' = [stream EXCEPT ![r] = "past"] /\ stream[r] = "present"
      /\ stream \in [Requests -> {"future", "present", "past"}]
  BY DEF IInv, TypeOK, DepartRejected
<1>2. UNCHANGED <<settled, Held>>
  BY DEF DepartRejected, Held
<1>3. Phase' = Phase
  BY <1>1 DEF DepartRejected, Phase
<1>. QED  BY <1>2, <1>3 DEF Ledger!vars

LEMMA LedgerDepart ==
  ASSUME IInv, NEW r \in Requests, DepartAdmitted(r)
  PROVE  Ledger!Depart(r)
<1>1. /\ pc = "idle" /\ cur = NoRequest /\ cur' = NoRequest /\ residual = settled
      /\ activePlans' = [activePlans EXCEPT ![r] = NoPlan]
      /\ DOMAIN activePlans = Requests
      /\ stream' = [stream EXCEPT ![r] = "past"] /\ stream[r] = "present"
      /\ stream \in [Requests -> {"future", "present", "past"}]
      /\ settled' = Credited(residual, activePlans[r].use) /\ activePlans[r] # NoPlan
  BY DEF IInv, RequestInv, BalanceInv, TypeOK, DepartAdmitted
<1>2. Phase[r] = "on"
  BY <1>1, RequestAssumption DEF Phase
<1>3. Phase' = [Phase EXCEPT ![r] = "off"]
  BY <1>1, RequestAssumption DEF Phase
<1>4. Held' = [Held EXCEPT ![r] = Ledger!None]
  BY <1>1 DEF Held, Ledger!None, NoPlan, Nothing
<1>5. settled' = [c \in Cells |-> settled[c] + Held[r][c]]
  BY <1>1 DEF Held, Credited
<1>. QED  BY <1>2, <1>3, <1>4, <1>5 DEF Ledger!Depart

\* The arrival is over, and neither the books nor the settled residuals changed.
LEMMA LedgerRefuse ==
  ASSUME IInv, pc # "idle", cur' = NoRequest, UNCHANGED <<activePlans, stream, settled>>
  PROVE  cur \in Requests /\ Ledger!Refuse(cur)
<1>1. cur \in Requests /\ stream[cur] = "present" /\ activePlans[cur] = NoPlan
  BY DEF IInv, RequestInv
<1>2. Phase[cur] = "new"
  BY <1>1 DEF Phase
<1>3. Phase' = [Phase EXCEPT ![cur] = "off"]
  BY <1>1, RequestAssumption DEF Phase
<1>4. Held' = Held
  BY DEF Held
<1>. QED  BY <1>1, <1>2, <1>3, <1>4 DEF Ledger!Refuse

LEMMA LedgerAdmit ==
  ASSUME IInv, Keep
  PROVE  cur \in Requests /\ Ledger!Admit(cur)
<1>1. /\ pc = "verify" /\ cur \in Requests /\ stream[cur] = "present"
      /\ registry[cur] # NoPlan /\ cur' = NoRequest
      /\ activePlans' = [activePlans EXCEPT ![cur] = registry[cur]]
      /\ DOMAIN activePlans = Requests /\ stream' = stream /\ settled' = residual
      /\ registry[cur].use \in [Cells -> Nat]
  BY DEF IInv, RequestInv, TypeOK, Keep, ClearArrival
<1>2. Phase[cur] = "new"
  BY <1>1 DEF Phase
<1>3. Phase' = [Phase EXCEPT ![cur] = "on"]
  BY <1>1, RequestAssumption DEF Phase
<1>4. Held'[cur] = registry[cur].use /\ Held' = [Held EXCEPT ![cur] = Held'[cur]]
  BY <1>1 DEF Held
<1>5. /\ residual \in [Cells -> Int] /\ settled \in [Cells -> Int]
      /\ \A c \in Cells : residual[c] = settled[c] - registry[cur].use[c] /\ residual[c] >= 0
  BY <1>1 DEF IInv, TypeOK, BalanceInv
<1>6. \A c \in Cells : Held'[cur][c] <= settled[c]
  BY <1>1, <1>4, <1>5
<1>7. settled' = [c \in Cells |-> settled[c] - Held'[cur][c]]
  BY <1>1, <1>4, <1>5
<1>. QED  BY <1>1, <1>2, <1>3, <1>4, <1>6, <1>7 DEF Ledger!Admit

LEMMA LedgerReset ==
  ASSUME IInv, Reset
  PROVE  Ledger!Reset
<1>1. cur = NoRequest /\ cur' = NoRequest
  BY DEF IInv, RequestInv, Reset
<1>. QED
  BY <1>1, RequestAssumption
     DEF Reset, Ledger!Reset, Ledger!None, Held, Phase, NoPlan, Nothing

\* The steps between the plan and the end of the handler.
LEMMA LedgerSearch ==
  ASSUME \/ \E p \in [Chain(cur) -> Domains] : ChoosePartition(p)
         \/ Dispatch \/ Act \/ Cross \/ Commit
  PROVE  UNCHANGED <<activePlans, stream, cur, settled>>
<1>1. CASE \E p \in [Chain(cur) -> Domains] : ChoosePartition(p)
  BY <1>1 DEF ChoosePartition, runnerVars
<1>2. CASE Dispatch \/ Commit
  BY <1>2 DEF Dispatch, StartActor, NoActor, FinishDispatch, Commit, runnerVars
<1>3. CASE Act
  <2>1. ActorRollback => UNCHANGED <<activePlans, stream, cur, settled>>
    BY DEF ActorRollback, runnerVars
  <2>2. ActorAnswers => UNCHANGED <<activePlans, stream, cur, settled>>
    BY DEF ActorAnswers, runnerVars
  <2>3. \A k, n : PlaceVnf(k, n) => UNCHANGED <<activePlans, stream, cur, settled>>
    BY DEF PlaceVnf, runnerVars
  <2>4. \A f, C, p : RouteIntra(f, C, p) => UNCHANGED <<activePlans, stream, cur, settled>>
    BY DEF RouteIntra, runnerVars
  <2>. QED
    BY <1>3, <2>1, <2>2, <2>3, <2>4 DEF Act, RefuseVnf, RouteOnNode, RefuseFlow, runnerVars
<1>4. CASE Cross
  <2>1. \A f, C, p : RouteCross(f, C, p) => UNCHANGED <<activePlans, stream, cur, settled>>
    BY DEF RouteCross, runnerVars
  <2>2. \A f, C : CrossFails(f, C) => UNCHANGED <<activePlans, stream, cur, settled>>
    BY DEF CrossFails, runnerVars
  <2>3. FinishCross => UNCHANGED <<activePlans, stream, cur, settled>>
    BY DEF FinishCross, runnerVars
  <2>. QED  BY <1>4, <2>1, <2>2, <2>3 DEF Cross
<1>. QED  BY <1>1, <1>2, <1>3, <1>4

LEMMA LedgerStep ==
  ASSUME IInv, [Next]_vars
  PROVE  [Ledger!Next]_Ledger!vars
<1>1. CASE Event
  BY <1>1, LedgerArrive, LedgerDepart, LedgerDepartRejected DEF Event, Ledger!Next
<1>2. CASE RejectStructural \/ Reject \/ Revoke \/ (Allocate /\ ~PlanComplete)
  <2>1. pc # "idle" /\ cur' = NoRequest /\ UNCHANGED <<activePlans, stream, settled>>
    BY <1>2 DEF RejectStructural, Reject, Revoke, Allocate, ClearArrival
  <2>. QED  BY <2>1, LedgerRefuse DEF Ledger!Next
<1>3. CASE Allocate /\ PlanComplete
  <2>1. UNCHANGED <<activePlans, stream, cur, settled>>
    BY <1>3 DEF Allocate
  <2>. QED  BY <2>1, LedgerQuiet
<1>4. CASE \/ \E p \in [Chain(cur) -> Domains] : ChoosePartition(p)
           \/ Dispatch \/ Act \/ Cross \/ Commit
  BY <1>4, LedgerSearch, LedgerQuiet
<1>5. CASE Keep
  BY <1>5, LedgerAdmit DEF Ledger!Next
<1>6. CASE Reset
  BY <1>6, LedgerReset DEF Ledger!Next
<1>7. CASE UNCHANGED vars
  <2>1. UNCHANGED <<activePlans, stream, cur, settled>>
    BY <1>7 DEF vars, runnerVars
  <2>. QED  BY <2>1, LedgerQuiet
<1>. QED
  BY <1>1, <1>2, <1>3, <1>4, <1>5, <1>6, <1>7 DEF Next, Advance

\* Seen between arrivals, EpisodeRunner, MDOCoordinator, the actors and
\* SubstrateNetwork together are a ledger: a slice is admitted whole and within
\* what is free, refused without a trace, and given back whole, once.
THEOREM EpisodeImplementsLedger == Spec => ImplementsLedger
<1>1. Init => Ledger!Init
  BY LedgerInit
<1>2. IInv /\ [Next]_vars => [Ledger!Next]_Ledger!vars
  BY LedgerStep
<1>. QED
  BY <1>1, <1>2, IInvHolds, PTL DEF Spec, ImplementsLedger, Ledger!Spec

(***************************************************************************)
(* Proofs about the plans Admission keeps: where their VNFs are, how their  *)
(* flows are routed, what they charge, and the headroom they run with.      *)
(*                                                                         *)
(* A plan is put together by two kinds of actors and by the coordinator,    *)
(* one VNF and one flow at a time, and parts of it are thrown away on the   *)
(* way.  The invariant follows it from the first placement: which VNFs are  *)
(* placed and which flows are routed is decided by what is still to do, and *)
(* everything placed or routed is permitted, joined and charged for.        *)
(***************************************************************************)

\* A search that can still end in a commit.
Live ==
  \/ pc \in {"dispatch", "act", "cross", "allocate"}
  \/ pc = "decide" /\ Contiguous(partition) /\ crossOk

\* The domain of VNF or flow k has answered, or is about to and is past k.
Settles(k, left) ==
  \/ partition[k] \notin todo \cup refused
  \/ pc = "act" /\ partition[k] = actor /\ k \notin left

SearchInv ==
  /\ pc \in {"idle", "plan"} => crossOk /\ hops = 0 /\ placed = <<>> /\ route = <<>>
  /\ pc \in {"dispatch", "act"} => crossTodo = CrossFlows(cur, partition)
  /\ pc \in {"dispatch", "act", "cross"} => crossOk /\ Contiguous(partition)
  /\ pc = "act" =>
       /\ \A k \in toPlace : partition[k] = actor
       /\ toRoute \subseteq IntraFlows(cur, partition, actor)
  /\ pc = "cross" => refused = {} /\ crossTodo \subseteq CrossFlows(cur, partition)
  /\ pc = "decide" => crossTodo = {} \/ refused # {}
  /\ pc = "allocate" =>
       /\ partition \in [Chain(cur) -> Domains] /\ Contiguous(partition)
       /\ todo = {} /\ refused = {} /\ crossTodo = {} /\ hops <= HopLimit

\* C8, and the domain the partition names.
HostsIn(r, p, place) ==
  \A k \in DOMAIN place : place[k] \in NodesIn(p[k]) \cap Vnf(r, k).permitted

PlacedInv ==
  Live => /\ DOMAIN placed = {k \in Chain(cur) : Settles(k, toPlace)}
          /\ HostsIn(cur, partition, placed)

\* A route joins the two hosts of its flow, and stays in their domain.
Joined(p, place, routes, f) ==
  /\ {f, f + 1} \subseteq DOMAIN place
  /\ \/ place[f] = place[f + 1] /\ routes[f] = {}
     \/ \E q \in Paths(Nodes, place[f], place[f + 1]) : routes[f] = LinksOf(q)
  /\ p[f] = p[f + 1] => routes[f] \subseteq LinksIn(p[f])

RoutedInv ==
  Live => /\ DOMAIN route = {f \in Flows(cur) : IF partition[f] = partition[f + 1]
                                                THEN Settles(f, toRoute)
                                                ELSE f \notin crossTodo}
          /\ \A f \in DOMAIN route : Joined(partition, placed, route, f)

\* What the placements and the routes take from cell c, one by one.
PlaceCharge(r, place, c) == [k \in DOMAIN place |-> NodeUse(place[k], Vnf(r, k))[c]]
RouteCharge(r, routes, c) ==
  [f \in DOMAIN routes |-> RouteUse(routes[f], Slice[r].bw[f])[c]]
RouteHops(routes) == [f \in DOMAIN routes |-> InterHops(routes[f])]

Charge(r, place, routes, c) ==
  SumFunctionOnSet(PlaceCharge(r, place, c), DOMAIN place)
    + SumFunctionOnSet(RouteCharge(r, routes, c), DOMAIN routes)

AccountInv ==
  Live => /\ \A c \in Cells : actorUse[c] + crossUse[c] = Charge(cur, placed, route, c)
          /\ hops = SumFunctionOnSet(RouteHops(route), DOMAIN route)

\* What every plan in the registry is.
PlanSound(r, plan) ==
  /\ plan.partition \in [Chain(r) -> Domains] /\ Contiguous(plan.partition)
  /\ DOMAIN plan.place = Chain(r) /\ DOMAIN plan.route = Flows(r)
  /\ HostsIn(r, plan.partition, plan.place)
  /\ \A f \in Flows(r) : Joined(plan.partition, plan.place, plan.route, f)
  /\ SumFunctionOnSet(RouteHops(plan.route), Flows(r)) <= HopLimit
  /\ \A c \in Cells : plan.use[c] = Charge(r, plan.place, plan.route, c)

PlansInv == \A r \in Requests : registry[r] # NoPlan => PlanSound(r, registry[r])

\* The cells a plan must not be saturated on.
CarriedBy(r, plan) ==
  {HostCell(plan, k) : k \in Chain(r)} \cup UNION {plan.route[f] : f \in Flows(r)}

HeadroomInv ==
  \A r \in ActivePlans : \A c \in CarriedBy(r, activePlans[r]) : settled[c] > 0

PlanInv == SearchInv /\ PlacedInv /\ RoutedInv /\ AccountInv /\ PlansInv /\ HeadroomInv

-----------------------------------------------------------------------------
(***************************************************************************)
(* Charges: what they are made of, and how one more placement or route, or  *)
(* a rollback, changes them.                                                *)
(***************************************************************************)
LEMMA ChainsAreFinite ==
  ASSUME NEW r \in Requests
  PROVE  IsFiniteSet(Chain(r)) /\ IsFiniteSet(Flows(r))
<1>1. K(r) \in Nat /\ K(r) - 1 \in Int
  BY VnfFacts
<1>. QED  BY <1>1, FS_Interval DEF Chain, Flows

LEMMA JoinedRoute ==
  ASSUME NEW p, NEW place, NEW routes, NEW f, Joined(p, place, routes, f)
  PROVE  routes[f] \subseteq Links
  BY PathFacts DEF Joined

LEMMA PlaceChargeType ==
  ASSUME NEW r \in Requests, NEW p, NEW place, HostsIn(r, p, place),
         DOMAIN place \subseteq Chain(r), NEW c \in Cells
  PROVE  \A k \in DOMAIN place :
           /\ place[k] \in Nodes
           /\ PlaceCharge(r, place, c)[k] = NodeUse(place[k], Vnf(r, k))[c]
           /\ PlaceCharge(r, place, c)[k] \in Nat
           /\ PlaceCharge(r, place, c)[k] # 0 => c \in {place[k]} \X Kinds
<1> SUFFICES ASSUME NEW k \in DOMAIN place
             PROVE  /\ place[k] \in Nodes
                    /\ NodeUse(place[k], Vnf(r, k))[c] \in Nat
                    /\ NodeUse(place[k], Vnf(r, k))[c] # 0 => c \in {place[k]} \X Kinds
  BY DEF PlaceCharge
<1>1. place[k] \in Nodes
  BY DEF HostsIn, NodesIn
<1>2. Vnf(r, k).cpu \in Nat /\ Vnf(r, k).ram \in Nat
  BY VnfFacts DEF VnfType
<1>. QED  BY <1>1, <1>2, NodeUseFacts

LEMMA RouteChargeType ==
  ASSUME NEW r \in Requests, NEW routes, DOMAIN routes \subseteq Flows(r), NEW c \in Cells
  PROVE  \A f \in DOMAIN routes :
           /\ RouteCharge(r, routes, c)[f] = RouteUse(routes[f], Slice[r].bw[f])[c]
           /\ RouteCharge(r, routes, c)[f] \in Nat
           /\ RouteCharge(r, routes, c)[f] # 0 => c \in routes[f]
<1>1. \A f \in Flows(r) : Slice[r].bw[f] \in Nat
  BY VnfFacts
<1>. QED  BY <1>1 DEF RouteCharge, RouteUse

LEMMA NothingCharged ==
  ASSUME NEW r, NEW c
  PROVE  Charge(r, <<>>, <<>>, c) = 0 /\ SumFunctionOnSet(RouteHops(<<>>), DOMAIN <<>>) = 0
<1>1. DOMAIN <<>> = {}
  OBVIOUS
<1>. QED  BY <1>1, SumEmpty DEF Charge

LEMMA ChargeType ==
  ASSUME NEW r \in Requests, NEW p, NEW place, HostsIn(r, p, place),
         DOMAIN place \subseteq Chain(r), NEW routes, DOMAIN routes \subseteq Flows(r),
         NEW c \in Cells
  PROVE  /\ SumFunctionOnSet(PlaceCharge(r, place, c), DOMAIN place) \in Nat
         /\ SumFunctionOnSet(RouteCharge(r, routes, c), DOMAIN routes) \in Nat
<1>1. IsFiniteSet(DOMAIN place) /\ IsFiniteSet(DOMAIN routes)
  BY ChainsAreFinite, FS_Subset
<1>. QED  BY <1>1, PlaceChargeType, RouteChargeType, SumType

\* A cell is charged only by a VNF on its node or a flow over its link.
LEMMA WhoIsCharged ==
  ASSUME NEW r \in Requests, NEW p, NEW place, HostsIn(r, p, place),
         DOMAIN place \subseteq Chain(r), NEW routes, DOMAIN routes \subseteq Flows(r),
         NEW c \in Cells, Charge(r, place, routes, c) # 0
  PROVE  \/ \E k \in DOMAIN place : c \in {place[k]} \X Kinds
         \/ \E f \in DOMAIN routes : c \in routes[f]
<1> SUFFICES ASSUME \A k \in DOMAIN place : c \notin {place[k]} \X Kinds,
                    \A f \in DOMAIN routes : c \notin routes[f]
             PROVE  Charge(r, place, routes, c) = 0
  OBVIOUS
<1>1. IsFiniteSet(DOMAIN place) /\ IsFiniteSet(DOMAIN routes)
  BY ChainsAreFinite, FS_Subset
<1>2. SumFunctionOnSet(PlaceCharge(r, place, c), DOMAIN place) = 0
  BY <1>1, PlaceChargeType, SumOfZeros
<1>3. SumFunctionOnSet(RouteCharge(r, routes, c), DOMAIN routes) = 0
  BY <1>1, RouteChargeType, SumOfZeros
<1>. QED  BY <1>2, <1>3 DEF Charge

LEMMA ChargeOfPlacement ==
  ASSUME NEW r \in Requests, NEW p, NEW place, HostsIn(r, p, place),
         DOMAIN place \subseteq Chain(r), NEW k \in Chain(r) \ DOMAIN place,
         NEW n \in Nodes, NEW more,
         more = [j \in DOMAIN place \cup {k} |-> IF j = k THEN n ELSE place[j]],
         NEW c \in Cells
  PROVE  SumFunctionOnSet(PlaceCharge(r, more, c), DOMAIN more) =
           NodeUse(n, Vnf(r, k))[c] + SumFunctionOnSet(PlaceCharge(r, place, c), DOMAIN place)
<1>1. IsFiniteSet(DOMAIN place)
  BY ChainsAreFinite, FS_Subset
<1>2. NodeUse(n, Vnf(r, k))[c] \in Nat
  <2>1. Vnf(r, k) \in VnfType
    BY VnfFacts
  <2>. QED  BY <2>1, NodeUseFacts DEF VnfType
<1>3. /\ DOMAIN more = DOMAIN place \cup {k}
      /\ PlaceCharge(r, more, c)[k] = NodeUse(n, Vnf(r, k))[c]
      /\ \A j \in DOMAIN place : PlaceCharge(r, more, c)[j] = PlaceCharge(r, place, c)[j]
  BY DEF PlaceCharge
<1>4. \A j \in DOMAIN place : PlaceCharge(r, place, c)[j] \in Nat
  BY PlaceChargeType
<1> DEFINE f == PlaceCharge(r, place, c)
           g == PlaceCharge(r, more, c)
<1>. HIDE DEF f, g
<1>5. SumFunctionOnSet(g, DOMAIN place \cup {k}) = g[k] + SumFunctionOnSet(f, DOMAIN place)
  BY <1>1, <1>2, <1>3, <1>4, SumExtends DEF f, g
<1>. QED  BY <1>3, <1>5 DEF f, g

LEMMA ChargeOfRoute ==
  ASSUME NEW r \in Requests, NEW routes, DOMAIN routes \subseteq Flows(r),
         NEW f \in Flows(r) \ DOMAIN routes, NEW links, NEW more,
         DOMAIN more = DOMAIN routes \cup {f}, more[f] = links,
         \A g \in DOMAIN routes : more[g] = routes[g],
         NEW c \in Cells
  PROVE  SumFunctionOnSet(RouteCharge(r, more, c), DOMAIN more) =
           RouteUse(links, Slice[r].bw[f])[c]
             + SumFunctionOnSet(RouteCharge(r, routes, c), DOMAIN routes)
<1>1. IsFiniteSet(DOMAIN routes)
  BY ChainsAreFinite, FS_Subset
<1>2. RouteUse(links, Slice[r].bw[f])[c] \in Nat
  BY VnfFacts DEF RouteUse
<1>3. /\ DOMAIN more = DOMAIN routes \cup {f}
      /\ RouteCharge(r, more, c)[f] = RouteUse(links, Slice[r].bw[f])[c]
      /\ \A g \in DOMAIN routes : RouteCharge(r, more, c)[g] = RouteCharge(r, routes, c)[g]
  BY DEF RouteCharge
<1>4. \A g \in DOMAIN routes : RouteCharge(r, routes, c)[g] \in Nat
  BY RouteChargeType
<1>5. SumFunctionOnSet(RouteCharge(r, more, c), DOMAIN routes \cup {f}) =
        RouteCharge(r, more, c)[f] + SumFunctionOnSet(RouteCharge(r, routes, c), DOMAIN routes)
  BY <1>1, <1>2, <1>3, <1>4, SumExtends
<1>. QED  BY <1>3, <1>5

LEMMA HopsOfRoute ==
  ASSUME NEW r \in Requests, NEW routes, DOMAIN routes \subseteq Flows(r),
         \A g \in DOMAIN routes : routes[g] \subseteq Links,
         NEW f \in Flows(r) \ DOMAIN routes, NEW links \in SUBSET Links, NEW more,
         DOMAIN more = DOMAIN routes \cup {f}, more[f] = links,
         \A g \in DOMAIN routes : more[g] = routes[g]
  PROVE  SumFunctionOnSet(RouteHops(more), DOMAIN more) =
           InterHops(links) + SumFunctionOnSet(RouteHops(routes), DOMAIN routes)
<1>1. IsFiniteSet(DOMAIN routes)
  BY ChainsAreFinite, FS_Subset
<1>2. /\ DOMAIN more = DOMAIN routes \cup {f}
      /\ RouteHops(more)[f] = InterHops(links)
      /\ \A g \in DOMAIN routes : RouteHops(more)[g] = RouteHops(routes)[g]
  BY DEF RouteHops
<1>3. InterHops(links) \in Nat /\ \A g \in DOMAIN routes : RouteHops(routes)[g] \in Nat
  BY InterHopsType DEF RouteHops
<1>4. SumFunctionOnSet(RouteHops(more), DOMAIN routes \cup {f}) =
        RouteHops(more)[f] + SumFunctionOnSet(RouteHops(routes), DOMAIN routes)
  <2>1. f \notin DOMAIN routes /\ RouteHops(more)[f] \in Nat
    BY <1>2, <1>3
  <2>. QED  BY <1>1, <1>2, <1>3, <2>1, SumExtends
<1>. QED  BY <1>2, <1>4

\* Links inside one domain cross no border.
LEMMA NoHopsInside ==
  ASSUME NEW d, NEW links \in SUBSET LinksIn(d)
  PROVE  InterHops(links) = 0
<1>1. {l \in links : InterDomain(l)} = {}
  BY DEF LinksIn, InterDomain
<1>. QED  BY <1>1, FS_EmptySet DEF InterHops

-----------------------------------------------------------------------------
(***************************************************************************)
(* The parts of the invariant a step outside the search leaves alone.       *)
(***************************************************************************)
\* The slices that are on, as the runner sees them, have sound plans.
LEMMA ActivePlansAreSound ==
  ASSUME IInv, PlansInv, NEW r \in ActivePlans
  PROVE  /\ r \in Requests /\ registry[r] = activePlans[r]
         /\ PlanSound(r, activePlans[r])
<1>1. r \in Requests /\ activePlans[r] # NoPlan
  BY DEF ActivePlans
<1>2. registry[r] = activePlans[r]
  BY <1>1 DEF IInv, RequestInv
<1>. QED  BY <1>1, <1>2 DEF PlansInv

LEMMA CarriedCells ==
  ASSUME NEW r, NEW plan, PlanSound(r, plan)
  PROVE  CarriedBy(r, plan) \subseteq Cells
<1>1. ASSUME NEW k \in Chain(r) PROVE HostCell(plan, k) \in Cells
  BY DEF PlanSound, HostsIn, HostCell, NodesIn, Cells, NodeCells, Kinds
<1>2. ASSUME NEW f \in Flows(r) PROVE plan.route[f] \subseteq Cells
  BY JoinedRoute DEF PlanSound, Cells
<1>. QED  BY <1>1, <1>2 DEF CarriedBy

\* No plan is added, and the headroom does not shrink.
LEMMA BooksKept ==
  ASSUME IInv, IInv', PlansInv, HeadroomInv,
         \A r \in Requests : registry'[r] \in {registry[r], NoPlan},
         \A r \in Requests : activePlans'[r] \in {activePlans[r], NoPlan},
         \A c \in Cells : settled'[c] >= settled[c]
  PROVE  PlansInv' /\ HeadroomInv'
<1>1. PlansInv'
  BY DEF PlansInv
<1>2. HeadroomInv'
  <2> SUFFICES ASSUME NEW r \in ActivePlans', NEW c \in CarriedBy(r, activePlans'[r])
               PROVE  settled'[c] > 0
    BY DEF HeadroomInv
  <2>1. r \in ActivePlans /\ activePlans'[r] = activePlans[r]
    BY DEF ActivePlans
  <2>2. settled[c] > 0 /\ c \in Cells
    BY <2>1, ActivePlansAreSound, CarriedCells DEF HeadroomInv
  <2>3. settled[c] \in Int /\ settled'[c] \in Int
    BY <2>2 DEF IInv, TypeOK
  <2>. QED  BY <2>2, <2>3
<1>. QED  BY <1>1, <1>2

\* No search is on that could end in a commit.
LEMMA NoSearch ==
  ASSUME pc' \in {"idle", "plan", "verify"},
         pc' # "verify" => crossOk' /\ hops' = 0 /\ placed' = <<>> /\ route' = <<>>
  PROVE  SearchInv' /\ PlacedInv' /\ RoutedInv' /\ AccountInv'
<1>1. ~Live'
  BY DEF Live
<1>. QED  BY <1>1 DEF SearchInv, PlacedInv, RoutedInv, AccountInv

LEMMA InitPlanInv == Init => PlanInv
<1> SUFFICES ASSUME Init PROVE PlanInv
  OBVIOUS
<1>1. ~Live /\ SearchInv
  BY DEF Init, Live, SearchInv
<1>2. PlansInv /\ HeadroomInv
  BY DEF Init, PlansInv, HeadroomInv, ActivePlans
<1>. QED  BY <1>1, <1>2 DEF PlanInv, PlacedInv, RoutedInv, AccountInv

LEMMA EventPlanInv ==
  ASSUME IInv, IInv', PlanInv, NEW r \in Requests,
         Arrive(r) \/ DepartAdmitted(r) \/ DepartRejected(r)
  PROVE  PlanInv'
<1>1. pc = "idle" /\ pc' \in {"idle", "plan"}
      /\ UNCHANGED <<crossOk, hops, placed, route>>
  BY DEF Arrive, DepartAdmitted, DepartRejected, arrivalVars, planVars
<1>2. SearchInv' /\ PlacedInv' /\ RoutedInv' /\ AccountInv'
  BY <1>1, NoSearch DEF PlanInv, SearchInv
<1>3. settled \in [Cells -> Int] /\ DOMAIN registry = Requests /\ DOMAIN activePlans = Requests
  BY DEF IInv, TypeOK
<1>4. /\ \A q \in Requests : registry'[q] \in {registry[q], NoPlan}
      /\ \A q \in Requests : activePlans'[q] \in {activePlans[q], NoPlan}
  BY <1>3 DEF Arrive, DepartAdmitted, DepartRejected
<1>5. \A c \in Cells : settled'[c] >= settled[c]
  <2>1. CASE DepartAdmitted(r)
    <3>1. residual = settled /\ activePlans[r].use \in [Cells -> Nat]
      BY <1>1 DEF IInv, BalanceInv, TypeOK
    <3>. QED  BY <1>3, <2>1, <3>1 DEF DepartAdmitted, Credited
  <2>2. CASE Arrive(r) \/ DepartRejected(r)
    BY <1>3, <2>2 DEF Arrive, DepartRejected
  <2>. QED  BY <2>1, <2>2
<1>. QED  BY <1>2, <1>4, <1>5, BooksKept DEF PlanInv

LEMMA ResetPlanInv ==
  ASSUME IInv, IInv', PlanInv, Reset
  PROVE  PlanInv'
<1>1. pc' = "idle" /\ UNCHANGED <<crossOk, hops, placed, route>> /\ pc = "idle"
  BY DEF Reset, arrivalVars, planVars
<1>2. SearchInv' /\ PlacedInv' /\ RoutedInv' /\ AccountInv'
  BY <1>1, NoSearch DEF PlanInv, SearchInv
<1>3. PlansInv' /\ HeadroomInv'
  BY DEF Reset, PlansInv, HeadroomInv, ActivePlans
<1>. QED  BY <1>2, <1>3 DEF PlanInv

\* Every way an arrival ends without a new plan.
LEMMA TurnedAwayPlanInv ==
  ASSUME IInv, IInv', PlanInv,
         RejectStructural \/ Reject \/ Revoke \/ (Allocate /\ ~PlanComplete)
  PROVE  PlanInv'
<1>1. pc' = "idle" /\ crossOk' /\ hops' = 0 /\ placed' = <<>> /\ route' = <<>>
  BY DEF RejectStructural, Reject, Revoke, Allocate, ClearArrival
<1>2. SearchInv' /\ PlacedInv' /\ RoutedInv' /\ AccountInv'
  BY <1>1, NoSearch
<1>3. DOMAIN registry = Requests /\ settled \in [Cells -> Int]
  BY DEF IInv, TypeOK
<1>4. /\ \A q \in Requests : registry'[q] \in {registry[q], NoPlan}
      /\ \A q \in Requests : activePlans'[q] \in {activePlans[q], NoPlan}
      /\ \A c \in Cells : settled'[c] >= settled[c]
  <2>1. UNCHANGED <<activePlans, settled>>
    BY DEF RejectStructural, Reject, Revoke, Allocate
  <2>2. registry' = registry \/ registry' = [registry EXCEPT ![cur] = NoPlan]
    BY DEF RejectStructural, Reject, Revoke, Allocate
  <2>. QED  BY <1>3, <2>1, <2>2
<1>. QED  BY <1>2, <1>4, BooksKept DEF PlanInv

-----------------------------------------------------------------------------
(***************************************************************************)
(* The search.  None of its steps touches the books.                        *)
(***************************************************************************)
LEMMA SearchKeepsBooks ==
  ASSUME PlansInv, HeadroomInv, UNCHANGED <<registry, activePlans, settled>>
  PROVE  PlansInv' /\ HeadroomInv'
  BY DEF PlansInv, HeadroomInv, ActivePlans

LEMMA ChoosePartitionPlanInv ==
  ASSUME IInv, PlanInv, NEW p \in [Chain(cur) -> Domains], ChoosePartition(p)
  PROVE  PlanInv'
<1>1. /\ pc = "plan" /\ cur \in Requests /\ cur' = cur /\ partition' = p
      /\ actorUse' = Nothing /\ crossUse' = Nothing
      /\ crossOk' /\ hops' = 0 /\ placed' = <<>> /\ route' = <<>>
      /\ todo = {} /\ refused = {} /\ crossTodo = {} /\ refused' = {}
  BY DEF IInv, RequestInv, BalanceInv, UndoInv, PlanInv, SearchInv, ChoosePartition, planVars
<1>2. PlansInv' /\ HeadroomInv'
  BY SearchKeepsBooks DEF PlanInv, ChoosePartition, runnerVars
<1>3. CASE ~Contiguous(p)
  <2>1. pc' = "decide" /\ crossTodo' = {}
    BY <1>1, <1>3 DEF ChoosePartition
  <2>2. SearchInv' /\ ~Live'
    BY <1>1, <1>3, <2>1 DEF SearchInv, Live
  <2>. QED  BY <1>2, <2>2 DEF PlanInv, PlacedInv, RoutedInv, AccountInv
<1>4. CASE Contiguous(p)
  <2>1. pc' = "dispatch" /\ crossTodo' = CrossFlows(cur, p) /\ todo' = Range(p)
    BY <1>4 DEF ChoosePartition
  <2>2. \A k \in Chain(cur) : p[k] \in Range(p)
    BY DEF Range
  <2>3. Flows(cur) \subseteq Chain(cur) /\ DOMAIN <<>> = {}
    BY <1>1, VnfFacts DEF Flows, Chain
  <2>4. SearchInv'
    BY <1>1, <1>4, <2>1 DEF SearchInv
  <2>5. PlacedInv'
    BY <1>1, <2>1, <2>2, <2>3 DEF PlacedInv, Settles, HostsIn
  <2>6. RoutedInv'
    BY <1>1, <2>1, <2>2, <2>3 DEF RoutedInv, Settles, CrossFlows
  <2>7. AccountInv'
    BY <1>1, NothingCharged, NothingFacts DEF AccountInv
  <2>. QED  BY <1>2, <2>4, <2>5, <2>6, <2>7 DEF PlanInv
<1>. QED  BY <1>3, <1>4

LEMMA StartActorPlanInv ==
  ASSUME IInv, PlanInv, NEW d \in todo, StartActor(d)
  PROVE  PlanInv'
<1>1. /\ pc = "dispatch" /\ pc' = "act" /\ actor' = d
      /\ toPlace' = {k \in Chain(cur) : partition[k] = d}
      /\ toRoute' = IntraFlows(cur, partition, d)
      /\ UNCHANGED <<runnerVars, cur, arrivalVars, planVars, settled>>
  BY DEF StartActor
<1>. USE DEF runnerVars, arrivalVars, planVars
<1>2. PlansInv' /\ HeadroomInv'
  BY <1>1, SearchKeepsBooks DEF PlanInv
<1>3. SearchInv'
  BY <1>1 DEF PlanInv, SearchInv
<1>4. Flows(cur) \subseteq Chain(cur)
  BY VnfFacts, <1>1 DEF IInv, RequestInv, Flows, Chain
<1>5. PlacedInv'
  BY <1>1 DEF PlanInv, PlacedInv, Live, Settles
<1>6. RoutedInv'
  BY <1>1, <1>4 DEF PlanInv, RoutedInv, Live, Settles, IntraFlows
<1>7. AccountInv'
  BY <1>1 DEF PlanInv, AccountInv, Live
<1>. QED  BY <1>2, <1>3, <1>5, <1>6, <1>7 DEF PlanInv

LEMMA NoActorPlanInv ==
  ASSUME IInv, PlanInv, NEW d \in todo, NoActor(d)
  PROVE  PlanInv'
<1>1. /\ pc = "dispatch" /\ pc' = "dispatch" /\ todo' \cup refused' = todo \cup refused
      /\ UNCHANGED <<runnerVars, cur, partition, crossTodo, crossOk, hops, actorVars,
                     planVars, settled>>
  BY DEF NoActor
<1>. USE DEF runnerVars, planVars
<1>2. PlansInv' /\ HeadroomInv'
  BY <1>1, SearchKeepsBooks DEF PlanInv
<1>3. SearchInv'
  BY <1>1 DEF PlanInv, SearchInv
<1>4. PlacedInv'
  BY <1>1 DEF PlanInv, PlacedInv, Live, Settles
<1>5. RoutedInv'
  BY <1>1 DEF PlanInv, RoutedInv, Live, Settles
<1>6. AccountInv'
  BY <1>1 DEF PlanInv, AccountInv, Live
<1>. QED  BY <1>2, <1>3, <1>4, <1>5, <1>6 DEF PlanInv

LEMMA FinishDispatchPlanInv ==
  ASSUME IInv, PlanInv, FinishDispatch
  PROVE  PlanInv'
<1>1. /\ pc = "dispatch" /\ pc' = IF refused = {} THEN "cross" ELSE "decide"
      /\ UNCHANGED <<runnerVars, cur, arrivalVars, actorVars, planVars, settled>>
  BY DEF FinishDispatch
<1>. USE DEF runnerVars, arrivalVars, actorVars, planVars
<1>2. PlansInv' /\ HeadroomInv'
  BY <1>1, SearchKeepsBooks DEF PlanInv
<1>3. SearchInv'
  BY <1>1 DEF PlanInv, SearchInv
<1>4. PlacedInv'
  BY <1>1 DEF PlanInv, PlacedInv, Live, Settles
<1>5. RoutedInv'
  BY <1>1 DEF PlanInv, RoutedInv, Live, Settles
<1>6. AccountInv'
  BY <1>1 DEF PlanInv, AccountInv, Live
<1>. QED  BY <1>2, <1>3, <1>4, <1>5, <1>6 DEF PlanInv

LEMMA PlaceVnfPlanInv ==
  ASSUME IInv, PlanInv, NEW k \in toPlace, NEW n \in NodesIn(actor), PlaceVnf(k, n)
  PROVE  PlanInv'
<1> DEFINE use == NodeUse(n, Vnf(cur, k))
<1>1. /\ pc = "act" /\ pc' = "act" /\ toPlace' = toPlace \ {k}
      /\ placed' = [j \in DOMAIN placed \cup {k} |-> IF j = k THEN n ELSE placed[j]]
      /\ actorUse' = Plus(actorUse, use)
      /\ UNCHANGED <<runnerVars, cur, arrivalVars, actor, toRoute, route, crossUse, settled>>
  BY DEF PlaceVnf
<1>2. /\ cur \in Requests /\ k \in Chain(cur) /\ partition[k] = actor /\ actor \in todo
      /\ n \in Vnf(cur, k).permitted /\ n \in Nodes
  BY <1>1, ActFacts DEF IInv, PlanInv, SearchInv, ActorInv, PlaceVnf, Selectable, Fitting, NodesIn
<1>3. /\ DOMAIN placed = {j \in Chain(cur) : Settles(j, toPlace)}
      /\ HostsIn(cur, partition, placed)
      /\ DOMAIN route \subseteq Flows(cur)
      /\ DOMAIN placed \subseteq Chain(cur) /\ k \notin DOMAIN placed
  BY <1>1, <1>2 DEF PlanInv, PlacedInv, RoutedInv, Live, Settles
<1>. USE DEF runnerVars, arrivalVars
<1>4. PlansInv' /\ HeadroomInv'
  BY <1>1, SearchKeepsBooks DEF PlanInv
<1>5. SearchInv'
  BY <1>1 DEF PlanInv, SearchInv
<1>6. PlacedInv'
  <2>1. \A j \in Chain(cur) : Settles(j, toPlace)' <=> Settles(j, toPlace) \/ j = k
    BY <1>1, <1>2 DEF Settles
  <2>2. DOMAIN placed' = {j \in Chain(cur) : Settles(j, toPlace)'}
    BY <1>1, <1>2, <1>3, <2>1
  <2>3. HostsIn(cur, partition, placed')
    BY <1>1, <1>2, <1>3 DEF HostsIn
  <2>. QED  BY <1>1, <2>2, <2>3 DEF PlacedInv
<1>7. RoutedInv'
  <2>1. ASSUME NEW f \in DOMAIN route
        PROVE  Joined(partition, placed', route, f)
    <3>1. Joined(partition, placed, route, f)
      BY <1>1 DEF PlanInv, RoutedInv, Live
    <3>2. f # k /\ f + 1 # k
      BY <1>3, <3>1 DEF Joined
    <3>. QED  BY <1>1, <3>1, <3>2 DEF Joined
  <2>2. DOMAIN route = {f \in Flows(cur) : IF partition[f] = partition[f + 1]
                                           THEN Settles(f, toRoute)
                                           ELSE f \notin crossTodo}
    BY <1>1 DEF PlanInv, RoutedInv, Live
  <2>. QED  BY <1>1, <2>1, <2>2 DEF RoutedInv, Settles
<1>8. AccountInv'
  <2>1. ASSUME NEW c \in Cells
        PROVE  actorUse'[c] + crossUse'[c] = Charge(cur, placed', route, c)
    <3>1. actorUse'[c] = actorUse[c] + use[c] /\ use[c] \in Nat
      <4>1. use \in [Cells -> Nat]
        BY <1>2, VnfFacts, NodeUseFacts DEF VnfType
      <4>. HIDE DEF use
      <4>. QED  BY <1>1, <4>1, ActFacts, PlusFacts
    <3>2. actorUse[c] + crossUse[c] = Charge(cur, placed, route, c)
      BY <1>1 DEF PlanInv, AccountInv, Live
    <3>3. SumFunctionOnSet(PlaceCharge(cur, placed', c), DOMAIN placed') =
            use[c] + SumFunctionOnSet(PlaceCharge(cur, placed, c), DOMAIN placed)
      <4> DEFINE more == placed'
      <4>. HIDE DEF more
      <4>1. more = [j \in DOMAIN placed \cup {k} |-> IF j = k THEN n ELSE placed[j]]
        BY <1>1 DEF more
      <4>2. SumFunctionOnSet(PlaceCharge(cur, more, c), DOMAIN more) =
              use[c] + SumFunctionOnSet(PlaceCharge(cur, placed, c), DOMAIN placed)
        BY <1>2, <1>3, <4>1, ChargeOfPlacement
      <4>. QED  BY <4>2 DEF more
    <3>4. /\ SumFunctionOnSet(PlaceCharge(cur, placed, c), DOMAIN placed) \in Nat
          /\ SumFunctionOnSet(RouteCharge(cur, route, c), DOMAIN route) \in Nat
      BY <1>2, <1>3, ChargeType
    <3>5. actorUse[c] \in Nat /\ crossUse[c] \in Nat /\ crossUse'[c] = crossUse[c]
      BY <1>1 DEF IInv, TypeOK
    <3>. HIDE DEF use
    <3>. QED  BY <3>1, <3>2, <3>3, <3>4, <3>5 DEF Charge
  <2>. QED  BY <1>1, <2>1 DEF PlanInv, AccountInv, Live
<1>. QED  BY <1>4, <1>5, <1>6, <1>7, <1>8 DEF PlanInv

\* What one more route does to the plan.
LEMMA RouteAdded ==
  ASSUME NEW r \in Requests, NEW p, NEW place, HostsIn(r, p, place),
         DOMAIN place \subseteq Chain(r),
         NEW routes, DOMAIN routes \subseteq Flows(r),
         \A g \in DOMAIN routes : Joined(p, place, routes, g),
         NEW f \in Flows(r) \ DOMAIN routes, NEW links, NEW more,
         DOMAIN more = DOMAIN routes \cup {f}, more[f] = links,
         \A g \in DOMAIN routes : more[g] = routes[g],
         Joined(p, place, more, f)
  PROVE  /\ \A g \in DOMAIN more : Joined(p, place, more, g)
         /\ \A c \in Cells : Charge(r, place, more, c) =
                               Charge(r, place, routes, c) + RouteUse(links, Slice[r].bw[f])[c]
         /\ SumFunctionOnSet(RouteHops(more), DOMAIN more) =
              SumFunctionOnSet(RouteHops(routes), DOMAIN routes) + InterHops(links)
<1>2. \A g \in DOMAIN more : Joined(p, place, more, g)
  BY DEF Joined
<1>3. links \subseteq Links /\ \A g \in DOMAIN routes : routes[g] \subseteq Links
  BY JoinedRoute
<1>4. ASSUME NEW c \in Cells
      PROVE  Charge(r, place, more, c) =
               Charge(r, place, routes, c) + RouteUse(links, Slice[r].bw[f])[c]
  <2>1. SumFunctionOnSet(RouteCharge(r, more, c), DOMAIN more) =
          RouteUse(links, Slice[r].bw[f])[c]
            + SumFunctionOnSet(RouteCharge(r, routes, c), DOMAIN routes)
    BY ChargeOfRoute
  <2>2. RouteUse(links, Slice[r].bw[f])[c] \in Nat
    BY VnfFacts DEF RouteUse
  <2>3. /\ SumFunctionOnSet(PlaceCharge(r, place, c), DOMAIN place) \in Nat
        /\ SumFunctionOnSet(RouteCharge(r, routes, c), DOMAIN routes) \in Nat
    BY ChargeType
  <2>. QED  BY <2>1, <2>2, <2>3 DEF Charge
<1>5. SumFunctionOnSet(RouteHops(more), DOMAIN more) =
        SumFunctionOnSet(RouteHops(routes), DOMAIN routes) + InterHops(links)
  <2>1. SumFunctionOnSet(RouteHops(more), DOMAIN more) =
          InterHops(links) + SumFunctionOnSet(RouteHops(routes), DOMAIN routes)
    BY <1>3, HopsOfRoute
  <2>2. IsFiniteSet(DOMAIN routes)
    BY ChainsAreFinite, FS_Subset
  <2>3. \A g \in DOMAIN routes : RouteHops(routes)[g] \in Nat
    BY <1>3, InterHopsType DEF RouteHops
  <2>4. InterHops(links) \in Nat /\ SumFunctionOnSet(RouteHops(routes), DOMAIN routes) \in Nat
    BY <1>3, <2>2, <2>3, InterHopsType, SumType
  <2>. QED  BY <2>1, <2>4
<1>. QED  BY <1>2, <1>4, <1>5

\* An actor adds a route inside its domain, or none when both ends share a node.
LEMMA ActorRoutePlanInv ==
  ASSUME IInv, PlanInv, NEW f \in toRoute, NEW links,
         pc = "act", pc' = "act", toRoute' = toRoute \ {f},
         route' = [g \in DOMAIN route \cup {f} |-> IF g = f THEN links ELSE route[g]],
         Joined(partition, placed, route', f),
         \A c \in Cells : actorUse'[c] = actorUse[c] + RouteUse(links, Slice[cur].bw[f])[c],
         UNCHANGED <<runnerVars, cur, arrivalVars, actor, toPlace, placed, crossUse, settled>>
  PROVE  PlanInv'
<1>. USE DEF runnerVars, arrivalVars
<1>1. /\ cur \in Requests /\ f \in Flows(cur) /\ actor \in todo
      /\ partition[f] = actor /\ partition[f + 1] = actor
  BY ActFacts DEF PlanInv, SearchInv, IntraFlows
<1>2. /\ DOMAIN placed \subseteq Chain(cur) /\ HostsIn(cur, partition, placed)
      /\ DOMAIN route = {g \in Flows(cur) : IF partition[g] = partition[g + 1]
                                            THEN Settles(g, toRoute)
                                            ELSE g \notin crossTodo}
      /\ \A g \in DOMAIN route : Joined(partition, placed, route, g)
      /\ \A c \in Cells : actorUse[c] + crossUse[c] = Charge(cur, placed, route, c)
      /\ hops = SumFunctionOnSet(RouteHops(route), DOMAIN route)
  BY DEF PlanInv, PlacedInv, RoutedInv, AccountInv, Live
<1>3. f \notin DOMAIN route
  BY <1>1, <1>2 DEF Settles
<1> DEFINE more == route'
<1>4. /\ DOMAIN more = DOMAIN route \cup {f}
      /\ \A g \in DOMAIN more : Joined(partition, placed, more, g)
      /\ \A c \in Cells : Charge(cur, placed, more, c) =
           Charge(cur, placed, route, c) + RouteUse(links, Slice[cur].bw[f])[c]
      /\ SumFunctionOnSet(RouteHops(more), DOMAIN more) =
           SumFunctionOnSet(RouteHops(route), DOMAIN route) + InterHops(links)
  <2>1. /\ DOMAIN more = DOMAIN route \cup {f} /\ more[f] = links
        /\ \A g \in DOMAIN route : more[g] = route[g]
        /\ Joined(partition, placed, more, f)
    BY <1>3
  <2>2. /\ DOMAIN route \subseteq Flows(cur) /\ f \in Flows(cur) \ DOMAIN route
        /\ cur \in Requests
        /\ DOMAIN placed \subseteq Chain(cur) /\ HostsIn(cur, partition, placed)
        /\ \A g \in DOMAIN route : Joined(partition, placed, route, g)
    BY <1>1, <1>2, <1>3
  <2>. HIDE DEF more
  <2>. QED  BY <2>1, <2>2, RouteAdded
<1>5. PlansInv' /\ HeadroomInv'
  BY SearchKeepsBooks DEF PlanInv
<1>6. SearchInv'
  BY DEF PlanInv, SearchInv
<1>7. PlacedInv'
  BY DEF PlanInv, PlacedInv, Live, Settles
<1>8. RoutedInv'
  <2>1. \A g \in Flows(cur) : Settles(g, toRoute)' <=> Settles(g, toRoute) \/ g = f
    BY <1>1 DEF Settles
  <2>2. DOMAIN more = {g \in Flows(cur) : IF partition[g] = partition[g + 1]
                                          THEN Settles(g, toRoute)'
                                          ELSE g \notin crossTodo}
    BY <1>1, <1>2, <1>4, <2>1
  <2>. QED  BY <1>4, <2>2 DEF RoutedInv
<1>9. AccountInv'
  <2>1. InterHops(links) = 0
    <3>1. more[f] = links
      OBVIOUS
    <3>2. links \subseteq LinksIn(actor)
      BY <1>1, <3>1 DEF Joined
    <3>. QED  BY <3>2, NoHopsInside
  <2>2. hops' = SumFunctionOnSet(RouteHops(more), DOMAIN more)
    <3>1. hops \in Nat
      BY DEF IInv, TypeOK
    <3>. HIDE DEF more
    <3>. QED  BY <1>2, <1>4, <2>1, <3>1
  <2>3. ASSUME NEW c \in Cells
        PROVE  actorUse'[c] + crossUse'[c] = Charge(cur, placed, more, c)
    <3>1. actorUse[c] \in Nat /\ crossUse[c] \in Nat
      BY DEF IInv, TypeOK
    <3>2. RouteUse(links, Slice[cur].bw[f])[c] \in Nat
      BY <1>1, VnfFacts DEF RouteUse
    <3>3. /\ actorUse'[c] = actorUse[c] + RouteUse(links, Slice[cur].bw[f])[c]
          /\ crossUse'[c] = crossUse[c]
          /\ actorUse[c] + crossUse[c] = Charge(cur, placed, route, c)
          /\ Charge(cur, placed, more, c) =
               Charge(cur, placed, route, c) + RouteUse(links, Slice[cur].bw[f])[c]
      BY <1>2, <1>4
    <3>. HIDE DEF more
    <3>. QED  BY <3>1, <3>2, <3>3
  <2>. QED  BY <2>2, <2>3 DEF AccountInv
<1>. QED  BY <1>5, <1>6, <1>7, <1>8, <1>9 DEF PlanInv

LEMMA RouteOnNodePlanInv ==
  ASSUME IInv, PlanInv, NEW f \in toRoute, RouteOnNode(f)
  PROVE  PlanInv'
<1>1. /\ pc = "act" /\ pc' = "act" /\ toRoute' = toRoute \ {f}
      /\ route' = [g \in DOMAIN route \cup {f} |-> IF g = f THEN {} ELSE route[g]]
      /\ placed[f] = placed[f + 1] /\ {f, f + 1} \subseteq DOMAIN placed
      /\ UNCHANGED <<runnerVars, cur, arrivalVars, actor, toPlace, placed, actorUse,
                     crossUse, settled>>
  BY DEF RouteOnNode, NextFlow, FlowsDue
<1>2. Joined(partition, placed, route', f)
  BY <1>1 DEF Joined
<1>3. \A c \in Cells : actorUse'[c] = actorUse[c] + RouteUse({}, Slice[cur].bw[f])[c]
  BY <1>1, ActFacts DEF RouteUse
<1>. QED  BY <1>1, <1>2, <1>3, ActorRoutePlanInv

LEMMA RouteIntraPlanInv ==
  ASSUME IInv, PlanInv, NEW f \in toRoute, NEW C, NEW q \in C, RouteIntra(f, C, q)
  PROVE  PlanInv'
<1>1. /\ pc = "act" /\ pc' = "act" /\ toRoute' = toRoute \ {f}
      /\ route' = [g \in DOMAIN route \cup {f} |-> IF g = f THEN LinksOf(q) ELSE route[g]]
      /\ q \in Paths(NodesIn(actor), placed[f], placed[f + 1])
      /\ {f, f + 1} \subseteq DOMAIN placed
      /\ actorUse' = Plus(actorUse, RouteUse(LinksOf(q), Slice[cur].bw[f]))
      /\ UNCHANGED <<runnerVars, cur, arrivalVars, actor, toPlace, placed, crossUse, settled>>
  BY DEF RouteIntra, NextFlow, FlowsDue, KShortest
<1>2. f \in Flows(cur) /\ partition[f] = actor /\ partition[f + 1] = actor /\ cur \in Requests
  BY <1>1, ActFacts DEF PlanInv, SearchInv, IntraFlows
<1>3. /\ LinksOf(q) \subseteq LinksIn(actor) /\ LinksOf(q) \subseteq Links
      /\ q \in Paths(Nodes, placed[f], placed[f + 1])
  BY <1>1, PathFacts DEF LinksIn, NodesIn, Paths
<1>4. Joined(partition, placed, route', f)
  BY <1>1, <1>2, <1>3 DEF Joined
<1>5. \A c \in Cells : actorUse'[c] = actorUse[c] + RouteUse(LinksOf(q), Slice[cur].bw[f])[c]
  <2> DEFINE use == RouteUse(LinksOf(q), Slice[cur].bw[f])
  <2>1. use \in [Cells -> Nat]
    <3>1. LinksOf(q) \in SUBSET Links /\ Slice[cur].bw[f] \in Nat
      BY <1>2, <1>3, VnfFacts
    <3>. QED  BY <3>1, RouteUseFacts
  <2>. HIDE DEF use
  <2>2. \A c \in Cells : actorUse'[c] = actorUse[c] + use[c]
    BY <1>1, <2>1, ActFacts, PlusFacts DEF use
  <2>. QED  BY <2>2 DEF use
<1>. QED  BY <1>1, <1>4, <1>5, ActorRoutePlanInv

LEMMA ActorAnswersPlanInv ==
  ASSUME IInv, PlanInv, ActorAnswers
  PROVE  PlanInv'
<1>1. /\ pc = "act" /\ pc' = "dispatch" /\ todo' = todo \ {actor}
      /\ toPlace = {} /\ toRoute = {}
      /\ UNCHANGED <<runnerVars, cur, partition, refused, crossTodo, crossOk, hops,
                     planVars, settled>>
  BY DEF ActorAnswers
<1>2. actor \in todo /\ actor \notin refused
  BY <1>1, ActFacts
<1>. USE DEF runnerVars, planVars
<1>3. PlansInv' /\ HeadroomInv'
  BY <1>1, SearchKeepsBooks DEF PlanInv
<1>4. SearchInv'
  BY <1>1 DEF PlanInv, SearchInv
<1>5. PlacedInv'
  BY <1>1, <1>2 DEF PlanInv, PlacedInv, Live, Settles
<1>6. RoutedInv'
  BY <1>1, <1>2 DEF PlanInv, RoutedInv, Live, Settles
<1>7. AccountInv'
  BY <1>1 DEF PlanInv, AccountInv, Live
<1>. QED  BY <1>3, <1>4, <1>5, <1>6, <1>7 DEF PlanInv

\* An actor that gives up takes its placements, its routes and their charges
\* with it, and nobody else's.
LEMMA ActorRollbackPlanInv ==
  ASSUME IInv, PlanInv, pc = "act", ActorRollback
  PROVE  PlanInv'
<1> DEFINE kept == {j \in DOMAIN placed : partition[j] # actor}
           held == {g \in DOMAIN route : partition[g] # actor}
<1>1. /\ pc' = "dispatch" /\ refused' = refused \cup {actor} /\ todo' = todo \ {actor}
      /\ placed' = [k \in kept |-> placed[k]] /\ route' = [f \in held |-> route[f]]
      /\ actorUse' = [c \in Cells |-> IF c \in CellsIn(actor) THEN 0 ELSE actorUse[c]]
      /\ UNCHANGED <<runnerVars, cur, partition, crossTodo, crossOk, hops, crossUse, settled>>
  BY DEF ActorRollback
<1>2. /\ cur \in Requests /\ actor \in todo /\ crossUse = Nothing
      /\ crossTodo = CrossFlows(cur, partition)
  BY ActFacts DEF PlanInv, SearchInv
<1>3. /\ DOMAIN placed = {k \in Chain(cur) : Settles(k, toPlace)}
      /\ HostsIn(cur, partition, placed)
      /\ DOMAIN route = {f \in Flows(cur) : IF partition[f] = partition[f + 1]
                                            THEN Settles(f, toRoute)
                                            ELSE f \notin crossTodo}
      /\ \A g \in DOMAIN route : Joined(partition, placed, route, g)
      /\ \A c \in Cells : actorUse[c] + crossUse[c] = Charge(cur, placed, route, c)
      /\ hops = SumFunctionOnSet(RouteHops(route), DOMAIN route)
  BY DEF PlanInv, PlacedInv, RoutedInv, AccountInv, Live
<1>4. /\ DOMAIN placed \subseteq Chain(cur) /\ DOMAIN route \subseteq Flows(cur)
      /\ \A f \in DOMAIN route : partition[f] = partition[f + 1]
      /\ IsFiniteSet(DOMAIN placed) /\ IsFiniteSet(DOMAIN route)
  <2>1. DOMAIN placed \subseteq Chain(cur) /\ DOMAIN route \subseteq Flows(cur)
    BY <1>3
  <2>2. \A f \in DOMAIN route : partition[f] = partition[f + 1]
    BY <1>2, <1>3 DEF CrossFlows
  <2>. QED  BY <1>2, <2>1, <2>2, ChainsAreFinite, FS_Subset
<1>. USE DEF runnerVars
<1>5. PlansInv' /\ HeadroomInv'
  BY <1>1, SearchKeepsBooks DEF PlanInv
<1>6. SearchInv'
  BY <1>1 DEF PlanInv, SearchInv
<1>7. PlacedInv'
  <2>1. \A k \in Chain(cur) : Settles(k, toPlace)' <=> Settles(k, toPlace) /\ partition[k] # actor
    BY <1>1, <1>2 DEF Settles
  <2>2. DOMAIN placed' = {k \in Chain(cur) : Settles(k, toPlace)'}
    BY <1>1, <1>3, <2>1
  <2>3. HostsIn(cur, partition, placed')
    BY <1>1, <1>3 DEF HostsIn
  <2>. QED  BY <1>1, <2>2, <2>3 DEF PlacedInv
<1>8. RoutedInv'
  <2>1. \A f \in Flows(cur) : partition[f] = partition[f + 1] =>
          (Settles(f, toRoute)' <=> Settles(f, toRoute) /\ partition[f] # actor)
    BY <1>1, <1>2 DEF Settles
  <2>2. DOMAIN route' = {f \in Flows(cur) : IF partition[f] = partition[f + 1]
                                            THEN Settles(f, toRoute)'
                                            ELSE f \notin crossTodo}
    BY <1>1, <1>3, <1>4, <2>1
  <2>3. ASSUME NEW f \in held
        PROVE  Joined(partition, placed', route', f)
    <3>1. Joined(partition, placed, route, f) /\ partition[f] # actor /\ partition[f + 1] # actor
      BY <1>3, <1>4
    <3>2. {f, f + 1} \subseteq kept
      BY <3>1 DEF Joined
    <3>3. placed'[f] = placed[f] /\ placed'[f + 1] = placed[f + 1] /\ route'[f] = route[f]
          /\ DOMAIN placed' = kept
      BY <1>1, <3>2
    <3>. HIDE DEF kept, held
    <3>. QED  BY <3>1, <3>2, <3>3 DEF Joined
  <2>. QED  BY <1>1, <2>2, <2>3 DEF RoutedInv
\* The actor's terms are the ones on the cells of its domain.
<1>9. ASSUME NEW c \in Cells, NEW k \in DOMAIN placed,
             PlaceCharge(cur, placed, c)[k] # 0
      PROVE  c \in CellsIn(actor) <=> partition[k] = actor
  <2>1. c \in {placed[k]} \X Kinds /\ placed[k] \in NodesIn(partition[k])
    BY <1>2, <1>3, <1>4, <1>9, PlaceChargeType DEF HostsIn
  <2>2. c \in CellsIn(partition[k])
    BY <2>1 DEF CellsIn, NodeCellsIn
  <2>. QED  BY <2>2, CellDomain
<1>10. ASSUME NEW c \in Cells, NEW f \in DOMAIN route,
              RouteCharge(cur, route, c)[f] # 0
       PROVE  c \in CellsIn(actor) <=> partition[f] = actor
  <2>1. c \in route[f]
    BY <1>2, <1>4, <1>10, RouteChargeType
  <2>2. c \in CellsIn(partition[f])
    BY <1>3, <1>4, <2>1 DEF Joined, CellsIn
  <2>. QED  BY <2>2, CellDomain
<1>11. ASSUME NEW c \in Cells
       PROVE  actorUse'[c] + crossUse'[c] = Charge(cur, placed', route', c)
  <2>1. /\ \A k \in DOMAIN placed : PlaceCharge(cur, placed, c)[k] \in Nat
        /\ \A f \in DOMAIN route : RouteCharge(cur, route, c)[f] \in Nat
    BY <1>2, <1>3, <1>4, PlaceChargeType, RouteChargeType
  <2>2. /\ DOMAIN placed' = kept /\ DOMAIN route' = held
        /\ \A k \in kept : PlaceCharge(cur, placed', c)[k] = PlaceCharge(cur, placed, c)[k]
        /\ \A f \in held : RouteCharge(cur, route', c)[f] = RouteCharge(cur, route, c)[f]
    BY <1>1 DEF PlaceCharge, RouteCharge
  <2>3. kept \in SUBSET (DOMAIN placed) /\ held \in SUBSET (DOMAIN route)
        /\ IsFiniteSet(kept) /\ IsFiniteSet(held)
    BY <1>4, FS_Subset
  <2>4. CASE c \in CellsIn(actor)
    <3>1. /\ \A k \in kept : PlaceCharge(cur, placed', c)[k] = 0
          /\ \A f \in held : RouteCharge(cur, route', c)[f] = 0
      BY <1>9, <1>10, <2>2, <2>4
    <3>2. Charge(cur, placed', route', c) = 0
      <4>1. /\ SumFunctionOnSet(PlaceCharge(cur, placed', c), kept) = 0
            /\ SumFunctionOnSet(RouteCharge(cur, route', c), held) = 0
        BY <2>3, <3>1, SumOfZeros
      <4>. QED  BY <2>2, <4>1 DEF Charge
    <3>. QED  BY <1>1, <1>2, <2>4, <3>2, NothingFacts
  <2>5. CASE c \notin CellsIn(actor)
    <3>1. /\ \A k \in DOMAIN placed \ kept : PlaceCharge(cur, placed, c)[k] = 0
          /\ \A f \in DOMAIN route \ held : RouteCharge(cur, route, c)[f] = 0
      BY <1>9, <1>10, <2>5
    <3>2. SumFunctionOnSet(PlaceCharge(cur, placed, c), DOMAIN placed) =
            SumFunctionOnSet(PlaceCharge(cur, placed', c), kept)
      <4>. HIDE DEF kept
      <4>. QED  BY <1>4, <2>1, <2>2, <2>3, <3>1, SumsEqual
    <3>3. SumFunctionOnSet(RouteCharge(cur, route, c), DOMAIN route) =
            SumFunctionOnSet(RouteCharge(cur, route', c), held)
      <4>. HIDE DEF held
      <4>. QED  BY <1>4, <2>1, <2>2, <2>3, <3>1, SumsEqual
    <3>4. Charge(cur, placed', route', c) = Charge(cur, placed, route, c)
      BY <2>2, <3>2, <3>3 DEF Charge
    <3>. QED  BY <1>1, <1>3, <2>5, <3>4
  <2>. QED  BY <2>4, <2>5
<1>12. hops' = SumFunctionOnSet(RouteHops(route'), DOMAIN route')
  <2>1. \A f \in DOMAIN route : InterHops(route[f]) = 0
    BY <1>3, <1>4, NoHopsInside DEF Joined
  <2>2. \A f \in DOMAIN route : RouteHops(route)[f] = 0
    BY <2>1 DEF RouteHops
  <2>3. DOMAIN route' = held /\ \A f \in held : RouteHops(route')[f] = 0
    BY <1>1, <2>1 DEF RouteHops
  <2>4. IsFiniteSet(held)
    BY <1>4, FS_Subset
  <2>. QED  BY <1>1, <1>3, <1>4, <2>2, <2>3, <2>4, SumOfZeros
<1>13. AccountInv'
  BY <1>1, <1>11, <1>12 DEF AccountInv
<1>. QED  BY <1>5, <1>6, <1>7, <1>8, <1>13 DEF PlanInv

-----------------------------------------------------------------------------
(***************************************************************************)
(* Cross-domain routing and the decision.                                   *)
(***************************************************************************)
LEMMA RouteCrossPlanInv ==
  ASSUME IInv, PlanInv, NEW f \in crossTodo, NEW C, NEW q \in C, RouteCross(f, C, q)
  PROVE  PlanInv'
<1> DEFINE links == LinksOf(q)
           use == RouteUse(links, Slice[cur].bw[f])
           more == route'
<1>1. /\ pc = "cross" /\ pc' = "cross" /\ crossTodo' = crossTodo \ {f}
      /\ more = [g \in DOMAIN route \cup {f} |-> IF g = f THEN links ELSE route[g]]
      /\ q \in Paths(Nodes, placed[f], placed[f + 1])
      /\ crossUse' = Plus(crossUse, use) /\ hops' = hops + InterHops(links)
      /\ UNCHANGED <<runnerVars, cur, partition, todo, refused, crossOk, actorVars,
                     placed, actorUse, settled>>
  BY DEF RouteCross, KShortest, HopsAfter
<1>2. /\ cur \in Requests /\ todo = {} /\ refused = {}
      /\ crossTodo \subseteq Flows(cur) /\ f \in Flows(cur)
      /\ partition \in [Chain(cur) -> Domains]
  BY <1>1 DEF IInv, RequestInv, UndoInv, Searching, PlanInv, SearchInv
<1>3. /\ DOMAIN placed = {k \in Chain(cur) : Settles(k, toPlace)}
      /\ HostsIn(cur, partition, placed)
      /\ DOMAIN route = {g \in Flows(cur) : IF partition[g] = partition[g + 1]
                                            THEN Settles(g, toRoute)
                                            ELSE g \notin crossTodo}
      /\ \A g \in DOMAIN route : Joined(partition, placed, route, g)
      /\ \A c \in Cells : actorUse[c] + crossUse[c] = Charge(cur, placed, route, c)
      /\ hops = SumFunctionOnSet(RouteHops(route), DOMAIN route)
  BY <1>1 DEF PlanInv, PlacedInv, RoutedInv, AccountInv, Live
<1>4. DOMAIN placed = Chain(cur) /\ f \in Chain(cur) /\ f + 1 \in Chain(cur)
  BY <1>2, <1>3, VnfFacts DEF Settles, Chain, Flows
<1>5. partition[f] # partition[f + 1] /\ f \notin DOMAIN route
  <2>1. f \in CrossFlows(cur, partition)
    BY <1>1 DEF PlanInv, SearchInv
  <2>. QED  BY <1>3, <2>1 DEF CrossFlows
<1>6. Joined(partition, placed, more, f)
  BY <1>1, <1>4, <1>5 DEF Joined
<1>7. /\ DOMAIN more = DOMAIN route \cup {f}
      /\ \A g \in DOMAIN more : Joined(partition, placed, more, g)
      /\ \A c \in Cells : Charge(cur, placed, more, c) =
           Charge(cur, placed, route, c) + RouteUse(links, Slice[cur].bw[f])[c]
      /\ SumFunctionOnSet(RouteHops(more), DOMAIN more) =
           SumFunctionOnSet(RouteHops(route), DOMAIN route) + InterHops(links)
  <2>1. /\ DOMAIN route \subseteq Flows(cur) /\ f \in Flows(cur) \ DOMAIN route
        /\ DOMAIN placed \subseteq Chain(cur)
    BY <1>2, <1>3, <1>5
  <2>2. /\ DOMAIN more = DOMAIN route \cup {f} /\ more[f] = links
        /\ \A g \in DOMAIN route : more[g] = route[g]
    BY <1>1, <1>5
  <2>. HIDE DEF more, links
  <2>. QED  BY <1>2, <1>3, <1>6, <2>1, <2>2, RouteAdded
<1>. USE DEF runnerVars, actorVars
<1>8. PlansInv' /\ HeadroomInv'
  BY <1>1, SearchKeepsBooks DEF PlanInv
<1>9. SearchInv'
  BY <1>1 DEF PlanInv, SearchInv
<1>10. PlacedInv'
  BY <1>1 DEF PlanInv, PlacedInv, Live, Settles
<1>11. RoutedInv'
  <2>1. DOMAIN more = {g \in Flows(cur) : IF partition[g] = partition[g + 1]
                                          THEN Settles(g, toRoute)
                                          ELSE g \notin crossTodo'}
    BY <1>1, <1>2, <1>3, <1>5, <1>7
  <2>. QED  BY <1>1, <1>7, <2>1 DEF RoutedInv, Settles
<1>12. AccountInv'
  <2>1. hops' = SumFunctionOnSet(RouteHops(more), DOMAIN more)
    BY <1>1, <1>3, <1>7
  <2>2. ASSUME NEW c \in Cells
        PROVE  actorUse'[c] + crossUse'[c] = Charge(cur, placed, more, c)
    <3>1. actorUse[c] \in Nat /\ crossUse \in [Cells -> Nat] /\ actorUse'[c] = actorUse[c]
      BY <1>1 DEF IInv, TypeOK
    <3>2. use \in [Cells -> Nat]
      <4>1. links \in SUBSET Links /\ Slice[cur].bw[f] \in Nat
        BY <1>1, <1>2, VnfFacts, PathFacts
      <4>. HIDE DEF links
      <4>. QED  BY <4>1, RouteUseFacts
    <3>. HIDE DEF use, more
    <3>3. crossUse'[c] = crossUse[c] + use[c]
      BY <1>1, <3>1, <3>2, PlusFacts
    <3>4. Charge(cur, placed, more, c) = actorUse[c] + crossUse[c] + use[c]
      BY <1>3, <1>7 DEF use
    <3>. QED  BY <3>1, <3>2, <3>3, <3>4
  <2>. QED  BY <1>1, <2>1, <2>2 DEF AccountInv
<1>. QED  BY <1>8, <1>9, <1>10, <1>11, <1>12 DEF PlanInv

LEMMA CrossFailsPlanInv ==
  ASSUME IInv, PlanInv, NEW f \in crossTodo, NEW C, CrossFails(f, C)
  PROVE  PlanInv'
<1>1. pc' = "decide" /\ ~crossOk' /\ crossTodo' = {} /\ UNCHANGED <<runnerVars, settled>>
  BY DEF CrossFails
<1>2. PlansInv' /\ HeadroomInv'
  BY <1>1, SearchKeepsBooks DEF PlanInv, runnerVars
<1>3. SearchInv' /\ ~Live'
  BY <1>1 DEF SearchInv, Live
<1>. QED  BY <1>2, <1>3 DEF PlanInv, PlacedInv, RoutedInv, AccountInv

LEMMA FinishCrossPlanInv ==
  ASSUME IInv, PlanInv, FinishCross
  PROVE  PlanInv'
<1>1. /\ pc = "cross" /\ pc' = "decide" /\ crossTodo = {}
      /\ UNCHANGED <<runnerVars, cur, arrivalVars, actorVars, planVars, settled>>
  BY DEF FinishCross
<1>. USE DEF runnerVars, arrivalVars, actorVars, planVars
<1>2. PlansInv' /\ HeadroomInv'
  BY <1>1, SearchKeepsBooks DEF PlanInv
<1>3. SearchInv'
  BY <1>1 DEF PlanInv, SearchInv
<1>4. PlacedInv'
  BY <1>1 DEF PlanInv, PlacedInv, Live, Settles
<1>5. RoutedInv'
  BY <1>1 DEF PlanInv, RoutedInv, Live, Settles
<1>6. AccountInv'
  BY <1>1 DEF PlanInv, AccountInv, Live
<1>. QED  BY <1>2, <1>3, <1>4, <1>5, <1>6 DEF PlanInv

\* Without a violation, nothing was refused and nothing is left to do.
LEMMA CommitPlanInv ==
  ASSUME IInv, PlanInv, Commit
  PROVE  PlanInv'
<1>1. /\ pc = "decide" /\ pc' = "allocate"
      /\ UNCHANGED <<runnerVars, cur, arrivalVars, actorVars, planVars, settled>>
  BY DEF Commit
<1>2. Contiguous(partition) /\ refused = {} /\ crossOk /\ ~(hops > HopLimit)
  BY DEF Commit, Violations
<1>3. hops <= HopLimit
  BY <1>2, RequestAssumption DEF IInv, TypeOK
<1>4. todo = {} /\ crossTodo = {} /\ partition \in [Chain(cur) -> Domains]
  BY <1>1, <1>2 DEF IInv, UndoInv, Searching, PlanInv, SearchInv
<1>. USE DEF runnerVars, arrivalVars, actorVars, planVars
<1>5. PlansInv' /\ HeadroomInv'
  BY <1>1, SearchKeepsBooks DEF PlanInv
<1>6. SearchInv'
  BY <1>1, <1>2, <1>3, <1>4 DEF PlanInv, SearchInv
<1>7. PlacedInv'
  BY <1>1, <1>2 DEF PlanInv, PlacedInv, Live, Settles
<1>8. RoutedInv'
  BY <1>1, <1>2 DEF PlanInv, RoutedInv, Live, Settles
<1>9. AccountInv'
  BY <1>1, <1>2 DEF PlanInv, AccountInv, Live
<1>. QED  BY <1>5, <1>6, <1>7, <1>8, <1>9 DEF PlanInv

-----------------------------------------------------------------------------
(***************************************************************************)
(* The runner.                                                             *)
(***************************************************************************)
LEMMA CommittedPlanIsSound ==
  ASSUME IInv, PlanInv, pc = "allocate"
  PROVE  PlanSound(cur, Plan)
<1>1. /\ partition \in [Chain(cur) -> Domains] /\ Contiguous(partition)
      /\ todo = {} /\ refused = {} /\ crossTodo = {} /\ hops <= HopLimit
  BY DEF PlanInv, SearchInv
<1>2. /\ DOMAIN placed = {k \in Chain(cur) : Settles(k, toPlace)}
      /\ HostsIn(cur, partition, placed)
      /\ DOMAIN route = {g \in Flows(cur) : IF partition[g] = partition[g + 1]
                                            THEN Settles(g, toRoute)
                                            ELSE g \notin crossTodo}
      /\ \A g \in DOMAIN route : Joined(partition, placed, route, g)
      /\ \A c \in Cells : actorUse[c] + crossUse[c] = Charge(cur, placed, route, c)
      /\ hops = SumFunctionOnSet(RouteHops(route), DOMAIN route)
  BY DEF PlanInv, PlacedInv, RoutedInv, AccountInv, Live
<1>3. DOMAIN placed = Chain(cur) /\ DOMAIN route = Flows(cur)
  BY <1>1, <1>2 DEF Settles
<1>4. \A c \in Cells : Plus(actorUse, crossUse)[c] = Charge(cur, placed, route, c)
  BY <1>2 DEF Plus
<1>5. /\ Plan.partition = partition /\ Plan.place = placed /\ Plan.route = route
      /\ Plan.use = Plus(actorUse, crossUse)
  BY DEF Plan
<1>. QED  BY <1>1, <1>2, <1>3, <1>4, <1>5 DEF PlanSound

LEMMA AllocatePlanPlanInv ==
  ASSUME IInv, IInv', PlanInv, Allocate, PlanComplete
  PROVE  PlanInv'
<1>1. /\ pc = "allocate" /\ pc' = "verify" /\ cur \in Requests
      /\ registry' = [registry EXCEPT ![cur] = Plan] /\ DOMAIN registry = Requests
      /\ UNCHANGED <<activePlans, settled>>
  BY DEF Allocate, IInv, RequestInv, TypeOK
<1>2. SearchInv' /\ PlacedInv' /\ RoutedInv' /\ AccountInv'
  BY <1>1, NoSearch
<1>3. PlansInv'
  <2>1. PlanSound(cur, Plan)
    BY <1>1, CommittedPlanIsSound
  <2>. QED  BY <1>1, <2>1 DEF PlanInv, PlansInv
<1>4. HeadroomInv'
  BY <1>1 DEF PlanInv, HeadroomInv, ActivePlans
<1>. QED  BY <1>2, <1>3, <1>4 DEF PlanInv

\* What the verifier found unsaturated covers every cell the new slice takes
\* from; the cells of the others are as they were.
LEMMA KeepPlanInv ==
  ASSUME IInv, IInv', PlanInv, Keep
  PROVE  PlanInv'
<1> DEFINE plan == registry[cur]
<1>1. /\ pc = "verify" /\ pc' = "idle" /\ cur \in Requests /\ plan # NoPlan
      /\ activePlans' = [activePlans EXCEPT ![cur] = plan] /\ DOMAIN activePlans = Requests
      /\ registry' = registry /\ settled' = residual
      /\ crossOk' /\ hops' = 0 /\ placed' = <<>> /\ route' = <<>>
  BY DEF Keep, ClearArrival, IInv, RequestInv, TypeOK
<1>2. SearchInv' /\ PlacedInv' /\ RoutedInv' /\ AccountInv'
  BY <1>1, NoSearch
<1>3. PlansInv'
  BY <1>1 DEF PlanInv, PlansInv
<1>4. PlanSound(cur, plan)
  BY <1>1 DEF PlanInv, PlansInv
<1>5. /\ residual \in [Cells -> Int] /\ settled \in [Cells -> Int]
      /\ plan.use \in [Cells -> Nat]
      /\ \A c \in Cells : residual[c] = settled[c] - plan.use[c]
  BY <1>1 DEF IInv, TypeOK, BalanceInv
<1>6. ASSUME NEW c \in CarriedBy(cur, plan)
      PROVE  residual[c] > 0
  <2>1. c \in Cells /\ residual[c] \in Int
    BY <1>4, <1>5, <1>6, CarriedCells
  <2>2. ~Saturated(cur, plan)
    BY DEF Keep, Fired
  <2>3. DOMAIN plan.route = Flows(cur)
    BY <1>4 DEF PlanSound
  <2>4. ~(residual[c] <= 0)
    BY <1>6, <2>2, <2>3 DEF Saturated, RouteOf, CarriedBy
  <2>. QED  BY <2>1, <2>4
<1>7. ASSUME NEW c \in Cells, plan.use[c] # 0, c \notin CarriedBy(cur, plan)
      PROVE  c \in Nodes \X {"ram"}
  <2>1. /\ DOMAIN plan.place = Chain(cur) /\ DOMAIN plan.route = Flows(cur)
        /\ HostsIn(cur, plan.partition, plan.place)
        /\ Charge(cur, plan.place, plan.route, c) # 0
    BY <1>4, <1>7 DEF PlanSound
  <2>2. \/ \E k \in Chain(cur) : c \in {plan.place[k]} \X Kinds
        \/ \E f \in Flows(cur) : c \in plan.route[f]
    <3>1. DOMAIN plan.place \subseteq Chain(cur) /\ DOMAIN plan.route \subseteq Flows(cur)
      BY <2>1
    <3>. HIDE DEF plan
    <3>. QED  BY <1>1, <2>1, <3>1, WhoIsCharged
  <2>3. PICK k \in Chain(cur) : c \in {plan.place[k]} \X Kinds
    BY <1>7, <2>2 DEF CarriedBy
  <2>4. plan.place[k] \in Nodes /\ c # <<plan.place[k], "cpu">>
    BY <1>7, <2>1, <2>3 DEF HostsIn, NodesIn, CarriedBy, HostCell
  <2>. QED  BY <2>3, <2>4 DEF Kinds
<1>8. HeadroomInv'
  <2> SUFFICES ASSUME NEW r \in ActivePlans', NEW c \in CarriedBy(r, activePlans'[r])
               PROVE  residual[c] > 0
    BY <1>1 DEF HeadroomInv
  <2>1. CASE r = cur
    BY <1>1, <1>6, <2>1
  <2>2. CASE r # cur
    <3>1. r \in ActivePlans /\ activePlans'[r] = activePlans[r]
      BY <1>1, <2>2 DEF ActivePlans
    <3>2. PlanSound(r, activePlans[r])
      BY <3>1, ActivePlansAreSound DEF PlanInv
    <3>3. settled[c] > 0 /\ c \in Cells /\ c \in CarriedBy(r, activePlans[r])
      BY <3>1, <3>2, CarriedCells DEF PlanInv, HeadroomInv
    <3>4. c \notin Nodes \X {"ram"}
      <4>1. CASE c \in Links
        BY <4>1, LinksAreNoNodeCells DEF NodeCells, Kinds
      <4>2. CASE \E k \in Chain(r) : c = HostCell(activePlans[r], k)
        BY <4>2 DEF HostCell
      <4>3. \A f \in Flows(r) : activePlans[r].route[f] \subseteq Links
        BY <3>2, JoinedRoute DEF PlanSound
      <4>. QED  BY <3>3, <4>1, <4>2, <4>3 DEF CarriedBy
    <3>5. c \in CarriedBy(cur, plan) \/ plan.use[c] = 0
      BY <1>7, <3>3, <3>4
    <3>. QED  BY <1>5, <1>6, <3>3, <3>5
  <2>. QED  BY <2>1, <2>2
<1>. QED  BY <1>2, <1>3, <1>8 DEF PlanInv

-----------------------------------------------------------------------------
(***************************************************************************)
(* The invariant, and what follows from it.                                 *)
(***************************************************************************)
LEMMA ActPlanInv ==
  ASSUME IInv, PlanInv, Act
  PROVE  PlanInv'
<1>1. ASSUME NEW k \in toPlace, NEW n \in NodesIn(actor), PlaceVnf(k, n)
      PROVE  PlanInv'
  BY <1>1, PlaceVnfPlanInv
<1>2. ASSUME NEW k \in toPlace, RefuseVnf(k)
      PROVE  PlanInv'
  BY <1>2, ActorRollbackPlanInv DEF RefuseVnf
<1>3. ASSUME NEW f \in toRoute, RouteOnNode(f)
      PROVE  PlanInv'
  BY <1>3, RouteOnNodePlanInv
<1>4. ASSUME NEW f \in toRoute, NEW C, NEW q \in C, RouteIntra(f, C, q)
      PROVE  PlanInv'
  BY <1>4, RouteIntraPlanInv
<1>5. ASSUME NEW f \in toRoute, NEW C, RefuseFlow(f, C)
      PROVE  PlanInv'
  BY <1>5, ActorRollbackPlanInv DEF RefuseFlow
<1>6. FlowsDue \subseteq toRoute
  BY DEF FlowsDue
<1>. QED  BY <1>1, <1>2, <1>3, <1>4, <1>5, <1>6, ActorAnswersPlanInv DEF Act

LEMMA CrossPlanInv ==
  ASSUME IInv, PlanInv, Cross
  PROVE  PlanInv'
<1>1. ASSUME NEW f \in crossTodo, NEW C, NEW q \in C, RouteCross(f, C, q)
      PROVE  PlanInv'
  BY <1>1, RouteCrossPlanInv
<1>2. ASSUME NEW f \in crossTodo, NEW C, CrossFails(f, C)
      PROVE  PlanInv'
  BY <1>2, CrossFailsPlanInv
<1>. QED  BY <1>1, <1>2, FinishCrossPlanInv DEF Cross

LEMMA StutterPlanInv ==
  ASSUME PlanInv, UNCHANGED vars
  PROVE  PlanInv'
<1>. USE DEF PlanInv, vars, runnerVars, arrivalVars, actorVars, planVars
<1>1. SearchInv'
  BY DEF SearchInv
<1>2. PlacedInv'
  BY DEF PlacedInv, Live, Settles
<1>3. RoutedInv'
  BY DEF RoutedInv, Live, Settles
<1>4. AccountInv'
  BY DEF AccountInv, Live
<1>5. PlansInv' /\ HeadroomInv'
  BY DEF PlansInv, HeadroomInv, ActivePlans
<1>. QED  BY <1>1, <1>2, <1>3, <1>4, <1>5

LEMMA NextPlanInv ==
  ASSUME IInv, IInv', PlanInv, [Next]_vars
  PROVE  PlanInv'
<1>1. CASE Event
  BY <1>1, EventPlanInv DEF Event
<1>2. CASE RejectStructural \/ Reject \/ Revoke \/ (Allocate /\ ~PlanComplete)
  BY <1>2, TurnedAwayPlanInv
<1>3. CASE \E p \in [Chain(cur) -> Domains] : ChoosePartition(p)
  BY <1>3, ChoosePartitionPlanInv
<1>4. CASE Dispatch
  BY <1>4, StartActorPlanInv, NoActorPlanInv, FinishDispatchPlanInv DEF Dispatch
<1>5. CASE Act
  BY <1>5, ActPlanInv
<1>6. CASE Cross
  BY <1>6, CrossPlanInv
<1>7. CASE Commit
  BY <1>7, CommitPlanInv
<1>8. CASE Allocate /\ PlanComplete
  BY <1>8, AllocatePlanPlanInv
<1>9. CASE Keep
  BY <1>9, KeepPlanInv
<1>10. CASE Reset
  BY <1>10, ResetPlanInv
<1>11. CASE UNCHANGED vars
  BY <1>11, StutterPlanInv
<1>. QED
  BY <1>1, <1>2, <1>3, <1>4, <1>5, <1>6, <1>7, <1>8, <1>9, <1>10, <1>11
     DEF Next, Advance

\* From the first placement to the departure, what is placed or routed is
\* permitted, joined and charged for, and what carries a slice has headroom.
THEOREM PlanInvHolds == Spec => []PlanInv
<1>1. Init => PlanInv
  BY InitPlanInv
<1>2. IInv /\ IInv' /\ PlanInv /\ [Next]_vars => PlanInv'
  BY NextPlanInv
<1>. QED  BY <1>1, <1>2, IInvHolds, PTL DEF Spec

\* build_placement_plan and the loops of allocate and deallocate: every plan in
\* the registry charges each node and link exactly what its VNFs and flows ask.
THEOREM PlansChargeWhatTheyUse == Spec => []PlanAccountsForUse
<1>1. ASSUME PlanInv PROVE PlanAccountsForUse
  <2> SUFFICES ASSUME NEW r \in Requests, registry[r] # NoPlan, NEW c \in Cells
               PROVE  registry[r].use[c] =
                        SumFunctionOnSet([k \in Chain(r) |->
                                            NodeUse(registry[r].place[k], Vnf(r, k))[c]],
                                         Chain(r))
                          + SumFunctionOnSet([f \in Flows(r) |->
                                RouteUse(RouteOf(registry[r], f), Slice[r].bw[f])[c]],
                              Flows(r))
    BY DEF PlanAccountsForUse
  <2> DEFINE plan == registry[r]
  <2>1. PlanSound(r, plan)
    BY <1>1 DEF PlanInv, PlansInv
  <2>2. /\ DOMAIN plan.place = Chain(r) /\ DOMAIN plan.route = Flows(r)
        /\ plan.use[c] = Charge(r, plan.place, plan.route, c)
    BY <2>1 DEF PlanSound
  <2>3. PlaceCharge(r, plan.place, c) =
          [k \in Chain(r) |-> NodeUse(plan.place[k], Vnf(r, k))[c]]
    BY <2>2 DEF PlaceCharge
  <2>4. RouteCharge(r, plan.route, c) =
          [f \in Flows(r) |-> RouteUse(RouteOf(plan, f), Slice[r].bw[f])[c]]
    BY <2>2 DEF RouteCharge, RouteOf
  <2>. QED  BY <2>2, <2>3, <2>4 DEF Charge
<1>. QED  BY <1>1, PlanInvHolds, PTL

\* The nodes GreedyDomainActor and DomainActor select, and the check of
\* chain_order.py: an active slice is where it may be, and re-enters no domain.
THEOREM PlansArePlacedSoundly == Spec => []PlacementSound
<1>1. ASSUME IInv, PlanInv PROVE PlacementSound
  <2> SUFFICES ASSUME NEW r \in ActivePlans
               PROVE  /\ DOMAIN activePlans[r].place = Chain(r)
                      /\ \A k \in Chain(r) :
                           /\ activePlans[r].place[k] \in Vnf(r, k).permitted
                           /\ DomainOf[activePlans[r].place[k]] = activePlans[r].partition[k]
                      /\ Contiguous(activePlans[r].partition)
    BY DEF PlacementSound
  <2>1. PlanSound(r, activePlans[r])
    BY <1>1, ActivePlansAreSound DEF PlanInv
  <2>. QED  BY <2>1 DEF PlanSound, HostsIn, NodesIn
<1>. QED  BY <1>1, IInvHolds, PlanInvHolds, PTL

\* route_flow, in the actors and in the coordinator: every flow of an active
\* slice joins its hosts, inside its domain if it has one, and the slice as a
\* whole crosses at most max_inter_domain_hops borders.
THEOREM PlansAreRoutedSoundly == Spec => []RoutesSound
<1>1. ASSUME IInv, PlanInv PROVE RoutesSound
  <2> SUFFICES ASSUME NEW r \in ActivePlans
               PROVE  LET plan == activePlans[r] IN
                      /\ DOMAIN plan.route = Flows(r)
                      /\ \A f \in Flows(r) :
                           /\ \/ plan.place[f] = plan.place[f + 1] /\ plan.route[f] = {}
                              \/ \E p \in Paths(Nodes, plan.place[f], plan.place[f + 1]) :
                                   plan.route[f] = LinksOf(p)
                           /\ plan.partition[f] = plan.partition[f + 1] =>
                                plan.route[f] \subseteq LinksIn(plan.partition[f])
                      /\ SumFunctionOnSet([f \in Flows(r) |-> InterHops(plan.route[f])],
                                          Flows(r)) <= HopLimit
    BY DEF RoutesSound
  <2> DEFINE plan == activePlans[r]
  <2>1. PlanSound(r, plan)
    BY <1>1, ActivePlansAreSound DEF PlanInv
  <2>2. /\ DOMAIN plan.route = Flows(r)
        /\ \A f \in Flows(r) : Joined(plan.partition, plan.place, plan.route, f)
        /\ SumFunctionOnSet(RouteHops(plan.route), Flows(r)) <= HopLimit
    BY <2>1 DEF PlanSound
  <2>3. RouteHops(plan.route) = [f \in Flows(r) |-> InterHops(plan.route[f])]
    BY <2>2 DEF RouteHops
  <2>4. \A f \in Flows(r) :
          /\ \/ plan.place[f] = plan.place[f + 1] /\ plan.route[f] = {}
             \/ \E p \in Paths(Nodes, plan.place[f], plan.place[f + 1]) :
                  plan.route[f] = LinksOf(p)
          /\ plan.partition[f] = plan.partition[f + 1] =>
               plan.route[f] \subseteq LinksIn(plan.partition[f])
    <3>. HIDE DEF plan
    <3>. QED  BY <2>2 DEF Joined
  <2>5. SumFunctionOnSet([f \in Flows(r) |-> InterHops(plan.route[f])], Flows(r)) <= HopLimit
    BY <2>2, <2>3
  <2>. QED  BY <2>2, <2>4, <2>5
<1>. QED  BY <1>1, IInvHolds, PlanInvHolds, PTL

\* GroundTruthVerifier looks at the arriving slice alone, and that is enough:
\* between arrivals no node or link that carries an active slice is saturated.
THEOREM NoActiveSliceSaturated == Spec => []NoSaturatedElementInUse
<1>1. ASSUME IInv, PlanInv PROVE NoSaturatedElementInUse
  <2> SUFFICES ASSUME pc = "idle", NEW r \in ActivePlans
               PROVE  /\ \A k \in Chain(r) : residual[<<activePlans[r].place[k], "cpu">>] > 0
                      /\ \A f \in Flows(r) :
                           \A l \in RouteOf(activePlans[r], f) : residual[l] > 0
    BY DEF NoSaturatedElementInUse
  <2>1. residual = settled
    BY <1>1 DEF IInv, BalanceInv
  <2>2. DOMAIN activePlans[r].route = Flows(r)
    BY <1>1, ActivePlansAreSound DEF PlanInv, PlanSound
  <2>3. \A c \in CarriedBy(r, activePlans[r]) : residual[c] > 0
    BY <1>1, <2>1 DEF PlanInv, HeadroomInv
  <2>. QED  BY <2>2, <2>3 DEF CarriedBy, HostCell, RouteOf
<1>. QED  BY <1>1, IInvHolds, PlanInvHolds, PTL
-----------------------------------------------------------------------------
(***************************************************************************)
(* The frame asserts.  They read the mask again, long after the partition   *)
(* was chosen, and would stop the program with the debits in place.         *)
(***************************************************************************)
\* What the policy decoded under the mask stays so until the arrival is over.
MaskInv ==
  Mode = "masked" => (pc \in {"dispatch", "act", "cross", "decide"} => FrameOk)

LEMMA ActFrame ==
  ASSUME Act
  PROVE  pc = "act" /\ UNCHANGED <<cur, partition>>
<1>. USE DEF arrivalVars
<1>1. ASSUME NEW k \in toPlace, NEW n \in NodesIn(actor), PlaceVnf(k, n)
      PROVE  pc = "act" /\ UNCHANGED <<cur, partition>>
  BY <1>1 DEF PlaceVnf
<1>2. ASSUME ActorRollback
      PROVE  UNCHANGED <<cur, partition>>
  BY <1>2 DEF ActorRollback
<1>3. ASSUME NEW k \in toPlace, RefuseVnf(k)
      PROVE  pc = "act" /\ UNCHANGED <<cur, partition>>
  BY <1>2, <1>3 DEF RefuseVnf
<1>4. ASSUME NEW f \in toRoute, RouteOnNode(f)
      PROVE  pc = "act" /\ UNCHANGED <<cur, partition>>
  BY <1>4 DEF RouteOnNode
<1>5. ASSUME NEW f \in FlowsDue, NEW C, NEW p, RouteIntra(f, C, p)
      PROVE  pc = "act" /\ UNCHANGED <<cur, partition>>
  BY <1>5 DEF RouteIntra
<1>6. ASSUME NEW f \in FlowsDue, NEW C, RefuseFlow(f, C)
      PROVE  pc = "act" /\ UNCHANGED <<cur, partition>>
  BY <1>2, <1>6 DEF RefuseFlow
<1>7. CASE ActorAnswers
  BY <1>7 DEF ActorAnswers
<1>. QED  BY <1>1, <1>3, <1>4, <1>5, <1>6, <1>7 DEF Act

LEMMA MaskStep ==
  ASSUME MaskInv, [Next]_vars
  PROVE  MaskInv'
<1> DEFINE Searched == {"dispatch", "act", "cross", "decide"}
<1>1. ASSUME NEW p \in [Chain(cur) -> Domains], ChoosePartition(p)
      PROVE  MaskInv'
  BY <1>1 DEF ChoosePartition, MayPartition, Masked, MaskInv, FrameOk
<1>2. CASE pc' \notin Searched
  BY <1>2 DEF MaskInv
<1>3. CASE pc \in Searched /\ UNCHANGED <<cur, partition>>
  BY <1>3 DEF MaskInv, FrameOk
<1>4. CASE Event
  BY <1>2, <1>4 DEF Event, Arrive, DepartAdmitted, DepartRejected
<1>5. CASE RejectStructural \/ Reject \/ Commit \/ Allocate \/ Revoke \/ Keep \/ Reset
  BY <1>2, <1>5 DEF RejectStructural, Reject, Commit, Allocate, Revoke, Keep, Reset
<1>6. CASE Dispatch
  BY <1>3, <1>6 DEF Dispatch, StartActor, NoActor, FinishDispatch, arrivalVars
<1>7. CASE Act
  <2>1. pc = "act" /\ UNCHANGED <<cur, partition>>
    BY <1>7, ActFrame
  <2>. QED  BY <1>3, <2>1
<1>8. CASE Cross
  <2>1. ASSUME NEW f \in crossTodo, NEW C, NEW q, RouteCross(f, C, q) \/ CrossFails(f, C)
        PROVE  pc = "cross" /\ UNCHANGED <<cur, partition>>
    BY <2>1 DEF RouteCross, CrossFails
  <2>2. CASE FinishCross
    BY <1>3, <2>2 DEF FinishCross, arrivalVars
  <2>3. (pc = "cross" /\ UNCHANGED <<cur, partition>>) \/ FinishCross
    BY <1>8, <2>1 DEF Cross
  <2>. QED  BY <1>3, <2>2, <2>3
<1>9. CASE UNCHANGED vars
  BY <1>9 DEF vars, arrivalVars, MaskInv, FrameOk
<1>. QED  BY <1>1, <1>4, <1>5, <1>6, <1>7, <1>8, <1>9 DEF Next, Advance

\* The asserts of the commit path (coordinator.py:336) never raise if the policy
\* chose within the mask, nor if the mask is the node-based one, even when the
\* policy followed a plan unmasked: what was placed shows that a node permits it.
\* What is left is the legacy mask with a plan followed to the letter.
THEOREM FrameAssertsCannotFire ==
  NodeBasedMask \/ Mode = "masked" => (Spec => []FrameAssertHolds)
<1>1. ASSUME NodeBasedMask, IInv, PlanInv
      PROVE  FrameAssertHolds
  <2>. SUFFICES ASSUME pc = "decide", Violations = {}, NEW k \in Chain(cur)
                PROVE  partition[k] \in TierMask(cur, k)
    BY DEF FrameAssertHolds, FrameOk
  <2>1. Contiguous(partition) /\ refused = {} /\ crossOk
    BY DEF Violations
  <2>2. todo = {} /\ partition \in [Chain(cur) -> Domains]
    BY <1>1, <2>1 DEF IInv, UndoInv, Searching
  <2>3. k \in DOMAIN placed
    BY <1>1, <2>1, <2>2 DEF PlanInv, PlacedInv, Live, Settles
  <2>4. placed[k] \in NodesIn(partition[k]) \cap Vnf(cur, k).permitted
    BY <1>1, <2>1, <2>3 DEF PlanInv, PlacedInv, Live, HostsIn
  <2>. QED  BY <1>1, <2>2, <2>4 DEF TierMask
<1>2. NodeBasedMask => (Spec => []FrameAssertHolds)
  <2>. SUFFICES ASSUME NodeBasedMask PROVE Spec => []FrameAssertHolds
    OBVIOUS
  <2>1. IInv /\ PlanInv => FrameAssertHolds
    BY <1>1
  <2>. QED  BY <2>1, IInvHolds, PlanInvHolds, PTL
<1>3. Init => MaskInv
  BY DEF Init, MaskInv
<1>4. Mode = "masked" /\ MaskInv => FrameAssertHolds
  BY DEF MaskInv, FrameAssertHolds
<1>5. Mode = "masked" => (Spec => []FrameAssertHolds)
  <2>. SUFFICES ASSUME Mode = "masked" PROVE Spec => []FrameAssertHolds
    OBVIOUS
  <2>1. MaskInv => FrameAssertHolds
    BY <1>4
  <2>. QED  BY <1>3, MaskStep, <2>1, PTL DEF Spec
<1>. QED  BY <1>2, <1>5

=============================================================================
