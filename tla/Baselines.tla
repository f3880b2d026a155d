------------------------------ MODULE Baselines ------------------------------
(***************************************************************************)
(* The loops that run a static builder on a substrate of their own:         *)
(*                                                                         *)
(*   "plain"  eval_plain of scripts/grid_runner.py: co-location with a      *)
(*            first-fit fallback, chain order, the QoS gate, allocation;    *)
(*   "clone"  behaviour cloning (training/bc_dataset.py, bc_pretrain.py):   *)
(*            first-fit on a stream of arrivals and departures gives a      *)
(*            dataset, kept in a file; the pretrainer replays the stream    *)
(*            and shows the actors each placement on the substrate it was   *)
(*            made on.  The process may be killed and launched again.       *)
(*                                                                         *)
(* The stream is drawn once: the same seed gives the same events.           *)
(***************************************************************************)
EXTENDS FirstFit, ChainOrder

CONSTANTS
  Requests,
  Slice,        \* Slice[r]: vnfs, bw of flow k -> k + 1, maxDelay
  Jobs,         \* of "plain" and "clone"
  Streams,      \* event streams, of records [request, arrives]
  HopLimit,     \* max_inter_domain_hops
  DelayUnit,    \* delays are in units of 1 / DelayUnit
  NamedDomain,  \* NamedDomain[n]: the domain in the name of a node
  OldFiles,     \* dataset files earlier launches may have left
  MaxKills

ASSUME StreamsAssumption ==
  \A s \in Streams :
    /\ s \in Seq([request : Requests, arrives : BOOLEAN])
    /\ \A r \in Requests :
         \E i, j \in DOMAIN s : /\ i < j /\ s[i] = [request |-> r, arrives |-> TRUE]
                                /\ s[j] = [request |-> r, arrives |-> FALSE]
                                /\ \A k \in DOMAIN s : s[k].request = r => k \in {i, j}

\* A flow joins each VNF to the next.
ASSUME SliceAssumption ==
  /\ Nodes # {}
  /\ \A r \in Requests :
       /\ Slice[r].vnfs \in Seq([cpu : Nat, ram : Nat, intensity : Nat, permitted : SUBSET Nodes])
       /\ Slice[r].bw \in Seq(Nat)
       /\ Len(Slice[r].bw) = Len(Slice[r].vnfs) - 1

VARIABLES
  job,
  stream,    \* ArrivalProcess.events
  step,      \* what the job is doing
  pos,       \* the next event
  residual,
  active,    \* active[r]: the plan r is on with
  plan,      \* the builder's answer for the arrival in hand
  outcome,   \* outcome[r]: the bin r fell into
  samples,   \* the demonstrations: request -> its VNFs and their nodes
  file,      \* the dataset file
  toShow,    \* VNFs of a sample still to be projected
  snapshot,  \* residuals before the projection
  kills,
  found      \* history: the residuals a demonstration was made on

vars == <<job, stream, step, pos, residual, active, plan, outcome, samples, file, toShow,
          snapshot, kills, found>>

NoFile == [state |-> "absent"]
Torn == [state |-> "torn"]

\* A whole file: its config_hash, the code that made it, which neither the file
\* nor the hash tells, and the samples.
Dataset(hash, code, content) ==
  [state |-> "whole", hash |-> hash, code |-> code, samples |-> content]

Here == "this"  \* what config_hash gives for this launch
Now == "now"    \* the slice generator, topology generator and first-fit of this launch

ByThisCode == file.state = "whole" /\ file.code = Now

\* Any file whatever, but that this code makes a file of this configuration only
\* by the steps below, in an earlier launch.  A sample has a node for each VNF,
\* by name: a node of older code may be gone from the topology.
ASSUME FilesAssumption ==
  /\ \A n \in Nodes : NamedDomain[n] = DomainOf[n]
  /\ \A f \in OldFiles :
       f.state = "whole" =>
         /\ f.hash = Here => f.code # Now
         /\ \A r \in DOMAIN f.samples : DOMAIN f.samples[r].at = DOMAIN f.samples[r].vnfs

Off == [r \in Requests |-> NoPlan]
Fresh == [r \in Requests |-> "new"]

Init ==
  /\ job \in Jobs /\ stream \in Streams
  /\ step = IF job = "plain" THEN "plain" ELSE "load"
  /\ pos = 1 /\ residual = Capacity /\ active = Off /\ plan = NoPlan /\ outcome = Fresh
  /\ samples = <<>> /\ file \in OldFiles /\ toShow = {} /\ snapshot = <<>> /\ kills = 0
  /\ found = <<>>

Event == stream[pos]
Arriving ==
  pos <= Len(stream) /\ Event.arrives /\ plan = NoPlan /\ toShow = {} /\ snapshot = <<>>
Req == Event.request

\* Only a slice that is on gives anything back.
Departure(r) ==
  IF active[r].ok
  THEN /\ residual' = Credited(residual, Use(Slice[r], active[r]))
       /\ active' = [active EXCEPT ![r] = NoPlan]
  ELSE UNCHANGED <<residual, active>>

Depart ==
  /\ step \in {"plain", "generate", "replay"}
  /\ pos <= Len(stream) /\ ~Event.arrives
  /\ Departure(Req)
  /\ pos' = pos + 1
  /\ UNCHANGED <<job, stream, step, plan, outcome, samples, file, toShow, snapshot, kills,
                 found>>

\* allocate, for the arrival in hand.
Allocate(chosen) ==
  /\ residual' = Debited(residual, Use(Slice[Req], chosen))
  /\ active' = [active EXCEPT ![Req] = chosen]

(***************************************************************************)
(* qos_gate.py, on the residuals before the plan is allocated, and          *)
(* verifier.py, on the residuals after.                                     *)
(***************************************************************************)
FlowLinks(p) == {f \in (DOMAIN p.route) \X Links : f[2] \in p.route[f[1]]}

InterLinks(p) == Cardinality({f \in FlowLinks(p) : InterDomain(f[2])})

\* The delay of a plan where left[c] is what a cell has left, with the slice on.
DelayAt(left, r, p) ==
  MapThenSumSet(LAMBDA k : Sojourn(ProcDelay[p.at[k]] * Slice[r].vnfs[k].intensity,
                                   DelayUnit, left[<<p.at[k], "cpu">>]),
                DOMAIN p.at)
    + MapThenSumSet(LAMBDA f : Sojourn(PropDelay[f[2]], DelayUnit, left[f[2]]), FlowLinks(p))

SaturatedAt(left, p) ==
  \/ \E k \in DOMAIN p.at : left[<<p.at[k], "cpu">>] <= 0
  \/ \E f \in FlowLinks(p) : left[f[2]] <= 0

\* What the gate takes to be left: the residual less the plan's own load.
OwnLoad_None(r, p) == Nothing
OwnLoad(r, p) ==
  [c \in Cells |->
     IF c \in Links THEN SumFunctionOnSet(Slice[r].bw, {k \in DOMAIN p.route : c \in p.route[k]})
     ELSE SumFunctionOnSet([k \in DOMAIN p.at |-> Slice[r].vnfs[k][c[2]]],
                           {k \in DOMAIN p.at : p.at[k] = c[1]})]

\* plan_qos_reason
Reason(r, p) ==
  LET left == Debited(residual, OwnLoad(r, p))
  IN  IF InterLinks(p) > HopLimit THEN "C9"
      ELSE IF SaturatedAt(left, p) \/ DelayAt(left, r, p) > Slice[r].maxDelay THEN "C7"
      ELSE "none"

\* verify_committed_plan; the flows get what they ask for, so C5b never fails.
Violated(left, r, p) ==
  {v \in {"C2", "C3", "C5", "C7", "C9"} :
     \/ v = "C2" /\ OverAllocated(left, Nodes \X {"cpu"})
     \/ v = "C3" /\ OverAllocated(left, Nodes \X {"ram"})
     \/ v = "C5" /\ OverAllocated(left, Links)
     \/ v = "C7" /\ (SaturatedAt(left, p) \/ DelayAt(left, r, p) > Slice[r].maxDelay)
     \/ v = "C9" /\ InterLinks(p) > HopLimit}

(***************************************************************************)
(* eval_plain.                                                             *)
(***************************************************************************)
Partition(p) == [k \in DOMAIN p.at |-> DomainOf[p.at[k]]]

Answered(answer) ==
  IF answer.ok THEN plan' = answer /\ UNCHANGED <<outcome, pos>>
  ELSE /\ outcome' = [outcome EXCEPT ![Req] = "structural"]
       /\ pos' = pos + 1 /\ UNCHANGED plan

Plan ==
  /\ step = "plain" /\ Arriving /\ outcome[Req] = "new"
  /\ Answered(Colocation(residual, Slice[Req]))
  /\ UNCHANGED <<job, stream, step, residual, active, samples, file, toShow, snapshot,
                 kills, found>>

Turned(bin) ==
  /\ outcome' = [outcome EXCEPT ![Req] = bin]
  /\ plan' = NoPlan /\ pos' = pos + 1
  /\ UNCHANGED <<job, stream, step, samples, file, toShow, snapshot, kills, found>>

RejectChainOrder ==
  /\ step = "plain" /\ plan.ok /\ ~Contiguous(Partition(plan))
  /\ Turned("chain_order")
  /\ UNCHANGED <<residual, active>>

RejectGate ==
  /\ step = "plain" /\ plan.ok /\ Contiguous(Partition(plan)) /\ Reason(Req, plan) # "none"
  /\ Turned("qos_gate")
  /\ UNCHANGED <<residual, active>>

Admit ==
  /\ step = "plain" /\ plan.ok /\ Contiguous(Partition(plan)) /\ Reason(Req, plan) = "none"
  /\ Allocate(plan)
  /\ Turned("admitted")

(***************************************************************************)
(* get_or_generate_dataset and generate_dataset.                            *)
(***************************************************************************)
StartOver ==
  /\ pos' = 1 /\ residual' = Capacity /\ active' = Off /\ outcome' = Fresh
  /\ toShow' = {} /\ snapshot' = <<>>

Current_AnyHash == file.state = "whole"
\* A file that cannot be read, or of another configuration, is made again.
Current == file.state = "whole" /\ file.hash = Here

\* There is nothing to replay without a sample.
ReplayOf(content) == IF DOMAIN content = {} THEN "over" ELSE "replay"

Load ==
  /\ step = "load"
  /\ IF Current THEN samples' = file.samples /\ step' = ReplayOf(file.samples)
     ELSE samples' = <<>> /\ step' = "generate"
  /\ StartOver
  /\ UNCHANGED <<job, stream, plan, file, kills, found>>

\* greedy_place_on_substrate: allocated as it is, without gate or chain order.
PlacedOn(left, answer) ==
  IF answer.ok
  THEN /\ residual' = Debited(left, Use(Slice[Req], answer))
       /\ active' = [active EXCEPT ![Req] = answer]
       /\ outcome' = [outcome EXCEPT ![Req] = "admitted"]
  ELSE /\ residual' = left /\ UNCHANGED active
       /\ outcome' = [outcome EXCEPT ![Req] = "structural"]
Greedy(left) == PlacedOn(left, FFD(left, Slice[Req]))

Demonstrate ==
  /\ step = "generate" /\ Arriving
  /\ Greedy(residual)
  /\ IF active'[Req].ok
     THEN /\ samples' = With(samples, Req, [vnfs |-> Slice[Req].vnfs, at |-> active'[Req].at])
          /\ found' = With(found, Req, residual)
     ELSE UNCHANGED <<samples, found>>
  /\ pos' = pos + 1
  /\ UNCHANGED <<job, stream, step, plan, file, toShow, snapshot, kills>>

\* torch.save opens the file before it writes it; it is read back at once.
OpenFile ==
  /\ step = "generate" /\ pos > Len(stream)
  /\ file' = Torn /\ step' = "save"
  /\ UNCHANGED <<job, stream, pos, residual, active, plan, outcome, samples, toShow,
                 snapshot, kills, found>>

WriteFile ==
  /\ step = "save"
  /\ file' = Dataset(Here, Now, samples) /\ step' = ReplayOf(samples)
  /\ StartOver
  /\ UNCHANGED <<job, stream, plan, samples, kills, found>>

(***************************************************************************)
(* bc_pretrain: the replay, and project_sample.                             *)
(***************************************************************************)
Sampled == Req \in DOMAIN samples

\* An arrival first-fit rejected: first-fit is asked again.
ReplayRejection ==
  /\ step = "replay" /\ Arriving /\ ~Sampled /\ outcome[Req] = "new"
  /\ Greedy(residual)
  /\ pos' = pos + 1
  /\ UNCHANGED <<job, stream, step, plan, samples, file, toShow, snapshot, kills, found>>

\* A sample's VNFs, by domain in order of appearance, in chain order within: of
\* those left, the next to be projected.
MetFirst(at, k) == Min({j \in DOMAIN at : NamedDomain[at[j]] = NamedDomain[at[k]]})
NextShown(at, left) == FirstBy([k \in left |-> <<MetFirst(at, k), k>>])

\* A target that the topology does not have is passed over.
Targets(sample) == {k \in DOMAIN sample.at : sample.at[k] \in Nodes}

StartProjection ==
  /\ step = "replay" /\ Arriving /\ Sampled /\ outcome[Req] = "new"
  /\ snapshot' = residual
  /\ toShow' = Targets(samples[Req])
  /\ UNCHANGED <<job, stream, step, pos, residual, active, plan, outcome, samples, file,
                 kills, found>>

\* One BCStep, of the VNF as the sample keeps it; the debit stays on the substrate
\* for the next observation.
Show ==
  /\ toShow # {}
  /\ LET sample == samples[Req]
         k == NextShown(sample.at, toShow)
     IN  /\ residual' = Debited(residual, NodeUse(sample.at[k], sample.vnfs[k]))
         /\ toShow' = toShow \ {k}
  /\ UNCHANGED <<job, stream, step, pos, active, plan, outcome, samples, file, snapshot,
                 kills, found>>

Restored_Not(left) == left
\* The nodes' residuals come back from the snapshot.
Restored(left) == [c \in Cells |-> IF c \in NodeCells THEN snapshot[c] ELSE left[c]]

\* Then first-fit places the sample again, to move the substrate on.
FinishProjection ==
  /\ step = "replay" /\ snapshot # <<>> /\ toShow = {}
  /\ Greedy(Restored(residual))
  /\ snapshot' = <<>> /\ pos' = pos + 1
  /\ UNCHANGED <<job, stream, step, plan, samples, file, toShow, kills, found>>

\* A kill, and the next launch: only the file is left.
Kill ==
  /\ job = "clone" /\ step # "load" /\ kills < MaxKills
  /\ kills' = kills + 1 /\ step' = "load" /\ samples' = <<>>
  /\ StartOver
  /\ UNCHANGED <<job, stream, plan, file, found>>

Next ==
  \/ Depart
  \/ Plan \/ RejectChainOrder \/ RejectGate \/ Admit
  \/ Load \/ Demonstrate \/ OpenFile \/ WriteFile
  \/ ReplayRejection \/ StartProjection \/ Show \/ FinishProjection
  \/ Kill

Spec == Init /\ [][Next]_vars

(***************************************************************************)
(* Properties.                                                             *)
(***************************************************************************)
\* What a projection borrows is free all the same.
Free == IF snapshot = <<>> THEN residual ELSE snapshot
Held == [r \in Requests |-> IF active[r].ok THEN Use(Slice[r], active[r]) ELSE Nothing]
Phase == [r \in Requests |-> IF active[r].ok THEN "on"
                             ELSE IF outcome[r] = "new" THEN "new" ELSE "off"]

Ledger == INSTANCE SliceLedger WITH free <- Free, held <- Held, phase <- Phase

\* Whatever the loop and however often it is killed, the substrate is a
\* ledger: a slice takes its whole use at once and never more than is free,
\* its departure gives back exactly that, and showing a sample to the actors
\* leaves nothing behind (greedy_ffd.py:119, bc_pretrain.py restores the nodes
\* only, because a projection takes from nodes only).
LedgerKept == Ledger!Spec

\* The gate foresees the verifier: before allocation, adding the plan's own
\* load, it accepts what the verifier accepts after allocation, and the
\* constraint it names is one the verifier finds (qos_gate.py:1-20 "the same
\* measurement verify_committed_plan makes").
GateIsVerifier ==
  (step = "plain" /\ plan.ok) =>
    LET found_after == Violated(Debited(residual, Use(Slice[Req], plan)), Req, plan)
        reason == Reason(Req, plan)
    IN  /\ (reason = "none") <=> (found_after = {})
        /\ reason # "none" => reason \in found_after

\* A demonstration is replayed on the substrate it was made on, across kills
\* and dataset files: when its projection begins the residuals are those
\* first-fit saw and the sample holds the slice that arrives, each target the
\* actor is shown is one its action mask allows (but where nothing is permitted:
\* first-fit takes that for anywhere, the mask for nowhere), and first-fit then
\* answers the sample again.  It is said of a file that this code made, in this
\* launch or an earlier one.  bc_dataset.py:15-18 would have it of any file, "if
\* anything in the generation pipeline changes - topology config, slice
\* generator, greedy algorithm - the hash changes too"; but config_hash (47-60)
\* is of the seed, the number of scenarios and the topology's configuration, so
\* a file of older code is taken for this one's, and then none of this need hold.
ReplayMatches ==
  (step = "replay" /\ ByThisCode) =>
    /\ (snapshot # <<>>) => /\ Req \in DOMAIN found /\ snapshot = found[Req]
                            /\ samples[Req].vnfs = Slice[Req].vnfs
    /\ toShow # {} =>
         LET sample == samples[Req]
             k == NextShown(sample.at, toShow)
             vnf == sample.vnfs[k]
             n == sample.at[k]
         IN  /\ vnf.permitted # {} => n \in vnf.permitted
             /\ residual[<<n, "cpu">>] >= vnf.cpu /\ residual[<<n, "ram">>] >= vnf.ram
    /\ \A r \in Requests : active[r].ok => r \in DOMAIN samples /\ active[r].at = samples[r].at

\* A plan a builder calls feasible fits, all its VNFs and flows together, what
\* the substrate has left when it is asked (the running deltas of
\* _PlacementState).  Routability-aware co-location is asked for its domains
\* only, so only its hosts count.
Fits(cells, p) ==
  p.ok => ~OverAllocated(Debited(residual, Use(Slice[Req], p)), cells)
SuggestionsFit ==
  (Arriving /\ step \in {"plain", "generate"}) =>
    /\ \A p \in {FFD(residual, Slice[Req]), PureColocation(residual, Slice[Req])} :
         Fits(Cells, p)
    /\ Fits(NodeCells, RoutabilityAware(residual, Slice[Req]))
=============================================================================
