# Verification of ORION

ORION admits network slices (chains of virtual network functions, VNFs) on a
substrate of several administrative domains. The repository is a simulator and
the agents that drive it: a discrete event loop offers slice requests to a plan
builder (a heuristic or an LLM), a coordinator partitions each chain over the
domains, one actor per domain places its fragment, and a verifier checks what was
committed against the load it really meets.

This directory holds TLA+ models of that code, TLC configurations that check them
on small instances, and TLAPS proofs for every value of the constants.
`PROJECT.json` names the source lines behind every definition, the runs, the
mutations each property was tested against, the hazards the properties are aimed
at, and the theorems.

The program is one thread. What makes it hard to test is not concurrency but
long sequences of steps over shared mutable state: every search debits the live
residuals while it runs, gives them back by several different paths, and the next
arrival finds whatever was left behind. Around it stand scripts that run for days,
are killed and launched again, and know what they did only from the files they left;
there the hard part is a crash between two writes, and module globals that one cell
sets and the next one reads.

## Parts of the system

| Part | State | Operations | What must hold |
|---|---|---|---|
| Substrate twin (`substrate/graph_model.py`) | residual CPU, RAM, bandwidth; active slices | allocate, deallocate, reset, domain views | no residual below zero; capacity conserved |
| Routing (`actors/routing.py`) | none; writes link residuals | k-shortest search in a domain or on the whole graph, debit, credit | a route joins its hosts, has room, stays in its domain |
| Domain actors (`actors/*_domain_actor.py`) | node snapshots, placements, routes of one call | place, route, answer, roll back | permitted nodes only; a refusal leaves no trace |
| Coordinator (`mdo/coordinator.py`) | locals of one arrival, node snapshot | partition, dispatch, route across domains, decide, restore | C7, C8, C9, C10; both outcomes undo every debit |
| Plan builders and repair (`scripts/partial_obs_prior.py`, `mdo/admissibility.py`, `sim/partition_oracle.py`) | running estimates | walk the chain, enumerate partitions, repair | what is proposed can be committed |
| Episode runner (`sim/episode_runner.py`) | active plans, KPI counters | arrivals, departures, allocate, verify, revoke | books agree with the twin; counters conserve arrivals |
| Verifier (`sim/verifier.py`, `sim/delay_model.py`) | none | capacities and M/M/1 delay after allocation | fires exactly on what the load shows |
| Acceptance report (`sim/acceptance.py`) | none | classify outcomes | every arrival in one bin |
| Arrival process, environment, load levels (`sim/*.py`) | event list, cursor | generate, step, calibrate | each request arrives once, departs later; the same seed gives the same events |
| Planner Agent B (`llm/agent_b*.py`, `plan_cache.py`, `structural_checker.py`) | plan cache, quality tracker | look up, revalidate, call, check, repair, store | a cached plan is used only where it is valid; the check refuses nothing the schema let through |
| Memories and retrieval (`llm/*memory.py`, `retrieval/`) | two lists of entries, access clock, plans awaiting their outcome | record, evict, retrieve, fuse, filter, save, load | the two lists agree; an entry tells what its arrival found and how it ended |
| Strategy monitor (`monitor/`) | Page-Hinkley sums | observe, alarm, reset | an alarm marks plans stale |
| Baselines (`baselines/`, `sim/qos_gate.py`) | running deltas | first-fit, co-location, QoS gate | a plan fits as a whole; the gate foresees the verifier |
| Behaviour cloning (`training/bc_*.py`) | samples, dataset file, cursor | demonstrate, save, load, replay, project | a sample is replayed on the network it was made on |
| Experiment grid (`scripts/grid_runner.py`) | cell, checkpoint and memory files; wiring globals; guard globals | train, select, warm up, evaluate, bank, time out, read out | a file says what ran; a relaunch completes what a kill interrupted |
| Local model lock (`llm/llm_backend.py`) | a file with a pid | acquire, steal, release | one process at a time |
| Training (`scripts/wp7_runner.py`, `training/`) | weights, value normaliser, plan memos, rollout of a round, score curve, checkpoint | warm start, collect, credit, update critic, policy and actors, score, save | credit goes to the arrival that earned it; the ratios of an update tell what that update changed; a checkpoint holds what was scored |
| Networks (`mdo/policy.py`, `actors/policy.py`) | weights | sample within masks | masks respected |

## Core modules

`Substrate.tla` is the twin as one function from *cells* to residuals (a node's
CPU, a node's RAM, a directed link's bandwidth), with the domain views and the
path search. A debit or a credit is a function on cells, so `allocate`,
`deallocate` and every rollback are pointwise arithmetic.

`Admission.tla` is one episode. `pc` is the point the single thread has reached,
and a step is a piece of code that reads or writes the residuals:

| Action | Code |
|---|---|
| `Arrive`, `DepartAdmitted`, `DepartRejected`, `Reset` | `EpisodeRunner.run_episode`, `_handle_departure`, `reset` |
| `RejectStructural` | the plan builder returned None |
| `ChoosePartition` | `MDOCoordinator._sample_partition`, C10, the node snapshot |
| `StartActor`, `NoActor`, `FinishDispatch` | `_dispatch_to_actors` |
| `PlaceVnf`, `RefuseVnf`, `RouteOnNode`, `RouteIntra`, `RefuseFlow`, `ActorAnswers` | `GreedyDomainActor.act` and `DomainActor.act`, with their `_rollback` |
| `RouteCross`, `CrossFails`, `FinishCross` | `_route_cross_domain_flows` |
| `Reject`, `Commit` | the decision in `resolve_arrival`, its rollbacks and frame asserts |
| `Allocate`, `Revoke`, `Keep` | `_handle_arrival` after the coordinator: plan construction, `allocate`, `verify_committed_plan`, `deallocate` |

Choices the code takes by a mode, a network or a score are left open where the
properties do not depend on them: the partition (any the mode allows), the usable
path among the k shortest, the node among equally ranked ones, the order in which
a Python set of domains is walked. `ActorKind`, `Planner`, `Mode` and
`NodeBasedMask` select the variants the scripts run.

A partition the commit-path asserts would refuse is not an action: `decide` with
no violation and `~FrameOk` is a state the program does not leave, as an
AssertionError does not. Deadlock checking is on, so the passing runs also show
that this, `KeyError` on departure and `ValueError` in `allocate` never happen.

`SliceLedger.tla` is what an episode promises: a ledger from which a slice takes
its whole use at once or nothing, and to which it gives exactly that back.
`Admission` implements it with the residuals between arrivals as free capacity.

## Plan builders and repairs

`ChainOrder.tla` is constraint C10. `Summaries.tla` is what a builder is told of a
domain: the reference fit of an h^m bound and how it is reported; `Partitioning` and
`StructuralCheck` both extend it. `Partitioning.tla` holds the enumerations: the
admissibility of a VNF in a domain (tier mask and the h^m guard, in the four settings
of `ORION_PARTIAL_GUARD`), the committable partitions, the predicted delay, `FullObs`
(`fullobs_builder`), `Oracle` (`best_feasible_partition`) and `ExactRepair`
(`minimal_committable_partition`). `PlanBuilders.tla` runs one of them for one
arrival, a step for each VNF of a walk:

| Action | Code |
|---|---|
| `Decline` | a builder's structural reject; a repair that leaves a plan it cannot read |
| `Enumerate` | `fullobs_builder`, `oracle_builder`, `minimal_committable_partition` |
| `Collapse` | `repair_plan` in modes full and colo, when one domain can host the whole chain |
| `BeginWalk`, `SeatBest`, `GiveUp` | `partial_obs_builder` and `_fullobs_greedy` |
| `KeepAuthored`, `MoveVnf` | `repair_plan` (guard) and `repair_partition` |
| `SkipUnknown` | a domain no summary carries, in `repair_partition` |
| `FinishWalk` | the plan that is returned |

The builder reads residuals that do not change while it runs, so they are any of a
set of networks an episode may have left. The repair the coordinator calls under
`POSTDECODE_GUARD` is one of these programs; its call inside `resolve_arrival` is
not composed with `Admission`. `JOINT_HOST_DECODE` is: it picks one of the masked
partitions `Admission` leaves open.

## The planner behind a language model

`PlanCache.tla` is the dict whose insertion order is the order of eviction.
`StructuralCheck.tla` is `check_plan` and the fields derived around it.
`Planner.tla` composes them into three builders over a stream of arrivals:
`profile` (what the experiments run), `signature` and `constrained`, both of which
only tests build.

| Action | Code |
|---|---|
| `Arrive` | `EpisodeRunner._handle_arrival` calls the plan builder |
| `ServeHit`, `RejectHit`, `Miss` | `PlanCache.get`, `revalidate_plan`, and what each builder counts |
| `Unplaceable` | the pinned schema cannot be built: no call |
| `FailedAttempt` | a completion cut off, unparseable or refused by the check; the last one refuses the arrival |
| `CallRaises` | the back end raises; the profile builder lets it end the run, which is not an action |
| `AcceptPinned`, `AcceptChecked`, `AcceptStated` | the plan is built, stored (`put` or `refresh`) and returned |

What the model says is open: with a pinned schema any assignment the schema can
express, otherwise any statement of a domain and a tier for every VNF. The schema has
three contracts, chosen for a run by `contract`: the tiers of each VNF, the tiers
masked by what each domain can still host, and co-location, which offers the domains
that can take the whole chain (widened by a slack band under the best of them) and
falls back to the mask when there are none. The check compares demands only where the
numbers are echoed by the schema; elsewhere the plan's own numbers are compared with
themselves and constrain nothing.

## The baselines and behaviour cloning

`FirstFit.tla` holds the builders of `baselines/` as functions of the residuals:
`FFD`, `SingleDomain` and `PureColocation`, `Colocation`, `RoutabilityAware`. A run is
a record with the residuals its VNFs and flows so far have been taken from, so
`_PlacementState`'s running deltas are state the next choice reads. Each choice is the
least candidate under the tuple the code sorts by.

`Baselines.tla` is two loops over a stream of events drawn once:

| Action | Code |
|---|---|
| `Depart` | the departures of `eval_plain`, `generate_dataset` and `bc_pretrain` |
| `Plan`, `RejectChainOrder`, `RejectGate`, `Admit` | an arrival of `eval_plain` (`grid_runner.py`) |
| `Load`, `Demonstrate`, `OpenFile`, `WriteFile` | `get_or_generate_dataset`, `generate_dataset`, `save_dataset` |
| `ReplayRejection`, `StartProjection`, `Show`, `FinishProjection` | `bc_pretrain` and `project_sample` |
| `Kill` | the process ends; the file is what is left |

A dataset file carries, beside the hash the code compares, the version of the code that made
it, which the code never sees: the hash is of seed, size and topology settings only. A file
of older code with the same hash is loaded and replayed as the code does it, its stored
slices and placements and all: targets that are gone from the topology are passed over
(`Targets`), and what is shown may take a node below zero until the snapshot comes back.

A projection shows the VNFs of a sample domain by domain, in the order the domains are met
along the chain (`NextShown`), not in the order first-fit placed them.

The gate (`Reason`, before allocation, with the plan's own load added) and the
verifier (`Violated`, after it) are written from `qos_gate.py` and `verifier.py` each.
The loop implements `SliceLedger`, as the episode does, and does so through a
projection that debits the live substrate VNF by VNF and puts only nodes back.

## The memory

`Retrieval.tla` is the retrieval pipeline in the mode the memories run it in: filter,
rank by recency (there are no embeddings), rank by text, fuse, cut. `Memory.tla` is
the store and the two loops that write it: the warm-up of the grid and an evaluation
that goes on accumulating, where the plan cache answers some arrivals instead.

| Action | Code |
|---|---|
| `Arrive` | the condition is read, before anything changes |
| `PlanFromCache`, `PlanMade`, `PlanFails` | the builder, with `retrieve` when it asks the model |
| `RecordFailure` | the record of an arrival without a plan |
| `Commit`, `Refuse`, `Verify`, `RecordOutcome` | the runner's decision and `_accumulating`'s second half |
| `StartEvaluation` | `save`, then `load` into another process |

## The grid

`Approaches.tla` holds `grid_runner.py`'s tables (which stack, repair, mode and guard a
name stands for), `Training.tla` the schedules of a segment (prior strength, entropy
floor, dual). `Grid.tla` is the process that walks seeds and cells:

| Action | Code |
|---|---|
| `Launch`, `Block`, `Readout`, `ReadoutError` | `main` |
| `StartSegment`, `TrainRound`, `OpenCheckpoint`, `WriteCheckpoint` | `train_stack` and the rounds it runs |
| `RefuseLoad`, `ScoreSegment`, `UseSegment` | `get_stacks`, `load_stack`, the selection rule |
| `SkipCell`, `CellError`, `StartCell`, `WarmStore`, `SaveStore`, `Evaluate`, `Bank` | one cell |
| `Timeout`, `TimeoutSwallowed` | the alarm of `--cell-timeout` |
| `Kill` | the process is gone; files and the command line stay |

A write is two steps, the opening that truncates the file and the writing. What an
evaluation ran under is read from the globals at the moment it runs (`Ran`), so that a
global some earlier cell left behind would show in the file.

## A training

`TrainApproach.tla` is `train_approach`, called once a segment as `curriculum_train`
does. What a gradient step does to a network is left out: weights are a count of the
updates they have had, and everything made with them carries that count, so that a
number used with other weights than it was made with shows.

| Action | Code |
|---|---|
| `StartSegment`, `RefuseWarmStart` | `build_stack`, the warm start and its refusals, a new normaliser, empty memos |
| `StartRound`, `Arrive`, `EndEpisode` | the stream of the round, `_with_state_capture`, `_handle_arrival`, `_sample_partition` in the three modes a training runs, `_append_rollout` |
| `Credit` | `gae_over_arrivals` with `compute_gae`, or `per_arrival_advantages` |
| `UpdateCritic` | `value_norm.update` and the critic's epochs, as one step |
| `UpdatePolicy`, `EndPolicy` | the MDO's PPO update: one optimizer step for each minibatch of each epoch's random order, and its end |
| `UpdateActor`, `EndUpdate` | `update_domain_actors`, one agent of its random order at a time, its own epochs, minibatches and early stop as one step |
| `EnterScore`, `Score` | `_eval_episode` on the held-out stream, through `eval_pb` and its memo, the actors switched to their best choice and back |
| `EnterComparison`, `Compare` | the same weights with the plan followed to the letter |
| `SaveCheckpoint` | `torch.save`, from which the next segment warm-starts |

The critic learns returns shifted and scaled by the normaliser; `Frame` names the scale
it was last trained in, and an estimate read in another scale is another number.
`CriticReadable` excludes from `CreditIsReturn` the first round after a warm start, where
the code does read it so (see below). Credits are integers and not whitened, and `Gamma`
and `Lambda` may be any integers: that `Gae`, backwards with deltas, is `LambdaReturn`,
forwards, is an identity of polynomials in them, which particular numbers in (0, 1)
would not test better.

`RatiosOfThisUpdate` does not say that a ratio begins at one: with `PPO_MINIBATCH` at its
default the optimizer steps after every minibatch, so from the second on the policy is no
longer the one that sampled. It says that nothing else has changed since: the policy a
transition is compared with is the optimizer steps of this update away from the one that
sampled it, no more, and under the same advice in the same numbering. `TypeOK` is proved and therefore not run.

## The lock of the local model server

`LocalLock.tla` has one action for each system call of `acquire_local_llm_lock` and its
release: create, write the pid, read it, unlink, and a job that may be killed anywhere.

## What is proved

Every safety property that a passing run checks, and both refinements, are also theorems
for every value of the constants. Eleven more theorems have no passing run: type invariants,
inductive invariants, two that no state predicate of a run says, and the frame asserts of
the episode, which hold in the settings `admission_frame_assert` is not about.

**The episode.** `SubstrateProofs.tla` holds the facts about cells, uses and paths, and
about sums over finite sets; `AdmissionProofs.tla` the theorems about the residuals, from
the assumptions named in `Substrate` and `Admission` (`TopologyAssumption`,
`DelayAssumption`, `RequestAssumption`, `PathDelayIsSum`): any finite topology, any set of
requests, any mode.

The properties are not inductive by themselves. That a refusal leaves no trace
needs to know, in the middle of a search, what each undo path would restore:

* `BalanceInv`: while an arrival is searched, `residual = settled - actorUse - crossUse`;
* `UndoInv`: the coordinator's snapshot covers the node cells of every domain of
  the partition and still holds the settled values; what actors have debited lies in
  domains that answered (or in the one running); cross-domain debits are on links only;
* `ActorInv`: the running actor's own snapshots hold the settled values and cover
  every node cell it has touched;
* `RequestInv`: the two registries differ only between `allocate` and the verdict.

`IInv` is their conjunction with the types. Each action has a lemma with one step
per conjunct; `NextInv` collects them. From `IInv` follow `TypeCorrect`,
`NeverOverAllocated`, `RefusalIsTraceless`, `RegistriesAlwaysAgree`,
`ActorsAreIsolated` (an action property) and `EpisodeImplementsLedger` (the
refinement).

Its second half is about the plans: what is placed where, routed how, and
charged. A plan is put together one VNF and one flow at a time by two kinds of actors and
the coordinator, and parts of it are thrown away on the way. `PlanInv` says, of a search
that can still end in a commit: which VNFs are placed and which flows are routed is
decided by what is still to do (`PlacedInv`, `RoutedInv`); every placement is permitted
and in the domain the partition names, and every route joins its hosts; and what actors
and coordinator have debited is, cell by cell, the sum of the charges of what is placed
and routed (`AccountInv`). `PlansInv` says the same of every plan in the registry, and
`HeadroomInv` that what the slices that are on use is above zero whenever the books are
settled. From it follow `PlanAccountsForUse`, `PlacementSound`, `RoutesSound` and
`NoSaturatedElementInUse`.

`FrameAssertsCannotFire` bounds what `admission_frame_assert` shows. Under the node-based
mask the asserts of the commit path never raise, whatever plan is followed, because each
VNF that is placed is on a node that permits it (`PlacedInv`); under either mask they never
raise if the policy chose within it (`MaskInv`). The legacy mask with a plan followed
unmasked is the one setting left, and there they do.

**The builders.** `PlanBuildersProofs.tla` rests on facts about appending one domain to a
chain. For the builders that walk, `WalkInv` says that the domains chosen so far form one
run each, that `cur` is the last of them and that `closed` is exactly the set of
domains before it; a candidate outside `closed` then cannot scatter the chain:
`BuildersNeverScatter`. For the left-to-right repair, which keeps VNFs wherever they
were authored, `PassInv` says only that `closed` is the set of domains some other
domain follows: what is moved never goes back to one (`PassMovesOnward`), though the
whole may come out scattered, which `repair_chain_order` shows.

`FitInv` is about room: the running estimates are exactly the summaries less what was
seated so far, what is seated is admitted there, `partial_obs_builder` leaves no estimate
below zero and a repair moves only where there is room, and a plan is the walk's, the enumeration's, the authored one or one whole domain (`Origin`).
From it follow `BuilderPlanCommittable`, `MovesFit` and `ColoKeepsShape`. For the
enumerating builders, the order their choice is the least under is shown to be one on
a finite set, so that the least exists, whatever ties the code breaks by position:
`OracleDominates`, `GuardsKeepBuilderPlans`, `ExactBeatsWalk`.

**The planner.** `PlannerProofs.tla` proves `CachedPlansAreHostable`. The argument: a plan
that the check passed, or that the pinned schema let through, shares with each VNF a tier its
domain has; a VNF is permitted on all nodes of its tiers or none
(`RequestAssumption`, from `slice_generator.py`), so the domain has a node permitted
to it; the intent part of the key holds the kind and the chain of VNF types, which
fix the permitted nodes, so whoever shares the key shares the fact. It does not use
revalidation at all. `ContractPlansPass` is about the schema and the check, two
computations of one capacity from the same summaries: while some domain can take the
whole chain, every plan the co-location contract can express passes `check_plan`, for
every network and slack band, so no retry is spent on it. `CountInv` gives
`CallsAccounted`: what is counted, and what is still to be counted for the arrival in
hand. `CacheInv` gives `EvictsLeastRecent`: the order lists each cached key once, and but
for the constrained builder it is sorted by last use, so the first to go is the
least recent; for the signature builder that needs no entry to go stale.

**The training.** `TrainApproachProofs.tla` proves `RatiosTellThisUpdate` and
`CheckpointsCarryOn`, from `StreamAssumption`, `CreditAssumption`, `RatioAssumption`,
`EpochsAssumption` and `StackAssumption`: any streams, answers of a builder, partitions, modes, numbers of rounds
and segments. Both properties look at one point of a round and
hold for what every earlier point did. `RolloutInv` and `FragmentInv` say that whatever
the round has recorded was sampled by weights that are still the current ones, from the
first arrival to the update that changes them; for an agent, until its own turn comes.
`StepsInv` counts that update: the policy is as many steps from the one that sampled as the
update has taken, and what is left of the epoch makes up the rest of
`update_epochs * ceil(n / minibatch)`. `FrameInv` says in which scale the critic learned.
`DecodeInv` says where the actors sample, so that each evaluation has switched them off
and the next rollout finds them on. `ClearInv` says that nothing of a round is left when
the next begins, and `ScoreInv` that the last score is of the weights as they are.
`TypeCorrect` is the type invariant.

`MemoInv` gives `ServedForItsSlice`: a memoised plan is filed under the content it was
made for, in training and in evaluation, though the two number their requests alike.
`TuneInv` gives `AgentsBuildOnEachOther`: the correction of a request is the product, in
any order, of the clipped ratios of the agents tuned before. `StreamInv` gives
`CreditIsReturn`: the states of a round are those of its stream, in order, and the
recursion of the code, backwards with deltas, is the sum forwards.
`CreditAssumption` says that an admission is worth more than nothing and a violation costs
no less than nothing (`lambda_adm` and `lambda_viol` of `sim/reward.py`, set at
`wp7_runner.py:201`): the model tells the admitted from the rest by the reward, as
`StreamInv` must. That estimates and ratios are numbers is all the rest says.

**The grid.** `GridProofs.tla`, from `ArgumentAssumption` and `TrainingAssumption`. What a
cell reads it reads from globals other steps set, so `IInv` says what each global holds at
each point of the process: the guard's knobs are the defaults but inside the cell of a
guarded heuristic (`GuardInv`); level, instance and memory are those the cell or the
segment asked for (`WiringInv`); the files a training has replaced so far are all of this
training (`CkptInv`), and so is what is scored and loaded from them (`CurveInv`,
`LoadedInv`). Hence `CellSaysWhatRan`, `TwinsDifferAsNamed`, `SelectionSound`,
`BankedStaysBanked` and `EntropyFloorHolds` (`TrainerInv`), through any kills and timeouts.

**The memory.** `MemoryProofs.tla`, from `MemoryAssumption` and `RetrievalAssumption`.
Sorting, filtering and cutting a list are choices of positions; that the members of a
finite totally ordered set can be numbered (`NthNumbers`) makes them total, so that
nothing is lost or doubled on the way through two rankings and their fusion, whose
comparison of fractions is shown to be an order. `ArrivalInv` says that what was read for
an arrival is what it found, also where `_accumulating` keeps it; `StoreInv` that no entry
is of the arrival in hand, so nothing it does later can contradict one; `AnswerInv` that
the last answer stays sound. Hence `StoreAgrees`, `EpisodesTrue` and `ExemplarsSound`.

**The baselines.** `BaselinesProofs.tla` holds the facts about the builders and the
theorems about the loops that run them, from `TopologyAssumption`, `IdsAssumption`,
`StreamsAssumption`, `SliceAssumption` and `FilesAssumption`: any finite topology, any
stream that brings each slice once and takes it away once, any file but a whole one of this
configuration by this code, which a launch makes and a kill leaves to the next. The ids tell nodes apart, so the tuple the code sorts by has one least
candidate (`PrecedesOrders`). A step of a run keeps the books (`Kept`): what is left, and
what is placed and routed so far, make up what the builder was given, and nothing is
below zero. So does the whole run, whose plan then fits (`PlanFor`): the whole plan for
first-fit and co-location, the hosts for the routability-aware one (`RoutabilityHostsFit`).

`LoopInv` carries this through the loops: what is on is a plan of its slice, and what is
free, a projection aside, is never below zero (`BooksInv`); a plan in hand is for the
arrival in hand and fits (`PlanInv`); a slice that has not arrived is not on
(`PendingInv`); a projection has taken from nodes only (`ShownInv`). From it follow `SuggestionsAlwaysFit`; `GateAlwaysIsVerifier`,
by `OwnLoadIsUse`, which says that the load the gate adds to each element is the use the
allocation will take from it; and `LoopsImplementLedger`, a temporal theorem,
`Spec => LedgerKept`, with the mapping of `Baselines`.

`ReplayAlwaysMatches` is about two passes over one stream, with kills in between.
`Trace(s)` is what first-fit on the stream `s` has before each of its events: residuals
and active slices. It is a function of the stream. `CloneInv` says that the generator is at
its place in it (`TraceInv`), that the samples in memory and in a whole file by this code are
the answers along it (`DataInv`), and that the pretrainer is at its place too, in the
middle of a projection less exactly the VNFs shown so far (`ProjectionInv`). From a file of
older code only the cursor's place follows, and that what the projection took comes back;
the other theorems of the loops hold with it too.

**Recursion and sums.** The library's induction theorems take an operator for a
parameter, which no installed prover can instantiate. Where a recursive function, a sum, a
product or an argmin had to be reasoned about, the proof takes the smallest
counterexample instead (`WFMin` on the naturals) or counts: `Hosts` of a schema, the
credits of a round, the products of ratios, the sums of charges, the numbering of an
ordered set, the residuals along a stream. A fold over a set is a table on its subsets
(`FoldTable`), and what holds of the empty one and of each from a smaller one holds of all
(`SubsetInduction`, by the same argument): so the runs of `FirstFit` are folds over sets
that pick the VNF or flow they treat last. Some definitions are written so that they can be proved about: a filter or a
sort of the retrieval is a choice of positions (`Picked`, `Sorted`), not a fold over the
sequence; what a read does to the order of the plan cache (`Touched`) names the position
that moves.

**What the proofs found.** `ExactBeatsWalk` was false above the enumeration's budget, where
`minimal_committable_partition` hands the plan back as it was authored: the small instance
never gets there. The guards of the CASE in `MdoMode` (`Approaches`) overlapped, so that its
value was unspecified for some names. Both were errors of the models.

**Only model-checked.** Liveness under fairness (`EveryArrivalDecided`,
`EverySliceReleased`, `ArrivalAnswered`, `CompletesUnlessTorn`), which the prover does not
do; and what the violation runs show. The type invariants of `Admission`,
`Grid` and `TrainApproach` and `PassNeverReenters` are proved and therefore not run.

## Runs

| Run | Shows |
|---|---|
| `admission_greedy` | every order of events, any suggested partition, greedy actors, the node-based mask: the safety properties of the episode, and the refinement |
| `admission_policy` | learned actors that interleave placing and routing and may decline anywhere, a masked policy, one domain without an actor: under weak fairness every arrival is decided and every slice released (their safety is what the proofs show, for both kinds of actor) |
| `admission_frame_assert` | expected violation: an external plan followed unmasked under the legacy mask trips the frame assert with the debits in place |
| `plan_builders` | what the four builders propose, in all settings of the guard, is committable on the summaries they read; the oracle dominates; the coordinator's repair leaves it alone; and all five repairs of every plan that can be authored, unknown domains included |
| `repair_chain_order` | expected violation: the left-to-right repair scatters a contiguous plan |
| `planner` | the three builders, and the schema's three contracts: what is cached or served can be hosted, eviction is least recent, the counts add up, every arrival is answered |
| `baselines` | the loops that run the static builders: suggestions fit, the gate and the verifier agree, samples are replayed on the network they were made on, and the substrate stays a ledger |
| `memory` | a warm-up and an evaluation under both write and both eviction policies, frozen and accumulating: the two lists agree, entries tell the truth, exemplars are successes above the floor |
| `grid` | kills, timeouts and relaunches anywhere: a cell file says what ran, twins differ as named, selection is sound, banked results stay, and the grid completes as long as no file stays torn |
| `training` | trainings of two segments from scratch, from a stored stack and from one of another observation: credits, updates, memos, agents and checkpoints fit together |
| `grid_kill` | expected violation: a kill in the middle of a write leaves a grid that never completes |
| `llm_lock` | expected violation: two jobs that both hold the lock |

Two properties have the shape of a comparison between runs. `TwinsDifferAsNamed`
compares cells of one grid; `OracleDominates` and `ExactBeatsWalk` compare a builder's
answer with another's on the same network.

**Bounds.** *Admission*: four nodes in three domains in a row (two of them joined by
two links), and four requests: an edge chain that fits in one domain or two, a chain
of three that may end in the central domain, one that is permitted nowhere, and a
single VNF whose delay only one of its nodes can meet. Capacities of 1 to 3 units
make them contend for every node and link, so each outcome of the acceptance report
that the code can reach is reached; an episode may be any sequence of arrivals,
departures and resets, with no bound on its length. Any suggestion may be made, so
what the default builder suggests is among them. *Plan builders*: five nodes in
three domains, four chains of two or three VNFs, every subset of nodes taken by
earlier slices (32 networks), every authored partition. *Planner*: a cache of two
plans against three intents and two conditions, four arrivals, one retry, a slack band
of 90 %: enough for an eviction after a reread, a stale plan replaced, and a hit on a
plan authored for another request. *Baselines*: three slices that contend for nodes and
links, every order of their arrivals and departures, one kill, a dataset file that is
absent, torn, of another configuration, or of older code with this one's hash (larger VNFs,
a target not permitted now, another on a node that is gone). *Memory*: six arrivals, four of them
warm-up, room for three entries, a network congested from one slice on, so that
eviction, both floors and both buckets happen. *Grid*: one seed, two levels, a
heuristic under its own guard, a policy asked for twice, the memory approach and a twin
of it, two validation instances, two segments of two
rounds, one kill and one timeout: enough for a training cut short and repeated over
longer checkpoints. *Training*: two segments of two rounds of three requests, over three
domains the policy numbers differently from the substrate; four stacks (the three
`grid_runner` trains and the other credits), three starts; two contents, so that one
request means another slice in the evaluation than in the training and memoised plans are
met again; two epochs of the policy in minibatches of two and of all; arrivals
that are declined, revoked and rejected in every order; ratios below,
within and above the clip, different for every agent. *Lock*: two jobs. Delays are integers in units of 1/6
(1/4 in the baselines).

**Fairness.** `admission_policy` assumes `WF_vars(Advance)`: the loop of
`run_episode` runs until its event list is empty, and nothing it calls blocks.
`Reset` is not part of it: an episode may be reset or not. `planner` assumes
`WF_vars(Answer)`: a builder runs to its return and a call to the model ends, with a
completion or an exception (generation is bounded by a token limit, the back ends'
own retries by a count); arrivals may stop. `grid` and `grid_kill` assume
`WF_vars(Work)`: the supervisor launches the grid again when it is down and not done,
and a process that is up goes on. Nothing is assumed of kills and timeouts but their
number. `CompletesUnlessTorn` says "unless" in its antecedent because `grid_kill`
refutes it without.

**Deadlock.** It is checked for the episode, which never stops: so `admission_greedy`
and `admission_policy` also show that a frame assert, a `KeyError` on departure or a
`ValueError` in `allocate` stops it nowhere. The other models end: a builder's run with
its answer, the streams of arrivals with their last, the grid when it is done or
refuses its command line, a training with its last checkpoint or a refused warm start, the jobs of the lock when they are over.

## Where code and comments disagree

Shown by a run:

* `admission_frame_assert`: the commit asserts "certify" tier feasibility
  (`coordinator.py:336`); an unmasked plan under the default tier mask trips them
  after the debits and before the rollback.
* `repair_chain_order`: "the repair can never introduce a C10 violation"
  (`admissibility.py:43`); it keeps an admissible VNF where it was authored even
  after the run around it was broken.
* `grid_kill`: "Kill/relaunch is always safe" (`grid_runner.py:38`); cells and memory
  snapshots are opened and then written, and a file that exists counts as banked, so a
  kill in between leaves one that every later launch dies on.
* `llm_lock`: "never run two local-LLM jobs concurrently" (`llm_backend.py:34`); the lock
  file is created and then written, and one that is still empty is taken for stale.

Seen while modelling, each at its line, without a run of its own:

* Revalidation "is always true" (`plan_cache.py:108`); the profile builder stores the modal
  tier of a VNF (`wp7_runner.py:479`), which the domain the model chose may not have, and
  then asks again on every arrival of that key.
* The greedy actor's tier "hard constraint" (`greedy_domain_actor.py:196`) is a rank
  (line 263); permitted nodes are the filter.
* Above `EXACT_REPAIR_BUDGET` "the guard falls back to the left-to-right pass"
  (`admissibility.py:63-66`); line 195 returns the partition unchanged, and the coordinator
  calls nothing else (`coordinator.py:245`; only tests call `repair_partition`).
* The exact repair may move VNFs that are admissible where they are, which
  `admissibility.py:34` says repairs do not.
* The h^m guard is called a necessary test (`admissibility.py:80`); it looks at the
  one node a tier reports (`observation.py:164`), so a domain with room in another
  node is ruled out.
* "A partition whose predicted delay exceeds the arrival's budget is rejected here"
  (`partial_obs_prior.py:377`), but `fullobs_builder` returns the cheapest one when
  none of those it scores is within the budget (line 505).
* `predicted_e2e` loads a node with the VNF in question and the slices already on,
  not with the other VNFs of the chain it puts there (`partition_oracle.py:137`).
* `PlanCache.put` over a stale entry leaves the key at its old place in the order:
  with the constrained builder eviction is not least recent.
* `agent_b_planner.py` speaks of rejections that trip the Page-Hinkley monitor and
  mark plans stale; `MAPPOTrainer` feeds the monitor one constant key and drops its
  signals (`mappo_trainer.py:199`).
* `train_approach` memoizes evaluation plans by request over all rounds
  (`wp7_runner.py:1018`), while a plan depends on the residuals it is drawn under: later
  points of the curve are served the plans of the first.
* The normaliser's "state rides in the checkpoint" (`wp7_runner.py:952`), but neither the
  warm start nor `load_stack` reads it back: in the first round of every later segment the
  critic is read on a scale it was not trained on.
* `load_stack` never loads `actor_states` (`grid_runner.py:661`): a stack trained with
  `ORION_TRAIN_ACTORS=1` is evaluated with fresh actors, and with the actors still
  sampling, against "Fails loudly on a missing checkpoint or on an observation-layout
  mismatch [...] an untrained policy still returns a plausible acceptance number".
* The guard of `gae_over_arrivals` against a shuffled rollout (`wp7_runner.py:820`) looks at
  `done`, which every transition has set: it can never notice one.
* Under `POSTDECODE_GUARD` the recorded action is the repaired partition, while the
  log-probabilities are of the one that was sampled (`coordinator.py:226`).
* `project_sample` masks a target domain a VNF is not permitted in, while the first-fit
  demonstrator places a VNF that is permitted nowhere anywhere (`actors/action_mask.py:45`).
* "If anything in the generation pipeline changes - topology config, slice generator, greedy
  algorithm - the hash changes too, and the cache is regenerated" (`bc_dataset.py:15-18`);
  `config_hash` (47-60) takes only the seed, the number of scenarios and the topology's
  settings, so a file of older code is accepted (line 178). Its samples are then shown on
  residuals, and for slices, they were not made for. `ReplayMatches` is therefore said of
  files this code made; without its condition on `ByThisCode` TLC refutes it on such a file
  at the first projection.
* `_pid_alive` of the lock catches `OSError` before the `PermissionError` that is one
  of its kinds: the branch for a process of another user is never reached.
* Routability-aware co-location checks the flows between domains on a copy of the
  substrate without the deltas of the flows inside domains: a plan it calls feasible may
  take more of a shared link than is left (`colocation_ffd.py:239`). The scripts use its
  domains only. `SuggestionsFit` asks of it no more than that its nodes fit.
* `_try_single_domain` calls its routes "all intra-domain"; the search is over the whole
  graph (`colocation_ffd.py:76`). An empty `permitted_nodes` means any node to the
  baselines and no node to the masks.
* The grid's `_bank` records the guard's knobs after `_eval_partial_guard` has put the
  defaults back, so the field names the default for every approach.
* `CellTimeout` is a `RuntimeError`, which a broad `except` in a builder takes for a
  failed plan: the alarm has then gone off and the cell runs on without a limit
  (`TimeoutSwallowed`), against `grid_runner.py:404`. An alarm during the save of a
  memory tears the snapshot as a kill does.
* `--eval-only` after a retraining that was killed accepts a set of checkpoints whose
  first segments are of the new training and last ones of the old (the number of
  segments is all that is checked): `SelectionSound` promises one training only where
  this launch trained.
* `load_stack` refuses more segments than the curriculum "or retrain"; retraining never
  removes the surplus ones.
* `_append_rollout` marks every arrival committed (`episode_runner.py:373`), "True iff the
  arrival ended in COMMIT" says `rollout_buffer.py:46`.
* Recording an episode may evict it at once and still says that it was recorded;
  `_evict` is described as "recency*reward*frequency" and reads no reward; a frozen
  memory still counts accesses (`grid_runner.py:1466` has it read-only), which moves the
  order of later retrievals.
* `_mb_capacity` is "never below the warm-up's write volume"; a smaller
  `MEMORY_CAPACITY_K` only warns.

## Not modelled

Floating point and rounding (integers here: drift of bandwidth under repeated
rollback is not seen); the cost and quality terms of a reward; traces, reports, prompts
and the text of memories; tensors, networks, losses and gradient steps (which weights, data
and scale a step is taken with is in `TrainApproach`, what is learned is not); the
whitening of advantages and the pull towards the prior; `MAPPOTrainer`, which no script of
the grid runs; the call of the
repairs under `POSTDECODE_GUARD` inside the coordinator; the other environment flags,
which stay at their defaults; `tier_filtered`, which changes nothing `PlansHostable`
speaks of.

Parts without a module: the strategy monitor (the trainer feeds it one constant key and
drops its signals), the calibration of load levels (a bisection on statistics of whole
simulated runs, which a model would have to invent), slice and topology generation
(random draws; the models take any that satisfy `RequestAssumption` and
`TopologyAssumption`), the pre-commit check (dead code), the back ends (network calls;
`Planner` lets the model answer anything), provenance and profiling (output only).
`PROJECT.json` lists each.

## Plan

Done: the episode, the builders and repairs, the planner, the baselines, the memory,
the grid, the training, the lock. What would add most next:

1. Composition of the repairs with `Admission` for `POSTDECODE_GUARD`: whether they keep
   the frame asserts from firing under the legacy mask, and what the rollout then records.
2. The evaluation of a stored stack (`load_stack`) as a user of `TrainApproach`'s checkpoint.
