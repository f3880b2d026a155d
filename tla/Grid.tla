-------------------------------- MODULE Grid --------------------------------
(***************************************************************************)
(* The experiment grid of scripts/grid_runner.py, as a process that may be  *)
(* killed at any moment and is launched again by its supervisor.            *)
(*                                                                         *)
(* A launch walks the seeds.  For each it trains the stacks its unfinished  *)
(* cells need, segment by segment, selects one checkpoint per stack on the  *)
(* validation instances, runs the cells that have no file yet, and at the   *)
(* end reads every file back.  What it knows beyond the files it keeps in   *)
(* module globals that every step of the cell rewrites: the wiring of       *)
(* wp7_runner and the heuristic's guard.                                    *)
(*                                                                         *)
(* Evaluations and trainings are abstract: what matters is what they ran    *)
(* under.  One scenario, one evaluation instance.                           *)
(***************************************************************************)
EXTENDS Approaches, Training, SequencesExt

CONSTANTS
  Seeds,            \* --seeds
  Levels,           \* --levels, a sequence
  TrainingLevel,
  Requested,        \* --approaches, a sequence
  EvalInstance,     \* --eval-instances: one
  Validation,       \* VALIDATION_INSTANCES
  WarmUp,           \* BOOLEAN: --warm-arrivals is not 0
  Scores,           \* mean acceptances a validation may give
  Leftovers,        \* numbers of segments an earlier training may have left
  EvalOnly,         \* the values of --eval-only looked at
  FinalSegment,     \* the values of --final-segment looked at
  MaxKills,         \* bound
  MaxTimeouts       \* bound

Levelled == Range(Levels)

\* main: the instances spent on selection are refused for evaluation; nargs="+".
ASSUME ArgumentAssumption ==
  /\ EvalInstance \notin Validation /\ Validation # {}
  /\ Requested \in Seq(Approaches) /\ Requested # <<>>
  /\ Levels \in Seq(Levelled) /\ Levels # <<>>
  /\ Seeds \subseteq Int /\ Seeds # {} /\ IsFiniteSet(Seeds)
  /\ {WarmUp} \cup EvalOnly \cup FinalSegment \subseteq BOOLEAN
  /\ Scores \subseteq Nat /\ Leftovers \subseteq Nat /\ MaxKills \in Nat /\ MaxTimeouts \in Nat

Absent == [file |-> "absent"]
Torn == [file |-> "torn"]       \* opened for writing, not written
File(content) == [file |-> "whole", content |-> content]
Unset == [unset |-> TRUE]       \* no value, where a record may be
Whole(f) == f.file = "whole"
Exists(f) == f.file # "absent"

Order == RequestedOrder(Requested)
Cell == Seeds \X Range(Order) \X Levelled

VARIABLES
  \* on disk
  cells,       \* [Cell -> file]
  ckpt,        \* [Seeds -> [Range(Stacks) -> sequence of files]]
  snapshot,    \* [Seeds -> file]: the warmed memory
  \* the command line, which the supervisor repeats
  args,
  \* the process
  pc,          \* "down" when there is none
  seed,        \* the seed in hand
  wanted,      \* stacks still to be trained or loaded for it
  segment,     \* the segment being trained or scored, from 0
  trainer,     \* the rounds of that segment
  curve,       \* validation scores so far
  loaded,      \* [stacks loaded -> [weights, selection]]
  next,        \* the cell in hand, as a position in Order and one in Levels
  wired,       \* wp7_runner's globals
  guard,       \* partial_obs_prior's globals
  live,        \* the locals of the cell in hand
  report,      \* what the readout printed
  \* bounds
  kills, timeouts

disk == <<cells, ckpt, snapshot>>
train == <<wanted, segment, trainer, curve>>
cell == <<next, live>>
vars == <<disk, args, pc, seed, train, loaded, cell, wired, guard, report, kills, timeouts>>

(***************************************************************************)
(* The wiring.                                                             *)
(***************************************************************************)
\* The wiring of a process that has wired nothing.
Unwired == [level |-> None, inst |-> 0, builder |-> "none", train |-> "sample", fixed |-> FALSE]

\* _wire: the level and the instance, everything else back to its default.
Wired(level, inst) ==
  [level |-> level, inst |-> inst, builder |-> "none", train |-> "sample", fixed |-> TRUE]

\* The training instance of segment g; they are not evaluation instances.
TrainInstance(g) == -1 - g

\* What the segment trains under once the branch of its stack has been taken;
\* _Rewired is the second _wire that used to follow the branch.
TrainWiring_Rewired(stack, g) == Wired(TrainingLevel, TrainInstance(g))

TrainWiring(stack, g) ==
  LET branch == Curriculum(stack)
  IN  [level |-> TrainingLevel, inst |-> TrainInstance(g),
       builder |-> branch.builder, train |-> branch.train, fixed |-> branch.fixed]

(***************************************************************************)
(* Positions.                                                              *)
(***************************************************************************)
Current == <<seed, Order[next[1]], Levels[next[2]]>>
Approach == Order[next[1]]
FirstSeed == CHOOSE s \in Seeds : \A t \in Seeds : s <= t
LaterSeeds(s) == {t \in Seeds : t > s}

NoCell == [store |-> Unset, alarm |-> FALSE, out |-> Unset, saved |-> DefaultGuard]
Scratch == -2                   \* no run: a segment that starts from no weights
NoTrainer == NewTrainer(Scratch)

\* The cell after this one, the block after the last cell, or the readout.
Advance ==
  IF next[2] < Len(Levels)
  THEN pc' = "cell" /\ next' = <<next[1], next[2] + 1>> /\ UNCHANGED seed
  ELSE IF next[1] < Len(Order)
  THEN pc' = "cell" /\ next' = <<next[1] + 1, 1>> /\ UNCHANGED seed
  ELSE /\ next' = <<1, 1>>
       /\ IF LaterSeeds(seed) = {}
          THEN pc' = "readout" /\ UNCHANGED seed
          ELSE pc' = "block" /\ seed' = CHOOSE t \in LaterSeeds(seed) :
                                          \A u \in LaterSeeds(seed) : t <= u

Init ==
  /\ args \in [evalOnly : EvalOnly, finalSegment : FinalSegment, leftover : Leftovers]
  /\ cells = [c \in Cell |-> Absent]
  /\ ckpt = [s \in Seeds |-> [k \in Range(Stacks) |->
               [g \in 1..args.leftover |->
                  File([run |-> -1, seg |-> g - 1, beta |-> Beta(k, g - 1, Rounds - 1),
                        under |-> TrainWiring(k, g - 1)])]]]
  /\ snapshot = [s \in Seeds |-> Absent]
  /\ pc = "down"
  /\ seed = FirstSeed /\ wanted = {} /\ segment = 0 /\ trainer = NoTrainer /\ curve = <<>>
  /\ loaded = <<>> /\ next = <<1, 1>> /\ live = NoCell
  /\ wired = Unwired /\ guard = DefaultGuard
  /\ report = Unset /\ kills = 0 /\ timeouts = 0

\* The process ends, and with it everything it holds in memory.
Gone ==
  /\ pc' = "down"
  /\ seed' = FirstSeed /\ wanted' = {} /\ segment' = 0 /\ trainer' = NoTrainer /\ curve' = <<>>
  /\ loaded' = <<>> /\ next' = <<1, 1>> /\ live' = NoCell
  /\ wired' = Unwired /\ guard' = DefaultGuard
  /\ UNCHANGED <<args, report>>

\* The supervisor launches the run, with the arguments of the first time.
Launch ==
  /\ pc = "down"
  /\ pc' = "block"
  /\ UNCHANGED <<disk, args, seed, train, loaded, cell, wired, guard, report, kills, timeouts>>

(***************************************************************************)
(* One block: the cells of a seed.                                         *)
(***************************************************************************)
\* _done: there is a file.
Banked_Never(c) == FALSE
Banked(c) == Exists(cells[c])

\* With the first level alone looked at.
Pending_FirstLevel(s) == {a \in Range(Order) \cap Trained : ~Banked(<<s, a, Levels[1]>>)}

\* The trained approaches that still have a cell to run.
Pending(s) == {a \in Range(Order) \cap Trained : \E l \in Levelled : ~Banked(<<s, a, l>>)}

\* Go on with these stacks, or with the cells.
GoOn(stacks) ==
  /\ wanted' = stacks
  /\ pc' = IF stacks = {} THEN "cell" ELSE IF args.evalOnly THEN "load" ELSE "segment"

Block ==
  /\ pc = "block"
  /\ GoOn({k \in Range(Stacks) : \E a \in Pending(seed) : StackFor(a) = k})
  /\ loaded' = <<>>
  /\ UNCHANGED <<disk, args, seed, segment, trainer, curve, cell, wired, guard, report,
                 kills, timeouts>>

(***************************************************************************)
(* curriculum_train: the segments of a stack, each warm-started from the    *)
(* one before.  The checkpoints of an earlier training are overwritten in   *)
(* place, and those past the last segment stay.                             *)
(***************************************************************************)
FirstOf(stacks) ==
  Stacks[CHOOSE i \in DOMAIN Stacks :
           Stacks[i] \in stacks /\ \A j \in 1..(i - 1) : Stacks[j] \notin stacks]
Stack == FirstOf(wanted)
Checkpoints == ckpt[seed][Stack]

StartSegment ==
  /\ pc = "segment"
  /\ wired' = TrainWiring(Stack, segment)
  /\ trainer' = NewTrainer(IF segment = 0 THEN Scratch ELSE Checkpoints[segment].content.run)
  /\ pc' = "round"
  /\ UNCHANGED <<disk, args, seed, wanted, segment, curve, loaded, cell, guard, report,
                 kills, timeouts>>

TrainRound ==
  /\ pc = "round" /\ trainer.round < Rounds
  /\ \E coef \in EntCoefs(trainer.round, trainer.dual, trainer.measured), e \in Entropies :
       trainer' = [trainer EXCEPT
                     !.round = @ + 1, !.coef = coef, !.measured = e,
                     !.dual = DualAfter(@, trainer.measured, coef),
                     !.beta = Beta(Stack, segment, trainer.round)]
  /\ UNCHANGED <<disk, args, pc, seed, wanted, segment, curve, loaded, cell, wired, guard,
                 report, kills, timeouts>>

SetCheckpoint(file) ==
  ckpt' = [ckpt EXCEPT ![seed][Stack] =
             [g \in 1..Larger(segment + 1, Len(@)) |-> IF g = segment + 1 THEN file ELSE @[g]]]

OpenCheckpoint ==
  /\ pc = "round" /\ trainer.round = Rounds
  /\ SetCheckpoint(Torn)
  /\ pc' = "checkpoint"
  /\ UNCHANGED <<cells, snapshot, args, seed, train, loaded, cell, wired, guard, report,
                 kills, timeouts>>

WriteCheckpoint ==
  /\ pc = "checkpoint"
  /\ SetCheckpoint(File([run |-> kills, seg |-> segment, beta |-> trainer.beta, under |-> wired]))
  /\ trainer' = NoTrainer
  /\ IF segment + 1 < Segments
     THEN pc' = "segment" /\ segment' = segment + 1
     ELSE pc' = "load" /\ segment' = 0
  /\ UNCHANGED <<cells, snapshot, args, seed, wanted, curve, loaded, cell, wired, guard,
                 report, kills, timeouts>>

(***************************************************************************)
(* load_stack and select_checkpoint.  A set of checkpoints whose last is    *)
(* not this curriculum's last is refused, and so is a missing one.          *)
(***************************************************************************)
Loadable(g) == Len(Checkpoints) = Segments /\ Whole(Checkpoints[g + 1])

\* With ties going to the later segment.
Earliest_Latest(c) == CHOOSE g \in DOMAIN c : /\ \A h \in DOMAIN c : c[h].score <= c[g].score
                                              /\ \A h \in DOMAIN c : h > g => c[h].score < c[g].score

\* The best segment, the earliest of them on a tie.
Earliest(c) == CHOOSE g \in DOMAIN c : /\ \A h \in DOMAIN c : c[h].score <= c[g].score
                                       /\ \A h \in 1..(g - 1) : c[h].score < c[g].score

\* The segment to be loaded now: to be scored, or to be used.
Chosen == IF args.finalSegment THEN Segments - 1 ELSE Earliest(curve) - 1
Scoring == ~args.finalSegment /\ Len(curve) < Segments
ToLoad == IF Scoring THEN Len(curve) ELSE Chosen

RefuseLoad ==
  /\ pc = "load" /\ ~Loadable(ToLoad)
  /\ Gone
  /\ UNCHANGED <<disk, kills, timeouts>>

LastValidation == CHOOSE v \in Validation : \A w \in Validation : w <= v

ScoreSegment ==
  /\ pc = "load" /\ Scoring /\ Loadable(ToLoad)
  /\ wired' = Wired(TrainingLevel, LastValidation)
  /\ \E s \in Scores :
       curve' = Append(curve, [score |-> s, on |-> Validation, by |-> SelectionProbe[Stack],
                               of |-> Checkpoints[ToLoad + 1].content.run])
  /\ UNCHANGED <<disk, args, pc, seed, wanted, segment, trainer, loaded, cell, guard, report,
                 kills, timeouts>>

UseSegment ==
  /\ pc = "load" /\ ~Scoring /\ Loadable(ToLoad)
  /\ wired' = Wired(TrainingLevel, TrainInstance(Chosen))
  /\ loaded' = [k \in {Stack} \cup DOMAIN loaded |->
                  IF k = Stack THEN [weights |-> Checkpoints[Chosen + 1].content, curve |-> curve]
                  ELSE loaded[k]]
  /\ curve' = <<>>
  /\ GoOn(wanted \ {Stack})
  /\ UNCHANGED <<disk, args, seed, segment, trainer, cell, guard, report, kills, timeouts>>

(***************************************************************************)
(* run_cell.                                                               *)
(***************************************************************************)
SkipCell ==
  /\ pc = "cell" /\ Banked(Current)
  /\ Advance
  /\ UNCHANGED <<disk, args, train, loaded, live, wired, guard, report, kills, timeouts>>

Remembers == Approach \in MemoryLLM /\ WarmUp
HasStack == Approach \in Trained => StackFor(Approach) \in DOMAIN loaded

\* Dispatch on a stack nobody loaded, or on a memory that does not parse.
CellError ==
  /\ pc = "cell" /\ ~Banked(Current)
  /\ ~HasStack \/ (Remembers /\ snapshot[seed] = Torn)
  /\ Gone
  /\ UNCHANGED <<disk, kills, timeouts>>

GuardOf(a) == IF a \in DOMAIN Guarded THEN Guarded[a] ELSE guard

\* Into the evaluation with this memory.
Begin(store) ==
  /\ wired' = Wired(Current[3], EvalInstance)
  /\ live' = [NoCell EXCEPT !.store = store, !.alarm = TRUE, !.saved = guard]
  /\ guard' = GuardOf(Approach)
  /\ pc' = "evaluate"

StartCell ==
  /\ pc = "cell" /\ ~Banked(Current) /\ HasStack
  /\ \/ ~Remembers /\ Begin(Unset)
     \/ Remembers /\ Whole(snapshot[seed]) /\ Begin(snapshot[seed].content)
     \/ /\ Remembers /\ snapshot[seed] = Absent
        /\ wired' = Wired(TrainingLevel, EvalInstance)
        /\ live' = [NoCell EXCEPT !.alarm = TRUE, !.saved = guard]
        /\ pc' = "warm"
        /\ UNCHANGED guard
  /\ UNCHANGED <<disk, args, seed, train, loaded, next, report, kills, timeouts>>

\* The warm-up episodes: what the memory is filled under.  It is saved, and
\* read back from what was saved.
WarmStore ==
  /\ pc = "warm"
  /\ live' = [live EXCEPT !.store = [level |-> wired.level,
                                     by |-> loaded[StackFor(Approach)].weights.run]]
  /\ snapshot' = [snapshot EXCEPT ![seed] = Torn]
  /\ pc' = "snapshot"
  /\ UNCHANGED <<cells, ckpt, args, seed, train, loaded, next, wired, guard, report,
                 kills, timeouts>>

\* Without going back to the level of the cell.
SaveStore_StaysWarm ==
  /\ pc = "snapshot"
  /\ snapshot' = [snapshot EXCEPT ![seed] = File(live.store)]
  /\ pc' = "evaluate"
  /\ UNCHANGED <<cells, ckpt, args, seed, train, loaded, cell, wired, guard, report,
                 kills, timeouts>>

SaveStore ==
  /\ pc = "snapshot"
  /\ snapshot' = [snapshot EXCEPT ![seed] = File(live.store)]
  /\ wired' = Wired(Current[3], EvalInstance)
  /\ pc' = "evaluate"
  /\ UNCHANGED <<cells, ckpt, args, seed, train, loaded, cell, guard, report,
                 kills, timeouts>>

\* The arguments an evaluation passes on, and the globals it reads.
Ran ==
  [status |-> "ok", level |-> wired.level, inst |-> wired.inst, guard |-> guard,
   source |-> PlanSource(Approach), executed |-> ExecutedBy(Approach),
   repair |-> IF Approach \in DOMAIN RepairMode THEN RepairMode[Approach] ELSE None,
   store |-> live.store,
   stack |-> IF Approach \in Trained THEN loaded[StackFor(Approach)] ELSE Unset]

\* The evaluation is over, the finally blocks have run, the cell's file is open.
Leave(out) ==
  /\ guard' = live.saved
  /\ live' = [live EXCEPT !.alarm = FALSE, !.out = out]
  /\ cells' = [cells EXCEPT ![Current] = Torn]
  /\ pc' = "bank"

Evaluate ==
  /\ pc = "evaluate"
  /\ Leave(Ran)
  /\ UNCHANGED <<ckpt, snapshot, args, seed, train, loaded, next, wired, report, kills, timeouts>>

\* The alarm of cell_timeout, once a cell.  It is banked as such, wherever it
\* finds the evaluation: a memory being written stays torn.
Timeout ==
  /\ pc \in {"warm", "snapshot", "evaluate"} /\ live.alarm
  /\ timeouts < MaxTimeouts /\ timeouts' = timeouts + 1
  /\ Leave([status |-> "timeout"])
  /\ UNCHANGED <<ckpt, snapshot, args, seed, train, loaded, next, wired, report, kills>>

\* CellTimeout is a RuntimeError: raised inside one of the evaluation's broad
\* except blocks it is swallowed, and the alarm is spent.
TimeoutSwallowed ==
  /\ pc = "evaluate" /\ live.alarm
  /\ timeouts < MaxTimeouts /\ timeouts' = timeouts + 1
  /\ live' = [live EXCEPT !.alarm = FALSE]
  /\ UNCHANGED <<disk, args, pc, seed, train, loaded, next, wired, guard, report, kills>>

\* _bank: the file is written, with the knobs read now.
Bank ==
  /\ pc = "bank"
  /\ cells' = [cells EXCEPT ![Current] = File([knob |-> guard, result |-> live.out])]
  /\ live' = NoCell
  /\ Advance
  /\ UNCHANGED <<ckpt, snapshot, args, train, loaded, wired, guard, report, kills, timeouts>>

(***************************************************************************)
(* The readout: every file there is, parsed.  Timeouts are counted apart.   *)
(***************************************************************************)
ReadoutError ==
  /\ pc = "readout" /\ Torn \in Range(cells)
  /\ Gone
  /\ UNCHANGED <<disk, kills, timeouts>>

OfStatus(s) == {c \in Cell : Whole(cells[c]) /\ cells[c].content.result.status = s}

Readout ==
  /\ pc = "readout" /\ Torn \notin Range(cells)
  /\ report' = [averaged |-> OfStatus("ok"), timedOut |-> OfStatus("timeout")]
  /\ pc' = "done"
  /\ UNCHANGED <<disk, args, seed, train, loaded, cell, wired, guard, kills, timeouts>>

\* A kill, or an exception of the evaluation other than a timeout.
Kill ==
  /\ pc \notin {"down", "done"}
  /\ kills < MaxKills /\ kills' = kills + 1
  /\ Gone
  /\ UNCHANGED <<disk, timeouts>>

Training == StartSegment \/ TrainRound \/ OpenCheckpoint \/ WriteCheckpoint
Loading == RefuseLoad \/ ScoreSegment \/ UseSegment
Running == SkipCell \/ CellError \/ StartCell \/ WarmStore \/ SaveStore \/ Evaluate \/ Bank
Work == Launch \/ Block \/ Training \/ Loading \/ Running \/ ReadoutError \/ Readout

Next == Work \/ Timeout \/ TimeoutSwallowed \/ Kill

Spec == Init /\ [][Next]_vars

\* The supervisor restarts what is down, and a process goes on; nothing is
\* assumed of kills and timeouts.
FairSpec == Spec /\ WF_vars(Work)

(***************************************************************************)
(* Properties.                                                             *)
(***************************************************************************)
FileOf(content) == {Absent, Torn} \cup {File(x) : x \in content}
Wiring == [level : {TrainingLevel}, inst : Int, builder : {"none", "partial_obs"},
           train : {"sample", "advised_sample"}, fixed : BOOLEAN]
WeightsOf == [run : -1..MaxKills, seg : Nat, beta : Int, under : Wiring]

\* Type invariant.
TypeOK ==
  /\ DOMAIN cells = Cell /\ \A c \in Cell : cells[c].file \in {"absent", "torn", "whole"}
  /\ \A s \in Seeds, k \in Range(Stacks) :
       \A g \in DOMAIN ckpt[s][k] : Whole(ckpt[s][k][g]) => ckpt[s][k][g].content \in WeightsOf
  /\ \A s \in Seeds : snapshot[s].file \in {"absent", "torn", "whole"}
  /\ pc \in {"down", "block", "segment", "round", "checkpoint", "load", "cell", "warm",
             "snapshot", "evaluate", "bank", "readout", "done"}
  /\ seed \in Seeds /\ wanted \subseteq Range(Stacks)
  /\ segment \in 0..(Segments - 1) /\ Len(curve) <= Segments
  /\ next \in (1..Len(Order)) \X (1..Len(Levels))
  /\ DOMAIN loaded \subseteq Range(Stacks)
  /\ kills \in 0..MaxKills /\ timeouts \in 0..MaxTimeouts

Result(c) == cells[c].content.result
Ok(c) == Whole(cells[c]) /\ Result(c).status = "ok"

\* A banked result is what its file name says: evaluated at that level and on
\* the evaluation instance, under the guard the approach is named for and the
\* default guard otherwise, by a stack trained the way its curriculum says, with
\* a memory warmed at the training level.  All four pass through globals that
\* the cells before it, the training, the selection and the warm-up also set.
CellSaysWhatRan ==
  \A c \in Cell : Ok(c) =>
    /\ Result(c).level = c[3] /\ Result(c).inst = EvalInstance
    /\ Result(c).guard = IF c[2] \in DOMAIN Guarded THEN Guarded[c[2]] ELSE DefaultGuard
    /\ c[2] \in Trained =>
         LET w == Result(c).stack.weights.under
         IN  [builder |-> w.builder, train |-> w.train, fixed |-> w.fixed]
               = Curriculum(StackFor(c[2]))
    /\ c[2] \in MemoryLLM /\ WarmUp => Result(c).store.level = TrainingLevel

\* A variant and the approach it is the twin of, evaluated for the same seed and
\* level, differ in nothing but what the variant's name says: the repair, and for
\* "-fp" that the plan is committed verbatim.  (_mdo_mode's comment tells of the
\* time the memory approaches' mode was hardcoded.)
TwinsDifferAsNamed ==
  \A c, d \in Cell :
    (Ok(c) /\ Ok(d) /\ c[1] = d[1] /\ c[3] = d[3] /\ c[2] # d[2] /\ d[2] = VariantBase(c[2])) =>
      /\ \A f \in {"level", "inst", "guard", "source"} : Result(c)[f] = Result(d)[f]
      /\ Result(c).executed = IF c[2] \in FPApproaches THEN "follow_prior" ELSE Result(d).executed
      /\ Result(c).stack.weights.under.train = Result(d).stack.weights.under.train
      /\ Result(c).store # Unset <=> Result(d).store # Unset

\* Y.14: the stack a cell is run with is the earliest of the best segments, they
\* were all scored on validation instances alone, and all of them and the one
\* loaded come from one training, however often trainings were cut short.  By the
\* last segment the prior has been annealed away.
SelectionSound ==
  \A k \in DOMAIN loaded :
    LET c == loaded[k].curve
        w == loaded[k].weights
    IN  /\ c # <<>> =>
             /\ w.seg + 1 \in DOMAIN c /\ Len(c) = Segments
             /\ \A g \in DOMAIN c :
                  /\ c[g].score <= c[w.seg + 1].score
                  /\ c[g].score = c[w.seg + 1].score => w.seg + 1 <= g
                  /\ EvalInstance \notin c[g].on
                  /\ c[g].of = w.run
        /\ args.finalSegment => w.seg + 1 = Segments
        /\ w.seg + 1 = Segments => w.beta = 0
        /\ ~args.evalOnly => w.run = kills

\* A whole file of results, or a whole memory, is never written again and never
\* lost: not by a relaunch, a retraining, a timeout or a kill.
BankedStaysBanked ==
  [][/\ \A c \in Cell : Whole(cells[c]) => cells'[c] = cells[c]
     /\ \A s \in Seeds : Whole(snapshot[s]) => snapshot'[s] = snapshot[s]]_vars

\* While the measured entropy is below its target, the coefficient never falls
\* from one round to the next; once it is back, the schedule rules.
EntropyFloorHolds ==
  [][(pc = "round" /\ trainer'.round = trainer.round + 1 /\ trainer.measured # -1) =>
       IF trainer.measured < EntropyTarget
       THEN trainer'.coef >= trainer.coef /\ trainer'.coef >= EntSchedule(trainer.round)
       ELSE trainer'.coef = EntSchedule(trainer.round)]_vars

NoTornFile == Torn \notin Range(cells) \cup Range(snapshot)

\* The command line fits the checkpoints on disk: the set is not longer than the
\* curriculum, and it is there when nothing may be trained.
Trainable ==
  /\ args.leftover <= Segments
  /\ args.evalOnly => args.leftover = Segments

\* As long as no file stays torn, the grid is completed, whatever was killed,
\* timed out or retrained on the way.
CompletesUnlessTorn == Trainable /\ []<>NoTornFile => <>(pc = "done")

\* "RESUMABLE ... Kill/relaunch is always safe": the grid is completed.  It is
\* not: a file that a kill left half-written counts as banked, and every launch
\* dies on reading it.
KillIsSafe == Trainable => <>(pc = "done")
=============================================================================
