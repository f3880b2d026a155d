------------------------------ MODULE Training ------------------------------
(***************************************************************************)
(* What a curriculum segment trains under (scripts/grid_runner.py,          *)
(* curriculum_train) and the schedules of its rounds (scripts/wp7_runner.py,*)
(* train_approach).  Coefficients are integers in units of the code's 0.01. *)
(***************************************************************************)
EXTENDS Integers

CONSTANTS
  Segments,       \* segments of the curriculum
  Rounds,         \* rounds of a segment, at least 2
  EntStart,       \* entropy_schedule
  EntFloor,
  EntMax,         \* ENT_COEF_MAX
  EntropyTarget,  \* the target entropy of the dual controller
  Entropies       \* the entropies a rollout may measure

ASSUME TrainingAssumption ==
  /\ Segments \in Nat \ {0} /\ Rounds \in Nat \ {0, 1}
  /\ {EntStart, EntFloor, EntMax} \subseteq Nat /\ EntropyTarget \in Nat
  /\ EntFloor <= EntStart /\ EntStart <= EntMax
  /\ Entropies \subseteq Nat

Larger(a, b) == IF a > b THEN a ELSE b

\* The branch of curriculum_train for a stack: the source of m~ in training, the
\* decode of its rollouts, one arrival stream for all rounds or a fresh one.
Curriculum(stack) ==
  IF stack = "llm_guided"
  THEN [builder |-> "none", train |-> "advised_sample", fixed |-> TRUE]
  ELSE [builder |-> "partial_obs", train |-> "sample", fixed |-> FALSE]

\* The weight of the prior term in round r of segment i, both from 0, in units of
\* 1 / (Segments * (Rounds - 1)): from 1 in the first round to 0 in the last.
Beta(stack, i, r) ==
  IF stack = "po_prior" THEN (Segments - i) * (Rounds - 1) - r ELSE 0

\* The scheduled entropy coefficient of round r, rounded down.
EntSchedule(r) == Larger(EntFloor, (EntStart * (Rounds - 1 - r)) \div (Rounds - 1))

\* With the schedule as the lower end, and not what the controller had reached.
EntCoefs_FromSchedule(r, dual, measured) ==
  IF measured = -1 \/ measured >= EntropyTarget
  THEN {EntSchedule(r)}
  ELSE EntSchedule(r)..EntMax

(***************************************************************************)
(* The dual controller.  It sees the entropy the round before measured, and *)
(* nothing in the first.  At the target or above it follows the schedule;   *)
(* below, it multiplies its own coefficient by a factor greater than 1 and  *)
(* clips: any value between is possible.                                    *)
(***************************************************************************)
EntCoefs(r, dual, measured) ==
  IF measured = -1 \/ measured >= EntropyTarget
  THEN {EntSchedule(r)}
  ELSE Larger(EntSchedule(r), dual)..EntMax

\* The controller's own coefficient after the round: untouched in the first.
DualAfter(dual, measured, coef) == IF measured = -1 THEN dual ELSE coef

\* The trainer at the start of a segment; from is what it starts from.
NewTrainer(from) ==
  [round |-> 0, dual |-> EntStart, coef |-> EntStart, beta |-> 0, measured |-> -1,
   from |-> from]
=============================================================================
