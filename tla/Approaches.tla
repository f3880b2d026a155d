----------------------------- MODULE Approaches -----------------------------
(***************************************************************************)
(* The approaches scripts/grid_runner.py compares, and what its tables      *)
(* derive from an approach's name: where its plan comes from, how the       *)
(* coordinator decodes it, which stack and memory it uses, whether the plan *)
(* is repaired, and under which guard the heuristic runs.                   *)
(***************************************************************************)
EXTENDS Naturals, Sequences, FiniteSets, Functions

None == "none"

OfMemoryOff == {"Memory-off-rpg", "Memory-off-rp", "Memory-off-fp", "Memory-off-rpg-fp",
                "Memory-off-rpc", "Memory-off-rpc-fp"}
OfFull == {"Full-rp", "Full-rpc", "Full-rpc-fp", "Full-rpg", "Full-rpg-fp"}

\* The approach every variant is the twin of.
RepairBase == [a \in OfMemoryOff \cup OfFull |-> IF a \in OfFull THEN "Full" ELSE "Memory-off"]

RepairMode ==
  [a \in DOMAIN RepairBase \ {"Memory-off-fp"} |->
     CASE a \in {"Memory-off-rp", "Full-rp"} -> "full"
       [] a \in {"Memory-off-rpc", "Memory-off-rpc-fp", "Full-rpc", "Full-rpc-fp"} -> "colo"
       [] OTHER -> "guard"]

FPApproaches == {"Memory-off-fp", "Memory-off-rpg-fp", "Memory-off-rpc-fp",
                 "Full-rpc-fp", "Full-rpg-fp"}

VariantBase(a) == IF a \in DOMAIN RepairBase THEN RepairBase[a] ELSE a

NonmemoryLLM == {"Memory-off"} \cup OfMemoryOff
MemoryLLM == {"Full"} \cup OfFull
Advised == NonmemoryLLM \cup MemoryLLM
Trained == {"RL-alone", "RL-poprior"} \cup Advised

StackFor(a) ==
  CASE VariantBase(a) = "RL-alone" -> "rl_alone"
    [] VariantBase(a) = "RL-poprior" -> "po_prior"
    [] VariantBase(a) \in {"Memory-off", "Full"} -> "llm_guided"

\* The stacks in the order get_stacks trains them, and the approach whose
\* evaluation scores each.
Stacks == <<"rl_alone", "po_prior", "llm_guided">>
SelectionProbe ==
  [s \in Range(Stacks) |-> CASE s = "rl_alone" -> "RL-alone"
                             [] s = "po_prior" -> "RL-poprior"
                             [] s = "llm_guided" -> "Memory-off"]

\* With the mode hardcoded on the path of the memory approaches.
MdoMode_MemoryAdvised(a) ==
  IF a \in MemoryLLM THEN "advised"
  ELSE IF a \in FPApproaches THEN "follow_prior"
  ELSE IF a \in Advised THEN "advised" ELSE "deterministic"

MdoMode(a) ==
  IF a \in FPApproaches THEN "follow_prior"
  ELSE IF a \in Advised THEN "advised" ELSE "deterministic"

(***************************************************************************)
(* The heuristics go through the coordinator in follow_prior mode with the  *)
(* partition of a builder; those named for a guard set partial_obs_prior's  *)
(* two globals for the length of their cell.                                *)
(***************************************************************************)
Guarded ==
  [a \in {"MDO-partial-noh", "MDO-partial-modal", "MDO-partial-obsenc",
          "MDO-partial-fact", "MDO-partial-noh-fact"} |->
     [mode |-> CASE a \in {"MDO-partial-noh", "MDO-partial-noh-fact"} -> "off"
                 [] a = "MDO-partial-modal" -> "modal"
                 [] a = "MDO-partial-obsenc" -> "obsenc"
                 [] a = "MDO-partial-fact" -> "full",
      seq |-> a \notin {"MDO-partial-fact", "MDO-partial-noh-fact"}]]

\* What the process starts under.
DefaultGuard == [mode |-> "full", seq |-> TRUE]

Heuristics == {"MDO-fullobs", "MDO-ffd", "MDO-partial"} \cup DOMAIN Guarded

\* Where an approach's partitions come from.
PlanSource(a) ==
  CASE a = "Plain" -> "colocation_ffd"
    [] a = "MDO-fullobs" -> "fullobs"
    [] a = "MDO-ffd" -> "greedy"
    [] a \in Advised -> "agent_b"
    [] OTHER -> "partial_obs"

ExecutedBy(a) ==
  IF a = "Plain" THEN None ELSE IF a \in Heuristics THEN "follow_prior" ELSE MdoMode(a)

Approaches == {"Plain"} \cup Heuristics \cup Trained

\* The requested approaches without repetition, the first occurrence kept.
RequestedOrder(approaches) ==
  LET firsts == {i \in DOMAIN approaches : \A j \in 1..(i - 1) : approaches[j] # approaches[i]}
      At(k) == CHOOSE i \in firsts : Cardinality({j \in firsts : j <= i}) = k
  IN  [k \in 1..Cardinality(firsts) |-> approaches[At(k)]]
=============================================================================
