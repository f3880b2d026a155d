------------------------------- MODULE MCGrid -------------------------------
(***************************************************************************)
(* The grid with one approach of each kind: a heuristic under its own       *)
(* guard, a policy without a language model, the memory approach and a      *)
(* variant of it; two levels, of which the second is the training level.    *)
(***************************************************************************)
EXTENDS Grid

MCSeeds == {42}
MCLevels == <<"L4", "L2">>
MCRequested == <<"MDO-partial-modal", "RL-alone", "Full", "Full-rpg-fp", "RL-alone">>
MCValidation == {101, 102}
MCScores == {1, 2}
MCLeftovers == {0, 2, 3}
MCEntropies == {1, 5}
MCNone == {0}
MCOneApproach == <<"Plain", "Full">>
=============================================================================
