----------------------------- MODULE ChainOrder -----------------------------
(***************************************************************************)
(* Constraint C10 (src/src/orion/mdo/chain_order.py): read along the chain, *)
(* the domains of a partition form runs, and no domain has two of them.     *)
(***************************************************************************)
EXTENDS Integers, FiniteSetsExt

\* The positions at which a run of equal domains begins.
Runs(p) == {k \in DOMAIN p : k = 1 \/ p[k - 1] # p[k]}

Contiguous(p) == Cardinality(Runs(p)) = Cardinality(Range(p))
=============================================================================
