------------------------------ MODULE Summaries ------------------------------
(***************************************************************************)
(* The one node that stands for a tier of a domain in everything decided    *)
(* from a summary: the coordinator's domain summaries (mdo/observation.py)  *)
(* and the topology Agent B is shown (llm/abstract_topology.py) report it   *)
(* by the same rule.                                                        *)
(***************************************************************************)
EXTENDS Substrate

CONSTANTS CpuRef, RamRef   \* MDO_HEADROOM_CPU_REF, MDO_HEADROOM_RAM_REF

ASSUME ReferenceAssumption == CpuRef \in Nat \ {0} /\ RamRef \in Nat \ {0}

\* min(cpu / CPU_REF, ram / RAM_REF), times both references.
Fit(residual, n) ==
  Min({residual[<<n, "cpu">>] * RamRef, residual[<<n, "ram">>] * CpuRef})

\* The node whose residuals stand for tier t of domain d.
Reported(residual, d, t) ==
  LET ns == {n \in NodesIn(d) : TierOf[n] = t}
  IN  CHOOSE n \in ns : \A m \in ns : Fit(residual, m) <= Fit(residual, n)
=============================================================================
