---------------------------- MODULE PlanBuilders ----------------------------
(***************************************************************************)
(* The plan builders of scripts/partial_obs_prior.py and the repairs that   *)
(* hold a planner's partition to the same tests (repair_plan there, and     *)
(* mdo/admissibility.py).  Four of them walk the chain from left to right   *)
(* with running estimates of what each domain has left:                     *)
(*                                                                         *)
(*   partial    partial_obs_builder: every VNF to the domain with most room *)
(*   greedy     _fullobs_greedy: the same, whatever room is left            *)
(*   guard      repair_plan: moves only a VNF its domain does not admit;    *)
(*              full and colo first try one domain for the whole chain      *)
(*   postdecode repair_partition: as guard, but not into a domain the chain *)
(*              has left                                                   *)
(*                                                                         *)
(* and fullobs, oracle and exact enumerate.  A step is one VNF of the walk. *)
(***************************************************************************)
EXTENDS Partitioning, Sequences

CONSTANTS
  Slices,      \* slice requests that may arrive: vnfs, bw and maxDelay
  Residuals,   \* residuals of the substrate an arrival may find
  Programs,    \* which of the builders and repairs run
  GuardModes,  \* settings of ORION_PARTIAL_GUARD: "full", "modal", "obsenc", "off"
  NoPlan       \* None

Walkers == {"partial", "greedy"}
Repairs == {"guard", "full", "colo", "postdecode", "exact"}
Builders == Walkers \cup {"fullobs", "oracle"}

VnfType == [cpu: Nat, ram: Nat, intensity: Nat, permitted: SUBSET Nodes]

ASSUME BuildersAssumption ==
  /\ Slices \subseteq [vnfs: Seq(VnfType), bw: Seq(Nat), maxDelay: Nat]
  /\ \A s \in Slices : Len(s.vnfs) > 0 /\ Len(s.bw) = Len(s.vnfs) - 1
  /\ Residuals \subseteq [Cells -> Nat]
  /\ Programs \subseteq Builders \cup Repairs
  /\ GuardModes \subseteq {"full", "modal", "obsenc", "off"}
  /\ NoPlan \notin Seq(Domains \cup {NoDomain})

VARIABLES
  residual,    \* the substrate's residuals, only read
  slice,       \* the arrival
  program,     \* which builder or repair is running
  guardMode,   \* the setting it runs under
  authored,    \* for a repair: the domains the planner or the policy chose
  pc,          \* "start", "walk" or "done"
  chosen,      \* domains of the VNFs walked so far
  est,         \* est_cpu and est_ram
  cur,         \* domain of the run in progress, or NoDomain
  closed,      \* domains the chain has left
  plan         \* suggested_domains of the result, or NoPlan

inputs == <<residual, slice, program, guardMode, authored>>
vars == <<inputs, pc, chosen, est, cur, closed, plan>>

chain == slice.vnfs
next == Len(chosen) + 1

\* The tests in force: the repairs of admissibility.py have their own copy of
\* the h^m guard, which ignores ORION_PARTIAL_GUARD.
Guard == IF program \in {"postdecode", "exact"} THEN "full" ELSE guardMode
Admissible(k, d) == Admits(Guard, residual, chain, k, d)

Authorable(s) == [1 .. Len(s.vnfs) -> Domains \cup {NoDomain}]

Init ==
  /\ residual \in Residuals
  /\ slice \in Slices
  /\ program \in Programs
  /\ guardMode \in GuardModes
  /\ authored \in IF program \in Repairs THEN Authorable(slice) ELSE {<<>>}
  /\ pc = "start"
  /\ chosen = <<>> /\ est = Aggregate(residual)
  /\ cur = NoDomain /\ closed = {}
  /\ plan = NoPlan

Answer(p) ==
  /\ pc' = "done"
  /\ plan' = p
  /\ UNCHANGED <<inputs, chosen, est, cur, closed>>

-----------------------------------------------------------------------------
(***************************************************************************)
(* Before the walk.                                                        *)
(***************************************************************************)
StructuralReject ==
  \E k \in DOMAIN chain : \A d \in Summarised : UsableTiers(chain[k], d) = {}

\* colocation_candidate, hosts_whole_chain: room for the whole chain, and some.
Everywhere(d) == [k \in DOMAIN chain |-> d]
Slack(d) ==
  Min({Aggregate(residual)[<<d, q>>] - Demand(chain, Everywhere(d), d, q) : q \in Kinds})
HostsWholeChain(d) ==
  (\A k \in DOMAIN chain : Admissible(k, d)) /\ Slack(d) > 0
WholeChainHosts == {d \in Summarised : HostsWholeChain(d)}

\* A repair mode that prefers one domain for the whole chain, and what it
\* leaves alone.
Collapsible ==
  /\ WholeChainHosts # {}
  /\ \/ program = "full" /\ Spread(authored) > 1
     \/ program = "colo"

\* None without a domain for every VNF; a repair leaves such a plan as it is,
\* and one that names a domain it does not know.
Decline ==
  /\ pc = "start"
  /\ \/ /\ program \in Builders
        /\ StructuralReject
        /\ Answer(NoPlan)
     \/ /\ program \in {"guard", "full", "colo"}
        /\ StructuralReject \/ NoDomain \in Range(authored)
        /\ Answer(authored)

Enumerate ==
  /\ pc = "start"
  /\ \/ /\ program = "exact"
        /\ Answer(ExactRepair(residual, chain, authored))
     \/ /\ program \in {"fullobs", "oracle"}
        /\ ~StructuralReject
        /\ Answer(IF CommittableOnes(guardMode, residual, chain) = {} THEN NoPlan
                  ELSE IF program = "oracle" THEN Oracle(guardMode, residual, slice)
                  ELSE FullObs(guardMode, residual, slice))

\* Mutant: the current host is kept if the domain admits each VNF by itself.
Collapse_KeepsFullHost ==
  /\ pc = "start"
  /\ ~StructuralReject /\ NoDomain \notin Range(authored)
  /\ Collapsible
  /\ IF Spread(authored) = 1 /\ \A k \in DOMAIN chain : Admissible(k, authored[1])
     THEN Answer(authored)
     ELSE \E d \in WholeChainHosts :
            /\ \A e \in WholeChainHosts : Slack(e) <= Slack(d)
            /\ Answer(Everywhere(d))
\* The whole chain to the domain with most room, the first of equals.
Collapse ==
  /\ pc = "start"
  /\ ~StructuralReject /\ NoDomain \notin Range(authored)
  /\ Collapsible
  /\ IF Spread(authored) = 1 /\ HostsWholeChain(authored[1])
     THEN Answer(authored)
     ELSE \E d \in WholeChainHosts :
            /\ \A e \in WholeChainHosts \ {d} :
                 Slack(e) < Slack(d) \/ (Slack(e) = Slack(d) /\ Before(d, e))
            /\ Answer(Everywhere(d))

BeginWalk ==
  /\ pc = "start"
  /\ \/ program \in Walkers /\ ~StructuralReject
     \/ /\ program \in {"guard", "full", "colo"}
        /\ ~StructuralReject /\ NoDomain \notin Range(authored)
        /\ ~Collapsible
     \/ program = "postdecode"
  /\ pc' = "walk"
  /\ UNCHANGED <<inputs, chosen, est, cur, closed, plan>>

-----------------------------------------------------------------------------
(***************************************************************************)
(* The walk.                                                               *)
(***************************************************************************)
Room(k, d) == Min({est[<<d, q>>] - chain[k][q] : q \in Kinds})

KeepsContiguous == program \in Walkers \cup {"postdecode"}

\* Mutant: a domain the chain has left is open again.
Candidates_Reopen(k) == {d \in Summarised : Admissible(k, d)}
Candidates(k) ==
  {d \in Summarised : Admissible(k, d) /\ (KeepsContiguous => d \notin closed)}

\* max(cands), if it leaves room: most room, the last in canonical order among
\* equals.  At most one domain.
Takers(k) ==
  {d \in Candidates(k) :
     /\ program = "greedy" \/ Room(k, d) > 0
     /\ \A e \in Candidates(k) \ {d} :
          Room(k, e) < Room(k, d) \/ (Room(k, e) = Room(k, d) /\ Before(e, d))}

\* Mutant: the estimates are not debited.
Seat_NoDebit(d) ==
  /\ chosen' = Append(chosen, d)
  /\ cur' = d
  /\ closed' = IF cur \in {NoDomain, d} THEN closed ELSE closed \cup {cur}
  /\ UNCHANGED <<inputs, pc, plan, est>>
\* VNF `next` goes to d: the run before it is closed, d's estimates debited.
Seat(d) ==
  /\ chosen' = Append(chosen, d)
  /\ cur' = d
  /\ closed' = IF cur \in {NoDomain, d} THEN closed ELSE closed \cup {cur}
  /\ est' = [c \in DOMAIN est |-> IF c[1] = d THEN est[c] - chain[next][c[2]] ELSE est[c]]
  /\ UNCHANGED <<inputs, pc, plan>>

Walking == pc = "walk" /\ next <= Len(chain)

SeatBest ==
  /\ Walking /\ program \in Walkers
  /\ \E d \in Takers(next) : Seat(d)

GiveUp ==
  /\ Walking /\ program \in Walkers
  /\ Takers(next) = {}
  /\ Answer(NoPlan)

\* repair_partition skips a domain no summary carries, and the run goes on.
SkipUnknown ==
  /\ Walking /\ program = "postdecode"
  /\ authored[next] = NoDomain
  /\ chosen' = Append(chosen, NoDomain)
  /\ UNCHANGED <<inputs, pc, est, cur, closed, plan>>

\* What its domain admits stays, wherever the chain has been.
KeepAuthored ==
  /\ Walking /\ program \in Repairs
  /\ authored[next] # NoDomain
  /\ Admissible(next, authored[next])
  /\ Seat(authored[next])

MoveVnf ==
  /\ Walking /\ program \in Repairs
  /\ authored[next] # NoDomain
  /\ ~Admissible(next, authored[next])
  /\ \E d \in IF Takers(next) # {} THEN Takers(next) ELSE {authored[next]} : Seat(d)

FinishWalk ==
  /\ pc = "walk"
  /\ next > Len(chain)
  /\ Answer(chosen)

Next ==
  \/ Decline \/ Enumerate \/ Collapse \/ BeginWalk
  \/ SeatBest \/ GiveUp
  \/ SkipUnknown \/ KeepAuthored \/ MoveVnf
  \/ FinishWalk

Spec == Init /\ [][Next]_vars

-----------------------------------------------------------------------------
(***************************************************************************)
(* Properties.                                                             *)
(***************************************************************************)
Built == pc = "done" /\ program \in Builders /\ plan # NoPlan
Repaired == pc = "done" /\ program \in Repairs

\* What a builder proposes is committable on the summaries it was built from:
\* no domain entered twice, every VNF admitted, and together within what each
\* domain has left.  _fullobs_greedy looks at room only to rank domains.
BuilderPlanCommittable ==
  Built /\ program # "greedy" => Committable(guardMode, residual, chain, plan)

\* A walk that closes the domain it leaves satisfies C10, whatever it picks.
WalkPlansContiguous ==
  Built /\ program \in Walkers => Contiguous(plan)

\* The repairs the coordinator may run on the final partition leave a plan of
\* the builders alone ("moved is 0 for them", admissibility.py:37).
GuardsKeepBuilderPlans ==
  Built /\ program # "greedy" /\ guardMode \in {"full", "modal"} =>
    /\ ExactRepair(residual, chain, plan) = plan
    /\ \A k \in DOMAIN plan : Admits("full", residual, chain, k, plan[k])

\* "The oracle dominates by construction" (partition_oracle.py:121): an arrival
\* the full-observability builder can serve in budget, the oracle can, over no
\* more domains.
OracleDominates ==
  Built /\ program = "fullobs" =>
    LET best == Oracle(guardMode, residual, slice)
    IN  InBudget(residual, slice, plan) =>
          InBudget(residual, slice, best) /\ Spread(best) <= Spread(plan)

\* A VNF that a repair moves is admitted where it goes, and there is room for
\* it beside all VNFs the repair had put there before it.
MovesFit ==
  Repaired => \A k \in DOMAIN plan :
    plan[k] # authored[k] =>
      /\ Admissible(k, plan[k])
      /\ \A q \in Kinds :
           Demand(chain, SubSeq(plan, 1, k), plan[k], q) <= Aggregate(residual)[<<plan[k], q>>]

\* A VNF that is moved does not go back to a domain the chain has left.
ReentersAt(p, k) ==
  \E i \in 1 .. k - 1, j \in 1 .. k - 1 :
    i < j /\ p[i] = p[k] /\ p[j] \notin {p[k], NoDomain}

\* repair_partition moves no VNF into a domain the chain has left, although what
\* it keeps may lie anywhere (admissibility.py).
PassNeverReenters ==
  Repaired /\ program = "postdecode" =>
    \A k \in DOMAIN plan : plan[k] # authored[k] => ~ReentersAt(plan, k)

\* Where the walk reaches a committable partition, the exact repair, if its
\* budget lets it enumerate, reaches one too and changes no more of what was
\* authored.
ExactBeatsWalk ==
  Repaired /\ program = "postdecode" /\ NoDomain \notin Range(authored)
    /\ Enumerable(chain) =>
    LET exact == ExactRepair(residual, chain, authored)
    IN  Committable("full", residual, chain, plan) =>
          /\ Committable("full", residual, chain, exact)
          /\ Edits(exact, authored) <= Edits(plan, authored)

\* Mode colo keeps the shape: while some domain can host the whole chain the
\* plan is one such domain, and a host that still can is kept.
ColoKeepsShape ==
  Repaired /\ program = "colo" /\ WholeChainHosts # {}
    /\ NoDomain \notin Range(authored) /\ ~StructuralReject =>
      /\ \E d \in WholeChainHosts : plan = Everywhere(d)
      /\ \A d \in WholeChainHosts : authored = Everywhere(d) => plan = authored

\* Said by the code, and refuted by it.

\* "The repair can never introduce a C10 violation" (admissibility.py:43).
RepairKeepsChainOrder ==
  Repaired /\ program = "postdecode" /\ Contiguous(authored) => Contiguous(plan)
=============================================================================
