------------------------------- MODULE Memory -------------------------------
(***************************************************************************)
(* The episodic memory (src/orion/llm/episodic_memory.py) and the two loops *)
(* that fill it: the warm-up of scripts/grid_runner.py                      *)
(* (grid_memory_instance) and the evaluation that goes on writing           *)
(* (--mb-mode accumulate), which consults it only when the plan cache has   *)
(* no plan.                                                                 *)
(*                                                                         *)
(* The memory holds its entries twice: in a list of its own and in the one  *)
(* its retrieval pipeline searches.  The network is the set of slices that  *)
(* are on; what the planner answers and the coordinator decides is left     *)
(* open.                                                                    *)
(***************************************************************************)
EXTENDS Retrieval, SequencesExt

CONSTANTS
  Kinds,          \* what the text of two requests agrees on
  Stream,         \* the arrivals' kinds, warm-up first
  WarmUpLength,   \* how many of them are the warm-up's
  Congested,      \* active slices from which the network is congested
  WarmLevel, EvalLevel,
  Capacity,       \* max_entries
  EvictShare,     \* one entry in so many goes (10)
  TopK,           \* 3
  PoolFactor, MinPool,
  TaskWeight,     \* what agreeing texts score
  StateWeight,    \* what an agreeing level or bucket scores
  Floor,          \* RETRIEVAL_FLOOR, on the scale of task and state
  LegacyFloor,    \* RETRIEVAL_FLOOR_LEGACY, on the scale of the task
  WritePolicies, EvictPolicies, Modes

ASSUME MemoryAssumption ==
  /\ Stream \in Seq(Kinds) /\ WarmUpLength \in 0..Len(Stream)
  /\ {Congested, Capacity, EvictShare, TopK, PoolFactor, MinPool} \subseteq Nat \ {0}
  /\ {TaskWeight, StateWeight, Floor, LegacyFloor} \subseteq Nat
  /\ WritePolicies \subseteq {"selective", "write_all"}
  /\ EvictPolicies \subseteq {"importance", "fifo"}
  /\ Modes \subseteq {"frozen", "accumulate"}

VARIABLES
  policy,     \* [write, evict, mode]
  phase,      \* "warm" or "eval"
  pc,         \* where the arrival in hand is, or "idle"
  arrival,    \* its number
  active,     \* slices that are on
  condition,  \* what was read for it, before the plan
  plans,      \* keys the plan cache of the evaluation has a plan for
  pending,    \* what _accumulating keeps between plan and outcome
  entries,    \* the memory's list
  index,      \* the pipeline's list, of entry ids
  clock,      \* of accesses
  answer,     \* the last retrieval
  seen,       \* history: the network each arrival found
  held        \* history: the arrivals that stayed on

store == <<entries, index, clock>>
vars == <<policy, phase, pc, arrival, active, condition, plans, pending, store, answer,
          seen, held>>

Kind == Stream[arrival]
None == [none |-> TRUE]
NoAnswer == [kind |-> None, condition |-> None, from |-> <<>>, out |-> <<>>]

(***************************************************************************)
(* compute_condition_signature and condition_similarity: the load level and *)
(* how full the network is.                                                 *)
(***************************************************************************)
Bucket(on) == IF Cardinality(on) >= Congested THEN "tight" ELSE "free"
Level == IF phase = "warm" THEN WarmLevel ELSE EvalLevel
Signature == [level |-> Level, bucket |-> Bucket(active)]
Agreeing(a, b) == Cardinality({f \in {"level", "bucket"} : a[f] = b[f]})

(***************************************************************************)
(* Writing.  An entry that is looked up changes in both lists.              *)
(***************************************************************************)
\* _should_record.  The callers' reward is 1 or -1.
ShouldRecord(reward, violated) == violated \/ reward >= 1 \/ reward <= -1

Entry(label, cond) ==
  [id |-> arrival, kind |-> Kind, condition |-> cond, last |-> clock, count |-> 0,
   tags |-> [label |-> {label}, slice_type |-> {Kind}]]

\* By importance, which grows with the last access and with the accesses: how
\* the two weigh against each other is left open.
Weaker(list, i, j) ==
  /\ list[i].last <= list[j].last /\ list[i].count <= list[j].count
  /\ \/ list[i].last < list[j].last
     \/ list[i].count < list[j].count
     \/ i < j

Victims(list) ==
  LET n == Most(1, Len(list) \div EvictShare)
  IN  IF policy.evict = "fifo" THEN {1..n}
      ELSE {gone \in kSubset(n, DOMAIN list) :
              \A i \in gone, j \in DOMAIN list \ gone : ~Weaker(list, j, i)}

Without(list, gone) == Picked(list, DOMAIN list \ gone)

Indexed_Left(ids, gone) == ids
\* remove_entry, for each of them.
Indexed(ids, gone) == Picked(ids, {i \in DOMAIN ids : ids[i] \notin gone})

Evict(list, ids) ==
  \E gone \in Victims(list) :
    /\ entries' = Without(list, gone)
    /\ index' = Indexed(ids, {list[i].id : i \in gone})

Label(ok, violated) == IF ok /\ ~violated THEN "success" ELSE "failure"

\* write_to_mb and record.
Record(ok, violated, cond) ==
  IF policy.write = "selective" /\ ~ShouldRecord(IF ok THEN 1 ELSE -1, violated)
  THEN UNCHANGED store
  ELSE LET list == Append(entries, Entry(Label(ok, violated), cond))
           ids == Append(index, arrival)
       IN  /\ clock' = clock + 1
           /\ IF Len(list) > Capacity THEN Evict(list, ids)
              ELSE entries' = list /\ index' = ids

(***************************************************************************)
(* Reading.                                                                *)
(***************************************************************************)
TaskFit(kind, e) == IF e.kind = kind THEN TaskWeight ELSE 0

\* The query's text also names the condition, when there is one.
TextFit(kind, cond, e) ==
  TaskFit(kind, e) + (IF cond = None THEN 0 ELSE Agreeing(cond, e.condition))

Combined(kind, cond, e) ==
  TaskFit(kind, e) + (IF cond = None THEN 0 ELSE StateWeight * Agreeing(cond, e.condition))

FloorFor(cond) == IF cond = None THEN LegacyFloor ELSE Floor

PoolSize_TopK == TopK
PoolSize == Most(TopK * PoolFactor, MinPool)

IsExample(e) == "success" \in e.tags.label

NoFilters == [key \in {} |-> {}]
Pooled(kind, cond) ==
  LET at(id) == CHOOSE e \in Range(entries) : e.id = id
      searched == [i \in DOMAIN index |-> at(index[i])]
      fit == [e \in Range(searched) |-> TextFit(kind, cond, e)]
      pool == Retrieved(searched, NoFilters, fit, PoolSize)
  IN  Picked(pool, {i \in DOMAIN pool : IsExample(pool[i])})

Kept(kind, cond) ==
  LET pool == Pooled(kind, cond)
      score == [e \in Range(pool) |-> Combined(kind, cond, e)]
      ranked == BestFirst(pool, score)
  IN  Cut(Picked(ranked, {i \in DOMAIN ranked : score[ranked[i]] >= FloorFor(cond)}), TopK)

\* update_access, in the order of the answer.
Touched(list, out) ==
  [i \in DOMAIN list |->
     IF \E k \in DOMAIN out : out[k].id = list[i].id
     THEN LET k == CHOOSE k \in DOMAIN out : out[k].id = list[i].id
          IN  [list[i] EXCEPT !.last = clock + k - 1, !.count = @ + 1]
     ELSE list[i]]

\* retrieve
Retrieve(kind, cond) ==
  LET out == Kept(kind, cond)
  IN  /\ answer' = [kind |-> kind, condition |-> cond, from |-> entries, out |-> out]
      /\ entries' = Touched(entries, out)
      /\ clock' = clock + Len(out)
      /\ UNCHANGED index

(***************************************************************************)
(* One arrival, in the warm-up (grid_memory_instance) and in the evaluation *)
(* (_handle_arrival).                                                       *)
(***************************************************************************)
Init ==
  /\ policy \in [write : WritePolicies, evict : EvictPolicies, mode : Modes]
  /\ phase = "warm" /\ pc = "idle" /\ arrival = 0 /\ active = {} /\ condition = None
  /\ plans = {} /\ pending = {} /\ entries = <<>> /\ index = <<>> /\ clock = 0
  /\ answer = NoAnswer /\ seen = <<>> /\ held = {}

PhaseEnd == IF phase = "warm" THEN WarmUpLength ELSE Len(Stream)

\* Departures up to the next arrival, and the condition it finds.
Arrive ==
  /\ pc = "idle" /\ arrival < PhaseEnd
  /\ \E gone \in SUBSET active : active' = active \ gone
  /\ arrival' = arrival + 1 /\ pc' = "plan"
  /\ condition' = [level |-> Level, bucket |-> Bucket(active')]
  /\ seen' = Append(seen, condition')
  /\ answer' = NoAnswer
  /\ UNCHANGED <<policy, phase, plans, pending, store, held>>

Key == [kind |-> Kind, bucket |-> condition.bucket]

\* A plan of the cache: neither the memory nor _accumulating hears of it.
PlanFromCache ==
  /\ pc = "plan" /\ phase = "eval" /\ Key \in plans
  /\ pc' = "decide"
  /\ UNCHANGED <<policy, phase, arrival, active, condition, plans, pending, store, answer,
                 seen, held>>

\* The warm-up's retrieval gives no condition; the evaluation's does.
Consult == Retrieve(Kind, IF phase = "warm" THEN None ELSE condition)

PlanMade ==
  /\ pc = "plan" /\ ~(phase = "eval" /\ Key \in plans) /\ Consult
  /\ pc' = "decide"
  /\ IF phase = "warm" THEN UNCHANGED <<plans, pending>>
     ELSE /\ plans' = plans \cup {Key}
          /\ pending' = IF policy.mode = "accumulate"
                        THEN pending \cup {[id |-> arrival, condition |-> condition]}
                        ELSE pending
  /\ UNCHANGED <<policy, phase, arrival, active, condition, seen, held>>

\* The planner gives no plan that passes its check, which the warm-up records as
\* a failure, or one that makes no summary, which it does not.
PlanFails ==
  /\ pc = "plan" /\ ~(phase = "eval" /\ Key \in plans) /\ Consult
  /\ IF phase = "warm" THEN pc' \in {"failed", "idle"} /\ UNCHANGED pending
     ELSE pc' = "idle" /\ pending' = {p \in pending : p.id # arrival}
  /\ UNCHANGED <<policy, phase, arrival, active, condition, plans, seen, held>>

RecordFailure ==
  /\ pc = "failed"
  /\ pc' = "idle"
  /\ \E violated \in BOOLEAN : Record(FALSE, violated, condition)
  /\ UNCHANGED <<policy, phase, arrival, active, condition, plans, pending, answer, seen,
                 held>>

\* The coordinator commits, and the placement is allocated.
Commit ==
  /\ pc = "decide"
  /\ active' = active \cup {arrival} /\ pc' = "verify"
  /\ UNCHANGED <<policy, phase, arrival, condition, plans, pending, store, answer, seen,
                 held>>

\* The coordinator's refusal, or a commit no placement can be built for.
Refuse ==
  /\ pc = "decide"
  /\ pc' = "refused"
  /\ UNCHANGED <<policy, phase, arrival, active, condition, plans, pending, store, answer,
                 seen, held>>

\* The verifier lets it be, or takes it off again.
Verify ==
  /\ pc = "verify"
  /\ \/ pc' = "kept" /\ held' = held \cup {arrival} /\ UNCHANGED active
     \/ pc' = "refused" /\ active' = active \ {arrival} /\ UNCHANGED held
  /\ UNCHANGED <<policy, phase, arrival, condition, plans, pending, store, answer, seen>>

ConditionOf_Now(noted) == Signature
\* The condition an outcome is recorded under.
ConditionOf(noted) == noted

\* The record of the outcome: on_decision in the evaluation.
RecordOutcome ==
  /\ pc \in {"kept", "refused"}
  /\ pc' = "idle"
  /\ \E violated \in IF pc = "kept" THEN {FALSE} ELSE BOOLEAN :
       LET mine == {p \in pending : p.id = arrival}
       IN  CASE phase = "warm" -> Record(pc = "kept", violated, ConditionOf(condition))
             [] phase = "eval" /\ mine = {} -> UNCHANGED store
             [] OTHER -> \E p \in mine :
                           Record(pc = "kept", violated, ConditionOf(p.condition))
  /\ pending' = {p \in pending : p.id # arrival}
  /\ UNCHANGED <<policy, phase, arrival, active, condition, plans, answer, seen, held>>

\* The warmed store is saved; the evaluation loads a copy of it, on an empty
\* network and with an empty plan cache.
StartEvaluation ==
  /\ phase = "warm" /\ pc = "idle" /\ arrival = WarmUpLength
  /\ phase' = "eval" /\ active' = {}
  /\ index' = [i \in DOMAIN entries |-> entries[i].id]
  /\ UNCHANGED <<policy, pc, arrival, condition, plans, pending, entries, clock, answer,
                 seen, held>>

Next ==
  \/ Arrive \/ PlanFromCache \/ PlanMade \/ PlanFails \/ RecordFailure
  \/ Commit \/ Refuse \/ Verify \/ RecordOutcome \/ StartEvaluation

Spec == Init /\ [][Next]_vars

(***************************************************************************)
(* Properties.                                                             *)
(***************************************************************************)
\* The list and the pipeline's list hold the same entries in the same order,
\* never more than the capacity (episodic_memory.py: record, _evict, load).
StoreAgrees ==
  /\ index = [i \in DOMAIN entries |-> entries[i].id]
  /\ IsInjective(index)
  /\ Len(entries) <= Capacity

\* What an entry says is what happened: the condition its arrival found, not
\* the one its own admission made, and a success exactly if the slice stayed on
\* after the verification (the reason for _accumulating's two halves, and for
\* calling on_decision after the verification).
EpisodesTrue ==
  \A e \in Range(entries) :
    /\ e.condition = seen[e.id]
    /\ IsExample(e) <=> e.id \in held

\* The planner is only shown successes at or above the floor of the scale they
\* were scored on, the best first and at most TopK; and as long as the pool
\* holds the whole store it is shown as many as there are, up to TopK
\* (the widened pool of episodic_memory.py retrieve and of pipeline.py _k).
ExemplarsSound ==
  LET score(e) == Combined(answer.kind, answer.condition, e)
      floor == IF answer.condition = None THEN LegacyFloor ELSE Floor
      fit == {e \in Range(answer.from) : e.id \in held /\ score(e) >= floor}
      least(n) == IF n < TopK THEN n ELSE TopK
  IN  /\ Range(answer.out) \subseteq fit
      /\ Len(answer.out) <= TopK
      /\ \A i, j \in DOMAIN answer.out :
           i < j => score(answer.out[i]) >= score(answer.out[j])
      /\ Len(answer.from) <= Most(TopK * PoolFactor, MinPool) =>
           Len(answer.out) = least(Cardinality(fit))
=============================================================================
