----------------------------- MODULE GridProofs -----------------------------
(***************************************************************************)
(* Proof that the grid banks what it ran: a result says what it was run      *)
(* under, twins differ as named, the selection is sound, a whole file stays  *)
(* as it is and the entropy floor holds, for every command line, any number  *)
(* of seeds, levels, segments and rounds, and any kills and timeouts.        *)
(*                                                                         *)
(* None of this is inductive: what a cell reads it reads from globals that   *)
(* other steps set, so the invariant says, for every point of the process,   *)
(* what each global holds there (GuardInv, WiringInv), which files the       *)
(* training in hand has already replaced (CkptInv), and what has been        *)
(* collected under it (CurveInv, LoadedInv).                                 *)
(***************************************************************************)
EXTENDS Grid, FiniteSetTheorems, SequenceTheorems, WellFoundedInduction, TLAPS

TrainingPoints == {"segment", "round", "checkpoint"}
CellPoints == {"warm", "snapshot", "evaluate"}

ScoreOf == [score : Nat, on : {Validation}, by : Range(SelectionProbe), of : Int]

ShapeInv ==
  /\ TypeOK
  /\ args \in [evalOnly : EvalOnly, finalSegment : FinalSegment, leftover : Leftovers]
  /\ DOMAIN ckpt = Seeds /\ \A s \in Seeds : DOMAIN ckpt[s] = Range(Stacks)
  /\ \A s \in Seeds, k \in Range(Stacks) :
       Len(ckpt[s][k]) \in Nat /\ DOMAIN ckpt[s][k] = 1..Len(ckpt[s][k])
  /\ DOMAIN snapshot = Seeds
  /\ trainer \in [round : 0..Rounds, dual : Nat, coef : Nat, beta : Int,
                  measured : Nat \cup {-1}, from : Int]
  /\ curve \in Seq(ScoreOf)
  /\ live = [store |-> live.store, alarm |-> live.alarm, out |-> live.out, saved |-> live.saved]

\* There is a stack in hand while one is trained or loaded; --eval-only trains none.
PhaseInv ==
  /\ pc \in TrainingPoints \cup {"load"} => wanted # {}
  /\ pc \in TrainingPoints => ~args.evalOnly
  /\ pc \notin TrainingPoints => segment = 0

\* The heuristic's guard is overridden from the start of its cell to its end.
GuardFor(a) == IF a \in DOMAIN Guarded THEN Guarded[a] ELSE DefaultGuard

GuardInv ==
  /\ live.saved = DefaultGuard
  /\ guard = IF pc \in CellPoints THEN GuardFor(Approach) ELSE DefaultGuard

\* A memory that was warmed where the protocol says.
Warmed(store) == store.level = TrainingLevel /\ store # Unset

\* The memory an approach is evaluated with.
MemoryFor(a, store) ==
  IF a \in MemoryLLM /\ WarmUp THEN Warmed(store) ELSE store = Unset

\* What a cell may rely on: the stack it needs, wp7_runner's globals, its memory.
WiringInv ==
  /\ pc \in {"round", "checkpoint"} => wired = TrainWiring(Stack, segment)
  /\ pc \in CellPoints => HasStack
  /\ pc \in {"warm", "snapshot"} => Remembers
  /\ pc = "warm" => wired.level = TrainingLevel
  /\ pc = "snapshot" => Warmed(live.store)
  /\ pc = "evaluate" =>
       /\ wired.level = Levels[next[2]] /\ wired.inst = EvalInstance
       /\ MemoryFor(Approach, live.store)
  /\ \A s \in Seeds : Whole(snapshot[s]) => Warmed(snapshot[s].content)

\* The schedules, between rounds.
TrainerInv ==
  /\ pc \in {"round", "checkpoint"} /\ trainer.round > 0 =>
       trainer.beta = Beta(Stack, segment, trainer.round - 1)
  /\ pc = "checkpoint" => trainer.round = Rounds
  /\ IF trainer.measured = -1
     THEN trainer.round = 0 /\ trainer.dual = EntStart /\ trainer.coef = EntStart
     ELSE trainer.dual >= trainer.coef

\* A checkpoint is of its segment, and --eval-only leaves those of earlier trainings.
CheckpointOf(w, k, g, trains) ==
  /\ w.seg = g /\ w.under = TrainWiring(k, g) /\ w.beta = Beta(k, g, Rounds - 1)
  /\ ~trains => w.run = -1

\* The first n of these files are checkpoints of one training.
Retrained(files, n, run) ==
  \A g \in 1..n : g \in DOMAIN files /\ Whole(files[g]) /\ files[g].content.run = run

CkptInv ==
  /\ \A s \in Seeds, k \in Range(Stacks) : \A g \in DOMAIN ckpt[s][k] :
       Whole(ckpt[s][k][g]) => CheckpointOf(ckpt[s][k][g].content, k, g - 1, ~args.evalOnly)
  /\ pc \in TrainingPoints => Retrained(Checkpoints, segment, kills)
  /\ pc = "load" /\ ~args.evalOnly => Retrained(Checkpoints, Segments, kills)

\* The training all that is loaded must come from.
TrainingRun == IF args.evalOnly THEN -1 ELSE kills

CurveInv ==
  /\ pc # "load" \/ args.finalSegment => curve = <<>>
  /\ \A g \in DOMAIN curve : curve[g].of = TrainingRun

\* A stack that was selected as SelectionSound says, by a training as its name says.
SelectedSoundly(k, l, finalSegment, run) ==
  LET c == l.curve
      w == l.weights
  IN  /\ c # <<>> =>
           /\ w.seg + 1 \in DOMAIN c /\ Len(c) = Segments
           /\ \A g \in DOMAIN c :
                /\ c[g].score <= c[w.seg + 1].score
                /\ c[g].score = c[w.seg + 1].score => w.seg + 1 <= g
                /\ c[g].on = Validation /\ c[g].of = run
      /\ finalSegment => w.seg + 1 = Segments
      /\ w.seg + 1 = Segments => w.beta = 0
      /\ w.run = run
      /\ w.under = TrainWiring(k, w.seg)

LoadedInv ==
  \A k \in DOMAIN loaded : SelectedSoundly(k, loaded[k], args.finalSegment, TrainingRun)

\* A result is what the name of its cell says.
SaysWhatRan(out, c) ==
  /\ out.level = c[3] /\ out.inst = EvalInstance
  /\ out.guard = GuardFor(c[2])
  /\ out.source = PlanSource(c[2]) /\ out.executed = ExecutedBy(c[2])
  /\ c[2] \in Trained =>
       \E g : out.stack.weights.under = TrainWiring(StackFor(c[2]), g)
  /\ MemoryFor(c[2], out.store)

ResultInv ==
  /\ pc = "bank" /\ live.out.status = "ok" => SaysWhatRan(live.out, Current)
  /\ \A c \in Cell : Ok(c) => SaysWhatRan(Result(c), c)

\* A cell is run, and a memory warmed, when there is no file of it yet.
FreshInv ==
  /\ pc \in CellPoints => ~Exists(cells[Current])
  /\ pc = "bank" => ~Whole(cells[Current])
  /\ pc \in {"warm", "snapshot"} => ~Whole(snapshot[seed])

IInv ==
  /\ ShapeInv /\ PhaseInv /\ GuardInv /\ WiringInv /\ TrainerInv
  /\ CkptInv /\ CurveInv /\ LoadedInv /\ ResultInv /\ FreshInv

-----------------------------------------------------------------------------
(***************************************************************************)
(* Finite sets, sequences and the constants.                               *)
(***************************************************************************)
\* A finite set has a least element under any strict order.
LEMMA LeastExists ==
  ASSUME NEW T, IsFiniteSet(T), T # {}, NEW R,
         \A t \in T : <<t, t>> \notin R,
         \A t, u, v \in T : <<t, u>> \in R /\ <<u, v>> \in R => <<t, v>> \in R
  PROVE  \E t \in T : \A u \in T : <<u, t>> \notin R
<1>. DEFINE Below(t) == {u \in T : <<u, t>> \in R}
            Ranks == {Cardinality(Below(t)) : t \in T}
<1>1. \A t \in T : IsFiniteSet(Below(t)) /\ Cardinality(Below(t)) \in Nat
  BY FS_Subset, FS_CardinalityType
<1>2. PICK r \in Ranks : \A q \in Ranks : ~(<<q, r>> \in OpToRel(<, Nat))
  <2>1. Ranks \subseteq Nat /\ Ranks # {}
    <3>. HIDE DEF Below
    <3>. QED BY <1>1
  <2>. HIDE DEF Ranks
  <2>. QED BY <2>1, NatLessThanWellFounded, WFMin
<1>3. PICK t \in T : r = Cardinality(Below(t))
  <2>. HIDE DEF Below
  <2>. QED OBVIOUS
<1>4. \A u \in T : <<u, t>> \notin R
  <2>. SUFFICES ASSUME NEW u \in T, <<u, t>> \in R PROVE FALSE
    OBVIOUS
  <2>1. Below(u) \subseteq Below(t) /\ u \in Below(t) /\ u \notin Below(u)
    OBVIOUS
  <2>2. Cardinality(Below(u)) < Cardinality(Below(t))
    <3>. DEFINE A == Below(u)  B == Below(t)
    <3>1. A \subseteq B /\ A # B /\ IsFiniteSet(B)
      BY <2>1, <1>1
    <3>2. Cardinality(A) <= Cardinality(B) /\ (Cardinality(A) = Cardinality(B) => A = B)
      <4>. HIDE DEF A, B
      <4>. QED BY <3>1, FS_Subset
    <3>3. Cardinality(A) \in Nat /\ Cardinality(B) \in Nat
      BY <1>1
    <3>. HIDE DEF A, B
    <3>4. Cardinality(A) < Cardinality(B)
      BY <3>1, <3>2, <3>3
    <3>. QED BY <3>4 DEF A, B
  <2>3. Cardinality(Below(u)) \in Ranks /\ Cardinality(Below(u)) \in Nat /\ r \in Nat
    <3>. HIDE DEF Below
    <3>. QED BY <1>1, <1>3
  <2>. HIDE DEF Ranks, Below
  <2>4. <<Cardinality(Below(u)), r>> \notin OpToRel(<, Nat)
    BY <2>3, <1>2
  <2>. QED BY <2>2, <2>3, <2>4, <1>3 DEF OpToRel
<1>. QED BY <1>4

LEMMA LeastSeed ==
  ASSUME NEW T \in SUBSET Seeds, T # {}
  PROVE  (CHOOSE t \in T : \A u \in T : t <= u) \in T
<1>. DEFINE R == {p \in T \X T : p[1] < p[2]}
<1>1. T \subseteq Int /\ IsFiniteSet(T)
  BY ArgumentAssumption, FS_Subset
<1>2. \E t \in T : \A u \in T : <<u, t>> \notin R
  <2>1. \A t \in T : <<t, t>> \notin R
    BY <1>1
  <2>2. \A t, u, v \in T : <<t, u>> \in R /\ <<u, v>> \in R => <<t, v>> \in R
    BY <1>1
  <2>. HIDE DEF R
  <2>. QED BY <1>1, <2>1, <2>2, LeastExists
<1>3. \E t \in T : \A u \in T : t <= u
  <2>1. PICK t \in T : \A u \in T : <<u, t>> \notin R
    BY <1>2
  <2>2. \A u \in T : ~(u < t)
    BY <2>1
  <2>. QED BY <1>1, <2>2
<1>. QED BY <1>3

LEMMA SeedFacts ==
  /\ FirstSeed \in Seeds
  /\ \A s \in Seeds : LaterSeeds(s) # {} =>
       (CHOOSE t \in LaterSeeds(s) : \A u \in LaterSeeds(s) : t <= u) \in Seeds
<1>1. FirstSeed \in Seeds
  BY LeastSeed, ArgumentAssumption DEF FirstSeed
<1>2. \A s \in Seeds : LaterSeeds(s) \in SUBSET Seeds
  BY DEF LaterSeeds
<1>. QED BY <1>1, <1>2, LeastSeed

\* A segment to select exists, and it is the earliest of the best.
LEMMA EarliestFacts ==
  ASSUME NEW c \in Seq(ScoreOf), c # <<>>
  PROVE  /\ Earliest(c) \in DOMAIN c
         /\ \A h \in DOMAIN c : /\ c[h].score <= c[Earliest(c)].score
                                /\ c[h].score = c[Earliest(c)].score => Earliest(c) <= h
<1>. DEFINE T == DOMAIN c
            R == {p \in T \X T : \/ c[p[1]].score > c[p[2]].score
                                 \/ c[p[1]].score = c[p[2]].score /\ p[1] < p[2]}
<1>1. /\ Len(c) \in Nat /\ T = 1..Len(c) /\ T # {} /\ IsFiniteSet(T)
      /\ \A g \in T : c[g].score \in Nat
  <2>1. Len(c) \in Nat /\ T = 1..Len(c) /\ (\A g \in T : c[g] \in ScoreOf)
    BY LenProperties
  <2>2. Len(c) # 0
    BY EmptySeq
  <2>3. IsFiniteSet(1..Len(c))
    BY <2>1, FS_Interval
  <2>. QED BY <2>1, <2>2, <2>3 DEF ScoreOf
<1>2. \E t \in T : \A u \in T : <<u, t>> \notin R
  <2>1. \A t \in T : <<t, t>> \notin R
    BY <1>1
  <2>2. \A t, u, v \in T : <<t, u>> \in R /\ <<u, v>> \in R => <<t, v>> \in R
    BY <1>1
  <2>. HIDE DEF R
  <2>. QED BY <1>1, <2>1, <2>2, LeastExists
<1>3. \E t \in T : /\ \A h \in T : c[h].score <= c[t].score
                   /\ \A h \in 1..(t - 1) : c[h].score < c[t].score
  <2>1. PICK t \in T : \A u \in T : <<u, t>> \notin R
    BY <1>2
  <2>. DEFINE Better(h) == c[h].score > c[t].score \/ (c[h].score = c[t].score /\ h < t)
  <2>2. \A h \in T : ~Better(h)
    <3>1. \A h \in T : Better(h) => <<h, t>> \in R
      <4>. SUFFICES ASSUME NEW h \in T, Better(h) PROVE <<h, t>> \in R
        OBVIOUS
      <4>. DEFINE p == <<h, t>>
      <4>1. p \in T \X T /\ p[1] = h /\ p[2] = t
        OBVIOUS
      <4>2. c[p[1]].score > c[p[2]].score \/ (c[p[1]].score = c[p[2]].score /\ p[1] < p[2])
        BY <4>1
      <4>. HIDE DEF p
      <4>3. p \in R
        BY <4>1, <4>2
      <4>. QED BY <4>3 DEF p
    <3>. HIDE DEF R, Better
    <3>. QED BY <2>1, <3>1
  <2>3. \A h \in T : c[h].score <= c[t].score
    BY <2>2, <1>1
  <2>4. \A h \in T : h < t => c[h].score < c[t].score
    BY <2>2, <1>1
  <2>5. \A h \in 1..(t - 1) : h \in T /\ h < t
    BY <1>1
  <2>. QED BY <2>3, <2>4, <2>5
<1>4. /\ Earliest(c) \in T
      /\ \A h \in T : c[h].score <= c[Earliest(c)].score
      /\ \A h \in 1..(Earliest(c) - 1) : c[h].score < c[Earliest(c)].score
  BY <1>3 DEF Earliest
<1>5. \A h \in T : c[h].score = c[Earliest(c)].score => Earliest(c) <= h
  BY <1>1, <1>4
<1>. QED BY <1>4, <1>5

\* A function on 1..n is a sequence of that length.
LEMMA LengthOf ==
  ASSUME NEW n \in Nat, NEW f, f = [i \in 1..n |-> f[i]]
  PROVE  Len(f) = n
OBVIOUS

LEMMA OrderFacts == Len(Order) \in Nat \ {0} /\ DOMAIN Order = 1..Len(Order)
<1>. DEFINE firsts == {i \in DOMAIN Requested : \A j \in 1..(i - 1) : Requested[j] # Requested[i]}
            n == Cardinality(firsts)
<1>1. Len(Requested) \in Nat \ {0} /\ DOMAIN Requested = 1..Len(Requested)
  BY ArgumentAssumption, LenProperties, EmptySeq
<1>2. IsFiniteSet(firsts)
  <2>1. IsFiniteSet(DOMAIN Requested)
    BY <1>1, FS_Interval
  <2>2. firsts \in SUBSET DOMAIN Requested
    OBVIOUS
  <2>. HIDE DEF firsts
  <2>. QED BY <2>1, <2>2, FS_Subset
<1>3. 1 \in firsts
  BY <1>1
<1>4. n \in Nat \ {0}
  BY <1>2, <1>3, FS_CardinalityType, FS_EmptySet
<1>5. Order = [i \in 1..n |-> Order[i]]
  BY DEF Order, RequestedOrder
<1>. HIDE DEF n
<1>6. Len(Order) = n
  BY <1>4, <1>5, LengthOf
<1>. QED BY <1>4, <1>5, <1>6

LEMMA LevelsFacts == Len(Levels) \in Nat \ {0} /\ DOMAIN Levels = 1..Len(Levels)
BY ArgumentAssumption, LenProperties, EmptySeq

\* The cell in hand is one of the grid.
LEMMA CurrentInGrid ==
  ASSUME seed \in Seeds, next \in (1..Len(Order)) \X (1..Len(Levels))
  PROVE  Current \in Cell /\ Current[1] = seed /\ Current[2] = Approach /\ Current[3] = Levels[next[2]]
<1>1. next[1] \in DOMAIN Order /\ next[2] \in DOMAIN Levels
  BY OrderFacts, LevelsFacts
<1>. QED BY <1>1 DEF Current, Cell, Levelled, Approach, Range

LEMMA StackNames == Range(Stacks) = {"rl_alone", "po_prior", "llm_guided"}
BY DEF Range, Stacks

\* The stack in hand is one of those wanted.
LEMMA StackInHand ==
  ASSUME NEW stacks \in SUBSET Range(Stacks), stacks # {}
  PROVE  FirstOf(stacks) \in stacks
<1>. DEFINE First(i) == Stacks[i] \in stacks /\ \A j \in 1..(i - 1) : Stacks[j] \notin stacks
<1>1. /\ DOMAIN Stacks = {1, 2, 3}
      /\ Stacks[1] = "rl_alone" /\ Stacks[2] = "po_prior" /\ Stacks[3] = "llm_guided"
  BY DEF Stacks
<1>2. Stacks[1] \in stacks \/ Stacks[2] \in stacks \/ Stacks[3] \in stacks
  BY <1>1, StackNames
<1>3. \E i \in DOMAIN Stacks : First(i)
  <2>1. CASE Stacks[1] \in stacks
    BY <2>1, <1>1
  <2>2. CASE Stacks[1] \notin stacks /\ Stacks[2] \in stacks
    <3>1. \A j \in 1..(2 - 1) : j = 1
      OBVIOUS
    <3>. QED BY <2>2, <3>1, <1>1
  <2>3. CASE Stacks[1] \notin stacks /\ Stacks[2] \notin stacks
    <3>1. \A j \in 1..(3 - 1) : j = 1 \/ j = 2
      OBVIOUS
    <3>. QED BY <2>3, <3>1, <1>1, <1>2
  <2>. QED BY <2>1, <2>2, <2>3
<1>. QED BY <1>3 DEF FirstOf

LEMMA ScheduleFacts ==
  /\ \A r \in 0..(Rounds - 1) : EntSchedule(r) \in Nat
  /\ EntSchedule(0) = EntStart
<1>1. Rounds - 1 \in Nat \ {0} /\ EntStart \in Nat /\ EntFloor \in Nat /\ EntFloor <= EntStart
  BY TrainingAssumption
<1>2. \A a \in Nat, b \in Nat \ {0} : (a * b) \div b = a
  OBVIOUS
<1>3. \A a \in Nat, b \in Nat \ {0} : a \div b \in Nat
  OBVIOUS
<1>4. \A a \in Nat, b \in Nat : a * b \in Nat
  OBVIOUS
<1>5. ASSUME NEW r \in 0..(Rounds - 1) PROVE EntSchedule(r) \in Nat
  <2>1. Rounds - 1 - r \in Nat
    BY <1>1
  <2>2. EntStart * (Rounds - 1 - r) \in Nat
    BY <1>1, <1>4, <2>1
  <2>3. (EntStart * (Rounds - 1 - r)) \div (Rounds - 1) \in Nat
    BY <1>1, <1>3, <2>2
  <2>. QED BY <1>1, <2>3 DEF EntSchedule, Larger
<1>6. EntSchedule(0) = EntStart
  <2>1. Rounds - 1 - 0 = Rounds - 1
    BY <1>1
  <2>2. (EntStart * (Rounds - 1)) \div (Rounds - 1) = EntStart
    BY <1>1, <1>2
  <2>3. EntSchedule(0) = Larger(EntFloor, EntStart)
    BY <2>1, <2>2 DEF EntSchedule
  <2>. QED BY <1>1, <2>3 DEF Larger
<1>. QED BY <1>5, <1>6

\* The prior is annealed away by the last round of the last segment.
LEMMA PriorEnds == \A k : Beta(k, Segments - 1, Rounds - 1) = 0
<1>1. Segments - (Segments - 1) = 1 /\ Rounds - 1 \in Nat
  BY TrainingAssumption
<1>. QED BY <1>1 DEF Beta

LEMMA BetaType ==
  ASSUME NEW k, NEW i \in Int, NEW r \in Int
  PROVE  Beta(k, i, r) \in Int
<1>1. Segments - i \in Int /\ Rounds - 1 \in Int
  BY TrainingAssumption
<1>2. (Segments - i) * (Rounds - 1) \in Int
  BY <1>1
<1>. QED BY <1>2 DEF Beta

LEMMA WiringType ==
  ASSUME NEW k, NEW g \in Int
  PROVE  /\ TrainWiring(k, g) \in Wiring
         /\ TrainWiring(k, g).builder = Curriculum(k).builder
         /\ TrainWiring(k, g).train = Curriculum(k).train
         /\ TrainWiring(k, g).fixed = Curriculum(k).fixed
<1>1. /\ Curriculum(k).builder \in {"none", "partial_obs"}
      /\ Curriculum(k).train \in {"sample", "advised_sample"}
      /\ Curriculum(k).fixed \in BOOLEAN
  BY DEF Curriculum
<1>. QED BY <1>1 DEF TrainWiring, Wiring, TrainInstance

\* The approaches with a memory run under no guard of their own.
LEMMA GuardNames == DOMAIN Guarded \cap MemoryLLM = {}
BY DEF Guarded, MemoryLLM, OfFull

-----------------------------------------------------------------------------
(***************************************************************************)
(* The steps.                                                              *)
(***************************************************************************)
LEMMA InitInv == Init => IInv
<1>. SUFFICES ASSUME Init PROVE IInv
  OBVIOUS
<1>1. /\ args \in [evalOnly : EvalOnly, finalSegment : FinalSegment, leftover : Leftovers]
      /\ args.leftover \in Nat
  BY ArgumentAssumption DEF Init
<1>2. /\ DOMAIN ckpt = Seeds /\ \A s \in Seeds : DOMAIN ckpt[s] = Range(Stacks)
      /\ \A s \in Seeds, k \in Range(Stacks) :
           /\ Len(ckpt[s][k]) = args.leftover /\ DOMAIN ckpt[s][k] = 1..args.leftover
           /\ \A g \in 1..args.leftover :
                ckpt[s][k][g] = File([run |-> -1, seg |-> g - 1, beta |-> Beta(k, g - 1, Rounds - 1),
                                      under |-> TrainWiring(k, g - 1)])
  BY <1>1, LengthOf DEF Init
<1>3. \A s \in Seeds, k \in Range(Stacks) : \A g \in DOMAIN ckpt[s][k] :
        /\ ckpt[s][k][g].content \in WeightsOf
        /\ CheckpointOf(ckpt[s][k][g].content, k, g - 1, ~args.evalOnly)
  <2>. SUFFICES ASSUME NEW s \in Seeds, NEW k \in Range(Stacks), NEW g \in 1..args.leftover
                PROVE  /\ ckpt[s][k][g].content \in WeightsOf
                       /\ CheckpointOf(ckpt[s][k][g].content, k, g - 1, ~args.evalOnly)
    BY <1>2
  <2>. DEFINE w == [run |-> -1, seg |-> g - 1, beta |-> Beta(k, g - 1, Rounds - 1),
                    under |-> TrainWiring(k, g - 1)]
  <2>1. ckpt[s][k][g].content = w
    <3>1. ckpt[s][k][g] = File(w)
      BY <1>2
    <3>. HIDE DEF w
    <3>. QED BY <3>1 DEF File
  <2>2. /\ g - 1 \in Nat /\ Rounds - 1 \in Int /\ -1 \in -1..MaxKills
    BY <1>1, TrainingAssumption, ArgumentAssumption
  <2>3. Beta(k, g - 1, Rounds - 1) \in Int /\ TrainWiring(k, g - 1) \in Wiring
    BY <2>2, BetaType, WiringType
  <2>. QED BY <2>1, <2>2, <2>3 DEF WeightsOf, CheckpointOf
<1>4. ShapeInv
  <2>1. TypeOK
    <3>1. next \in (1..Len(Order)) \X (1..Len(Levels))
      BY OrderFacts, LevelsFacts DEF Init
    <3>2. /\ segment \in 0..(Segments - 1) /\ Len(curve) <= Segments /\ DOMAIN loaded = {}
          /\ kills \in 0..MaxKills /\ timeouts \in 0..MaxTimeouts
      BY TrainingAssumption, ArgumentAssumption DEF Init
    <3>. QED BY <1>3, <3>1, <3>2, SeedFacts DEF Init, TypeOK, Absent
  <2>2. trainer \in [round : 0..Rounds, dual : Nat, coef : Nat, beta : Int,
                     measured : Nat \cup {-1}, from : Int]
    BY TrainingAssumption DEF Init, NoTrainer, NewTrainer, Scratch
  <2>3. curve \in Seq(ScoreOf)
    BY EmptySeq DEF Init
  <2>. QED BY <1>1, <1>2, <2>1, <2>2, <2>3 DEF Init, ShapeInv, NoCell
<1>5. PhaseInv /\ GuardInv /\ CurveInv /\ FreshInv
  BY DEF Init, PhaseInv, GuardInv, CurveInv, FreshInv, TrainingPoints, CellPoints, NoCell
<1>6. WiringInv
  BY DEF Init, WiringInv, CellPoints, Whole, Absent
<1>7. TrainerInv
  BY DEF Init, TrainerInv, NoTrainer, NewTrainer
<1>8. CkptInv
  BY <1>3 DEF Init, CkptInv, TrainingPoints
<1>9. LoadedInv
  <2>1. DOMAIN loaded = {}
    BY DEF Init
  <2>. QED BY <2>1 DEF LoadedInv
<1>10. ResultInv
  BY DEF Init, ResultInv, Ok, Whole, Absent
<1>. QED BY <1>4, <1>5, <1>6, <1>7, <1>8, <1>9, <1>10 DEF IInv

\* The end of the process leaves the disk, and nothing else to speak of.
LEMMA GoneInv ==
  ASSUME IInv, Gone, UNCHANGED <<disk, timeouts>>, kills' \in 0..MaxKills
  PROVE  IInv'
<1>1. /\ pc' = "down" /\ seed' = FirstSeed /\ wanted' = {} /\ segment' = 0 /\ trainer' = NoTrainer
      /\ curve' = <<>> /\ loaded' = <<>> /\ next' = <<1, 1>> /\ live' = NoCell
      /\ guard' = DefaultGuard /\ UNCHANGED <<args, cells, ckpt, snapshot, timeouts>>
  BY DEF Gone, disk
<1>2. DOMAIN loaded' = {}
  BY <1>1
<1>3. ShapeInv'
  <2>1. TypeOK'
    <3>1. next' \in (1..Len(Order)) \X (1..Len(Levels))
      BY <1>1, OrderFacts, LevelsFacts
    <3>2. segment' \in 0..(Segments - 1) /\ Len(curve') <= Segments
      BY <1>1, TrainingAssumption
    <3>. QED BY <1>1, <1>2, <3>1, <3>2, SeedFacts DEF IInv, ShapeInv, TypeOK, Whole
  <2>2. trainer' \in [round : 0..Rounds, dual : Nat, coef : Nat, beta : Int,
                      measured : Nat \cup {-1}, from : Int]
    BY <1>1, TrainingAssumption DEF NoTrainer, NewTrainer, Scratch
  <2>3. curve' \in Seq(ScoreOf)
    BY <1>1, EmptySeq
  <2>. QED BY <1>1, <2>1, <2>2, <2>3 DEF IInv, ShapeInv, NoCell
<1>4. (PhaseInv /\ GuardInv /\ CurveInv /\ FreshInv)'
  BY <1>1 DEF PhaseInv, GuardInv, CurveInv, FreshInv, TrainingPoints, CellPoints, NoCell
<1>5. WiringInv'
  BY <1>1 DEF IInv, WiringInv, CellPoints, Whole
<1>6. TrainerInv'
  BY <1>1 DEF TrainerInv, NoTrainer, NewTrainer
<1>7. CkptInv'
  BY <1>1 DEF IInv, CkptInv, TrainingPoints, Whole
<1>8. LoadedInv'
  BY <1>2 DEF LoadedInv
<1>9. ResultInv'
  BY <1>1 DEF IInv, ResultInv, Ok, Result, Whole
<1>. QED BY <1>3, <1>4, <1>5, <1>6, <1>7, <1>8, <1>9 DEF IInv

LEMMA LaunchInv == ASSUME IInv, Launch PROVE IInv'
<1>. USE DEF disk, train, cell
<1>1. /\ pc = "down" /\ pc' = "block"
      /\ UNCHANGED <<cells, ckpt, snapshot, args, seed, wanted, segment, trainer, curve, loaded,
                     next, live, wired, guard, report, kills, timeouts>>
  BY DEF Launch
<1>2. ShapeInv'
  <2>1. TypeOK'
    BY <1>1 DEF IInv, ShapeInv, TypeOK, Whole
  <2>. QED BY <1>1, <2>1 DEF IInv, ShapeInv
<1>3. (PhaseInv /\ GuardInv /\ CurveInv /\ FreshInv)'
  BY <1>1 DEF IInv, PhaseInv, GuardInv, CurveInv, FreshInv, TrainingPoints, CellPoints, TrainingRun
<1>4. (WiringInv /\ TrainerInv)'
  BY <1>1 DEF IInv, WiringInv, TrainerInv, CellPoints, Whole
<1>5. CkptInv'
  BY <1>1 DEF IInv, CkptInv, TrainingPoints, Whole
<1>6. LoadedInv'
  BY <1>1 DEF IInv, LoadedInv, TrainingRun
<1>7. ResultInv'
  BY <1>1 DEF IInv, ResultInv, Ok, Result, Whole
<1>. QED BY <1>2, <1>3, <1>4, <1>5, <1>6, <1>7 DEF IInv

\* A stack is in hand whenever one is wanted.
LEMMA InHand ==
  ASSUME IInv, wanted # {}
  PROVE  Stack \in Range(Stacks) /\ Stack \in wanted /\ Checkpoints = ckpt[seed][Stack] /\ seed \in Seeds
BY StackInHand DEF IInv, ShapeInv, TypeOK, Stack, Checkpoints

\* What going on leads to.
LEMMA GoOnFacts ==
  ASSUME NEW stacks \in SUBSET Range(Stacks), GoOn(stacks)
  PROVE  /\ wanted' = stacks
         /\ \/ pc' = "cell"
            \/ pc' = "load" /\ stacks # {} /\ args.evalOnly
            \/ pc' = "segment" /\ stacks # {} /\ ~args.evalOnly
BY DEF GoOn

LEMMA BlockInv == ASSUME IInv, Block PROVE IInv'
<1>. USE DEF disk, cell
<1>1. /\ pc = "block" /\ loaded' = <<>>
      /\ UNCHANGED <<cells, ckpt, snapshot, args, seed, segment, trainer, curve,
                     next, live, wired, guard, report, kills, timeouts>>
  BY DEF Block
<1>2. /\ wanted' \subseteq Range(Stacks)
      /\ \/ pc' = "cell"
         \/ pc' = "load" /\ wanted' # {} /\ args.evalOnly
         \/ pc' = "segment" /\ wanted' # {} /\ ~args.evalOnly
  BY GoOnFacts DEF Block
<1>3. DOMAIN loaded' = {}
  BY <1>1
<1>4. ShapeInv'
  <2>1. TypeOK'
    BY <1>1, <1>2, <1>3 DEF IInv, ShapeInv, TypeOK, Whole
  <2>. QED BY <1>1, <1>2, <1>3, <2>1 DEF IInv, ShapeInv
<1>5. (PhaseInv /\ GuardInv /\ CurveInv /\ FreshInv)'
  BY <1>1, <1>2 DEF IInv, PhaseInv, GuardInv, CurveInv, FreshInv, TrainingPoints, CellPoints, TrainingRun
<1>6. (WiringInv /\ TrainerInv)'
  BY <1>1, <1>2 DEF IInv, WiringInv, TrainerInv, CellPoints, Whole
<1>7. CkptInv'
  <2>1. segment' = 0
    BY <1>1 DEF IInv, PhaseInv, TrainingPoints
  <2>2. Retrained(Checkpoints', segment', kills')
    BY <2>1 DEF Retrained
  <2>. QED BY <1>1, <1>2, <2>2 DEF IInv, CkptInv, TrainingPoints, Whole
<1>8. LoadedInv'
  BY <1>3 DEF LoadedInv
<1>9. ResultInv'
  BY <1>1, <1>2 DEF IInv, ResultInv, Ok, Result, Whole
<1>. QED BY <1>4, <1>5, <1>6, <1>7, <1>8, <1>9 DEF IInv

LEMMA StartSegmentInv == ASSUME IInv, StartSegment PROVE IInv'
<1>. USE DEF disk, cell
<1>1. /\ pc = "segment" /\ pc' = "round" /\ wired' = TrainWiring(Stack, segment)
      /\ trainer' = NewTrainer(IF segment = 0 THEN Scratch ELSE Checkpoints[segment].content.run)
      /\ UNCHANGED <<cells, ckpt, snapshot, args, seed, wanted, segment, curve, loaded,
                     next, live, guard, report, kills, timeouts>>
  BY DEF StartSegment
<1>2. Stack' = Stack /\ Checkpoints' = Checkpoints
  BY <1>1 DEF Stack, Checkpoints
<1>3. wanted # {} /\ segment \in 0..(Segments - 1) /\ Segments \in Nat
  BY <1>1, TrainingAssumption DEF IInv, PhaseInv, ShapeInv, TypeOK, TrainingPoints
<1>4. (IF segment = 0 THEN Scratch ELSE Checkpoints[segment].content.run) \in Int
  <2>1. segment # 0 => segment \in DOMAIN Checkpoints /\ Whole(Checkpoints[segment])
    BY <1>1, <1>3 DEF IInv, CkptInv, Retrained, TrainingPoints
  <2>2. segment # 0 => Checkpoints[segment].content \in WeightsOf
    BY <2>1, <1>3, InHand DEF IInv, ShapeInv, TypeOK
  <2>. QED BY <2>2 DEF WeightsOf, Scratch
<1>5. /\ trainer' \in [round : 0..Rounds, dual : Nat, coef : Nat, beta : Int,
                       measured : Nat \cup {-1}, from : Int]
      /\ trainer'.round = 0 /\ trainer'.measured = -1
      /\ trainer'.dual = EntStart /\ trainer'.coef = EntStart
  BY <1>1, <1>4, TrainingAssumption DEF NewTrainer
<1>6. ShapeInv'
  <2>1. TypeOK'
    BY <1>1, <1>5 DEF IInv, ShapeInv, TypeOK, Whole
  <2>. QED BY <1>1, <1>5, <2>1 DEF IInv, ShapeInv
<1>7. (PhaseInv /\ GuardInv /\ CurveInv /\ FreshInv)'
  BY <1>1 DEF IInv, PhaseInv, GuardInv, CurveInv, FreshInv, TrainingPoints, CellPoints, TrainingRun
<1>8. (WiringInv /\ TrainerInv)'
  <2>1. WiringInv'
    BY <1>1, <1>2 DEF IInv, WiringInv, CellPoints
  <2>2. TrainerInv'
    BY <1>1, <1>2, <1>5 DEF IInv, TrainerInv, Whole
  <2>. QED BY <2>1, <2>2
<1>9. CkptInv'
  BY <1>1, <1>2 DEF IInv, CkptInv, TrainingPoints, Whole
<1>10. LoadedInv'
  BY <1>1 DEF IInv, LoadedInv, TrainingRun
<1>11. ResultInv'
  BY <1>1 DEF IInv, ResultInv, Ok, Result, Whole
<1>. QED BY <1>6, <1>7, <1>8, <1>9, <1>10, <1>11 DEF IInv

\* What a round does to the two masters of the coefficient.
LEMMA RoundFacts ==
  ASSUME IInv, TrainRound
  PROVE  /\ pc = "round" /\ trainer.round < Rounds
         /\ trainer' \in [round : 0..Rounds, dual : Nat, coef : Nat, beta : Int,
                          measured : Nat \cup {-1}, from : Int]
         /\ trainer'.round = trainer.round + 1 /\ trainer'.measured # -1
         /\ trainer'.beta = Beta(Stack, segment, trainer.round)
         /\ trainer'.dual >= trainer'.coef
         /\ IF trainer.measured = -1 \/ trainer.measured >= EntropyTarget
            THEN trainer'.coef = EntSchedule(trainer.round)
            ELSE /\ trainer'.coef >= trainer.coef
                 /\ trainer'.coef >= EntSchedule(trainer.round)
<1>1. PICK coef \in EntCoefs(trainer.round, trainer.dual, trainer.measured), e \in Entropies :
        trainer' = [trainer EXCEPT
                      !.round = @ + 1, !.coef = coef, !.measured = e,
                      !.dual = DualAfter(@, trainer.measured, coef),
                      !.beta = Beta(Stack, segment, trainer.round)]
  BY DEF TrainRound
<1>2. /\ pc = "round" /\ trainer.round < Rounds
      /\ trainer \in [round : 0..Rounds, dual : Nat, coef : Nat, beta : Int,
                      measured : Nat \cup {-1}, from : Int]
      /\ trainer.measured # -1 => trainer.dual >= trainer.coef
      /\ trainer.measured = -1 => trainer.round = 0 /\ trainer.dual = EntStart
      /\ segment \in 0..(Segments - 1)
  BY DEF TrainRound, IInv, ShapeInv, TypeOK, TrainerInv
<1>3. /\ trainer.round \in 0..(Rounds - 1) /\ trainer.round \in Nat
      /\ segment \in Int /\ e \in Nat /\ Rounds \in Nat
  BY <1>2, TrainingAssumption
<1>4. EntSchedule(trainer.round) \in Nat /\ EntMax \in Nat
  BY <1>3, ScheduleFacts, TrainingAssumption
<1>5. /\ coef \in Nat
      /\ IF trainer.measured = -1 \/ trainer.measured >= EntropyTarget
         THEN coef = EntSchedule(trainer.round)
         ELSE coef >= trainer.dual /\ coef >= EntSchedule(trainer.round)
  <2>1. CASE trainer.measured = -1 \/ trainer.measured >= EntropyTarget
    BY <2>1, <1>4 DEF EntCoefs
  <2>2. CASE ~(trainer.measured = -1 \/ trainer.measured >= EntropyTarget)
    <3>1. Larger(EntSchedule(trainer.round), trainer.dual) \in Nat
      BY <1>2, <1>4 DEF Larger
    <3>2. coef \in Larger(EntSchedule(trainer.round), trainer.dual)..EntMax
      BY <2>2 DEF EntCoefs
    <3>. QED BY <2>2, <3>1, <3>2, <1>2, <1>4 DEF Larger
  <2>. QED BY <2>1, <2>2
<1>6. /\ trainer'.round = trainer.round + 1 /\ trainer'.coef = coef /\ trainer'.measured = e
      /\ trainer'.dual = DualAfter(trainer.dual, trainer.measured, coef)
      /\ trainer'.beta = Beta(Stack, segment, trainer.round)
      /\ trainer' = [round |-> trainer.round + 1, dual |-> trainer'.dual, coef |-> coef,
                     beta |-> trainer'.beta, measured |-> e, from |-> trainer.from]
  BY <1>1, <1>2
<1>7. trainer'.dual \in Nat /\ trainer'.dual >= coef
  <2>1. CASE trainer.measured = -1
    <3>1. coef = EntStart /\ trainer'.dual = EntStart /\ EntStart \in Nat
      BY <2>1, <1>2, <1>5, <1>6, ScheduleFacts, TrainingAssumption DEF DualAfter
    <3>. QED BY <3>1
  <2>2. CASE trainer.measured # -1
    BY <2>2, <1>5, <1>6 DEF DualAfter
  <2>. QED BY <2>1, <2>2
<1>8. Beta(Stack, segment, trainer.round) \in Int
  BY <1>3, BetaType
<1>9. trainer' \in [round : 0..Rounds, dual : Nat, coef : Nat, beta : Int,
                    measured : Nat \cup {-1}, from : Int]
  BY <1>2, <1>3, <1>5, <1>6, <1>7, <1>8
<1>10. ~(trainer.measured = -1 \/ trainer.measured >= EntropyTarget) => coef >= trainer.coef
  BY <1>2, <1>5
<1>. QED BY <1>2, <1>3, <1>5, <1>6, <1>7, <1>9, <1>10

LEMMA TrainRoundInv == ASSUME IInv, TrainRound PROVE IInv'
<1>. USE DEF disk, cell
<1>1. /\ pc = "round"
      /\ UNCHANGED <<cells, ckpt, snapshot, args, pc, seed, wanted, segment, curve, loaded,
                     next, live, wired, guard, report, kills, timeouts>>
  BY DEF TrainRound
<1>2. Stack' = Stack /\ Checkpoints' = Checkpoints
  BY <1>1 DEF Stack, Checkpoints
<1>3. /\ trainer.round \in Nat
      /\ trainer' \in [round : 0..Rounds, dual : Nat, coef : Nat, beta : Int,
                       measured : Nat \cup {-1}, from : Int]
      /\ trainer'.round = trainer.round + 1 /\ trainer'.measured # -1
      /\ trainer'.beta = Beta(Stack, segment, trainer.round)
      /\ trainer'.dual >= trainer'.coef
  BY RoundFacts, TrainingAssumption DEF IInv, ShapeInv
<1>4. ShapeInv'
  <2>1. TypeOK'
    BY <1>1, <1>3 DEF IInv, ShapeInv, TypeOK, Whole
  <2>. QED BY <1>1, <1>3, <2>1 DEF IInv, ShapeInv
<1>5. (PhaseInv /\ GuardInv /\ CurveInv /\ FreshInv)'
  BY <1>1 DEF IInv, PhaseInv, GuardInv, CurveInv, FreshInv, TrainingPoints, CellPoints, TrainingRun
<1>6. WiringInv'
  BY <1>1, <1>2 DEF IInv, WiringInv, CellPoints, Whole
<1>7. TrainerInv'
  <2>1. trainer'.round - 1 = trainer.round
    BY <1>3
  <2>. QED BY <1>1, <1>2, <1>3, <2>1 DEF TrainerInv
<1>8. CkptInv'
  BY <1>1, <1>2 DEF IInv, CkptInv, TrainingPoints, Whole
<1>9. LoadedInv'
  BY <1>1 DEF IInv, LoadedInv, TrainingRun
<1>10. ResultInv'
  BY <1>1 DEF IInv, ResultInv, Ok, Result, Whole
<1>. QED BY <1>4, <1>5, <1>6, <1>7, <1>8, <1>9, <1>10 DEF IInv

\* Writing a checkpoint replaces that of its segment, after those before it.
LEMMA SetCheckpointFacts ==
  ASSUME IInv, pc \in {"round", "checkpoint"}, NEW file, SetCheckpoint(file)
  PROVE  /\ DOMAIN ckpt' = Seeds /\ \A s \in Seeds : DOMAIN ckpt'[s] = Range(Stacks)
         /\ \A s \in Seeds, k \in Range(Stacks) :
              /\ Len(ckpt'[s][k]) \in Nat /\ DOMAIN ckpt'[s][k] = 1..Len(ckpt'[s][k])
              /\ \A g \in DOMAIN ckpt'[s][k] :
                   \/ s = seed /\ k = Stack /\ g = segment + 1 /\ ckpt'[s][k][g] = file
                   \/ g \in DOMAIN ckpt[s][k] /\ ckpt'[s][k][g] = ckpt[s][k][g]
         /\ segment + 1 \in DOMAIN ckpt'[seed][Stack] /\ ckpt'[seed][Stack][segment + 1] = file
         /\ \A g \in 1..segment : /\ g \in DOMAIN ckpt'[seed][Stack]
                                  /\ ckpt'[seed][Stack][g] = Checkpoints[g]
<1>1. /\ wanted # {} /\ segment \in 0..(Segments - 1) /\ Segments \in Nat
      /\ Retrained(Checkpoints, segment, kills)
  BY TrainingAssumption DEF IInv, PhaseInv, ShapeInv, TypeOK, TrainingPoints, CkptInv
<1>2. Stack \in Range(Stacks) /\ seed \in Seeds /\ Checkpoints = ckpt[seed][Stack]
  BY <1>1, InHand
<1>. DEFINE n == Larger(segment + 1, Len(Checkpoints))
            more == [g \in 1..n |-> IF g = segment + 1 THEN file ELSE Checkpoints[g]]
<1>3. /\ DOMAIN ckpt = Seeds /\ \A s \in Seeds : DOMAIN ckpt[s] = Range(Stacks)
      /\ \A s \in Seeds, k \in Range(Stacks) :
           Len(ckpt[s][k]) \in Nat /\ DOMAIN ckpt[s][k] = 1..Len(ckpt[s][k])
  BY DEF IInv, ShapeInv
<1>4. ckpt' = [ckpt EXCEPT ![seed] = [ckpt[seed] EXCEPT ![Stack] = more]]
  BY <1>2, <1>3 DEF SetCheckpoint
<1>5. /\ Len(Checkpoints) \in Nat /\ DOMAIN Checkpoints = 1..Len(Checkpoints)
      /\ segment \in Nat /\ segment <= Len(Checkpoints)
  <2>1. Len(Checkpoints) \in Nat /\ DOMAIN Checkpoints = 1..Len(Checkpoints)
    BY <1>2, <1>3
  <2>2. segment # 0 => segment \in DOMAIN Checkpoints
    BY <1>1 DEF Retrained
  <2>. QED BY <1>1, <2>1, <2>2
<1>6. /\ n \in Nat /\ segment + 1 <= n
      /\ \A g \in 1..n : g = segment + 1 \/ g \in 1..Len(Checkpoints)
  <2>1. \A a, b \in Nat : /\ Larger(a, b) \in Nat /\ a <= Larger(a, b)
                          /\ Larger(a, b) = a \/ Larger(a, b) = b
    BY DEF Larger
  <2>2. segment + 1 \in Nat /\ Len(Checkpoints) \in Nat
    BY <1>5
  <2>3. n \in Nat /\ segment + 1 <= n /\ (n = segment + 1 \/ n = Len(Checkpoints))
    BY <2>1, <2>2
  <2>4. \A a, b, m, g \in Nat : a <= b /\ (m = a + 1 \/ m = b) /\ 1 <= g /\ g <= m =>
          g = a + 1 \/ g \in 1..b
    OBVIOUS
  <2>. HIDE DEF n
  <2>5. \A g \in 1..n : g \in Nat /\ 1 <= g /\ g <= n
    BY <2>3
  <2>6. segment \in Nat /\ segment <= Len(Checkpoints) /\ Len(Checkpoints) \in Nat
    BY <1>5
  <2>. QED BY <2>3, <2>4, <2>5, <2>6
<1>. HIDE DEF n
<1>7. /\ DOMAIN more = 1..n /\ Len(more) = n
      /\ \A g \in 1..n : more[g] = IF g = segment + 1 THEN file ELSE Checkpoints[g]
  BY <1>6, LengthOf
<1>8. \A g \in 1..n : g = segment + 1 \/ g \in DOMAIN Checkpoints
  BY <1>5, <1>6
<1>9. \A g \in 1..segment : g \in 1..n /\ g # segment + 1
  BY <1>1, <1>6
<1>. HIDE DEF more
<1>10. /\ DOMAIN ckpt' = Seeds
       /\ ckpt'[seed] = [ckpt[seed] EXCEPT ![Stack] = more]
       /\ \A s \in Seeds : s # seed => ckpt'[s] = ckpt[s]
  BY <1>2, <1>3, <1>4
<1>11. /\ DOMAIN ckpt'[seed] = Range(Stacks) /\ ckpt'[seed][Stack] = more
       /\ \A k \in Range(Stacks) : k # Stack => ckpt'[seed][k] = ckpt[seed][k]
  BY <1>2, <1>3, <1>10
<1>12. \A s \in Seeds : DOMAIN ckpt'[s] = Range(Stacks)
  BY <1>3, <1>10, <1>11
<1>13. ASSUME NEW s \in Seeds, NEW k \in Range(Stacks)
       PROVE  /\ Len(ckpt'[s][k]) \in Nat /\ DOMAIN ckpt'[s][k] = 1..Len(ckpt'[s][k])
              /\ \A g \in DOMAIN ckpt'[s][k] :
                   \/ s = seed /\ k = Stack /\ g = segment + 1 /\ ckpt'[s][k][g] = file
                   \/ g \in DOMAIN ckpt[s][k] /\ ckpt'[s][k][g] = ckpt[s][k][g]
  <2>1. CASE s = seed /\ k = Stack
    BY <2>1, <1>2, <1>6, <1>7, <1>8, <1>11
  <2>2. CASE s # seed \/ k # Stack
    <3>1. ckpt'[s][k] = ckpt[s][k]
      BY <2>2, <1>10, <1>11
    <3>. QED BY <3>1, <1>3
  <2>. QED BY <2>1, <2>2
<1>14. segment + 1 \in 1..n /\ more[segment + 1] = file
  BY <1>1, <1>6, <1>7
<1>. QED BY <1>7, <1>9, <1>10, <1>11, <1>12, <1>13, <1>14

LEMMA OpenCheckpointInv == ASSUME IInv, OpenCheckpoint PROVE IInv'
<1>. USE DEF disk, train, cell
<1>1. /\ pc = "round" /\ pc' = "checkpoint" /\ trainer.round = Rounds /\ SetCheckpoint(Torn)
      /\ UNCHANGED <<cells, snapshot, args, seed, wanted, segment, trainer, curve, loaded,
                     next, live, wired, guard, report, kills, timeouts>>
  BY DEF OpenCheckpoint
<1>2. /\ DOMAIN ckpt' = Seeds /\ \A s \in Seeds : DOMAIN ckpt'[s] = Range(Stacks)
      /\ \A s \in Seeds, k \in Range(Stacks) :
           /\ Len(ckpt'[s][k]) \in Nat /\ DOMAIN ckpt'[s][k] = 1..Len(ckpt'[s][k])
           /\ \A g \in DOMAIN ckpt'[s][k] : Whole(ckpt'[s][k][g]) =>
                g \in DOMAIN ckpt[s][k] /\ ckpt'[s][k][g] = ckpt[s][k][g]
      /\ \A g \in 1..segment : /\ g \in DOMAIN ckpt'[seed][Stack]
                               /\ ckpt'[seed][Stack][g] = Checkpoints[g]
  BY <1>1, SetCheckpointFacts DEF Whole, Torn
<1>3. Stack' = Stack /\ Checkpoints' = ckpt'[seed][Stack]
  BY <1>1 DEF Stack, Checkpoints
<1>4. ShapeInv'
  <2>1. \A s \in Seeds, k \in Range(Stacks) : \A g \in DOMAIN ckpt'[s][k] :
          Whole(ckpt'[s][k][g]) => ckpt'[s][k][g].content \in WeightsOf
    <3>1. \A s \in Seeds, k \in Range(Stacks) : \A g \in DOMAIN ckpt[s][k] :
            Whole(ckpt[s][k][g]) => ckpt[s][k][g].content \in WeightsOf
      BY DEF IInv, ShapeInv, TypeOK
    <3>. QED BY <1>2, <3>1
  <2>9. TypeOK'
    BY <1>1, <1>2, <2>1 DEF IInv, ShapeInv, TypeOK, Whole
  <2>. QED BY <1>1, <1>2, <2>1, <2>9 DEF IInv, ShapeInv
<1>5. (PhaseInv /\ GuardInv /\ CurveInv /\ FreshInv)'
  BY <1>1 DEF IInv, PhaseInv, GuardInv, CurveInv, FreshInv, TrainingPoints, CellPoints, TrainingRun
<1>6. (WiringInv /\ TrainerInv)'
  BY <1>1, <1>3 DEF IInv, WiringInv, TrainerInv, CellPoints, Whole
<1>7. CkptInv'
  <2>1. \A s \in Seeds, k \in Range(Stacks) : \A g \in DOMAIN ckpt'[s][k] :
          Whole(ckpt'[s][k][g]) => CheckpointOf(ckpt'[s][k][g].content, k, g - 1, ~args'.evalOnly)
    BY <1>1, <1>2 DEF IInv, CkptInv
  <2>2. Retrained(Checkpoints', segment', kills')
    BY <1>1, <1>2, <1>3 DEF IInv, CkptInv, Retrained, TrainingPoints
  <2>. QED BY <1>1, <2>1, <2>2 DEF CkptInv, Whole
<1>8. LoadedInv'
  BY <1>1 DEF IInv, LoadedInv, TrainingRun
<1>9. ResultInv'
  BY <1>1 DEF IInv, ResultInv, Ok, Result, Whole
<1>. QED BY <1>4, <1>5, <1>6, <1>7, <1>8, <1>9 DEF IInv

LEMMA WriteCheckpointInv == ASSUME IInv, WriteCheckpoint PROVE IInv'
<1>. USE DEF disk, train, cell
<1>. DEFINE w == [run |-> kills, seg |-> segment, beta |-> trainer.beta, under |-> wired]
<1>1. /\ pc = "checkpoint" /\ SetCheckpoint(File(w)) /\ trainer' = NoTrainer
      /\ \/ segment + 1 < Segments /\ pc' = "segment" /\ segment' = segment + 1
         \/ ~(segment + 1 < Segments) /\ pc' = "load" /\ segment' = 0
      /\ UNCHANGED <<cells, snapshot, args, seed, wanted, curve, loaded,
                     next, live, wired, guard, report, kills, timeouts>>
  BY DEF WriteCheckpoint
<1>2. /\ wanted # {} /\ segment \in 0..(Segments - 1) /\ Segments \in Nat /\ Rounds \in Nat \ {0, 1}
      /\ trainer.round = Rounds /\ trainer.beta \in Int /\ kills \in 0..MaxKills
      /\ trainer.beta = Beta(Stack, segment, Rounds - 1) /\ wired = TrainWiring(Stack, segment)
      /\ Retrained(Checkpoints, segment, kills) /\ ~args.evalOnly
  <2>1. trainer.round = Rounds /\ Rounds \in Nat \ {0, 1} /\ trainer.round > 0
    BY <1>1, TrainingAssumption DEF IInv, TrainerInv
  <2>. QED BY <1>1, <2>1, TrainingAssumption
         DEF IInv, PhaseInv, ShapeInv, TypeOK, TrainerInv, WiringInv, CkptInv, TrainingPoints
<1>3. w \in WeightsOf /\ CheckpointOf(w, Stack, segment, ~args.evalOnly)
  <2>1. TrainWiring(Stack, segment) \in Wiring
    BY <1>2, WiringType
  <2>. QED BY <1>2, <2>1, ArgumentAssumption DEF WeightsOf, CheckpointOf
<1>4. w.run = kills
  OBVIOUS
<1>. HIDE DEF w
<1>5. Whole(File(w)) /\ File(w).content = w
  BY DEF Whole, File
<1>6. /\ DOMAIN ckpt' = Seeds /\ \A s \in Seeds : DOMAIN ckpt'[s] = Range(Stacks)
      /\ \A s \in Seeds, k \in Range(Stacks) :
           /\ Len(ckpt'[s][k]) \in Nat /\ DOMAIN ckpt'[s][k] = 1..Len(ckpt'[s][k])
           /\ \A g \in DOMAIN ckpt'[s][k] :
                \/ s = seed /\ k = Stack /\ g = segment + 1 /\ ckpt'[s][k][g] = File(w)
                \/ g \in DOMAIN ckpt[s][k] /\ ckpt'[s][k][g] = ckpt[s][k][g]
      /\ segment + 1 \in DOMAIN ckpt'[seed][Stack] /\ ckpt'[seed][Stack][segment + 1] = File(w)
      /\ \A g \in 1..segment : /\ g \in DOMAIN ckpt'[seed][Stack]
                               /\ ckpt'[seed][Stack][g] = Checkpoints[g]
  BY <1>1, SetCheckpointFacts
<1>7. Stack' = Stack /\ Checkpoints' = ckpt'[seed][Stack]
  BY <1>1 DEF Stack, Checkpoints
<1>8. ShapeInv'
  <2>1. \A s \in Seeds, k \in Range(Stacks) : \A g \in DOMAIN ckpt'[s][k] :
          Whole(ckpt'[s][k][g]) => ckpt'[s][k][g].content \in WeightsOf
    <3>1. \A s \in Seeds, k \in Range(Stacks) : \A g \in DOMAIN ckpt[s][k] :
            Whole(ckpt[s][k][g]) => ckpt[s][k][g].content \in WeightsOf
      BY DEF IInv, ShapeInv, TypeOK
    <3>. QED BY <1>3, <1>5, <1>6, <3>1
  <2>2. trainer' \in [round : 0..Rounds, dual : Nat, coef : Nat, beta : Int,
                      measured : Nat \cup {-1}, from : Int]
    BY <1>1, TrainingAssumption DEF NoTrainer, NewTrainer, Scratch
  <2>3. segment' \in 0..(Segments - 1)
    BY <1>1, <1>2
  <2>9. TypeOK'
    BY <1>1, <1>6, <2>1, <2>2, <2>3 DEF IInv, ShapeInv, TypeOK, Whole
  <2>. QED BY <1>1, <1>6, <2>1, <2>2, <2>3, <2>9 DEF IInv, ShapeInv
<1>9. (PhaseInv /\ GuardInv /\ CurveInv /\ FreshInv)'
  BY <1>1, <1>2 DEF IInv, PhaseInv, GuardInv, CurveInv, FreshInv, TrainingPoints, CellPoints, TrainingRun
<1>10. WiringInv'
  BY <1>1 DEF IInv, WiringInv, CellPoints, Whole
<1>11. TrainerInv'
  BY <1>1 DEF TrainerInv, NoTrainer, NewTrainer
<1>12. CkptInv'
  <2>1. \A s \in Seeds, k \in Range(Stacks) : \A g \in DOMAIN ckpt'[s][k] :
          Whole(ckpt'[s][k][g]) => CheckpointOf(ckpt'[s][k][g].content, k, g - 1, ~args'.evalOnly)
    <3>1. (segment + 1) - 1 = segment
      BY <1>2
    <3>2. \A s \in Seeds, k \in Range(Stacks) : \A g \in DOMAIN ckpt[s][k] :
            Whole(ckpt[s][k][g]) => CheckpointOf(ckpt[s][k][g].content, k, g - 1, ~args.evalOnly)
      BY DEF IInv, CkptInv
    <3>. QED BY <1>1, <1>3, <1>5, <1>6, <3>1, <3>2
  <2>2. Retrained(Checkpoints', segment + 1, kills')
    <3>1. \A g \in 1..(segment + 1) : g \in 1..segment \/ g = segment + 1
      BY <1>2
    <3>. QED BY <1>1, <1>2, <1>4, <1>5, <1>6, <1>7, <3>1 DEF Retrained
  <2>3. ~(segment + 1 < Segments) => segment + 1 = Segments
    BY <1>2
  <2>. QED BY <1>1, <2>1, <2>2, <2>3 DEF CkptInv, Whole, TrainingPoints
<1>13. LoadedInv'
  BY <1>1 DEF IInv, LoadedInv, TrainingRun
<1>14. ResultInv'
  BY <1>1 DEF IInv, ResultInv, Ok, Result, Whole
<1>. QED BY <1>8, <1>9, <1>10, <1>11, <1>12, <1>13, <1>14 DEF IInv

\* What is loaded is of its segment, and of the training everything comes from.
LEMMA LoadFacts ==
  ASSUME IInv, pc = "load", NEW g \in 0..(Segments - 1), Loadable(g)
  PROVE  /\ Stack \in Range(Stacks) /\ Stack \in wanted
         /\ Checkpoints[g + 1].content \in WeightsOf
         /\ Checkpoints[g + 1].content.seg = g
         /\ Checkpoints[g + 1].content.under = TrainWiring(Stack, g)
         /\ Checkpoints[g + 1].content.beta = Beta(Stack, g, Rounds - 1)
         /\ Checkpoints[g + 1].content.run = TrainingRun
<1>1. wanted # {}
  BY DEF IInv, PhaseInv
<1>2. /\ Stack \in Range(Stacks) /\ Stack \in wanted
      /\ Checkpoints = ckpt[seed][Stack] /\ seed \in Seeds
  BY <1>1, InHand
<1>3. /\ g + 1 \in 1..Segments /\ (g + 1) - 1 = g
      /\ g + 1 \in DOMAIN Checkpoints /\ Whole(Checkpoints[g + 1])
  <2>1. Len(Checkpoints) = Segments /\ Whole(Checkpoints[g + 1])
    BY DEF Loadable
  <2>2. DOMAIN Checkpoints = 1..Segments
    BY <1>2, <2>1 DEF IInv, ShapeInv
  <2>. QED BY <2>1, <2>2, TrainingAssumption
<1>4. Checkpoints[g + 1].content \in WeightsOf
  BY <1>2, <1>3 DEF IInv, ShapeInv, TypeOK
<1>5. CheckpointOf(Checkpoints[g + 1].content, Stack, g, ~args.evalOnly)
  <2>1. \A s \in Seeds, k \in Range(Stacks) : \A h \in DOMAIN ckpt[s][k] :
          Whole(ckpt[s][k][h]) => CheckpointOf(ckpt[s][k][h].content, k, h - 1, ~args.evalOnly)
    BY DEF IInv, CkptInv
  <2>. DEFINE h == g + 1
  <2>2. h \in DOMAIN ckpt[seed][Stack] /\ Whole(ckpt[seed][Stack][h]) /\ h - 1 = g
    BY <1>2, <1>3
  <2>. HIDE DEF h
  <2>3. CheckpointOf(ckpt[seed][Stack][h].content, Stack, h - 1, ~args.evalOnly)
    BY <1>2, <2>1, <2>2
  <2>. QED BY <1>2, <2>2, <2>3 DEF h
<1>6. ~args.evalOnly => Checkpoints[g + 1].content.run = kills
  <2>1. ~args.evalOnly => Retrained(Checkpoints, Segments, kills)
    BY DEF IInv, CkptInv
  <2>. QED BY <2>1, <1>3 DEF Retrained
<1>. QED BY <1>2, <1>4, <1>5, <1>6 DEF CheckpointOf, TrainingRun

LEMMA ScoreSegmentInv == ASSUME IInv, ScoreSegment PROVE IInv'
<1>. USE DEF disk, cell
<1>. DEFINE g == Len(curve)
<1>1. PICK s \in Scores :
        curve' = Append(curve, [score |-> s, on |-> Validation, by |-> SelectionProbe[Stack],
                                of |-> Checkpoints[g + 1].content.run])
  BY DEF ScoreSegment, ToLoad
<1>2. /\ pc = "load" /\ ~args.finalSegment /\ Len(curve) < Segments /\ Loadable(g)
      /\ UNCHANGED <<cells, ckpt, snapshot, args, pc, seed, wanted, segment, trainer, loaded,
                     next, live, guard, report, kills, timeouts>>
  BY DEF ScoreSegment, ToLoad, Scoring
<1>3. /\ curve \in Seq(ScoreOf) /\ g \in Nat /\ g \in 0..(Segments - 1)
      /\ DOMAIN curve = 1..g /\ Segments \in Nat
  <2>1. curve \in Seq(ScoreOf) /\ Segments \in Nat
    BY TrainingAssumption DEF IInv, ShapeInv
  <2>. QED BY <1>2, <2>1, LenProperties
<1>. DEFINE e == [score |-> s, on |-> Validation, by |-> SelectionProbe[Stack],
                  of |-> Checkpoints[g + 1].content.run]
<1>4. e \in ScoreOf /\ e.of = TrainingRun
  <2>1. /\ Stack \in Range(Stacks) /\ Checkpoints[g + 1].content.run = TrainingRun
        /\ Checkpoints[g + 1].content \in WeightsOf
    <3>. HIDE DEF g
    <3>. QED BY <1>2, <1>3, LoadFacts
  <2>2. Checkpoints[g + 1].content.run \in Int
    BY <2>1, ArgumentAssumption DEF WeightsOf
  <2>3. SelectionProbe[Stack] \in Range(SelectionProbe)
    BY <2>1 DEF SelectionProbe, Range
  <2>4. s \in Nat
    BY ArgumentAssumption
  <2>. QED BY <2>1, <2>2, <2>3, <2>4 DEF ScoreOf
<1>. HIDE DEF e
<1>5. /\ curve' \in Seq(ScoreOf) /\ Len(curve') = g + 1 /\ DOMAIN curve' = 1..(g + 1)
      /\ \A i \in 1..g : curve'[i] = curve[i]
      /\ curve'[g + 1] = e
  <2>1. curve' = Append(curve, e)
    BY <1>1 DEF e
  <2>2. /\ curve' \in Seq(ScoreOf) /\ Len(curve') = g + 1
        /\ \A i \in 1..g : curve'[i] = curve[i]
        /\ curve'[g + 1] = e
    BY <2>1, <1>3, <1>4, AppendProperties
  <2>. QED BY <2>2, LenProperties
<1>6. ShapeInv'
  <2>1. TypeOK'
    <3>1. Len(curve') <= Segments
      BY <1>2, <1>3, <1>5
    <3>. QED BY <1>2, <3>1 DEF IInv, ShapeInv, TypeOK, Whole
  <2>. QED BY <1>2, <1>5, <2>1 DEF IInv, ShapeInv
<1>7. (PhaseInv /\ GuardInv /\ FreshInv)'
  BY <1>2 DEF IInv, PhaseInv, GuardInv, FreshInv, TrainingPoints, CellPoints
<1>8. CurveInv'
  <2>1. \A i \in DOMAIN curve' : i \in DOMAIN curve \/ i = g + 1
    BY <1>3, <1>5
  <2>2. TrainingRun' = TrainingRun
    BY <1>2 DEF TrainingRun
  <2>. QED BY <1>2, <1>3, <1>4, <1>5, <2>1, <2>2 DEF IInv, CurveInv
<1>9. WiringInv'
  BY <1>2 DEF IInv, WiringInv, CellPoints, Whole
<1>10. TrainerInv'
  BY <1>2 DEF IInv, TrainerInv
<1>11. CkptInv'
  BY <1>2 DEF IInv, CkptInv, TrainingPoints, Whole, Stack, Checkpoints
<1>12. LoadedInv'
  BY <1>2 DEF IInv, LoadedInv, TrainingRun
<1>13. ResultInv'
  BY <1>2 DEF IInv, ResultInv, Ok, Result, Whole
<1>. QED BY <1>6, <1>7, <1>8, <1>9, <1>10, <1>11, <1>12, <1>13 DEF IInv

LEMMA UseSegmentInv == ASSUME IInv, UseSegment PROVE IInv'
<1>. USE DEF disk, cell
<1>. DEFINE w == Checkpoints[Chosen + 1].content
            l == [weights |-> w, curve |-> curve]
<1>1. /\ pc = "load" /\ ~Scoring /\ Loadable(Chosen) /\ curve' = <<>>
      /\ loaded' = [k \in {Stack} \cup DOMAIN loaded |-> IF k = Stack THEN l ELSE loaded[k]]
      /\ GoOn(wanted \ {Stack})
      /\ UNCHANGED <<cells, ckpt, snapshot, args, seed, segment, trainer,
                     next, live, guard, report, kills, timeouts>>
  BY DEF UseSegment, ToLoad
<1>2. /\ wanted' \subseteq Range(Stacks)
      /\ \/ pc' = "cell"
         \/ pc' = "load" /\ wanted' # {} /\ args.evalOnly
         \/ pc' = "segment" /\ wanted' # {} /\ ~args.evalOnly
  <2>1. wanted \ {Stack} \in SUBSET Range(Stacks)
    BY DEF IInv, ShapeInv, TypeOK
  <2>. QED BY <1>1, <2>1, GoOnFacts
<1>3. /\ curve \in Seq(ScoreOf) /\ Len(curve) \in Nat /\ DOMAIN curve = 1..Len(curve)
      /\ Len(curve) <= Segments /\ Segments \in Nat \ {0}
      /\ args.finalSegment => curve = <<>>
      /\ \A g \in DOMAIN curve : curve[g] \in ScoreOf /\ curve[g].of = TrainingRun
  <2>1. curve \in Seq(ScoreOf) /\ Len(curve) <= Segments
    BY DEF IInv, ShapeInv, TypeOK
  <2>. QED BY <2>1, LenProperties, TrainingAssumption DEF IInv, CurveInv
<1>4. /\ Chosen \in 0..(Segments - 1)
      /\ args.finalSegment => Chosen + 1 = Segments
      /\ curve # <<>> => /\ Chosen + 1 \in DOMAIN curve /\ Len(curve) = Segments
                         /\ \A h \in DOMAIN curve :
                              /\ curve[h].score <= curve[Chosen + 1].score
                              /\ curve[h].score = curve[Chosen + 1].score => Chosen + 1 <= h
  <2>1. CASE args.finalSegment
    BY <2>1, <1>3 DEF Chosen
  <2>2. CASE ~args.finalSegment
    <3>1. Len(curve) = Segments
      <4>1. ~Scoring /\ Len(curve) \in Nat /\ Segments \in Nat /\ Len(curve) <= Segments
        BY <1>1, <1>3
      <4>. QED BY <2>2, <4>1 DEF Scoring
    <3>2. curve # <<>>
      BY <3>1, <1>3, EmptySeq
    <3>3. Chosen = Earliest(curve) - 1 /\ Earliest(curve) \in 1..Segments
      BY <2>2, <3>1, <3>2, <1>3, EarliestFacts DEF Chosen
    <3>4. Chosen + 1 = Earliest(curve)
      BY <3>3
    <3>. QED BY <2>2, <3>1, <3>2, <3>3, <3>4, <1>3, EarliestFacts
  <2>. QED BY <2>1, <2>2
<1>5. /\ Stack \in Range(Stacks) /\ w \in WeightsOf /\ w.seg = Chosen
      /\ w.under = TrainWiring(Stack, Chosen)
      /\ w.beta = Beta(Stack, Chosen, Rounds - 1) /\ w.run = TrainingRun
  BY <1>1, <1>4, LoadFacts
<1>6. SelectedSoundly(Stack, l, args.finalSegment, TrainingRun)
  <2>1. Chosen + 1 = Segments => w.beta = 0
    <3>1. Chosen + 1 = Segments => Chosen = Segments - 1
      <4>1. Chosen \in 0..(Segments - 1) /\ Segments \in Nat
        BY <1>3, <1>4
      <4>. QED BY <4>1
    <3>. HIDE DEF w
    <3>. QED BY <3>1, <1>5, PriorEnds
  <2>2. l.weights = w /\ l.curve = curve
    OBVIOUS
  <2>3. \A g \in DOMAIN curve : curve[g].on = Validation
    BY <1>3 DEF ScoreOf
  <2>. HIDE DEF w, l
  <2>. QED BY <1>3, <1>4, <1>5, <2>1, <2>2, <2>3 DEF SelectedSoundly
<1>. HIDE DEF l
<1>7. /\ DOMAIN loaded' = {Stack} \cup DOMAIN loaded
      /\ \A k \in DOMAIN loaded' : \/ k = Stack /\ loaded'[k] = l
                                   \/ k \in DOMAIN loaded /\ loaded'[k] = loaded[k]
  BY <1>1
<1>8. ShapeInv'
  <2>1. Len(curve') <= Segments /\ curve' \in Seq(ScoreOf)
    BY <1>1, <1>3, EmptySeq
  <2>2. DOMAIN loaded' \subseteq Range(Stacks)
    BY <1>5, <1>7 DEF IInv, ShapeInv, TypeOK
  <2>9. TypeOK'
    BY <1>1, <1>2, <2>1, <2>2 DEF IInv, ShapeInv, TypeOK, Whole
  <2>. QED BY <1>1, <1>2, <2>1, <2>2, <2>9 DEF IInv, ShapeInv
<1>9. (PhaseInv /\ GuardInv /\ CurveInv /\ FreshInv)'
  BY <1>1, <1>2 DEF IInv, PhaseInv, GuardInv, CurveInv, FreshInv, TrainingPoints, CellPoints
<1>10. (WiringInv /\ TrainerInv)'
  BY <1>1, <1>2 DEF IInv, WiringInv, TrainerInv, CellPoints, Whole
<1>11. CkptInv'
  <2>1. segment' = 0
    BY <1>1 DEF IInv, PhaseInv, TrainingPoints
  <2>2. Retrained(Checkpoints', segment', kills')
    BY <2>1 DEF Retrained
  <2>. QED BY <1>1, <1>2, <2>2 DEF IInv, CkptInv, TrainingPoints, Whole
<1>12. LoadedInv'
  <2>1. TrainingRun' = TrainingRun /\ args' = args
    BY <1>1 DEF TrainingRun
  <2>. QED BY <1>6, <1>7, <2>1 DEF IInv, LoadedInv
<1>13. ResultInv'
  BY <1>1, <1>2 DEF IInv, ResultInv, Ok, Result, Whole
<1>. QED BY <1>8, <1>9, <1>10, <1>11, <1>12, <1>13 DEF IInv

\* Where the loops of main lead.
LEMMA AdvanceFacts ==
  ASSUME IInv, Advance
  PROVE  /\ next' \in (1..Len(Order)) \X (1..Len(Levels)) /\ seed' \in Seeds
         /\ pc' \in {"cell", "block", "readout"}
<1>1. next \in (1..Len(Order)) \X (1..Len(Levels)) /\ seed \in Seeds
  BY DEF IInv, ShapeInv, TypeOK
<1>2. Len(Order) \in Nat \ {0} /\ Len(Levels) \in Nat \ {0}
  BY OrderFacts, LevelsFacts
<1>3. CASE next[2] < Len(Levels)
  BY <1>1, <1>2, <1>3 DEF Advance
<1>4. CASE ~(next[2] < Len(Levels)) /\ next[1] < Len(Order)
  BY <1>1, <1>2, <1>4 DEF Advance
<1>5. CASE ~(next[2] < Len(Levels)) /\ ~(next[1] < Len(Order))
  <2>1. next' = <<1, 1>>
    BY <1>5 DEF Advance
  <2>2. CASE LaterSeeds(seed) = {}
    BY <1>1, <1>2, <1>5, <2>1, <2>2 DEF Advance
  <2>3. CASE LaterSeeds(seed) # {}
    <3>1. pc' = "block" /\ seed' = CHOOSE t \in LaterSeeds(seed) :
                                     \A u \in LaterSeeds(seed) : t <= u
      BY <1>5, <2>3 DEF Advance
    <3>2. seed' \in Seeds
      BY <1>1, <2>3, <3>1, SeedFacts
    <3>. QED BY <1>2, <2>1, <3>1, <3>2
  <2>. QED BY <2>2, <2>3
<1>. QED BY <1>3, <1>4, <1>5

\* The cell in hand is a cell of the grid, and its file is where it is looked for.
LEMMA InGrid ==
  ASSUME IInv
  PROVE  /\ Current \in Cell /\ Current[2] = Approach /\ Current[3] = Levels[next[2]]
         /\ seed \in Seeds
BY CurrentInGrid DEF IInv, ShapeInv, TypeOK

LEMMA SkipCellInv == ASSUME IInv, SkipCell PROVE IInv'
<1>. USE DEF disk, train
<1>1. /\ pc = "cell"
      /\ UNCHANGED <<cells, ckpt, snapshot, args, wanted, segment, trainer, curve, loaded,
                     live, wired, guard, report, kills, timeouts>>
  BY DEF SkipCell
<1>2. /\ next' \in (1..Len(Order)) \X (1..Len(Levels)) /\ seed' \in Seeds
      /\ pc' \in {"cell", "block", "readout"}
  BY AdvanceFacts DEF SkipCell
<1>3. ShapeInv'
  <2>1. TypeOK'
    BY <1>1, <1>2 DEF IInv, ShapeInv, TypeOK, Whole
  <2>. QED BY <1>1, <1>2, <2>1 DEF IInv, ShapeInv
<1>4. (PhaseInv /\ GuardInv /\ CurveInv /\ FreshInv)'
  BY <1>1, <1>2 DEF IInv, PhaseInv, GuardInv, CurveInv, FreshInv, TrainingPoints, CellPoints, TrainingRun
<1>5. (WiringInv /\ TrainerInv)'
  BY <1>1, <1>2 DEF IInv, WiringInv, TrainerInv, CellPoints, Whole
<1>6. CkptInv'
  BY <1>1, <1>2 DEF IInv, CkptInv, TrainingPoints, Whole
<1>7. LoadedInv'
  BY <1>1 DEF IInv, LoadedInv, TrainingRun
<1>8. ResultInv'
  BY <1>1, <1>2 DEF IInv, ResultInv, Ok, Result, Whole
<1>. QED BY <1>3, <1>4, <1>5, <1>6, <1>7, <1>8 DEF IInv

\* Three ways into a cell, with what each leaves for the evaluation.
LEMMA StartCellFacts ==
  ASSUME IInv, StartCell
  PROVE  /\ pc = "cell" /\ ~Exists(cells[Current]) /\ HasStack
         /\ live' = [store |-> live'.store, alarm |-> TRUE, out |-> Unset, saved |-> DefaultGuard]
         /\ \/ /\ pc' = "evaluate" /\ wired'.level = Levels[next[2]] /\ wired'.inst = EvalInstance
               /\ guard' = GuardFor(Approach) /\ MemoryFor(Approach, live'.store)
            \/ /\ pc' = "warm" /\ Remembers /\ wired'.level = TrainingLevel
               /\ guard' = GuardFor(Approach) /\ ~Whole(snapshot[seed])
<1>1. pc = "cell" /\ ~Exists(cells[Current]) /\ HasStack /\ guard = DefaultGuard
  BY DEF StartCell, Banked, IInv, GuardInv, CellPoints
<1>2. ASSUME NEW store, Begin(store)
      PROVE  /\ pc' = "evaluate" /\ wired'.level = Levels[next[2]] /\ wired'.inst = EvalInstance
             /\ guard' = GuardFor(Approach)
             /\ live' = [store |-> store, alarm |-> TRUE, out |-> Unset, saved |-> DefaultGuard]
  <2>1. Current[3] = Levels[next[2]]
    BY InGrid
  <2>. QED BY <1>1, <1>2, <2>1 DEF Begin, Wired, NoCell, GuardOf, GuardFor
<1>3. CASE ~Remembers /\ Begin(Unset)
  <2>1. MemoryFor(Approach, Unset)
    BY <1>3 DEF MemoryFor, Remembers
  <2>2. /\ pc' = "evaluate" /\ wired'.level = Levels[next[2]] /\ wired'.inst = EvalInstance
        /\ guard' = GuardFor(Approach)
        /\ live' = [store |-> Unset, alarm |-> TRUE, out |-> Unset, saved |-> DefaultGuard]
    BY <1>2, <1>3
  <2>3. live'.store = Unset
    BY <2>2
  <2>. QED BY <1>1, <2>1, <2>2, <2>3
<1>4. CASE Remembers /\ Whole(snapshot[seed]) /\ Begin(snapshot[seed].content)
  <2>. DEFINE store == snapshot[seed].content
  <2>1. MemoryFor(Approach, store)
    <3>1. Warmed(snapshot[seed].content)
      BY <1>4, InGrid DEF IInv, WiringInv
    <3>. QED BY <1>4, <3>1 DEF MemoryFor, Remembers
  <2>. HIDE DEF store
  <2>2. /\ pc' = "evaluate" /\ wired'.level = Levels[next[2]] /\ wired'.inst = EvalInstance
        /\ guard' = GuardFor(Approach)
        /\ live' = [store |-> store, alarm |-> TRUE, out |-> Unset, saved |-> DefaultGuard]
    BY <1>2, <1>4 DEF store
  <2>3. live'.store = store
    BY <2>2
  <2>. QED BY <1>1, <2>1, <2>2, <2>3
<1>5. CASE /\ Remembers /\ snapshot[seed] = Absent
           /\ wired' = Wired(TrainingLevel, EvalInstance)
           /\ live' = [NoCell EXCEPT !.alarm = TRUE, !.saved = guard]
           /\ pc' = "warm" /\ UNCHANGED guard
  <2>1. GuardFor(Approach) = DefaultGuard
    BY <1>5, GuardNames DEF Remembers, GuardFor
  <2>2. live' = [store |-> Unset, alarm |-> TRUE, out |-> Unset, saved |-> DefaultGuard]
    BY <1>1, <1>5 DEF NoCell
  <2>3. wired'.level = TrainingLevel /\ ~Whole(snapshot[seed])
    BY <1>5 DEF Wired, Whole, Absent
  <2>4. live'.store = Unset
    BY <2>2
  <2>. QED BY <1>1, <1>5, <2>1, <2>2, <2>3, <2>4
<1>. QED BY <1>3, <1>4, <1>5 DEF StartCell

LEMMA StartCellInv == ASSUME IInv, StartCell PROVE IInv'
<1>. USE DEF disk, train
<1>1. UNCHANGED <<cells, ckpt, snapshot, args, seed, wanted, segment, trainer, curve, loaded,
                  next, report, kills, timeouts>>
  BY DEF StartCell
<1>2. /\ pc = "cell" /\ ~Exists(cells[Current]) /\ HasStack
      /\ live' = [store |-> live'.store, alarm |-> TRUE, out |-> Unset, saved |-> DefaultGuard]
      /\ live'.saved = DefaultGuard /\ live' = [store |-> live'.store, alarm |-> live'.alarm,
                                                out |-> live'.out, saved |-> live'.saved]
      /\ \/ /\ pc' = "evaluate" /\ wired'.level = Levels[next[2]] /\ wired'.inst = EvalInstance
            /\ guard' = GuardFor(Approach) /\ MemoryFor(Approach, live'.store)
         \/ /\ pc' = "warm" /\ Remembers /\ wired'.level = TrainingLevel
            /\ guard' = GuardFor(Approach) /\ ~Whole(snapshot[seed])
  <2>1. live' = [store |-> live'.store, alarm |-> TRUE, out |-> Unset, saved |-> DefaultGuard]
    BY StartCellFacts
  <2>2. live'.saved = DefaultGuard /\ live' = [store |-> live'.store, alarm |-> live'.alarm,
                                                out |-> live'.out, saved |-> live'.saved]
    BY <2>1
  <2>. QED BY <2>1, <2>2, StartCellFacts
<1>3. Current' = Current /\ Approach' = Approach /\ HasStack' = HasStack /\ Remembers' = Remembers
  BY <1>1 DEF Current, Approach, HasStack, Remembers
<1>4. ShapeInv'
  <2>1. TypeOK'
    BY <1>1, <1>2 DEF IInv, ShapeInv, TypeOK, Whole
  <2>. QED BY <1>1, <1>2, <2>1 DEF IInv, ShapeInv
<1>5. (PhaseInv /\ CurveInv)'
  BY <1>1, <1>2 DEF IInv, PhaseInv, CurveInv, TrainingPoints, TrainingRun
<1>6. (GuardInv /\ FreshInv)'
  BY <1>1, <1>2, <1>3 DEF IInv, GuardInv, FreshInv, CellPoints, Whole, Exists
<1>7. WiringInv'
  BY <1>1, <1>2, <1>3 DEF IInv, WiringInv, CellPoints, Whole
<1>8. TrainerInv'
  BY <1>1, <1>2 DEF IInv, TrainerInv
<1>9. CkptInv'
  BY <1>1, <1>2 DEF IInv, CkptInv, TrainingPoints, Whole
<1>10. LoadedInv'
  BY <1>1 DEF IInv, LoadedInv, TrainingRun
<1>11. ResultInv'
  BY <1>1, <1>2 DEF IInv, ResultInv, Ok, Result, Whole
<1>. QED BY <1>4, <1>5, <1>6, <1>7, <1>8, <1>9, <1>10, <1>11 DEF IInv

LEMMA WarmStoreInv == ASSUME IInv, WarmStore PROVE IInv'
<1>. USE DEF disk, train
<1>. DEFINE store == [level |-> wired.level, by |-> loaded[StackFor(Approach)].weights.run]
<1>1. /\ pc = "warm" /\ pc' = "snapshot"
      /\ live' = [live EXCEPT !.store = store]
      /\ snapshot' = [snapshot EXCEPT ![seed] = Torn]
      /\ UNCHANGED <<cells, ckpt, args, seed, wanted, segment, trainer, curve, loaded,
                     next, wired, guard, report, kills, timeouts>>
  BY DEF WarmStore
<1>2. Warmed(store)
  <2>1. wired.level = TrainingLevel
    BY <1>1 DEF IInv, WiringInv
  <2>2. DOMAIN store # DOMAIN Unset
    BY DEF Unset
  <2>. QED BY <2>1, <2>2 DEF Warmed
<1>. HIDE DEF store
<1>3. /\ live'.store = store /\ live'.saved = DefaultGuard /\ live'.out = live.out
      /\ live' = [store |-> live'.store, alarm |-> live'.alarm,
                  out |-> live'.out, saved |-> live'.saved]
  BY <1>1 DEF IInv, ShapeInv, GuardInv
<1>4. /\ DOMAIN snapshot' = Seeds /\ snapshot'[seed] = Torn
      /\ \A s \in Seeds : s # seed => snapshot'[s] = snapshot[s]
  BY <1>1, InGrid DEF IInv, ShapeInv
<1>5. ~Whole(Torn) /\ Torn.file = "torn"
  BY DEF Whole, Torn
<1>6. Current' = Current /\ Approach' = Approach /\ HasStack' = HasStack /\ Remembers' = Remembers
  BY <1>1 DEF Current, Approach, HasStack, Remembers
<1>7. ShapeInv'
  <2>1. \A s \in Seeds : snapshot'[s].file \in {"absent", "torn", "whole"}
    BY <1>4, <1>5 DEF IInv, ShapeInv, TypeOK
  <2>9. TypeOK'
    BY <1>1, <1>3, <1>4, <2>1 DEF IInv, ShapeInv, TypeOK, Whole
  <2>. QED BY <1>1, <1>3, <1>4, <2>1, <2>9 DEF IInv, ShapeInv
<1>8. (PhaseInv /\ CurveInv)'
  BY <1>1 DEF IInv, PhaseInv, CurveInv, TrainingPoints, TrainingRun
<1>9. (GuardInv /\ FreshInv)'
  BY <1>1, <1>3, <1>4, <1>5, <1>6 DEF IInv, GuardInv, FreshInv, CellPoints, Whole, Exists
<1>10. WiringInv'
  <2>1. \A s \in Seeds : Whole(snapshot'[s]) => Warmed(snapshot'[s].content)
    BY <1>4, <1>5 DEF IInv, WiringInv
  <2>. QED BY <1>1, <1>2, <1>3, <1>6, <2>1 DEF IInv, WiringInv, CellPoints, Whole
<1>11. TrainerInv'
  BY <1>1 DEF IInv, TrainerInv
<1>12. CkptInv'
  BY <1>1 DEF IInv, CkptInv, TrainingPoints, Whole
<1>13. LoadedInv'
  BY <1>1 DEF IInv, LoadedInv, TrainingRun
<1>14. ResultInv'
  BY <1>1 DEF IInv, ResultInv, Ok, Result, Whole
<1>. QED BY <1>7, <1>8, <1>9, <1>10, <1>11, <1>12, <1>13, <1>14 DEF IInv

LEMMA SaveStoreInv == ASSUME IInv, SaveStore PROVE IInv'
<1>. USE DEF disk, train, cell
<1>1. /\ pc = "snapshot" /\ pc' = "evaluate"
      /\ snapshot' = [snapshot EXCEPT ![seed] = File(live.store)]
      /\ wired' = Wired(Current[3], EvalInstance)
      /\ UNCHANGED <<cells, ckpt, args, seed, wanted, segment, trainer, curve, loaded,
                     next, live, guard, report, kills, timeouts>>
  BY DEF SaveStore
<1>2. /\ Warmed(live.store) /\ Remembers /\ HasStack
      /\ wired'.level = Levels[next[2]] /\ wired'.inst = EvalInstance
  BY <1>1, InGrid DEF IInv, WiringInv, Wired, CellPoints
<1>3. /\ DOMAIN snapshot' = Seeds /\ snapshot'[seed] = File(live.store)
      /\ \A s \in Seeds : s # seed => snapshot'[s] = snapshot[s]
  BY <1>1, InGrid DEF IInv, ShapeInv
<1>4. File(live.store).file = "whole" /\ File(live.store).content = live.store
  BY DEF File
<1>5. Current' = Current /\ Approach' = Approach /\ HasStack' = HasStack /\ Remembers' = Remembers
  BY <1>1 DEF Current, Approach, HasStack, Remembers
<1>6. ShapeInv'
  <2>1. \A s \in Seeds : snapshot'[s].file \in {"absent", "torn", "whole"}
    BY <1>3, <1>4 DEF IInv, ShapeInv, TypeOK
  <2>9. TypeOK'
    BY <1>1, <1>3, <2>1 DEF IInv, ShapeInv, TypeOK, Whole
  <2>. QED BY <1>1, <1>3, <2>1, <2>9 DEF IInv, ShapeInv
<1>7. (PhaseInv /\ CurveInv)'
  BY <1>1 DEF IInv, PhaseInv, CurveInv, TrainingPoints, TrainingRun
<1>8. (GuardInv /\ FreshInv)'
  BY <1>1, <1>5 DEF IInv, GuardInv, FreshInv, CellPoints, Whole, Exists
<1>9. WiringInv'
  <2>1. \A s \in Seeds : Whole(snapshot'[s]) => Warmed(snapshot'[s].content)
    BY <1>2, <1>3, <1>4 DEF IInv, WiringInv
  <2>2. MemoryFor(Approach, live.store)
    BY <1>2 DEF MemoryFor, Remembers
  <2>. QED BY <1>1, <1>2, <1>5, <2>1, <2>2 DEF WiringInv, CellPoints, Whole
<1>10. TrainerInv'
  BY <1>1 DEF IInv, TrainerInv
<1>11. CkptInv'
  BY <1>1 DEF IInv, CkptInv, TrainingPoints, Whole
<1>12. LoadedInv'
  BY <1>1 DEF IInv, LoadedInv, TrainingRun
<1>13. ResultInv'
  BY <1>1 DEF IInv, ResultInv, Ok, Result, Whole
<1>. QED BY <1>6, <1>7, <1>8, <1>9, <1>10, <1>11, <1>12, <1>13 DEF IInv

\* The end of a cell, however it ended: its globals are back, its file is open.
LEMMA LeaveInv ==
  ASSUME IInv, pc \in CellPoints, NEW out, Leave(out),
         out.status = "ok" => SaysWhatRan(out, Current),
         UNCHANGED <<ckpt, snapshot, args, seed, train, loaded, next, wired, report, kills>>,
         timeouts' \in 0..MaxTimeouts
  PROVE  IInv'
<1>. USE DEF train
<1>1. /\ pc' = "bank" /\ guard' = DefaultGuard /\ cells' = [cells EXCEPT ![Current] = Torn]
      /\ live' = [live EXCEPT !.alarm = FALSE, !.out = out]
  BY DEF Leave, IInv, GuardInv
<1>2. /\ live'.saved = DefaultGuard /\ live'.out = out
      /\ live' = [store |-> live'.store, alarm |-> live'.alarm,
                  out |-> live'.out, saved |-> live'.saved]
  BY <1>1 DEF IInv, ShapeInv, GuardInv
<1>3. /\ DOMAIN cells' = Cell /\ Current \in Cell /\ cells'[Current] = Torn
      /\ \A c \in Cell : c # Current => cells'[c] = cells[c]
  BY <1>1, InGrid DEF IInv, ShapeInv, TypeOK
<1>4. ~Whole(Torn) /\ Torn.file = "torn"
  BY DEF Whole, Torn
<1>5. Current' = Current
  BY DEF Current
<1>6. pc \notin TrainingPoints \cup {"load"} /\ pc' \notin TrainingPoints \cup CellPoints \cup {"load"}
  BY <1>1 DEF CellPoints, TrainingPoints
<1>7. ShapeInv'
  <2>1. \A c \in Cell : cells'[c].file \in {"absent", "torn", "whole"}
    BY <1>3, <1>4 DEF IInv, ShapeInv, TypeOK
  <2>9. TypeOK'
    BY <1>1, <1>2, <1>3, <2>1 DEF IInv, ShapeInv, TypeOK, Whole
  <2>. QED BY <1>1, <1>2, <1>3, <2>1, <2>9 DEF IInv, ShapeInv
<1>8. (PhaseInv /\ CurveInv)'
  BY <1>6 DEF IInv, PhaseInv, CurveInv, TrainingRun
<1>9. (GuardInv /\ FreshInv)'
  BY <1>1, <1>2, <1>3, <1>4, <1>5, <1>6 DEF GuardInv, FreshInv, CellPoints
<1>10. (WiringInv /\ TrainerInv)'
  BY <1>1, <1>6 DEF IInv, WiringInv, TrainerInv, CellPoints, Whole
<1>11. CkptInv'
  BY <1>6 DEF IInv, CkptInv, Whole
<1>12. LoadedInv'
  BY DEF IInv, LoadedInv, TrainingRun
<1>13. ResultInv'
  <2>1. \A c \in Cell : Ok(c)' => Ok(c) /\ Result(c)' = Result(c)
    BY <1>3, <1>4 DEF Ok, Result, Whole
  <2>. QED BY <1>1, <1>2, <1>5, <2>1 DEF IInv, ResultInv
<1>. QED BY <1>7, <1>8, <1>9, <1>10, <1>11, <1>12, <1>13 DEF IInv

LEMMA EvaluateInv == ASSUME IInv, Evaluate PROVE IInv'
<1>1. /\ pc = "evaluate" /\ Leave(Ran)
      /\ UNCHANGED <<ckpt, snapshot, args, seed, train, loaded, next, wired, report, kills, timeouts>>
  BY DEF Evaluate
<1>2. /\ wired.level = Levels[next[2]] /\ wired.inst = EvalInstance /\ HasStack
      /\ MemoryFor(Approach, live.store) /\ guard = GuardFor(Approach)
  BY <1>1 DEF IInv, WiringInv, GuardInv, CellPoints
<1>3. Approach \in Trained =>
        \E g : loaded[StackFor(Approach)].weights.under = TrainWiring(StackFor(Approach), g)
  BY <1>2 DEF HasStack, IInv, LoadedInv, SelectedSoundly
<1>4. /\ Ran.level = wired.level /\ Ran.inst = wired.inst /\ Ran.guard = guard
      /\ Ran.source = PlanSource(Approach) /\ Ran.executed = ExecutedBy(Approach)
      /\ Ran.store = live.store
      /\ Approach \in Trained => Ran.stack = loaded[StackFor(Approach)]
  BY DEF Ran
<1>5. SaysWhatRan(Ran, Current)
  BY <1>2, <1>3, <1>4, InGrid DEF SaysWhatRan
<1>6. pc \in CellPoints /\ timeouts' \in 0..MaxTimeouts
  BY <1>1 DEF CellPoints, IInv, ShapeInv, TypeOK
<1>. QED BY <1>1, <1>5, <1>6, LeaveInv

LEMMA TimeoutInv == ASSUME IInv, Timeout PROVE IInv'
<1>. DEFINE out == [status |-> "timeout"]
<1>1. /\ pc \in CellPoints /\ Leave(out) /\ timeouts' = timeouts + 1 /\ timeouts < MaxTimeouts
      /\ UNCHANGED <<ckpt, snapshot, args, seed, train, loaded, next, wired, report, kills>>
  BY DEF Timeout, CellPoints
<1>2. out.status # "ok"
  OBVIOUS
<1>3. timeouts' \in 0..MaxTimeouts
  <2>1. timeouts \in 0..MaxTimeouts /\ MaxTimeouts \in Nat
    BY ArgumentAssumption DEF IInv, ShapeInv, TypeOK
  <2>. QED BY <1>1, <2>1
<1>. HIDE DEF out
<1>. QED BY <1>1, <1>2, <1>3, LeaveInv

LEMMA TimeoutSwallowedInv == ASSUME IInv, TimeoutSwallowed PROVE IInv'
<1>. USE DEF disk, train
<1>1. /\ pc = "evaluate" /\ timeouts < MaxTimeouts /\ timeouts' = timeouts + 1
      /\ live' = [live EXCEPT !.alarm = FALSE]
      /\ UNCHANGED <<cells, ckpt, snapshot, args, pc, seed, wanted, segment, trainer, curve, loaded,
                     next, wired, guard, report, kills>>
  BY DEF TimeoutSwallowed
<1>2. /\ live'.saved = DefaultGuard /\ live'.out = live.out /\ live'.store = live.store
      /\ live' = [store |-> live'.store, alarm |-> live'.alarm,
                  out |-> live'.out, saved |-> live'.saved]
  BY <1>1 DEF IInv, ShapeInv, GuardInv
<1>3. timeouts' \in 0..MaxTimeouts
  <2>1. timeouts \in 0..MaxTimeouts /\ MaxTimeouts \in Nat
    BY ArgumentAssumption DEF IInv, ShapeInv, TypeOK
  <2>. QED BY <1>1, <2>1
<1>4. Current' = Current /\ Approach' = Approach /\ HasStack' = HasStack /\ Remembers' = Remembers
  BY <1>1 DEF Current, Approach, HasStack, Remembers
<1>5. ShapeInv'
  <2>1. TypeOK'
    BY <1>1, <1>2, <1>3 DEF IInv, ShapeInv, TypeOK, Whole
  <2>. QED BY <1>1, <1>2, <1>3, <2>1 DEF IInv, ShapeInv
<1>6. (PhaseInv /\ CurveInv)'
  BY <1>1 DEF IInv, PhaseInv, CurveInv, TrainingPoints, TrainingRun
<1>7. (GuardInv /\ FreshInv)'
  BY <1>1, <1>2, <1>4 DEF IInv, GuardInv, FreshInv, CellPoints, Whole, Exists
<1>8. WiringInv'
  BY <1>1, <1>2, <1>4 DEF IInv, WiringInv, CellPoints, Whole
<1>9. TrainerInv'
  BY <1>1 DEF IInv, TrainerInv
<1>10. CkptInv'
  BY <1>1 DEF IInv, CkptInv, TrainingPoints, Whole
<1>11. LoadedInv'
  BY <1>1 DEF IInv, LoadedInv, TrainingRun
<1>12. ResultInv'
  BY <1>1 DEF IInv, ResultInv, Ok, Result, Whole
<1>. QED BY <1>5, <1>6, <1>7, <1>8, <1>9, <1>10, <1>11, <1>12 DEF IInv

LEMMA BankInv == ASSUME IInv, Bank PROVE IInv'
<1>. USE DEF train
<1>. DEFINE file == File([knob |-> guard, result |-> live.out])
<1>1. /\ pc = "bank" /\ cells' = [cells EXCEPT ![Current] = file] /\ live' = NoCell
      /\ UNCHANGED <<ckpt, snapshot, args, wanted, segment, trainer, curve, loaded,
                     wired, guard, report, kills, timeouts>>
  BY DEF Bank
<1>2. /\ next' \in (1..Len(Order)) \X (1..Len(Levels)) /\ seed' \in Seeds
      /\ pc' \in {"cell", "block", "readout"}
  BY AdvanceFacts DEF Bank
<1>3. file.file = "whole" /\ file.content.result = live.out
  BY DEF File
<1>. HIDE DEF file
<1>4. /\ DOMAIN cells' = Cell /\ Current \in Cell /\ cells'[Current] = file
      /\ \A c \in Cell : c # Current => cells'[c] = cells[c]
  BY <1>1, InGrid DEF IInv, ShapeInv, TypeOK
<1>5. ShapeInv'
  <2>1. \A c \in Cell : cells'[c].file \in {"absent", "torn", "whole"}
    BY <1>3, <1>4 DEF IInv, ShapeInv, TypeOK
  <2>9. TypeOK'
    BY <1>1, <1>2, <1>4, <2>1 DEF IInv, ShapeInv, TypeOK, Whole, NoCell
  <2>. QED BY <1>1, <1>2, <1>4, <2>1, <2>9 DEF IInv, ShapeInv, NoCell
<1>6. (PhaseInv /\ GuardInv /\ CurveInv /\ FreshInv)'
  BY <1>1, <1>2 DEF IInv, PhaseInv, GuardInv, CurveInv, FreshInv, TrainingPoints, CellPoints,
                    TrainingRun, NoCell
<1>7. (WiringInv /\ TrainerInv)'
  BY <1>1, <1>2 DEF IInv, WiringInv, TrainerInv, CellPoints, Whole
<1>8. CkptInv'
  BY <1>1, <1>2 DEF IInv, CkptInv, TrainingPoints, Whole
<1>9. LoadedInv'
  BY <1>1 DEF IInv, LoadedInv, TrainingRun
<1>10. ResultInv'
  <2>1. ASSUME NEW c \in Cell, Ok(c)' PROVE SaysWhatRan(Result(c)', c)
    <3>1. CASE c = Current
      <4>1. Result(c)' = live.out
        BY <3>1, <1>3, <1>4 DEF Result
      <4>2. live.out.status = "ok"
        BY <2>1, <4>1 DEF Ok
      <4>. QED BY <1>1, <3>1, <4>1, <4>2 DEF IInv, ResultInv
    <3>2. CASE c # Current
      <4>1. Ok(c) /\ Result(c)' = Result(c)
        BY <2>1, <3>2, <1>4 DEF Ok, Result, Whole
      <4>. QED BY <4>1 DEF IInv, ResultInv
    <3>. QED BY <3>1, <3>2
  <2>. QED BY <1>2, <2>1 DEF ResultInv
<1>. QED BY <1>5, <1>6, <1>7, <1>8, <1>9, <1>10 DEF IInv

LEMMA ReadoutInv == ASSUME IInv, Readout PROVE IInv'
<1>. USE DEF disk, train, cell
<1>1. /\ pc = "readout" /\ pc' = "done"
      /\ UNCHANGED <<cells, ckpt, snapshot, args, seed, wanted, segment, trainer, curve, loaded,
                     next, live, wired, guard, kills, timeouts>>
  BY DEF Readout
<1>2. ShapeInv'
  <2>1. TypeOK'
    BY <1>1 DEF IInv, ShapeInv, TypeOK, Whole
  <2>. QED BY <1>1, <2>1 DEF IInv, ShapeInv
<1>3. (PhaseInv /\ GuardInv /\ CurveInv /\ FreshInv)'
  BY <1>1 DEF IInv, PhaseInv, GuardInv, CurveInv, FreshInv, TrainingPoints, CellPoints, TrainingRun
<1>4. (WiringInv /\ TrainerInv)'
  BY <1>1 DEF IInv, WiringInv, TrainerInv, CellPoints, Whole
<1>5. CkptInv'
  BY <1>1 DEF IInv, CkptInv, TrainingPoints, Whole
<1>6. LoadedInv'
  BY <1>1 DEF IInv, LoadedInv, TrainingRun
<1>7. ResultInv'
  BY <1>1 DEF IInv, ResultInv, Ok, Result, Whole
<1>. QED BY <1>2, <1>3, <1>4, <1>5, <1>6, <1>7 DEF IInv

\* Nothing happened.
LEMMA StutterInv == ASSUME IInv, UNCHANGED vars PROVE IInv'
<1>. USE DEF vars, disk, train, cell
<1>1. ShapeInv'
  <2>1. TypeOK'
    BY DEF IInv, ShapeInv, TypeOK, Whole
  <2>. QED BY <2>1 DEF IInv, ShapeInv
<1>2. (PhaseInv /\ GuardInv /\ CurveInv /\ FreshInv)'
  BY DEF IInv, PhaseInv, GuardInv, CurveInv, FreshInv, Approach, Current, TrainingRun, Whole, Exists
<1>3. (WiringInv /\ TrainerInv)'
  BY DEF IInv, WiringInv, TrainerInv, Whole, Stack, Approach, HasStack, Remembers
<1>4. CkptInv'
  BY DEF IInv, CkptInv, Whole, Stack, Checkpoints
<1>5. LoadedInv'
  BY DEF IInv, LoadedInv, TrainingRun
<1>6. ResultInv'
  BY DEF IInv, ResultInv, Ok, Result, Whole, Current
<1>. QED BY <1>1, <1>2, <1>3, <1>4, <1>5, <1>6 DEF IInv

LEMMA NextInv == ASSUME IInv, [Next]_vars PROVE IInv'
<1>1. kills \in 0..MaxKills /\ MaxKills \in Nat
  BY ArgumentAssumption DEF IInv, ShapeInv, TypeOK
<1>2. CASE Launch \/ Block \/ Readout
  BY <1>2, LaunchInv, BlockInv, ReadoutInv
<1>3. CASE Training
  BY <1>3, StartSegmentInv, TrainRoundInv, OpenCheckpointInv, WriteCheckpointInv DEF Training
<1>4. CASE RefuseLoad \/ CellError \/ ReadoutError
  <2>1. Gone /\ UNCHANGED <<disk, kills, timeouts>>
    BY <1>4 DEF RefuseLoad, CellError, ReadoutError
  <2>. QED BY <1>1, <2>1, GoneInv
<1>5. CASE ScoreSegment \/ UseSegment
  BY <1>5, ScoreSegmentInv, UseSegmentInv
<1>6. CASE SkipCell \/ StartCell \/ WarmStore \/ SaveStore \/ Evaluate \/ Bank
  BY <1>6, SkipCellInv, StartCellInv, WarmStoreInv, SaveStoreInv, EvaluateInv, BankInv
<1>7. CASE Timeout \/ TimeoutSwallowed
  BY <1>7, TimeoutInv, TimeoutSwallowedInv
<1>8. CASE Kill
  <2>1. Gone /\ UNCHANGED <<disk, timeouts>> /\ kills < MaxKills /\ kills' = kills + 1
    BY <1>8 DEF Kill
  <2>2. kills' \in 0..MaxKills
    BY <1>1, <2>1
  <2>. QED BY <2>1, <2>2, GoneInv
<1>9. CASE UNCHANGED vars
  BY <1>9, StutterInv
<1>. QED BY <1>2, <1>3, <1>4, <1>5, <1>6, <1>7, <1>8, <1>9 DEF Next, Work, Loading, Running

\* The inductive invariant holds throughout: what the globals hold, which files
\* the training in hand wrote, and what has been collected under it.
THEOREM IInvHolds == Spec => []IInv
<1>1. Init => IInv
  BY InitInv
<1>2. IInv /\ [Next]_vars => IInv'
  BY NextInv
<1>. QED BY <1>1, <1>2, PTL DEF Spec

\* Every variable keeps its type, whatever is killed or times out.
THEOREM TypeCorrect == Spec => []TypeOK
<1>1. IInv => TypeOK
  BY DEF IInv, ShapeInv
<1>. QED BY <1>1, IInvHolds, PTL

\* What the curriculum says of a wiring is in it.
LEMMA WiringFields ==
  ASSUME NEW k, NEW g
  PROVE  [builder |-> TrainWiring(k, g).builder, train |-> TrainWiring(k, g).train,
          fixed |-> TrainWiring(k, g).fixed] = Curriculum(k)
BY DEF TrainWiring, Curriculum

\* A banked result says what ran: level, instance, guard, stack and memory.
THEOREM CellsSayWhatRan == Spec => []CellSaysWhatRan
<1>1. IInv => CellSaysWhatRan
  <2>. SUFFICES ASSUME IInv, NEW c \in Cell, Ok(c)
                PROVE  /\ Result(c).level = c[3] /\ Result(c).inst = EvalInstance
                       /\ Result(c).guard = IF c[2] \in DOMAIN Guarded THEN Guarded[c[2]] ELSE DefaultGuard
                       /\ c[2] \in Trained =>
                            LET w == Result(c).stack.weights.under
                            IN  [builder |-> w.builder, train |-> w.train, fixed |-> w.fixed]
                                  = Curriculum(StackFor(c[2]))
                       /\ c[2] \in MemoryLLM /\ WarmUp => Result(c).store.level = TrainingLevel
    BY DEF CellSaysWhatRan
  <2>1. SaysWhatRan(Result(c), c)
    BY DEF IInv, ResultInv
  <2>2. ASSUME c[2] \in Trained
        PROVE  LET w == Result(c).stack.weights.under
               IN  [builder |-> w.builder, train |-> w.train, fixed |-> w.fixed]
                     = Curriculum(StackFor(c[2]))
    <3>1. PICK g : Result(c).stack.weights.under = TrainWiring(StackFor(c[2]), g)
      BY <2>1, <2>2 DEF SaysWhatRan
    <3>. QED BY <3>1, WiringFields
  <2>. QED BY <2>1, <2>2 DEF SaysWhatRan, GuardFor, MemoryFor, Warmed
<1>. QED BY <1>1, IInvHolds, PTL

\* What a variant and the approach it is the twin of have in common by name.
LEMMA TwinNames ==
  ASSUME NEW a \in DOMAIN RepairBase
  PROVE  LET b == VariantBase(a) IN
         /\ a \notin DOMAIN Guarded /\ b \notin DOMAIN Guarded
         /\ PlanSource(a) = "agent_b" /\ PlanSource(b) = "agent_b"
         /\ ExecutedBy(b) = "advised"
         /\ ExecutedBy(a) = IF a \in FPApproaches THEN "follow_prior" ELSE "advised"
         /\ a \in Trained /\ b \in Trained /\ StackFor(a) = StackFor(b)
         /\ a \in MemoryLLM <=> b \in MemoryLLM
<1>. DEFINE b == VariantBase(a)
<1>1. /\ a \in OfFull \cup OfMemoryOff
      /\ a \in OfFull => b = "Full"
      /\ a \notin OfFull => b = "Memory-off"
  BY DEF VariantBase, RepairBase
<1>2. VariantBase("Full") = "Full" /\ VariantBase("Memory-off") = "Memory-off"
  BY DEF VariantBase, RepairBase, OfFull, OfMemoryOff
<1>3. a \in MemoryLLM <=> b \in MemoryLLM
  BY <1>1 DEF MemoryLLM, OfFull, OfMemoryOff
<1>. HIDE DEF b
<1>4. a \in Advised /\ b \in Advised
  BY <1>1 DEF Advised, NonmemoryLLM, MemoryLLM
<1>5. b \notin FPApproaches
  BY <1>1 DEF FPApproaches
<1>6. \A x \in Advised : x # "Plain" /\ x \notin Heuristics /\ x \notin DOMAIN Guarded
  BY DEF Advised, NonmemoryLLM, MemoryLLM, OfFull, OfMemoryOff, Heuristics, Guarded
<1>7. \A x \in Advised : PlanSource(x) = "agent_b"
  <2>. TAKE x \in Advised
  <2>1. x # "Plain" /\ x # "MDO-fullobs" /\ x # "MDO-ffd"
    BY <1>6 DEF Heuristics
  <2>. QED BY <2>1 DEF PlanSource
<1>8. \A x \in Advised : ExecutedBy(x) = IF x \in FPApproaches THEN "follow_prior" ELSE "advised"
  <2>. TAKE x \in Advised
  <2>1. ExecutedBy(x) = MdoMode(x)
    BY <1>6 DEF ExecutedBy
  <2>2. CASE x \in FPApproaches
    BY <2>1, <2>2 DEF MdoMode
  <2>3. CASE x \notin FPApproaches
    BY <2>1, <2>3 DEF MdoMode
  <2>. QED BY <2>2, <2>3
<1>9. StackFor(a) = "llm_guided" /\ StackFor(b) = "llm_guided"
  <2>1. VariantBase(a) \in {"Memory-off", "Full"} /\ VariantBase(b) \in {"Memory-off", "Full"}
    BY <1>1, <1>2 DEF b
  <2>2. \A x : VariantBase(x) \in {"Memory-off", "Full"} => StackFor(x) = "llm_guided"
    BY DEF StackFor
  <2>. QED BY <2>1, <2>2
<1>. QED BY <1>3, <1>4, <1>5, <1>6, <1>7, <1>8, <1>9 DEF Trained, b

\* Twins differ in the repair and the decoding their names say, and in nothing else.
THEOREM TwinsDiffer == Spec => []TwinsDifferAsNamed
<1>1. IInv => TwinsDifferAsNamed
  <2>. SUFFICES ASSUME IInv, NEW c \in Cell, NEW d \in Cell, Ok(c), Ok(d),
                       c[1] = d[1], c[3] = d[3], c[2] # d[2], d[2] = VariantBase(c[2])
                PROVE  /\ \A f \in {"level", "inst", "guard", "source"} : Result(c)[f] = Result(d)[f]
                       /\ Result(c).executed = IF c[2] \in FPApproaches THEN "follow_prior"
                                               ELSE Result(d).executed
                       /\ Result(c).stack.weights.under.train = Result(d).stack.weights.under.train
                       /\ Result(c).store # Unset <=> Result(d).store # Unset
    BY DEF TwinsDifferAsNamed
  <2>. DEFINE a == c[2]  b == d[2]
  <2>1. a \in DOMAIN RepairBase
    BY DEF VariantBase
  <2>2. /\ a \notin DOMAIN Guarded /\ b \notin DOMAIN Guarded
        /\ PlanSource(a) = PlanSource(b) /\ ExecutedBy(b) = "advised"
        /\ ExecutedBy(a) = IF a \in FPApproaches THEN "follow_prior" ELSE "advised"
        /\ a \in Trained /\ b \in Trained /\ StackFor(a) = StackFor(b)
        /\ a \in MemoryLLM <=> b \in MemoryLLM
    BY <2>1, TwinNames
  <2>3. SaysWhatRan(Result(c), c) /\ SaysWhatRan(Result(d), d)
    BY DEF IInv, ResultInv
  <2>4. Result(c).stack.weights.under.train = Result(d).stack.weights.under.train
    <3>1. PICK g : Result(c).stack.weights.under = TrainWiring(StackFor(a), g)
      BY <2>2, <2>3 DEF SaysWhatRan
    <3>2. PICK h : Result(d).stack.weights.under = TrainWiring(StackFor(a), h)
      BY <2>2, <2>3 DEF SaysWhatRan
    <3>. QED BY <3>1, <3>2 DEF TrainWiring
  <2>5. Result(c).store # Unset <=> Result(d).store # Unset
    BY <2>2, <2>3 DEF SaysWhatRan, MemoryFor, Warmed
  <2>6. /\ Result(c).level = Result(d).level /\ Result(c).inst = Result(d).inst
        /\ Result(c).guard = Result(d).guard /\ Result(c).source = Result(d).source
        /\ Result(c).executed = IF a \in FPApproaches THEN "follow_prior" ELSE Result(d).executed
    BY <2>2, <2>3 DEF SaysWhatRan, GuardFor
  <2>. QED BY <2>4, <2>5, <2>6
<1>. QED BY <1>1, IInvHolds, PTL

\* The stack a cell runs with is the earliest of the best segments of one
\* training, scored on validation instances alone; by the last the prior is gone.
THEOREM SelectionsAreSound == Spec => []SelectionSound
<1>1. IInv => SelectionSound
  <2>. SUFFICES ASSUME IInv, NEW k \in DOMAIN loaded
                PROVE  LET c == loaded[k].curve
                           w == loaded[k].weights
                       IN  /\ c # <<>> =>
                                /\ w.seg + 1 \in DOMAIN c /\ Len(c) = Segments
                                /\ \A g \in DOMAIN c :
                                     /\ c[g].score <= c[w.seg + 1].score
                                     /\ c[g].score = c[w.seg + 1].score => w.seg + 1 <= g
                                     /\ EvalInstance \notin c[g].on
                                     /\ c[g].of = w.run
                           /\ args.finalSegment => w.seg + 1 = Segments
                           /\ w.seg + 1 = Segments => w.beta = 0
                           /\ ~args.evalOnly => w.run = kills
    BY DEF SelectionSound
  <2>1. SelectedSoundly(k, loaded[k], args.finalSegment, TrainingRun)
    BY DEF IInv, LoadedInv
  <2>. QED BY <2>1, ArgumentAssumption DEF SelectedSoundly, TrainingRun
<1>. QED BY <1>1, IInvHolds, PTL

\* A whole file of results or of memory is never written again: every writer
\* found none when it set out, and nothing else writes that file in between.
THEOREM BankedFilesStay == Spec => BankedStaysBanked
<1>. DEFINE Stays == /\ \A c \in Cell : Whole(cells[c]) => cells'[c] = cells[c]
                     /\ \A s \in Seeds : Whole(snapshot[s]) => snapshot'[s] = snapshot[s]
<1>1. IInv /\ [Next]_vars => Stays
  <2>. SUFFICES ASSUME IInv, [Next]_vars PROVE Stays
    OBVIOUS
  <2>1. CASE UNCHANGED <<cells, snapshot>>
    BY <2>1
  <2>2. CASE Evaluate \/ Timeout
    <3>1. /\ cells' = [cells EXCEPT ![Current] = Torn] /\ snapshot' = snapshot
          /\ ~Whole(cells[Current])
      BY <2>2 DEF Evaluate, Timeout, Leave, IInv, FreshInv, CellPoints, Whole, Exists
    <3>. QED BY <3>1
  <2>3. CASE Bank
    <3>1. /\ cells' = [cells EXCEPT ![Current] = File([knob |-> guard, result |-> live.out])]
          /\ snapshot' = snapshot /\ ~Whole(cells[Current])
      BY <2>3 DEF Bank, IInv, FreshInv
    <3>. QED BY <3>1
  <2>4. CASE WarmStore
    <3>1. /\ snapshot' = [snapshot EXCEPT ![seed] = Torn] /\ cells' = cells
          /\ ~Whole(snapshot[seed])
      BY <2>4 DEF WarmStore, IInv, FreshInv
    <3>. QED BY <3>1
  <2>5. CASE SaveStore
    <3>1. /\ snapshot' = [snapshot EXCEPT ![seed] = File(live.store)] /\ cells' = cells
          /\ ~Whole(snapshot[seed])
      BY <2>5 DEF SaveStore, IInv, FreshInv
    <3>. QED BY <3>1
  <2>6. CASE Launch \/ Block \/ Readout \/ Training \/ Loading
    BY <2>1, <2>6 DEF Launch, Block, Readout, Training, StartSegment, TrainRound, OpenCheckpoint,
                      WriteCheckpoint, Loading, RefuseLoad, ScoreSegment, UseSegment, disk
  <2>7. CASE SkipCell \/ CellError \/ StartCell \/ ReadoutError \/ TimeoutSwallowed \/ Kill \/ UNCHANGED vars
    BY <2>1, <2>7 DEF SkipCell, CellError, StartCell, ReadoutError, TimeoutSwallowed, Kill, vars, disk
  <2>. QED BY <2>2, <2>3, <2>4, <2>5, <2>6, <2>7 DEF Next, Work, Running
<1>2. IInv /\ [Next]_vars => [Stays]_vars
  BY <1>1
<1>. QED BY <1>2, IInvHolds, PTL DEF Spec, BankedStaysBanked

\* While the measured entropy is below its target, neither the coefficient falls
\* nor does it drop below the schedule; at the target the schedule rules.
THEOREM EntropyIsFloored == Spec => EntropyFloorHolds
<1>. DEFINE Floored ==
       (pc = "round" /\ trainer'.round = trainer.round + 1 /\ trainer.measured # -1) =>
         IF trainer.measured < EntropyTarget
         THEN trainer'.coef >= trainer.coef /\ trainer'.coef >= EntSchedule(trainer.round)
         ELSE trainer'.coef = EntSchedule(trainer.round)
<1>1. IInv /\ [Next]_vars => Floored
  <2>. SUFFICES ASSUME IInv, [Next]_vars, pc = "round", trainer'.round = trainer.round + 1,
                       trainer.measured # -1
                PROVE  IF trainer.measured < EntropyTarget
                       THEN trainer'.coef >= trainer.coef /\ trainer'.coef >= EntSchedule(trainer.round)
                       ELSE trainer'.coef = EntSchedule(trainer.round)
    OBVIOUS
  <2>1. /\ trainer.round \in Nat /\ trainer.measured \in Nat /\ EntropyTarget \in Nat
        /\ trainer.coef \in Nat /\ trainer.dual \in Nat
    BY TrainingAssumption DEF IInv, ShapeInv
  <2>2. CASE TrainRound
    BY <2>1, <2>2, RoundFacts
  <2>3. CASE UNCHANGED trainer
    BY <2>1, <2>3
  <2>4. CASE trainer' = NoTrainer
    BY <2>1, <2>4 DEF NoTrainer, NewTrainer
  <2>5. TrainRound \/ UNCHANGED trainer \/ trainer' = NoTrainer
    BY DEF Next, Work, Launch, Block, Training, StartSegment, OpenCheckpoint, WriteCheckpoint,
           Loading, RefuseLoad, ScoreSegment, UseSegment, Running, SkipCell, CellError, StartCell,
           WarmStore, SaveStore, Evaluate, Bank, ReadoutError, Readout, Timeout, TimeoutSwallowed,
           Kill, Gone, train, vars
  <2>. QED BY <2>2, <2>3, <2>4, <2>5
<1>2. IInv /\ [Next]_vars => [Floored]_vars
  BY <1>1
<1>. QED BY <1>2, IInvHolds, PTL DEF Spec, EntropyFloorHolds
=============================================================================
