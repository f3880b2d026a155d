------------------------ MODULE TrainApproachProofs ------------------------
(***************************************************************************)
(* Proof that a ratio of the policy's update tells what this update has     *)
(* changed, that a checkpoint carries on with what it was scored on, that a plan serves   *)
(* the slice it was made for, that agents build on those tuned before them  *)
(* and that credit goes where it was earned, for every stream, builder,     *)
(* policy and number of rounds and segments.                                *)
(*                                                                         *)
(* None is inductive.  The first two hold at one point of the round because *)
(* of what all earlier points left alone (RolloutInv, FragmentInv), cleared *)
(* (ClearInv) or switched back (DecodeInv); the others follow a memo        *)
(* (MemoInv), a product (TuneInv) and a stream (StreamInv) as they grow.    *)
(***************************************************************************)
EXTENDS TrainApproach, SequenceTheorems, FiniteSetTheorems, WellFoundedInduction, TLAPS

\* s is a sequence, of whatever it holds.
Elements(s) == {s[i] : i \in DOMAIN s}
IsSequence(s) == s \in Seq(Elements(s))

SequenceInv ==
  /\ IsSequence(rollout) /\ IsSequence(tuned)
  /\ fragments = [d \in Domains |-> fragments[d]]
  /\ \A d \in Domains : IsSequence(fragments[d])

\* How far a round, and a segment, may have gone.
ProgressInv ==
  /\ pc \in {"round", "collect", "credit", "critic", "policy", "actors", "score", "scoring"} =>
       round < Rounds
  /\ pc # "done" => segment < Segments

\* The actors sample but for the evaluations.
DecodeInv ==
  /\ pc \in {"round", "collect", "credit", "critic", "policy", "actors", "score", "compare", "save"} =>
       stochastic = config.trainActors
  /\ pc \in {"scoring", "comparing"} => stochastic = FALSE

\* Nothing of a round is left when the next begins.
ClearInv ==
  /\ pc \in {"build", "round", "compare", "comparing", "save"} =>
       rollout = <<>> /\ fragments = [d \in Domains |-> <<>>]
  /\ pc \in {"build", "round", "collect", "credit", "critic", "policy", "compare", "comparing", "save"} =>
       tuned = <<>>
  /\ pc \in {"build", "round", "collect", "credit", "critic", "compare", "comparing", "save"} =>
       stepsTaken = 0

\* The policy is the steps of this update away from what sampled a transition.
SampledNow(tr) ==
  /\ tr.behaviour.policy \in Nat /\ tr.behaviour.policy + stepsTaken = policy
  /\ tr.behaviour.advice = Advice(tr.plan)
  /\ Len(tr.plan.domains) = Len(tr.action)

RolloutInv ==
  pc \in {"collect", "credit", "critic", "policy"} /\ config.mode # "follow_prior" =>
    \A t \in 1..Len(rollout) : SampledNow(rollout[t])

\* Fragments of an agent not tuned yet are its own, and sampled.
FragmentInv ==
  pc \in {"collect", "credit", "critic", "policy", "actors"} =>
    \A d \in Domains \ Tuned : \A i \in DOMAIN fragments[d] :
      fragments[d][i].actor = actors[d] /\ fragments[d][i].sampled

\* The last score is of the weights as they are.
Current(part, mode) ==
  /\ part.mode = mode /\ part.policy = policy /\ part.actors = actors /\ ~part.sampled

ScoreInv ==
  /\ pc \in {"compare", "comparing", "save"} =>
       /\ Len(curve) > 0
       /\ Current(curve[Len(curve)].trained, EvalMode)
  /\ pc = "save" /\ config.mode # "follow_prior" =>
       Current(curve[Len(curve)].followed, "follow_prior")

IInv ==
  /\ TypeOK /\ SequenceInv /\ ProgressInv /\ DecodeInv /\ ClearInv
  /\ RolloutInv /\ FragmentInv /\ ScoreInv /\ CheckpointCarriesOn

-----------------------------------------------------------------------------
LEMMA EmptyIsSequence == IsSequence(<<>>)
BY EmptySeq DEF IsSequence

\* Appending keeps a sequence one, and what was in it where it was.
LEMMA AppendToSequence ==
  ASSUME NEW s, IsSequence(s), NEW e
  PROVE  /\ IsSequence(Append(s, e))
         /\ Len(s) \in Nat /\ DOMAIN s = 1..Len(s)
         /\ Len(Append(s, e)) = Len(s) + 1
         /\ DOMAIN Append(s, e) = 1..(Len(s) + 1)
         /\ \A i \in 1..Len(s) : Append(s, e)[i] = s[i]
         /\ Append(s, e)[Len(s) + 1] = e
<1> DEFINE S == Elements(s) \cup {e}
<1>1. Len(s) \in Nat /\ DOMAIN s = 1..Len(s) /\ s \in [1..Len(s) -> Elements(s)]
  BY LenProperties DEF IsSequence
<1>2. s \in Seq(S)
  <2>1. s \in [1..Len(s) -> S]
    BY <1>1
  <2> QED BY <1>1, <2>1
<1>3. /\ Append(s, e) \in Seq(S)
      /\ Len(Append(s, e)) = Len(s) + 1
      /\ \A i \in 1..Len(s) : Append(s, e)[i] = s[i]
      /\ Append(s, e)[Len(s) + 1] = e
  BY <1>2, AppendProperties
<1>4. /\ Append(s, e) \in [1..(Len(s) + 1) -> S]
      /\ DOMAIN Append(s, e) = 1..(Len(s) + 1)
  BY <1>1, <1>3, LenProperties
<1>5. Append(s, e) \in [1..(Len(s) + 1) -> Elements(Append(s, e))]
  BY <1>4 DEF Elements
<1>6. IsSequence(Append(s, e))
  <2> DEFINE n == Len(s) + 1
  <2>1. n \in Nat /\ Append(s, e) \in [1..n -> Elements(Append(s, e))]
    BY <1>1, <1>5
  <2> HIDE DEF n
  <2>2. \A U, t : t \in [1..n -> U] => t \in Seq(U)
    BY <2>1, SeqDef
  <2>3. Append(s, e) \in Seq(Elements(Append(s, e)))
    BY <2>1, <2>2
  <2> QED BY <2>3 DEF IsSequence
<1> QED BY <1>1, <1>3, <1>4, <1>6

LEMMA ArrivalsNat == Arrivals \in Nat
BY StreamAssumption, LenProperties DEF Arrivals

LEMMA InitInv == Init => IInv
<1> SUFFICES ASSUME Init PROVE IInv
  OBVIOUS
<1> USE DEF Init
<1>1. TypeOK
  <2>1. checkpoint = None \/ Stack(checkpoint)
    BY StackAssumption
  <2>2. curve \in Seq([trained : Parts, followed : Parts \cup {None}])
    BY EmptySeq
  <2>3. valueNorm \in [segment : Nat, updates : Nat, count : 0..2]
    BY DEF NewNorm
  <2>4. /\ stats \in [arrived : 0..Arrivals, admitted : 0..Arrivals]
        /\ stats.admitted <= stats.arrived
    BY ArrivalsNat
  <2>5. segment \in 0..Segments /\ round \in 0..Rounds
    BY StreamAssumption
  <2>6. policy \in Nat /\ critic.updates \in Nat /\ actors \in [Domains -> Nat]
    OBVIOUS
  <2>7. epoch \in 0..Epochs /\ unseen = {} /\ stepsTaken \in Nat
    BY EpochsAssumption
  <2> QED BY <2>1, <2>2, <2>3, <2>4, <2>5, <2>6, <2>7 DEF TypeOK
<1>2. SequenceInv
  BY EmptyIsSequence DEF SequenceInv
<1>3. ProgressInv /\ DecodeInv /\ ClearInv
  BY StreamAssumption DEF ProgressInv, DecodeInv, ClearInv
<1>4. RolloutInv /\ FragmentInv /\ ScoreInv /\ CheckpointCarriesOn
  BY DEF RolloutInv, FragmentInv, ScoreInv, CheckpointCarriesOn
<1> QED BY <1>1, <1>2, <1>3, <1>4 DEF IInv

LEMMA StartSegmentInv == IInv /\ StartSegment => IInv'
<1> SUFFICES ASSUME IInv, StartSegment PROVE IInv'
  OBVIOUS
<1> USE DEF IInv, StartSegment, episode, update
<1>1. LoadedActors \in [Domains -> Nat]
  BY DEF LoadedActors, Fresh, TypeOK, Stack
<1>2. TypeOK'
  <2>1. policy' \in Nat /\ critic'.updates \in Nat /\ actors' \in [Domains -> Nat]
    BY <1>1 DEF TypeOK, Stack
  <2>2. /\ valueNorm' \in [segment : Nat, updates : Nat, count : 0..2] /\ round' \in 0..Rounds
        /\ stochastic' \in BOOLEAN
    BY StreamAssumption, StackAssumption DEF TypeOK, NewNorm
  <2>3. curve' \in Seq([trained : Parts, followed : Parts \cup {None}])
    BY EmptySeq
  <2> QED BY <2>1, <2>2, <2>3 DEF TypeOK, Stack
<1>3. SequenceInv'
  BY DEF SequenceInv
<1>4. (ProgressInv /\ DecodeInv /\ ClearInv)'
  BY StreamAssumption DEF ProgressInv, DecodeInv, ClearInv
<1>5. (RolloutInv /\ FragmentInv /\ ScoreInv)'
  BY DEF RolloutInv, FragmentInv, ScoreInv
<1>6. CheckpointCarriesOn'
  BY DEF CheckpointCarriesOn, LoadedActors
<1> QED BY <1>2, <1>3, <1>4, <1>5, <1>6

LEMMA RefuseWarmStartInv == IInv /\ RefuseWarmStart => IInv'
<1> SUFFICES ASSUME IInv, RefuseWarmStart PROVE IInv'
  OBVIOUS
<1> USE DEF IInv, RefuseWarmStart, stack, memos, episode, update
<1>1. TypeOK'
  BY DEF TypeOK
<1>2. SequenceInv'
  BY DEF SequenceInv
<1>3. (ProgressInv /\ DecodeInv /\ ClearInv)'
  BY DEF ProgressInv, DecodeInv, ClearInv
<1>4. (RolloutInv /\ FragmentInv)'
  BY DEF RolloutInv, FragmentInv, SampledNow, Advice, Tuned
<1>5. ScoreInv'
  BY DEF ScoreInv, Current, EvalMode
<1>6. CheckpointCarriesOn'
  BY DEF CheckpointCarriesOn, ScoreOf, EvalMode
<1> QED BY <1>1, <1>2, <1>3, <1>4, <1>5, <1>6

LEMMA StartRoundInv == IInv /\ StartRound => IInv'
<1> SUFFICES ASSUME IInv, StartRound PROVE IInv'
  OBVIOUS
<1> USE DEF IInv, StartRound, stack, memos, episode, update
<1>1. TypeOK'
  BY DEF TypeOK
<1>2. SequenceInv'
  BY DEF SequenceInv
<1>3. (ProgressInv /\ DecodeInv /\ ClearInv)'
  BY DEF ProgressInv, DecodeInv, ClearInv
<1>4. (RolloutInv /\ FragmentInv)'
  BY DEF RolloutInv, FragmentInv, ClearInv
<1>5. ScoreInv'
  BY DEF ScoreInv, Current, EvalMode
<1>6. CheckpointCarriesOn'
  BY DEF CheckpointCarriesOn, ScoreOf, EvalMode
<1> QED BY <1>1, <1>2, <1>3, <1>4, <1>5, <1>6

LEMMA EndEpisodeInv == IInv /\ EndEpisode => IInv'
<1> SUFFICES ASSUME IInv, EndEpisode PROVE IInv'
  OBVIOUS
<1> USE DEF IInv, EndEpisode, stack, memos, episode, update
<1>1. TypeOK'
  BY DEF TypeOK
<1>2. SequenceInv'
  BY DEF SequenceInv
<1>3. (ProgressInv /\ DecodeInv /\ ClearInv)'
  BY DEF ProgressInv, DecodeInv, ClearInv
<1>4. (RolloutInv /\ FragmentInv)'
  BY DEF RolloutInv, FragmentInv, SampledNow, Advice, Tuned
<1>5. ScoreInv'
  BY DEF ScoreInv, Current, EvalMode
<1>6. CheckpointCarriesOn'
  BY DEF CheckpointCarriesOn, ScoreOf, EvalMode
<1> QED BY <1>1, <1>2, <1>3, <1>4, <1>5, <1>6

LEMMA CreditInv == IInv /\ Credit => IInv'
<1> SUFFICES ASSUME IInv, Credit PROVE IInv'
  OBVIOUS
<1> USE DEF IInv, Credit, stack, memos, episode, update
<1>1. TypeOK'
  BY DEF TypeOK
<1>2. SequenceInv'
  BY DEF SequenceInv
<1>3. (ProgressInv /\ DecodeInv /\ ClearInv)'
  BY DEF ProgressInv, DecodeInv, ClearInv
<1>4. (RolloutInv /\ FragmentInv)'
  BY DEF RolloutInv, FragmentInv, SampledNow, Advice, Tuned
<1>5. ScoreInv'
  BY DEF ScoreInv, Current, EvalMode
<1>6. CheckpointCarriesOn'
  BY DEF CheckpointCarriesOn, ScoreOf, EvalMode
<1> QED BY <1>1, <1>2, <1>3, <1>4, <1>5, <1>6

LEMMA UpdateCriticInv == IInv /\ UpdateCritic => IInv'
<1> SUFFICES ASSUME IInv, UpdateCritic PROVE IInv'
  OBVIOUS
<1> USE DEF IInv, UpdateCritic, stack, memos, episode, update
<1>1. TypeOK'
  <2>1. T \in Nat
    BY EmptySeq, LenProperties DEF SequenceInv, IsSequence, T
  <2>2. valueNorm' \in [segment : Nat, updates : Nat, count : 0..2]
    <3>1. valueNorm \in [segment : Nat, updates : Nat, count : 0..2]
      BY DEF TypeOK
    <3>2. AtMostTwo(valueNorm.count + T) \in 0..2
      <4>1. valueNorm.count + T \in Nat
        BY <2>1, <3>1
      <4>2. \A n \in Nat : (IF n < 2 THEN n ELSE 2) \in 0..2
        OBVIOUS
      <4> QED BY <4>1, <4>2 DEF AtMostTwo
    <3>3. valueNorm' = [segment |-> valueNorm.segment, updates |-> valueNorm.updates + 1,
                        count |-> AtMostTwo(valueNorm.count + T)]
      BY <3>1
    <3> QED BY <3>1, <3>2, <3>3
  <2>3. critic'.updates \in Nat
    BY DEF TypeOK
  <2>4. epoch' \in 0..Epochs /\ unseen' \subseteq 1..Len(rollout) /\ stepsTaken' \in Nat
    BY EpochsAssumption DEF Learned, T
  <2> QED BY <2>2, <2>3, <2>4 DEF TypeOK
<1>2. SequenceInv'
  BY DEF SequenceInv
<1>3. (ProgressInv /\ DecodeInv /\ ClearInv)'
  BY DEF ProgressInv, DecodeInv, ClearInv
<1>4. RolloutInv' /\ FragmentInv'
  <2>1. stepsTaken = 0
    BY DEF ClearInv
  <2> QED BY <2>1 DEF RolloutInv, FragmentInv, SampledNow, Advice, Tuned
<1>5. ScoreInv'
  BY DEF ScoreInv, Current, EvalMode
<1>6. CheckpointCarriesOn'
  BY DEF CheckpointCarriesOn, ScoreOf, EvalMode
<1> QED BY <1>1, <1>2, <1>3, <1>4, <1>5, <1>6

LEMMA UpdatePolicyInv == IInv /\ UpdatePolicy => IInv'
<1> SUFFICES ASSUME IInv, UpdatePolicy PROVE IInv'
  OBVIOUS
<1> USE DEF IInv
<1>0. /\ pc = "policy" /\ epoch < Epochs /\ policy' = policy + 1 /\ stepsTaken' = stepsTaken + 1
      /\ \/ epoch' = epoch + 1 /\ unseen' = Learned
         \/ epoch' = epoch /\ unseen' \subseteq unseen
      /\ UNCHANGED <<config, segment, round, pc, checkpoint, critic, actors, stochastic, valueNorm,
                     curve, stats, rollout, fragments, tuned>>
  BY DEF UpdatePolicy, episode
<1>1. TypeOK'
  <2>1. epoch' \in 0..Epochs
    BY <1>0, EpochsAssumption DEF TypeOK
  <2>2. unseen' \subseteq 1..Len(rollout)
    BY <1>0 DEF TypeOK, Learned, T
  <2> QED BY <1>0, <2>1, <2>2 DEF TypeOK
<1>2. SequenceInv'
  BY <1>0 DEF SequenceInv
<1>3. (ProgressInv /\ DecodeInv /\ ClearInv)'
  BY <1>0 DEF ProgressInv, DecodeInv, ClearInv
<1>4. RolloutInv' /\ FragmentInv'
  <2>1. ASSUME config.mode # "follow_prior", NEW t \in 1..Len(rollout)
        PROVE  SampledNow(rollout[t])'
    <3> DEFINE was == rollout[t].behaviour.policy
    <3>1. SampledNow(rollout[t]) /\ stepsTaken \in Nat
      BY <1>0, <2>1 DEF RolloutInv, TypeOK
    <3>2. was \in Nat /\ was + stepsTaken = policy
      BY <3>1 DEF SampledNow
    <3> HIDE DEF was
    <3>3. was + stepsTaken' = policy'
      BY <1>0, <3>1, <3>2
    <3> QED BY <1>0, <3>1, <3>2, <3>3 DEF SampledNow, Advice, was
  <2>2. RolloutInv'
    BY <1>0, <2>1 DEF RolloutInv
  <2>3. FragmentInv'
    BY <1>0 DEF FragmentInv, Tuned
  <2> QED BY <2>2, <2>3
<1>5. (ScoreInv /\ CheckpointCarriesOn)'
  BY <1>0 DEF ScoreInv, CheckpointCarriesOn
<1> QED BY <1>1, <1>2, <1>3, <1>4, <1>5

LEMMA EndPolicyInv == IInv /\ EndPolicy => IInv'
<1> SUFFICES ASSUME IInv, EndPolicy PROVE IInv'
  OBVIOUS
<1> USE DEF IInv, EndPolicy, stack, memos, episode, update
<1>1. TypeOK'
  BY DEF TypeOK
<1>2. SequenceInv'
  BY DEF SequenceInv
<1>3. (ProgressInv /\ DecodeInv /\ ClearInv)'
  BY DEF ProgressInv, DecodeInv, ClearInv
<1>4. (RolloutInv /\ FragmentInv)'
  BY DEF RolloutInv, FragmentInv, SampledNow, Advice, Tuned
<1>5. ScoreInv'
  BY DEF ScoreInv, Current, EvalMode
<1>6. CheckpointCarriesOn'
  BY DEF CheckpointCarriesOn, ScoreOf, EvalMode
<1> QED BY <1>1, <1>2, <1>3, <1>4, <1>5, <1>6

LEMMA EndUpdateInv == IInv /\ EndUpdate => IInv'
<1> SUFFICES ASSUME IInv, EndUpdate PROVE IInv'
  OBVIOUS
<1> USE DEF IInv, EndUpdate, stack, memos, episode, update
<1>1. TypeOK'
  BY DEF TypeOK
<1>2. SequenceInv'
  BY DEF SequenceInv
<1>3. (ProgressInv /\ DecodeInv /\ ClearInv)'
  BY DEF ProgressInv, DecodeInv, ClearInv
<1>4. (RolloutInv /\ FragmentInv)'
  BY DEF RolloutInv, FragmentInv, SampledNow, Advice, Tuned
<1>5. ScoreInv'
  BY DEF ScoreInv, Current, EvalMode
<1>6. CheckpointCarriesOn'
  BY DEF CheckpointCarriesOn, ScoreOf, EvalMode
<1> QED BY <1>1, <1>2, <1>3, <1>4, <1>5, <1>6

LEMMA EnterScoreInv == IInv /\ EnterScore => IInv'
<1> SUFFICES ASSUME IInv, EnterScore PROVE IInv'
  OBVIOUS
<1> USE DEF IInv, EnterScore, stack, memos, episode, update
<1>1. TypeOK'
  BY DEF TypeOK, Argmax
<1>2. SequenceInv'
  BY DEF SequenceInv
<1>3. (ProgressInv /\ DecodeInv /\ ClearInv)'
  BY DEF ProgressInv, DecodeInv, ClearInv, Argmax
<1>4. (RolloutInv /\ FragmentInv)'
  BY DEF RolloutInv, FragmentInv, SampledNow, Advice, Tuned
<1>5. ScoreInv'
  BY DEF ScoreInv, Current, EvalMode
<1>6. CheckpointCarriesOn'
  BY DEF CheckpointCarriesOn, ScoreOf, EvalMode
<1> QED BY <1>1, <1>2, <1>3, <1>4, <1>5, <1>6

LEMMA EnterComparisonInv == IInv /\ EnterComparison => IInv'
<1> SUFFICES ASSUME IInv, EnterComparison PROVE IInv'
  OBVIOUS
<1> USE DEF IInv, EnterComparison, stack, memos, episode, update
<1>1. TypeOK'
  BY DEF TypeOK, Argmax
<1>2. SequenceInv'
  BY DEF SequenceInv
<1>3. (ProgressInv /\ DecodeInv /\ ClearInv)'
  BY DEF ProgressInv, DecodeInv, ClearInv, Argmax
<1>4. (RolloutInv /\ FragmentInv)'
  BY DEF RolloutInv, FragmentInv, SampledNow, Advice, Tuned
<1>5. ScoreInv'
  BY DEF ScoreInv, Current, EvalMode
<1>6. CheckpointCarriesOn'
  BY DEF CheckpointCarriesOn, ScoreOf, EvalMode
<1> QED BY <1>1, <1>2, <1>3, <1>4, <1>5, <1>6

\* What arrives leaves a transition sampled by the policy as it is, and fragments
\* of the actors as they are.
LEMMA ArriveInv == IInv /\ Arrive => IInv'
<1> SUFFICES ASSUME IInv, Arrive PROVE IInv'
  OBVIOUS
<1> USE DEF IInv
<1> DEFINE rid == stats.arrived + 1
           c == Stream[rid]
<1>0. /\ pc = "collect" /\ stats.arrived < Arrivals
      /\ UNCHANGED <<config, segment, round, pc, checkpoint, policy, critic, actors, stochastic,
                     valueNorm, curve, tuned, epoch, unseen, stepsTaken>>
  BY DEF Arrive, stack, update
<1>00. stats \in [arrived : 0..Arrivals, admitted : 0..Arrivals] /\ stats.admitted <= stats.arrived
  BY DEF TypeOK
<1>1. /\ rid \in 1..Arrivals /\ stats.admitted + 1 \in 1..rid
      /\ {stats.admitted, stats.admitted + 1} \subseteq 0..Arrivals /\ rid \in 0..Arrivals
      /\ stats.admitted <= rid /\ stats.admitted + 1 <= rid
  <2>1. /\ stats.arrived \in 0..Arrivals /\ stats.admitted \in 0..Arrivals
        /\ stats.admitted <= stats.arrived
    BY <1>00
  <2> QED BY <1>0, <2>1, ArrivalsNat
<1>2. CASE UNCHANGED <<rollout, fragments>> /\ stats' = [stats EXCEPT !.arrived = @ + 1]
  <2>1. TypeOK'
    <3>1. /\ stats' \in [arrived : 0..Arrivals, admitted : 0..Arrivals]
          /\ stats'.admitted <= stats'.arrived
      <4>1. /\ stats'.arrived = rid
            /\ stats'.admitted \in {stats.admitted, stats.admitted + 1}
            /\ stats' = [arrived |-> stats'.arrived, admitted |-> stats'.admitted]
        BY <1>00, <1>2
      <4> QED BY <1>1, <4>1
    <3> QED BY <1>0, <1>2, <3>1 DEF TypeOK
  <2>2. (SequenceInv /\ ProgressInv /\ DecodeInv /\ ClearInv)'
    BY <1>0, <1>2 DEF SequenceInv, ProgressInv, DecodeInv, ClearInv
  <2>3. (RolloutInv /\ FragmentInv)'
    BY <1>0, <1>2 DEF RolloutInv, FragmentInv, SampledNow, Advice, Tuned
  <2>4. (ScoreInv /\ CheckpointCarriesOn)'
    BY <1>0 DEF ScoreInv, CheckpointCarriesOn
  <2> QED BY <2>1, <2>2, <2>3, <2>4
<1>3. ASSUME NEW plan \in Planned(rid, c), NEW p \in Decoded(plan), NEW outcome \in Outcomes(p),
             stats' = [arrived |-> rid, admitted |->
                       IF outcome = "admitted" THEN stats.admitted + 1 ELSE stats.admitted],
             fragments' = Dispatched(rid, p),
             rollout' = Append(rollout, [rid |-> rid, plan |-> plan, action |-> p,
                                         behaviour |-> Behaviour(plan), reward |-> Reward(outcome)])
      PROVE  IInv'
  <2> DEFINE tr == [rid |-> rid, plan |-> plan, action |-> p,
                    behaviour |-> Behaviour(plan), reward |-> Reward(outcome)]
             fragment(d) == [rid |-> rid, actor |-> actors[d], sampled |-> stochastic]
  <2>1. TypeOK'
    <3>1. /\ stats' \in [arrived : 0..Arrivals, admitted : 0..Arrivals]
          /\ stats'.admitted <= stats'.arrived
      <4>1. /\ stats'.arrived = rid
            /\ stats'.admitted \in {stats.admitted, stats.admitted + 1}
            /\ stats' = [arrived |-> stats'.arrived, admitted |-> stats'.admitted]
        BY <1>00, <1>3
      <4> QED BY <1>1, <4>1
    <3>2. unseen' \subseteq 1..Len(rollout')
      <4> HIDE DEF tr
      <4>1. Len(rollout) \in Nat /\ Len(rollout') = Len(rollout) + 1
        BY <1>3, AppendToSequence DEF SequenceInv
      <4> QED BY <1>0, <4>1 DEF TypeOK
    <3> QED BY <1>0, <3>1, <3>2 DEF TypeOK
  <2>2. \A d \in Domains : \/ fragments'[d] = fragments[d]
                           \/ config.trainActors /\ fragments'[d] = Append(fragments[d], fragment(d))
    BY <1>3 DEF Dispatched
  <2>3. SequenceInv'
    <3>1. IsSequence(rollout)'
      BY <1>3, AppendToSequence DEF SequenceInv
    <3>2. \A d \in Domains : IsSequence(fragments[d])'
      <4> SUFFICES ASSUME NEW d \in Domains PROVE IsSequence(fragments'[d])
        OBVIOUS
      <4> HIDE DEF fragment
      <4>1. IsSequence(fragments[d])
        BY DEF SequenceInv
      <4>2. IsSequence(Append(fragments[d], fragment(d)))
        BY <4>1, AppendToSequence
      <4> QED BY <2>2, <4>1, <4>2
    <3>3. fragments' = [d \in Domains |-> fragments'[d]]
      BY <1>3 DEF Dispatched
    <3> QED BY <1>0, <3>1, <3>2, <3>3, EmptyIsSequence DEF SequenceInv
  <2>4. (ProgressInv /\ DecodeInv /\ ClearInv)'
    BY <1>0 DEF ProgressInv, DecodeInv, ClearInv
  <2>5. RolloutInv'
    <3> SUFFICES ASSUME config.mode # "follow_prior", NEW t \in 1..Len(rollout')
                 PROVE  SampledNow(rollout[t])'
      BY <1>0 DEF RolloutInv
    <3>0. config.mode # "follow_prior"
      BY <1>0
    <3> HIDE DEF tr
    <3>1. /\ Len(rollout) \in Nat /\ Len(rollout') = Len(rollout) + 1
          /\ \A i \in 1..Len(rollout) : rollout'[i] = rollout[i]
          /\ rollout'[Len(rollout) + 1] = tr
      BY <1>3, AppendToSequence DEF SequenceInv, tr
    <3>2. CASE t \in 1..Len(rollout)
      <4>1. SampledNow(rollout[t])
        BY <1>0, <3>2 DEF RolloutInv
      <4> QED BY <4>1, <1>0, <3>1, <3>2 DEF SampledNow, Advice
    <3>3. CASE t = Len(rollout) + 1
      <4>1. Len(plan.domains) = Len(p)
        BY DEF Decoded
      <4>2. policy \in Nat /\ stepsTaken = 0
        BY <1>0 DEF TypeOK, ClearInv
      <4>3. /\ tr.behaviour = [policy |-> policy, advice |-> Advice(plan)]
            /\ tr.plan = plan /\ tr.action = p
        BY <3>0 DEF Behaviour, tr
      <4> QED BY <4>1, <4>2, <4>3, <1>0, <3>1, <3>3 DEF SampledNow, Advice
    <3> QED BY <3>1, <3>2, <3>3
  <2>6. FragmentInv'
    <3> SUFFICES ASSUME NEW d \in Domains, NEW i \in DOMAIN fragments'[d]
                 PROVE  fragments'[d][i].actor = actors[d] /\ fragments'[d][i].sampled
      BY <1>0 DEF FragmentInv
    <3>1. \A j \in DOMAIN fragments[d] : fragments[d][j].actor = actors[d] /\ fragments[d][j].sampled
      BY <1>0 DEF FragmentInv, ClearInv, Tuned
    <3>2. CASE fragments'[d] = fragments[d]
      BY <3>1, <3>2
    <3>3. CASE config.trainActors /\ fragments'[d] = Append(fragments[d], fragment(d))
      <4> HIDE DEF fragment
      <4>1. /\ Len(fragments[d]) \in Nat /\ DOMAIN fragments[d] = 1..Len(fragments[d])
            /\ DOMAIN fragments'[d] = 1..(Len(fragments[d]) + 1)
            /\ \A j \in 1..Len(fragments[d]) : fragments'[d][j] = fragments[d][j]
            /\ fragments'[d][Len(fragments[d]) + 1] = fragment(d)
        BY <3>3, AppendToSequence DEF SequenceInv
      <4>2. fragment(d).actor = actors[d] /\ fragment(d).sampled
        BY <1>0, <3>3 DEF fragment, DecodeInv
      <4>3. \A j \in DOMAIN fragments'[d] :
              \/ j \in DOMAIN fragments[d] /\ fragments'[d][j] = fragments[d][j]
              \/ fragments'[d][j] = fragment(d)
        <5>1. \A j \in DOMAIN fragments'[d] :
                j \in 1..Len(fragments[d]) \/ j = Len(fragments[d]) + 1
          BY <4>1
        <5> QED BY <4>1, <5>1
      <4> QED BY <3>1, <4>2, <4>3
    <3> QED BY <2>2, <3>2, <3>3
  <2>7. (ScoreInv /\ CheckpointCarriesOn)'
    BY <1>0 DEF ScoreInv, CheckpointCarriesOn
  <2> QED BY <2>1, <2>3, <2>4, <2>5, <2>6, <2>7
<1> QED BY <1>2, <1>3 DEF Arrive

\* Tuning one actor leaves the others and their fragments alone.
LEMMA UpdateActorInv == IInv /\ UpdateActor => IInv'
<1> SUFFICES ASSUME IInv, UpdateActor PROVE IInv'
  OBVIOUS
<1> USE DEF IInv
<1>0. /\ pc = "actors"
      /\ UNCHANGED <<config, segment, round, pc, checkpoint, policy, critic, stochastic, valueNorm,
                     curve, stats, rollout, fragments, epoch, unseen, stepsTaken>>
  BY DEF UpdateActor, episode
<1>1. PICK d \in Domains :
        /\ actors' = [actors EXCEPT ![d] = @ + 1]
        /\ tuned' = Append(tuned, [domain |-> d,
                                   scale |-> [rid \in RequestsOf(d) |-> Correction(rid)]])
  BY DEF UpdateActor, Agents
<1> DEFINE entry == [domain |-> d, scale |-> [rid \in RequestsOf(d) |-> Correction(rid)]]
<1>2. entry.domain = d
  OBVIOUS
<1> HIDE DEF entry
<1>3. /\ IsSequence(tuned') /\ Len(tuned) \in Nat /\ DOMAIN tuned = 1..Len(tuned)
      /\ DOMAIN tuned' = 1..(Len(tuned) + 1)
      /\ \A i \in 1..Len(tuned) : tuned'[i] = tuned[i]
      /\ tuned'[Len(tuned) + 1] = entry
  BY <1>1, AppendToSequence DEF SequenceInv, entry
<1>4. Tuned' = Tuned \cup {d}
  BY <1>2, <1>3 DEF Tuned
<1>5. TypeOK'
  <2>1. actors' \in [Domains -> Nat]
    BY <1>1 DEF TypeOK
  <2> QED BY <1>0, <2>1 DEF TypeOK
<1>6. SequenceInv'
  BY <1>0, <1>3 DEF SequenceInv
<1>7. (ProgressInv /\ DecodeInv /\ ClearInv /\ RolloutInv)'
  BY <1>0 DEF ProgressInv, DecodeInv, ClearInv, RolloutInv
<1>8. FragmentInv'
  BY <1>0, <1>1, <1>4 DEF FragmentInv, TypeOK
<1>9. (ScoreInv /\ CheckpointCarriesOn)'
  BY <1>0 DEF ScoreInv, CheckpointCarriesOn
<1> QED BY <1>5, <1>6, <1>7, <1>8, <1>9

\* The score of a round is of the weights as they are, by actors that do not sample.
LEMMA ScoreStepInv == IInv /\ Score => IInv'
<1> SUFFICES ASSUME IInv, Score PROVE IInv'
  OBVIOUS
<1> USE DEF IInv
<1> DEFINE part == Scored(EvalMode)
           entry == [trained |-> part, followed |-> None]
           Entries == [trained : Parts, followed : Parts \cup {None}]
<1>0. /\ pc = "scoring" /\ round' = round + 1 /\ stochastic' = config.trainActors
      /\ pc' = IF round + 1 < Rounds THEN "round"
               ELSE IF config.mode = "follow_prior" THEN "save" ELSE "compare"
      /\ curve' = Append(curve, entry)
      /\ rollout' = <<>> /\ fragments' = [d \in Domains |-> <<>>] /\ tuned' = <<>>
      /\ stats' = [arrived |-> 0, admitted |-> 0]
      /\ epoch' = 0 /\ unseen' = {} /\ stepsTaken' = 0
      /\ UNCHANGED <<config, segment, checkpoint, policy, critic, actors, valueNorm>>
  BY DEF Score, NoEpisode, NoUpdate
<1>1. part \in Parts
  BY <1>0, StackAssumption DEF TypeOK, Parts, Scored, EvalMode, Modes
<1>2. Current(part, EvalMode)
  BY <1>0 DEF Current, Scored, DecodeInv
<1>3. entry \in Entries /\ entry.trained = part
  BY <1>1
<1> HIDE DEF part, entry, Entries
<1>4. /\ curve' \in Seq(Entries) /\ Len(curve') > 0
      /\ curve'[Len(curve')] = entry
  <2>1. curve \in Seq(Entries)
    BY DEF TypeOK, Entries
  <2> QED BY <1>0, <1>3, <2>1, AppendProperties, LenProperties
<1>5. TypeOK'
  <2>1. round' \in 0..Rounds
    BY <1>0, StreamAssumption DEF TypeOK, ProgressInv
  <2>2. config' \in Configs /\ stochastic' \in BOOLEAN
    BY <1>0, StackAssumption DEF TypeOK
  <2>3. /\ stats' \in [arrived : 0..Arrivals, admitted : 0..Arrivals]
        /\ stats'.admitted <= stats'.arrived
    BY <1>0, ArrivalsNat
  <2>4. curve' \in Seq([trained : Parts, followed : Parts \cup {None}])
    BY <1>4 DEF Entries
  <2>5. epoch' \in 0..Epochs /\ unseen' \subseteq 1..Len(rollout') /\ stepsTaken' \in Nat
    BY <1>0, EpochsAssumption
  <2> QED BY <1>0, <2>1, <2>2, <2>3, <2>4, <2>5 DEF TypeOK, Stack
<1>6. SequenceInv'
  BY <1>0, EmptyIsSequence DEF SequenceInv
<1>7. (ProgressInv /\ DecodeInv /\ ClearInv)'
  BY <1>0 DEF ProgressInv, DecodeInv, ClearInv
<1>8. (RolloutInv /\ FragmentInv)'
  BY <1>0 DEF RolloutInv, FragmentInv
<1>9. ScoreInv'
  BY <1>0, <1>2, <1>3, <1>4 DEF ScoreInv, Current, EvalMode
<1>10. CheckpointCarriesOn'
  BY <1>0 DEF CheckpointCarriesOn, TypeOK
<1> QED BY <1>5, <1>6, <1>7, <1>8, <1>9, <1>10

LEMMA CompareInv == IInv /\ Compare => IInv'
<1> SUFFICES ASSUME IInv, Compare PROVE IInv'
  OBVIOUS
<1> USE DEF IInv
<1> DEFINE n == Len(curve)
           part == Scored("follow_prior")
           Entries == [trained : Parts, followed : Parts \cup {None}]
<1>0. /\ pc = "comparing" /\ pc' = "save" /\ stochastic' = config.trainActors
      /\ curve' = [curve EXCEPT ![n].followed = part]
      /\ UNCHANGED <<config, segment, round, checkpoint, policy, critic, actors, valueNorm,
                     stats, rollout, fragments, tuned, epoch, unseen, stepsTaken>>
  BY DEF Compare, episode, update
<1>1. part \in Parts
  BY <1>0, StackAssumption DEF TypeOK, Parts, Scored, Modes
<1>2. Current(part, "follow_prior")
  BY <1>0 DEF Current, Scored, DecodeInv
<1>3. /\ n \in Nat \ {0} /\ curve \in [1..n -> Entries] /\ curve[n] \in Entries
      /\ Current(curve[n].trained, EvalMode)
  <2>1. curve \in Seq(Entries) /\ Len(curve) > 0 /\ Current(curve[Len(curve)].trained, EvalMode)
    BY <1>0 DEF TypeOK, ScoreInv
  <2> HIDE DEF Entries
  <2>2. Len(curve) \in Nat /\ curve \in [1..Len(curve) -> Entries]
    BY <2>1, LenProperties
  <2> QED BY <2>1, <2>2
<1> HIDE DEF n, part
<1>4. /\ curve'[n] = [trained |-> curve[n].trained, followed |-> part]
      /\ curve' \in [1..n -> Entries]
  BY <1>0, <1>1, <1>3
<1>5. curve' \in Seq(Entries) /\ Len(curve') = n
  <2>1. curve' \in Seq(Entries)
    <3> HIDE DEF Entries
    <3> QED BY <1>3, <1>4, SeqDef
  <2>2. DOMAIN curve' = 1..n /\ DOMAIN curve' = 1..Len(curve') /\ Len(curve') \in Nat
    BY <1>4, <2>1, LenProperties
  <2> QED BY <1>3, <2>1, <2>2
<1>6. TypeOK'
  <2>1. config' \in Configs /\ stochastic' \in BOOLEAN
    BY <1>0, StackAssumption DEF TypeOK
  <2> QED BY <1>0, <1>5, <2>1 DEF TypeOK, Stack
<1>7. SequenceInv'
  BY <1>0 DEF SequenceInv
<1>8. (ProgressInv /\ DecodeInv /\ ClearInv /\ RolloutInv /\ FragmentInv)'
  BY <1>0 DEF ProgressInv, DecodeInv, ClearInv, RolloutInv, FragmentInv
<1>9. ScoreInv'
  BY <1>0, <1>2, <1>3, <1>4, <1>5 DEF ScoreInv, Current, EvalMode
<1>10. CheckpointCarriesOn'
  BY <1>0 DEF CheckpointCarriesOn
<1> QED BY <1>6, <1>7, <1>8, <1>9, <1>10

LEMMA SaveCheckpointInv == IInv /\ SaveCheckpoint => IInv'
<1> SUFFICES ASSUME IInv, SaveCheckpoint PROVE IInv'
  OBVIOUS
<1> USE DEF IInv
<1>0. /\ pc = "save" /\ segment' = segment + 1
      /\ pc' = IF segment + 1 < Segments THEN "build" ELSE "done"
      /\ checkpoint' = [obsVersion |-> ObsVersion, policy |-> policy, critic |-> critic,
                        actors |-> IF config.trainActors THEN actors ELSE None,
                        score |-> curve[Len(curve)]]
      /\ UNCHANGED <<config, round, policy, critic, actors, stochastic, valueNorm, curve,
                     stats, rollout, fragments, tuned, epoch, unseen, stepsTaken>>
  BY DEF SaveCheckpoint, Last, stack, episode, update
<1>1. segment + 1 \in 1..Segments
  BY <1>0, StreamAssumption DEF TypeOK, ProgressInv
<1>2. TypeOK'
  BY <1>0, <1>1 DEF TypeOK, Stack
<1>3. SequenceInv'
  BY <1>0 DEF SequenceInv
<1>4. (ProgressInv /\ DecodeInv /\ ClearInv)'
  BY <1>0, <1>1, StreamAssumption DEF ProgressInv, DecodeInv, ClearInv
<1>5. (RolloutInv /\ FragmentInv /\ ScoreInv)'
  BY <1>0 DEF RolloutInv, FragmentInv, ScoreInv
<1>6. CheckpointCarriesOn'
  BY <1>0, <1>1 DEF CheckpointCarriesOn, ScoreInv, Current, ScoreOf, EvalMode
<1> QED BY <1>2, <1>3, <1>4, <1>5, <1>6

LEMMA StutterInv == IInv /\ UNCHANGED vars => IInv'
BY DEF IInv, vars, stack, memos, episode, update, TypeOK, SequenceInv, ProgressInv, DecodeInv,
       ClearInv, RolloutInv, FragmentInv, ScoreInv, CheckpointCarriesOn, SampledNow, Advice,
       Tuned, Current, EvalMode

LEMMA NextInv == IInv /\ [Next]_vars => IInv'
BY StartSegmentInv, RefuseWarmStartInv, StartRoundInv, ArriveInv, EndEpisodeInv, CreditInv,
   UpdateCriticInv, UpdatePolicyInv, EndPolicyInv, UpdateActorInv, EndUpdateInv, EnterScoreInv, ScoreStepInv,
   EnterComparisonInv, CompareInv, SaveCheckpointInv, StutterInv DEF Next

THEOREM Invariance == Spec => []IInv
BY InitInv, NextInv, PTL DEF Spec

\* Every variable ranges over what the code keeps in it.
THEOREM TypeCorrect == Spec => []TypeOK
<1>1. IInv => TypeOK
  BY DEF IInv
<1> QED BY <1>1, Invariance, PTL

\* However many segments there are, a checkpoint is filed with the scores of the
\* weights in it, and the next segment starts from all of them (the checkpoint and
\* the warm start of train_approach).
THEOREM CheckpointsCarryOn == Spec => []CheckpointCarriesOn
<1>1. IInv => CheckpointCarriesOn
  BY DEF IInv
<1> QED BY <1>1, Invariance, PTL

-----------------------------------------------------------------------------
(***************************************************************************)
(* The optimizer steps of an update.  Those taken and those that are left   *)
(* of an epoch are a whole number of epochs.                                *)
(***************************************************************************)
StepsInv ==
  /\ pc \in {"credit", "critic", "policy"} => rollout # <<>>
  /\ pc = "policy" => unseen \subseteq Learned
  /\ pc = "policy" /\ config.mode # "follow_prior" =>
       /\ unseen # {} /\ (epoch = Epochs => unseen = 1..T)
       /\ stepsTaken + Batches(Cardinality(unseen)) = (epoch + 1) * Batches(T)
  /\ pc = "actors" /\ config.mode # "follow_prior" => stepsTaken = Epochs * Batches(T)

LEMMA RolloutLength ==
  ASSUME SequenceInv
  PROVE  T \in Nat /\ (rollout # <<>> => T > 0)
<1>1. T \in Nat
  BY AppendToSequence DEF SequenceInv, T
<1>2. rollout # <<>> => T # 0
  BY EmptySeq DEF SequenceInv, IsSequence, T
<1> QED BY <1>1, <1>2

LEMMA BatchSizeType ==
  ASSUME TypeOK, SequenceInv, rollout # <<>>
  PROVE  BatchSize \in Nat \ {0}
BY RolloutLength, EpochsAssumption DEF BatchSize, TypeOK

LEMMA BatchesCount ==
  ASSUME BatchSize \in Nat \ {0}, NEW c \in Nat
  PROVE  /\ Batches(c) \in Nat
         /\ c \in 1..BatchSize => Batches(c) = 1
         /\ c > BatchSize => Batches(c - BatchSize) + 1 = Batches(c)
<1> DEFINE s == BatchSize
<1>1. s \in Nat \ {0}
  OBVIOUS
<1>2. Batches(c) = (c + s - 1) \div s /\ Batches(c - s) = (c - s + s - 1) \div s
  BY DEF Batches
<1> HIDE DEF s
<1>3. (c + s - 1) \div s \in Nat
  BY <1>1
<1>4. c \in 1..s => (c + s - 1) \div s = 1
  BY <1>1
<1>5. \A x \in Nat : (x + s) \div s = x \div s + 1
  BY <1>1
<1>6. c > s => (c - s + s - 1) \div s + 1 = (c + s - 1) \div s
  <2> SUFFICES ASSUME c > s PROVE (c - s + s - 1) \div s + 1 = (c + s - 1) \div s
    OBVIOUS
  <2>1. c - 1 \in Nat /\ c - s + s - 1 = c - 1 /\ c + s - 1 = (c - 1) + s
    BY <1>1
  <2> QED BY <1>5, <2>1
<1> QED BY <1>2, <1>3, <1>4, <1>6 DEF s

\* A minibatch is the last of its epoch, or leaves one minibatch fewer.
LEMMA MinibatchStep ==
  ASSUME BatchSize \in Nat \ {0}, IsFiniteSet(unseen), unseen # {}, NEW batch \in Minibatches
  PROVE  LET c == Cardinality(unseen)
         IN  IF batch = unseen THEN Batches(c) = 1
             ELSE Batches(Cardinality(unseen \ batch)) + 1 = Batches(c)
<1> DEFINE c == Cardinality(unseen)
           b == Cardinality(batch)
<1>1. /\ batch \subseteq unseen /\ IsFiniteSet(batch) /\ c \in Nat \ {0} /\ b \in Nat
      /\ b = IF c < BatchSize THEN c ELSE BatchSize
  BY FS_Subset, FS_CardinalityType, FS_EmptySet DEF Minibatches
<1>2. CASE batch = unseen
  <2>1. c \in 1..BatchSize
    BY <1>1, <1>2
  <2> QED BY <1>2, <2>1, BatchesCount
<1>3. CASE batch # unseen
  <2>1. b < c
    BY <1>1, <1>3, FS_Subset, FS_CardinalityType
  <2>2. b = BatchSize /\ c > BatchSize
    BY <1>1, <2>1
  <2>3. Cardinality(unseen \ batch) = c - BatchSize
    <3>1. Cardinality(unseen \ batch) = c - Cardinality(unseen \cap batch) /\ unseen \cap batch = batch
      BY <1>1, FS_Difference
    <3> QED BY <2>2, <3>1
  <2> QED BY <1>1, <1>3, <2>2, <2>3, BatchesCount
<1> QED BY <1>2, <1>3

LEMMA UpdatePolicySteps ==
  ASSUME IInv, StepsInv, UpdatePolicy
  PROVE  StepsInv'
<1> DEFINE B == Batches(T)
<1>0. /\ pc = "policy" /\ epoch < Epochs /\ unseen # {} /\ stepsTaken' = stepsTaken + 1
      /\ UNCHANGED <<config, pc, rollout>> /\ T' = T
  BY DEF UpdatePolicy, episode, T
<1>1. PICK batch \in Minibatches :
        IF batch = unseen THEN epoch' = epoch + 1 /\ unseen' = Learned
        ELSE epoch' = epoch /\ unseen' = unseen \ batch
  BY DEF UpdatePolicy
<1>2. BatchSize \in Nat \ {0} /\ T \in Nat \ {0} /\ B \in Nat
  BY <1>0, BatchSizeType, RolloutLength, BatchesCount DEF IInv, StepsInv
<1>3. /\ BatchSize' = BatchSize /\ \A n : Batches(n)' = Batches(n)
      /\ Learned' = Learned
  BY <1>0 DEF BatchSize, Batches, Learned
<1>4. unseen \subseteq Learned /\ unseen' \subseteq Learned
  BY <1>0, <1>1 DEF StepsInv
<1>5. ASSUME config.mode # "follow_prior"
      PROVE  /\ unseen' # {} /\ (epoch' = Epochs => unseen' = 1..T)
             /\ stepsTaken' + Batches(Cardinality(unseen')) = (epoch' + 1) * B
  <2>1. /\ Learned = 1..T /\ IsFiniteSet(Learned) /\ Cardinality(Learned) = T
        /\ IsFiniteSet(unseen) /\ IsFiniteSet(unseen')
    <3>1. Learned = 1..T
      BY <1>5 DEF Learned
    <3>2. IsFiniteSet(1..T) /\ Cardinality(1..T) = T
      BY <1>2, FS_Interval
    <3> QED BY <1>4, <3>1, <3>2, FS_Subset
  <2>2. stepsTaken + Batches(Cardinality(unseen)) = (epoch + 1) * B
    BY <1>0, <1>5 DEF StepsInv
  <2>3. stepsTaken \in Nat /\ epoch \in Nat
    BY EpochsAssumption DEF IInv, TypeOK
  <2> HIDE DEF B
  <2>4. CASE batch = unseen
    <3>1. /\ Batches(Cardinality(unseen)) = 1 /\ epoch' = epoch + 1 /\ unseen' = 1..T
          /\ Cardinality(unseen') = T
      BY <1>0, <1>1, <1>2, <2>1, <2>4, MinibatchStep
    <3>2. (epoch + 2) * B = (epoch + 1) * B + B
      BY <1>2, <2>3
    <3>3. stepsTaken' + B = (epoch' + 1) * B
      BY <1>0, <2>2, <2>3, <3>1, <3>2
    <3>4. unseen' # {}
      BY <1>2, <3>1
    <3> QED BY <3>1, <3>3, <3>4 DEF B
  <2>5. CASE batch # unseen
    <3>1. /\ epoch' = epoch /\ unseen' = unseen \ batch /\ batch \subseteq unseen
      BY <1>1, <2>5 DEF Minibatches
    <3>2. Batches(Cardinality(unseen')) + 1 = Batches(Cardinality(unseen))
      BY <1>0, <1>2, <2>1, <2>5, <3>1, MinibatchStep
    <3>3. Batches(Cardinality(unseen')) \in Nat
      BY <1>2, <2>1, FS_CardinalityType, BatchesCount
    <3>4. stepsTaken' + Batches(Cardinality(unseen')) = (epoch' + 1) * B
      BY <1>0, <2>2, <2>3, <3>1, <3>2, <3>3
    <3>5. unseen' # {} /\ epoch' # Epochs
      BY <1>0, <2>3, <2>5, <3>1, EpochsAssumption
    <3> QED BY <3>4, <3>5
  <2> QED BY <2>4, <2>5
<1> QED BY <1>0, <1>3, <1>4, <1>5 DEF StepsInv

LEMMA UpdateCriticSteps ==
  ASSUME IInv, StepsInv, UpdateCritic
  PROVE  StepsInv'
<1>0. /\ pc = "critic" /\ pc' = "policy" /\ epoch' = 0 /\ unseen' = Learned /\ stepsTaken' = 0
      /\ UNCHANGED <<config, rollout>> /\ T' = T
  BY DEF UpdateCritic, episode, T
<1>1. BatchSize \in Nat \ {0} /\ T \in Nat \ {0} /\ Batches(T) \in Nat
  BY <1>0, BatchSizeType, RolloutLength, BatchesCount DEF IInv, StepsInv
<1>2. Learned' = Learned /\ \A n : Batches(n)' = Batches(n)
  BY <1>0 DEF BatchSize, Batches, Learned
<1>3. ASSUME config.mode # "follow_prior"
      PROVE  /\ Learned = 1..T /\ Learned # {}
             /\ 0 + Batches(Cardinality(Learned)) = (0 + 1) * Batches(T)
  <2>1. Learned = 1..T /\ Cardinality(1..T) = T /\ 1 \in 1..T
    BY <1>1, <1>3, FS_Interval DEF Learned
  <2> QED BY <1>1, <2>1
<1> QED BY <1>0, <1>2, <1>3 DEF StepsInv

LEMMA EndPolicySteps ==
  ASSUME IInv, StepsInv, EndPolicy
  PROVE  StepsInv'
<1>0. /\ pc = "policy" /\ pc' = "actors" /\ (epoch = Epochs \/ unseen = {})
      /\ UNCHANGED <<config, rollout, stepsTaken>> /\ T' = T
  BY DEF EndPolicy, episode, update, T
<1>1. BatchSize \in Nat \ {0} /\ T \in Nat \ {0} /\ Batches(T) \in Nat
  BY <1>0, BatchSizeType, RolloutLength, BatchesCount DEF IInv, StepsInv
<1>2. Batches(T)' = Batches(T)
  BY <1>0 DEF BatchSize, Batches
<1>3. ASSUME config.mode # "follow_prior" PROVE stepsTaken = Epochs * Batches(T)
  <2>1. /\ epoch = Epochs /\ unseen = 1..T /\ stepsTaken \in Nat
        /\ stepsTaken + Batches(Cardinality(unseen)) = (epoch + 1) * Batches(T)
    BY <1>0, <1>3 DEF StepsInv, IInv, TypeOK
  <2>2. Cardinality(unseen) = T
    BY <1>1, <2>1, FS_Interval
  <2>3. (Epochs + 1) * Batches(T) = Epochs * Batches(T) + Batches(T) /\ Epochs * Batches(T) \in Nat
    BY <1>1, EpochsAssumption
  <2> QED BY <1>1, <2>1, <2>2, <2>3
<1> QED BY <1>0, <1>2, <1>3 DEF StepsInv

LEMMA StepsKept ==
  ASSUME IInv, StepsInv, [Next]_vars
  PROVE  StepsInv'
<1>1. ASSUME UNCHANGED <<config, rollout, unseen, epoch, stepsTaken>>,
             pc' \in {"credit", "critic"} => rollout # <<>>, pc' = "policy" => pc = "policy",
             pc' = "actors" => pc = "actors"
      PROVE  StepsInv'
  <2>1. T' = T /\ Learned' = Learned /\ \A n : Batches(n)' = Batches(n)
    BY <1>1 DEF T, Learned, Batches, BatchSize
  <2> QED BY <1>1, <2>1 DEF StepsInv
<1>2. ASSUME pc' \notin {"credit", "critic", "policy", "actors"} PROVE StepsInv'
  BY <1>2 DEF StepsInv
<1>3. CASE StartSegment \/ RefuseWarmStart \/ StartRound \/ Arrive
  BY <1>2, <1>3 DEF StartSegment, RefuseWarmStart, StartRound, Arrive
<1>4. CASE EnterScore \/ Score \/ EnterComparison \/ Compare \/ SaveCheckpoint \/ EndUpdate
  BY <1>2, <1>4 DEF EnterScore, Score, EnterComparison, Compare, SaveCheckpoint, EndUpdate
<1>5. CASE EndEpisode \/ Credit
  BY <1>1, <1>5 DEF EndEpisode, Credit, StepsInv, episode, update
<1>6. CASE UpdateActor
  BY <1>1, <1>6 DEF UpdateActor, StepsInv, episode
<1>7. CASE UNCHANGED vars
  BY <1>1, <1>7 DEF vars, StepsInv, episode, update
<1> QED BY <1>3, <1>4, <1>5, <1>6, <1>7, UpdatePolicySteps, UpdateCriticSteps, EndPolicySteps DEF Next

\* Whatever the stream, the plans, the decoding and the minibatches, a ratio of the
\* policy's update compares it with what sampled the transition, under the same
\* advice, the optimizer steps of this update apart, of which there are
\* update_epochs * ceil(n / minibatch); and an agent is compared with itself
\* (the PPO updates of train_approach).
THEOREM RatiosTellThisUpdate == Spec => []RatiosOfThisUpdate
<1>1. Init => StepsInv
  BY DEF Init, StepsInv
<1>2. IInv /\ StepsInv /\ [Next]_vars => StepsInv'
  BY StepsKept
<1>3. IInv /\ StepsInv => RatiosOfThisUpdate
  <2> SUFFICES ASSUME IInv, StepsInv PROVE RatiosOfThisUpdate
    OBVIOUS
  <2>1. ASSUME pc = "policy", NEW t \in unseen
        PROVE  /\ Replayed(t).advice = rollout[t].behaviour.advice
               /\ Replayed(t).policy = rollout[t].behaviour.policy + stepsTaken
    <3>1. config.mode # "follow_prior" /\ t \in 1..Len(rollout)
      BY <2>1 DEF StepsInv, Learned, T
    <3>2. SampledNow(rollout[t])
      BY <2>1, <3>1 DEF IInv, RolloutInv
    <3> QED BY <3>2 DEF SampledNow, Replayed, Advice
  <2>2. pc = "actors" /\ config.mode # "follow_prior" => stepsTaken = Epochs * Batches(T)
    BY DEF StepsInv
  <2>3. ASSUME pc = "actors"
        PROVE  \A d \in Domains \ Tuned : \A i \in DOMAIN fragments[d] :
                 fragments[d][i].actor = actors[d] /\ fragments[d][i].sampled
    BY <2>3 DEF IInv, FragmentInv
  <2> QED BY <2>1, <2>2, <2>3 DEF RatiosOfThisUpdate
<1> QED BY <1>1, <1>2, <1>3, Invariance, PTL DEF Spec

-----------------------------------------------------------------------------
(***************************************************************************)
(* The plans.  A memo holds under the content of a slice what was planned   *)
(* for that content, and the evaluation's, under a request, what was        *)
(* planned for the content of that request.                                 *)
(***************************************************************************)
MemoInv ==
  /\ \A c \in DOMAIN planMemo : planMemo[c].for = c
  /\ ServedForItsSlice

LEMMA LeastNatural ==
  ASSUME NEW S \in SUBSET Nat, S # {}
  PROVE  \E m \in S : \A k \in S : m <= k
<1>1. PICK m \in S : \A k \in S : ~(<<k, m>> \in OpToRel(<, Nat))
  BY NatLessThanWellFounded, WFMin
<1>2. ASSUME NEW k \in S PROVE m <= k
  <2>1. k \in Nat /\ m \in Nat /\ <<k, m>> \in Nat \X Nat
    OBVIOUS
  <2>2. ~(k < m)
    BY <1>1, <2>1 DEF OpToRel
  <2> QED BY <2>1, <2>2
<1> QED BY <1>2

\* What the steps leave alone, but for the three that move an episode on.
LEMMA Frames ==
  ASSUME [Next]_vars
  PROVE  /\ config' = config
         /\ \/ StartSegment \/ Arrive \/ Score
            \/ UNCHANGED <<round, planMemo, evalMemo, rollout, states, stats, fragments>>
BY DEF Next, vars, stack, memos, episode, update, StartSegment, RefuseWarmStart, StartRound,
       Arrive, EndEpisode, Credit, UpdateCritic, UpdatePolicy, EndPolicy, UpdateActor,
       EndUpdate, EnterScore, Score, EnterComparison, Compare, SaveCheckpoint

LEMMA StreamType ==
  ASSUME TypeOK, ProgressInv, pc = "collect", NEW rid \in Requests
  PROVE  Stream[rid] \in Contents
<1>1. round + 1 \in 1..Rounds
  BY StreamAssumption DEF TypeOK, ProgressInv
<1> QED BY <1>1, StreamAssumption DEF Stream

\* What is planned for a request is for its content, asked anew or remembered.
LEMMA PlannedForContent ==
  ASSUME MemoInv, NEW rid, NEW c \in Contents, NEW plan \in Planned(rid, c)
  PROVE  plan.for = c /\ \A k \in DOMAIN Noted(rid, c, plan) : Noted(rid, c, plan)[k].for = k
<1>1. plan.for = c
  BY StreamAssumption DEF Planned, MemoKey, MemoInv
<1> QED BY <1>1 DEF Noted, With, MemoKey, MemoInv

LEMMA ArrivingRequest ==
  ASSUME IInv, Arrive
  PROVE  stats.arrived + 1 \in Requests
<1>1. stats.arrived \in 0..Arrivals
  BY DEF IInv, TypeOK
<1>2. stats.arrived < Arrivals
  BY DEF Arrive
<1> QED BY <1>1, <1>2, ArrivalsNat DEF Requests

LEMMA ArriveMemo ==
  ASSUME IInv, MemoInv, Arrive
  PROVE  MemoInv'
<1> DEFINE rid == stats.arrived + 1
           c == Stream[rid]
<1>1. /\ pc = "collect" /\ evalMemo' = evalMemo /\ config' = config /\ round' = round
      /\ rid \in Requests
  BY ArrivingRequest DEF Arrive
<1>2. c \in Contents
  BY <1>1, StreamType DEF IInv
<1>3. PICK plan \in Planned(rid, c) :
        /\ planMemo' = Noted(rid, c, plan)
        /\ \/ rollout' = rollout
           \/ \E tr : rollout' = Append(rollout, tr) /\ tr.rid = rid /\ tr.plan = plan
  BY DEF Arrive
<1>4. plan.for = c /\ \A k \in DOMAIN planMemo' : planMemo'[k].for = k
  BY <1>2, <1>3, PlannedForContent
<1>5. Stream' = Stream
  BY <1>1 DEF Stream
<1> HIDE DEF rid, c
<1>6. ASSUME NEW t \in 1..T' PROVE rollout'[t].plan.for = Stream[rollout'[t].rid]
  <2>1. CASE rollout' = rollout
    BY <1>6, <2>1 DEF MemoInv, ServedForItsSlice, T
  <2>2. CASE rollout' # rollout
    <3>1. PICK tr : rollout' = Append(rollout, tr) /\ tr.rid = rid /\ tr.plan = plan
      BY <1>3, <2>2
    <3>2. /\ Len(rollout) \in Nat /\ Len(rollout') = Len(rollout) + 1
          /\ \A i \in 1..Len(rollout) : rollout'[i] = rollout[i]
          /\ rollout'[Len(rollout) + 1] = tr
      BY <3>1, AppendToSequence DEF IInv, SequenceInv
    <3>3. t \in 1..Len(rollout) \/ t = Len(rollout) + 1
      BY <1>6, <3>2 DEF T
    <3> QED BY <1>4, <3>1, <3>2, <3>3 DEF c, MemoInv, ServedForItsSlice, T
  <2> QED BY <2>1, <2>2
<1> QED BY <1>1, <1>4, <1>5, <1>6 DEF MemoInv, ServedForItsSlice

\* A request of the evaluation is served its own plan, the plan of its content,
\* or what the first request of that content is answered.
LEMMA ServedForContent ==
  ASSUME MemoInv, NEW rid \in Requests,
         NEW a, \A r \in Requests : a[r] \in Answers[EvalStream[r]]
  PROVE  Served(rid, a).for = EvalStream[rid]
<1> DEFINE key == EvalStream[rid]
           Same == {r \in Requests : EvalStream[r] = key}
<1>1. \A r \in Requests : EvalStream[r] \in Contents /\ a[r].for = EvalStream[r]
  BY StreamAssumption DEF Requests, Arrivals
<1>2. PICK first \in Same : \A r \in Same : first <= r
  <2>1. Same \in SUBSET Nat /\ Same # {}
    BY ArrivalsNat DEF Requests
  <2> HIDE DEF Same
  <2> QED BY <2>1, LeastNatural
<1>3. \E r \in Requests : EvalStream[r] = key /\ \A q \in 1..(r - 1) : EvalStream[q] # key
  <2>1. \A q \in 1..(first - 1) : q \in Requests /\ q < first
    BY <1>2, ArrivalsNat DEF Requests
  <2>2. ASSUME NEW q \in 1..(first - 1), EvalStream[q] = key PROVE FALSE
    <3>1. q \in Same
      BY <2>1, <2>2
    <3>2. first \in Int /\ first <= q /\ q < first
      BY <1>2, <2>1, <3>1, ArrivalsNat DEF Requests
    <3> QED BY <3>2, <2>2
  <2> QED BY <1>2, <2>2
<1> DEFINE f == CHOOSE r \in Requests : EvalStream[r] = key /\ \A q \in 1..(r - 1) : EvalStream[q] # key
<1>4. f \in Requests /\ EvalStream[f] = key
  BY <1>3
<1>5. Served(rid, a) = IF rid \in DOMAIN evalMemo THEN evalMemo[rid]
                       ELSE IF ~Memoised THEN a[rid]
                       ELSE IF key \in DOMAIN planMemo THEN planMemo[key] ELSE a[f]
  BY DEF Served, MemoKey
<1> HIDE DEF f
<1> QED BY <1>1, <1>4, <1>5 DEF MemoInv, ServedForItsSlice

LEMMA ScoreMemo ==
  ASSUME IInv, MemoInv, Score
  PROVE  MemoInv'
<1>1. rollout' = <<>> /\ T' = 0
  BY EmptySeq, LenProperties DEF Score, NoEpisode, T
<1>2. CASE UNCHANGED memos
  BY <1>1, <1>2 DEF memos, MemoInv, ServedForItsSlice
<1>3. ASSUME NEW a, \A r \in Requests : a[r] \in Answers[EvalStream[r]],
             evalMemo' = [r \in Requests |-> Served(r, a)],
             \/ planMemo' = planMemo
             \/ planMemo' = Updated(planMemo,
                  [k \in {EvalStream[r] : r \in Requests} |->
                     Served(CHOOSE r \in Requests : EvalStream[r] = k, a)])
      PROVE  MemoInv'
  <2>1. \A r \in Requests : Served(r, a).for = EvalStream[r]
    BY <1>3, ServedForContent
  <2>2. ASSUME NEW k \in {EvalStream[r] : r \in Requests}
        PROVE  Served(CHOOSE r \in Requests : EvalStream[r] = k, a).for = k
    <3>1. \E r \in Requests : EvalStream[r] = k
      BY <2>2
    <3>2. (CHOOSE r \in Requests : EvalStream[r] = k) \in Requests
          /\ EvalStream[CHOOSE r \in Requests : EvalStream[r] = k] = k
      BY <3>1
    <3> QED BY <2>1, <3>2
  <2>3. \A k \in DOMAIN planMemo' : planMemo'[k].for = k
    <3>1. CASE planMemo' = planMemo
      BY <3>1 DEF MemoInv
    <3> DEFINE new == [k \in {EvalStream[r] : r \in Requests} |->
                         Served(CHOOSE r \in Requests : EvalStream[r] = k, a)]
    <3>2. CASE planMemo' = Updated(planMemo, new)
      <4>1. \A k \in DOMAIN new : new[k].for = k
        BY <2>2
      <4> HIDE DEF new
      <4> QED BY <3>2, <4>1 DEF Updated, MemoInv
    <3> QED BY <1>3, <3>1, <3>2
  <2> QED BY <1>1, <1>3, <2>1, <2>3 DEF MemoInv, ServedForItsSlice
<1> QED BY <1>2, <1>3 DEF Score, ServeEvaluation, MemoKey, memos

LEMMA MemoKept ==
  ASSUME IInv, MemoInv, [Next]_vars
  PROVE  MemoInv'
<1>1. CASE StartSegment
  <2>1. planMemo' = <<>> /\ evalMemo' = <<>> /\ rollout' = <<>>
    BY <1>1 DEF StartSegment, episode, IInv, ClearInv
  <2> QED BY <2>1, EmptySeq, LenProperties DEF MemoInv, ServedForItsSlice, T
<1>2. CASE UNCHANGED <<round, planMemo, evalMemo, rollout, states, stats, fragments>>
  BY <1>2, Frames DEF MemoInv, ServedForItsSlice, T, Stream
<1> QED BY <1>1, <1>2, Frames, ArriveMemo, ScoreMemo

\* Training and evaluation number their requests alike and the memos outlive a
\* round, and still no slice is served a plan made for another content
\* (_slice_memo_key, eval_pb).
THEOREM PlansServedForTheirSlice == Spec => []ServedForItsSlice
<1>1. Init => MemoInv
  BY EmptySeq, LenProperties DEF Init, MemoInv, ServedForItsSlice, T
<1>2. IInv /\ MemoInv /\ [Next]_vars => MemoInv'
  BY MemoKept
<1>3. MemoInv => ServedForItsSlice
  BY DEF MemoInv
<1> QED BY <1>1, <1>2, <1>3, Invariance, PTL DEF Spec

-----------------------------------------------------------------------------
(***************************************************************************)
(* Finite products.  Each fact is proved by taking a smallest set for which *)
(* it fails.                                                                *)
(***************************************************************************)
\* The element a fold takes first, and the table it fills.
First(s) == CHOOSE x \in s : TRUE

IsProduct(g, f, U) ==
  g = [s \in SUBSET U |-> IF s = {} THEN 1 ELSE f[First(s)] * g[s \ {First(s)}]]

LEMMA SmallestSubset ==
  ASSUME NEW U, IsFiniteSet(U), NEW F \in SUBSET (SUBSET U), F # {}
  PROVE  \E s \in F : \A t \in F : t \subseteq s => t = s
<1>1. F \subseteq FiniteSubsetsOf(U)
  BY FS_FiniteSubsetsOfFinite
<1>2. PICK s \in F : \A t \in F : <<t, s>> \notin StrictSubsetOrdering(U)
  BY <1>1, FS_StrictSubsetOrderingWellFounded, WFMin
<1>. QED  BY <1>2 DEF StrictSubsetOrdering

LEMMA ProductIsTable ==
  ASSUME NEW f, NEW S
  PROVE  Product(f, S) = (CHOOSE g : IsProduct(g, f, S))[S]
BY DEF Product, FoldFunctionOnSet, MapThenFoldSet, IsProduct, First

LEMMA FirstIn == ASSUME NEW s, s # {} PROVE First(s) \in s
BY DEF First

LEMMA TablesAgree ==
  ASSUME NEW f, NEW U, IsFiniteSet(U), NEW V, NEW g, NEW h, IsProduct(g, f, U), IsProduct(h, f, V),
         NEW s \in SUBSET U, s \subseteq V
  PROVE  g[s] = h[s]
<1> DEFINE Bad == {t \in SUBSET U : t \subseteq V /\ g[t] # h[t]}
<1> SUFFICES ASSUME Bad # {} PROVE FALSE
  OBVIOUS
<1>0. Bad \in SUBSET (SUBSET U)
  OBVIOUS
<1>1. PICK t \in Bad : \A u \in Bad : u \subseteq t => u = t
  <2>. HIDE DEF Bad
  <2>. QED  BY <1>0, SmallestSubset
<1>2. t # {}
  BY <1>1 DEF IsProduct
<1> DEFINE r == t \ {First(t)}
<1>3. r \subseteq t /\ r # t
  BY <1>2, FirstIn
<1>4. g[r] = h[r]
  BY <1>1, <1>3
<1>5. g[t] = f[First(t)] * g[r] /\ h[t] = f[First(t)] * h[r]
  BY <1>1, <1>2 DEF IsProduct
<1>. QED  BY <1>1, <1>4, <1>5

LEMMA TableExists ==
  ASSUME NEW f, NEW S, IsFiniteSet(S)
  PROVE  \E g : IsProduct(g, f, S)
<1> DEFINE Bad == {t \in SUBSET S : ~ \E g : IsProduct(g, f, t)}
<1> SUFFICES ASSUME Bad # {} PROVE FALSE
  OBVIOUS
<1>0. Bad \in SUBSET (SUBSET S)
  OBVIOUS
<1>1. PICK t \in Bad : \A u \in Bad : u \subseteq t => u = t
  <2>. HIDE DEF Bad
  <2>. QED  BY <1>0, SmallestSubset
<1> DEFINE Table(u) == CHOOSE g : IsProduct(g, f, u)
           G == [s \in SUBSET t |-> IF s = {} THEN 1
                                    ELSE f[First(s)] * Table(s \ {First(s)})[s \ {First(s)}]]
<1>2. ASSUME NEW u \in SUBSET t, u # t PROVE IsProduct(Table(u), f, u)
  <2>1. u \notin Bad /\ u \in SUBSET S
    BY <1>1, <1>2
  <2>2. \E g : IsProduct(g, f, u)
    BY <2>1
  <2>. QED  BY <2>2
<1>3. ASSUME NEW u \in SUBSET t, u # t PROVE G[u] = Table(u)[u]
  <2>1. CASE u = {}
    <3>1. IsProduct(Table(u), f, u)
      BY <1>2, <1>3
    <3>2. Table(u)[u] = 1
      <4>. HIDE DEF Table
      <4>. QED  BY <3>1, <2>1 DEF IsProduct
    <3>. QED  BY <3>2, <2>1
  <2>2. CASE u # {}
    <3> DEFINE r == u \ {First(u)}
    <3>1. r \subseteq u /\ r \in SUBSET t /\ r # t
      BY <1>3
    <3>2. Table(u)[u] = f[First(u)] * Table(u)[r]
      <4>1. IsProduct(Table(u), f, u)
        BY <1>2, <1>3
      <4>. HIDE DEF Table
      <4>. QED BY <4>1, <2>2 DEF IsProduct
    <3>3. Table(u)[r] = Table(r)[r]
      <4>1. IsProduct(Table(u), f, u) /\ IsProduct(Table(r), f, r) /\ IsFiniteSet(u)
        BY <1>2, <1>3, <3>1, FS_Subset
      <4>2. r \in SUBSET u /\ r \subseteq r
        BY <3>1
      <4>. HIDE DEF Table, r
      <4>. QED BY <4>1, <4>2, TablesAgree
    <3>4. G[u] = f[First(u)] * Table(r)[r]
      BY <2>2
    <3>. QED  BY <3>2, <3>3, <3>4
  <2>. QED  BY <2>1, <2>2
<1>4. IsProduct(G, f, t)
  <2>1. ASSUME NEW s \in SUBSET t, s # {}
        PROVE  Table(s \ {First(s)})[s \ {First(s)}] = G[s \ {First(s)}]
    <3>1. s \ {First(s)} \in SUBSET t /\ s \ {First(s)} # t
      BY <2>1, FirstIn
    <3>. HIDE DEF G, Table
    <3>. QED  BY <1>3, <3>1
  <2>2. G = [s \in SUBSET t |-> IF s = {} THEN 1 ELSE f[First(s)] * G[s \ {First(s)}]]
    <3>. HIDE DEF Table
    <3>. QED  BY <2>1
  <2>. HIDE DEF G
  <2>. QED  BY <2>2 DEF IsProduct
<1>. QED  BY <1>1, <1>4

\* A product is empty, or a first factor and the product of the rest.
LEMMA ProductUnfolds ==
  ASSUME NEW f, NEW S, IsFiniteSet(S)
  PROVE  Product(f, S) =
           IF S = {} THEN 1 ELSE f[First(S)] * Product(f, S \ {First(S)})
<1> DEFINE Table(u) == CHOOSE g : IsProduct(g, f, u)
           r == S \ {First(S)}
<1>1. IsFiniteSet(r)
  BY FS_Subset
<1>2. IsProduct(Table(S), f, S) /\ IsProduct(Table(r), f, r)
  <2>1. (\E g : IsProduct(g, f, S)) /\ (\E g : IsProduct(g, f, r))
    BY <1>1, TableExists
  <2>. QED BY <2>1
<1>3. Product(f, S) = Table(S)[S] /\ Product(f, r) = Table(r)[r]
  BY ProductIsTable
<1>. HIDE DEF Table
<1>4. Table(S)[r] = Table(r)[r]
  BY <1>1, <1>2, TablesAgree
<1>5. Table(S)[S] = IF S = {} THEN 1 ELSE f[First(S)] * Table(S)[r]
  BY <1>2 DEF IsProduct
<1>. QED  BY <1>3, <1>4, <1>5

LEMMA ProductEmpty ==
  ASSUME NEW f
  PROVE  Product(f, {}) = 1
BY ProductUnfolds, FS_EmptySet

LEMMA ProductType ==
  ASSUME NEW f, NEW S, IsFiniteSet(S), \A x \in S : f[x] \in Int
  PROVE  Product(f, S) \in Int
<1> DEFINE Bad == {t \in SUBSET S : Product(f, t) \notin Int}
<1> SUFFICES ASSUME Bad # {} PROVE FALSE
  OBVIOUS
<1>0. Bad \in SUBSET (SUBSET S)
  OBVIOUS
<1>1. PICK t \in Bad : \A u \in Bad : u \subseteq t => u = t
  <2>. HIDE DEF Bad
  <2>. QED  BY <1>0, SmallestSubset
<1>2. IsFiniteSet(t)
  BY <1>1, FS_Subset
<1>3. t # {}
  <2>1. Product(f, t) \notin Int
    BY <1>1
  <2>. QED  BY <2>1, ProductEmpty
<1>4. First(t) \in t /\ t \ {First(t)} \notin Bad
  BY <1>1, <1>3, FirstIn
<1>5. Product(f, t \ {First(t)}) \in Int /\ f[First(t)] \in Int
  BY <1>4, <1>1
<1>. QED  BY <1>1, <1>2, <1>3, <1>5, ProductUnfolds

\* Any factor may be taken out first.
LEMMA ProductTakes ==
  ASSUME NEW f, NEW S, IsFiniteSet(S), \A x \in S : f[x] \in Int, NEW e \in S
  PROVE  Product(f, S) = f[e] * Product(f, S \ {e})
<1> DEFINE Bad == {t \in SUBSET S : \E x \in t :
                     Product(f, t) # f[x] * Product(f, t \ {x})}
<1> SUFFICES ASSUME Bad # {} PROVE FALSE
  OBVIOUS
<1>0. Bad \in SUBSET (SUBSET S)
  OBVIOUS
<1>1. PICK t \in Bad : \A u \in Bad : u \subseteq t => u = t
  <2>. HIDE DEF Bad
  <2>. QED  BY <1>0, SmallestSubset
<1>2. PICK x \in t : Product(f, t) # f[x] * Product(f, t \ {x})
  BY <1>1
<1> DEFINE y == First(t)
<1>3. y \in t /\ Product(f, t) = f[y] * Product(f, t \ {y})
  BY <1>1, <1>2, FirstIn, ProductUnfolds, FS_Subset
<1>4. x # y
  BY <1>2, <1>3
<1>. HIDE DEF y
<1>5. t \ {y} \notin Bad /\ t \ {x} \notin Bad /\ t \ {y} \in SUBSET S /\ t \ {x} \in SUBSET S
  BY <1>1, <1>2, <1>3
<1>6. Product(f, t \ {y}) = f[x] * Product(f, (t \ {y}) \ {x})
  BY <1>2, <1>4, <1>5
<1>7. Product(f, t \ {x}) = f[y] * Product(f, (t \ {x}) \ {y})
  BY <1>3, <1>4, <1>5
<1>8. (t \ {y}) \ {x} = (t \ {x}) \ {y}
  OBVIOUS
<1>9. Product(f, (t \ {x}) \ {y}) \in Int /\ f[x] \in Int /\ f[y] \in Int
  BY <1>1, <1>2, <1>3, ProductType, FS_Subset
<1>10. \A a, b, c \in Int : a * (b * c) = b * (a * c)
  OBVIOUS
<1>11. f[y] * (f[x] * Product(f, (t \ {x}) \ {y})) = f[x] * (f[y] * Product(f, (t \ {x}) \ {y}))
  BY <1>9, <1>10, Zenon
<1>. HIDE DEF Bad
<1>. QED  BY <1>2, <1>3, <1>6, <1>7, <1>8, <1>11


\* A factor more.
LEMMA ProductExtends ==
  ASSUME NEW f, NEW S, IsFiniteSet(S), NEW e, e \notin S, \A x \in S \cup {e} : f[x] \in Int
  PROVE  Product(f, S \cup {e}) = f[e] * Product(f, S)
<1>1. IsFiniteSet(S \cup {e}) /\ (S \cup {e}) \ {e} = S /\ e \in S \cup {e}
  BY FS_AddElement
<1> QED BY <1>1, ProductTakes

\* A product depends on its factors only.
LEMMA ProductSame ==
  ASSUME NEW f, NEW g, NEW S, IsFiniteSet(S), \A x \in S : f[x] = g[x]
  PROVE  Product(f, S) = Product(g, S)
<1> DEFINE Bad == {t \in SUBSET S : Product(f, t) # Product(g, t)}
<1> SUFFICES ASSUME Bad # {} PROVE FALSE
  OBVIOUS
<1>0. Bad \in SUBSET (SUBSET S)
  OBVIOUS
<1>1. PICK t \in Bad : \A u \in Bad : u \subseteq t => u = t
  <2>. HIDE DEF Bad
  <2>. QED  BY <1>0, SmallestSubset
<1>2. t # {} /\ IsFiniteSet(t)
  BY <1>1, ProductEmpty, FS_Subset
<1>3. First(t) \in t /\ t \ {First(t)} \notin Bad
  BY <1>1, <1>2, FirstIn
<1>4. Product(f, t \ {First(t)}) = Product(g, t \ {First(t)}) /\ f[First(t)] = g[First(t)]
  BY <1>1, <1>3
<1> QED BY <1>1, <1>2, <1>4, ProductUnfolds

-----------------------------------------------------------------------------
(***************************************************************************)
(* The actors.  The correction of a request is at all times the product of  *)
(* what the agents tuned so far made of it.                                 *)
(***************************************************************************)
TuneInv ==
  /\ Tuned \subseteq Agents /\ IsFiniteSet(Tuned) /\ Cardinality(Tuned) = Len(tuned)
  /\ \A rid \in Requests :
       Correction(rid) = Product(RatiosBefore(Len(tuned) + 1, rid), Before(Len(tuned) + 1, rid))
  /\ \A d \in Domains : RequestsOf(d) \subseteq Requests
  /\ pc = "collect" /\ rollout = <<>> => fragments = [d \in Domains |-> <<>>]
  /\ AgentsBuildOnEachOther

LEMMA BeforeFinite ==
  ASSUME NEW n \in Nat, NEW rid
  PROVE  IsFiniteSet(Before(n, rid))
<1>1. IsFiniteSet(1..(n - 1)) /\ Before(n, rid) \subseteq 1..(n - 1)
  BY FS_Interval DEF Before
<1> QED BY <1>1, FS_Subset

LEMMA NoneTuned ==
  ASSUME tuned = <<>>
  PROVE  /\ Len(tuned) = 0 /\ DOMAIN tuned = {} /\ Tuned = {}
         /\ \A rid : Before(Len(tuned) + 1, rid) = {}
BY EmptySeq, LenProperties DEF Tuned, Before

\* Fragments only change while no agent has been tuned.
LEMMA TuneInvWhenNoneTuned ==
  ASSUME TuneInv, SequenceInv, tuned = <<>>, tuned' = <<>>, correction' = correction \/ correction' = <<>>,
         pc' # "score" \/ Agents' = {}, \A d \in Domains : RequestsOf(d)' \subseteq Requests,
         pc' = "collect" /\ rollout' = <<>> => fragments' = [d \in Domains |-> <<>>]
  PROVE  TuneInv'
<1>1. Len(tuned) = 0 /\ \A rid : Before(Len(tuned) + 1, rid) = {}
  BY NoneTuned
<1>2. /\ Len(tuned') = 0 /\ DOMAIN tuned' = {} /\ Tuned' = {}
      /\ \A rid : Before(Len(tuned) + 1, rid)' = {}
  BY EmptySeq, LenProperties DEF Tuned, Before
<1>3. \A rid \in Requests : Correction(rid) = 1
  BY <1>1, ProductEmpty DEF TuneInv
<1>4. \A rid \in Requests : Correction(rid)' = 1
  BY <1>3 DEF Correction
<1>5. \A rid \in Requests :
        Correction(rid)' = Product(RatiosBefore(Len(tuned) + 1, rid), Before(Len(tuned) + 1, rid))'
  <2> SUFFICES ASSUME NEW rid \in Requests
               PROVE  Product(RatiosBefore(Len(tuned) + 1, rid), Before(Len(tuned) + 1, rid))' = 1
    BY <1>4
  <2>1. Before(Len(tuned) + 1, rid)' = {}
    BY <1>2
  <2> QED BY <2>1, ProductEmpty
<1>6. IsFiniteSet(Tuned') /\ Cardinality(Tuned') = Len(tuned')
  BY <1>2, FS_EmptySet
<1>7. AgentsBuildOnEachOther'
  <2>1. pc' = "score" => Tuned' = Agents' /\ Len(tuned') = Cardinality(Agents')
    BY <1>2, FS_EmptySet
  <2> QED BY <1>2, <2>1 DEF AgentsBuildOnEachOther
<1> QED BY <1>2, <1>5, <1>6, <1>7 DEF TuneInv

LEMMA ClippedType ==
  ASSUME NEW d \in Domains, NEW rid \in Requests
  PROVE  Clipped(Ratio[d][rid]) \in Int
BY RatioAssumption DEF Clipped

\* The requests of no agent change while the fragments do not.
LEMMA AgentsKept ==
  ASSUME fragments' = fragments
  PROVE  Agents' = Agents /\ \A d : RequestsOf(d)' = RequestsOf(d)
BY DEF Agents, RequestsOf

LEMMA UpdateActorTune ==
  ASSUME IInv, TuneInv, UpdateActor
  PROVE  TuneInv'
<1>0. PICK n \in Nat : n = Len(tuned)
  BY AppendToSequence DEF IInv, SequenceInv
<1>1. PICK d \in Agents \ Tuned :
        /\ tuned' = Append(tuned, [domain |-> d, scale |-> [rid \in RequestsOf(d) |-> Correction(rid)]])
        /\ correction' = Updated(correction, [rid \in RequestsOf(d) |-> Corrected(d, rid)])
  BY DEF UpdateActor
<1> DEFINE entry == [domain |-> d, scale |-> [rid \in RequestsOf(d) |-> Correction(rid)]]
<1>2. entry.domain = d /\ entry.scale = [rid \in RequestsOf(d) |-> Correction(rid)]
  OBVIOUS
<1> HIDE DEF entry
<1>3. /\ n \in Nat /\ DOMAIN tuned = 1..n /\ DOMAIN tuned' = 1..(n + 1) /\ Len(tuned') = n + 1
      /\ \A i \in 1..n : tuned'[i] = tuned[i]
      /\ tuned'[n + 1] = entry
  BY <1>0, <1>1, AppendToSequence DEF IInv, SequenceInv, entry
<1>4. /\ pc = "actors" /\ pc' = "actors" /\ fragments' = fragments /\ rollout' = rollout
      /\ Agents' = Agents /\ \A e : RequestsOf(e)' = RequestsOf(e)
      /\ d \in Domains
  BY AgentsKept DEF UpdateActor, episode, Agents
<1>5. Tuned' = Tuned \cup {d}
  BY <1>2, <1>3 DEF Tuned
<1>6. /\ Tuned' \subseteq Agents' /\ IsFiniteSet(Tuned')
      /\ Cardinality(Tuned') = Len(tuned')
  BY <1>0, <1>1, <1>3, <1>4, <1>5, FS_AddElement DEF TuneInv
<1>7. \A i \in 1..(n + 1) : \A rid : Before(i, rid)' = Before(i, rid)
  <2> SUFFICES ASSUME NEW i \in 1..(n + 1), NEW rid PROVE Before(i, rid)' = Before(i, rid)
    OBVIOUS
  <2>1. \A j \in 1..(i - 1) : j \in 1..n
    BY <1>3
  <2> QED BY <1>3, <1>4, <2>1 DEF Before
<1>8. \A i \in 1..(n + 1) : \A rid :
        Product(RatiosBefore(i, rid), Before(i, rid))' = Product(RatiosBefore(i, rid), Before(i, rid))
  <2> SUFFICES ASSUME NEW i \in 1..(n + 1), NEW rid
               PROVE  RatiosBefore(i, rid)' = RatiosBefore(i, rid)
    BY <1>7
  <2>1. \A j \in Before(i, rid) : tuned'[j] = tuned[j]
    BY <1>3 DEF Before
  <2> QED BY <1>7, <2>1 DEF RatiosBefore
<1>9. ASSUME NEW i \in DOMAIN tuned', NEW rid \in RequestsOf(tuned[i].domain)'
      PROVE  tuned'[i].scale[rid] = Product(RatiosBefore(i, rid), Before(i, rid))'
  <2>1. CASE i \in 1..n
    <3>1. tuned'[i] = tuned[i] /\ rid \in RequestsOf(tuned[i].domain) /\ i \in 1..(n + 1)
      BY <1>3, <1>4, <1>9, <2>1
    <3>2. tuned[i].scale[rid] = Product(RatiosBefore(i, rid), Before(i, rid))
      BY <1>3, <2>1, <3>1 DEF TuneInv, AgentsBuildOnEachOther
    <3> QED BY <1>8, <3>1, <3>2
  <2>2. CASE i = n + 1
    <3>1. rid \in RequestsOf(d) /\ rid \in Requests
      BY <1>2, <1>3, <1>4, <1>9, <2>2 DEF TuneInv
    <3>2. tuned'[i].scale[rid] = Correction(rid)
      BY <1>2, <1>3, <2>2, <3>1
    <3>3. Correction(rid) = Product(RatiosBefore(n + 1, rid), Before(n + 1, rid))
      BY <1>0, <3>1 DEF TuneInv
    <3>4. n + 1 \in 1..(n + 1)
      BY <1>3
    <3> QED BY <1>8, <2>2, <3>2, <3>3, <3>4
  <2> QED BY <1>3, <1>9, <2>1, <2>2
<1>10. ASSUME NEW rid \in Requests
       PROVE  Correction(rid)' = Product(RatiosBefore(n + 2, rid), Before(n + 2, rid))'
  <2> DEFINE S == Before(n + 1, rid)
             f == RatiosBefore(n + 1, rid)
             g == RatiosBefore(n + 2, rid)'
  <2>1. Correction(rid) = Product(f, S) /\ IsFiniteSet(S) /\ S \subseteq 1..n
    <3>1. n + 1 \in Nat /\ n + 1 - 1 = n
      BY <1>0
    <3>2. IsFiniteSet(S)
      BY <3>1, BeforeFinite
    <3>3. S \subseteq 1..n
      BY <3>1 DEF Before
    <3> QED BY <1>0, <3>2, <3>3 DEF TuneInv
  <2>2. Before(n + 2, rid)' = IF rid \in RequestsOf(d) THEN S \cup {n + 1} ELSE S
    <3>1. \A j : j \in 1..(n + 2 - 1) <=> j \in 1..n \/ j = n + 1
      BY <1>3
    <3>2. \A j \in 1..n : tuned'[j] = tuned[j]
      BY <1>3
    <3>3. tuned'[n + 1].domain = d
      BY <1>2, <1>3
    <3>4. \A j : j \in 1..(n + 1 - 1) <=> j \in 1..n
      BY <1>3
    <3>5. /\ S = {j \in 1..n : rid \in RequestsOf(tuned[j].domain)}
          /\ Before(n + 2, rid)' = {j \in 1..(n + 2 - 1) : rid \in RequestsOf(tuned[j].domain)'}
      BY <3>4 DEF Before
    <3>6. /\ \A j \in 1..n : RequestsOf(tuned[j].domain)' = RequestsOf(tuned[j].domain)
          /\ RequestsOf(tuned[n + 1].domain)' = RequestsOf(d)
      BY <1>4, <3>2, <3>3
    <3> QED BY <3>1, <3>5, <3>6
  <2>3. /\ g = [j \in Before(n + 2, rid)' |-> Clipped(Ratio[tuned'[j].domain][rid])]
        /\ \A j \in S : tuned'[j] = tuned[j] /\ f[j] = Clipped(Ratio[tuned[j].domain][rid])
        /\ \A j \in S : tuned[j].domain \in Domains
    <3>1. \A j \in 1..n : tuned[j].domain \in Domains
      BY <1>3 DEF TuneInv, Tuned, Agents
    <3> QED BY <1>3, <2>1, <3>1 DEF RatiosBefore
  <2>4. \A j \in S : g[j] = f[j] /\ g[j] \in Int
    BY <2>2, <2>3, ClippedType
  <2>5. Product(g, S) = Product(f, S)
    <3>1. IsFiniteSet(S) /\ \A j \in S : g[j] = f[j]
      BY <2>1, <2>4
    <3> HIDE DEF S, f, g
    <3> QED BY <3>1, ProductSame
  <2>6. CASE rid \in RequestsOf(d)
    <3>1. g[n + 1] = Clipped(Ratio[d][rid]) /\ g[n + 1] \in Int /\ n + 1 \notin S
      BY <1>2, <1>3, <1>4, <2>1, <2>2, <2>3, <2>6, ClippedType
    <3>2. Product(g, S \cup {n + 1}) = g[n + 1] * Product(g, S)
      <4>1. \A x \in S \cup {n + 1} : g[x] \in Int
        BY <2>4, <3>1
      <4> HIDE DEF S, f, g
      <4> QED BY <2>1, <3>1, <4>1, ProductExtends
    <3>3. Correction(rid)' = Correction(rid) * Clipped(Ratio[d][rid])
      BY <1>1, <2>6 DEF Correction, Corrected, Updated
    <3>4. Product(f, S) \in Int
      <4>1. \A j \in S : f[j] \in Int
        BY <2>4
      <4> HIDE DEF S, f, g
      <4> QED BY <2>1, <4>1, ProductType
    <3>5. Product(g, S \cup {n + 1}) = Correction(rid)'
      <4>1. \A a, b \in Int : a * b = b * a
        OBVIOUS
      <4> HIDE DEF S, f, g
      <4> QED BY <2>1, <2>5, <3>1, <3>2, <3>3, <3>4, <4>1
    <3> QED BY <2>2, <2>6, <3>5
  <2>7. CASE rid \notin RequestsOf(d)
    <3>1. Correction(rid)' = Correction(rid)
      BY <1>1, <2>7 DEF Correction, Updated
    <3> QED BY <2>1, <2>2, <2>5, <2>7, <3>1
  <2> QED BY <2>6, <2>7
<1>11. \A rid \in Requests :
         Correction(rid)' = Product(RatiosBefore(Len(tuned) + 1, rid), Before(Len(tuned) + 1, rid))'
  <2>1. Len(tuned') + 1 = n + 2
    BY <1>3
  <2> QED BY <1>10, <2>1
<1>12. AgentsBuildOnEachOther'
  BY <1>4, <1>9 DEF AgentsBuildOnEachOther
<1> QED BY <1>4, <1>6, <1>11, <1>12 DEF TuneInv

LEMMA ArriveTune ==
  ASSUME IInv, TuneInv, Arrive
  PROVE  TuneInv'
<1> DEFINE rid == stats.arrived + 1
<1>1. /\ pc = "collect" /\ pc' = "collect" /\ tuned = <<>> /\ tuned' = tuned /\ correction' = correction
      /\ rid \in Requests /\ SequenceInv
  BY ArrivingRequest DEF Arrive, update, IInv, ClearInv
<1>2. CASE UNCHANGED <<rollout, fragments>>
  <2>1. \A d : RequestsOf(d)' = RequestsOf(d)
    BY <1>2 DEF RequestsOf
  <2> QED BY <1>1, <1>2, <2>1, TuneInvWhenNoneTuned DEF TuneInv
<1>3. ASSUME NEW p, NEW tr, fragments' = Dispatched(rid, p), rollout' = Append(rollout, tr)
      PROVE  TuneInv'
  <2>1. \A d \in Domains : RequestsOf(d)' \subseteq Requests
    <3> SUFFICES ASSUME NEW d \in Domains PROVE {fragments'[d][i].rid : i \in DOMAIN fragments'[d]} \subseteq Requests
      BY DEF RequestsOf
    <3> DEFINE fragment == [rid |-> rid, actor |-> actors[d], sampled |-> stochastic]
    <3>1. fragments'[d] = fragments[d] \/ fragments'[d] = Append(fragments[d], fragment)
      BY <1>3 DEF Dispatched
    <3>2. \A i \in DOMAIN fragments[d] : fragments[d][i].rid \in Requests
      BY DEF TuneInv, RequestsOf
    <3>3. fragment.rid \in Requests
      BY <1>1
    <3> HIDE DEF fragment
    <3>4. /\ Len(fragments[d]) \in Nat /\ DOMAIN fragments[d] = 1..Len(fragments[d])
          /\ DOMAIN Append(fragments[d], fragment) = 1..(Len(fragments[d]) + 1)
          /\ \A i \in 1..Len(fragments[d]) : Append(fragments[d], fragment)[i] = fragments[d][i]
          /\ Append(fragments[d], fragment)[Len(fragments[d]) + 1] = fragment
      BY <1>1, AppendToSequence DEF SequenceInv
    <3>5. CASE fragments'[d] = Append(fragments[d], fragment)
      BY <3>2, <3>3, <3>4, <3>5
    <3> QED BY <3>1, <3>2, <3>5
  <2>2. rollout' # <<>>
    <3>1. Len(rollout') = Len(rollout) + 1 /\ Len(rollout) \in Nat
      BY <1>1, <1>3, AppendToSequence DEF SequenceInv
    <3> QED BY <3>1, EmptySeq, LenProperties
  <2> QED BY <1>1, <2>1, <2>2, TuneInvWhenNoneTuned
<1> QED BY <1>2, <1>3 DEF Arrive

\* The steps that neither record nor tune: none of them ends a round but with
\* every agent tuned.
LEMMA QuietTune ==
  ASSUME IInv, TuneInv, UNCHANGED <<rollout, fragments, tuned, correction>>,
         pc' = "collect" => pc \in {"round", "collect"},
         pc' = "score" => pc = "score" \/ Agents \subseteq Tuned
  PROVE  TuneInv'
<1>1. Agents' = Agents /\ (\A d : RequestsOf(d)' = RequestsOf(d)) /\ Tuned' = Tuned
  BY AgentsKept DEF Tuned
<1>2. \A i, rid : Before(i, rid)' = Before(i, rid) /\ RatiosBefore(i, rid)' = RatiosBefore(i, rid)
  BY <1>1 DEF Before, RatiosBefore
<1>3. \A rid : Correction(rid)' = Correction(rid)
  BY DEF Correction
<1>4. pc' = "score" => Tuned = Agents /\ Len(tuned) = Cardinality(Agents)
  <2>1. Agents \subseteq Tuned => Tuned = Agents
    BY DEF TuneInv
  <2>2. Cardinality(Tuned) = Len(tuned)
    BY DEF TuneInv
  <2> QED BY <2>1, <2>2 DEF TuneInv, AgentsBuildOnEachOther
<1>5. AgentsBuildOnEachOther'
  BY <1>1, <1>2, <1>4 DEF TuneInv, AgentsBuildOnEachOther
<1>6. pc' = "collect" /\ rollout' = <<>> => fragments' = [d \in Domains |-> <<>>]
  BY DEF TuneInv, IInv, ClearInv
<1>7. \A rid \in Requests :
        Correction(rid)' = Product(RatiosBefore(Len(tuned) + 1, rid), Before(Len(tuned) + 1, rid))'
  BY <1>2, <1>3 DEF TuneInv
<1> QED BY <1>1, <1>5, <1>6, <1>7 DEF TuneInv

LEMMA ScoreTune ==
  ASSUME IInv, TuneInv, Score
  PROVE  TuneInv'
<1>1. /\ tuned' = <<>> /\ correction' = <<>> /\ fragments' = [d \in Domains |-> <<>>]
      /\ rollout' = <<>> /\ pc' \notin {"score", "collect"}
  BY DEF Score, NoEpisode, NoUpdate
<1>2. \A d \in Domains : RequestsOf(d)' = {}
  BY <1>1, EmptySeq, LenProperties DEF RequestsOf
<1>3. \A rid : Correction(rid)' = 1
  BY <1>1, EmptySeq, LenProperties DEF Correction
<1>4. /\ Len(tuned') = 0 /\ DOMAIN tuned' = {} /\ Tuned' = {}
      /\ \A rid : Before(Len(tuned) + 1, rid)' = {}
  BY <1>1, EmptySeq, LenProperties DEF Tuned, Before
<1>5. \A rid \in Requests :
        Correction(rid)' = Product(RatiosBefore(Len(tuned) + 1, rid), Before(Len(tuned) + 1, rid))'
  <2> SUFFICES ASSUME NEW rid \in Requests
               PROVE  Product(RatiosBefore(Len(tuned) + 1, rid), Before(Len(tuned) + 1, rid))' = 1
    BY <1>3
  <2>1. Before(Len(tuned) + 1, rid)' = {}
    BY <1>4
  <2> QED BY <2>1, ProductEmpty
<1>6. AgentsBuildOnEachOther'
  BY <1>1, <1>4 DEF AgentsBuildOnEachOther
<1> QED BY <1>1, <1>2, <1>4, <1>5, <1>6, FS_EmptySet DEF TuneInv

LEMMA TuneKept ==
  ASSUME IInv, TuneInv, [Next]_vars
  PROVE  TuneInv'
<1>1. CASE EndEpisode
  <2>1. UNCHANGED <<rollout, fragments, tuned, correction>> /\ pc = "collect"
    BY <1>1 DEF EndEpisode, episode, update
  <2>2. pc' = "score" => Agents = {}
    <3>1. pc' = "score" => fragments = [d \in Domains |-> <<>>]
      BY <1>1, <2>1 DEF EndEpisode, TuneInv
    <3> QED BY <3>1, EmptySeq, LenProperties DEF Agents, RequestsOf
  <2> QED BY <1>1, <2>1, <2>2, QuietTune DEF EndEpisode
<1>2. CASE EndUpdate
  BY <1>2, QuietTune DEF EndUpdate, episode, update
<1>3. CASE StartSegment \/ RefuseWarmStart \/ StartRound
  BY <1>3, QuietTune DEF StartSegment, RefuseWarmStart, StartRound, episode, update
<1>4. CASE Credit \/ UpdateCritic \/ UpdatePolicy \/ EndPolicy
  BY <1>4, QuietTune DEF Credit, UpdateCritic, UpdatePolicy, EndPolicy, episode, update
<1>5. CASE EnterScore \/ EnterComparison \/ Compare \/ SaveCheckpoint
  BY <1>5, QuietTune DEF EnterScore, EnterComparison, Compare, SaveCheckpoint, episode, update
<1>6. CASE UNCHANGED vars
  BY <1>6, QuietTune DEF vars, episode, update
<1> QED BY <1>1, <1>2, <1>3, <1>4, <1>5, <1>6, ArriveTune, UpdateActorTune, ScoreTune DEF Next

\* In whatever order a round tunes its agents, each sees every advantage scaled
\* by what all the agents before it made of that request, and none is left out
\* or tuned twice (update_domain_actors).
THEOREM AgentsTunedInTurn == Spec => []AgentsBuildOnEachOther
<1>1. Init => TuneInv
  <2> SUFFICES ASSUME Init PROVE TuneInv
    OBVIOUS
  <2>1. /\ tuned = <<>> /\ correction = <<>> /\ pc = "build" /\ fragments = [d \in Domains |-> <<>>]
    BY DEF Init
  <2>2. /\ Len(tuned) = 0 /\ DOMAIN tuned = {} /\ Tuned = {}
        /\ \A rid : Before(Len(tuned) + 1, rid) = {}
    BY <2>1, NoneTuned
  <2>3. \A rid : Correction(rid) = 1
    BY <2>1, EmptySeq, LenProperties DEF Correction
  <2>4. \A d \in Domains : RequestsOf(d) = {}
    BY <2>1, EmptySeq, LenProperties DEF RequestsOf
  <2> QED BY <2>1, <2>2, <2>3, <2>4, ProductEmpty, FS_EmptySet DEF TuneInv, AgentsBuildOnEachOther
<1>2. IInv /\ TuneInv /\ [Next]_vars => TuneInv'
  BY TuneKept
<1>3. TuneInv => AgentsBuildOnEachOther
  BY DEF TuneInv
<1> QED BY <1>1, <1>2, <1>3, Invariance, PTL DEF Spec

-----------------------------------------------------------------------------
(***************************************************************************)
(* The credits.  Every arrival is captured as the counters stood before it, *)
(* so the number admitted before it is the number of earlier transitions    *)
(* rewarded as admissions.                                                  *)
(***************************************************************************)
AdmittedSteps == {t \in 1..T : rollout[t].reward = AdmitReward}

StreamInv ==
  /\ pc \in {"build", "round", "compare", "comparing", "save"} => stats.arrived = 0
  /\ stats.admitted = Cardinality(AdmittedSteps)
  /\ \A t \in 1..T : rollout[t].rid \in 1..stats.arrived /\ rollout[t].reward \in Int
  /\ DOMAIN states = 1..stats.arrived
  /\ \A rid \in 1..stats.arrived :
       /\ states[rid] = <<Stream[rid], rid - 1, AdmittedBefore(rid)>>
       /\ AdmittedBefore(rid) \in 0..(rid - 1)

CreditsInv == pc = "critic" => credit = [t \in 1..T |-> Credits(t)]

\* A critic is in the frame of the normaliser it was last updated through.
FrameInv == valueNorm.updates > 0 => critic.frame = Frame(valueNorm)

LEMMA LengthType == ASSUME SequenceInv PROVE T \in Nat
BY AppendToSequence DEF SequenceInv, T

LEMMA RewardFacts ==
  ASSUME NEW outcome
  PROVE  /\ Reward(outcome) \in Int
         /\ Reward(outcome) = AdmitReward <=> outcome = "admitted"
BY CreditAssumption DEF Reward

LEMMA ArriveStream ==
  ASSUME IInv, StreamInv, Arrive
  PROVE  StreamInv'
<1> DEFINE c == Stream[stats.arrived + 1]
<1>0. PICK n \in Nat, rid \in 1..Arrivals :
        /\ n = T /\ rid = stats.arrived + 1 /\ rid - 1 = stats.arrived
        /\ stats.admitted \in 0..(rid - 1)
  <2>1. T \in Nat /\ Arrivals \in Nat
    BY LengthType, ArrivalsNat DEF IInv
  <2>2. stats.arrived < Arrivals
    BY DEF Arrive
  <2>3. stats.arrived \in 0..Arrivals /\ stats.admitted \in 0..stats.arrived
    <3>1. stats.arrived \in 0..Arrivals /\ stats.admitted \in 0..Arrivals
          /\ stats.admitted <= stats.arrived
      BY DEF IInv, TypeOK
    <3> QED BY <2>1, <3>1
  <2>4. stats.arrived + 1 \in 1..Arrivals /\ (stats.arrived + 1) - 1 = stats.arrived
    BY <2>1, <2>2, <2>3
  <2> QED BY <2>1, <2>3, <2>4
<1>1. /\ pc = "collect" /\ pc' = "collect" /\ config' = config /\ round' = round
      /\ states' = With(states, rid, <<Stream[rid], rid - 1, stats.admitted>>)
  BY <1>0 DEF Arrive, StateOf
<1>2. Stream' = Stream
  BY <1>1 DEF Stream
<1>3. stats'.arrived = rid /\ DOMAIN states' = 1..rid
  <2>1. stats'.arrived = rid
    <3>1. stats \in [arrived : 0..Arrivals, admitted : 0..Arrivals]
      BY DEF IInv, TypeOK
    <3>2. \/ stats' = [stats EXCEPT !.arrived = @ + 1]
          \/ \E m : stats' = [arrived |-> stats.arrived + 1, admitted |-> m]
      BY DEF Arrive
    <3> QED BY <1>0, <3>1, <3>2
  <2>2. (1..stats.arrived) \cup {rid} = 1..rid
    BY <1>0
  <2> QED BY <1>0, <1>1, <2>1, <2>2 DEF With, StreamInv
\* The transitions there were count as they did, and those before this arrival are all of them.
<1>4. ASSUME NEW m \in Nat, T' = m, m = n \/ m = n + 1,
             \A t \in 1..n : rollout'[t] = rollout[t],
             m = n + 1 => rollout'[m].rid = rid
      PROVE  \A r \in 1..rid :
               /\ states'[r] = <<Stream[r], r - 1, AdmittedBefore(r)'>>
               /\ AdmittedBefore(r)' \in 0..(r - 1)
  <2> SUFFICES ASSUME NEW r \in 1..rid
               PROVE  /\ states'[r] = <<Stream[r], r - 1, AdmittedBefore(r)'>>
                      /\ AdmittedBefore(r)' \in 0..(r - 1)
    OBVIOUS
  <2>1. {t \in 1..m : rollout'[t].rid < r /\ rollout'[t].reward = AdmitReward}
          = {t \in 1..n : rollout[t].rid < r /\ rollout[t].reward = AdmitReward}
    <3>1. m = n + 1 => ~(rollout'[m].rid < r)
      BY <1>0, <1>4
    <3>2. \A t \in 1..m : t \in 1..n \/ (m = n + 1 /\ t = m)
      BY <1>4
    <3>3. \A t \in 1..n : t \in 1..m
      BY <1>4
    <3> QED BY <1>4, <3>1, <3>2, <3>3
  <2>2. AdmittedBefore(r)' = AdmittedBefore(r)
    BY <1>0, <1>4, <2>1 DEF AdmittedBefore
  <2>3. CASE r = rid
    <3>1. \A t \in 1..n : rollout[t].rid < rid
      BY <1>0 DEF StreamInv
    <3>2. AdmittedBefore(rid) = stats.admitted
      <4>1. {t \in 1..T : rollout[t].rid < rid /\ rollout[t].reward = AdmitReward}
              = {t \in 1..T : rollout[t].reward = AdmitReward}
        BY <1>0, <3>1
      <4> QED BY <4>1 DEF AdmittedBefore, AdmittedSteps, StreamInv
    <3>3. states'[rid] = <<Stream[rid], rid - 1, stats.admitted>>
      BY <1>1 DEF With
    <3> QED BY <1>0, <2>2, <2>3, <3>2, <3>3
  <2>4. CASE r # rid
    <3>1. r \in 1..stats.arrived
      BY <1>0, <2>4
    <3>2. states'[r] = states[r]
      BY <1>1, <2>4, <3>1 DEF With, StreamInv
    <3> QED BY <2>2, <3>1, <3>2 DEF StreamInv
  <2> QED BY <2>3, <2>4
<1>5. CASE rollout' = rollout /\ stats' = [stats EXCEPT !.arrived = @ + 1]
  <2>1. T' = n /\ AdmittedSteps' = AdmittedSteps /\ stats'.admitted = stats.admitted
    BY <1>0, <1>5 DEF T, AdmittedSteps, IInv, TypeOK
  <2>2. \A t \in 1..n : rollout[t].rid \in 1..rid /\ rollout[t].reward \in Int
    BY <1>0 DEF StreamInv
  <2>3. \A r \in 1..rid : /\ states'[r] = <<Stream[r], r - 1, AdmittedBefore(r)'>>
                          /\ AdmittedBefore(r)' \in 0..(r - 1)
    BY <1>0, <1>4, <1>5, <2>1
  <2> QED BY <1>0, <1>1, <1>2, <1>3, <1>5, <2>1, <2>2, <2>3 DEF StreamInv
<1>6. ASSUME NEW tr, NEW outcome, rollout' = Append(rollout, tr), tr.rid = rid,
             tr.reward = Reward(outcome),
             stats'.admitted = IF outcome = "admitted" THEN stats.admitted + 1 ELSE stats.admitted
      PROVE  StreamInv'
  <2>1. /\ n = Len(rollout) /\ T' = n + 1
        /\ \A t \in 1..n : rollout'[t] = rollout[t]
        /\ rollout'[n + 1] = tr
    BY <1>0, <1>6, AppendToSequence DEF T, IInv, SequenceInv
  <2>2. \A t \in 1..(n + 1) : rollout'[t].rid \in 1..rid /\ rollout'[t].reward \in Int
    <3>1. \A t \in 1..n : rollout[t].rid \in 1..rid /\ rollout[t].reward \in Int
      BY <1>0 DEF StreamInv
    <3>2. tr.rid \in 1..rid /\ tr.reward \in Int
      BY <1>0, <1>6, RewardFacts
    <3>3. \A t \in 1..(n + 1) : t \in 1..n \/ t = n + 1
      BY <1>0
    <3> QED BY <2>1, <3>1, <3>2, <3>3
  <2>3. stats'.admitted = Cardinality(AdmittedSteps')
    <3>1. IsFiniteSet(AdmittedSteps) /\ n + 1 \notin AdmittedSteps
      <4>1. IsFiniteSet(1..n)
        BY <1>0, FS_Interval
      <4>2. AdmittedSteps \subseteq 1..n
        BY <1>0 DEF AdmittedSteps
      <4>3. n + 1 \notin 1..n
        BY <1>0
      <4>4. IsFiniteSet(AdmittedSteps)
        BY <4>1, <4>2, FS_Subset
      <4> QED BY <4>2, <4>3, <4>4
    <3>2. AdmittedSteps' = IF outcome = "admitted" THEN AdmittedSteps \cup {n + 1} ELSE AdmittedSteps
      <4>1. \A t : t \in 1..(n + 1) <=> t \in 1..n \/ t = n + 1
        BY <1>0
      <4>2. tr.reward = AdmitReward <=> outcome = "admitted"
        BY <1>6, RewardFacts
      <4>3. AdmittedSteps = {t \in 1..n : rollout[t].reward = AdmitReward}
        BY <1>0 DEF AdmittedSteps
      <4>4. AdmittedSteps' = {t \in 1..(n + 1) : rollout'[t].reward = AdmitReward}
        BY <2>1 DEF AdmittedSteps
      <4> QED BY <2>1, <4>1, <4>2, <4>3, <4>4
    <3>3. Cardinality(AdmittedSteps \cup {n + 1}) = Cardinality(AdmittedSteps) + 1
      BY <3>1, FS_AddElement
    <3>4. stats.admitted = Cardinality(AdmittedSteps)
      BY DEF StreamInv
    <3> QED BY <1>6, <3>2, <3>3, <3>4
  <2>4. \A r \in 1..rid : /\ states'[r] = <<Stream[r], r - 1, AdmittedBefore(r)'>>
                          /\ AdmittedBefore(r)' \in 0..(r - 1)
    <3>1. /\ n + 1 \in Nat /\ T' = n + 1 /\ rollout'[n + 1].rid = rid
          /\ \A t \in 1..n : rollout'[t] = rollout[t]
      BY <1>0, <1>6, <2>1
    <3> QED BY <1>4, <3>1
  <2> QED BY <1>1, <1>2, <1>3, <2>1, <2>2, <2>3, <2>4 DEF StreamInv
<1>7. \/ rollout' = rollout /\ stats' = [stats EXCEPT !.arrived = @ + 1]
      \/ \E tr, outcome :
           /\ rollout' = Append(rollout, tr) /\ tr.rid = rid /\ tr.reward = Reward(outcome)
           /\ stats'.admitted = IF outcome = "admitted" THEN stats.admitted + 1 ELSE stats.admitted
  <2>1. CASE rollout' = rollout /\ stats' = [stats EXCEPT !.arrived = @ + 1]
    BY <2>1
  <2>2. ASSUME NEW plan, NEW p, NEW outcome,
               stats' = [arrived |-> stats.arrived + 1,
                         admitted |-> IF outcome = "admitted" THEN stats.admitted + 1 ELSE stats.admitted],
               rollout' = Append(rollout, [rid |-> stats.arrived + 1, plan |-> plan, action |-> p,
                                   behaviour |-> Behaviour(plan), reward |-> Reward(outcome)])
        PROVE  \E tr :
           /\ rollout' = Append(rollout, tr) /\ tr.rid = rid /\ tr.reward = Reward(outcome)
           /\ stats'.admitted = IF outcome = "admitted" THEN stats.admitted + 1 ELSE stats.admitted
    <3> DEFINE tr == [rid |-> stats.arrived + 1, plan |-> plan, action |-> p,
                      behaviour |-> Behaviour(plan), reward |-> Reward(outcome)]
    <3>1. tr.rid = rid /\ tr.reward = Reward(outcome)
      BY <1>0
    <3>2. stats'.admitted = IF outcome = "admitted" THEN stats.admitted + 1 ELSE stats.admitted
      BY <2>2
    <3> QED BY <2>2, <3>1, <3>2
  <2> QED BY <2>1, <2>2 DEF Arrive
<1> QED BY <1>5, <1>6, <1>7

LEMMA StreamKept ==
  ASSUME IInv, StreamInv, [Next]_vars
  PROVE  StreamInv'
<1>1. ASSUME stats'.arrived = 0, stats'.admitted = 0, rollout' = <<>>, DOMAIN states' = {}
      PROVE  StreamInv'
  <2>1. T' = 0 /\ AdmittedSteps' = {}
    BY <1>1, EmptySeq, LenProperties DEF T, AdmittedSteps
  <2> QED BY <1>1, <2>1, FS_EmptySet DEF StreamInv
<1>2. CASE Score
  BY <1>1, <1>2, EmptySeq, LenProperties DEF Score, NoEpisode
<1>3. CASE StartSegment
  <2>1. /\ stats' = stats /\ rollout' = <<>> /\ states' = states /\ stats.arrived = 0
    BY <1>3 DEF StartSegment, episode, IInv, ClearInv, StreamInv
  <2>2. stats.admitted = 0 /\ DOMAIN states = {}
    BY <2>1 DEF IInv, TypeOK, StreamInv
  <2> QED BY <1>1, <2>1, <2>2
<1> DEFINE Between == {"build", "round", "compare", "comparing", "save"}
<1>4. ASSUME UNCHANGED <<config, round, rollout, states, stats>>, pc' \in Between => pc \in Between
      PROVE  StreamInv'
  <2>1. /\ T' = T /\ AdmittedSteps' = AdmittedSteps /\ Stream' = Stream
        /\ \A rid : AdmittedBefore(rid)' = AdmittedBefore(rid)
    BY <1>4 DEF T, AdmittedSteps, AdmittedBefore, Stream
  <2> QED BY <1>4, <2>1 DEF StreamInv
<1>5. CASE RefuseWarmStart \/ StartRound \/ EndEpisode
  BY <1>4, <1>5 DEF RefuseWarmStart, StartRound, EndEpisode, episode
<1>6. CASE Credit \/ UpdateCritic \/ UpdatePolicy \/ EndPolicy \/ UpdateActor \/ EndUpdate
  BY <1>4, <1>6 DEF Credit, UpdateCritic, UpdatePolicy, EndPolicy, UpdateActor, EndUpdate, episode
<1>7. CASE EnterScore \/ EnterComparison \/ Compare \/ SaveCheckpoint
  BY <1>4, <1>7 DEF EnterScore, EnterComparison, Compare, SaveCheckpoint, episode
<1>8. CASE UNCHANGED vars
  BY <1>4, <1>8 DEF vars, episode
<1> QED BY <1>2, <1>3, <1>5, <1>6, <1>7, <1>8, ArriveStream DEF Next

LEMMA CreditsKept ==
  ASSUME CreditsInv, [Next]_vars
  PROVE  CreditsInv'
<1>1. ASSUME UNCHANGED <<config, rollout, states, critic, valueNorm>>
      PROVE  T' = T /\ \A t : Credits(t)' = Credits(t)
  BY <1>1 DEF Credits, Gae, ValueAt, Denormalized, Ends, Frame, T
<1>2. CASE Credit
  <2>1. UNCHANGED <<config, rollout, states, critic, valueNorm>> /\ credit' = [t \in 1..T |-> Credits(t)]
    BY <1>2 DEF Credit, episode, stack
  <2>2. T' = T /\ \A t : Credits(t)' = Credits(t)
    BY <1>1, <2>1
  <2>3. [t \in 1..T |-> Credits(t)]' = [t \in 1..T |-> Credits(t)]
    BY <2>2
  <2> QED BY <2>1, <2>3 DEF CreditsInv
<1>3. CASE UNCHANGED vars
  <2>1. UNCHANGED <<config, rollout, states, critic, valueNorm, credit, pc>>
    BY <1>3 DEF vars, episode, stack, update
  <2>2. T' = T /\ \A t : Credits(t)' = Credits(t)
    BY <1>1, <2>1
  <2> QED BY <2>1, <2>2 DEF CreditsInv
<1>4. CASE pc' # "critic"
  BY <1>4 DEF CreditsInv
<1>5. Credit \/ UNCHANGED vars \/ pc' # "critic"
  BY DEF Next, StartSegment, RefuseWarmStart, StartRound, Arrive, EndEpisode, UpdateCritic,
         UpdatePolicy, EndPolicy, UpdateActor, EndUpdate, EnterScore, Score, EnterComparison,
         Compare, SaveCheckpoint
<1> QED BY <1>2, <1>3, <1>4, <1>5

LEMMA FrameKept ==
  ASSUME FrameInv, [Next]_vars
  PROVE  FrameInv'
<1>1. CASE StartSegment
  BY <1>1 DEF StartSegment, FrameInv, NewNorm
<1>2. CASE UpdateCritic
  BY <1>2 DEF UpdateCritic, FrameInv
<1>3. UNCHANGED <<critic, valueNorm>> => FrameInv'
  BY DEF FrameInv, Frame
<1>4. CASE ~StartSegment /\ ~UpdateCritic
  <2>1. UNCHANGED <<critic, valueNorm>>
    BY <1>4 DEF Next, vars, stack, RefuseWarmStart, StartRound, Arrive, EndEpisode, Credit,
           UpdatePolicy, EndPolicy, UpdateActor, EndUpdate, EnterScore, Score, EnterComparison,
           Compare, SaveCheckpoint
  <2> QED BY <1>3, <2>1
<1> QED BY <1>1, <1>2, <1>4

\* What holds of n + 1, and of t with t + 1, holds of all of 1..n + 1.
LEMMA Descends ==
  ASSUME NEW n \in Nat, NEW G, n + 1 \in G, \A t \in 1..n : t + 1 \in G => t \in G
  PROVE  \A t \in 1..(n + 1) : t \in G
<1> DEFINE Bad == {k \in 0..n : n + 1 - k \notin G}
<1>1. Bad = {}
  <2> SUFFICES ASSUME Bad # {} PROVE FALSE
    OBVIOUS
  <2>1. PICK k \in Bad : \A j \in Bad : k <= j
    <3>1. Bad \in SUBSET Nat
      OBVIOUS
    <3> HIDE DEF Bad
    <3> QED BY <3>1, LeastNatural
  <2>2. k # 0
    BY <2>1
  <2>3. k - 1 \in 0..n /\ k - 1 \notin Bad
    BY <2>1, <2>2
  <2>4. n + 1 - (k - 1) \in G
    BY <2>3
  <2>5. n + 1 - k \in 1..n /\ (n + 1 - k) + 1 = n + 1 - (k - 1)
    BY <2>1, <2>2
  <2>6. n + 1 - k \in G
    BY <2>4, <2>5
  <2> QED BY <2>1, <2>6
<1>2. ASSUME NEW t \in 1..(n + 1), t \notin G PROVE FALSE
  <2>1. n + 1 - t \in 0..n /\ n + 1 - (n + 1 - t) = t
    OBVIOUS
  <2>2. n + 1 - t \in Bad
    BY <1>2, <2>1
  <2> QED BY <1>1, <2>2
<1> QED BY <1>2

\* A linear recurrence backwards from zero has a solution, in whole numbers.
IsBackward(x, n, m, a, c) ==
  /\ x \in [m..(n + 1) -> Int] /\ x[n + 1] = 0
  /\ \A t \in m..n : x[t] = a[t] + c * x[t + 1]

LEMMA BackwardExists ==
  ASSUME NEW n \in Nat, NEW a, \A t \in 1..n : a[t] \in Int, NEW c \in Int
  PROVE  \E x : IsBackward(x, n, 1, a, c)
<1> DEFINE G == {m \in 1..(n + 1) : \E x : IsBackward(x, n, m, a, c)}
<1>1. n + 1 \in G
  <2> DEFINE x == [t \in (n + 1)..(n + 1) |-> 0]
  <2>1. IsBackward(x, n, n + 1, a, c)
    BY DEF IsBackward
  <2> QED BY <2>1
<1>2. ASSUME NEW m \in 1..n, m + 1 \in G PROVE m \in G
  <2>1. PICK y : IsBackward(y, n, m + 1, a, c)
    BY <1>2
  <2> DEFINE x == [t \in m..(n + 1) |-> IF t = m THEN a[m] + c * y[m + 1] ELSE y[t]]
  <2>2. y[m + 1] \in Int /\ \A t \in (m + 1)..(n + 1) : y[t] \in Int
    BY <2>1 DEF IsBackward
  <2>3. a[m] + c * y[m + 1] \in Int
    <3>1. \A i, j, k \in Int : i + j * k \in Int
      OBVIOUS
    <3> QED BY <2>2, <3>1
  <2>4. x[m] = a[m] + c * y[m + 1] /\ \A t \in (m + 1)..(n + 1) : x[t] = y[t]
    OBVIOUS
  <2>5. x \in [m..(n + 1) -> Int]
    BY <2>2, <2>3
  <2> HIDE DEF x
  <2>6. x[n + 1] = 0
    BY <2>1, <2>4 DEF IsBackward
  <2>7. ASSUME NEW t \in m..n PROVE x[t] = a[t] + c * x[t + 1]
    <3>1. CASE t = m
      BY <2>4, <3>1
    <3>2. CASE t # m
      <4>1. t \in (m + 1)..n /\ t \in (m + 1)..(n + 1) /\ t + 1 \in (m + 1)..(n + 1)
        BY <3>2
      <4>2. y[t] = a[t] + c * y[t + 1]
        BY <2>1, <4>1 DEF IsBackward
      <4> QED BY <2>4, <4>1, <4>2
    <3> QED BY <3>1, <3>2
  <2>8. IsBackward(x, n, m, a, c)
    BY <2>5, <2>6, <2>7 DEF IsBackward
  <2> QED BY <2>8
<1>3. 1 \in 1..(n + 1) /\ \A t \in 1..(n + 1) : t \in G
  <2> HIDE DEF G
  <2> QED BY <1>1, <1>2, Descends
<1> QED BY <1>3

\* The tables of compute_gae and of the lambda-return.
IsGae(g) ==
  g = [t \in 1..(T + 1) |->
         IF t = T + 1 THEN 0
         ELSE LET next == IF Ends(t) THEN 0 ELSE ValueAt(t + 1)
                  delta == rollout[t].reward + Gamma * next - ValueAt(t)
              IN  IF Ends(t) THEN delta ELSE delta + Gamma * Lambda * g[t + 1]]

IsLambdaReturn(g) ==
  g = [t \in 1..(T + 1) |->
         IF t = T + 1 THEN 0
         ELSE rollout[t].reward + Gamma * ((1 - Lambda) * ValueBefore(t + 1) + Lambda * g[t + 1])]

LEMMA TheTables ==
  /\ Gae = CHOOSE g : IsGae(g)
  /\ LambdaReturn = CHOOSE g : IsLambdaReturn(g)
BY DEF Gae, LambdaReturn, IsGae, IsLambdaReturn

\* In a readable critic's values, every state is as it was met.
LEMMA ValuesAsMet ==
  ASSUME IInv, StreamInv, FrameInv, CriticReadable, pc \in {"credit", "critic"}, NEW i \in 1..(T + 1)
  PROVE  ValueAt(i) = ValueBefore(i) /\ ValueBefore(i) \in Int
<1>0. T \in Nat
  BY LengthType DEF IInv
<1>1. CASE i > T
  BY <1>1 DEF ValueAt, ValueBefore
<1>2. CASE ~(i > T)
  <2> DEFINE rid == rollout[i].rid
  <2>1. i \in 1..T
    BY <1>0, <1>2
  <2>2. rid \in 1..stats.arrived /\ stats.arrived \in 0..Arrivals
    BY <2>1 DEF StreamInv, IInv, TypeOK
  <2>3. /\ states[rid] = <<Stream[rid], rid - 1, AdmittedBefore(rid)>>
        /\ AdmittedBefore(rid) \in 0..(rid - 1)
    BY <2>2 DEF StreamInv
  <2>4. rid \in Requests /\ rid - 1 \in 0..(Arrivals - 1) /\ AdmittedBefore(rid) \in 0..(Arrivals - 1)
    BY <2>2, <2>3, ArrivalsNat DEF Requests
  <2>5. Stream[rid] \in Contents
    <3>1. round + 1 \in 1..Rounds
      BY StreamAssumption DEF IInv, TypeOK, ProgressInv
    <3> HIDE DEF rid
    <3> QED BY <2>4, <3>1, StreamAssumption DEF Stream
  <2>6. ValueAt(i) = Estimate[states[rid]]
    BY <1>2 DEF ValueAt, Denormalized, CriticReadable, FrameInv
  <2>7. ValueBefore(i) = Estimate[<<Stream[rid], rid - 1, AdmittedBefore(rid)>>]
    BY <1>2 DEF ValueBefore
  <2> HIDE DEF rid
  <2> QED BY <2>3, <2>4, <2>5, <2>6, <2>7, CreditAssumption
<1> QED BY <1>1, <1>2

\* Backwards, an advantage and its value make the return said forwards.
LEMMA GaeIsReturn ==
  ASSUME IInv, StreamInv, FrameInv, CriticReadable, pc \in {"credit", "critic"}, NEW t \in 1..T
  PROVE  /\ Gae[t] \in Int /\ LambdaReturn[t] \in Int
         /\ Gae[t] + ValueAt(t) = LambdaReturn[t]
<1> DEFINE V(i) == ValueBefore(i)
           R(i) == rollout[i].reward
<1>0. PICK n \in Nat : n = T
  BY LengthType DEF IInv
<1>1. \A i \in 1..(n + 1) : ValueAt(i) = V(i) /\ V(i) \in Int
  BY <1>0, ValuesAsMet
<1>2. V(n + 1) = 0 /\ ValueAt(n + 1) = 0
  <2>1. n + 1 > T
    BY <1>0
  <2> QED BY <2>1 DEF ValueBefore, ValueAt
<1>3. \A i \in 1..n : R(i) \in Int
  BY <1>0 DEF StreamInv
<1>4. Gamma \in Int /\ Lambda \in Int
  BY CreditAssumption
<1>5. \A i \in 1..n : i \in 1..(n + 1) /\ i + 1 \in 1..(n + 1) /\ i # n + 1 /\ (Ends(i) <=> i = n)
  BY <1>0 DEF Ends
<1> HIDE DEF V, R
<1> DEFINE delta(i) == R(i) + Gamma * V(i + 1) - V(i)
           c == Gamma * Lambda
           a == [i \in 1..n |-> delta(i)]
           b == [i \in 1..n |-> R(i) + Gamma * ((1 - Lambda) * V(i + 1))]
<1>6. /\ c \in Int
      /\ \A i \in 1..n : a[i] = delta(i) /\ delta(i) \in Int /\ b[i] \in Int
  <2>1. \A x, y \in Int : x * y \in Int /\ x + y \in Int /\ x - y \in Int
    OBVIOUS
  <2> QED BY <1>1, <1>3, <1>4, <1>5, <2>1
<1> HIDE DEF delta, c
<1>7. \E g : IsGae(g)
  <2>1. PICK x : IsBackward(x, n, 1, a, c)
    <3> HIDE DEF a
    <3> QED BY <1>6, BackwardExists
  <2>2. \A i \in 1..n : x[i] = IF Ends(i) THEN R(i) + Gamma * 0 - ValueAt(i)
                             ELSE R(i) + Gamma * ValueAt(i + 1) - ValueAt(i) + Gamma * Lambda * x[i + 1]
    <3> SUFFICES ASSUME NEW i \in 1..n
                 PROVE  x[i] = IF Ends(i) THEN R(i) + Gamma * 0 - ValueAt(i)
                               ELSE R(i) + Gamma * ValueAt(i + 1) - ValueAt(i) + Gamma * Lambda * x[i + 1]
      OBVIOUS
    <3>1. x[i] = delta(i) + c * x[i + 1] /\ x[i + 1] \in Int /\ x[n + 1] = 0
      BY <1>5, <1>6, <2>1 DEF IsBackward
    <3>2. CASE Ends(i)
      <4>1. V(i + 1) = 0 /\ x[i + 1] = 0 /\ c * 0 = 0
        BY <1>2, <1>5, <1>6, <3>1, <3>2
      <4>2. delta(i) = R(i) + Gamma * 0 - ValueAt(i)
        BY <1>1, <1>5, <4>1 DEF delta
      <4> QED BY <1>6, <3>1, <3>2, <4>1, <4>2
    <3>3. CASE ~Ends(i)
      <4>1. delta(i) = R(i) + Gamma * ValueAt(i + 1) - ValueAt(i)
        BY <1>1, <1>5 DEF delta
      <4> QED BY <3>1, <3>3, <4>1 DEF c
    <3> QED BY <3>2, <3>3
  <2>3. x = [i \in 1..(n + 1) |-> x[i]] /\ x[n + 1] = 0
    BY <2>1 DEF IsBackward
  <2>4. IsGae(x)
    <3>1. \A i \in 1..(n + 1) : i \in 1..n \/ i = n + 1
      OBVIOUS
    <3> QED BY <1>0, <2>2, <2>3, <3>1 DEF IsGae, R
  <2> QED BY <2>4
<1>8. /\ Gae[n + 1] = 0
      /\ \A i \in 1..n : Gae[i + 1] \in Int => Gae[i] = delta(i) + c * Gae[i + 1]
  <2> DEFINE g == Gae
  <2>1. IsGae(g)
    BY <1>7, TheTables
  <2> HIDE DEF g
  <2>2. /\ g[n + 1] = 0
        /\ \A i \in 1..n :
             g[i] = IF Ends(i) THEN R(i) + Gamma * 0 - ValueAt(i)
                    ELSE R(i) + Gamma * ValueAt(i + 1) - ValueAt(i) + Gamma * Lambda * g[i + 1]
    <3>1. n + 1 \in 1..(n + 1)
      OBVIOUS
    <3> QED BY <1>0, <1>5, <2>1, <3>1 DEF IsGae, R
  <2>3. ASSUME NEW i \in 1..n, g[i + 1] \in Int PROVE g[i] = delta(i) + c * g[i + 1]
    <3>1. CASE Ends(i)
      <4>1. V(i + 1) = 0 /\ g[i + 1] = 0 /\ c * 0 = 0
        BY <1>2, <1>5, <1>6, <2>2, <3>1
      <4>2. delta(i) = R(i) + Gamma * 0 - ValueAt(i)
        BY <1>1, <1>5, <4>1 DEF delta
      <4> QED BY <1>6, <2>2, <3>1, <4>1, <4>2
    <3>2. CASE ~Ends(i)
      <4>1. delta(i) = R(i) + Gamma * ValueAt(i + 1) - ValueAt(i)
        BY <1>1, <1>5 DEF delta
      <4> QED BY <2>2, <3>2, <4>1 DEF c
    <3> QED BY <3>1, <3>2
  <2> QED BY <2>2, <2>3 DEF g
<1>9. \A i \in 1..n : \A x \in Int :
        R(i) + Gamma * ((1 - Lambda) * V(i + 1) + Lambda * x) = b[i] + c * x
  <2>1. \A r, y, l, v, x \in Int : r + y * ((1 - l) * v + l * x) = (r + y * ((1 - l) * v)) + (y * l) * x
    OBVIOUS
  <2>2. \A i \in 1..n : b[i] = R(i) + Gamma * ((1 - Lambda) * V(i + 1))
    OBVIOUS
  <2> HIDE DEF b
  <2> QED BY <1>1, <1>3, <1>4, <1>5, <2>1, <2>2 DEF c
<1>10. \A i \in 1..n : b[i] = R(i) + Gamma * ((1 - Lambda) * V(i + 1)) /\ b[i] \in Int
  BY <1>6
<1> HIDE DEF a, b
<1>11. \E g : IsLambdaReturn(g)
  <2>1. PICK x : IsBackward(x, n, 1, b, c)
    BY <1>6, <1>10, BackwardExists
  <2>2. \A i \in 1..n : x[i] = R(i) + Gamma * ((1 - Lambda) * V(i + 1) + Lambda * x[i + 1])
    BY <1>5, <1>9, <2>1 DEF IsBackward
  <2>3. x = [i \in 1..(n + 1) |-> x[i]] /\ x[n + 1] = 0
    BY <2>1 DEF IsBackward
  <2>4. IsLambdaReturn(x)
    <3>1. \A i \in 1..(n + 1) : i \in 1..n \/ i = n + 1
      OBVIOUS
    <3> QED BY <1>0, <2>2, <2>3, <3>1 DEF IsLambdaReturn, R, V
  <2> QED BY <2>4
<1>12. /\ LambdaReturn[n + 1] = 0
       /\ \A i \in 1..n : LambdaReturn[i + 1] \in Int => LambdaReturn[i] = b[i] + c * LambdaReturn[i + 1]
  <2> DEFINE g == LambdaReturn
  <2>1. IsLambdaReturn(g)
    BY <1>11, TheTables
  <2> HIDE DEF g
  <2>2. /\ g[n + 1] = 0
        /\ \A i \in 1..n : g[i] = R(i) + Gamma * ((1 - Lambda) * V(i + 1) + Lambda * g[i + 1])
    <3>1. n + 1 \in 1..(n + 1)
      OBVIOUS
    <3> QED BY <1>0, <1>5, <2>1, <3>1 DEF IsLambdaReturn, R, V
  <2> QED BY <1>9, <2>2 DEF g
<1> DEFINE G == {i \in 1..(n + 1) : /\ Gae[i] \in Int /\ LambdaReturn[i] \in Int
                                   /\ Gae[i] + V(i) = LambdaReturn[i]}
<1>13. n + 1 \in G
  BY <1>2, <1>8, <1>12
<1>14. ASSUME NEW i \in 1..n, i + 1 \in G PROVE i \in G
  <2> DEFINE x == Gae[i + 1]
             y == LambdaReturn[i + 1]
  <2>1. x \in Int /\ y \in Int /\ x + V(i + 1) = y
    BY <1>14
  <2>2. Gae[i] = delta(i) + c * x /\ LambdaReturn[i] = b[i] + c * y
    BY <1>8, <1>12, <2>1
  <2> HIDE DEF x, y
  <2>3. /\ R(i) \in Int /\ V(i) \in Int /\ V(i + 1) \in Int
        /\ delta(i) = R(i) + Gamma * V(i + 1) - V(i)
        /\ b[i] = R(i) + Gamma * ((1 - Lambda) * V(i + 1))
        /\ c = Gamma * Lambda
    BY <1>1, <1>3, <1>5, <1>10 DEF delta, c
  <2>4. \A r, v, w, z, m, l \in Int :
          (r + m * v - w) + (m * l) * z + w = (r + m * ((1 - l) * v)) + (m * l) * (z + v)
    OBVIOUS
  <2>5. \A p, q \in Int : p * q \in Int /\ p + q \in Int
    OBVIOUS
  <2>6. Gae[i] \in Int /\ LambdaReturn[i] \in Int
    <3>1. c * x \in Int /\ c * y \in Int
      BY <1>6, <2>1, <2>5
    <3> QED BY <1>6, <1>10, <2>2, <2>5, <3>1
  <2>7. Gae[i] + V(i) = LambdaReturn[i]
    <3>1. Gae[i] + V(i) = (R(i) + Gamma * V(i + 1) - V(i)) + (Gamma * Lambda) * x + V(i)
      BY <2>2, <2>3
    <3>2. LambdaReturn[i] = (R(i) + Gamma * ((1 - Lambda) * V(i + 1))) + (Gamma * Lambda) * (x + V(i + 1))
      BY <2>1, <2>2, <2>3
    <3>3. (R(i) + Gamma * V(i + 1) - V(i)) + (Gamma * Lambda) * x + V(i)
            = (R(i) + Gamma * ((1 - Lambda) * V(i + 1))) + (Gamma * Lambda) * (x + V(i + 1))
      <4>1. R(i) \in Int /\ V(i + 1) \in Int /\ V(i) \in Int /\ x \in Int
        BY <2>1, <2>3
      <4> HIDE DEF G
      <4> QED BY <1>4, <4>1, <2>4
    <3> QED BY <3>1, <3>2, <3>3, Zenon
  <2> QED BY <2>6, <2>7
<1>15. t \in G
  <2>1. \A i \in 1..(n + 1) : i \in G
    <3> HIDE DEF G
    <3> QED BY <1>13, <1>14, Descends
  <2> QED BY <1>0, <2>1
<1> QED BY <1>0, <1>1, <1>15

LEMMA CreditsAreReturns ==
  ASSUME IInv, StreamInv, CreditsInv, FrameInv
  PROVE  CreditIsReturn
<1> SUFFICES ASSUME pc = "critic", CriticReadable, NEW t \in 1..T
             PROVE  credit[t] = [advantage |-> Target(t) - ValueBefore(t), return |-> Target(t)]
  BY DEF CreditIsReturn
<1>1. credit[t] = Credits(t)
  BY DEF CreditsInv
<1>2. /\ T \in Nat /\ t \in 1..(T + 1) /\ t + 1 \in 1..(T + 1)
  BY LengthType DEF IInv
<1>3. /\ ValueAt(t) = ValueBefore(t) /\ ValueBefore(t) \in Int
      /\ ValueAt(t + 1) = ValueBefore(t + 1)
  BY <1>2, ValuesAsMet
<1>4. CASE config.adv = "stream_gae"
  <2>1. Gae[t] \in Int /\ LambdaReturn[t] \in Int /\ Gae[t] + ValueBefore(t) = LambdaReturn[t]
    BY <1>3, GaeIsReturn
  <2>2. Gae[t] = LambdaReturn[t] - ValueBefore(t)
    BY <1>3, <2>1
  <2> QED BY <1>1, <1>3, <1>4, <2>1, <2>2 DEF Credits, Target
<1>5. CASE config.adv = "td0"
  BY <1>1, <1>3, <1>5 DEF Credits, Target
<1>6. CASE config.adv \notin {"stream_gae", "td0"}
  BY <1>1, <1>3, <1>6 DEF Credits, Target
<1> QED BY <1>4, <1>5, <1>6

\* In the update after every episode but the first after a warm start
\* (CriticReadable), each arrival that had a plan is credited with the lambda-return, the one-step return or the reward of its own arrival,
\* less the value of the state that arrival met (gae_over_arrivals,
\* per_arrival_advantages).
THEOREM CreditsOfEveryRound == Spec => []CreditIsReturn
<1>1. Init => StreamInv /\ CreditsInv /\ FrameInv
  <2> SUFFICES ASSUME Init PROVE StreamInv /\ CreditsInv /\ FrameInv
    OBVIOUS
  <2>1. /\ stats.arrived = 0 /\ stats.admitted = 0 /\ T = 0 /\ DOMAIN states = {} /\ pc = "build"
    BY EmptySeq, LenProperties DEF Init, T
  <2>2. AdmittedSteps = {}
    BY <2>1 DEF AdmittedSteps
  <2>3. FrameInv
    BY DEF Init, FrameInv, NewNorm
  <2> QED BY <2>1, <2>2, <2>3, FS_EmptySet DEF StreamInv, CreditsInv
<1>2. IInv /\ StreamInv /\ CreditsInv /\ FrameInv /\ [Next]_vars =>
        (StreamInv /\ CreditsInv /\ FrameInv)'
  BY StreamKept, CreditsKept, FrameKept
<1>3. IInv /\ StreamInv /\ CreditsInv /\ FrameInv => CreditIsReturn
  BY CreditsAreReturns
<1> QED BY <1>1, <1>2, <1>3, Invariance, PTL DEF Spec
=============================================================================
