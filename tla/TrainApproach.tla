--------------------------- MODULE TrainApproach ---------------------------
(***************************************************************************)
(* train_approach of scripts/wp7_runner.py, called segment after segment by *)
(* curriculum_train.  A round collects one episode, credits its arrivals,   *)
(* updates the critic, the MDO policy and the domain actors, and scores the *)
(* result on a held-out stream; a segment ends with a checkpoint the next   *)
(* one starts from.                                                         *)
(*                                                                         *)
(* What a gradient step does to a network is left out: weights are a count  *)
(* of the updates they have had.  What stays is which weights, which slice  *)
(* and which scale each number was made with.  The schedules of a round are *)
(* in Training.  Credits are not whitened; Gamma and Lambda may be any      *)
(* integers, since what is said of credits is an identity of polynomials.   *)
(***************************************************************************)
EXTENDS ChainOrder, SequencesExt, Integers

CONSTANTS
  Domains,
  Canonical,      \* the domains in the order the policy numbers them
  Contents,       \* what may arrive: a number for each content of a request
  Answers,        \* [Contents -> SUBSET Plans]: what a builder may answer
  Partitions,     \* what the policy may decode, in canonical numbers
  FixedStream, FreshStreams, EvalStream,  \* by request, the last but one by round
  Estimate,       \* [States -> Int]: the critic's value of a state
  AdmitReward, Penalty,          \* for an admission, for a revocation
  Gamma, Lambda,
  Ratio,          \* by domain and request, after an update, in units of 1/10
  LowRatio, HighRatio,           \* the clip, in the same units
  Configs,        \* the globals and arguments looked at
  InitFrom,       \* what the first segment may be started from
  ObsVersion,
  Epochs,         \* update_epochs
  Segments, Rounds

Arrivals == Len(EvalStream)
Requests == 1..Arrivals

ASSUME StreamAssumption ==
  /\ Segments \in Nat \ {0} /\ Rounds \in Nat \ {0}
  /\ EvalStream \in Seq(Contents) /\ FixedStream \in [Requests -> Contents]
  /\ FreshStreams \in [1..Rounds -> [Requests -> Contents]]
  /\ {Canonical[i] : i \in DOMAIN Canonical} = Domains
  /\ \A c \in Contents : \A p \in Answers[c] : p.for = c

\* The critic is a function of the state; admission is rewarded, revocation not.
ASSUME CreditAssumption ==
  /\ \A c \in Contents : \A a, m \in 0..(Arrivals - 1) : Estimate[<<c, a, m>>] \in Int
  /\ AdmitReward \in Nat \ {0} /\ Penalty \in Nat /\ Gamma \in Int /\ Lambda \in Int

\* No minibatch size, 0, is one batch of all.
ASSUME EpochsAssumption ==
  Epochs \in Nat \ {0} /\ \A c \in Configs : c.minibatch \in Nat

ASSUME RatioAssumption ==
  /\ \A d \in Domains : \A rid \in Requests : Ratio[d][rid] \in Int
  /\ LowRatio \in Int /\ HighRatio \in Int

None == [none |-> TRUE]

\* A dictionary with e under k, and f updated with g.
With(f, k, e) == [x \in DOMAIN f \cup {k} |-> IF x = k THEN e ELSE f[x]]
Updated(f, g) == [x \in DOMAIN f \cup DOMAIN g |-> IF x \in DOMAIN g THEN g[x] ELSE f[x]]

Modes == {"sample", "advised_sample", "follow_prior"}

\* A stored stack, as far as it is read: its weights.
Stack(c) ==
  /\ c.policy \in Nat /\ c.critic.updates \in Nat
  /\ c.actors = None \/ c.actors \in [Domains -> Nat]

ASSUME StackAssumption ==
  /\ \A c \in Configs : /\ c.mode \in Modes /\ c.adv \in {"stream_gae", "td0", "bandit"}
                        /\ {c.trainActors, c.fixed, c.evalBuilder} \subseteq BOOLEAN
  /\ \A c \in InitFrom : c = None \/ Stack(c)

VARIABLES
  config,         \* [mode, adv, trainActors, builder, fixed, evalBuilder, minibatch]
  segment, round, pc,
  checkpoint,     \* init_from, then what the last segment wrote
  \* the stack
  policy, critic, actors,
  stochastic,     \* do the domain actors sample?
  \* locals of train_approach
  valueNorm, planMemo, evalMemo, curve,
  \* the round in hand
  stats, states, rollout, fragments, credit, correction, tuned,
  \* the policy's update: epochs behind it, transitions this one has still to
  \* come to, optimizer steps
  epoch, unseen, stepsTaken

stack == <<policy, critic, actors, stochastic>>
memos == <<planMemo, evalMemo>>
episode == <<stats, states, rollout, fragments>>
update == <<credit, correction, tuned, epoch, unseen, stepsTaken>>
vars == <<config, segment, round, pc, checkpoint, stack, valueNorm, memos, curve, episode, update>>

(***************************************************************************)
(* Frames.  The critic learns returns shifted and scaled by the normaliser  *)
(* and is read back through it; below two returns it is the identity.       *)
(***************************************************************************)
Untrained == <<>>               \* a critic nothing has been learnt in
Raw == <<0>>
Frame(n) == IF n.count < 2 THEN Raw ELSE <<n.segment, n.updates>>
NewNorm(s) == [segment |-> s, updates |-> 0, count |-> 0]
AtMostTwo(n) == IF n < 2 THEN n ELSE 2

\* The estimate of s as it is read: another number in another frame.
Denormalized(s) ==
  IF critic.frame \in {Untrained, Frame(valueNorm)} THEN Estimate[s] ELSE Estimate[s] + 1

NoEpisode ==
  /\ stats' = [arrived |-> 0, admitted |-> 0] /\ states' = <<>>
  /\ rollout' = <<>> /\ fragments' = [d \in Domains |-> <<>>]
NoUpdate ==
  /\ credit' = None /\ correction' = <<>> /\ tuned' = <<>>
  /\ epoch' = 0 /\ unseen' = {} /\ stepsTaken' = 0

Init ==
  /\ config \in Configs /\ checkpoint \in InitFrom
  /\ segment = 0 /\ round = 0 /\ pc = "build"
  /\ policy = 0 /\ critic = [updates |-> 0, frame |-> Untrained]
  /\ actors = [d \in Domains |-> 0] /\ stochastic = FALSE
  /\ valueNorm = NewNorm(0) /\ planMemo = <<>> /\ evalMemo = <<>> /\ curve = <<>>
  /\ stats = [arrived |-> 0, admitted |-> 0] /\ states = <<>>
  /\ rollout = <<>> /\ fragments = [d \in Domains |-> <<>>]
  /\ credit = None /\ correction = <<>> /\ tuned = <<>>
  /\ epoch = 0 /\ unseen = {} /\ stepsTaken = 0

(***************************************************************************)
(* A segment: build_stack and the warm start.                              *)
(***************************************************************************)
Loadable ==
  /\ checkpoint.obsVersion = ObsVersion
  /\ checkpoint.actors # None => config.trainActors

Fresh == [d \in Domains |-> 0]

\* With the actors of the checkpoint left where they are.
LoadedActors_Never == Fresh
LoadedActors ==
  IF checkpoint = None \/ checkpoint.actors = None THEN Fresh ELSE checkpoint.actors

\* The normaliser is new, whatever the checkpoint says of the old one.
StartSegment ==
  /\ pc = "build" /\ (checkpoint # None => Loadable)
  /\ policy' = IF checkpoint = None THEN 0 ELSE checkpoint.policy
  /\ critic' = IF checkpoint = None THEN [updates |-> 0, frame |-> Untrained] ELSE checkpoint.critic
  /\ actors' = LoadedActors
  /\ stochastic' = config.trainActors
  /\ valueNorm' = NewNorm(segment + 1)
  /\ planMemo' = <<>> /\ evalMemo' = <<>> /\ curve' = <<>>
  /\ round' = 0 /\ pc' = "round"
  /\ UNCHANGED <<config, segment, checkpoint, episode, update>>

RefuseWarmStart ==
  /\ pc = "build" /\ checkpoint # None /\ ~Loadable
  /\ pc' = "refused"
  /\ UNCHANGED <<config, segment, round, checkpoint, stack, valueNorm, memos, curve, episode, update>>

(***************************************************************************)
(* The plans of a segment.  A builder that asks a model is memoised by what *)
(* a slice asks for; evaluations are memoised by request on top of it.      *)
(***************************************************************************)
\* By the number of the request, which training and evaluation share.
MemoKey_Request(rid, c) == rid
MemoKey(rid, c) == c
Memoised == config.builder = "memo"

Stream == IF config.fixed THEN FixedStream ELSE FreshStreams[round + 1]

\* What may be planned for request rid of content c.
Planned(rid, c) ==
  IF Memoised /\ MemoKey(rid, c) \in DOMAIN planMemo THEN {planMemo[MemoKey(rid, c)]} ELSE Answers[c]

Noted(rid, c, p) == IF Memoised THEN With(planMemo, MemoKey(rid, c), p) ELSE planMemo

Declines(p) == p.domains = <<>>

(***************************************************************************)
(* An episode.                                                             *)
(***************************************************************************)
StartRound ==
  /\ pc = "round"
  /\ pc' = "collect"
  /\ UNCHANGED <<config, segment, round, checkpoint, stack, valueNorm, memos, curve, episode, update>>

Number(d) == CHOOSE i \in DOMAIN Canonical : Canonical[i] = d
InCanonical(p) == [k \in DOMAIN p |-> Number(p[k])]
InDomains(p) == [k \in DOMAIN p |-> Canonical[p[k]]]

\* The partitions a mode may come to for a plan.
Decoded(plan) ==
  IF config.mode = "follow_prior"
  THEN {InCanonical(plan.domains)}
  ELSE {p \in Partitions : Len(p) = Len(plan.domains)}

\* The advice the policy's logits are shifted by in an advised rollout.
Advice(plan) == IF config.mode = "advised_sample" THEN InCanonical(plan.domains) ELSE <<>>

\* What a recorded log-probability is a probability under.
Behaviour(plan) ==
  IF config.mode = "follow_prior" THEN None ELSE [policy |-> policy, advice |-> Advice(plan)]

\* finalize_reward, with the cost terms of an admission left out.
Reward(outcome) ==
  IF outcome = "admitted" THEN AdmitReward ELSE IF outcome = "revoked" THEN -Penalty ELSE 0

Outcomes(p) == IF Contiguous(p) THEN {"admitted", "revoked", "rejected"} ELSE {"rejected"}

\* A fragment for every domain of a partition that is dispatched; the steps of
\* frozen actors are not recorded.
Dispatched(rid, p) ==
  [d \in Domains |->
     IF config.trainActors /\ Contiguous(p) /\ \E k \in DOMAIN p : Canonical[p[k]] = d
     THEN Append(fragments[d], [rid |-> rid, actor |-> actors[d], sampled |-> stochastic])
     ELSE fragments[d]]

\* The state the critic is shown: captured before the arrival is counted.
StateOf(c) == <<c, stats.arrived, stats.admitted>>

Arrive ==
  /\ pc = "collect" /\ stats.arrived < Arrivals
  /\ LET rid == stats.arrived + 1
         c == Stream[rid]
     IN  /\ states' = With(states, rid, StateOf(c))
         /\ \E plan \in Planned(rid, c) :
              /\ planMemo' = Noted(rid, c, plan)
              /\ \/ /\ Declines(plan)
                    /\ stats' = [stats EXCEPT !.arrived = @ + 1]
                    /\ UNCHANGED <<rollout, fragments>>
                 \/ /\ ~Declines(plan)
                    /\ \E p \in Decoded(plan) : \E outcome \in Outcomes(p) :
                         /\ stats' = [arrived |-> rid, admitted |->
                              IF outcome = "admitted" THEN stats.admitted + 1 ELSE stats.admitted]
                         /\ fragments' = Dispatched(rid, p)
                         /\ rollout' = Append(rollout,
                              [rid |-> rid, plan |-> plan, action |-> p,
                               behaviour |-> Behaviour(plan), reward |-> Reward(outcome)])
  /\ UNCHANGED <<config, segment, round, pc, checkpoint, stack, valueNorm, evalMemo, curve, update>>

\* An episode without a single plan trains nothing.
EndEpisode ==
  /\ pc = "collect" /\ stats.arrived = Arrivals
  /\ pc' = IF rollout = <<>> THEN "score" ELSE "credit"
  /\ UNCHANGED <<config, segment, round, checkpoint, stack, valueNorm, memos, curve, episode, update>>

(***************************************************************************)
(* Credit.  Each transition closes an arrival, so the transitions are the   *)
(* stream; arrivals without a plan are not in it.                           *)
(***************************************************************************)
T == Len(rollout)
ValueAt(i) == IF i > T THEN 0 ELSE Denormalized(states[rollout[i].rid])

\* Every arrival as an episode of its own.
Ends_EveryArrival(t) == TRUE
Ends(t) == t = T

\* compute_gae, backwards over the stream.
Gae ==
  LET gae[t \in 1..(T + 1)] ==
        IF t = T + 1 THEN 0
        ELSE LET next == IF Ends(t) THEN 0 ELSE ValueAt(t + 1)
                 delta == rollout[t].reward + Gamma * next - ValueAt(t)
             IN  IF Ends(t) THEN delta ELSE delta + Gamma * Lambda * gae[t + 1]
  IN  gae

Credits(t) ==
  IF config.adv = "stream_gae"
  THEN [advantage |-> Gae[t], return |-> Gae[t] + ValueAt(t)]
  ELSE LET return == IF config.adv = "td0"
                     THEN rollout[t].reward + Gamma * ValueAt(t + 1)
                     ELSE rollout[t].reward
       IN  [advantage |-> return - ValueAt(t), return |-> return]

Credit ==
  /\ pc = "credit"
  /\ credit' = [t \in 1..T |-> Credits(t)]
  /\ pc' = "critic"
  /\ UNCHANGED <<config, segment, round, checkpoint, stack, valueNorm, memos, curve, episode,
                 correction, tuned, epoch, unseen, stepsTaken>>

(***************************************************************************)
(* The updates.                                                            *)
(***************************************************************************)
\* What the policy is to learn from: a partition copied from the plan teaches it
\* nothing.
Learned == IF config.mode = "follow_prior" THEN {} ELSE 1..T

\* The normaliser takes the returns in, then the critic learns them through it.
UpdateCritic ==
  /\ pc = "critic"
  /\ valueNorm' = [valueNorm EXCEPT !.updates = @ + 1, !.count = AtMostTwo(@ + T)]
  /\ critic' = [updates |-> critic.updates + 1, frame |-> Frame(valueNorm')]
  /\ epoch' = 0 /\ unseen' = Learned /\ stepsTaken' = 0
  /\ pc' = "policy"
  /\ UNCHANGED <<config, segment, round, checkpoint, policy, actors, stochastic, memos, curve,
                 episode, credit, correction, tuned>>

\* With the advice in the numbers the plan has it in.
Replayed_Raw(t) ==
  [policy |-> policy,
   advice |-> IF config.mode = "advised_sample" THEN rollout[t].plan.domains ELSE <<>>]

\* What the next minibatch recomputes the log-probability of a transition under.
Replayed(t) ==
  [policy |-> policy,
   advice |-> IF config.mode = "advised_sample" /\ Len(rollout[t].plan.domains) = Len(rollout[t].action)
              THEN InCanonical(rollout[t].plan.domains) ELSE <<>>]

BatchSize == IF config.minibatch = 0 THEN T ELSE config.minibatch

\* The next slice of an epoch's random order; the last may be shorter.
Minibatches ==
  {b \in SUBSET unseen :
     Cardinality(b) = IF Cardinality(unseen) < BatchSize THEN Cardinality(unseen) ELSE BatchSize}

\* One optimizer step, on the mean of a minibatch; after the last of an epoch the
\* transitions are shuffled again.
UpdatePolicy ==
  /\ pc = "policy" /\ epoch < Epochs /\ unseen # {}
  /\ \E batch \in Minibatches :
       IF batch = unseen THEN epoch' = epoch + 1 /\ unseen' = Learned
       ELSE epoch' = epoch /\ unseen' = unseen \ batch
  /\ policy' = policy + 1 /\ stepsTaken' = stepsTaken + 1
  /\ UNCHANGED <<config, segment, round, pc, checkpoint, critic, actors, stochastic, valueNorm,
                 memos, curve, episode, credit, correction, tuned>>

EndPolicy ==
  /\ pc = "policy" /\ (epoch = Epochs \/ unseen = {})
  /\ pc' = "actors"
  /\ UNCHANGED <<config, segment, round, checkpoint, stack, valueNorm, memos, curve, episode, update>>

RequestsOf(d) == {fragments[d][i].rid : i \in DOMAIN fragments[d]}
Agents == {d \in Domains : RequestsOf(d) # {}}
Tuned == {tuned[i].domain : i \in DOMAIN tuned}

Correction(rid) == IF rid \in DOMAIN correction THEN correction[rid] ELSE 1

Clipped(r) == IF r < LowRatio THEN LowRatio ELSE IF r > HighRatio THEN HighRatio ELSE r

\* With only the last agent's ratio kept.
Corrected_Last(d, rid) == Clipped(Ratio[d][rid])

\* The correction after agent d, for a request it had a fragment of.
Corrected(d, rid) == Correction(rid) * Clipped(Ratio[d][rid])

\* The next agent of a random order: its objective scales the advantage of each
\* request by the correction so far.  Its own epochs and minibatches, which nothing
\* else comes between, are one update.
UpdateActor ==
  /\ pc = "actors"
  /\ \E d \in Agents \ Tuned :
       /\ tuned' = Append(tuned, [domain |-> d,
                                  scale |-> [rid \in RequestsOf(d) |-> Correction(rid)]])
       /\ actors' = [actors EXCEPT ![d] = @ + 1]
       /\ correction' = Updated(correction, [rid \in RequestsOf(d) |-> Corrected(d, rid)])
  /\ UNCHANGED <<config, segment, round, pc, checkpoint, policy, critic, stochastic, valueNorm,
                 memos, curve, episode, credit, epoch, unseen, stepsTaken>>

EndUpdate ==
  /\ pc = "actors" /\ Agents \subseteq Tuned
  /\ pc' = "score"
  /\ UNCHANGED <<config, segment, round, checkpoint, stack, valueNorm, memos, curve, episode, update>>

(***************************************************************************)
(* The score of a round, on the held-out stream.                           *)
(***************************************************************************)
\* With the actors sampling, as in a rollout.
Argmax_Never == stochastic
Argmax == FALSE

EvalMode ==
  CASE config.mode = "advised_sample" -> "advised"
    [] config.mode = "follow_prior" -> "follow_prior"
    [] OTHER -> "deterministic"

EnterScore ==
  /\ pc = "score"
  /\ stochastic' = Argmax
  /\ pc' = "scoring"
  /\ UNCHANGED <<config, segment, round, checkpoint, policy, critic, actors, valueNorm, memos, curve,
                 episode, update>>

\* What an evaluation that decodes by mode ran with.
Scored(mode) ==
  [mode |-> mode, policy |-> policy, actors |-> actors, sampled |-> stochastic]

\* The plan served to request rid when fresh answers would be those of a.
Served(rid, a) ==
  IF rid \in DOMAIN evalMemo THEN evalMemo[rid]
  ELSE LET key == MemoKey(rid, EvalStream[rid])
           first == CHOOSE r \in Requests : /\ MemoKey(r, EvalStream[r]) = key
                                            /\ \A q \in 1..(r - 1) : MemoKey(q, EvalStream[q]) # key
       IN  IF ~Memoised THEN a[rid]
           ELSE IF key \in DOMAIN planMemo THEN planMemo[key] ELSE a[first]

\* Every request of the held-out stream is planned for, and the memos filled.
ServeEvaluation ==
  IF ~config.evalBuilder THEN UNCHANGED memos
  ELSE \E a \in {f \in [Requests -> UNION {Answers[c] : c \in Contents}] :
                   \A r \in Requests : f[r] \in Answers[EvalStream[r]]} :
         /\ evalMemo' = [r \in Requests |-> Served(r, a)]
         /\ planMemo' = IF Memoised /\ evalMemo = <<>>
                        THEN Updated(planMemo,
                               [k \in {MemoKey(r, EvalStream[r]) : r \in Requests} |->
                                  Served(CHOOSE r \in Requests : MemoKey(r, EvalStream[r]) = k, a)])
                        ELSE planMemo

Score ==
  /\ pc = "scoring"
  /\ ServeEvaluation
  /\ curve' = Append(curve, [trained |-> Scored(EvalMode), followed |-> None])
  /\ stochastic' = config.trainActors
  /\ NoEpisode /\ NoUpdate
  /\ round' = round + 1
  /\ pc' = IF round + 1 < Rounds THEN "round"
           ELSE IF config.mode = "follow_prior" THEN "save" ELSE "compare"
  /\ UNCHANGED <<config, segment, checkpoint, policy, critic, actors, valueNorm>>

\* The plan followed to the letter, with the same weights on the same stream:
\* what the policy adds is read off the difference.
EnterComparison ==
  /\ pc = "compare"
  /\ stochastic' = Argmax
  /\ pc' = "comparing"
  /\ UNCHANGED <<config, segment, round, checkpoint, policy, critic, actors, valueNorm, memos, curve,
                 episode, update>>

Compare ==
  /\ pc = "comparing"
  /\ curve' = [curve EXCEPT ![Len(curve)].followed = Scored("follow_prior")]
  /\ stochastic' = config.trainActors
  /\ pc' = "save"
  /\ UNCHANGED <<config, segment, round, checkpoint, policy, critic, actors, valueNorm, memos,
                 episode, update>>

(***************************************************************************)
(* The end of a segment: what the next one, or an evaluation, starts from.  *)
(***************************************************************************)
SaveCheckpoint ==
  /\ pc = "save"
  /\ checkpoint' = [obsVersion |-> ObsVersion, policy |-> policy, critic |-> critic,
                    actors |-> IF config.trainActors THEN actors ELSE None,
                    score |-> Last(curve)]
  /\ segment' = segment + 1
  /\ pc' = IF segment' < Segments THEN "build" ELSE "done"
  /\ UNCHANGED <<config, round, stack, valueNorm, memos, curve, episode, update>>

Next ==
  \/ StartSegment \/ RefuseWarmStart
  \/ StartRound \/ Arrive \/ EndEpisode
  \/ Credit \/ UpdateCritic \/ UpdatePolicy \/ EndPolicy \/ UpdateActor \/ EndUpdate
  \/ EnterScore \/ Score \/ EnterComparison \/ Compare
  \/ SaveCheckpoint

Spec == Init /\ [][Next]_vars

-----------------------------------------------------------------------------
(***************************************************************************)
(* Properties                                                              *)
(***************************************************************************)
\* What an evaluation leaves of the stack it was run with.
Parts == [mode : Modes \cup {"advised", "deterministic"}, policy : Nat,
          actors : [Domains -> Nat], sampled : BOOLEAN]

\* The variables range over what the code keeps in them.
TypeOK ==
  /\ config \in Configs
  /\ segment \in 0..Segments /\ round \in 0..Rounds
  /\ pc \in {"build", "round", "collect", "credit", "critic", "policy", "actors", "score",
             "scoring", "compare", "comparing", "save", "done", "refused"}
  /\ checkpoint = None \/ Stack(checkpoint)
  /\ policy \in Nat /\ critic.updates \in Nat
  /\ actors \in [Domains -> Nat] /\ stochastic \in BOOLEAN
  /\ valueNorm \in [segment : Nat, updates : Nat, count : 0..2]
  /\ stats \in [arrived : 0..Arrivals, admitted : 0..Arrivals]
  /\ stats.admitted <= stats.arrived
  /\ epoch \in 0..Epochs /\ unseen \subseteq 1..Len(rollout) /\ stepsTaken \in Nat
  /\ curve \in Seq([trained : Parts, followed : Parts \cup {None}])

(* What the credits of a round should be, said forwards: the lambda-return of
   the arrivals that had a plan, each valued as it was before it was decided on,
   and nothing after the last.  Valued here from the stream and the outcomes. *)
AdmittedBefore(rid) ==
  Cardinality({t \in 1..T : rollout[t].rid < rid /\ rollout[t].reward = AdmitReward})
ValueBefore(t) ==
  IF t > T THEN 0
  ELSE LET rid == rollout[t].rid IN Estimate[<<Stream[rid], rid - 1, AdmittedBefore(rid)>>]

LambdaReturn ==
  LET G[t \in 1..(T + 1)] ==
        IF t = T + 1 THEN 0
        ELSE rollout[t].reward + Gamma * ((1 - Lambda) * ValueBefore(t + 1) + Lambda * G[t + 1])
  IN  G

Target(t) ==
  CASE config.adv = "stream_gae" -> LambdaReturn[t]
    [] config.adv = "td0" -> rollout[t].reward + Gamma * ValueBefore(t + 1)
    [] OTHER -> rollout[t].reward

\* A critic that has learnt is read through the normaliser it learnt through, if
\* that has taken any returns in: not so in the first update after a warm start,
\* which begins a new normaliser.
CriticReadable == critic.frame = Untrained \/ valueNorm.updates > 0

\* Every transition of a round is credited with the return of its own arrival and
\* compared with the value of the state that arrival met, whatever was planned,
\* declined or revoked in between (gae_over_arrivals, per_arrival_advantages and
\* the capture of s_t).
CreditIsReturn ==
  pc = "critic" /\ CriticReadable =>
    \A t \in 1..T : credit[t] = [advantage |-> Target(t) - ValueBefore(t), return |-> Target(t)]

\* How many minibatches n transitions make.
Batches(n) == (n + BatchSize - 1) \div BatchSize

\* A ratio of the policy's update tells what this very update has changed: it
\* compares the policy with the one the transition was sampled by, under the same
\* advice in the same frame, the optimizer steps of this update apart, so none in
\* the first minibatch, and update_epochs * ceil(n / minibatch) in all, as the
\* comment on PPO_MINIBATCH counts them.  And an agent's turn begins with fragments
\* it sampled itself, as it then is (the PPO updates of train_approach).
RatiosOfThisUpdate ==
  /\ pc = "policy" /\ epoch < Epochs =>
       \A t \in unseen :
         /\ Replayed(t).advice = rollout[t].behaviour.advice
         /\ Replayed(t).policy = rollout[t].behaviour.policy + stepsTaken
  /\ pc = "actors" /\ config.mode # "follow_prior" => stepsTaken = Epochs * Batches(T)
  /\ pc = "actors" =>
       \A d \in Domains \ Tuned : \A i \in DOMAIN fragments[d] :
         fragments[d][i].actor = actors[d] /\ fragments[d][i].sampled

\* A score of what is in a checkpoint, decoded as it should be.
ScoreOf(part, mode, c) ==
  /\ part.mode = mode /\ part.policy = c.policy /\ ~part.sampled
  /\ c.actors # None => part.actors = c.actors

\* The scores a checkpoint is filed with are of the weights filed, decoded the
\* way the stack is used and never with sampling actors; and the next segment
\* starts with all it holds (the checkpoint, final_curve and the warm start).
CheckpointCarriesOn ==
  /\ pc \in {"build", "done"} /\ segment > 0 =>
       /\ ScoreOf(checkpoint.score.trained, EvalMode, checkpoint)
       /\ config.mode # "follow_prior" =>
            ScoreOf(checkpoint.score.followed, "follow_prior", checkpoint)
  /\ pc = "round" /\ round = 0 /\ checkpoint # None =>
       /\ policy = checkpoint.policy /\ critic = checkpoint.critic
       /\ checkpoint.actors # None => actors = checkpoint.actors

\* A plan is used for the slice it was made for, though training and evaluation
\* number their requests alike and the memos outlive a round (_slice_memo_key,
\* eval_pb).
ServedForItsSlice ==
  /\ \A t \in 1..T : rollout[t].plan.for = Stream[rollout[t].rid]
  /\ \A rid \in DOMAIN evalMemo : evalMemo[rid].for = EvalStream[rid]

\* Agents tuned before the i-th that had a fragment of a request.
Before(i, rid) == {j \in 1..(i - 1) : rid \in RequestsOf(tuned[j].domain)}

Product(f, S) == FoldFunctionOnSet(LAMBDA a, b : a * b, 1, f, S)
RatiosBefore(i, rid) == [j \in Before(i, rid) |-> Clipped(Ratio[tuned[j].domain][rid])]

\* Every agent that acted is tuned once a round, no other is, and each sees the
\* advantage of a request scaled by what all agents tuned before it made of that
\* request (update_domain_actors).
AgentsBuildOnEachOther ==
  /\ \A i \in DOMAIN tuned : \A rid \in RequestsOf(tuned[i].domain) :
       tuned[i].scale[rid] = Product(RatiosBefore(i, rid), Before(i, rid))
  /\ pc = "score" => Tuned = Agents /\ Len(tuned) = Cardinality(Agents)

=============================================================================
