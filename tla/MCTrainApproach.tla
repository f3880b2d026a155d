-------------------------- MODULE MCTrainApproach --------------------------
(***************************************************************************)
(* Two segments of two rounds of three requests over three domains, which   *)
(* the policy numbers differently from the substrate.  Request 1 is another *)
(* slice in the evaluation than in training.                                *)
(***************************************************************************)
EXTENDS TrainApproach, TLC

MCDomains == {0, 1, 2}
MCCanonical == <<2, 0, 1>>
MCContents == {11, 12}

\* A chain of three VNFs and one of two, which may also be declined.
MCAnswers ==
  (11 :> {[for |-> 11, domains |-> <<1, 1, 0>>]}) @@
  (12 :> {[for |-> 12, domains |-> <<0, 2>>], [for |-> 12, domains |-> <<>>]})

\* In canonical numbers, the third one scattered.
MCPartitions == {<<1, 2, 3>>, <<2, 2, 1>>, <<1, 2, 1>>, <<1, 3>>, <<2, 2>>}

MCFixedStream == <<11, 12, 11>>
MCFreshStreams == <<<<12, 11, 12>>, <<12, 12, 12>>>>
MCEvalStream == <<12, 11, 11>>

\* Another value for each content, number of arrivals and number admitted.
MCEstimate ==
  [s \in {<<c, a, m>> : c \in MCContents, a \in 0..2, m \in 0..2} |-> s[1] - 10 + 3 * s[2] + 7 * s[3]]

MCAdmitReward == 5
MCPenalty == 1
MCGamma == 2
MCLambda == 3

\* Within the clip, below it and above it, so that no two agents agree.
MCRatio == [d \in MCDomains |-> [r \in 1..3 |-> <<7, 11, 9>>[d + 1] + (IF r = 2 THEN 2 ELSE 0)]]
MCLowRatio == 8
MCHighRatio == 12

Config(mode, adv, train, builder, fixed, eval, batch) ==
  [mode |-> mode, adv |-> adv, trainActors |-> train, builder |-> builder,
   fixed |-> fixed, evalBuilder |-> eval, minibatch |-> batch]

\* The stacks grid_runner trains (rl_alone, po_advised, llm_guided), the
\* alternatives of ADV_MODE, and actors trained alone on the planner's choice.
MCConfigs == {
  Config("sample", "stream_gae", FALSE, "custom", FALSE, TRUE, 2),
  Config("advised_sample", "stream_gae", TRUE, "memo", TRUE, TRUE, 2),
  Config("sample", "td0", TRUE, "custom", FALSE, FALSE, 0),
  Config("follow_prior", "bandit", TRUE, "memo", TRUE, TRUE, 2)}

\* From scratch, from another observation, from a stack with trained actors.
Stored(version, actor) ==
  [obsVersion |-> version, policy |-> 3, critic |-> [updates |-> 2, frame |-> <<-1, 2>>],
   actors |-> actor, score |-> <<>>]
MCInitFrom == {None, Stored(1, None), Stored(2, [d \in MCDomains |-> d + 1])}
MCObsVersion == 2
MCEpochs == 2
MCSegments == 2
MCRounds == 2
=============================================================================
