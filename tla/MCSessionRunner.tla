-------------------------- MODULE MCSessionRunner ---------------------------
(***************************************************************************)
(* Model checking SessionRunner.  Three registries have between them every *)
(* strategy, groups of one to three candidates, quorums of two that ask    *)
(* for two successes and for one and a quorum of three, a cascade with and *)
(* without a judge, and stages without a model.  Four answers: two that disagree in  *)
(* one direction only, one that yields nothing for the gate and one that   *)
(* is empty; "y" is also too long.                                         *)
(***************************************************************************)
EXTENDS SessionRunner

MCOutputs  == {"x", "y", "places", "empty"}
MCProduces == {"x", "y"}
MCTooMany  == {"y"}
MCSilent   == {"empty"}

MCScore == [p \in MCOutputs \X MCOutputs |->
    IF p[1] = p[2] THEN 2 ELSE IF p = <<"x", "y">> THEN 1 ELSE 0]

MCBatches == {{"text_input"}, {"audio_input"}, {"visual_input"},
              {"visual_input", "satellite_multispectral", "reference_bundle"}}

Unconfigured == [size |-> 0, strategy |-> "single_with_rules", minimumSuccessful |-> 1,
    minimumAgreeing |-> 1, threshold |-> 1, onDisagreement |-> "human_review",
    alwaysChallenge |-> FALSE, judge |-> FALSE]

Single == [Unconfigured EXCEPT !.size = 1]
Quorum(n, successful) == [Unconfigured EXCEPT !.size = n, !.strategy = "quorum",
    !.minimumSuccessful = successful, !.minimumAgreeing = 2, !.judge = TRUE]
Cascade(agreeing) == [Unconfigured EXCEPT !.size = 2, !.strategy = "cascade",
    !.minimumAgreeing = agreeing, !.judge = agreeing = 2, !.onDisagreement = "abstain"]

MCRegistries == {
    [asr |-> Cascade(1), fire_detection |-> Quorum(2, 2),
     visual_grounding |-> Unconfigured, multimodal_extraction |-> Single],
    [asr |-> Cascade(2), fire_detection |-> Quorum(2, 1),
     visual_grounding |-> Single, multimodal_extraction |-> Unconfigured],
    [asr |-> Unconfigured, fire_detection |-> Quorum(3, 2),
     visual_grounding |-> Unconfigured, multimodal_extraction |-> Unconfigured]}
=============================================================================
