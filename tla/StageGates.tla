----------------------------- MODULE StageGates -----------------------------
(***************************************************************************)
(* The contracts of the four media stages and the gates before and after   *)
(* each (stage_gates.py, stage_contracts_data).                            *)
(*                                                                         *)
(* A capability is something the batch or the results hold.  None of the   *)
(* four contracts has the failure policy "block", and an input contract    *)
(* already limits a batch to the 32 items every stage accepts, so the      *)
(* gate decisions that need one of these are left out.                     *)
(***************************************************************************)
EXTENDS Naturals, Sequences

CONSTANTS
    Outputs,    \* what a model can answer for a stage, once it is valid
    Nothing,    \* no answer
    Produces,   \* answers that yield the capability the stage is for
    TooMany     \* answers with more items than the contract allows

ASSUME OutputsAssumption ==
    /\ Nothing \notin Outputs
    /\ Produces \subseteq Outputs
    /\ TooMany \subseteq Outputs

Order == <<"asr", "fire_detection", "visual_grounding", "multimodal_extraction">>
Roles == {"asr", "fire_detection", "visual_grounding", "multimodal_extraction"}

Inputs == {"audio_input", "visual_input", "text_input"}
Yield == [asr |-> "transcript",
          fire_detection |-> "detection_regions",
          visual_grounding |-> "grounded_regions",
          multimodal_extraction |-> "factual_observations"]

\* What a batch with these inputs holds after these results.  The first results
\* already select some of the images, and a valid answer keeps one selected.
Capabilities(inputs, results) ==
    inputs
    \cup {c \in {"selected_visual"} : "visual_input" \in inputs}
    \cup {Yield[r] : r \in {q \in Roles : results[q] \in Produces}}

-----------------------------------------------------------------------------
(* The contracts *)

RequiredAll == [asr |-> {"audio_input"},
                fire_detection |-> {"visual_input"},
                visual_grounding |-> {"selected_visual"},
                multimodal_extraction |-> {}]

RequiredAny == [asr |-> {}, fire_detection |-> {}, visual_grounding |-> {},
                multimodal_extraction |-> {"transcript", "text_input", "selected_visual"}]

MinimumOutput == [asr |-> {"transcript"},
                  fire_detection |-> {"selected_visual", "detection_regions"},
                  visual_grounding |-> {"grounded_regions"},
                  multimodal_extraction |-> {"factual_observations"}]

\* The input without which a stage that may be skipped does not apply.
DirectInput == [asr |-> "audio_input",
                fire_detection |-> "visual_input",
                visual_grounding |-> "visual_input"]

\* Only the last stage has a repair attempt, cannot be skipped, and asks for a
\* human when it has no output; the others continue degraded.
LastRole == "multimodal_extraction"
MayRepair(r) == r = LastRole
MaySkip(r) == r # LastRole
OnMissing(r) == IF r = LastRole THEN "human_review" ELSE "abstain"

-----------------------------------------------------------------------------
(* The gates *)

Missing(r, caps) ==
    \/ ~ RequiredAll[r] \subseteq caps
    \/ RequiredAny[r] # {} /\ RequiredAny[r] \cap caps = {}

Preflight(r, caps) ==
    IF ~ Missing(r, caps) THEN "pass"
    ELSE IF MaySkip(r) /\ DirectInput[r] \notin caps THEN "not_applicable"
    ELSE OnMissing(r)

\* (mutant) a stage that failed may always be tried again
PostflightAlwaysRetry(r, before, after, status, error, late, out) ==
    IF status = "failed" THEN "failed_retryable"
    ELSE IF status = "skipped" THEN (IF error = "none" THEN "not_applicable" ELSE "abstain")
    ELSE IF late THEN "failed_retryable"
    ELSE IF out \in TooMany THEN "failed_terminal"
    ELSE IF (after \ before) \cap MinimumOutput[r] # {} THEN "pass"
    ELSE OnMissing(r)

Postflight(r, before, after, status, error, late, out) ==
    IF status = "failed" THEN
        (IF error = "model_runtime_error" THEN "failed_retryable" ELSE "failed_terminal")
    ELSE IF status = "skipped" THEN (IF error = "none" THEN "not_applicable" ELSE "abstain")
    ELSE IF late THEN "failed_retryable"
    ELSE IF out \in TooMany THEN "failed_terminal"
    ELSE IF (after \ before) \cap MinimumOutput[r] # {} THEN "pass"
    ELSE OnMissing(r)

PreDecisions  == {"pass", "not_applicable", "human_review", "abstain"}
PostDecisions == PreDecisions \cup {"failed_retryable", "failed_terminal"}
=============================================================================
