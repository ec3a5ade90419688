--------------------------- MODULE SessionRunner ----------------------------
(***************************************************************************)
(* One batch on the GPU (session_runner.py, memory_manager.py,             *)
(* v2_burned_area.py, the batch branch of handler.py).                     *)
(*                                                                         *)
(* The four stages run in order.  Each runs the candidates of its group    *)
(* one after the other, each loaded, asked, perhaps asked again, and       *)
(* released; decides which answer to use, with a judge if they disagree;   *)
(* and merges the chosen answer into the results the next stage starts     *)
(* from.  A version 2 batch then runs the burned-area model.               *)
(*                                                                         *)
(* Every call of a model or of CUDA may raise, also the emptying of the    *)
(* CUDA cache in a finally block, except the creation of an adapter, the   *)
(* reading of the peak memory and the dropping of a model.  An answer is   *)
(* its value for the gates and the comparison; digests, payloads and times *)
(* are left out.  So are the pointing stage, which this build registers no *)
(* model for, and what follows the burned-area stage without a GPU.        *)
(***************************************************************************)
EXTENDS StageGates, Consensus

CONSTANTS
    Batches,    \* sets of inputs a batch may have
    Registries, \* functions from stages to groups
    Silent      \* answers that hold nothing at all

ASSUME BatchesAssumption ==
    Batches \subseteq SUBSET (Inputs \cup {"satellite_multispectral", "reference_bundle"})
ASSUME RegistriesAssumption ==
    \A g \in Registries : DOMAIN g = Roles /\ \A r \in Roles : ValidGroup(g[r])
ASSUME SilentAssumption == Silent \subseteq Outputs /\ Silent \cap Produces = {}
ASSUME ScoreAssumption == Score \in [Outputs \X Outputs -> Nat]

VARIABLES
    batch,      \* what the batch holds
    registry,   \* the groups
    version2,   \* whether the request is a version 2 batch
    stage,      \* number of the stage, 5 after the last
    pc,         \* what the runner does next
    loaded,     \* checkpoints on the GPU
    current,    \* the candidate that is being executed
    execs,      \* executions of the candidates of this stage
    judge,      \* execution of the judge of this stage
    evaluation, \* what the consensus decided
    results,    \* answers merged so far
    records,    \* what is recorded of the stages before this one
    burned,     \* what the burned-area stage came to
    answer      \* what handle_job returns or raises

request == <<batch, registry, version2>>
deciding == <<judge, evaluation>>
recorded == <<results, records, burned, answer>>
vars == <<request, stage, pc, loaded, current, execs, deciding, recorded>>

Errors == {"none", "invalid_model_output", "model_runtime_error"}
NoExec == [out |-> Nothing, error |-> "none", attempts |-> <<>>, repaired |-> FALSE]

\* A verdict that selects no candidate, and that of a judge that did not answer, is 0.
NoJudge == [error |-> "none", verdict |-> 0, confident |-> FALSE, repaired |-> FALSE,
            reserved |-> FALSE]
NoEvaluation == [decision |-> "abstain", selected |-> 0, disputed |-> FALSE]
NoAnswer == [kind |-> "none", status |-> "none", retryable |-> FALSE]

Role  == Order[stage]
Group == registry[Role]
Held  == Capabilities(batch, results)

Init ==
    /\ batch \in Batches
    /\ registry \in Registries
    /\ version2 \in BOOLEAN
    /\ stage = 1
    /\ pc = "preflight"
    /\ loaded = {}
    /\ current = NoExec
    /\ execs = <<>>
    /\ judge = NoJudge
    /\ evaluation = NoEvaluation
    /\ results = [r \in Roles |-> Nothing]
    /\ records = <<>>
    /\ burned = "none"
    /\ answer = NoAnswer

-----------------------------------------------------------------------------
(* Before a stage *)

Record(pre, post, status, error, attempts) ==
    [pre |-> pre, post |-> post, status |-> status, error |-> error,
     attempts |-> attempts, evaluation |-> evaluation, execs |-> execs, judge |-> judge]

\* The stage ends with this record and the next one begins.
Advance(record) ==
    /\ records' = Append(records, record)
    /\ stage' = stage + 1
    /\ pc' = "preflight"
    /\ current' = NoExec
    /\ execs' = <<>>
    /\ judge' = NoJudge
    /\ evaluation' = NoEvaluation
    /\ UNCHANGED <<request, loaded, burned, answer>>

Skip ==
    /\ pc = "preflight" /\ stage <= Len(Order)
    /\ LET pre == Preflight(Role, Held)
       IN  /\ pre # "pass"
           /\ Advance(Record(pre, "none", "skipped",
                             IF pre = "not_applicable" THEN "none" ELSE "gate", <<>>))
    /\ UNCHANGED results

SkipUnconfigured ==
    /\ pc = "preflight" /\ stage <= Len(Order)
    /\ Preflight(Role, Held) = "pass"
    /\ Group.size = 0
    /\ Advance(Record("pass", Postflight(Role, Held, Held, "skipped", "not_configured",
                                         FALSE, Nothing),
                      "skipped", "not_configured", <<>>))
    /\ UNCHANGED results

Begin ==
    /\ pc = "preflight" /\ stage <= Len(Order)
    /\ Preflight(Role, Held) = "pass"
    /\ Group.size > 0
    /\ pc' = "load"
    /\ UNCHANGED <<request, stage, loaded, current, execs, deciding, recorded>>

-----------------------------------------------------------------------------
(* _execute_candidate *)

Goto(p) == pc' = p /\ UNCHANGED <<request, stage, deciding, recorded>>

\* The checkpoint of the candidate that runs, of the judge, of burned area.
Candidate == <<stage, Len(execs) + 1>>
Judge     == <<stage, 0>>
Prithvi   == <<stage, 1>>

Load ==
    /\ pc = "load"
    /\ loaded' = loaded \cup {Candidate}
    /\ Goto("infer")
    /\ UNCHANGED <<current, execs>>

\* (mutant) a candidate that does not load is not released
LoadFailsOutside ==
    /\ pc = "load"
    /\ \E l \in SUBSET {Candidate} : loaded' = loaded \cup l
    /\ execs' = Append(execs, [NoExec EXCEPT !.error = "model_runtime_error"])
    /\ Goto(IF Len(execs) + 1 = Group.size THEN "evaluate" ELSE "load")
    /\ UNCHANGED current

\* A load that fails may leave a part of the checkpoint on the GPU.
LoadFails ==
    /\ pc = "load"
    /\ \E l \in SUBSET {Candidate} : loaded' = loaded \cup l
    /\ current' = [current EXCEPT !.error = "model_runtime_error"]
    /\ Goto("release")
    /\ UNCHANGED execs

Attempt(status) == Append(current.attempts, status)

Succeed(o) ==
    /\ o \in Silent \cup Produces \/ Role = LastRole
    /\ current' = [current EXCEPT !.out = o, !.attempts = Attempt("succeeded"),
                                  !.repaired = pc = "repair"]
    /\ Goto("release")
    /\ UNCHANGED <<loaded, execs>>

Fail(error) ==
    /\ current' = [current EXCEPT !.attempts = Attempt("failed"), !.error = error]
    /\ Goto("release")
    /\ UNCHANGED <<loaded, execs>>

\* A valid answer at the first or, where the contract allows one, the second time.
Infer(o) == pc \in {"infer", "repair"} /\ Succeed(o)

InferRaises == pc \in {"infer", "repair"} /\ Fail("model_runtime_error")

InferInvalid ==
    /\ pc = "infer"
    /\ ~ MayRepair(Role)
    /\ Fail("invalid_model_output")

\* (mutant) the model is asked until its answer is valid
AskAgain ==
    /\ pc \in {"infer", "repair"}
    /\ MayRepair(Role)
    /\ Goto(IF pc = "infer" THEN "repair" ELSE "infer")
    /\ UNCHANGED <<loaded, current, execs>>

Correct ==
    /\ pc = "infer"
    /\ MayRepair(Role)
    /\ current' = [current EXCEPT !.attempts = Attempt("failed")]
    /\ Goto("repair")
    /\ UNCHANGED <<loaded, execs>>

RepairInvalid == pc = "repair" /\ Fail("invalid_model_output")

Successful(es) == {c \in 1..Len(es) : es[c].out # Nothing}
Out(es) == [c \in 1..Len(es) |-> es[c].out]

\* candidate_requires_challenge, for an answer merged into these results
Weak(o) ==
    /\ o \in Silent
    /\ Role = LastRole => \E r \in Roles \ {LastRole} : results[r] \in Produces

\* A cascade stops at a first answer that needs no challenger.
StopsEarly(es) ==
    /\ Group.strategy = "cascade"
    /\ Len(es) = 1
    /\ es[1].out # Nothing
    /\ Group.minimumSuccessful = 1
    /\ Group.minimumAgreeing = 1
    /\ ~ Group.alwaysChallenge
    /\ ~ Weak(es[1].out)

Release ==
    /\ pc = "release"
    /\ loaded' = loaded \ {Candidate}
    /\ execs' = Append(execs, current)
    /\ current' = NoExec
    /\ Goto(IF StopsEarly(execs') \/ Len(execs') = Group.size THEN "evaluate" ELSE "load")

\* The model is unloaded, but the emptying of the cache after it raises: the
\* error leaves the runner.
Raise(kind) ==
    /\ answer' = [answer EXCEPT !.kind = kind]
    /\ pc' = "abort"
    /\ UNCHANGED <<request, stage, current, execs, deciding, results, records, burned>>

ReleaseRaises ==
    /\ pc = "release"
    /\ loaded' = loaded \ {Candidate}
    /\ Raise("raised")

-----------------------------------------------------------------------------
(* Consensus and adjudication *)

Evaluate ==
    /\ pc = "evaluate"
    /\ \E e \in Evaluations(Len(execs)) :
        LET ok == Successful(execs)
        IN  /\ Evaluates(Group, Out(execs), ok, {c \in ok : Weak(execs[c].out)},
                         {c \in ok : execs[c].repaired}, e)
            /\ evaluation' = e
            /\ pc' = IF e.disputed THEN "judge" ELSE "merge"
    /\ UNCHANGED <<request, stage, loaded, current, execs, judge, recorded>>

Judging(j, p) ==
    /\ judge' = j
    /\ pc' = p
    /\ UNCHANGED <<request, stage, current, execs, evaluation, recorded>>

JudgeError(error) == [judge EXCEPT !.error = error]

\* The factory has no judge, or cannot create it: there is nothing to release.
JudgeMissing ==
    /\ pc = "judge"
    /\ Judging(JudgeError("model_runtime_error"), "adjudicate")
    /\ UNCHANGED loaded

JudgeLoads ==
    /\ pc = "judge"
    /\ loaded' = loaded \cup {Judge}
    /\ Judging(judge, "ask")

JudgeLoadFails ==
    /\ pc = "judge"
    /\ \E l \in SUBSET {Judge} : loaded' = loaded \cup l
    /\ Judging(JudgeError("model_runtime_error"), "judge_release")

\* A verdict selects a candidate whose answer the judge was shown, or none, for
\* reasons of which one may be the reason the consensus itself will add.
JudgeAnswers ==
    /\ pc \in {"ask", "ask_again"}
    /\ \E c \in Successful(execs) \cup {0}, sure, reserved \in BOOLEAN :
        Judging([judge EXCEPT !.verdict = c, !.confident = sure, !.reserved = reserved,
                              !.repaired = pc = "ask_again"], "synchronize")
    /\ UNCHANGED loaded

JudgeInvalid ==
    /\ pc = "ask"
    /\ Judging(judge, "ask_again")
    /\ UNCHANGED loaded

JudgeFails ==
    /\ pc \in {"ask", "ask_again"}
    /\ \E error \in Errors \ {"none"} :
        /\ error = "invalid_model_output" => pc = "ask_again"
        /\ Judging(JudgeError(error), "judge_release")
    /\ UNCHANGED loaded

\* The work of the judge is awaited after the verdict was taken.
JudgeSynchronizes ==
    /\ pc = "synchronize"
    /\ \E error \in {"none", "model_runtime_error"} : Judging(JudgeError(error), "judge_release")
    /\ UNCHANGED loaded

\* A run that failed cannot be recorded as repaired: the contract refuses it,
\* after the judge is released.
RunIsRefused == judge.repaired /\ judge.error # "none"

JudgeRelease ==
    /\ pc = "judge_release"
    /\ loaded' = loaded \ {Judge}
    /\ IF RunIsRefused THEN Raise("refused") ELSE Judging(judge, "adjudicate")

JudgeReleaseRaises ==
    /\ pc = "judge_release"
    /\ loaded' = loaded \ {Judge}
    /\ Raise("raised")

\* The reasons of a consensus must differ: the contract refuses the record.
AdjudicationIsRefused ==
    /\ pc = "adjudicate"
    /\ judge.reserved
    /\ Raise("refused")
    /\ UNCHANGED loaded

Adjudicate ==
    /\ pc = "adjudicate"
    /\ ~ judge.reserved
    /\ evaluation' = Adjudicated(Group, Successful(execs), judge.verdict, judge.confident)
    /\ pc' = "merge"
    /\ UNCHANGED <<request, stage, loaded, current, execs, judge, recorded>>

-----------------------------------------------------------------------------
(* After a stage *)

\* The answer the consensus released becomes part of the results.
MergeReleased ==
    /\ pc = "merge"
    /\ evaluation.selected # 0
    /\ LET run   == execs[evaluation.selected]
           after == [results EXCEPT ![Role] = run.out]
       IN  /\ results' = after
           /\ \E late \in BOOLEAN :
                Advance(Record("pass", Postflight(Role, Held, Capabilities(batch, after),
                                                  "succeeded", "none", late, run.out),
                               "succeeded", "none", run.attempts))

\* (mutant) the attempts of a candidate whose answer is withheld are kept
WithholdWithAttempts ==
    /\ pc = "merge"
    /\ evaluation.selected = 0
    /\ LET error == IF Successful(execs) # {} THEN "consensus" ELSE execs[1].error
       IN  Advance(Record("pass", Postflight(Role, Held, Held, "failed", error, FALSE, Nothing),
                          "failed", error, execs[1].attempts))
    /\ UNCHANGED results

\* Nothing is released: the first candidate stands for the stage.
Withhold ==
    /\ pc = "merge"
    /\ evaluation.selected = 0
    /\ LET error    == IF Successful(execs) # {} THEN "consensus" ELSE execs[1].error
           attempts == IF Successful(execs) # {} THEN <<>> ELSE execs[1].attempts
       IN  Advance(Record("pass", Postflight(Role, Held, Held, "failed", error, FALSE, Nothing),
                          "failed", error, attempts))
    /\ UNCHANGED results

-----------------------------------------------------------------------------
(* After the last stage *)

Adverse == {"human_review", "failed_retryable", "failed_terminal"}

\* (mutant) a stage that was skipped counts as a success
IncompleteOnlyIfFailed(rs) == \E k \in 1..Len(rs) : rs[k].post \in Adverse

Incomplete(rs) == \E k \in 1..Len(rs) :
    \/ rs[k].status = "skipped" /\ rs[k].error # "none"
    \/ rs[k].pre \in Adverse
    \/ rs[k].post \in Adverse

Status(rs) ==
    IF ~ Incomplete(rs) /\ \A k \in 1..Len(rs) : rs[k].status # "failed" THEN "succeeded"
    ELSE IF Incomplete(rs) \/ \E k \in 1..Len(rs) : rs[k].status = "succeeded"
         THEN "partial_failure"
    ELSE "failed"

Retryable(rs) == \E k \in 1..Len(rs) : "failed_retryable" \in {rs[k].pre, rs[k].post}

\* finalize_job runs whether the session returns or raises, and may raise.
Finalize ==
    /\ pc = "preflight" /\ stage = Len(Order) + 1
    /\ pc' = IF version2 THEN "burned" ELSE "answer"
    /\ UNCHANGED <<request, stage, loaded, current, execs, deciding, recorded>>

FinalizeRaises ==
    /\ pc = "preflight" /\ stage = Len(Order) + 1
    /\ Raise("raised")
    /\ UNCHANGED loaded

Abort ==
    /\ pc = "abort"
    /\ \E kind \in {answer.kind, "raised"} : answer' = [answer EXCEPT !.kind = kind]
    /\ pc' = "done"
    /\ UNCHANGED <<request, stage, loaded, current, execs, deciding, results, records, burned>>

BurnedStep(b, p) ==
    /\ burned' = b
    /\ pc' = p
    /\ UNCHANGED <<request, stage, current, execs, deciding, results, records, answer>>

\* Without a six-band product, its reference manifest or a runtime.
BurnedSkip ==
    /\ pc = "burned"
    /\ BurnedStep("skipped", "answer")
    /\ UNCHANGED loaded

BurnedLoad ==
    /\ pc = "burned"
    /\ {"satellite_multispectral", "reference_bundle"} \subseteq batch
    /\ loaded' = loaded \cup {Prithvi}
    /\ BurnedStep("running", "burned_run")

BurnedUnload ==
    /\ pc = "burned_run"
    /\ loaded' = loaded \ {Prithvi}
    /\ \E b \in {"succeeded", "failed"} : BurnedStep(b, "answer")

BurnedUnloadRaises ==
    /\ pc = "burned_run"
    /\ loaded' = loaded \ {Prithvi}
    /\ Raise("raised")

\* The version 2 contract refuses an answer whose judge failed.
IsRefused(rs) == \E k \in 1..Len(rs) :
    rs[k].evaluation.decision = "adjudicated" /\ rs[k].judge.error # "none"

\* handle_job turns a refusal into a failure that may not be retried.
Answer ==
    /\ pc = "answer"
    /\ answer' =
        IF version2 /\ IsRefused(records) THEN [answer EXCEPT !.kind = "refused"]
        ELSE [kind |-> "output", retryable |-> Retryable(records),
              status |-> IF burned = "failed" /\ Status(records) = "succeeded"
                         THEN "partial_failure" ELSE Status(records)]
    /\ pc' = "done"
    /\ UNCHANGED <<request, stage, loaded, current, execs, deciding, results, records, burned>>

-----------------------------------------------------------------------------
Execute ==
    \/ Load \/ LoadFails
    \/ \E o \in Outputs : Infer(o)
    \/ InferRaises \/ InferInvalid \/ Correct \/ RepairInvalid
    \/ Release \/ ReleaseRaises

Decide ==
    \/ Evaluate
    \/ JudgeMissing \/ JudgeLoads \/ JudgeLoadFails
    \/ JudgeAnswers \/ JudgeInvalid \/ JudgeFails \/ JudgeSynchronizes
    \/ JudgeRelease \/ JudgeReleaseRaises
    \/ Adjudicate \/ AdjudicationIsRefused

End ==
    \/ Finalize \/ FinalizeRaises \/ Abort
    \/ BurnedSkip \/ BurnedLoad \/ BurnedUnload \/ BurnedUnloadRaises
    \/ Answer

Next == Skip \/ SkipUnconfigured \/ Begin \/ Execute \/ Decide \/ MergeReleased \/ Withhold \/ End

Spec == Init /\ [][Next]_vars

\* One thread runs the batch, and every call it makes returns or raises.
FairSpec == Spec /\ WF_vars(Next)

-----------------------------------------------------------------------------
(* Properties *)

PCs == {"preflight", "load", "infer", "repair", "release", "evaluate", "judge", "ask",
        "ask_again", "synchronize", "judge_release", "adjudicate", "merge", "abort",
        "burned", "burned_run", "answer", "done"}

Exec(e) ==
    /\ e.out \in Outputs \cup {Nothing}
    /\ e.error \in Errors
    /\ e.attempts \in Seq({"succeeded", "failed"})
    /\ e.repaired \in BOOLEAN

\* Every variable has its type; an execution that was released has an answer
\* or an error and not both (session_runner.py:472-483).
TypeOK ==
    /\ stage \in 1..Len(Order) + 1
    /\ pc \in PCs
    /\ Exec(current)
    /\ \A c \in 1..Len(execs) : Exec(execs[c]) /\ (execs[c].out = Nothing <=> execs[c].error # "none")
    /\ results \in [Roles -> Outputs \cup {Nothing}]
    /\ Len(records) = stage - 1
    /\ answer.kind \in {"none", "output", "refused", "raised"}
    /\ pc = "done" => answer.kind # "none"

\* Never are two checkpoints in VRAM, those of the judge and of the burned-area
\* model included, and none is left there when a batch ends, in whatever way
\* (model_registry.py:173-175 and 202-203).
OneCheckpoint ==
    /\ \A m, n \in loaded : m = n
    /\ pc \in {"preflight", "load", "evaluate", "abort", "done"} => loaded = {}

\* What the results of a batch hold for a stage is the answer of a candidate
\* that succeeded, that enough others agree with or that a confident judge
\* chose, and stays so for the rest of the batch; of any other stage they hold
\* nothing (session_runner.py:813-846).  A single success of a quorum that asks
\* for one only is used without agreement.
Agreed(k) ==
    LET g  == registry[Order[k]]
        ok == Successful(records[k].execs)
        c  == records[k].evaluation.selected
        answered == {d \in ok : d = c \/ Score[<<records[k].execs[c].out, records[k].execs[d].out>>]
                                            >= g.threshold}
    IN  /\ Cardinality(ok) >= g.minimumSuccessful
        /\ Cardinality(answered) >= g.minimumAgreeing \/ (g.strategy = "quorum" /\ Cardinality(ok) = 1)

OnlyConsensusIsUsed == \A k \in 1..Len(Order) :
    IF k <= Len(records) /\ records[k].status = "succeeded"
    THEN LET c == records[k].evaluation.selected
         IN  /\ c \in Successful(records[k].execs)
             /\ results[Order[k]] = records[k].execs[c].out
             /\ IF records[k].evaluation.decision = "adjudicated"
                THEN records[k].judge.verdict = c /\ records[k].judge.confident
                ELSE Agreed(k)
    ELSE results[Order[k]] = Nothing

\* What the runner records of a stage satisfies the validators of the answer,
\* which would otherwise turn a whole batch into an input error
\* (contracts.py:898-917, 1041-1058, 1153-1156).
ValidAttempts(status, attempts) ==
    /\ Len(attempts) <= 2
    /\ Len(attempts) = 2 => attempts[1] = "failed"
    /\ status = "skipped" => attempts = <<>>
    /\ status = "succeeded" => attempts # <<>> /\ attempts[Len(attempts)] = "succeeded"
    /\ status = "failed" /\ attempts # <<>> => attempts[Len(attempts)] = "failed"

RecordsAreValid == \A k \in 1..Len(records) :
    /\ ValidAttempts(records[k].status, records[k].attempts)
    /\ records[k].status = "succeeded" <=> records[k].evaluation.selected # 0
    /\ \A c \in 1..Len(records[k].execs) :
        records[k].execs[c].repaired => records[k].execs[c].out # Nothing

\* A batch is reported as succeeded exactly if every stage that applies to its
\* inputs has an answer in the results and no gate asks for a human or failed,
\* and burned area did not fail (session_runner.py:881-892, v2_runner.py:721-733).
StatusIsHonest == answer.kind = "output" =>
    (answer.status = "succeeded" <=>
        /\ burned # "failed"
        /\ \A k \in 1..Len(records) :
            \/ records[k].pre = "not_applicable"
            \/ /\ results[Order[k]] # Nothing
               /\ records[k].post \in {"pass", "abstain"})

\* An answer that invites a retry does so because of something that may go
\* otherwise the next time: a model that raised, with no other candidate that
\* succeeded, or a stage that took too long (stage_gates.py:176, 200).
RetryCanHelp == answer.kind = "output" /\ answer.retryable =>
    \E k \in 1..Len(records) :
        \/ /\ Successful(records[k].execs) = {}
           /\ \E c \in 1..Len(records[k].execs) :
                records[k].execs[c].error = "model_runtime_error"
        \/ records[k].status = "succeeded" /\ records[k].post = "failed_retryable"

\* A disagreement is never settled by a judge whose own run failed
\* (contracts.py:1143).
AdjudicatedByWorkingJudge == \A k \in 1..Len(records) :
    records[k].evaluation.decision = "adjudicated" => records[k].judge.error = "none"

\* How many steps the runner may still take.  A stage takes nine and four for each
\* candidate, which is loaded, asked at most twice and released; the end of a batch four.
Candidates(k) == registry[Order[k]].size
Ahead(k) == IF stage < k THEN 9 + 4 * Candidates(k) ELSE 0

InExecution ==
    IF pc = "load" THEN 0 ELSE IF pc = "infer" THEN 1 ELSE IF pc = "repair" THEN 2 ELSE 3

InDecision ==
    IF pc = "merge" THEN 1 ELSE IF pc = "adjudicate" THEN 2
    ELSE IF pc = "judge_release" THEN 3 ELSE IF pc = "synchronize" THEN 4
    ELSE IF pc = "ask_again" THEN 5 ELSE IF pc = "ask" THEN 6
    ELSE IF pc = "judge" THEN 7 ELSE 8

InStage ==
    IF pc = "preflight" THEN 9 + 4 * Candidates(stage)
    ELSE IF pc \in {"load", "infer", "repair", "release"}
         THEN 8 + 4 * (Candidates(stage) - Len(execs)) - InExecution
    ELSE InDecision

InEnd ==
    IF pc = "done" THEN 0 ELSE IF pc \in {"abort", "answer"} THEN 1
    ELSE IF pc = "burned_run" THEN 2 ELSE IF pc = "burned" THEN 3 ELSE 4

Ending == stage > Len(Order) \/ pc = "abort" \/ pc = "done"

StepsLeft ==
    IF Ending THEN InEnd ELSE 4 + Ahead(2) + Ahead(3) + Ahead(4) + InStage

\* No batch goes on for ever, or longer than its registry allows, whatever the models and
\* judges answer and whatever raises: each step brings it closer to its end
\* (session_runner.py:387-433, 540-575, 619, 709-729).
StepsRunOut == [](StepsLeft \in Nat) /\ [][StepsLeft' < StepsLeft]_vars

\* Every batch comes to an answer or to an error that handle_job reports.
BatchEnds == <>(pc = "done")
=============================================================================
