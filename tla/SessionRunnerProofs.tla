------------------------ MODULE SessionRunnerProofs -------------------------
(***************************************************************************)
(* SessionRunner for any inputs, any registry of valid groups, any answers *)
(* and any scores: its safety, and the bound on the steps of a batch       *)
(* (BoundedBatch).                                                         *)
(***************************************************************************)
EXTENDS SessionRunner, FiniteSetTheorems, TLAPS

-----------------------------------------------------------------------------
(* One checkpoint *)

\* Which checkpoint may be on the GPU at each point of a batch.
Checkpoint ==
    /\ pc \in {"preflight", "load", "evaluate", "judge", "adjudicate", "merge", "abort",
               "burned", "answer", "done"} => loaded = {}
    /\ pc \in {"infer", "repair"} => loaded = {Candidate}
    /\ pc = "release" => loaded \subseteq {Candidate}
    /\ pc \in {"ask", "ask_again", "synchronize"} => loaded = {Judge}
    /\ pc = "judge_release" => loaded \subseteq {Judge}
    /\ pc = "burned_run" => loaded = {Prithvi}
    /\ pc \in PCs

LEMMA CheckpointStep == Checkpoint /\ [Next]_vars => Checkpoint'
<1> SUFFICES ASSUME Checkpoint, [Next]_vars PROVE Checkpoint'
    OBVIOUS
<1> USE DEF Checkpoint, PCs, Candidate, Judge, Prithvi
<1>1. CASE Skip \/ SkipUnconfigured \/ Begin \/ MergeReleased \/ Withhold
    BY <1>1 DEF Skip, SkipUnconfigured, Begin, MergeReleased, Withhold, Advance
<1>2. CASE Execute
    <2>1. CASE Load \/ LoadFails \/ Correct
        BY <2>1 DEF Load, LoadFails, Correct, Goto
    <2>2. CASE (\E o \in Outputs : Infer(o)) \/ InferRaises \/ InferInvalid \/ RepairInvalid
        BY <2>2 DEF Infer, InferRaises, InferInvalid, RepairInvalid, Succeed, Fail, Goto
    <2>3. CASE Release \/ ReleaseRaises
        BY <2>3 DEF Release, ReleaseRaises, Goto, Raise
    <2> QED
        BY <1>2, <2>1, <2>2, <2>3 DEF Execute
<1>3. CASE Decide
    <2>1. CASE Evaluate \/ Adjudicate \/ AdjudicationIsRefused
        BY <2>1 DEF Evaluate, Adjudicate, AdjudicationIsRefused, Raise
    <2>2. CASE JudgeMissing \/ JudgeLoads \/ JudgeLoadFails \/ JudgeAnswers \/ JudgeInvalid
        BY <2>2 DEF JudgeMissing, JudgeLoads, JudgeLoadFails, JudgeAnswers, JudgeInvalid, Judging
    <2>3. CASE JudgeFails \/ JudgeSynchronizes
        BY <2>3 DEF JudgeFails, JudgeSynchronizes, Judging
    <2>4. CASE JudgeRelease \/ JudgeReleaseRaises
        BY <2>4 DEF JudgeRelease, JudgeReleaseRaises, Judging, Raise
    <2> QED
        BY <1>3, <2>1, <2>2, <2>3, <2>4 DEF Decide
<1>4. CASE End
    BY <1>4 DEF End, Finalize, FinalizeRaises, Abort, BurnedSkip, BurnedLoad, BurnedUnload,
                BurnedUnloadRaises, Answer, Raise, BurnedStep
<1>5. CASE UNCHANGED vars
    BY <1>5 DEF vars, request, deciding, recorded
<1> QED
    BY <1>1, <1>2, <1>3, <1>4, <1>5 DEF Next

\* At no time are two checkpoints in VRAM, and a batch that ends leaves none
\* there, whatever raises (session_runner.py:481-483 and 583-586).
THEOREM NeverTwoCheckpoints == Spec => []OneCheckpoint
<1>1. Init => Checkpoint
    BY DEF Init, Checkpoint, PCs
<1>2. Checkpoint => OneCheckpoint
    BY DEF Checkpoint, OneCheckpoint, PCs, Candidate, Judge, Prithvi
<1> QED
    BY <1>1, <1>2, CheckpointStep, PTL DEF Spec

-----------------------------------------------------------------------------
(* Type correctness *)

Tries == {"succeeded", "failed"}

Execs == [out : Outputs \cup {Nothing}, error : Errors, attempts : Seq(Tries), repaired : BOOLEAN]

Judges == [error : Errors, verdict : Nat, confident : BOOLEAN, repaired : BOOLEAN,
           reserved : BOOLEAN]

AllEvaluations == [decision : Refusals \cup Releases, selected : Nat, disputed : BOOLEAN]

Records == [pre : PreDecisions, post : PostDecisions \cup {"none"},
            status : Tries \cup {"skipped"},
            error : Errors \cup {"gate", "not_configured", "consensus"},
            attempts : Seq(Tries), evaluation : AllEvaluations,
            execs : Seq(Execs), judge : Judges]

Answered(e) == e.out = Nothing <=> e.error # "none"

Between  == {"preflight", "abort", "burned", "burned_run", "answer", "done"}
Deciding == {"evaluate", "judge", "ask", "ask_again", "synchronize", "judge_release",
             "adjudicate", "merge"}

Typed ==
    /\ registry \in Registries
    /\ stage \in 1..5
    /\ pc \in PCs
    /\ current \in Execs
    /\ execs \in Seq(Execs)
    /\ judge \in Judges
    /\ evaluation \in AllEvaluations
    /\ results \in [Roles -> Outputs \cup {Nothing}]
    /\ records \in Seq(Records)
    /\ answer \in [kind : {"none", "output", "refused", "raised"},
                   status : {"none", "succeeded", "partial_failure", "failed"},
                   retryable : BOOLEAN]

\* What else holds where: without it a stage could end that never began, or an
\* execution could be recorded that has neither an answer nor an error.
Placed ==
    /\ Len(records) = stage - 1
    /\ pc \notin Between => stage <= 4 /\ Group.size > 0
    /\ pc \in Deciding => Len(execs) >= 1
    /\ pc = "merge" => evaluation.selected \in 0..Len(execs)
    /\ pc \in {"preflight", "load", "infer", "repair"} =>
        current.out = Nothing /\ current.error = "none"
    /\ pc = "release" => Answered(current)
    /\ \A c \in 1..Len(execs) : Answered(execs[c])
    /\ pc = "abort" => answer.kind \in {"refused", "raised"}
    /\ pc = "done" => answer.kind # "none"

TypeInv == Typed /\ Placed

LEMMA OrderOfRoles ==
    /\ Len(Order) = 4
    /\ \A k \in 1..4 : Order[k] \in Roles
    /\ \A k, m \in 1..4 : Order[k] = Order[m] => k = m
BY DEF Order, Roles

\* What the gates decide before a stage and after it.
LEMMA GateTypes ==
    ASSUME NEW r, NEW before, NEW after, NEW status, NEW error, NEW late, NEW out
    PROVE  /\ Preflight(r, before) \in PreDecisions
           /\ Postflight(r, before, after, status, error, late, out) \in PostDecisions
BY DEF Preflight, Postflight, PreDecisions, PostDecisions, OnMissing

LEMMA StatusTypes ==
    ASSUME NEW rs
    PROVE  /\ Status(rs) \in {"succeeded", "partial_failure", "failed"}
           /\ Retryable(rs) \in BOOLEAN
BY DEF Status, Retryable

\* A stage ends with a record of the right type, and the next begins.
LEMMA AdvanceTypes ==
    ASSUME TypeInv, NEW pre \in PreDecisions, NEW post \in PostDecisions \cup {"none"},
           NEW status \in Tries \cup {"skipped"},
           NEW error \in Errors \cup {"gate", "not_configured", "consensus"},
           NEW attempts \in Seq(Tries), stage <= 4,
           Advance(Record(pre, post, status, error, attempts)),
           results' \in [Roles -> Outputs \cup {Nothing}]
    PROVE  TypeInv'
<1> DEFINE record == Record(pre, post, status, error, attempts)
<1>1. record \in Records
    BY DEF Record, Records, TypeInv, Typed
<1>2. /\ records' = Append(records, record) /\ stage' = stage + 1 /\ pc' = "preflight"
      /\ current' = NoExec /\ execs' = <<>> /\ judge' = NoJudge
      /\ evaluation' = NoEvaluation
      /\ UNCHANGED <<registry, answer>>
    BY DEF Advance, request
<1> HIDE DEF record
<1>3. records' \in Seq(Records) /\ Len(records') = Len(records) + 1
    BY <1>1, <1>2 DEF TypeInv, Typed
<1>4. NoExec \in Execs /\ NoJudge \in Judges /\ NoEvaluation \in AllEvaluations
    BY DEF NoExec, NoJudge, NoEvaluation, Execs, Judges, AllEvaluations, Errors, Refusals
<1>5. Typed'
    BY <1>2, <1>3, <1>4 DEF TypeInv, Typed, PCs
<1>6. Placed'
    BY <1>2, <1>3 DEF TypeInv, Typed, Placed, NoExec, Between, Deciding
<1> QED
    BY <1>5, <1>6 DEF TypeInv

LEMMA TypeInit == Init => TypeInv
<1> SUFFICES ASSUME Init PROVE TypeInv
    OBVIOUS
<1>1. NoExec \in Execs /\ NoJudge \in Judges /\ NoEvaluation \in AllEvaluations
    BY DEF NoExec, NoJudge, NoEvaluation, Execs, Judges, AllEvaluations, Errors, Refusals
<1>2. Typed
    BY <1>1 DEF Init, Typed, PCs, NoAnswer
<1>3. Placed
    BY DEF Init, Placed, NoExec, Between, Deciding
<1> QED
    BY <1>2, <1>3 DEF TypeInv

LEMMA StageTypes ==
    TypeInv /\ (Skip \/ SkipUnconfigured \/ Begin \/ MergeReleased \/ Withhold) => TypeInv'
<1> SUFFICES ASSUME TypeInv,
                    Skip \/ SkipUnconfigured \/ Begin \/ MergeReleased \/ Withhold
             PROVE  TypeInv'
    OBVIOUS
<1> USE DEF Tries
<1>1. Len(Order) = 4
    BY OrderOfRoles
<1>2. CASE Skip
    <2> DEFINE pre == Preflight(Role, Held)
               error == IF pre = "not_applicable" THEN "none" ELSE "gate"
    <2>1. Advance(Record(pre, "none", "skipped", error, <<>>)) /\ UNCHANGED results
        BY <1>2 DEF Skip
    <2>2. pre \in PreDecisions
        BY GateTypes
    <2>3. error \in Errors \cup {"gate", "not_configured", "consensus"} /\ <<>> \in Seq(Tries)
        BY DEF Errors
    <2>4. stage <= 4
        BY <1>1, <1>2 DEF Skip
    <2> HIDE DEF pre, error
    <2> QED
        BY <2>1, <2>2, <2>3, <2>4, AdvanceTypes DEF TypeInv, Typed
<1>3. CASE SkipUnconfigured
    <2> DEFINE post == Postflight(Role, Held, Held, "skipped", "not_configured", FALSE, Nothing)
    <2>1. /\ Advance(Record("pass", post, "skipped", "not_configured", <<>>))
          /\ UNCHANGED results /\ stage <= 4
        BY <1>1, <1>3 DEF SkipUnconfigured
    <2>2. post \in PostDecisions
        BY GateTypes
    <2>3. "pass" \in PreDecisions /\ <<>> \in Seq(Tries)
        BY DEF PreDecisions
    <2> HIDE DEF post
    <2> QED
        BY <2>1, <2>2, <2>3, AdvanceTypes DEF TypeInv, Typed
<1>4. CASE Begin
    <2>1. Typed'
        BY <1>4 DEF Begin, TypeInv, Typed, request, deciding, recorded, PCs
    <2>2. Placed'
        BY <1>1, <1>4 DEF Begin, TypeInv, Placed, request, deciding, recorded, Between, Deciding,
                          Group, Role
    <2> QED
        BY <2>1, <2>2 DEF TypeInv
<1>5. CASE MergeReleased
    <2>1. stage <= 4
        BY <1>5 DEF MergeReleased, TypeInv, Placed, Between
    <2> DEFINE run   == execs[evaluation.selected]
               after == [results EXCEPT ![Role] = run.out]
               post(late) == Postflight(Role, Held, Capabilities(batch, after), "succeeded",
                                        "none", late, run.out)
    <2>2. PICK late \in BOOLEAN :
            /\ results' = after
            /\ Advance(Record("pass", post(late), "succeeded", "none", run.attempts))
        BY <1>5 DEF MergeReleased
    <2>3. run \in Execs
        <3>1. evaluation.selected \in 1..Len(execs)
            BY <1>5 DEF MergeReleased, TypeInv, Typed, Placed
        <3> QED
            BY <3>1 DEF TypeInv, Typed
    <2>4. run.attempts \in Seq(Tries) /\ after \in [Roles -> Outputs \cup {Nothing}]
        BY <2>3 DEF TypeInv, Typed, Execs
    <2>5. post(late) \in PostDecisions
        BY GateTypes
    <2> HIDE DEF run, after, post
    <2> QED
        BY <2>1, <2>2, <2>4, <2>5, AdvanceTypes DEF TypeInv, Typed, PreDecisions, Errors
<1>6. CASE Withhold
    <2>1. stage <= 4 /\ 1 \in 1..Len(execs)
        BY <1>6 DEF Withhold, TypeInv, Typed, Placed, Between, Deciding
    <2>2. execs[1].error \in Errors /\ execs[1].attempts \in Seq(Tries)
        <3>1. execs[1] \in Execs
            BY <2>1 DEF TypeInv, Typed
        <3> QED
            BY <3>1 DEF Execs
    <2> DEFINE error == IF Successful(execs) # {} THEN "consensus" ELSE execs[1].error
               attempts == IF Successful(execs) # {} THEN <<>> ELSE execs[1].attempts
               post == Postflight(Role, Held, Held, "failed", error, FALSE, Nothing)
    <2>3. Advance(Record("pass", post, "failed", error, attempts)) /\ UNCHANGED results
        BY <1>6 DEF Withhold
    <2>4. error \in Errors \cup {"gate", "not_configured", "consensus"}
        BY <2>2
    <2>5. attempts \in Seq(Tries)
        BY <2>2
    <2>6. post \in PostDecisions
        BY GateTypes
    <2> HIDE DEF error, attempts, post
    <2> QED
        BY <2>1, <2>3, <2>4, <2>5, <2>6, AdvanceTypes DEF TypeInv, Typed, PreDecisions
<1> QED
    BY <1>2, <1>3, <1>4, <1>5, <1>6

\* The registries hold valid groups, also for this stage.
LEMMA GroupIsValid == TypeInv /\ stage \in 1..4 => ValidGroup(Group) /\ Role \in Roles
BY OrderOfRoles, RegistriesAssumption DEF TypeInv, Typed, Group, Role

\* An error that leaves the runner is reported.
LEMMA RaiseTypes ==
    ASSUME TypeInv, NEW kind \in {"refused", "raised"}, Raise(kind)
    PROVE  TypeInv'
<1>1. Typed'
    BY DEF Raise, TypeInv, Typed, PCs, request, deciding
<1>2. Placed'
    BY DEF Raise, TypeInv, Typed, Placed, Between, Deciding, request, deciding
<1> QED
    BY <1>1, <1>2 DEF TypeInv

\* A step of an execution: what it makes of the current one.
LEMMA ExecuteTypes == TypeInv /\ Execute => TypeInv'
<1> SUFFICES ASSUME TypeInv, Execute PROVE TypeInv'
    OBVIOUS
<1> USE DEF Tries
<1>1. Attempt("succeeded") \in Seq(Tries) /\ Attempt("failed") \in Seq(Tries)
    BY DEF Attempt, TypeInv, Typed, Execs
<1>2. Nothing \notin Outputs
    BY OutputsAssumption
<1>3. ASSUME NEW p \in {"infer", "repair", "release"}, pc \notin Between, Goto(p),
             current' \in Execs, UNCHANGED execs,
             p # "release" => current'.out = Nothing /\ current'.error = "none",
             p = "release" => Answered(current')
      PROVE  TypeInv'
    <2>1. Typed'
        BY <1>3 DEF Goto, TypeInv, Typed, request, deciding, recorded, PCs
    <2>2. Placed'
        BY <1>3 DEF Goto, TypeInv, Placed, request, deciding, recorded, Between, Deciding,
                          Group, Role, Answered
    <2> QED
        BY <2>1, <2>2 DEF TypeInv
<1>4. CASE Load
    BY <1>3, <1>4 DEF Load, TypeInv, Typed, Placed, Between, Deciding, PCs
<1>5. CASE LoadFails
    BY <1>3, <1>5 DEF LoadFails, TypeInv, Typed, Placed, Between, Deciding, PCs, Execs, Errors,
                      Answered
<1>6. ASSUME NEW o \in Outputs, Infer(o) PROVE TypeInv'
    BY <1>1, <1>2, <1>3, <1>6
       DEF Infer, Succeed, TypeInv, Typed, Placed, Between, Deciding, PCs, Execs, Answered
<1>7. ASSUME NEW error \in Errors \ {"none"}, pc \in {"infer", "repair"}, Fail(error)
      PROVE  TypeInv'
    BY <1>1, <1>3, <1>7
       DEF Fail, TypeInv, Typed, Placed, Between, Deciding, PCs, Execs, Answered
<1>8. CASE InferRaises \/ InferInvalid \/ RepairInvalid
    BY <1>7, <1>8 DEF InferRaises, InferInvalid, RepairInvalid, Errors
<1>9. CASE Correct
    BY <1>1, <1>3, <1>9
       DEF Correct, TypeInv, Typed, Placed, Between, Deciding, PCs, Execs, Answered
<1>10. CASE Release
    <2> DEFINE p == IF StopsEarly(execs') \/ Len(execs') = Group.size THEN "evaluate" ELSE "load"
    <2>1. /\ pc = "release" /\ execs' = Append(execs, current) /\ current' = NoExec
          /\ pc' = p /\ UNCHANGED <<request, stage, deciding, recorded>>
        BY <1>10 DEF Release, Goto
    <2>2. p \in {"evaluate", "load"}
        OBVIOUS
    <2> HIDE DEF p
    <2>3. NoExec \in Execs /\ NoExec.out = Nothing /\ NoExec.error = "none"
        BY DEF NoExec, Execs, Errors
    <2>4. /\ execs' \in Seq(Execs) /\ Len(execs') = Len(execs) + 1
          /\ \A c \in 1..Len(execs') : execs'[c] = IF c <= Len(execs) THEN execs[c] ELSE current
        BY <2>1 DEF TypeInv, Typed
    <2>5. \A c \in 1..Len(execs') : Answered(execs'[c])
        BY <2>1, <2>4 DEF TypeInv, Typed, Placed
    <2>6. Typed'
        BY <2>1, <2>2, <2>3, <2>4 DEF TypeInv, Typed, request, deciding, recorded, PCs
    <2>7. Placed'
        <3>1. Len(execs') >= 1 /\ stage' <= 4 /\ Group'.size > 0 /\ Len(records') = stage' - 1
            BY <2>1, <2>4 DEF TypeInv, Typed, Placed, request, recorded, Between, Group, Role
        <3>2. pc' \in {"evaluate", "load"}
            BY <2>1, <2>2
        <3>3. current'.out = Nothing /\ current'.error = "none"
            BY <2>1, <2>3
        <3> QED
            BY <2>5, <3>1, <3>2, <3>3 DEF Placed, Between, Deciding
    <2> QED
        BY <2>6, <2>7 DEF TypeInv
<1>11. CASE ReleaseRaises
    BY <1>11, RaiseTypes DEF ReleaseRaises
<1> QED
    BY <1>4, <1>5, <1>6, <1>8, <1>9, <1>10, <1>11 DEF Execute

\* The decision of a stage and the judge move only what they decide.
LEMMA DecideTypes == TypeInv /\ Decide => TypeInv'
<1> SUFFICES ASSUME TypeInv, Decide PROVE TypeInv'
    OBVIOUS
<1>1. ASSUME NEW p \in Deciding, pc \in Deciding, pc' = p,
             UNCHANGED <<request, stage, current, execs, recorded>>,
             judge' \in Judges, evaluation' \in AllEvaluations,
             p = "merge" => evaluation'.selected \in 0..Len(execs)
      PROVE  TypeInv'
    <2>1. Typed'
        BY <1>1 DEF TypeInv, Typed, request, recorded, Deciding, PCs
    <2>2. Placed'
        BY <1>1 DEF TypeInv, Placed, request, recorded, Between, Deciding, Group, Role
    <2> QED
        BY <2>1, <2>2 DEF TypeInv
<1>2. CASE Evaluate
    <2>1. PICK e \in Evaluations(Len(execs)) :
            /\ evaluation' = e
            /\ pc' = IF e.disputed THEN "judge" ELSE "merge"
        BY <1>2 DEF Evaluate
    <2>2. e \in AllEvaluations /\ e.selected \in 0..Len(execs)
        BY DEF Evaluations, AllEvaluations, TypeInv, Typed
    <2> QED
        BY <1>1, <1>2, <2>1, <2>2 DEF Evaluate, Deciding, TypeInv, Typed
<1>3. ASSUME NEW j \in Judges, NEW p \in Deciding \ {"merge"}, pc \in Deciding, Judging(j, p)
      PROVE  TypeInv'
    BY <1>1, <1>3 DEF Judging, TypeInv, Typed
<1>4. ASSUME NEW error \in Errors PROVE JudgeError(error) \in Judges
    BY DEF JudgeError, Judges, TypeInv, Typed
<1>5. CASE JudgeMissing \/ JudgeLoads \/ JudgeLoadFails \/ JudgeInvalid
    BY <1>3, <1>4, <1>5 DEF JudgeMissing, JudgeLoads, JudgeLoadFails, JudgeInvalid,
                            Deciding, Errors, TypeInv, Typed
<1>6. CASE JudgeFails \/ JudgeSynchronizes
    BY <1>3, <1>4, <1>6 DEF JudgeFails, JudgeSynchronizes, Deciding, Errors
<1>7. CASE JudgeAnswers
    <2>1. PICK c \in Successful(execs) \cup {0}, sure, reserved \in BOOLEAN :
            Judging([judge EXCEPT !.verdict = c, !.confident = sure, !.reserved = reserved,
                                  !.repaired = pc = "ask_again"], "synchronize")
        BY <1>7 DEF JudgeAnswers
    <2>2. c \in Nat
        BY DEF Successful
    <2> QED
        BY <1>3, <1>7, <2>1, <2>2 DEF JudgeAnswers, Deciding, TypeInv, Typed, Judges
<1>8. CASE JudgeRelease \/ JudgeReleaseRaises \/ AdjudicationIsRefused
    BY <1>3, <1>8, RaiseTypes DEF JudgeRelease, JudgeReleaseRaises, AdjudicationIsRefused, Deciding, TypeInv, Typed
<1>9. CASE Adjudicate
    <2> DEFINE e == Adjudicated(Group, Successful(execs), judge.verdict, judge.confident)
    <2>1. Group.onDisagreement \in Refusals
        <3>1. Group.size > 0 /\ stage \in 1..4
            BY <1>9 DEF Adjudicate, TypeInv, Typed, Placed, Between
        <3> QED
            BY <3>1, GroupIsValid DEF ValidGroup, Groups
    <2>2. e \in AllEvaluations /\ e.selected \in 0..Len(execs)
        BY <2>1 DEF Adjudicated, Withheld, Successful, AllEvaluations, Releases, Judges, TypeInv, Typed
    <2> QED
        BY <1>1, <1>9, <2>2 DEF Adjudicate, Deciding, TypeInv, Typed
<1> QED
    BY <1>2, <1>5, <1>6, <1>7, <1>8, <1>9 DEF Decide

LEMMA EndTypes == TypeInv /\ End => TypeInv'
<1> SUFFICES ASSUME TypeInv, End PROVE TypeInv'
    OBVIOUS
<1>1. CASE FinalizeRaises \/ BurnedUnloadRaises
    BY <1>1, RaiseTypes DEF FinalizeRaises, BurnedUnloadRaises
<1>2. ASSUME NEW p \in {"burned", "burned_run", "answer"}, pc' = p,
             UNCHANGED <<request, stage, current, execs, deciding, results, records, answer>>
      PROVE  TypeInv'
    <2>1. Typed'
        BY <1>2 DEF TypeInv, Typed, PCs, request, deciding
    <2>2. Placed'
        BY <1>2 DEF TypeInv, Placed, Between, Deciding, request, deciding
    <2> QED
        BY <2>1, <2>2 DEF TypeInv
<1>3. CASE Finalize \/ BurnedSkip \/ BurnedLoad \/ BurnedUnload
    BY <1>2, <1>3 DEF Finalize, BurnedSkip, BurnedLoad, BurnedUnload, BurnedStep, recorded
<1>4. ASSUME pc' = "done", answer' \in [kind : {"output", "refused", "raised"},
                   status : {"none", "succeeded", "partial_failure", "failed"},
                   retryable : BOOLEAN],
             UNCHANGED <<request, stage, current, execs, deciding, results, records>>
      PROVE  TypeInv'
    <2>1. Typed'
        BY <1>4 DEF TypeInv, Typed, PCs, request, deciding
    <2>2. Placed'
        BY <1>4 DEF TypeInv, Placed, Between, Deciding, request, deciding
    <2> QED
        BY <2>1, <2>2 DEF TypeInv
<1>5. CASE Abort
    BY <1>4, <1>5 DEF Abort, TypeInv, Typed, Placed
<1>6. CASE Answer
    BY <1>4, <1>6, StatusTypes DEF Answer, TypeInv, Typed
<1> QED
    BY <1>1, <1>3, <1>5, <1>6 DEF End

LEMMA TypeStep == TypeInv /\ [Next]_vars => TypeInv'
<1> SUFFICES ASSUME TypeInv, [Next]_vars PROVE TypeInv'
    OBVIOUS
<1>1. CASE UNCHANGED vars
    <2>1. Typed'
        BY <1>1 DEF TypeInv, Typed, vars, request, deciding, recorded
    <2>2. Placed'
        BY <1>1 DEF TypeInv, Placed, vars, request, deciding, recorded, Group, Role
    <2> QED
        BY <2>1, <2>2 DEF TypeInv
<1> QED
    BY <1>1, StageTypes, ExecuteTypes, DecideTypes, EndTypes DEF Next

LEMMA TypeInvariant == Spec => []TypeInv
BY TypeInit, TypeStep, PTL DEF Spec

LEMMA TypeImplied == TypeInv => TypeOK
<1> SUFFICES ASSUME TypeInv PROVE TypeOK
    OBVIOUS
<1>1. ASSUME NEW e \in Execs PROVE Exec(e)
    BY <1>1 DEF Execs, Exec, Tries
<1>2. \A c \in 1..Len(execs) : execs[c] \in Execs
    BY DEF TypeInv, Typed
<1>3. stage \in 1..Len(Order) + 1
    BY OrderOfRoles DEF TypeInv, Typed
<1> QED
    BY <1>1, <1>2, <1>3 DEF TypeInv, Typed, Placed, TypeOK, Answered

\* The runner is type correct, and what it records of an execution has an
\* answer or an error and not both (session_runner.py:472-483).
THEOREM TypeCorrect == Spec => []TypeOK
BY TypeInvariant, TypeImplied, PTL

-----------------------------------------------------------------------------
(* Only what the consensus released is used *)

AgreeWith(g, es, c) ==
    {d \in Successful(es) : d = c \/ Score[<<es[c].out, es[d].out>>] >= g.threshold}

\* The decision e of group g, with judge j, is one OnlyConsensusIsUsed allows.
Justified(g, es, e, j) ==
    /\ e.selected \in Successful(es)
    /\ IF e.decision = "adjudicated" THEN j.verdict = e.selected /\ j.confident
       ELSE /\ Cardinality(Successful(es)) >= g.minimumSuccessful
            /\ \/ Cardinality(AgreeWith(g, es, e.selected)) >= g.minimumAgreeing
               \/ g.strategy = "quorum" /\ Cardinality(Successful(es)) = 1

LEMMA SuccessfulIsFinite ==
    ASSUME NEW es \in Seq(Execs), NEW S \in SUBSET Successful(es)
    PROVE  IsFiniteSet(S) /\ Cardinality(S) \in Nat
<1>1. Len(es) \in Nat /\ S \subseteq 1..Len(es)
    BY DEF Successful
<1>2. IsFiniteSet(1..Len(es))
    BY <1>1, FS_Interval
<1> QED
    BY <1>1, <1>2, FS_Subset, FS_CardinalityType

\* Whoever agrees among some of the candidates agrees among all.
LEMMA AgreeingAmong ==
    ASSUME NEW g, NEW es \in Seq(Execs), NEW among \in SUBSET Successful(es), NEW c \in among
    PROVE  /\ Cardinality(Agreeing(g, Out(es), among, c)) <= Cardinality(AgreeWith(g, es, c))
           /\ Cardinality(Agreeing(g, Out(es), among, c)) \in Nat
           /\ Cardinality(AgreeWith(g, es, c)) \in Nat
<1>1. \A d \in among : d \in 1..Len(es) /\ Out(es)[d] = es[d].out
    BY DEF Successful, Out
<1>2. Agreeing(g, Out(es), among, c) \subseteq AgreeWith(g, es, c)
    BY <1>1 DEF Agreeing, AgreeWith
<1>3. AgreeWith(g, es, c) \subseteq Successful(es)
    BY DEF AgreeWith
<1>4. IsFiniteSet(AgreeWith(g, es, c))
    BY <1>3, SuccessfulIsFinite
<1> QED
    BY <1>2, <1>3, <1>4, SuccessfulIsFinite, FS_Subset

\* A decision without a judge is justified or selects nobody.
LEMMA EvaluatesJustified ==
    ASSUME NEW g, ValidGroup(g), g.size > 0, NEW es \in Seq(Execs),
           NEW weak \in SUBSET Successful(es), NEW repaired, NEW e, NEW j,
           Evaluates(g, Out(es), Successful(es), weak, repaired, e), e.selected # 0
    PROVE  Justified(g, es, e, j)
<1> DEFINE ok == Successful(es)
<1>1. Cardinality(ok) \in Nat /\ ok \subseteq ok
    BY SuccessfulIsFinite
<1>2. g.minimumSuccessful \in Nat /\ g.minimumAgreeing \in Nat /\ g.size \in Nat
      /\ g.strategy \in Strategies /\ g.onDisagreement \in Refusals
    BY DEF ValidGroup, Groups
<1>3. ASSUME NEW among \in SUBSET ok, NEW c \in among, e = Settle(g, Out(es), among, c, repaired),
             ~ Insufficient(g, ok)
      PROVE  Justified(g, es, e, j)
    <2>1. /\ ~ Cardinality(Agreeing(g, Out(es), among, c)) < g.minimumAgreeing
          /\ e = Released(c, c \in repaired)
        BY <1>3 DEF Settle, Disputed
    <2>2. Cardinality(AgreeWith(g, es, c)) >= g.minimumAgreeing
        BY <1>2, <1>3, <2>1, AgreeingAmong
    <2>3. e.selected = c /\ e.decision # "adjudicated"
        BY <2>1 DEF Released
    <2> QED
        BY <1>1, <1>2, <1>3, <2>2, <2>3 DEF Justified, Insufficient
<1>4. CASE Insufficient(g, ok) /\ e = Withheld(g)
    BY <1>4 DEF Withheld
<1>5. CASE EvaluatesCascade(g, Out(es), ok, weak, repaired, e)
    BY <1>3, <1>5 DEF EvaluatesCascade, Withheld
<1>6. CASE EvaluatesSingle(g, ok, repaired, e)
    <2>1. PICK c \in ok : e = Released(c, c \in repaired)
        BY <1>6 DEF EvaluatesSingle
    <2>2. e.selected = c /\ e.decision # "adjudicated"
        BY <2>1 DEF Released
    <2>3. CASE g.strategy = "single_with_rules"
        <3>1. g.minimumAgreeing = 1
            BY <1>2, <2>3 DEF ValidGroup
        <3>2. {c} \subseteq AgreeWith(g, es, c) /\ AgreeWith(g, es, c) \subseteq ok
            BY DEF AgreeWith
        <3>3. Cardinality({c}) <= Cardinality(AgreeWith(g, es, c)) /\ Cardinality({c}) = 1
              /\ Cardinality(AgreeWith(g, es, c)) \in Nat
            BY <3>2, SuccessfulIsFinite, FS_Subset, FS_Singleton
        <3> QED
            BY <1>1, <1>2, <1>6, <2>2, <3>1, <3>3 DEF Justified, EvaluatesSingle, Insufficient
    <2>4. CASE g.strategy = "quorum" /\ Cardinality(ok) = 1
        BY <1>1, <1>2, <1>6, <2>2, <2>4 DEF Justified, EvaluatesSingle, Insufficient
    <2> QED
        BY <1>2, <1>6, <2>3, <2>4 DEF EvaluatesSingle, Strategies
<1>7. CASE EvaluatesQuorum(g, Out(es), ok, repaired, e)
    BY <1>1, <1>3, <1>7 DEF EvaluatesQuorum
<1> QED
    BY <1>4, <1>5, <1>6, <1>7 DEF Evaluates

Used(k) ==
    IF k <= Len(records) /\ records[k].status = "succeeded"
    THEN /\ Justified(registry[Order[k]], records[k].execs, records[k].evaluation, records[k].judge)
         /\ results[Order[k]] = records[k].execs[records[k].evaluation.selected].out
    ELSE results[Order[k]] = Nothing

\* Inductive with TypeInv: a decision is justified before its answer is merged.
ConsensusInv ==
    /\ pc = "merge" /\ evaluation.selected # 0 => Justified(Group, execs, evaluation, judge)
    /\ \A k \in 1..4 : Used(k)

LEMMA ConsensusKept ==
    ConsensusInv /\ pc' # "merge" /\ UNCHANGED <<registry, results, records>> => ConsensusInv'
BY DEF ConsensusInv, Used

\* A stage that ends: the stages before keep what they have, those after have nothing.
LEMMA ConsensusAdvances ==
    ASSUME TypeInv, ConsensusInv, stage \in 1..4, NEW record, Advance(record),
           NEW o,
           IF record.status = "succeeded"
           THEN /\ results' = [results EXCEPT ![Role] = o]
                /\ Justified(Group, record.execs, record.evaluation, record.judge)
                /\ o = record.execs[record.evaluation.selected].out
           ELSE results' = results
    PROVE  ConsensusInv'
<1>1. /\ Len(records') = Len(records) + 1
      /\ \A k \in 1..Len(records) : records'[k] = records[k]
      /\ records'[stage] = record
      /\ Len(records) = stage - 1
    BY DEF Advance, TypeInv, Typed, Placed
<1>2. pc' # "merge" /\ UNCHANGED registry
    BY DEF Advance, request
<1>3. ASSUME NEW k \in 1..4, k # stage PROVE Used(k)'
    <2>1. Order[k] \in Roles /\ Order[k] # Role
        BY <1>3, OrderOfRoles DEF Role
    <2>2. results'[Order[k]] = results[Order[k]]
        BY <2>1 DEF TypeInv, Typed
    <2>3. Used(k)
        BY DEF ConsensusInv
    <2>4. CASE k <= Len(records)
        <3>1. records'[k] = records[k] /\ k <= Len(records')
            BY <1>1, <2>4
        <3> QED
            BY <1>2, <2>2, <2>3, <2>4, <3>1 DEF Used
    <2>5. CASE ~ k <= Len(records)
        <3>1. ~ k <= Len(records')
            BY <1>1, <1>3, <2>5
        <3> QED
            BY <2>2, <2>3, <2>5, <3>1 DEF Used
    <2> QED
        BY <2>4, <2>5
<1>4. ASSUME NEW k \in 1..4, k = stage PROVE Used(k)'
    <2>1. Role = Order[k] /\ Role \in Roles /\ Group = registry[Role]
        BY <1>4, OrderOfRoles DEF Role, Group
    <2>2. k <= Len(records') /\ ~ k <= Len(records) /\ records'[k] = record
        BY <1>1, <1>4
    <2>3. CASE record.status = "succeeded"
        <3>1. results'[Order[k]] = o
            BY <2>1, <2>3 DEF TypeInv, Typed
        <3>2. Justified(registry'[Order[k]], record.execs, record.evaluation, record.judge)
            BY <1>2, <2>1, <2>3
        <3> QED
            BY <2>2, <2>3, <3>1, <3>2 DEF Used
    <2>4. CASE record.status # "succeeded"
        <3>1. results'[Order[k]] = Nothing
            BY <2>2, <2>4 DEF ConsensusInv, Used
        <3> QED
            BY <2>2, <2>4, <3>1 DEF Used
    <2> QED
        BY <2>3, <2>4
<1> QED
    BY <1>2, <1>3, <1>4 DEF ConsensusInv

LEMMA ConsensusStep == TypeInv /\ ConsensusInv /\ [Next]_vars => ConsensusInv'
<1> SUFFICES ASSUME TypeInv, ConsensusInv, [Next]_vars PROVE ConsensusInv'
    OBVIOUS
<1>1. Len(Order) = 4
    BY OrderOfRoles
<1>2. ASSUME NEW pre, NEW post, NEW error, NEW attempts, NEW status, status # "succeeded",
             stage <= 4, Advance(Record(pre, post, status, error, attempts)), UNCHANGED results
      PROVE  ConsensusInv'
    <2>1. Record(pre, post, status, error, attempts).status # "succeeded"
        BY <1>2 DEF Record
    <2>2. stage \in 1..4
        BY <1>2 DEF TypeInv, Typed
    <2> QED
        BY <1>2, <2>1, <2>2, ConsensusAdvances
<1>3. CASE Skip \/ SkipUnconfigured
    BY <1>1, <1>2, <1>3 DEF Skip, SkipUnconfigured
<1>4. CASE Withhold
    BY <1>2, <1>4 DEF Withhold, TypeInv, Placed, Between
<1>5. CASE MergeReleased
    <2> DEFINE run == execs[evaluation.selected]
               after == [results EXCEPT ![Role] = run.out]
               post(late) == Postflight(Role, Held, Capabilities(batch, after), "succeeded",
                                        "none", late, run.out)
               record(late) == Record("pass", post(late), "succeeded", "none", run.attempts)
    <2>1. PICK late \in BOOLEAN : results' = after /\ Advance(record(late))
        BY <1>5 DEF MergeReleased
    <2>2. record(late).status = "succeeded" /\ record(late).execs = execs
          /\ record(late).evaluation = evaluation /\ record(late).judge = judge
        BY DEF Record
    <2>3. stage \in 1..4
        BY <1>5 DEF MergeReleased, TypeInv, Typed, Placed, Between
    <2>4. Justified(Group, execs, evaluation, judge)
        BY <1>5 DEF MergeReleased, ConsensusInv
    <2> HIDE DEF record
    <2> QED
        BY <2>1, <2>2, <2>3, <2>4, ConsensusAdvances
<1>6. CASE Evaluate
    <2>1. PICK e \in Evaluations(Len(execs)) :
            /\ Evaluates(Group, Out(execs), Successful(execs),
                         {c \in Successful(execs) : Weak(execs[c].out)},
                         {c \in Successful(execs) : execs[c].repaired}, e)
            /\ evaluation' = e
        BY <1>6 DEF Evaluate
    <2>2. stage \in 1..4 /\ Group.size > 0 /\ ValidGroup(Group) /\ execs \in Seq(Execs)
        BY <1>6, GroupIsValid DEF Evaluate, TypeInv, Typed, Placed, Between
    <2>3. e.selected # 0 => Justified(Group, execs, e, judge)
        BY <2>1, <2>2, EvaluatesJustified
    <2> QED
        BY <1>6, <2>1, <2>3 DEF Evaluate, ConsensusInv, Used, request, recorded, Group, Role
<1>7. CASE Adjudicate
    <2>1. evaluation'.selected # 0 => Justified(Group, execs, evaluation', judge)
        BY <1>7 DEF Adjudicate, Adjudicated, Withheld, Justified
    <2> QED
        BY <1>7, <2>1 DEF Adjudicate, ConsensusInv, Used, request, recorded, Group, Role
<1>8. CASE Begin \/ Execute
    BY <1>8, ConsensusKept
       DEF Begin, Execute, Load, LoadFails, Correct, Infer, InferRaises, InferInvalid,
           RepairInvalid, Succeed, Fail, Release, ReleaseRaises, Goto, Raise, request, recorded
<1>9. CASE Decide
    <2>1. CASE JudgeMissing \/ JudgeLoads \/ JudgeLoadFails \/ JudgeAnswers \/ JudgeInvalid
        BY <2>1, ConsensusKept
           DEF JudgeMissing, JudgeLoads, JudgeLoadFails, JudgeAnswers, JudgeInvalid, Judging,
               request, recorded
    <2>2. CASE \/ JudgeFails \/ JudgeSynchronizes \/ JudgeRelease \/ JudgeReleaseRaises
               \/ AdjudicationIsRefused
        BY <2>2, ConsensusKept
           DEF JudgeFails, JudgeSynchronizes, JudgeRelease, JudgeReleaseRaises,
               AdjudicationIsRefused, Judging, Raise,
               request, recorded
    <2> QED
        BY <1>6, <1>7, <1>9, <2>1, <2>2 DEF Decide
<1>10. CASE End
    BY <1>10, ConsensusKept
       DEF End, Finalize, FinalizeRaises, Abort, BurnedSkip, BurnedLoad, BurnedUnload,
           BurnedUnloadRaises, Answer, Raise, BurnedStep, request, recorded
<1>11. CASE UNCHANGED vars
    BY <1>11 DEF vars, request, deciding, recorded, ConsensusInv, Used, Group, Role
<1> QED
    BY <1>3, <1>4, <1>5, <1>8, <1>9, <1>10, <1>11 DEF Next

LEMMA ConsensusImplied == TypeInv /\ ConsensusInv => OnlyConsensusIsUsed
<1> SUFFICES ASSUME TypeInv, ConsensusInv, NEW k \in 1..Len(Order)
             PROVE  IF k <= Len(records) /\ records[k].status = "succeeded"
                    THEN LET c == records[k].evaluation.selected
                         IN  /\ c \in Successful(records[k].execs)
                             /\ results[Order[k]] = records[k].execs[c].out
                             /\ IF records[k].evaluation.decision = "adjudicated"
                                THEN records[k].judge.verdict = c /\ records[k].judge.confident
                                ELSE Agreed(k)
                    ELSE results[Order[k]] = Nothing
    BY DEF OnlyConsensusIsUsed
<1>1. Used(k)
    BY OrderOfRoles DEF ConsensusInv
<1> QED
    BY <1>1 DEF Used, Justified, AgreeWith, Agreed

\* Whatever the models answer and wherever they raise, what later stages and
\* the answer see of a stage is the answer of a successful candidate that enough
\* others agree with or a confident judge chose (session_runner.py:813-846).
THEOREM ConsensusOnly == Spec => []OnlyConsensusIsUsed
<1>1. Init => ConsensusInv
    BY OrderOfRoles DEF Init, ConsensusInv, Used
<1> QED
    BY <1>1, TypeInvariant, ConsensusStep, ConsensusImplied, PTL DEF Spec

-----------------------------------------------------------------------------
(* What is recorded of a stage, and what the answer says of it *)

\* An execution that is over: one answer at the end of at most two attempts, or none.
ExecOK(e) ==
    /\ Len(e.attempts) <= 2
    /\ Len(e.attempts) = 2 => e.attempts[1] = "failed"
    /\ e.out # Nothing => e.attempts # <<>> /\ e.attempts[Len(e.attempts)] = "succeeded"
    /\ e.out = Nothing /\ e.attempts # <<>> => e.attempts[Len(e.attempts)] = "failed"
    /\ e.repaired => e.out # Nothing

\* The ways a stage can end: skipped because it does not apply, because something lacks,
\* or without models; merged; withheld.
Skipped(rec) ==
    /\ rec.status = "skipped"
    /\ rec.attempts = <<>>
    /\ rec.evaluation.selected = 0
    /\ \/ rec.pre = "not_applicable" /\ rec.post = "none" /\ rec.error = "none"
       \/ rec.pre \in {"human_review", "abstain"} /\ rec.post = "none" /\ rec.error = "gate"
       \/ rec.pre = "pass" /\ rec.post = "abstain" /\ rec.error = "not_configured"

Merged(rec) ==
    /\ rec.status = "succeeded"
    /\ rec.pre = "pass" /\ rec.error = "none"
    /\ rec.post \in {"pass", "abstain", "human_review", "failed_retryable", "failed_terminal"}
    /\ rec.evaluation.selected \in Successful(rec.execs)
    /\ rec.attempts = rec.execs[rec.evaluation.selected].attempts

Kept(rec) ==
    /\ rec.status = "failed"
    /\ rec.pre = "pass"
    /\ rec.post \in {"failed_retryable", "failed_terminal"}
    /\ rec.evaluation.selected = 0
    /\ Successful(rec.execs) # {} => rec.attempts = <<>> /\ rec.post = "failed_terminal"
    /\ Successful(rec.execs) = {} =>
          /\ Len(rec.execs) >= 1
          /\ rec.attempts = rec.execs[1].attempts
          /\ rec.post = "failed_retryable" => rec.execs[1].error = "model_runtime_error"

RecordOK(rec) ==
    /\ \A c \in 1..Len(rec.execs) : ExecOK(rec.execs[c])
    /\ Skipped(rec) \/ Merged(rec) \/ Kept(rec)

\* Inductive with TypeInv and ConsensusInv.
RecordInv ==
    /\ pc \in {"preflight", "load", "infer"} => current = NoExec
    /\ pc = "preflight" => evaluation.selected = 0 /\ execs = <<>>
    /\ pc = "repair" => /\ Len(current.attempts) = 1 /\ current.attempts[1] = "failed"
                        /\ current.out = Nothing
                        /\ ~ current.repaired
    /\ pc = "release" => ExecOK(current)
    /\ \A c \in 1..Len(execs) : ExecOK(execs[c])
    /\ \A k \in 1..Len(records) : RecordOK(records[k])
    /\ pc # "done" => answer.kind # "output"
    /\ StatusIsHonest
    /\ RetryCanHelp

\* A step that neither records nor ends the batch needs care for its executions only.
LEMMA RecordsKept ==
    ASSUME RecordInv, UNCHANGED <<results, records, burned>>,
           pc # "done", pc' # "done", answer'.kind # "output",
           pc' \in {"preflight", "load", "infer"} => current' = NoExec,
           pc' = "preflight" => evaluation'.selected = 0 /\ execs' = <<>>,
           pc' = "repair" => /\ Len(current'.attempts) = 1 /\ current'.attempts[1] = "failed"
                             /\ current'.out = Nothing
                             /\ ~ current'.repaired,
           pc' = "release" => ExecOK(current'),
           \A c \in 1..Len(execs') : ExecOK(execs'[c])
    PROVE  RecordInv'
BY DEF RecordInv, StatusIsHonest, RetryCanHelp

LEMMA RecordAdvances ==
    ASSUME TypeInv, RecordInv, pc # "done", NEW record, Advance(record), RecordOK(record)
    PROVE  RecordInv'
<1>1. /\ pc' = "preflight" /\ current' = NoExec /\ execs' = <<>>
      /\ evaluation' = NoEvaluation /\ answer' = answer
      /\ records' = Append(records, record)
    BY DEF Advance
<1>2. /\ Len(records') = Len(records) + 1 /\ Len(records) \in Nat
      /\ \A k \in 1..Len(records) : records'[k] = records[k]
      /\ records'[Len(records) + 1] = record
    BY <1>1 DEF TypeInv, Typed
<1>3. \A k \in 1..Len(records') : RecordOK(records'[k])
    <2> SUFFICES ASSUME NEW k \in 1..Len(records') PROVE RecordOK(records'[k])
        OBVIOUS
    <2>1. k \in 1..Len(records) \/ k = Len(records) + 1
        BY <1>2
    <2> QED
        BY <1>2, <2>1 DEF RecordInv
<1>4. answer'.kind # "output"
    BY <1>1 DEF RecordInv
<1>5. evaluation'.selected = 0 /\ Len(execs') = 0
    BY <1>1 DEF NoEvaluation
<1>6. StatusIsHonest' /\ RetryCanHelp'
    BY <1>4 DEF StatusIsHonest, RetryCanHelp
<1> QED
    BY <1>1, <1>3, <1>4, <1>5, <1>6 DEF RecordInv

LEMMA StageRecords ==
    ASSUME TypeInv, ConsensusInv, RecordInv,
           Skip \/ SkipUnconfigured \/ MergeReleased \/ Withhold
    PROVE  RecordInv'
<1>1. CASE Skip
    <2> DEFINE pre == Preflight(Role, Held)
               record == Record(pre, "none", "skipped",
                                IF pre = "not_applicable" THEN "none" ELSE "gate", <<>>)
    <2>1. pc = "preflight" /\ pre # "pass" /\ Advance(record)
        BY <1>1 DEF Skip
    <2>2. pre \in PreDecisions
        BY GateTypes
    <2> HIDE DEF pre
    <2>3. Skipped(record) /\ record.execs = execs
        BY <2>1, <2>2 DEF Skipped, Record, RecordInv, PreDecisions
    <2>4. RecordOK(record)
        BY <2>3 DEF RecordOK, RecordInv
    <2> HIDE DEF record
    <2> QED
        BY <2>1, <2>4, RecordAdvances
<1>2. CASE SkipUnconfigured
    <2> DEFINE post == Postflight(Role, Held, Held, "skipped", "not_configured", FALSE, Nothing)
               record == Record("pass", post, "skipped", "not_configured", <<>>)
    <2>1. pc = "preflight" /\ Advance(record)
        BY <1>2 DEF SkipUnconfigured
    <2>2. post = "abstain"
        BY DEF Postflight
    <2> HIDE DEF post
    <2>3. Skipped(record) /\ record.execs = execs
        BY <2>1, <2>2 DEF Skipped, Record, RecordInv
    <2>4. RecordOK(record)
        BY <2>3 DEF RecordOK, RecordInv
    <2> HIDE DEF record
    <2> QED
        BY <2>1, <2>4, RecordAdvances
<1>3. CASE MergeReleased
    <2> DEFINE run == execs[evaluation.selected]
               after == [results EXCEPT ![Role] = run.out]
               post(late) == Postflight(Role, Held, Capabilities(batch, after), "succeeded",
                                        "none", late, run.out)
               record(late) == Record("pass", post(late), "succeeded", "none", run.attempts)
    <2>1. PICK late \in BOOLEAN : Advance(record(late))
        BY <1>3 DEF MergeReleased
    <2>2. pc = "merge" /\ evaluation.selected \in Successful(execs)
        BY <1>3 DEF MergeReleased, ConsensusInv, Justified
    <2>3. post(late) \in {"pass", "abstain", "human_review", "failed_retryable", "failed_terminal"}
        BY DEF Postflight, OnMissing
    <2> HIDE DEF post, run
    <2>4. /\ record(late).status = "succeeded" /\ record(late).pre = "pass"
          /\ record(late).error = "none" /\ record(late).post = post(late)
          /\ record(late).execs = execs /\ record(late).evaluation = evaluation
          /\ record(late).attempts = run.attempts
        BY DEF Record
    <2> HIDE DEF record
    <2>5. Merged(record(late))
        BY <2>2, <2>3, <2>4 DEF Merged, run
    <2>6. RecordOK(record(late))
        BY <2>4, <2>5 DEF RecordOK, RecordInv
    <2> QED
        BY <2>1, <2>2, <2>6, RecordAdvances
<1>4. CASE Withhold
    <2> DEFINE error == IF Successful(execs) # {} THEN "consensus" ELSE execs[1].error
               attempts == IF Successful(execs) # {} THEN <<>> ELSE execs[1].attempts
               post == Postflight(Role, Held, Held, "failed", error, FALSE, Nothing)
               record == Record("pass", post, "failed", error, attempts)
    <2>1. pc = "merge" /\ evaluation.selected = 0 /\ Advance(record)
        BY <1>4 DEF Withhold
    <2>2. post = IF error = "model_runtime_error" THEN "failed_retryable" ELSE "failed_terminal"
        BY DEF Postflight
    <2>3. Len(execs) >= 1
        BY <2>1 DEF TypeInv, Placed, Deciding
    <2> HIDE DEF post
    <2>4. /\ record.status = "failed" /\ record.pre = "pass" /\ record.post = post
          /\ record.execs = execs /\ record.evaluation = evaluation
          /\ record.attempts = attempts
        BY DEF Record
    <2> HIDE DEF record
    <2>5. Kept(record)
        BY <2>1, <2>2, <2>3, <2>4 DEF Kept
    <2>6. RecordOK(record)
        BY <2>4, <2>5 DEF RecordOK, RecordInv
    <2> QED
        BY <2>1, <2>6, RecordAdvances
<1> QED
    BY <1>1, <1>2, <1>3, <1>4

LEMMA AppendTry ==
    ASSUME NEW s \in Seq(Tries), NEW t \in Tries
    PROVE  /\ Append(s, t) # <<>>
           /\ Len(Append(s, t)) = Len(s) + 1
           /\ Append(s, t)[Len(s) + 1] = t
           /\ Len(s) = 1 => Append(s, t)[1] = s[1]
OBVIOUS

LEMMA ExecuteRecords ==
    ASSUME TypeInv, RecordInv, Begin \/ Execute
    PROVE  RecordInv'
<1>1. CASE Begin \/ Load
    BY <1>1, RecordsKept DEF Begin, Load, Goto, RecordInv, deciding, recorded
<1>2. ASSUME NEW e, current' = e, ExecOK(e), pc' = "release",
             pc # "done", UNCHANGED <<execs, deciding, recorded>>
      PROVE  RecordInv'
    BY <1>2, RecordsKept DEF RecordInv, deciding, recorded
<1>3. ASSUME pc \in {"infer", "repair"}
      PROVE  /\ current \in Execs
             /\ current.attempts \in Seq(Tries)
             /\ Len(current.attempts) \in {0, 1}
             /\ pc = "infer" => Len(current.attempts) = 0
             /\ Len(current.attempts) = 1 => current.attempts[1] = "failed"
             /\ current.out = Nothing /\ current.repaired = FALSE
    <2>1. current \in Execs
        BY DEF TypeInv, Typed
    <2>2. current.attempts \in Seq(Tries) /\ current.repaired \in BOOLEAN
        BY <2>1 DEF Execs
    <2>3. CASE pc = "infer"
        <3>1. current.attempts = <<>> /\ current.out = Nothing /\ current.repaired = FALSE
            BY <2>3 DEF RecordInv, NoExec
        <3> QED
            BY <2>1, <2>2, <2>3, <3>1
    <2>4. CASE pc = "repair"
        BY <2>1, <2>2, <2>4 DEF RecordInv
    <2> QED
        BY <1>3, <2>3, <2>4
<1>4. CASE LoadFails
    <2> DEFINE e == [current EXCEPT !.error = "model_runtime_error"]
    <2>1. e = [NoExec EXCEPT !.error = "model_runtime_error"]
        BY <1>4 DEF LoadFails, RecordInv
    <2>2. e.attempts = <<>> /\ e.out = Nothing /\ e.repaired = FALSE
        BY <2>1 DEF NoExec
    <2>3. ExecOK(e)
        BY <2>2 DEF ExecOK
    <2> HIDE DEF e
    <2>4. /\ current' = e /\ pc' = "release" /\ pc # "done"
          /\ UNCHANGED <<execs, deciding, recorded>>
        BY <1>4 DEF LoadFails, Goto, e
    <2> QED
        BY <1>2, <2>3, <2>4
<1>5. CASE \E o \in Outputs : Infer(o)
    <2>1. PICK o \in Outputs : Infer(o)
        BY <1>5
    <2> DEFINE e == [current EXCEPT !.out = o, !.attempts = Attempt("succeeded"),
                                    !.repaired = pc = "repair"]
    <2>2. /\ current' = e /\ pc' = "release" /\ pc # "done"
          /\ UNCHANGED <<execs, deciding, recorded>> /\ pc \in {"infer", "repair"}
        BY <2>1 DEF Infer, Succeed, Goto
    <2>3. e.attempts = Append(current.attempts, "succeeded") /\ e.out = o
        BY <1>3, <2>2 DEF Attempt, Execs
    <2>4. /\ e.attempts # <<>> /\ Len(e.attempts) \in {1, 2}
          /\ Len(e.attempts) = 2 => e.attempts[1] = "failed"
          /\ e.attempts[Len(e.attempts)] = "succeeded"
        <3> HIDE DEF e
        <3>1. "succeeded" \in Tries
            BY DEF Tries
        <3>2. Len(current.attempts) \in {0, 1}
            BY <1>3, <2>2
        <3>3. Len(current.attempts) = 1 => current.attempts[1] = "failed"
            BY <1>3, <2>2
        <3>4. current.attempts \in Seq(Tries)
            BY <1>3, <2>2
        <3> QED
            BY <2>3, <3>1, <3>2, <3>3, <3>4, AppendTry
    <2>5. o # Nothing
        BY OutputsAssumption
    <2> HIDE DEF e
    <2>6. ExecOK(e)
        BY <2>3, <2>4, <2>5 DEF ExecOK
    <2> QED
        BY <1>2, <2>2, <2>6
<1>6. CASE InferRaises \/ InferInvalid \/ RepairInvalid
    <2>1. PICK error \in Errors : pc \in {"infer", "repair"} /\ Fail(error)
        BY <1>6 DEF InferRaises, InferInvalid, RepairInvalid, Errors
    <2> DEFINE e == [current EXCEPT !.attempts = Attempt("failed"), !.error = error]
    <2>2. /\ current' = e /\ pc' = "release" /\ pc # "done"
          /\ UNCHANGED <<execs, deciding, recorded>>
        BY <2>1 DEF Fail, Goto
    <2>3. /\ e.attempts = Append(current.attempts, "failed") /\ e.out = Nothing
          /\ e.repaired = FALSE
        BY <1>3, <2>1 DEF Attempt, Execs
    <2>4. /\ e.attempts # <<>> /\ Len(e.attempts) \in {1, 2}
          /\ Len(e.attempts) = 2 => e.attempts[1] = "failed"
          /\ e.attempts[Len(e.attempts)] = "failed"
        <3> HIDE DEF e
        <3>1. "failed" \in Tries
            BY DEF Tries
        <3>2. Len(current.attempts) \in {0, 1}
            BY <1>3, <2>1
        <3>3. Len(current.attempts) = 1 => current.attempts[1] = "failed"
            BY <1>3, <2>1
        <3>4. current.attempts \in Seq(Tries)
            BY <1>3, <2>1
        <3> QED
            BY <2>3, <3>1, <3>2, <3>3, <3>4, AppendTry
    <2> HIDE DEF e
    <2>5. ExecOK(e)
        BY <2>3, <2>4 DEF ExecOK
    <2> QED
        BY <1>2, <2>2, <2>5
<1>7. CASE Correct
    <2>1. /\ current' = [current EXCEPT !.attempts = Append(current.attempts, "failed")]
          /\ pc = "infer" /\ pc' = "repair" /\ UNCHANGED <<execs, deciding, recorded>>
        BY <1>7 DEF Correct, Goto, Attempt
    <2>2. /\ current'.attempts = Append(current.attempts, "failed")
          /\ current'.out = Nothing /\ ~ current'.repaired
        BY <1>3, <2>1 DEF Execs
    <2>3. Len(current'.attempts) = 1 /\ current'.attempts[1] = "failed"
        <3>1. "failed" \in Tries
            BY DEF Tries
        <3> QED
            BY <1>3, <2>1, <2>2, <3>1, AppendTry
    <2> QED
        BY <2>1, <2>2, <2>3, RecordsKept DEF RecordInv, deciding, recorded
<1>8. CASE Release
    <2>1. /\ pc = "release" /\ execs' = Append(execs, current) /\ current' = NoExec
          /\ pc' \in {"evaluate", "load"} /\ UNCHANGED <<deciding, recorded>>
        BY <1>8 DEF Release, Goto
    <2>2. \A c \in 1..Len(execs') : ExecOK(execs'[c])
        <3> SUFFICES ASSUME NEW c \in 1..Len(execs') PROVE ExecOK(execs'[c])
            OBVIOUS
        <3>1. /\ execs \in Seq(Execs) /\ current \in Execs
              /\ ExecOK(current) /\ \A d \in 1..Len(execs) : ExecOK(execs[d])
            BY <2>1 DEF TypeInv, Typed, RecordInv
        <3>2. \/ c \in 1..Len(execs) /\ execs'[c] = execs[c]
              \/ execs'[c] = current
            BY <2>1, <3>1
        <3> QED
            BY <3>1, <3>2
    <2> QED
        BY <2>1, <2>2, RecordsKept DEF RecordInv, deciding, recorded
<1>9. CASE ReleaseRaises
    BY <1>9, RecordsKept DEF ReleaseRaises, Raise, RecordInv, TypeInv, Typed
<1> QED
    BY <1>1, <1>4, <1>5, <1>6, <1>7, <1>8, <1>9 DEF Execute

LEMMA DecideRecords ==
    ASSUME TypeInv, RecordInv, Decide
    PROVE  RecordInv'
<1>1. ASSUME pc # "done", UNCHANGED <<current, execs, recorded>>,
             pc' \in Deciding
      PROVE  RecordInv'
    BY <1>1, RecordsKept DEF RecordInv, Deciding, recorded
<1>2. ASSUME pc # "done", NEW kind \in {"refused", "raised"}, Raise(kind)
      PROVE  RecordInv'
    BY <1>2, RecordsKept DEF RecordInv, Raise, TypeInv, Typed
<1>3. CASE Evaluate \/ Adjudicate
    <2>1. /\ pc # "done" /\ UNCHANGED <<current, execs, recorded>>
          /\ pc' \in {"judge", "merge"}
        BY <1>3 DEF Evaluate, Adjudicate
    <2> QED
        BY <1>1, <2>1 DEF Deciding
<1>4. CASE \/ JudgeMissing \/ JudgeLoads \/ JudgeLoadFails \/ JudgeAnswers
           \/ JudgeInvalid \/ JudgeFails \/ JudgeSynchronizes
    <2>1. /\ pc # "done" /\ UNCHANGED <<current, execs, recorded>>
          /\ pc' \in {"adjudicate", "ask", "ask_again", "synchronize", "judge_release"}
        <3>1. CASE JudgeMissing \/ JudgeLoads \/ JudgeLoadFails
            BY <3>1 DEF JudgeMissing, JudgeLoads, JudgeLoadFails, Judging
        <3>2. CASE JudgeAnswers
            <4>1. pc \in {"ask", "ask_again"} /\ \E j : Judging(j, "synchronize")
                BY <3>2 DEF JudgeAnswers
            <4> QED
                BY <4>1 DEF Judging
        <3>3. CASE JudgeInvalid \/ JudgeFails \/ JudgeSynchronizes
            BY <3>3 DEF JudgeInvalid, JudgeFails, JudgeSynchronizes, Judging
        <3> QED
            BY <1>4, <3>1, <3>2, <3>3
    <2> QED
        BY <1>1, <2>1 DEF Deciding
<1>5. CASE JudgeRelease
    BY <1>1, <1>2, <1>5 DEF JudgeRelease, Judging, Deciding
<1>6. CASE JudgeReleaseRaises \/ AdjudicationIsRefused
    BY <1>2, <1>6 DEF JudgeReleaseRaises, AdjudicationIsRefused
<1> QED
    BY <1>3, <1>4, <1>5, <1>6 DEF Decide

\* What the status says of one stage.
LEMMA StageIsHonest ==
    ASSUME TypeInv, ConsensusInv, RecordInv, NEW k \in 1..Len(records)
    PROVE  (/\ ~ (records[k].status = "skipped" /\ records[k].error # "none")
            /\ records[k].pre \notin Adverse /\ records[k].post \notin Adverse
            /\ records[k].status # "failed")
           <=> \/ records[k].pre = "not_applicable"
               \/ results[Order[k]] # Nothing /\ records[k].post \in {"pass", "abstain"}
<1>1. RecordOK(records[k])
    BY DEF RecordInv
<1>2. k \in 1..4
    BY DEF TypeInv, Typed, Placed
<1>3. Used(k) /\ k <= Len(records)
    BY <1>2 DEF ConsensusInv, TypeInv, Typed
<1>4. CASE Skipped(records[k])
    BY <1>3, <1>4 DEF Skipped, Used, Adverse
<1>5. CASE Kept(records[k])
    BY <1>3, <1>5 DEF Kept, Used, Adverse
<1>6. CASE Merged(records[k])
    <2>1. results[Order[k]] # Nothing
        BY <1>3, <1>6 DEF Merged, Used, Successful
    <2> QED
        BY <1>6, <2>1 DEF Merged, Adverse
<1> QED
    BY <1>1, <1>4, <1>5, <1>6 DEF RecordOK

LEMMA StageMayRetry ==
    ASSUME RecordInv, NEW k \in 1..Len(records),
           "failed_retryable" \in {records[k].pre, records[k].post}
    PROVE  \/ /\ Successful(records[k].execs) = {}
              /\ \E c \in 1..Len(records[k].execs) :
                   records[k].execs[c].error = "model_runtime_error"
           \/ records[k].status = "succeeded" /\ records[k].post = "failed_retryable"
<1>1. RecordOK(records[k])
    BY DEF RecordInv
<1>2. ~ Skipped(records[k])
    BY DEF Skipped
<1>3. CASE Merged(records[k])
    BY <1>3 DEF Merged
<1>4. CASE Kept(records[k])
    <2>1. Successful(records[k].execs) = {} /\ Len(records[k].execs) >= 1
          /\ records[k].execs[1].error = "model_runtime_error"
        BY <1>4 DEF Kept
    <2>2. Len(records[k].execs) \in Int => 1 \in 1..Len(records[k].execs)
        BY <2>1
    <2>3. CASE Len(records[k].execs) \in Int
        BY <2>1, <2>2, <2>3
    <2> QED
        BY <2>1, <2>3
<1> QED
    BY <1>1, <1>2, <1>3, <1>4 DEF RecordOK

LEMMA EndRecords ==
    ASSUME TypeInv, ConsensusInv, RecordInv, End
    PROVE  RecordInv'
<1>1. CASE Finalize \/ BurnedSkip \/ BurnedLoad \/ BurnedUnload
    <2>1. /\ UNCHANGED <<execs, results, records, answer>> /\ pc # "done"
          /\ pc' \in {"burned", "answer", "burned_run"}
        BY <1>1 DEF Finalize, BurnedSkip, BurnedLoad, BurnedUnload, BurnedStep, recorded
    <2> QED
        BY <2>1 DEF RecordInv, StatusIsHonest, RetryCanHelp
<1>2. CASE FinalizeRaises \/ BurnedUnloadRaises
    BY <1>2, RecordsKept DEF FinalizeRaises, BurnedUnloadRaises, Raise, RecordInv, TypeInv, Typed
<1>3. ASSUME UNCHANGED <<execs, records>>, pc' = "done", StatusIsHonest', RetryCanHelp'
      PROVE  RecordInv'
    BY <1>3 DEF RecordInv
<1>4. CASE Abort
    <2>1. answer'.kind # "output"
        BY <1>4 DEF Abort, TypeInv, Typed, Placed
    <2> QED
        BY <1>3, <1>4, <2>1 DEF Abort, StatusIsHonest, RetryCanHelp
<1>5. CASE Answer
    <2>1. /\ UNCHANGED <<execs, results, records, burned>> /\ pc' = "done"
        BY <1>5 DEF Answer
    <2>2. answer'.kind = "output" =>
            /\ answer'.retryable = Retryable(records)
            /\ answer'.status = IF burned = "failed" /\ Status(records) = "succeeded"
                                THEN "partial_failure" ELSE Status(records)
        BY <1>5 DEF Answer, TypeInv, Typed
    <2>3. Status(records) = "succeeded" <=>
            \A k \in 1..Len(records) :
                \/ records[k].pre = "not_applicable"
                \/ results[Order[k]] # Nothing /\ records[k].post \in {"pass", "abstain"}
        BY StageIsHonest DEF Status, Incomplete
    <2>4. StatusIsHonest'
        BY <2>1, <2>2, <2>3 DEF StatusIsHonest
    <2>5. RetryCanHelp'
        BY <2>1, <2>2, StageMayRetry DEF RetryCanHelp, Retryable
    <2> QED
        BY <1>3, <2>1, <2>4, <2>5
<1> QED
    BY <1>1, <1>2, <1>4, <1>5 DEF End

LEMMA RecordStep == TypeInv /\ ConsensusInv /\ RecordInv /\ [Next]_vars => RecordInv'
<1> SUFFICES ASSUME TypeInv, ConsensusInv, RecordInv, [Next]_vars PROVE RecordInv'
    OBVIOUS
<1>1. CASE UNCHANGED vars
    BY <1>1 DEF vars, request, deciding, recorded, RecordInv, StatusIsHonest, RetryCanHelp
<1> QED
    BY <1>1, StageRecords, ExecuteRecords, DecideRecords, EndRecords DEF Next

LEMMA RecordInvariant == Spec => [](TypeInv /\ ConsensusInv /\ RecordInv)
<1>1. Init => ConsensusInv
    BY OrderOfRoles DEF Init, ConsensusInv, Used
<1>2. Init => RecordInv
    BY DEF Init, RecordInv, NoEvaluation, NoAnswer, StatusIsHonest, RetryCanHelp
<1> QED
    BY <1>1, <1>2, TypeInit, TypeStep, ConsensusStep, RecordStep, PTL DEF Spec

LEMMA RecordImplied ==
    ASSUME TypeInv, RecordInv
    PROVE  RecordsAreValid
<1> SUFFICES ASSUME NEW k \in 1..Len(records)
             PROVE  /\ ValidAttempts(records[k].status, records[k].attempts)
                    /\ records[k].status = "succeeded" <=> records[k].evaluation.selected # 0
                    /\ \A c \in 1..Len(records[k].execs) :
                        records[k].execs[c].repaired => records[k].execs[c].out # Nothing
    BY DEF RecordsAreValid
<1>1. RecordOK(records[k]) /\ records[k].execs \in Seq(Execs)
    <2>1. records[k] \in Records
        BY DEF TypeInv, Typed
    <2> QED
        BY <2>1 DEF RecordInv, Records
<1>2. CASE Skipped(records[k])
    BY <1>1, <1>2 DEF Skipped, ValidAttempts, RecordOK, ExecOK
<1>3. CASE Merged(records[k])
    <2> DEFINE c == records[k].evaluation.selected
    <2>1. c \in 1..Len(records[k].execs) /\ records[k].execs[c].out # Nothing
        BY <1>3 DEF Merged, Successful
    <2>2. ExecOK(records[k].execs[c]) /\ c # 0
        BY <1>1, <2>1 DEF RecordOK
    <2>3. ValidAttempts(records[k].status, records[k].attempts)
        BY <1>3, <2>1, <2>2 DEF Merged, ExecOK, ValidAttempts
    <2> QED
        BY <1>1, <1>3, <2>2, <2>3 DEF Merged, RecordOK, ExecOK
<1>4. CASE Kept(records[k])
    <2>1. ValidAttempts(records[k].status, records[k].attempts)
        <3>1. CASE Successful(records[k].execs) # {}
            BY <1>4, <3>1 DEF Kept, ValidAttempts
        <3>2. CASE Successful(records[k].execs) = {}
            <4>1. 1 \in 1..Len(records[k].execs)
                BY <1>1, <1>4, <3>2 DEF Kept
            <4>2. ExecOK(records[k].execs[1]) /\ records[k].execs[1].out = Nothing
                BY <1>1, <3>2, <4>1 DEF RecordOK, Successful
            <4> QED
                BY <1>4, <3>2, <4>2 DEF Kept, ExecOK, ValidAttempts
        <3> QED
            BY <3>1, <3>2
    <2> QED
        BY <1>1, <1>4, <2>1 DEF Kept, RecordOK, ExecOK
<1> QED
    BY <1>1, <1>2, <1>3, <1>4 DEF RecordOK

\* Whatever the models answer, the attempts, the selection and the repairs that are recorded
\* of a stage satisfy the validators of the answer (contracts.py:898-917, 1041-1058).
THEOREM ValidRecords == Spec => []RecordsAreValid
BY RecordInvariant, RecordImplied, PTL

\* "succeeded" is said of a batch exactly if every stage that applies has an answer which no
\* gate objects to, and burned area did not fail (session_runner.py:881-892).
THEOREM HonestStatus == Spec => []StatusIsHonest
<1>1. RecordInv => StatusIsHonest
    BY DEF RecordInv
<1> QED
    BY <1>1, RecordInvariant, PTL

\* A retry is only offered for a model that raised or a stage that took too long
\* (stage_gates.py:163, 200).
THEOREM UsefulRetry == Spec => []RetryCanHelp
<1>1. RecordInv => RetryCanHelp
    BY DEF RecordInv
<1> QED
    BY <1>1, RecordInvariant, PTL

-----------------------------------------------------------------------------
(* Every step brings the batch closer to its end *)

\* The candidates are executed one after the other, none twice, and a batch ends after the
\* last stage.
Counted ==
    /\ pc = "preflight" => execs = <<>>
    /\ pc \in {"load", "infer", "repair", "release"} => Len(execs) < Group.size
    /\ pc \in {"burned", "burned_run", "answer"} => stage = 5

\* A stage is left for the next with all of its steps, before which Ahead counts as much.
LEMMA AheadOK ==
    ASSUME TypeInv
    PROVE  /\ \A k \in 1..4 : Candidates(k) \in Nat
           /\ \A k \in 2..4 : Ahead(k) \in Nat
           /\ stage \in 1..4 => Candidates(stage) = Group.size
<1>1. \A k \in 1..4 : Candidates(k) \in Nat
    BY OrderOfRoles, RegistriesAssumption
       DEF TypeInv, Typed, Candidates, ValidGroup, Groups
<1> QED
    BY <1>1 DEF Ahead, Group, Role, Candidates

LEMMA CountedStep == TypeInv /\ Counted /\ [Next]_vars => Counted'
<1> SUFFICES ASSUME TypeInv, Counted, [Next]_vars PROVE Counted'
    OBVIOUS
<1>1. CASE Skip \/ SkipUnconfigured \/ MergeReleased \/ Withhold
    BY <1>1 DEF Skip, SkipUnconfigured, MergeReleased, Withhold, Advance, Counted
<1>2. CASE Begin
    BY <1>2 DEF Begin, Counted, Group, Role, request
<1>3. CASE Execute
    <2>1. CASE Release
        <3>0. /\ pc = "release" /\ execs' = Append(execs, current)
              /\ UNCHANGED <<registry, stage>>
            BY <2>1 DEF Release, Goto, request
        <3>1. Len(execs') = Len(execs) + 1 /\ Len(execs) < Group.size /\ Group' = Group
            BY <3>0 DEF Counted, TypeInv, Typed, Group, Role
        <3>2. Group.size \in Nat /\ Len(execs) \in Nat
            <4>1. stage \in 1..4
                BY <3>0 DEF TypeInv, Typed, Placed, Between
            <4> QED
                BY <4>1, AheadOK DEF TypeInv, Typed
        <3>3. pc' = "evaluate" \/ (pc' = "load" /\ Len(execs') # Group.size)
            BY <2>1 DEF Release, Goto
        <3> QED
            BY <3>1, <3>2, <3>3 DEF Counted
    <2>2. CASE ReleaseRaises
        BY <2>2 DEF ReleaseRaises, Raise, Counted
    <2>3. CASE ~(Release \/ ReleaseRaises)
        <3>1. /\ pc \in {"load", "infer", "repair"} /\ pc' \in {"infer", "repair", "release"}
              /\ UNCHANGED <<execs, registry, stage>>
            BY <1>3, <2>3 DEF Execute, Load, LoadFails, Infer, Succeed, InferRaises, InferInvalid,
                              Correct, RepairInvalid, Fail, Goto, request
        <3> QED
            BY <3>1 DEF Counted, Group, Role
    <2> QED
        BY <2>1, <2>2, <2>3
<1>4. CASE Decide
    <2>1. pc' \in {"judge", "merge", "adjudicate", "ask", "judge_release", "synchronize",
                   "ask_again", "abort"}
        BY <1>4 DEF Decide, Evaluate, JudgeMissing, JudgeLoads, JudgeLoadFails, JudgeAnswers,
                    JudgeInvalid, JudgeFails, JudgeSynchronizes, JudgeRelease,
                    JudgeReleaseRaises, Adjudicate, AdjudicationIsRefused, Judging, Raise
    <2> QED
        BY <2>1 DEF Counted
<1>5. CASE End
    <2>1. /\ pc' \in {"burned", "burned_run", "answer", "abort", "done"}
          /\ UNCHANGED stage
          /\ pc' \in {"burned", "burned_run", "answer"} =>
                 pc \in {"burned", "burned_run"} \/ stage = Len(Order) + 1
        BY <1>5 DEF End, Finalize, FinalizeRaises, Abort, BurnedSkip, BurnedLoad, BurnedUnload,
                    BurnedUnloadRaises, Answer, BurnedStep, Raise, request
    <2> QED
        BY <2>1, OrderOfRoles DEF Counted
<1>6. CASE UNCHANGED vars
    BY <1>6 DEF vars, Counted, Group, Role, request
<1> QED
    BY <1>1, <1>2, <1>3, <1>4, <1>5, <1>6 DEF Next

LEMMA InStageIsNat == TypeInv /\ Counted /\ ~Ending => stage \in 1..4 /\ InStage \in Nat
<1> SUFFICES ASSUME TypeInv, Counted, ~Ending PROVE stage \in 1..4 /\ InStage \in Nat
    OBVIOUS
<1>1. stage \in 1..4
    BY OrderOfRoles DEF Ending, TypeInv, Typed
<1>2. Candidates(stage) \in Nat /\ Candidates(stage) = Group.size /\ Len(execs) \in Nat
    BY <1>1, AheadOK DEF TypeInv, Typed
<1>3. CASE pc \in {"load", "infer", "repair", "release"}
    <2>1. Len(execs) < Group.size /\ InExecution \in 0..3
        BY <1>3 DEF Counted, InExecution
    <2>2. InStage = 8 + 4 * (Candidates(stage) - Len(execs)) - InExecution
        BY <1>3 DEF InStage
    <2> QED
        BY <1>1, <1>2, <2>1, <2>2
<1>4. CASE pc \notin {"load", "infer", "repair", "release"}
    BY <1>1, <1>2, <1>4 DEF InStage, InDecision
<1> QED
    BY <1>3, <1>4

LEMMA StepsCount == TypeInv /\ Counted => StepsLeft \in Nat
<1> SUFFICES ASSUME TypeInv, Counted PROVE StepsLeft \in Nat
    OBVIOUS
<1>1. InEnd \in Nat
    BY DEF InEnd
<1>2. ~Ending => InStage \in Nat
    BY InStageIsNat
<1> QED
    BY <1>1, <1>2, AheadOK DEF StepsLeft

\* In a stage, a step that stays in it.
LEMMA WithinStage ==
    ASSUME TypeInv, TypeInv', Counted, Counted', UNCHANGED <<stage, registry>>, ~Ending, ~Ending',
           InStage' < InStage
    PROVE  StepsLeft' < StepsLeft
<1>1. InStage \in Nat
    BY InStageIsNat
<1>2. (TypeInv /\ Counted /\ ~Ending => stage \in 1..4 /\ InStage \in Nat)'
    BY InStageIsNat, PTL
<1>3. InStage' \in Nat
    BY <1>2
<1>4. \A k \in 2..4 : Ahead(k)' = Ahead(k) /\ Ahead(k) \in Nat
    BY AheadOK DEF Ahead, Candidates
<1>5. /\ StepsLeft = 4 + Ahead(2) + Ahead(3) + Ahead(4) + InStage
      /\ StepsLeft' = 4 + Ahead(2) + Ahead(3) + Ahead(4) + InStage'
    BY <1>4 DEF StepsLeft
<1> HIDE DEF StepsLeft, InStage, Ahead
<1> QED
    BY <1>1, <1>3, <1>4, <1>5

\* The end of a stage.
LEMMA StageEnds ==
    ASSUME TypeInv, TypeInv', Counted, stage \in 1..4, ~Ending, InStage > 0, InStage \in Nat,
           stage' = stage + 1, pc' = "preflight", UNCHANGED registry
    PROVE  StepsLeft' < StepsLeft
<1>1. \A k \in 1..4 : Candidates(k)' = Candidates(k) /\ Candidates(k) \in Nat
    BY AheadOK DEF Candidates
<1>2. StepsLeft = 4 + Ahead(2) + Ahead(3) + Ahead(4) + InStage
    BY DEF StepsLeft
<1>3. stage = 4 => StepsLeft' = 4
    BY OrderOfRoles DEF StepsLeft, Ending, InEnd
<1>4. stage # 4 => StepsLeft' = 4 + Ahead(2)' + Ahead(3)' + Ahead(4)' + InStage'
    BY OrderOfRoles DEF StepsLeft, Ending
<1>5. InStage' = 9 + 4 * registry[Order[stage + 1]].size
    BY DEF InStage, Candidates
<1>6. \A k \in 1..3 : stage = k => InStage' = 9 + 4 * Candidates(k + 1)
    BY <1>5 DEF Candidates
<1>7. \A k \in 2..4 :
          /\ Ahead(k) = IF stage < k THEN 9 + 4 * Candidates(k) ELSE 0
          /\ Ahead(k)' = IF stage + 1 < k THEN 9 + 4 * Candidates(k) ELSE 0
    BY <1>1 DEF Ahead
<1>8. CASE stage = 1
    BY <1>1, <1>2, <1>4, <1>6, <1>7, <1>8
<1>9. CASE stage = 2
    BY <1>1, <1>2, <1>4, <1>6, <1>7, <1>9
<1>10. CASE stage = 3
    BY <1>1, <1>2, <1>4, <1>6, <1>7, <1>10
<1>11. CASE stage = 4
    BY <1>1, <1>2, <1>3, <1>7, <1>11
<1> QED
    BY <1>8, <1>9, <1>10, <1>11

\* An error ends the batch in one more step.
LEMMA RaiseSteps ==
    ASSUME TypeInv, Counted, NEW kind, Raise(kind),
           pc \notin {"abort", "done", "answer"}, pc = "preflight" => stage = 5
    PROVE  StepsLeft' < StepsLeft
<1>1. StepsLeft' = 1
    BY DEF Raise, StepsLeft, Ending, InEnd
<1>2. CASE Ending
    BY <1>1, <1>2 DEF StepsLeft, Ending, InEnd
<1>3. CASE ~Ending
    <2>2. InStage \in Nat
        BY <1>3, InStageIsNat
    <2> QED
        BY <1>1, <1>3, <2>2, AheadOK DEF StepsLeft
<1> QED
    BY <1>2, <1>3

LEMMA StepsStep ==
    TypeInv /\ TypeInv' /\ Counted /\ Counted' /\ [Next]_vars
        => StepsLeft' < StepsLeft \/ UNCHANGED vars
<1> SUFFICES ASSUME TypeInv, TypeInv', Counted, Counted', Next PROVE StepsLeft' < StepsLeft
    OBVIOUS
<1>0. Len(Order) = 4 /\ stage \in 1..5 /\ Len(execs) \in Nat
    BY OrderOfRoles DEF TypeInv, Typed
<1>1. CASE Skip \/ SkipUnconfigured \/ MergeReleased \/ Withhold
    <2>0. /\ stage' = stage + 1 /\ pc' = "preflight" /\ UNCHANGED registry
          /\ (pc = "preflight" /\ stage <= Len(Order)) \/ pc = "merge"
        BY <1>1 DEF Skip, SkipUnconfigured, MergeReleased, Withhold, Advance, request
    <2>1. stage \in 1..4
        BY <1>0, <2>0 DEF TypeInv, Placed, Between
    <2>2. InStage \in Nat /\ InStage > 0 /\ ~Ending
        <3>1. Candidates(stage) \in Nat
            BY <2>1, AheadOK
        <3> QED
            BY <1>0, <2>0, <2>1, <3>1 DEF InStage, InDecision, Ending
    <2> QED
        BY <2>0, <2>1, <2>2, StageEnds
<1>2. CASE Begin
    <2>1. /\ pc = "preflight" /\ pc' = "load" /\ UNCHANGED <<stage, registry, execs>>
          /\ stage \in 1..4
        BY <1>0, <1>2 DEF Begin, request
    <2>2. Len(execs) = 0 /\ Candidates(stage) \in Nat /\ Candidates(stage)' = Candidates(stage)
        BY <2>1, AheadOK DEF Counted, Candidates
    <2>3. InStage = 9 + 4 * Candidates(stage) /\ InStage' = 8 + 4 * Candidates(stage)
        BY <2>1, <2>2 DEF InStage, InExecution, Candidates
    <2> QED
        BY <1>0, <2>1, <2>2, <2>3, WithinStage DEF Ending
<1>3. CASE Execute
    <2>0. /\ pc \in {"load", "infer", "repair", "release"} /\ stage \in 1..4
          /\ Len(execs) < Candidates(stage) /\ Candidates(stage) \in Nat
        <3>1. pc \in {"load", "infer", "repair", "release"}
            BY <1>3 DEF Execute, Load, LoadFails, Infer, Succeed, InferRaises, InferInvalid,
                        Correct, RepairInvalid, Release, ReleaseRaises
        <3>2. stage \in 1..4
            BY <1>0, <3>1 DEF TypeInv, Placed, Between
        <3> QED
            BY <3>1, <3>2, AheadOK DEF Counted
    <2>1. CASE Release
        <3>1. /\ pc = "release" /\ pc' \in {"evaluate", "load"}
              /\ Len(execs') = Len(execs) + 1 /\ UNCHANGED <<stage, registry>>
            BY <2>1 DEF Release, Goto, request, TypeInv, Typed
        <3>2. InStage = 5 + 4 * (Candidates(stage) - Len(execs))
            BY <1>0, <2>0, <3>1 DEF InStage, InExecution
        <3>3. pc' = "load" => InStage' = 8 + 4 * (Candidates(stage) - (Len(execs) + 1))
            BY <1>0, <2>0, <3>1 DEF InStage, InExecution, Candidates
        <3>4. pc' = "evaluate" => InStage' = 8
            BY DEF InStage, InDecision
        <3>5. InStage' < InStage
            BY <1>0, <2>0, <3>1, <3>2, <3>3, <3>4
        <3> QED
            BY <1>0, <2>0, <3>1, <3>5, WithinStage DEF Ending
    <2>2. CASE ReleaseRaises
        BY <2>0, <2>2, RaiseSteps DEF ReleaseRaises
    <2>3. CASE ~(Release \/ ReleaseRaises)
        <3>1. /\ \/ pc = "load" /\ pc' \in {"infer", "release"}
                 \/ pc = "infer" /\ pc' \in {"repair", "release"}
                 \/ pc = "repair" /\ pc' = "release"
              /\ UNCHANGED <<execs, registry, stage>>
            BY <1>3, <2>3 DEF Execute, Load, LoadFails, Infer, Succeed, InferRaises, InferInvalid,
                              Correct, RepairInvalid, Fail, Goto, request
        <3>2. Candidates(stage)' = Candidates(stage)
            BY <3>1 DEF Candidates
        <3>3. /\ InStage = 8 + 4 * (Candidates(stage) - Len(execs)) - InExecution
              /\ InStage' = 8 + 4 * (Candidates(stage) - Len(execs)) - InExecution'
            BY <3>1, <3>2 DEF InStage
        <3>4. InExecution < InExecution' /\ InExecution \in Nat /\ InExecution' \in Nat
            BY <3>1 DEF InExecution
        <3>5. InStage' < InStage
            BY <1>0, <2>0, <3>3, <3>4
        <3> QED
            BY <1>0, <2>0, <3>1, <3>5, WithinStage DEF Ending
    <2> QED
        BY <2>1, <2>2, <2>3
<1>4. CASE Decide
    <2>0. pc \in Deciding /\ stage \in 1..4
        <3>1. pc \in Deciding
            BY <1>4 DEF Decide, Evaluate, JudgeMissing, JudgeLoads, JudgeLoadFails, JudgeAnswers,
                        JudgeInvalid, JudgeFails, JudgeSynchronizes, JudgeRelease,
                        JudgeReleaseRaises, Adjudicate, AdjudicationIsRefused, Deciding
        <3> QED
            BY <1>0, <3>1 DEF TypeInv, Placed, Between, Deciding
    <2>1. CASE pc' = "abort"
        <3>1. \E kind \in {"refused", "raised"} : Raise(kind)
            BY <1>4, <2>1 DEF Decide, Evaluate, JudgeMissing, JudgeLoads, JudgeLoadFails,
                        JudgeAnswers, JudgeInvalid, JudgeFails, JudgeSynchronizes, JudgeRelease,
                        JudgeReleaseRaises, Adjudicate, AdjudicationIsRefused, Judging
        <3> QED
            BY <2>0, <3>1, RaiseSteps DEF Deciding
    <2>2. CASE pc' # "abort"
        <3>1. /\ UNCHANGED <<stage, registry>>
              /\ \/ pc = "evaluate" /\ pc' \in {"judge", "merge"}
                 \/ pc = "judge" /\ pc' \in {"adjudicate", "ask", "judge_release"}
                 \/ pc = "ask" /\ pc' \in {"synchronize", "ask_again", "judge_release"}
                 \/ pc = "ask_again" /\ pc' \in {"synchronize", "judge_release"}
                 \/ pc = "synchronize" /\ pc' = "judge_release"
                 \/ pc = "judge_release" /\ pc' = "adjudicate"
                 \/ pc = "adjudicate" /\ pc' = "merge"
            BY <1>4, <2>2 DEF Decide, Evaluate, JudgeMissing, JudgeLoads, JudgeLoadFails,
                        JudgeAnswers, JudgeInvalid, JudgeFails, JudgeSynchronizes, JudgeRelease,
                        JudgeReleaseRaises, Adjudicate, AdjudicationIsRefused, Judging, Raise,
                        request
        <3>2. InStage = InDecision /\ InStage' = InDecision'
            BY <3>1 DEF InStage
        <3>3. InDecision' < InDecision
            BY <3>1 DEF InDecision
        <3> QED
            BY <1>0, <2>0, <3>1, <3>2, <3>3, WithinStage DEF Ending, Deciding
    <2> QED
        BY <2>1, <2>2
<1>5. CASE End
    <2>1. CASE FinalizeRaises \/ BurnedUnloadRaises
        BY <1>0, <2>1, RaiseSteps DEF FinalizeRaises, BurnedUnloadRaises
    <2>2. CASE ~(FinalizeRaises \/ BurnedUnloadRaises)
        <3>1. /\ UNCHANGED stage
              /\ \/ pc = "preflight" /\ stage = Len(Order) + 1 /\ pc' \in {"burned", "answer"}
                 \/ pc = "burned" /\ pc' \in {"burned_run", "answer"}
                 \/ pc = "burned_run" /\ pc' = "answer"
                 \/ pc \in {"answer", "abort"} /\ pc' = "done"
            BY <1>0, <1>5, <2>2 DEF End, Finalize, Abort, BurnedSkip, BurnedLoad, BurnedUnload,
                               Answer, BurnedStep
        <3>2. pc # "abort" => stage = 5
            BY <1>0, <3>1 DEF Counted
        <3>3. StepsLeft = InEnd /\ StepsLeft' = InEnd'
            BY <1>0, <3>1, <3>2 DEF StepsLeft, Ending
        <3>4. InEnd' < InEnd
            BY <3>1 DEF InEnd
        <3> QED
            BY <3>3, <3>4
    <2> QED
        BY <2>1, <2>2
<1> QED
    BY <1>1, <1>2, <1>3, <1>4, <1>5 DEF Next

\* No batch goes on for ever, or longer than its registry allows, whatever the models and
\* judges answer and whatever raises: each step brings it closer to its end
\* (session_runner.py:387-433, 540-575, 619, 709-729).
THEOREM BoundedBatch == Spec => StepsRunOut
<1>1. Init => Counted
    BY DEF Init, Counted
<1>2. TypeInv /\ Counted /\ [Next]_vars => TypeInv' /\ Counted'
    BY TypeStep, CountedStep
<1>3. TypeInv /\ TypeInv' /\ Counted /\ Counted' /\ [Next]_vars => [StepsLeft' < StepsLeft]_vars
    BY StepsStep
<1> QED
    BY <1>1, <1>2, <1>3, TypeInit, StepsCount, PTL DEF Spec, StepsRunOut
=============================================================================
