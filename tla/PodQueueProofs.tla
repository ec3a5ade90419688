--------------------------- MODULE PodQueueProofs ---------------------------
(***************************************************************************)
(* PodQueue for any set of jobs and any set of request threads.            *)
(***************************************************************************)
EXTENDS PodQueue, TLAPS

\* A sequence of jobs splits into its head, a job, and its tail.
LEMMA HeadTail ==
    ASSUME NEW s \in Seq(Jobs), s # <<>>
    PROVE  /\ Head(s) \in Jobs
           /\ Tail(s) \in Seq(Jobs)
           /\ <<Head(s)>> \o Tail(s) = s
OBVIOUS

-----------------------------------------------------------------------------
(* Type correctness *)

LEMMA TypeInit == Init => TypeOK
BY NoJobAssumption DEF Init, TypeOK, Statuses, Ended, Outputs, CPCs, Ending, HPCs

LEMMA TypeStep == TypeOK /\ [Next]_vars => TypeOK'
<1> SUFFICES ASSUME TypeOK, [Next]_vars PROVE TypeOK'
    OBVIOUS
<1> USE NoJobAssumption DEF TypeOK, Statuses, Ended, Outputs, CPCs, Ending, HPCs
<1>1. ASSUME NEW h \in Handlers, NEW j \in Jobs, Submit(h, j) PROVE TypeOK'
    BY <1>1 DEF Submit, Enter, consumerVars
<1>2. ASSUME NEW h \in Handlers, NEW j \in Jobs, Get(h, j) PROVE TypeOK'
    BY <1>2 DEF Get, Enter, consumerVars
<1>3. ASSUME NEW h \in Handlers, NEW j \in Jobs, Cancel(h, j) PROVE TypeOK'
    BY <1>3 DEF Cancel, Enter, consumerVars
<1>4. ASSUME NEW h \in Handlers, Put(h) PROVE TypeOK'
    BY <1>4 DEF Put, consumerVars
<1>5. ASSUME NEW h \in Handlers, ReadStatus(h) PROVE TypeOK'
    BY <1>5 DEF ReadStatus, consumerVars
<1>6. ASSUME NEW h \in Handlers, ReadOutput(h) PROVE TypeOK'
    BY <1>6 DEF ReadOutput, consumerVars
<1>7. CASE TakeNext
    BY <1>7, HeadTail DEF TakeNext, handlerVars
<1>8. CASE SkipCancelled
    BY <1>8 DEF SkipCancelled, handlerVars
<1>9. CASE Claim
    BY <1>9 DEF Claim, handlerVars
<1>10. CASE Return \/ Raise
    BY <1>10 DEF Return, Raise, EndWith, handlerVars
<1>11. CASE WriteStatus
    BY <1>11 DEF WriteStatus, handlerVars
<1>12. CASE UNCHANGED vars
    BY <1>12 DEF vars, consumerVars, handlerVars
<1> QED
    BY <1>1, <1>2, <1>3, <1>4, <1>5, <1>6, <1>7, <1>8, <1>9, <1>10, <1>11, <1>12
       DEF Next, Consume, Request, Proceed

\* Every variable keeps its type, and the consumer holds a job exactly from
\* _pending.get() to task_done().
THEOREM TypeCorrect == Spec => []TypeOK
BY TypeInit, TypeStep, PTL DEF Spec

-----------------------------------------------------------------------------
(* The inductive invariant *)

LEMMA FollowsTransitive ==
    ASSUME NEW r \in Statuses, NEW s \in Statuses, NEW t \in Statuses,
           Follows(r, s), Follows(s, t)
    PROVE  Follows(r, t)
BY DEF Follows, Statuses, Ended

\* A step moves a job's status forward or leaves it.
LEMMA StatusForward ==
    ASSUME TypeOK, OneInProgress, [Next]_vars, NEW j \in Jobs
    PROVE  Follows(status[j], status'[j])
<1> USE DEF Follows, TypeOK, Statuses, Ended
<1>1. ASSUME NEW h \in Handlers, Request(h) PROVE Follows(status[j], status'[j])
    BY <1>1 DEF Request, Submit, Get, Cancel
<1>2. ASSUME NEW h \in Handlers, Proceed(h) PROVE Follows(status[j], status'[j])
    BY <1>2 DEF Proceed, Put, ReadStatus, ReadOutput
<1>3. CASE Consume
    BY <1>3 DEF Consume, TakeNext, SkipCancelled, Claim, Return, Raise, EndWith,
                WriteStatus, OneInProgress, Waiting, Working, Ending
<1>4. CASE UNCHANGED vars
    BY <1>4 DEF vars
<1> QED
    BY <1>1, <1>2, <1>3, <1>4 DEF Next

LEMMA OneInProgressStep ==
    ASSUME TypeOK, OneInProgress, OnePlace, [Next]_vars
    PROVE  OneInProgress'
<1> USE NoJobAssumption
    DEF OneInProgress, TypeOK, Statuses, Ended, Working, Ending, CPCs, Waiting
<1>1. ASSUME NEW h \in Handlers, Request(h) PROVE OneInProgress'
    BY <1>1 DEF Request, Submit, Get, Cancel, consumerVars
<1>2. ASSUME NEW h \in Handlers, Proceed(h) PROVE OneInProgress'
    BY <1>2 DEF Proceed, Put, ReadStatus, ReadOutput, consumerVars
<1>3. CASE TakeNext
    <2>1. pending[1] = Head(pending) /\ 1 \in 1..Len(pending)
        BY <1>3 DEF TakeNext
    <2> QED
        BY <1>3, <2>1 DEF TakeNext, OnePlace, PendingOnce
<1>4. CASE SkipCancelled
    BY <1>4 DEF SkipCancelled
<1>5. CASE Claim
    BY <1>5 DEF Claim
<1>6. CASE Return \/ Raise
    BY <1>6 DEF Return, Raise, EndWith
<1>7. CASE WriteStatus
    BY <1>7 DEF WriteStatus
<1>8. CASE UNCHANGED vars
    BY <1>8 DEF vars, consumerVars
<1> QED
    BY <1>1, <1>2, <1>3, <1>4, <1>5, <1>6, <1>7, <1>8 DEF Next, Consume

LEMMA OutputMatchesStep ==
    ASSUME TypeOK, OneInProgress, OutputMatches, [Next]_vars
    PROVE  OutputMatches'
<1> USE NoJobAssumption
    DEF OutputMatches, OneInProgress, TypeOK, Statuses, Ended, Working, Ending,
        CPCs, Waiting, OutputFor
<1>1. ASSUME NEW h \in Handlers, Request(h) PROVE OutputMatches'
    BY <1>1 DEF Request, Submit, Get, Cancel, consumerVars
<1>2. ASSUME NEW h \in Handlers, Proceed(h) PROVE OutputMatches'
    BY <1>2 DEF Proceed, Put, ReadStatus, ReadOutput, consumerVars
<1>3. CASE TakeNext
    BY <1>3 DEF TakeNext
<1>4. CASE SkipCancelled
    BY <1>4 DEF SkipCancelled
<1>5. CASE Claim
    BY <1>5 DEF Claim
<1>6. CASE Return \/ Raise
    BY <1>6 DEF Return, Raise, EndWith
<1>7. CASE WriteStatus
    BY <1>7 DEF WriteStatus
<1>8. CASE UNCHANGED vars
    BY <1>8 DEF vars, consumerVars
<1> QED
    BY <1>1, <1>2, <1>3, <1>4, <1>5, <1>6, <1>7, <1>8 DEF Next, Consume

LEMMA OnePlaceStep ==
    ASSUME TypeOK, OneInProgress, OnePlace, [Next]_vars
    PROVE  OnePlace'
<1> USE NoJobAssumption
    DEF OnePlace, PendingOnce, PutOnce, OneInProgress, TypeOK, Statuses, Ended,
        Working, Ending, CPCs, HPCs, Waiting
<1>1. ASSUME NEW h \in Handlers, NEW j \in Jobs, Submit(h, j) PROVE OnePlace'
    <2>1. /\ \A i \in 1..Len(pending) : pending[i] # j
          /\ \A g \in Handlers : hpc[g] = "put" => hjob[g] # j
          /\ cpc = "claim" => held # j
        BY <1>1 DEF Submit
    <2>2. PendingOnce'
        BY <1>1, <2>1 DEF Submit, consumerVars
    <2>3. PutOnce'
        BY <1>1, <2>1 DEF Submit, Enter, consumerVars
    <2> QED
        BY <2>2, <2>3
<1>2. ASSUME NEW h \in Handlers, NEW j \in Jobs, Get(h, j) \/ Cancel(h, j)
      PROVE  OnePlace'
    <2>1. \A k \in Jobs : status[k] \in Waiting => status'[k] \in Waiting
        BY <1>2 DEF Get, Cancel
    <2>2. UNCHANGED <<pending, consumerVars>>
        BY <1>2 DEF Get, Cancel
    <2>3. \A g \in Handlers : hpc'[g] = "put" => hpc[g] = "put" /\ hjob'[g] = hjob[g]
        BY <1>2 DEF Get, Cancel, Enter
    <2>4. PendingOnce'
        BY <2>1, <2>2 DEF consumerVars
    <2>5. PutOnce'
        BY <2>1, <2>2, <2>3 DEF consumerVars
    <2> QED
        BY <2>4, <2>5
<1>3. ASSUME NEW h \in Handlers, Put(h) PROVE OnePlace'
    <2>1. /\ Len(pending') = Len(pending) + 1
          /\ \A i \in 1..Len(pending) : pending'[i] = pending[i]
          /\ pending'[Len(pending) + 1] = hjob[h]
        BY <1>3 DEF Put
    <2>2. hjob[h] \in Jobs
        BY <1>3 DEF Put
    <2>3. PendingOnce'
        BY <1>3, <2>1, <2>2 DEF Put, consumerVars
    <2>4. PutOnce'
        <3>1. hpc'[h] # "put" /\ \A g \in Handlers : hpc'[g] = "put" => hpc[g] = "put" /\ g # h
            BY <1>3 DEF Put
        <3>2. \A g \in Handlers : hpc'[g] = "put" => hjob[g] # hjob[h]
            BY <1>3, <3>1 DEF Put
        <3>3. \A i \in 1..Len(pending') : i \in 1..Len(pending) \/ i = Len(pending) + 1
            BY <2>1
        <3> QED
            BY <1>3, <2>1, <3>1, <3>2, <3>3 DEF Put, consumerVars
    <2> QED
        BY <2>3, <2>4
<1>4. ASSUME NEW h \in Handlers, ReadStatus(h) \/ ReadOutput(h) PROVE OnePlace'
    BY <1>4 DEF ReadStatus, ReadOutput, consumerVars
<1>5. CASE TakeNext
    <2>1. /\ Len(pending') = Len(pending) - 1
          /\ \A i \in 1..Len(pending') : pending'[i] = pending[i + 1]
          /\ held' = pending[1]
          /\ 1 \in 1..Len(pending)
        BY <1>5 DEF TakeNext
    <2>2. \A i \in 1..Len(pending') : i + 1 \in 1..Len(pending) /\ i + 1 # 1
        BY <2>1
    <2>3. PendingOnce'
        BY <1>5, <2>1, <2>2 DEF TakeNext
    <2>4. PutOnce'
        BY <1>5, <2>1, <2>2 DEF TakeNext, handlerVars
    <2> QED
        BY <2>3, <2>4
<1>6. CASE SkipCancelled
    BY <1>6 DEF SkipCancelled, handlerVars
<1>7. CASE Claim
    BY <1>7 DEF Claim, handlerVars
<1>8. CASE Return \/ Raise
    BY <1>8 DEF Return, Raise, EndWith, handlerVars
<1>9. CASE WriteStatus
    BY <1>9 DEF WriteStatus, handlerVars
<1>10. CASE UNCHANGED vars
    BY <1>10 DEF vars, consumerVars, handlerVars
<1> QED
    BY <1>1, <1>2, <1>3, <1>4, <1>5, <1>6, <1>7, <1>8, <1>9, <1>10
       DEF Next, Consume, Request, Proceed

LEMMA ReadsArePastStep ==
    ASSUME TypeOK, OneInProgress, ReadsArePast, OnePlace, [Next]_vars
    PROVE  ReadsArePast'
<1> USE DEF TypeOK, HPCs
<1>1. TypeOK'
    BY TypeStep
<1>2. \A j \in Jobs : Follows(status[j], status'[j])
    BY StatusForward
<1>3. \A s \in Statuses : \A j \in Jobs :
          Follows(s, status[j]) => Follows(s, status'[j])
    BY <1>1, <1>2, FollowsTransitive
<1>4. \A j \in Jobs : status[j] # "ABSENT" => status'[j] # "ABSENT"
    BY <1>2 DEF Follows
<1>5. CASE UNCHANGED <<handlerVars, told>>
    BY <1>3, <1>4, <1>5, NoJobAssumption DEF ReadsArePast, handlerVars
<1>6. ASSUME NEW h \in Handlers, NEW j \in Jobs,
             Enter(h, j, "put") \/ Enter(h, j, "status"), status'[j] # "ABSENT"
      PROVE  ReadsArePast'
    BY <1>3, <1>4, <1>6, NoJobAssumption DEF ReadsArePast, Enter
<1>7. ASSUME NEW h \in Handlers, Request(h) PROVE ReadsArePast'
    BY <1>6, <1>7 DEF Request, Submit, Get, Cancel
<1>8. ASSUME NEW h \in Handlers, Put(h) PROVE ReadsArePast'
    BY <1>3, <1>4, <1>8, NoJobAssumption DEF ReadsArePast, Put
<1>9. ASSUME NEW h \in Handlers, ReadStatus(h) PROVE ReadsArePast'
    BY <1>3, <1>4, <1>9, NoJobAssumption DEF ReadsArePast, ReadStatus, Follows
<1>10. ASSUME NEW h \in Handlers, ReadOutput(h) PROVE ReadsArePast'
    BY <1>3, <1>4, <1>10, NoJobAssumption DEF ReadsArePast, ReadOutput
<1>11. CASE Consume
    BY <1>5, <1>11 DEF Consume, TakeNext, SkipCancelled, Claim, Return, Raise,
                       EndWith, WriteStatus
<1>12. CASE UNCHANGED vars
    BY <1>5, <1>12 DEF vars
<1> QED
    BY <1>7, <1>8, <1>9, <1>10, <1>11, <1>12 DEF Next, Proceed

LEMMA InvInit == Init => IInv
<1> SUFFICES ASSUME Init PROVE IInv
    OBVIOUS
<1> USE NoJobAssumption DEF Init
<1>1. TypeOK
    BY TypeInit
<1>2. OneInProgress
    BY DEF OneInProgress, Working, Ending
<1>3. OutputMatches
    BY DEF OutputMatches, OutputFor
<1>4. OnePlace
    BY DEF OnePlace, PendingOnce, PutOnce
<1>5. ReadsArePast
    BY DEF ReadsArePast, Follows
<1> QED
    BY <1>1, <1>2, <1>3, <1>4, <1>5 DEF IInv

\* The invariant that carries the other results: where a job is, what its
\* status and output then are, and how they relate to what clients have read.
THEOREM Invariant == Spec => []IInv
<1>1. IInv /\ [Next]_vars => IInv'
    BY TypeStep, OneInProgressStep, OutputMatchesStep, OnePlaceStep, ReadsArePastStep
       DEF IInv
<1> QED
    BY InvInit, <1>1, PTL DEF Spec

-----------------------------------------------------------------------------
(* The safety properties *)

\* An answer that says how a job ended carries the output of that end, with
\* response() reading the two fields without the lock.
THEOREM AnswerIsWhole == Spec => []EndedAnswerIsWhole
<1>1. IInv => EndedAnswerIsWhole
    BY DEF IInv, EndedAnswerIsWhole, ReadsArePast, OutputMatches, OneInProgress,
           TypeOK, Follows, Ended, Ending, Working, HPCs
<1> QED
    BY <1>1, Invariant, PTL

\* No answer contradicts one given before its request began.
THEOREM NeverGoBack == Spec => []AnswersNeverGoBack
<1>1. IInv => AnswersNeverGoBack
    BY DEF IInv, AnswersNeverGoBack, ReadsArePast
<1> QED
    BY <1>1, Invariant, PTL

\* A job some client was told is cancelled is never run.
THEOREM CancelledNeverRuns == Spec => []ToldCancelledNeverRuns
<1>1. IInv => ToldCancelledNeverRuns
    <2> SUFFICES ASSUME IInv, NEW j \in Jobs, told[j] = "CANCELLED"
                 PROVE  /\ held = j => cpc = "claim"
                        /\ status[j] = "CANCELLED"
                        /\ output[j] = "none"
        BY DEF ToldCancelledNeverRuns
    <2>1. status[j] = "CANCELLED"
        BY DEF IInv, ReadsArePast, Follows
    <2>2. held = j => cpc = "claim"
        BY <2>1, NoJobAssumption DEF IInv, OneInProgress, TypeOK, CPCs, Working, Ending
    <2>3. output[j] = "none"
        BY <2>1, <2>2 DEF IInv, OutputMatches, OutputFor, Ended, Ending
    <2> QED
        BY <2>1, <2>2, <2>3
<1> QED
    BY <1>1, Invariant, PTL

-----------------------------------------------------------------------------
(* The threads implement one line of jobs *)

LEMMA LifecycleInit == Init => Lifecycle!Init
BY DEF Init, Lifecycle!Init, Line

LEMMA LifecycleStep ==
    ASSUME IInv, [Next]_vars
    PROVE  [Lifecycle!Next]_(Lifecycle!vars)
<1> USE NoJobAssumption
    DEF IInv, TypeOK, Lifecycle!vars, Lifecycle!Waiting, Lifecycle!InProgress
<1>1. cpc # "claim" => Line = pending
    BY DEF Line
<1>2. cpc = "claim" => Line # <<>> /\ Head(Line) = held /\ Tail(Line) = pending
    BY DEF Line
<1>3. cpc' # "claim" => Line' = pending'
    BY DEF Line
<1>4. UNCHANGED <<cpc, held, pending>> => UNCHANGED Line
    BY DEF Line
<1>5. ASSUME NEW h \in Handlers, NEW j \in Jobs, Submit(h, j)
      PROVE  Lifecycle!Register(j)
    BY <1>5, <1>4 DEF Submit, Lifecycle!Register, consumerVars
<1>6. ASSUME NEW h \in Handlers, NEW j \in Jobs, Get(h, j)
      PROVE  UNCHANGED Lifecycle!vars
    BY <1>6, <1>4 DEF Get, consumerVars
<1>7. ASSUME NEW h \in Handlers, NEW j \in Jobs, Cancel(h, j)
      PROVE  Lifecycle!Cancel(j) \/ UNCHANGED Lifecycle!vars
    BY <1>7, <1>4 DEF Cancel, Lifecycle!Cancel, consumerVars
<1>8. ASSUME NEW h \in Handlers, Put(h)
      PROVE  Lifecycle!Enqueue(hjob[h]) /\ hjob[h] \in Jobs
    <2>1. hjob[h] \in Jobs
        BY <1>8 DEF Put
    <2>2. status[hjob[h]] \in Waiting /\ UNCHANGED status
        BY <1>8 DEF Put, OnePlace, PutOnce
    <2>3. Line' = Append(Line, hjob[h])
        BY <1>8, <2>1 DEF Put, consumerVars, Line
    <2>4. \A i \in 1..Len(Line) : Line[i] # hjob[h]
        <3>1. CASE cpc = "claim"
            <4>1. /\ Len(Line) = Len(pending) + 1
                  /\ Line[1] = held
                  /\ \A i \in 1..Len(Line) : i # 1 =>
                        i - 1 \in 1..Len(pending) /\ Line[i] = pending[i - 1]
                BY <3>1 DEF Line
            <4>2. held # hjob[h] /\ \A i \in 1..Len(pending) : pending[i] # hjob[h]
                BY <1>8, <3>1 DEF Put, OnePlace, PutOnce
            <4> QED
                BY <4>1, <4>2
        <3>2. CASE cpc # "claim"
            BY <1>8, <1>1, <3>2 DEF Put, OnePlace, PutOnce
        <3> QED
            BY <3>1, <3>2
    <2> QED
        BY <2>1, <2>2, <2>3, <2>4 DEF Lifecycle!Enqueue, Waiting
<1>9. ASSUME NEW h \in Handlers, ReadStatus(h) \/ ReadOutput(h)
      PROVE  UNCHANGED Lifecycle!vars
    BY <1>9, <1>4 DEF ReadStatus, ReadOutput, consumerVars
<1>10. ASSUME TakeNext PROVE UNCHANGED Lifecycle!vars
    <2>1. Line' = Line
        BY <1>10, HeadTail DEF TakeNext, Line
    <2> QED
        BY <1>10, <2>1 DEF TakeNext
<1>11. ASSUME SkipCancelled PROVE Lifecycle!DropCancelled
    BY <1>2, <1>3, <1>11 DEF SkipCancelled, Lifecycle!DropCancelled
<1>12. ASSUME Claim PROVE Lifecycle!Start
    <2>1. status[held] = "IN_QUEUE"
        BY <1>12 DEF Claim, OneInProgress, Waiting
    <2>2. \A j \in Jobs : status[j] # "IN_PROGRESS"
        BY <1>12 DEF Claim, OneInProgress, Working, Ending
    <2> QED
        BY <1>2, <1>3, <1>12, <2>1, <2>2 DEF Claim, Lifecycle!Start
<1>13. ASSUME Return \/ Raise PROVE UNCHANGED Lifecycle!vars
    BY <1>1, <1>3, <1>13 DEF Return, Raise, EndWith, Ending
<1>14. ASSUME WriteStatus PROVE held \in Jobs /\ Lifecycle!End(held)
    <2>1. held \in Jobs /\ status[held] = "IN_PROGRESS"
        BY <1>14 DEF WriteStatus, OneInProgress, Working, Ending
    <2> QED
        BY <1>1, <1>3, <1>14, <2>1 DEF WriteStatus, Lifecycle!End, Ending
<1>15. CASE UNCHANGED vars
    BY <1>4, <1>15 DEF vars, consumerVars
<1>16. ASSUME NEW h \in Handlers, Request(h) PROVE [Lifecycle!Next]_(Lifecycle!vars)
    BY <1>5, <1>6, <1>7, <1>16 DEF Request, Lifecycle!Next
<1>17. ASSUME NEW h \in Handlers, Proceed(h) PROVE [Lifecycle!Next]_(Lifecycle!vars)
    BY <1>8, <1>9, <1>17 DEF Proceed, Lifecycle!Next
<1>18. CASE Consume
    BY <1>10, <1>11, <1>12, <1>13, <1>14, <1>18 DEF Consume, Lifecycle!Next
<1> QED
    BY <1>15, <1>16, <1>17, <1>18 DEF Next

\* The consumer and the request threads together are one line of jobs, served
\* in order, one at a time, each started at most once and never after it was
\* cancelled.
THEOREM Refinement == Spec => ImplementsLifecycle
BY LifecycleInit, LifecycleStep, Invariant, PTL DEF Spec, ImplementsLifecycle, Lifecycle!Spec
=============================================================================
