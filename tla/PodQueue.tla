------------------------------ MODULE PodQueue ------------------------------
(***************************************************************************)
(* The HTTP job queue of the persistent pod (pod_server.py).               *)
(*                                                                         *)
(* One consumer thread (_consume) and one thread per HTTP request (the     *)
(* ThreadingHTTPServer) share the dictionary of jobs and the pending       *)
(* queue.  A block under self._lock is one step, except the two that end a *)
(* job: PodJob.response reads status and then output WITHOUT the lock, so  *)
(* the two writes of such a block can be seen apart and are two steps.     *)
(* Every read or write of one attribute is atomic (the interpreter lock).  *)
(*                                                                         *)
(* Times (delayTime, executionTime), authentication and the parsing of the *)
(* request are left out; a job's identifier is a fresh uuid, so a member   *)
(* of Jobs is submitted at most once.                                      *)
(***************************************************************************)
EXTENDS Naturals, Sequences

CONSTANTS
    Jobs,       \* job identifiers
    Handlers,   \* request threads alive at once
    NoJob

ASSUME NoJobAssumption == NoJob \notin Jobs

VARIABLES
    status,     \* PodJob.status; "ABSENT" while the job is not in _jobs
    output,     \* PodJob.output: "none", "result" or "failure"
    pending,    \* _pending, a FIFO queue of job identifiers
    cpc,        \* where the consumer thread is
    held,       \* the job the consumer took from _pending
    hpc,        \* where each request thread is
    hjob,       \* the job the request is about
    hstatus,    \* the status response() has read
    told,       \* history: the latest status any client was told, per job
    floor       \* history: told[job] when the current request began

consumerVars == <<cpc, held>>
handlerVars  == <<hpc, hjob, hstatus, floor>>
vars == <<status, output, pending, consumerVars, handlerVars, told>>

Ended     == {"COMPLETED", "FAILED", "CANCELLED"}
Statuses  == {"ABSENT", "IN_QUEUE", "IN_PROGRESS"} \cup Ended
Outputs   == {"none", "result", "failure"}
Ending    == {"completing", "failing"}      \* between the writes of lines 88-90 / 93-103
CPCs      == {"get", "claim", "run"} \cup Ending
HPCs      == {"idle", "put", "status", "output"}

\* Only the consumer keeps self._lock across two of our steps.
LockFree == cpc \notin Ending

Init ==
    /\ status = [j \in Jobs |-> "ABSENT"]
    /\ output = [j \in Jobs |-> "none"]
    /\ pending = <<>>
    /\ cpc = "get"
    /\ held = NoJob
    /\ hpc = [h \in Handlers |-> "idle"]
    /\ hjob = [h \in Handlers |-> NoJob]
    /\ hstatus = [h \in Handlers |-> "ABSENT"]
    /\ told = [j \in Jobs |-> "ABSENT"]
    /\ floor = [h \in Handlers |-> "ABSENT"]

-----------------------------------------------------------------------------
(* What one status says about a later one: a job goes forward only. *)

Follows(s, t) ==
    \/ s = t
    \/ s = "ABSENT"
    \/ s = "IN_QUEUE" /\ t # "ABSENT"
    \/ s = "IN_PROGRESS" /\ t \in {"COMPLETED", "FAILED"}

\* Request h about job j goes on at pc.  It begins here, so what clients have
\* been told by now is what its answer may not contradict.
Enter(h, j, pc) ==
    /\ hpc' = [hpc EXCEPT ![h] = pc]
    /\ hjob' = [hjob EXCEPT ![h] = j]
    /\ floor' = [floor EXCEPT ![h] = told[j]]
    /\ UNCHANGED <<hstatus, told>>

-----------------------------------------------------------------------------
(* Request threads *)

\* submit: the job is registered under the lock and queued after it.
Submit(h, j) ==
    /\ hpc[h] = "idle"
    /\ LockFree
    /\ status[j] = "ABSENT"
    /\ status' = [status EXCEPT ![j] = "IN_QUEUE"]
    /\ Enter(h, j, "put")
    /\ UNCHANGED <<output, pending, consumerVars>>

Put(h) ==
    /\ hpc[h] = "put"
    /\ pending' = Append(pending, hjob[h])
    /\ hpc' = [hpc EXCEPT ![h] = "status"]
    /\ UNCHANGED <<status, output, consumerVars, hjob, hstatus, floor, told>>

\* GET and cancel of an identifier that is not in _jobs are answered 404 and
\* change nothing.
Get(h, j) ==
    /\ hpc[h] = "idle"
    /\ LockFree
    /\ status[j] # "ABSENT"
    /\ Enter(h, j, "status")
    /\ UNCHANGED <<status, output, pending, consumerVars>>

\* (mutant) cancel without the test of the status
CancelAnyStatus(h, j) ==
    /\ hpc[h] = "idle"
    /\ LockFree
    /\ status[j] # "ABSENT"
    /\ status' = [status EXCEPT ![j] = "CANCELLED"]
    /\ Enter(h, j, "status")
    /\ UNCHANGED <<output, pending, consumerVars>>

\* cancel answers with the job whether or not it could cancel it.
Cancel(h, j) ==
    /\ hpc[h] = "idle"
    /\ LockFree
    /\ status[j] # "ABSENT"
    /\ status' = IF status[j] = "IN_QUEUE" THEN [status EXCEPT ![j] = "CANCELLED"] ELSE status
    /\ Enter(h, j, "status")
    /\ UNCHANGED <<output, pending, consumerVars>>

\* PodJob.response, without the lock: status first, output second.
ReadStatus(h) ==
    /\ hpc[h] = "status"
    /\ hstatus' = [hstatus EXCEPT ![h] = status[hjob[h]]]
    /\ hpc' = [hpc EXCEPT ![h] = "output"]
    /\ UNCHANGED <<status, output, pending, consumerVars, hjob, floor, told>>

ReadOutput(h) ==
    /\ hpc[h] = "output"
    /\ told' = [told EXCEPT ![hjob[h]] = IF Follows(@, hstatus[h]) THEN hstatus[h] ELSE @]
    /\ hpc' = [hpc EXCEPT ![h] = "idle"]
    /\ hjob' = [hjob EXCEPT ![h] = NoJob]
    /\ hstatus' = [hstatus EXCEPT ![h] = "ABSENT"]
    /\ floor' = [floor EXCEPT ![h] = "ABSENT"]
    /\ UNCHANGED <<status, output, pending, consumerVars>>

-----------------------------------------------------------------------------
(* The consumer thread *)

\* (mutant) a LifoQueue in place of the Queue
TakeNewest ==
    /\ cpc = "get"
    /\ pending # <<>>
    /\ held' = pending[Len(pending)]
    /\ pending' = SubSeq(pending, 1, Len(pending) - 1)
    /\ cpc' = "claim"
    /\ UNCHANGED <<status, output, handlerVars, told>>

TakeNext ==
    /\ cpc = "get"
    /\ pending # <<>>
    /\ held' = Head(pending)
    /\ pending' = Tail(pending)
    /\ cpc' = "claim"
    /\ UNCHANGED <<status, output, handlerVars, told>>

SkipCancelled ==
    /\ cpc = "claim"
    /\ status[held] = "CANCELLED"
    /\ cpc' = "get"
    /\ held' = NoJob
    /\ UNCHANGED <<status, output, pending, handlerVars, told>>

\* (mutant) the consumer does not look for a cancellation
ClaimAnyStatus ==
    /\ cpc = "claim"
    /\ status' = [status EXCEPT ![held] = "IN_PROGRESS"]
    /\ cpc' = "run"
    /\ UNCHANGED <<output, pending, held, handlerVars, told>>

Claim ==
    /\ cpc = "claim"
    /\ status[held] # "CANCELLED"
    /\ status' = [status EXCEPT ![held] = "IN_PROGRESS"]
    /\ cpc' = "run"
    /\ UNCHANGED <<output, pending, held, handlerVars, told>>

\* (mutant) the status is written before the output
EndStatusFirst(pc, o) ==
    /\ cpc = "run"
    /\ status' = [status EXCEPT ![held] = IF pc = "completing" THEN "COMPLETED" ELSE "FAILED"]
    /\ cpc' = pc
    /\ UNCHANGED <<output, pending, held, handlerVars, told>>

\* handle_job ends, the consumer takes the lock and writes the output ...
EndWith(pc, o) ==
    /\ cpc = "run"
    /\ output' = [output EXCEPT ![held] = o]
    /\ cpc' = pc
    /\ UNCHANGED <<status, pending, held, handlerVars, told>>

Return == EndWith("completing", "result")
Raise  == EndWith("failing", "failure")

\* (mutant) the job's status is the "succeeded" of the batch output
WriteBatchStatus ==
    /\ cpc \in Ending
    /\ status' = [status EXCEPT ![held] =
                    IF cpc = "completing" THEN "succeeded" ELSE "FAILED"]
    /\ cpc' = "get"
    /\ held' = NoJob
    /\ UNCHANGED <<output, pending, handlerVars, told>>

\* (mutant) the exception handler stores the output only
WriteStatusOfResult ==
    /\ cpc \in Ending
    /\ status' = IF cpc = "completing" THEN [status EXCEPT ![held] = "COMPLETED"] ELSE status
    /\ cpc' = "get"
    /\ held' = NoJob
    /\ UNCHANGED <<output, pending, handlerVars, told>>

\* ... and then the status, and only now releases the lock.
WriteStatus ==
    /\ cpc \in Ending
    /\ status' = [status EXCEPT ![held] =
                    IF cpc = "completing" THEN "COMPLETED" ELSE "FAILED"]
    /\ cpc' = "get"
    /\ held' = NoJob
    /\ UNCHANGED <<output, pending, handlerVars, told>>

-----------------------------------------------------------------------------
Request(h) == \E j \in Jobs :
    Submit(h, j) \/ Get(h, j) \/ Cancel(h, j)

Proceed(h) == Put(h) \/ ReadStatus(h) \/ ReadOutput(h)

Consume == TakeNext \/ SkipCancelled \/ Claim \/ Return \/ Raise \/ WriteStatus

Next == Consume \/ \E h \in Handlers : Request(h) \/ Proceed(h)

Spec == Init /\ [][Next]_vars

\* The consumer is a daemon thread that always goes on, handle_job returns or
\* raises, and a request thread that began goes on.  No client has to call.
Fairness == WF_vars(Consume) /\ \A h \in Handlers : WF_vars(Proceed(h))

FairSpec == Spec /\ Fairness

-----------------------------------------------------------------------------
(* Properties *)

\* Every variable holds a value of its type; the consumer holds a job exactly
\* between _pending.get() and task_done() (pod_server.py:72-105).
TypeOK ==
    /\ status \in [Jobs -> Statuses]
    /\ output \in [Jobs -> Outputs]
    /\ pending \in Seq(Jobs)
    /\ cpc \in CPCs
    /\ held \in Jobs \cup {NoJob}
    /\ cpc = "get" <=> held = NoJob
    /\ hpc \in [Handlers -> HPCs]
    /\ hjob \in [Handlers -> Jobs \cup {NoJob}]
    /\ \A h \in Handlers : hpc[h] = "idle" <=> hjob[h] = NoJob
    /\ hstatus \in [Handlers -> Statuses]
    /\ told \in [Jobs -> Statuses]
    /\ floor \in [Handlers -> Statuses]

\* A client that reads COMPLETED gets the result in the same answer, one that
\* reads FAILED gets the failure, and one that reads CANCELLED gets no output,
\* although response() takes no lock (pod_server.py:33-41): it reads the two
\* fields in the opposite order to the one in which the consumer writes them.
OutputFor(s) == IF s = "COMPLETED" THEN "result"
                ELSE IF s = "FAILED" THEN "failure" ELSE "none"

EndedAnswerIsWhole == \A h \in Handlers :
    hpc[h] = "output" /\ hstatus[h] \in Ended =>
        output[hjob[h]] = OutputFor(hstatus[h])

\* An answer never contradicts an older one: if some client was told a status
\* before this request began, the status this request reads is that one or a
\* later stage of the job, whichever threads served the two.  In particular a
\* job once reported ended is reported with the same end for ever.
AnswersNeverGoBack == \A h \in Handlers :
    hpc[h] = "output" => Follows(floor[h], hstatus[h])

\* Once a client has been told CANCELLED, handle_job is not running that job,
\* does not run it later and leaves no output for it; the consumer may at most
\* still be about to skip it.
ToldCancelledNeverRuns == \A j \in Jobs :
    told[j] = "CANCELLED" => /\ held = j => cpc = "claim"
                             /\ status[j] = "CANCELLED"
                             /\ output[j] = "none"

-----------------------------------------------------------------------------
(* Why the properties hold: the inductive invariant *)

Waiting == {"IN_QUEUE", "CANCELLED"}     \* what a job not yet decided about can be
Working == {"run"} \cup Ending

\* A job is in progress exactly while the consumer works on it.
OneInProgress ==
    /\ \A j \in Jobs : status[j] = "IN_PROGRESS" => held = j /\ cpc \in Working
    /\ cpc \in Working => status[held] = "IN_PROGRESS"
    /\ cpc = "claim" => status[held] \in Waiting

\* A job has an output from just before its status says that it ended.
OutputMatches == \A j \in Jobs :
    output[j] = IF held = j /\ cpc = "completing" THEN "result"
                ELSE IF held = j /\ cpc = "failing" THEN "failure"
                ELSE OutputFor(status[j])

\* A job not yet decided about is in one place: about to be put, in the queue,
\* or in the consumer's hands.
PendingOnce ==
    /\ \A i \in 1..Len(pending) : status[pending[i]] \in Waiting
    /\ \A i, k \in 1..Len(pending) : pending[i] = pending[k] => i = k
    /\ cpc = "claim" => \A i \in 1..Len(pending) : pending[i] # held

PutOnce ==
    /\ \A h \in Handlers : hpc[h] = "put" =>
            /\ status[hjob[h]] \in Waiting
            /\ \A i \in 1..Len(pending) : pending[i] # hjob[h]
            /\ cpc = "claim" => held # hjob[h]
    /\ \A h, g \in Handlers :
            hpc[h] = "put" /\ hpc[g] = "put" /\ hjob[h] = hjob[g] => h = g

OnePlace == PendingOnce /\ PutOnce

\* What was read or told is the status of the job or an earlier one.
ReadsArePast ==
    /\ \A j \in Jobs : Follows(told[j], status[j])
    /\ \A h \in Handlers : hpc[h] # "idle" =>
            status[hjob[h]] # "ABSENT" /\ Follows(floor[h], status[hjob[h]])
    /\ \A h \in Handlers : hpc[h] = "output" =>
            Follows(hstatus[h], status[hjob[h]]) /\ Follows(floor[h], hstatus[h])

IInv == TypeOK /\ OneInProgress /\ OutputMatches /\ OnePlace /\ ReadsArePast

-----------------------------------------------------------------------------
(* The abstract specification *)

\* The line of the abstract specification: what the consumer has taken but not
\* yet decided about is still first in line.
Line == IF cpc = "claim" THEN <<held>> \o pending ELSE pending

Lifecycle == INSTANCE JobLifecycle WITH line <- Line

\* The threads together implement one line of jobs served in order, one at a
\* time, each started at most once and never after it was cancelled
\* (docstring of PodJobQueue, pod_server.py:45).
ImplementsLifecycle == Lifecycle!Spec

\* A job that was registered is eventually ended: neither a cancellation that
\* races with the consumer nor an exception of handle_job stops the queue.
EveryJobEnds == \A j \in Jobs : status[j] = "IN_QUEUE" ~> status[j] \in Ended
=============================================================================
