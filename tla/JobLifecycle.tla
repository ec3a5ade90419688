---------------------------- MODULE JobLifecycle ----------------------------
(***************************************************************************)
(* What the persistent pod promises about a job, whatever threads it uses: *)
(* jobs wait in one line, the head of the line is either started or, if it *)
(* was cancelled while it waited, dropped; at most one job is in progress; *)
(* a job ends once, and an ended job stays as it is.                       *)
(***************************************************************************)
EXTENDS Naturals, Sequences

CONSTANT Jobs

VARIABLES
    status,     \* status of every job; "ABSENT" until it is registered
    line        \* jobs waiting to be started, in the order they are served

vars == <<status, line>>

Waiting    == "IN_QUEUE"
InProgress == "IN_PROGRESS"
Ended      == {"COMPLETED", "FAILED", "CANCELLED"}
Statuses   == {"ABSENT", Waiting, InProgress} \cup Ended

Init ==
    /\ status = [j \in Jobs |-> "ABSENT"]
    /\ line = <<>>

Register(j) ==
    /\ status[j] = "ABSENT"
    /\ status' = [status EXCEPT ![j] = Waiting]
    /\ UNCHANGED line

\* A job that is not in progress and has not run joins the line, in one place.
Enqueue(j) ==
    /\ status[j] \in {Waiting, "CANCELLED"}
    /\ \A i \in 1..Len(line) : line[i] # j
    /\ line' = Append(line, j)
    /\ UNCHANGED status

Cancel(j) ==
    /\ status[j] = Waiting
    /\ status' = [status EXCEPT ![j] = "CANCELLED"]
    /\ UNCHANGED line

Start ==
    /\ line # <<>>
    /\ status[Head(line)] = Waiting
    /\ \A j \in Jobs : status[j] # InProgress
    /\ status' = [status EXCEPT ![Head(line)] = InProgress]
    /\ line' = Tail(line)

DropCancelled ==
    /\ line # <<>>
    /\ status[Head(line)] = "CANCELLED"
    /\ line' = Tail(line)
    /\ UNCHANGED status

End(j) ==
    /\ status[j] = InProgress
    /\ \E s \in {"COMPLETED", "FAILED"} : status' = [status EXCEPT ![j] = s]
    /\ UNCHANGED line

Next ==
    \/ \E j \in Jobs : Register(j) \/ Enqueue(j) \/ Cancel(j) \/ End(j)
    \/ Start
    \/ DropCancelled

Spec == Init /\ [][Next]_vars
=============================================================================
