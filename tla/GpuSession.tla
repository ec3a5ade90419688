----------------------------- MODULE GpuSession -----------------------------
(***************************************************************************)
(* Who uses the GPU of a pod, and when (handler.py, research_client.py,    *)
(* research_service.py).                                                   *)
(*                                                                         *)
(* handle_job runs a batch or an event in its own process, or sends a      *)
(* research request to the isolated service and waits for the answer; both *)
(* under _GPU_SESSION_LOCK, which is taken without blocking.  The service  *)
(* handles one connection at a time: it opens a broker session, runs the   *)
(* sandboxed model in a child process that uses the GPU, revokes the       *)
(* session and answers.  The client and the service keep separate clocks:  *)
(* a client that waited serviceTimeout leaves, releases the lock and       *)
(* closes its connection, and the service does not notice.                 *)
(*                                                                         *)
(* Time advances in ticks, and a tick waits for whoever is at a limit.     *)
(* Accepting a connection that is there, delivering an answer and killing  *)
(* the child at its limit take no time.                                    *)
(***************************************************************************)
EXTENDS Naturals, Sequences

CONSTANTS
    Callers,            \* threads that may be in handle_job
    Nobody,             \* no caller; in a connection: the client has left
    ServiceTimeouts,    \* values of FW_RESEARCH_SERVICE_TIMEOUT_SECONDS, in ticks
    ConfigureLimit,     \* limit of the configure call to the broker
    ModelTimeout,       \* FW_RESEARCH_MODEL_TIMEOUT_SECONDS
    RevokeLimit,        \* limit of the revoke call to the broker
    Backlog             \* connections the service's socket keeps waiting

ASSUME CallersAssumption == Nobody \notin Callers
ASSUME TimesAssumption ==
    /\ ServiceTimeouts \subseteq Nat
    /\ ConfigureLimit \in Nat
    /\ ModelTimeout \in Nat
    /\ RevokeLimit \in Nat
    /\ Backlog \in Nat \ {0}

VARIABLES
    serviceTimeout, \* how long the client waits for the service, read from the environment
    lock,       \* _GPU_SESSION_LOCK: the caller that holds it, or Nobody
    pc,         \* per caller: "idle", "infer" in this process, or "wait"
    waited,     \* ticks since the caller sent its research request
    answer,     \* what the last handle_job of the caller returned
    backlog,    \* connections the service has not accepted yet
    serving,    \* client of the connection the service handles
    spc,        \* what the service is doing
    elapsed     \* ticks it has been doing that

callerVars  == <<lock, pc, waited, answer>>
serviceVars == <<backlog, serving, spc, elapsed>>
moving == <<callerVars, serviceVars>>
vars == <<serviceTimeout, moving>>

PCs     == {"idle", "infer", "wait"}
SPCs    == {"accept", "configure", "child", "revoke", "revoke_failed"}
Answers == {"none", "busy", "done", "failed", "timeout"}

Init ==
    /\ serviceTimeout \in ServiceTimeouts
    /\ lock = Nobody
    /\ pc = [c \in Callers |-> "idle"]
    /\ waited = [c \in Callers |-> 0]
    /\ answer = [c \in Callers |-> "none"]
    /\ backlog = <<>>
    /\ serving = Nobody
    /\ spc = "accept"
    /\ elapsed = 0

-----------------------------------------------------------------------------
(* handle_job *)

\* handle_job of c returns: the lock is released in a finally block.
Leave(c, a) ==
    /\ lock' = Nobody
    /\ pc' = [pc EXCEPT ![c] = "idle"]
    /\ waited' = [waited EXCEPT ![c] = 0]
    /\ answer' = [answer EXCEPT ![c] = a]

\* A batch or research job that finds the lock taken fails and may be retried;
\* an event goes on without image perception.
Busy(c) ==
    /\ pc[c] = "idle"
    /\ lock # Nobody
    /\ answer' = [answer EXCEPT ![c] = "busy"]
    /\ UNCHANGED <<lock, pc, waited, serviceVars>>

\* (mutant) inference does not look at the lock
InferWithoutLock(c) ==
    /\ pc[c] = "idle"
    /\ lock' = c
    /\ pc' = [pc EXCEPT ![c] = "infer"]
    /\ UNCHANGED <<waited, answer, serviceVars>>

\* A batch, or an event whose images need inference.
Infer(c) ==
    /\ pc[c] = "idle"
    /\ lock = Nobody
    /\ lock' = c
    /\ pc' = [pc EXCEPT ![c] = "infer"]
    /\ UNCHANGED <<waited, answer, serviceVars>>

EndInfer(c) ==
    /\ pc[c] = "infer"
    /\ \E a \in {"done", "failed"} : Leave(c, a)
    /\ UNCHANGED serviceVars

\* run_isolated_research: connect, send, and wait in recv.
Send(c) ==
    /\ pc[c] = "idle"
    /\ lock = Nobody
    /\ Len(backlog) < Backlog
    /\ lock' = c
    /\ pc' = [pc EXCEPT ![c] = "wait"]
    /\ waited' = [waited EXCEPT ![c] = 0]
    /\ backlog' = Append(backlog, c)
    /\ UNCHANGED <<answer, serving, spc, elapsed>>

\* A local socket whose backlog is full refuses the connection at once: the
\* job fails and may be retried, and the lock is free again.
Refused(c) ==
    /\ pc[c] = "idle"
    /\ lock = Nobody
    /\ Len(backlog) = Backlog
    /\ answer' = [answer EXCEPT ![c] = "failed"]
    /\ UNCHANGED <<lock, pc, waited, serviceVars>>

\* (mutant) the lock is not released when the call raises
GiveUpWithoutFinally(c) ==
    /\ pc[c] = "wait"
    /\ waited[c] = serviceTimeout
    /\ pc' = [pc EXCEPT ![c] = "idle"]
    /\ waited' = [waited EXCEPT ![c] = 0]
    /\ answer' = [answer EXCEPT ![c] = "timeout"]
    /\ backlog' = [i \in 1..Len(backlog) |-> IF backlog[i] = c THEN Nobody ELSE backlog[i]]
    /\ serving' = IF serving = c THEN Nobody ELSE serving
    /\ UNCHANGED <<lock, spc, elapsed>>

\* The client's socket times out: its request stays with the service.
GiveUp(c) ==
    /\ pc[c] = "wait"
    /\ waited[c] = serviceTimeout
    /\ Leave(c, "timeout")
    /\ backlog' = [i \in 1..Len(backlog) |-> IF backlog[i] = c THEN Nobody ELSE backlog[i]]
    /\ serving' = IF serving = c THEN Nobody ELSE serving
    /\ UNCHANGED <<spc, elapsed>>

-----------------------------------------------------------------------------
(* The research service: execute_research, one connection at a time *)

\* (mutant) the child is given as long as the client waits
LimitOfClient(p) ==
    IF p = "configure" THEN ConfigureLimit
    ELSE IF p = "child" THEN serviceTimeout
    ELSE IF p \in {"revoke", "revoke_failed"} THEN RevokeLimit ELSE 0

\* The time the service may spend in a phase.
Limit(p) ==
    IF p = "configure" THEN ConfigureLimit
    ELSE IF p = "child" THEN ModelTimeout
    ELSE IF p \in {"revoke", "revoke_failed"} THEN RevokeLimit ELSE 0

Phase(p) == spc' = p /\ elapsed' = 0

Accept ==
    /\ spc = "accept"
    /\ backlog # <<>>
    /\ serving' = Head(backlog)
    /\ backlog' = Tail(backlog)
    /\ Phase("configure")
    /\ UNCHANGED callerVars

StartChild ==
    /\ spc = "configure"
    /\ Phase("child")
    /\ UNCHANGED <<callerVars, backlog, serving>>

\* The child ends by itself or is killed at its limit; its result may be refused.
EndChild ==
    /\ spc = "child"
    /\ \/ Phase("revoke")
       \/ Phase("revoke_failed")
    /\ UNCHANGED <<callerVars, backlog, serving>>

\* (mutant) the answer is returned before the lock is released
ReplyKeepsLock(a) ==
    /\ IF serving \in Callers
       THEN /\ pc' = [pc EXCEPT ![serving] = "idle"]
            /\ waited' = [waited EXCEPT ![serving] = 0]
            /\ answer' = [answer EXCEPT ![serving] = a]
            /\ UNCHANGED lock
       ELSE UNCHANGED callerVars
    /\ serving' = Nobody
    /\ Phase("accept")
    /\ UNCHANGED backlog

\* The answer reaches a client that is still there.
Reply(a) ==
    /\ IF serving \in Callers THEN Leave(serving, a) ELSE UNCHANGED callerVars
    /\ serving' = Nobody
    /\ Phase("accept")
    /\ UNCHANGED backlog

\* Without a session nothing is started, and nothing revoked.
ConfigureFails == spc = "configure" /\ Reply("failed")

\* A revoke call that fails replaces the result, even a good one.
Revoked      == spc = "revoke" /\ Reply("done")
RevokeFails  == spc = "revoke" /\ Reply("failed")
FailedIsSent == spc = "revoke_failed" /\ Reply("failed")

-----------------------------------------------------------------------------
\* A connection that waits for a free service is accepted before time passes.
Tick ==
    /\ spc = "accept" => backlog = <<>>
    /\ spc # "accept" => elapsed < Limit(spc)
    /\ \A c \in Callers : pc[c] = "wait" => waited[c] < serviceTimeout
    /\ waited' = [c \in Callers |-> IF pc[c] = "wait" THEN waited[c] + 1 ELSE 0]
    /\ elapsed' = IF spc = "accept" THEN 0 ELSE elapsed + 1
    /\ UNCHANGED <<lock, pc, answer, backlog, serving, spc>>

Caller(c) == Busy(c) \/ Infer(c) \/ EndInfer(c) \/ Send(c) \/ Refused(c) \/ GiveUp(c)

Service == \/ Accept \/ StartChild \/ EndChild
           \/ ConfigureFails \/ Revoked \/ RevokeFails \/ FailedIsSent

Next == /\ Tick \/ Service \/ \E c \in Callers : Caller(c)
        /\ UNCHANGED serviceTimeout

Spec == Init /\ [][Next]_vars

\* Time passes, the service goes on, inference in this process ends, and a
\* client at its limit leaves.  Nobody has to call handle_job.
Fairness ==
    /\ WF_moving(Tick)
    /\ WF_moving(Service)
    /\ \A c \in Callers : WF_moving(EndInfer(c)) /\ WF_moving(GiveUp(c))

FairSpec == Spec /\ Fairness

-----------------------------------------------------------------------------
(* Properties *)

\* Every variable has its type, a caller is past the lock exactly while it
\* holds it (handler.py:268-285, 318-330, 369-424), and a client listens to at
\* most one connection.
TypeOK ==
    /\ serviceTimeout \in ServiceTimeouts
    /\ lock \in Callers \cup {Nobody}
    /\ pc \in [Callers -> PCs]
    /\ waited \in [Callers -> 0..serviceTimeout]
    /\ answer \in [Callers -> Answers]
    /\ backlog \in Seq(Callers \cup {Nobody})
    /\ Len(backlog) <= Backlog
    /\ serving \in Callers \cup {Nobody}
    /\ spc \in SPCs
    /\ elapsed \in Nat
    /\ \A c \in Callers : pc[c] # "idle" <=> lock = c

\* The client waits longer than the service can take.
Nested == ConfigureLimit + ModelTimeout + RevokeLimit < serviceTimeout

\* At most one of them uses the GPU: the handlers that infer in this process
\* and the sandboxed child, which belongs to another process and to no lock
\* (pod_server.py:45).
GpuIsExclusive ==
    /\ \A c, d \in Callers : pc[c] = "infer" /\ pc[d] = "infer" => c = d
    /\ spc = "child" => \A c \in Callers : pc[c] # "infer"

\* ... which needs a client that waits longer than the three limits inside the
\* service add up to.  The limits are set apart from each other
\* (research_client.py:26, research_rpc.py:51, research_service.py:123).
NestedIsExclusive == Nested => GpuIsExclusive

\* Whatever the timeouts are, the GPU is shared only with a child whose client
\* has left: while the client of the running child waits, nobody infers.
GpuIsSharedOnlyWhenAbandoned ==
    spc = "child" /\ serving # Nobody => \A c \in Callers : pc[c] # "infer"

\* With such a client no research job is given up while the service still works
\* for it, and none queues behind another one (research_client.py:23-28).
AnsweredInTime == \A c \in Callers : answer[c] # "timeout"

NestedIsInTime == Nested => AnsweredInTime

\* Whoever takes the lock gives it back, whatever happens in the service.
LockIsReleased == \A c \in Callers : lock = c ~> lock # c

-----------------------------------------------------------------------------
(* Why they hold: what is always true of the connections *)

\* The service knows only callers that wait, and each in one connection.
OneConnection ==
    /\ \A c \in Callers : pc[c] # "wait" =>
            serving # c /\ \A i \in 1..Len(backlog) : backlog[i] # c
    /\ \A c \in Callers : serving = c =>
            \A i \in 1..Len(backlog) : backlog[i] # c
    /\ \A i, k \in 1..Len(backlog) :
            backlog[i] = backlog[k] /\ backlog[i] # Nobody => i = k

ConnectionInv == TypeOK /\ OneConnection

-----------------------------------------------------------------------------
(* ... and what is true if the limits nest *)

\* What the service may have spent before it entered a phase.
Before(p) ==
    IF p = "child" THEN ConfigureLimit
    ELSE IF p \in {"revoke", "revoke_failed"} THEN ConfigureLimit + ModelTimeout ELSE 0

\* The service works for a client that waits, and has been waiting no longer
\* than the service has been working; nobody else is in the backlog.
ServiceIsAwaited ==
    /\ spc = "accept" => serving = Nobody /\ elapsed = 0
    /\ spc # "accept" =>
            /\ serving \in Callers
            /\ pc[serving] = "wait"
            /\ backlog = <<>>
            /\ elapsed <= Limit(spc)
            /\ waited[serving] <= Before(spc) + elapsed

\* A request in the backlog is alone there, new, and found by an idle service.
BacklogIsAwaited ==
    /\ backlog # <<>> => /\ spc = "accept"
                         /\ \E c \in Callers : /\ backlog = <<c>>
                                               /\ pc[c] = "wait"
                                               /\ waited[c] = 0
    /\ \A c \in Callers : pc[c] = "wait" => serving = c \/ backlog = <<c>>

NestedInv == Nested => ServiceIsAwaited /\ BacklogIsAwaited /\ AnsweredInTime
=============================================================================
