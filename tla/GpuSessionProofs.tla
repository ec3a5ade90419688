-------------------------- MODULE GpuSessionProofs --------------------------
(***************************************************************************)
(* GpuSession for any callers, any limits and any backlog: what holds      *)
(* always, and what holds when the limits nest.                            *)
(***************************************************************************)
EXTENDS GpuSession, TLAPS

USE CallersAssumption, TimesAssumption DEF PCs, SPCs, Answers

-----------------------------------------------------------------------------
(* What holds always *)

\* handle_job of a caller that is past the lock returns.
LEMMA LeaveType ==
    ASSUME TypeOK, NEW c \in Callers, pc[c] # "idle", NEW a \in Answers,
           Leave(c, a), UNCHANGED serviceTimeout
    PROVE  /\ lock' \in Callers \cup {Nobody}
           /\ pc' \in [Callers -> PCs]
           /\ waited' \in [Callers -> 0..serviceTimeout']
           /\ answer' \in [Callers -> Answers]
           /\ \A d \in Callers : pc'[d] # "idle" <=> lock' = d
BY DEF TypeOK, Leave

\* A client that leaves is forgotten in its place.
LEMMA GiveUpBacklog ==
    ASSUME TypeOK, NEW c \in Callers, GiveUp(c)
    PROVE  /\ backlog' \in Seq(Callers \cup {Nobody})
           /\ Len(backlog') = Len(backlog)
           /\ \A i \in 1..Len(backlog) :
                  backlog'[i] = IF backlog[i] = c THEN Nobody ELSE backlog[i]
BY DEF TypeOK, GiveUp

LEMMA TypeStep == ConnectionInv /\ [Next]_vars => TypeOK'
<1> SUFFICES ASSUME ConnectionInv, [Next]_vars PROVE TypeOK'
    OBVIOUS
<1> USE DEF TypeOK, ConnectionInv
<1>0. UNCHANGED serviceTimeout
    BY DEF Next, vars
<1>1. ASSUME NEW c \in Callers, Busy(c) \/ Refused(c) PROVE TypeOK'
    BY <1>0, <1>1 DEF Busy, Refused, serviceVars
<1>2. ASSUME NEW c \in Callers, Infer(c) PROVE TypeOK'
    BY <1>0, <1>2 DEF Infer, serviceVars
<1>3. ASSUME NEW c \in Callers, EndInfer(c) PROVE TypeOK'
    BY <1>0, <1>3, LeaveType DEF EndInfer, serviceVars
<1>4. ASSUME NEW c \in Callers, Send(c) PROVE TypeOK'
    BY <1>0, <1>4 DEF Send
<1>5. ASSUME NEW c \in Callers, GiveUp(c) PROVE TypeOK'
    BY <1>0, <1>5, LeaveType, GiveUpBacklog DEF GiveUp
<1>6. CASE Accept
    BY <1>0, <1>6 DEF Accept, Phase, callerVars
<1>7. CASE StartChild \/ EndChild
    BY <1>0, <1>7 DEF StartChild, EndChild, Phase, callerVars
<1>8. ASSUME NEW a \in {"done", "failed"}, Reply(a) PROVE TypeOK'
    BY <1>0, <1>8, LeaveType DEF Reply, Phase, callerVars, OneConnection
<1>9. CASE Tick
    BY <1>0, <1>9 DEF Tick
<1>10. CASE UNCHANGED vars
    BY <1>0, <1>10 DEF vars, moving, callerVars, serviceVars
<1>11. CASE Service
    BY <1>0, <1>6, <1>7, <1>8, <1>11
       DEF Service, ConfigureFails, Revoked, RevokeFails, FailedIsSent
<1> QED
    BY <1>0, <1>1, <1>2, <1>3, <1>4, <1>5, <1>9, <1>10, <1>11 DEF Next, Caller

LEMMA ConnectionStep == ConnectionInv /\ [Next]_vars => OneConnection'
<1> SUFFICES ASSUME ConnectionInv, [Next]_vars PROVE OneConnection'
    OBVIOUS
<1> USE DEF TypeOK, ConnectionInv, OneConnection
<1>1. ASSUME NEW c \in Callers, Busy(c) \/ Refused(c) \/ Infer(c) PROVE OneConnection'
    BY <1>1 DEF Busy, Refused, Infer, serviceVars
<1>2. ASSUME NEW c \in Callers, EndInfer(c) PROVE OneConnection'
    BY <1>2 DEF EndInfer, Leave, serviceVars
<1>3. ASSUME NEW c \in Callers, Send(c) PROVE OneConnection'
    <2>1. /\ Len(backlog') = Len(backlog) + 1
          /\ \A i \in 1..Len(backlog) : backlog'[i] = backlog[i]
          /\ backlog'[Len(backlog) + 1] = c
        BY <1>3 DEF Send
    <2>2. \A i \in 1..Len(backlog') : i \in 1..Len(backlog) \/ i = Len(backlog) + 1
        BY <2>1
    <2>3. serving # c /\ \A i \in 1..Len(backlog) : backlog[i] # c
        BY <1>3 DEF Send
    <2> QED
        BY <1>3, <2>1, <2>2, <2>3 DEF Send
<1>4. ASSUME NEW c \in Callers, GiveUp(c) PROVE OneConnection'
    BY <1>4, GiveUpBacklog DEF GiveUp, Leave
<1>5. CASE Accept
    <2>1. /\ Len(backlog') = Len(backlog) - 1
          /\ \A i \in 1..Len(backlog') : backlog'[i] = backlog[i + 1]
          /\ serving' = backlog[1]
          /\ 1 \in 1..Len(backlog)
        BY <1>5 DEF Accept
    <2>2. \A i \in 1..Len(backlog') : i + 1 \in 1..Len(backlog) /\ i + 1 # 1
        BY <2>1
    <2>3. UNCHANGED pc
        BY <1>5 DEF Accept, callerVars
    <2>4. ASSUME NEW c \in Callers, pc[c] # "wait"
          PROVE  serving' # c /\ \A i \in 1..Len(backlog') : backlog'[i] # c
        <3>1. \A i \in 1..Len(backlog) : backlog[i] # c
            BY <2>4
        <3> HIDE DEF TypeOK, ConnectionInv, OneConnection
        <3>2. serving' # c
            BY <2>1, <3>1
        <3>3. ASSUME NEW i \in 1..Len(backlog') PROVE backlog'[i] # c
            BY <2>1, <2>2, <3>1
        <3> QED
            BY <3>2, <3>3
    <2>5. ASSUME NEW c \in Callers, serving' = c, NEW i \in 1..Len(backlog')
          PROVE  backlog'[i] # c
        <3>1. c # Nobody /\ backlog[1] = c
            BY <2>1, <2>5
        <3>2. backlog[i + 1] # backlog[1]
            BY <2>1, <2>2, <3>1
        <3> QED
            BY <2>1, <3>1, <3>2
    <2>6. ASSUME NEW i \in 1..Len(backlog'), NEW k \in 1..Len(backlog'),
                 backlog'[i] = backlog'[k], backlog'[i] # Nobody
          PROVE  i = k
        <3>1. i + 1 = k + 1
            BY <2>1, <2>2, <2>6
        <3> QED
            BY <3>1
    <2> QED
        BY <2>3, <2>4, <2>5, <2>6
<1>6. CASE StartChild \/ EndChild
    BY <1>6 DEF StartChild, EndChild, callerVars
<1>7. ASSUME NEW a \in {"done", "failed"}, Reply(a) PROVE OneConnection'
    BY <1>7 DEF Reply, Leave, callerVars
<1>8. CASE Tick \/ UNCHANGED vars
    BY <1>8 DEF Tick, vars, moving, callerVars, serviceVars
<1>9. CASE Service
    BY <1>5, <1>6, <1>7, <1>9
       DEF Service, ConfigureFails, Revoked, RevokeFails, FailedIsSent
<1> QED
    BY <1>1, <1>2, <1>3, <1>4, <1>8, <1>9 DEF Next, Caller

LEMMA ConnectionInit == Init => ConnectionInv
BY DEF Init, ConnectionInv, TypeOK, OneConnection

LEMMA Connections == Spec => []ConnectionInv
<1>1. ConnectionInv /\ [Next]_vars => ConnectionInv'
    BY TypeStep, ConnectionStep DEF ConnectionInv
<1> QED
    BY ConnectionInit, <1>1, PTL DEF Spec

\* Every variable keeps its type, and a caller is past the lock exactly while
\* it holds it.
THEOREM TypeCorrect == Spec => []TypeOK
BY Connections, PTL DEF ConnectionInv

\* With any limits, a child whose client still waits has the GPU for itself.
THEOREM SharedOnlyWhenAbandoned == Spec => []GpuIsSharedOnlyWhenAbandoned
<1>1. ConnectionInv => GpuIsSharedOnlyWhenAbandoned
    BY DEF ConnectionInv, TypeOK, OneConnection, GpuIsSharedOnlyWhenAbandoned
<1> QED
    BY <1>1, Connections, PTL

-----------------------------------------------------------------------------
(* What holds if the limits nest *)

LEMMA NestedInit == Init => NestedInv
BY ConnectionInit
   DEF Init, NestedInv, ConnectionInv, ServiceIsAwaited, BacklogIsAwaited, AnsweredInTime

Awaited == ServiceIsAwaited /\ BacklogIsAwaited /\ AnsweredInTime

\* The client of a running request is never at its limit.
LEMMA NotAtLimit ==
    ASSUME Nested, TypeOK, Awaited, NEW c \in Callers, pc[c] = "wait"
    PROVE  waited[c] < serviceTimeout
<1> USE DEF Nested, Awaited, TypeOK
<1>1. CASE backlog = <<c>>
    BY <1>1 DEF BacklogIsAwaited
<1>2. CASE serving = c
    BY <1>2 DEF ServiceIsAwaited, Limit, Before
<1> QED
    BY <1>1, <1>2 DEF BacklogIsAwaited

LEMMA AwaitedStep ==
    ASSUME Nested, ConnectionInv, Awaited, [Next]_vars
    PROVE  Awaited'
<1> USE DEF Awaited, ConnectionInv, ServiceIsAwaited, BacklogIsAwaited, AnsweredInTime
<1>1. ASSUME NEW c \in Callers, Busy(c) \/ Refused(c) PROVE Awaited'
    BY <1>1 DEF TypeOK, Busy, Refused, serviceVars
<1>2. ASSUME NEW c \in Callers, Infer(c) PROVE Awaited'
    BY <1>2 DEF TypeOK, Infer, serviceVars
<1>3. ASSUME NEW c \in Callers, EndInfer(c) PROVE Awaited'
    BY <1>3 DEF TypeOK, EndInfer, Leave, serviceVars
<1>4. ASSUME NEW c \in Callers, Send(c) PROVE Awaited'
    <2>1. \A d \in Callers : pc[d] # "wait"
        BY <1>4 DEF TypeOK, Send
    <2>2. backlog = <<>> /\ spc = "accept"
        BY <2>1
    <2>3. backlog' = <<c>>
        BY <1>4, <2>2 DEF Send
    <2> QED
        BY <1>4, <2>1, <2>2, <2>3 DEF TypeOK, Send
<1>5. ASSUME NEW c \in Callers, GiveUp(c) PROVE Awaited'
    BY <1>5, NotAtLimit DEF GiveUp, TypeOK
<1>6. CASE Accept
    <2>1. PICK c \in Callers : backlog = <<c>> /\ pc[c] = "wait" /\ waited[c] = 0
        BY <1>6 DEF Accept
    <2>2. serving' = c /\ backlog' = <<>>
        BY <1>6, <2>1 DEF Accept
    <2>3. \A d \in Callers : pc[d] = "wait" => d = c
        BY <2>1 DEF TypeOK
    <2> QED
        BY <1>6, <2>1, <2>2, <2>3 DEF TypeOK, Accept, Phase, callerVars, Limit, Before
<1>7. CASE StartChild \/ EndChild
    BY <1>7 DEF TypeOK, StartChild, EndChild, Phase, callerVars, Limit, Before
<1>8. ASSUME NEW a \in {"done", "failed"}, Reply(a), spc # "accept" PROVE Awaited'
    BY <1>8 DEF TypeOK, Reply, Leave, Phase, callerVars
<1>9. CASE Tick
    <2>1. backlog = <<>>
        BY <1>9 DEF Tick
    <2> QED
        BY <1>9, <2>1 DEF TypeOK, Tick, Limit, Before
<1>10. CASE UNCHANGED vars
    BY <1>10 DEF vars, moving, callerVars, serviceVars
<1>11. CASE Service
    BY <1>6, <1>7, <1>8, <1>11
       DEF Service, ConfigureFails, Revoked, RevokeFails, FailedIsSent
<1> QED
    BY <1>1, <1>2, <1>3, <1>4, <1>5, <1>9, <1>10, <1>11 DEF Next, Caller

LEMMA NestedInvariant == Spec => []NestedInv
<1>1. ConnectionInv /\ NestedInv /\ [Next]_vars => NestedInv'
    <2> SUFFICES ASSUME ConnectionInv, NestedInv, [Next]_vars, Nested'
                 PROVE  (ServiceIsAwaited /\ BacklogIsAwaited /\ AnsweredInTime)'
        BY DEF NestedInv
    <2>1. Nested
        BY DEF Nested, Next, vars
    <2> QED
        BY <2>1, AwaitedStep DEF NestedInv, Awaited
<1> QED
    BY NestedInit, <1>1, Connections, PTL DEF Spec

\* If the client waits longer than the three limits of the service together,
\* the sandboxed child and inference in this process never use the GPU at once.
THEOREM Exclusive == Spec => []NestedIsExclusive
<1>1. ConnectionInv /\ NestedInv => NestedIsExclusive
    BY DEF NestedInv, ConnectionInv, TypeOK, ServiceIsAwaited, GpuIsExclusive, NestedIsExclusive
<1> QED
    BY <1>1, NestedInvariant, Connections, PTL

\* ... and no client gives up a research job the service still works for.
THEOREM InTime == Spec => []NestedIsInTime
<1>1. NestedInv => NestedIsInTime
    BY DEF NestedInv, NestedIsInTime
<1> QED
    BY <1>1, NestedInvariant, PTL
=============================================================================
