----------------------- MODULE SatelliteWorkerProofs ------------------------
(***************************************************************************)
(* SatelliteWorker, for any number of workers, products, attempts and      *)
(* losses: an inference of a request is asked for once, what is published  *)
(* is its result, and one product follows the other (Implements): a call   *)
(* works on a product only once those before it are published (InOrder).   *)
(***************************************************************************)
EXTENDS SatelliteWorker, TLAPS

USE LastAssumption, AttemptsAssumption, LossesAssumption

-----------------------------------------------------------------------------
(* Types *)

LEMMA TypeInit == Init => TypeOK
BY DEF Init, TypeOK, Artifacts, PCs

\* What TypeOK says of the workers.
WorkersOK ==
    /\ pc \in [Workers -> PCs]
    /\ artifact \in [Workers -> 0..Last]
    /\ attempt \in [Workers -> 1..attempts]
    /\ \A v \in Workers : pc[v] = "idle" <=> artifact[v] = 0

\* The ways to go on keep it.
LEMMA GotoOK ==
    ASSUME TypeOK, UNCHANGED attempts, NEW w \in Workers, pc[w] # "idle",
           NEW p \in PCs \ {"idle"}, Goto(w, p)
    PROVE  WorkersOK'
BY DEF TypeOK, Goto, WorkersOK

LEMMA AnswerOK ==
    ASSUME TypeOK, UNCHANGED attempts, NEW w \in Workers, Answer(w)
    PROVE  WorkersOK'
BY DEF TypeOK, Answer, PCs, WorkersOK

LEMMA LostOK ==
    ASSUME TypeOK, UNCHANGED attempts, NEW w \in Workers, Lost(w)
    PROVE  WorkersOK' /\ losses' \in 0..MaxLosses
<1>1. ASSUME Retry(w) PROVE WorkersOK'
    BY <1>1 DEF TypeOK, Retry, WorkersOK
<1>2. losses' \in 0..MaxLosses
    BY DEF Lost, Loss, TypeOK
<1> QED
    BY <1>1, <1>2, AnswerOK DEF Lost

LEMMA HasProduct ==
    ASSUME TypeOK, NEW w \in Workers, pc[w] # "idle"
    PROVE  artifact[w] \in Artifacts
BY DEF TypeOK, Artifacts

LEMMA TypeStep == TypeOK /\ [Next]_vars => TypeOK'
<1> SUFFICES ASSUME TypeOK, [Next]_vars PROVE TypeOK'
    OBVIOUS
<1> USE DEF environment, store, endpoint, worker
<1>1. ASSUME NEW w \in Workers, Start(w) PROVE TypeOK'
    BY <1>1 DEF Start, TypeOK, PCs, Artifacts
<1>2. ASSUME NEW w \in Workers, Work(w) PROVE TypeOK'
    <2>0. pc[w] # "idle" /\ UNCHANGED attempts
        BY <1>2 DEF Work, Prepare, Reserve, Existing, Store, Invoke, Record, Poll, PollAgain,
                    Timeout, Read, Publish
    <2>1. WorkersOK'
        <3>1. \/ Answer(w)
              \/ \E p \in PCs \ {"idle"} : Goto(w, p)
            BY <1>2 DEF Work, Prepare, Reserve, Existing, Store, Invoke, Record, Poll, PollAgain,
                        Timeout, Read, Publish, PCs
        <3> QED
            BY <2>0, <3>1, GotoOK, AnswerOK
    <2>2. artifact[w] \in Artifacts
        BY <2>0, HasProduct
    <2>3. CASE Prepare(w) \/ Existing(w) \/ Poll(w) \/ PollAgain(w) \/ Timeout(w) \/ Read(w)
        BY <2>1, <2>3
           DEF TypeOK, WorkersOK, Prepare, Existing, Poll, PollAgain, Timeout, Read
    <2>4. CASE Reserve(w) \/ Store(w) \/ Record(w)
        BY <2>1, <2>2, <2>4
           DEF TypeOK, WorkersOK, Reserve, Store, Record, Reserved, Recorded
    <2>5. CASE Invoke(w)
        BY <2>1, <2>2, <2>5 DEF TypeOK, WorkersOK, Invoke, Called, Submitted
    <2>6. CASE Publish(w)
        BY <2>1, <2>2, <2>6 DEF TypeOK, WorkersOK, Publish, Persist, Status
    <2> QED
        BY <1>2, <2>3, <2>4, <2>5, <2>6 DEF Work
<1>3. ASSUME NEW w \in Workers, Mishap(w) PROVE TypeOK'
    <2>0. pc[w] # "idle" /\ UNCHANGED attempts
        BY <1>3 DEF Mishap, Interrupted, ReserveIsLost, StoreIsLost, InvokeIsLost,
                    RecordIsLost, PublishIsLost, Crash
    <2>1. WorkersOK' /\ losses' \in 0..MaxLosses
        <3>1. Lost(w) \/ (Loss /\ Answer(w))
            BY <1>3 DEF Mishap, Interrupted, ReserveIsLost, StoreIsLost, InvokeIsLost,
                        RecordIsLost, PublishIsLost, Crash
        <3>2. Loss => losses' \in 0..MaxLosses
            BY DEF Loss, TypeOK
        <3> QED
            BY <2>0, <3>1, <3>2, LostOK, AnswerOK
    <2>2. artifact[w] \in Artifacts
        BY <2>0, HasProduct
    <2>3. CASE Interrupted(w) \/ Crash(w)
        BY <2>1, <2>3 DEF TypeOK, WorkersOK, Interrupted, Crash
    <2>4. CASE ReserveIsLost(w) \/ StoreIsLost(w) \/ RecordIsLost(w)
        BY <2>1, <2>2, <2>4
           DEF TypeOK, WorkersOK, ReserveIsLost, StoreIsLost, RecordIsLost, Reserved, Recorded
    <2>5. CASE InvokeIsLost(w)
        BY <2>1, <2>2, <2>5 DEF TypeOK, WorkersOK, InvokeIsLost, Called, Submitted
    <2>6. CASE PublishIsLost(w)
        BY <2>1, <2>2, <2>6 DEF TypeOK, WorkersOK, PublishIsLost, Persist, Status
    <2> QED
        BY <1>3, <2>3, <2>4, <2>5, <2>6 DEF Mishap
<1>4. ASSUME NEW a \in Artifacts, Infer(a) PROVE TypeOK'
    BY <1>4 DEF Infer, TypeOK, Results, Outputs
<1>5. CASE UNCHANGED vars
    BY <1>5 DEF vars, TypeOK
<1> QED
    BY <1>1, <1>2, <1>3, <1>4, <1>5 DEF Next

\* Every variable has its type, and a worker has a product exactly while it is in
\* a call (satellite_cpu.py:763-860).
THEOREM TypeCorrect == Spec => []TypeOK
<1>1. TypeOK /\ [Next]_vars => TypeOK'
    BY TypeStep
<1> QED
    BY <1>1, TypeInit, PTL DEF Spec

-----------------------------------------------------------------------------
(* One submission of a request *)

\* What a step of w has to show: the requests stay reserved, and w submits only
\* what nobody else does and, at first, what has not been submitted.
OthersStay(w) == \A v \in Workers \ {w} :
    pc'[v] = pc[v] /\ artifact'[v] = artifact[v] /\ attempt'[v] = attempt[v]

StoreGrows ==
    /\ \A a \in Artifacts : reservation[a] # "none" => reservation'[a] # "none"
    /\ \A a \in Artifacts : reservation'[a] = "none" => submissions'[a] = 0 /\ a \notin stored'

Alone(w) ==
    /\ pc'[w] \in Submitting =>
            /\ artifact'[w] \in Artifacts
            /\ reservation'[artifact'[w]] # "none"
            /\ \A v \in Workers \ {w} : pc[v] \in Submitting => artifact[v] # artifact'[w]
    /\ pc'[w] = "store" \/ (pc'[w] = "invoke" /\ attempt'[w] = 1)
            => submissions'[artifact'[w]] = 0

OnlySubmits(w) ==
    \A v \in Workers \ {w} :
        pc[v] \in Submitting => submissions'[artifact[v]] = submissions[artifact[v]]

LEMMA OneStep ==
    ASSUME TypeOK, OneSubmitter, NEW w \in Workers,
           OthersStay(w), StoreGrows, Alone(w), OnlySubmits(w), OneSubmission'
    PROVE  OneSubmitter'
<1>0. \A v \in Workers : pc[v] \in Submitting => artifact[v] \in Artifacts
    BY HasProduct DEF Submitting
<1>1. ASSUME NEW v \in Workers, pc'[v] \in Submitting
      PROVE  reservation'[artifact'[v]] # "none"
    BY <1>0, <1>1 DEF OneSubmitter, OthersStay, StoreGrows, Alone
<1>2. ASSUME NEW u \in Workers, NEW v \in Workers, pc'[u] \in Submitting, pc'[v] \in Submitting,
             artifact'[u] = artifact'[v]
      PROVE  u = v
    BY <1>2 DEF OneSubmitter, OthersStay, Alone
<1>3. ASSUME NEW v \in Workers, pc'[v] = "store" \/ (pc'[v] = "invoke" /\ attempt'[v] = 1)
      PROVE  submissions'[artifact'[v]] = 0
    BY <1>3 DEF OneSubmitter, OthersStay, Alone, OnlySubmits, Submitting
<1> QED
    BY <1>1, <1>2, <1>3 DEF OneSubmitter, StoreGrows

\* Going on keeps the others, and leaves w where it goes to.
LEMMA Going ==
    ASSUME TypeOK, NEW w \in Workers
    PROVE  /\ \A p \in PCs : Goto(w, p) => OthersStay(w) /\ pc'[w] = p /\ attempt'[w] = 1
                                                          /\ artifact'[w] = artifact[w]
           /\ Answer(w) => OthersStay(w) /\ pc'[w] = "idle"
           /\ Retry(w)  => OthersStay(w) /\ pc'[w] = pc[w] /\ artifact'[w] = artifact[w]
                                         /\ attempt'[w] # 1
BY DEF TypeOK, Goto, Answer, Retry, OthersStay

LEMMA StoreStays ==
    ASSUME OneSubmitter, UNCHANGED <<store, submissions>>
    PROVE  StoreGrows /\ OneSubmission' /\ \A w \in Workers : OnlySubmits(w)
BY DEF OneSubmitter, OneSubmission, StoreGrows, OnlySubmits, store

LEMMA SubmitterStep == TypeOK /\ OneSubmitter /\ [Next]_vars => OneSubmitter'
<1> SUFFICES ASSUME TypeOK, OneSubmitter, [Next]_vars PROVE OneSubmitter'
    OBVIOUS
<1>1. ASSUME NEW w \in Workers, Start(w) PROVE OneSubmitter'
    <2>1. OthersStay(w) /\ pc'[w] = "prepare"
        BY <1>1 DEF Start, TypeOK, OthersStay
    <2>2. UNCHANGED <<store, submissions>>
        BY <1>1 DEF Start, endpoint
    <2> QED
        BY <2>1, <2>2, StoreStays, OneStep DEF Alone, Submitting
<1>2. ASSUME NEW w \in Workers,
             \/ Prepare(w) \/ Existing(w) \/ Poll(w) \/ PollAgain(w) \/ Timeout(w)
             \/ Read(w) \/ Publish(w) \/ Interrupted(w) \/ PublishIsLost(w) \/ Crash(w)
      PROVE  OneSubmitter'
    <2>1. UNCHANGED <<store, submissions>>
        BY <1>2 DEF Prepare, Existing, Poll, PollAgain, Timeout, Read, Publish, Interrupted,
                    PublishIsLost, Crash, endpoint
    <2>2. Answer(w) \/ \E p \in PCs \ Submitting : Goto(w, p)
        BY <1>2 DEF Prepare, Existing, Poll, PollAgain, Timeout, Read, Publish, Interrupted,
                    PublishIsLost, Crash, PCs, Submitting
    <2>3. OthersStay(w) /\ pc'[w] \notin Submitting
        BY <2>2, Going DEF Submitting
    <2> QED
        BY <2>1, <2>3, StoreStays, OneStep DEF Alone, Submitting
<1>3. ASSUME NEW w \in Workers, Reserve(w) \/ ReserveIsLost(w) PROVE OneSubmitter'
    <2> DEFINE a == artifact[w]
    <2>0. pc[w] = "reserve" /\ a \in Artifacts
        BY <1>3, HasProduct DEF Reserve, ReserveIsLost
    <2>1. /\ UNCHANGED <<stored, submissions>>
          /\ OneSubmission'
        BY <1>3 DEF Reserve, ReserveIsLost, endpoint, OneSubmitter, OneSubmission
    <2>2. StoreGrows /\ OnlySubmits(w)
        BY <1>3, <2>0, <2>1
           DEF Reserve, ReserveIsLost, Reserved, StoreGrows, OnlySubmits, OneSubmitter, TypeOK
    <2>3. CASE reservation[a] = "none" /\ Reserve(w)
        <3>1. OthersStay(w) /\ pc'[w] = "store" /\ artifact'[w] = a
            BY <2>3, Going DEF Reserve, PCs
        <3>2. reservation'[a] # "none" /\ submissions[a] = 0
            BY <2>0, <2>3 DEF Reserve, Reserved, TypeOK, OneSubmitter
        <3>3. \A v \in Workers \ {w} : pc[v] \in Submitting => artifact[v] # a
            BY <2>3 DEF OneSubmitter
        <3>4. Alone(w)
            BY <2>0, <2>1, <3>1, <3>2, <3>3 DEF Alone
        <3> QED
            BY <2>1, <2>2, <3>1, <3>4, OneStep
    <2>4. CASE ~(reservation[a] = "none" /\ Reserve(w))
        <3>1. OthersStay(w) /\ pc'[w] \in {"existing", "reserve", "idle"}
            BY <1>3, <2>0, <2>4, Going DEF Reserve, ReserveIsLost, Lost, PCs
        <3>2. Alone(w)
            BY <3>1 DEF Alone, Submitting
        <3> QED
            BY <2>1, <2>2, <3>1, <3>2, OneStep
    <2> QED
        BY <2>3, <2>4
<1>4. ASSUME NEW w \in Workers, Store(w) \/ StoreIsLost(w) PROVE OneSubmitter'
    <2> DEFINE a == artifact[w]
    <2>0. pc[w] = "store" /\ a \in Artifacts
        BY <1>4, HasProduct DEF Store, StoreIsLost
    <2>1. UNCHANGED <<reservation, submissions>> /\ OneSubmission' /\ OnlySubmits(w)
        BY <1>4 DEF Store, StoreIsLost, endpoint, OneSubmitter, OneSubmission, OnlySubmits
    <2>2. submissions[a] = 0 /\ reservation[a] # "none"
        BY <2>0 DEF OneSubmitter, Submitting
    <2>3. StoreGrows
        BY <1>4, <2>0, <2>1, <2>2 DEF Store, StoreIsLost, StoreGrows, OneSubmitter
    <2>4. /\ OthersStay(w)
          /\ pc'[w] # "idle" => artifact'[w] = a
        BY <1>4, <2>0, Going DEF Store, StoreIsLost, Lost, PCs
    <2>5. \A v \in Workers \ {w} : pc[v] \in Submitting => artifact[v] # a
        BY <2>0 DEF OneSubmitter, Submitting
    <2>6. Alone(w)
        BY <2>0, <2>1, <2>2, <2>4, <2>5 DEF Alone, Submitting
    <2> QED
        BY <2>1, <2>3, <2>4, <2>6, OneStep
<1>5. ASSUME NEW w \in Workers, Invoke(w) \/ InvokeIsLost(w) PROVE OneSubmitter'
    <2> DEFINE a == artifact[w]
    <2>0. pc[w] = "invoke" /\ a \in Artifacts
        BY <1>5, HasProduct DEF Invoke, InvokeIsLost
    <2>1. UNCHANGED store /\ Submitted(w)
        BY <1>5 DEF Invoke, InvokeIsLost
    <2>2. \A v \in Workers \ {w} : pc[v] \in Submitting => artifact[v] # a
        BY <2>0 DEF OneSubmitter, Submitting
    <2>3. reservation[a] # "none"
        BY <2>0 DEF OneSubmitter, Submitting
    <2>4. OneSubmission'
        BY <2>0, <2>1 DEF Submitted, TypeOK, OneSubmitter, OneSubmission
    <2>5. \A b \in Artifacts \ {a} : submissions'[b] = submissions[b]
        BY <2>0, <2>1 DEF Submitted, TypeOK
    <2>6. StoreGrows
        BY <2>1, <2>3, <2>5 DEF StoreGrows, store, OneSubmitter
    <2>7. OnlySubmits(w)
        BY <2>2, <2>5, HasProduct DEF OnlySubmits, Submitting
    <2>8. /\ OthersStay(w)
          /\ pc'[w] \in {"record", "idle", "invoke"}
          /\ pc'[w] # "idle" => artifact'[w] = a
          /\ pc'[w] = "invoke" => attempt'[w] # 1
        BY <1>5, <2>0, Going DEF Invoke, InvokeIsLost, Lost, PCs
    <2>9. Alone(w)
        BY <2>0, <2>1, <2>2, <2>3, <2>8 DEF Alone, Submitting, store
    <2> QED
        BY <2>4, <2>6, <2>7, <2>8, <2>9, OneStep
<1>6. ASSUME NEW w \in Workers, Record(w) \/ RecordIsLost(w) PROVE OneSubmitter'
    <2> DEFINE a == artifact[w]
    <2>0. pc[w] = "record" /\ a \in Artifacts
        BY <1>6, HasProduct DEF Record, RecordIsLost
    <2>1. UNCHANGED <<stored, submissions>> /\ OneSubmission' /\ OnlySubmits(w)
        BY <1>6 DEF Record, RecordIsLost, endpoint, OneSubmitter, OneSubmission, OnlySubmits
    <2>2. \A b \in Artifacts : reservation'[b] = "none" <=> reservation[b] = "none"
        <3>1. reservation[a] # "none"
            BY <2>0 DEF OneSubmitter, Submitting
        <3> QED
            BY <1>6, <3>1 DEF Record, RecordIsLost, Recorded, TypeOK
    <2>3. StoreGrows
        BY <2>1, <2>2 DEF StoreGrows, OneSubmitter
    <2>4. /\ OthersStay(w)
          /\ pc'[w] \in {"record", "idle", "poll"}
          /\ pc'[w] # "idle" => artifact'[w] = a
        BY <1>6, <2>0, Going DEF Record, RecordIsLost, Lost, PCs
    <2>5. \A v \in Workers \ {w} : pc[v] \in Submitting => artifact[v] # a
        BY <2>0 DEF OneSubmitter, Submitting
    <2>6. Alone(w)
        BY <2>0, <2>2, <2>4, <2>5 DEF Alone, Submitting, OneSubmitter
    <2> QED
        BY <2>1, <2>3, <2>4, <2>6, OneStep
<1>7. ASSUME NEW a \in Artifacts, Infer(a) PROVE OneSubmitter'
    BY <1>7 DEF Infer, OneSubmitter, OneSubmission, store, worker
<1>8. CASE UNCHANGED vars
    BY <1>8 DEF vars, store, endpoint, worker, OneSubmitter, OneSubmission
<1> QED
    BY <1>1, <1>2, <1>3, <1>4, <1>5, <1>6, <1>7, <1>8 DEF Next, Work, Mishap

LEMMA SubmitterInit == Init => OneSubmitter
BY DEF Init, OneSubmitter, OneSubmission, Submitting, Artifacts

\* However many calls of the service meet, crash and are repeated, the endpoint
\* is asked for one inference of a request (satellite_cpu.py:361, 484-562).
THEOREM SubmittedOnce == Spec => []OneSubmission
<1>1. TypeOK /\ OneSubmitter /\ [Next]_vars => TypeOK' /\ OneSubmitter'
    BY TypeStep, SubmitterStep
<1>2. OneSubmitter => OneSubmission
    BY DEF OneSubmitter
<1> QED
    BY <1>1, <1>2, TypeInit, SubmitterInit, PTL DEF Spec

-----------------------------------------------------------------------------
(* One inference of a request, if the SDK does not repeat calls *)

LEMMA PaidStep == TypeOK /\ PaidBySubmission /\ [Next]_vars => PaidBySubmission'
<1> SUFFICES ASSUME TypeOK, PaidBySubmission, [Next]_vars PROVE PaidBySubmission'
    OBVIOUS
<1>1. ASSUME UNCHANGED <<attempts, calls, submissions>> PROVE PaidBySubmission'
    BY <1>1 DEF PaidBySubmission
<1>2. ASSUME NEW w \in Workers, Invoke(w) \/ InvokeIsLost(w) PROVE PaidBySubmission'
    <2>1. artifact[w] \in Artifacts
        BY <1>2, HasProduct DEF Invoke, InvokeIsLost
    <2>2. UNCHANGED attempts /\ Submitted(w) /\ (Called(artifact[w]) \/ UNCHANGED calls)
        BY <1>2 DEF Invoke, InvokeIsLost, environment
    <2>3. attempts = 1 => attempt[w] = 1
        BY DEF TypeOK
    <2> QED
        BY <2>1, <2>2, <2>3 DEF PaidBySubmission, TypeOK, Submitted, Called
<1>3. \/ UNCHANGED <<attempts, calls, submissions>>
      \/ \E w \in Workers : Invoke(w) \/ InvokeIsLost(w)
    BY DEF Next, Start, Work, Mishap, Prepare, Reserve, Existing, Store, Record, Poll, PollAgain,
           Timeout, Read, Publish, Interrupted, ReserveIsLost, StoreIsLost, RecordIsLost,
           PublishIsLost, Crash, Infer, vars, environment, endpoint
<1> QED
    BY <1>1, <1>2, <1>3

\* The reservation prevents paid duplicate calls if the SDK does not repeat one
\* by itself (satellite_cpu.py:361, 426-432).
THEOREM PaidOnceIfSentOnce == Spec => []PaidOnceWithoutRetries
<1>1. Init => PaidBySubmission
    BY DEF Init, PaidBySubmission
<1>2. TypeOK /\ OneSubmitter /\ PaidBySubmission /\ [Next]_vars
          => TypeOK' /\ OneSubmitter' /\ PaidBySubmission'
    BY TypeStep, SubmitterStep, PaidStep
<1>3. TypeOK /\ OneSubmitter /\ PaidBySubmission => PaidOnceWithoutRetries
    BY DEF TypeOK, OneSubmitter, OneSubmission, PaidBySubmission, PaidOnceWithoutRetries, PaidOnce
<1> QED
    BY <1>1, <1>2, <1>3, TypeInit, SubmitterInit, PTL DEF Spec

-----------------------------------------------------------------------------
(* What is published *)

LEMMA WaitedStep == TypeOK /\ Waited /\ [Next]_vars => Waited'
<1> SUFFICES ASSUME TypeOK, Waited, [Next]_vars PROVE Waited'
    OBVIOUS
<1> USE DEF environment, store, endpoint, worker
<1>0. \A w \in Workers : pc[w] # "idle" => artifact[w] \in Artifacts
    BY HasProduct
<1>1. ASSUME NEW w \in Workers, Start(w) PROVE Waited'
    BY <1>1 DEF Start, TypeOK, Waited, PublishedIsComputed
<1>2. ASSUME NEW w \in Workers, Prepare(w) \/ Reserve(w) \/ Existing(w) \/ Store(w) \/ Invoke(w)
             \/ Record(w) \/ Poll(w) \/ PollAgain(w) \/ Timeout(w) \/ Read(w)
      PROVE  Waited'
    <2>1. UNCHANGED <<result, published>>
        BY <1>2 DEF Prepare, Reserve, Existing, Store, Invoke, Record, Poll, PollAgain, Timeout,
                    Read
    <2>2. \/ Answer(w)
          \/ \E p \in PCs \ {"read", "publish"} : Goto(w, p)
          \/ Goto(w, "read") /\ result[artifact[w]] \in Outputs
          \/ Goto(w, "publish") /\ result[artifact[w]] # "unreadable" /\ pc[w] = "read"
        BY <1>2 DEF Prepare, Reserve, Existing, Store, Invoke, Record, Poll, PollAgain, Timeout,
                    Read, PCs
    <2>3. OthersStay(w) /\ (pc'[w] \in {"read", "publish"} => artifact'[w] = artifact[w])
        BY <2>2, Going DEF PCs
    <2>4. pc'[w] = "read" => result[artifact[w]] \in Outputs
        BY <2>2, Going DEF PCs
    <2>5. pc'[w] = "publish" => result[artifact[w]] \in {"proposals", "nothing"}
        BY <2>2, Going DEF PCs, Waited, Outputs
    <2> QED
        BY <2>1, <2>3, <2>4, <2>5 DEF Waited, OthersStay, PublishedIsComputed
<1>3. ASSUME NEW w \in Workers, Publish(w) \/ PublishIsLost(w) PROVE Waited'
    <2>1. result[artifact[w]] \in {"proposals", "nothing"} /\ artifact[w] \in Artifacts
        BY <1>0, <1>3 DEF Publish, PublishIsLost, Waited
    <2>2. /\ UNCHANGED result
          /\ Persist(artifact[w]) \/ UNCHANGED published
          /\ OthersStay(w) /\ pc'[w] = "idle"
        BY <1>3, Going DEF Publish, PublishIsLost
    <2>3. PublishedIsComputed'
        BY <2>1, <2>2 DEF Waited, PublishedIsComputed, Persist, TypeOK
    <2> QED
        BY <2>2, <2>3 DEF Waited, OthersStay
<1>4. ASSUME NEW w \in Workers, Interrupted(w) \/ ReserveIsLost(w) \/ StoreIsLost(w)
             \/ InvokeIsLost(w) \/ RecordIsLost(w) \/ Crash(w)
      PROVE  Waited'
    <2>1. UNCHANGED <<result, published>>
        BY <1>4 DEF Interrupted, ReserveIsLost, StoreIsLost, InvokeIsLost, RecordIsLost, Crash
    <2>2. Answer(w) \/ (Retry(w) /\ pc[w] \in {"reserve", "store", "invoke", "record"})
        BY <1>4 DEF Interrupted, ReserveIsLost, StoreIsLost, InvokeIsLost, RecordIsLost, Crash,
                    Lost
    <2>3. OthersStay(w) /\ pc'[w] \notin {"read", "publish"}
        BY <2>2, Going
    <2> QED
        BY <2>1, <2>3 DEF Waited, OthersStay, PublishedIsComputed
<1>5. ASSUME NEW a \in Artifacts, Infer(a) PROVE Waited'
    <2>1. \A b \in Artifacts : result[b] # "none" => result'[b] = result[b]
        BY <1>5 DEF Infer, TypeOK
    <2>2. UNCHANGED <<published, pc, artifact>>
        BY <1>5 DEF Infer
    <2>3. PublishedIsComputed'
        BY <2>1, <2>2 DEF Waited, PublishedIsComputed
    <2>4. \A w \in Workers : pc[w] \in {"read", "publish"}
              => result'[artifact[w]] = result[artifact[w]]
        BY <1>0, <2>1 DEF Waited, Outputs
    <2> QED
        BY <2>2, <2>3, <2>4 DEF Waited
<1>6. CASE UNCHANGED vars
    BY <1>6 DEF vars, Waited, PublishedIsComputed
<1> QED
    BY <1>1, <1>2, <1>3, <1>4, <1>5, <1>6 DEF Next, Work, Mishap

\* What is published is what the endpoint computed, whoever waited for it and
\* however often (satellite_cpu.py:581-609, 822-854).
THEOREM ComputedIsPublished == Spec => []PublishedIsComputed
<1>1. Init => Waited
    BY DEF Init, Waited, PublishedIsComputed
<1>2. TypeOK /\ Waited /\ [Next]_vars => TypeOK' /\ Waited'
    BY TypeStep, WaitedStep
<1>3. Waited => PublishedIsComputed
    BY DEF Waited
<1> QED
    BY <1>1, <1>2, <1>3, TypeInit, PTL DEF Spec

-----------------------------------------------------------------------------
(* Whoever reserves submits *)

LEMMA UndisturbedStep ==
    TypeOK /\ OneSubmitter /\ Undisturbed /\ [Next]_vars => Undisturbed'
<1> SUFFICES ASSUME TypeOK, OneSubmitter, Undisturbed, [Next]_vars, losses' = 0
             PROVE  Undisturbed'
    BY DEF Undisturbed
<1> USE DEF environment, store, endpoint, worker
<1>0. \A w \in Workers : pc[w] # "idle" => artifact[w] \in Artifacts
    BY HasProduct
<1>1. ASSUME NEW w \in Workers, Mishap(w) PROVE FALSE
    BY <1>1 DEF Mishap, Interrupted, ReserveIsLost, StoreIsLost, InvokeIsLost, RecordIsLost,
                PublishIsLost, Crash, Lost, Loss, TypeOK
<1>2. losses = 0
    BY <1>1 DEF Next, Start, Work, Prepare, Reserve, Existing, Store, Invoke, Record, Poll,
                PollAgain, Timeout, Read, Publish, Infer, vars
<1>3. /\ \A w \in Workers : pc[w] \in Submitting => reservation[artifact[w]] = "reserved"
      /\ \A w \in Workers : pc[w] = "store" => artifact[w] \notin stored
      /\ \A a \in Artifacts : reservation[a] = "reserved"
             => \E w \in Workers : pc[w] \in Submitting /\ artifact[w] = a
    BY <1>2 DEF Undisturbed, OrphanedOnlyAfterLoss, Orphaned
<1>4. ASSUME UNCHANGED store, NEW w \in Workers, OthersStay(w), pc[w] \notin Submitting,
             pc'[w] \notin Submitting
      PROVE  Undisturbed'
    <2>1. \A v \in Workers : /\ pc'[v] \in Submitting <=> pc[v] \in Submitting
                             /\ pc'[v] \in Submitting => pc'[v] = pc[v] /\ artifact'[v] = artifact[v]
        BY <1>4 DEF OthersStay
    <2> QED
        BY <1>3, <1>4, <2>1 DEF Undisturbed, OrphanedOnlyAfterLoss, Orphaned, Submitting
<1>5. ASSUME NEW w \in Workers, Start(w) PROVE Undisturbed'
    <2>1. UNCHANGED store /\ OthersStay(w) /\ pc[w] = "idle" /\ pc'[w] = "prepare"
        BY <1>5 DEF Start, TypeOK, OthersStay
    <2> QED
        BY <1>4, <2>1 DEF Submitting
<1>6. ASSUME NEW w \in Workers, Prepare(w) \/ Existing(w) \/ Poll(w) \/ PollAgain(w)
             \/ Timeout(w) \/ Read(w) \/ Publish(w)
      PROVE  Undisturbed'
    <2>1. Answer(w) \/ \E p \in PCs \ Submitting : Goto(w, p)
        BY <1>6 DEF Prepare, Existing, Poll, PollAgain, Timeout, Read, Publish, PCs, Submitting
    <2>2. OthersStay(w) /\ pc'[w] \notin Submitting
        BY <2>1, Going DEF Submitting
    <2>3. UNCHANGED store /\ pc[w] \notin Submitting
        BY <1>6 DEF Prepare, Existing, Poll, PollAgain, Timeout, Read, Publish, Submitting
    <2> QED
        BY <1>4, <2>2, <2>3
<1>7. ASSUME NEW w \in Workers, Reserve(w) PROVE Undisturbed'
    <2> DEFINE a == artifact[w]
    <2>1. pc[w] = "reserve" /\ a \in Artifacts /\ pc[w] \notin Submitting
        BY <1>0, <1>7 DEF Reserve, Submitting
    <2>2. CASE reservation[a] = "none"
        <3>1. OthersStay(w) /\ pc'[w] = "store" /\ artifact'[w] = a
            BY <1>7, <2>2, Going DEF Reserve, PCs
        <3>2. /\ reservation'[a] = "reserved"
              /\ \A b \in Artifacts \ {a} : reservation'[b] = reservation[b]
              /\ stored' = stored /\ a \notin stored
            BY <1>7, <2>1, <2>2 DEF Reserve, Reserved, TypeOK, OneSubmitter
        <3>3. \A v \in Workers \ {w} : pc[v] \in Submitting =>
                  artifact[v] \in Artifacts \ {a}
            BY <1>0, <1>3, <2>2 DEF Submitting
        <3>4. \A v \in Workers : pc'[v] \in Submitting => reservation'[artifact'[v]] = "reserved"
            BY <1>3, <3>1, <3>2, <3>3 DEF OthersStay
        <3>5. \A v \in Workers : pc'[v] = "store" => artifact'[v] \notin stored'
            BY <1>3, <3>1, <3>2 DEF OthersStay
        <3>6. \A b \in Artifacts : reservation'[b] = "reserved"
                  => \E v \in Workers : pc'[v] \in Submitting /\ artifact'[v] = b
            BY <1>3, <2>1, <3>1, <3>2 DEF OthersStay, Submitting
        <3> QED
            BY <3>4, <3>5, <3>6 DEF Undisturbed, OrphanedOnlyAfterLoss, Orphaned
    <2>3. CASE reservation[a] # "none"
        <3>1. UNCHANGED store /\ OthersStay(w) /\ pc'[w] = "existing"
            BY <1>7, <2>3, Going DEF Reserve, PCs
        <3> QED
            BY <1>4, <2>1, <3>1 DEF Submitting
    <2> QED
        BY <2>2, <2>3
<1>8. ASSUME NEW w \in Workers, Store(w) \/ Invoke(w) PROVE Undisturbed'
    <2>1. /\ OthersStay(w) /\ pc[w] \in Submitting
          /\ pc'[w] \in {"invoke", "record"} /\ artifact'[w] = artifact[w]
        BY <1>3, <1>8, Going DEF Store, Invoke, PCs, Submitting
    <2>2. reservation' = reservation /\ stored' \in {stored, stored \cup {artifact[w]}}
        BY <1>8 DEF Store, Invoke
    <2>3. \A v \in Workers : pc'[v] \in Submitting <=> pc[v] \in Submitting
        BY <2>1 DEF OthersStay, Submitting
    <2>4. \A v \in Workers : artifact'[v] = artifact[v]
        BY <2>1 DEF OthersStay
    <2>5. \A v \in Workers : pc'[v] = "store" => artifact'[v] \notin stored'
        BY <1>3, <2>1, <2>2 DEF OthersStay, OneSubmitter, Submitting
    <2> QED
        BY <1>3, <2>2, <2>3, <2>4, <2>5 DEF Undisturbed, OrphanedOnlyAfterLoss, Orphaned
<1>9. ASSUME NEW w \in Workers, Record(w) PROVE Undisturbed'
    <2> DEFINE a == artifact[w]
    <2>1. pc[w] \in Submitting /\ a \in Artifacts
        BY <1>0, <1>9 DEF Record, Submitting
    <2>2. OthersStay(w) /\ pc'[w] = "poll"
        BY <1>3, <1>9, <2>1, Going DEF Record, PCs
    <2>3. /\ reservation'[a] = "submitted" /\ stored' = stored
          /\ \A b \in Artifacts \ {a} : reservation'[b] = reservation[b]
        BY <1>9, <2>1 DEF Record, Recorded, TypeOK
    <2>4. \A v \in Workers \ {w} : pc[v] \in Submitting => artifact[v] \in Artifacts \ {a}
        BY <1>0, <2>1 DEF OneSubmitter, Submitting
    <2>5. \A v \in Workers : pc'[v] \in Submitting => reservation'[artifact'[v]] = "reserved"
        BY <1>3, <2>2, <2>3, <2>4 DEF OthersStay, Submitting
    <2>6. \A v \in Workers : pc'[v] = "store" => artifact'[v] \notin stored'
        BY <1>3, <2>2, <2>3 DEF OthersStay
    <2>7. \A b \in Artifacts : reservation'[b] = "reserved"
              => \E v \in Workers : pc'[v] \in Submitting /\ artifact'[v] = b
        BY <1>3, <2>2, <2>3 DEF OthersStay
    <2> QED
        BY <2>5, <2>6, <2>7 DEF Undisturbed, OrphanedOnlyAfterLoss, Orphaned
<1>10. CASE UNCHANGED <<store, worker>>
    BY <1>3, <1>10 DEF Undisturbed, OrphanedOnlyAfterLoss, Orphaned
<1> QED
    BY <1>1, <1>5, <1>6, <1>7, <1>8, <1>9, <1>10 DEF Next, Work, Infer, vars

\* As long as nothing goes wrong outside, whoever reserves a request submits it,
\* also if several calls of the service are at it (satellite_cpu.py:527-566).
THEOREM ReservedIsSubmitted == Spec => []OrphanedOnlyAfterLoss
<1>1. Init => Undisturbed
    BY DEF Init, Undisturbed, OrphanedOnlyAfterLoss, Orphaned, Submitting
<1>2. TypeOK /\ OneSubmitter /\ Undisturbed /\ [Next]_vars
          => TypeOK' /\ OneSubmitter' /\ Undisturbed'
    BY TypeStep, SubmitterStep, UndisturbedStep
<1>3. Undisturbed => OrphanedOnlyAfterLoss
    BY DEF Undisturbed, OrphanedOnlyAfterLoss
<1> QED
    BY <1>1, <1>2, <1>3, TypeInit, SubmitterInit, PTL DEF Spec

-----------------------------------------------------------------------------
(* The calls are one orderly analyst *)

LEMMA InOrderStep == TypeOK /\ InOrder /\ [Next]_vars => InOrder'
<1> SUFFICES ASSUME TypeOK, InOrder, [Next]_vars PROVE InOrder'
    OBVIOUS
<1> USE DEF environment, store, endpoint, worker
<1>0. \A w \in Workers : pc[w] # "idle" => artifact[w] \in Artifacts
    BY HasProduct
<1>1. ASSUME NEW w \in Workers, Start(w) PROVE InOrder'
    <2>1. UNCHANGED <<result, calls, submissions, published>>
        BY <1>1 DEF Start
    <2>0. pc'[w] = "prepare" /\ OthersStay(w)
        BY <1>1 DEF Start, TypeOK, OthersStay
    <2>2. \A v \in Workers : \A b \in 1..(artifact'[v] - 1) : published[b] # "none"
        <3>1. PICK a \in Artifacts : /\ \A b \in 1..(a - 1) : published[b] # "none"
                                     /\ artifact' = [artifact EXCEPT ![w] = a]
            BY <1>1 DEF Start
        <3>2. artifact'[w] = a /\ \A v \in Workers \ {w} : artifact'[v] = artifact[v]
            BY <3>1 DEF TypeOK
        <3> QED
            BY <3>1, <3>2 DEF InOrder
    <2> QED
        BY <2>0, <2>1, <2>2 DEF InOrder, OthersStay
<1>2. ASSUME NEW w \in Workers, Work(w) \/ Mishap(w) PROVE InOrder'
    <2>1. pc[w] # "idle" /\ artifact[w] \in Artifacts
        BY <1>0, <1>2 DEF Work, Mishap, Prepare, Reserve, Existing, Store, Invoke, Record, Poll,
                    PollAgain, Timeout, Read, Publish, Interrupted, ReserveIsLost, StoreIsLost,
                    InvokeIsLost, RecordIsLost, PublishIsLost, Crash
    <2>2. UNCHANGED artifact \/ artifact' = [artifact EXCEPT ![w] = 0]
        BY <1>2 DEF Work, Mishap, Prepare, Reserve, Existing, Store, Invoke, Record, Poll,
                    PollAgain, Timeout, Read, Publish, Interrupted, ReserveIsLost, StoreIsLost,
                    InvokeIsLost, RecordIsLost, PublishIsLost, Crash, Lost, Goto, Answer, Retry
    <2>3. \A v \in Workers : artifact'[v] = artifact[v] \/ artifact'[v] = 0
        BY <2>2 DEF TypeOK
    <2>4. \A a \in Artifacts : published[a] # "none" => published'[a] # "none"
        <3>1. Persist(artifact[w]) \/ UNCHANGED published
            BY <1>2 DEF Work, Mishap, Prepare, Reserve, Existing, Store, Invoke, Record, Poll,
                    PollAgain, Timeout, Read, Publish, Interrupted, ReserveIsLost, StoreIsLost,
                    InvokeIsLost, RecordIsLost, PublishIsLost, Crash
        <3> QED
            BY <2>1, <3>1 DEF Persist, TypeOK, Status
    <2>5. \A v \in Workers : \A b \in 1..(artifact'[v] - 1) : published'[b] # "none"
        <3> SUFFICES ASSUME NEW v \in Workers, NEW b \in 1..(artifact'[v] - 1)
                     PROVE  published'[b] # "none"
            OBVIOUS
        <3>1. artifact[v] \in 0..Last
            BY DEF TypeOK
        <3>2. artifact'[v] = artifact[v] /\ b \in 1..(artifact[v] - 1) /\ b \in Artifacts
            BY <2>3, <3>1 DEF Artifacts
        <3> QED
            BY <2>4, <3>2 DEF InOrder
    <2>6. UNCHANGED result
        BY <1>2 DEF Work, Mishap, Prepare, Reserve, Existing, Store, Invoke, Record, Poll,
                    PollAgain, Timeout, Read, Publish, Interrupted, ReserveIsLost, StoreIsLost,
                    InvokeIsLost, RecordIsLost, PublishIsLost, Crash
    <2>7. /\ \A v \in Workers :
                  pc'[v] = "invoke" /\ attempt'[v] > 1 => submissions'[artifact'[v]] > 0
          /\ \A a \in Artifacts : calls[a] > 0 => calls'[a] > 0
          /\ \A a \in Artifacts : calls'[a] > 0 => submissions'[a] > 0
        <3>1. CASE Invoke(w) \/ InvokeIsLost(w)
            <4> DEFINE own == artifact[w]
            <4>1. Submitted(w) /\ pc[w] = "invoke"
                BY <3>1 DEF Invoke, InvokeIsLost
            <4>2. /\ submissions'[own] > 0
                  /\ \A b \in Artifacts : submissions[b] > 0 => submissions'[b] > 0
                BY <2>1, <4>1 DEF Submitted, TypeOK, InOrder
            <4>3. \A b \in Artifacts : /\ calls[b] > 0 => calls'[b] > 0
                                       /\ b # own => calls'[b] = calls[b]
                BY <2>1, <3>1 DEF Invoke, InvokeIsLost, Called, TypeOK
            <4>4. OthersStay(w) /\ (pc'[w] = "invoke" => artifact'[w] = own)
                BY <3>1, Going DEF Invoke, InvokeIsLost, Lost, PCs
            <4>5. ASSUME NEW v \in Workers, pc'[v] = "invoke", attempt'[v] > 1
                  PROVE  submissions'[artifact'[v]] > 0
                BY <1>0, <4>2, <4>4, <4>5 DEF OthersStay, InOrder
            <4>6. \A b \in Artifacts : calls'[b] > 0 => submissions'[b] > 0
                BY <4>2, <4>3 DEF InOrder
            <4> QED
                BY <4>3, <4>5, <4>6
        <3>2. CASE ~(Invoke(w) \/ InvokeIsLost(w))
            <4>1. UNCHANGED <<calls, submissions>>
                BY <1>2, <3>2
                   DEF Work, Mishap, Prepare, Reserve, Existing, Store, Record, Poll, PollAgain,
                       Timeout, Read, Publish, Interrupted, ReserveIsLost, StoreIsLost,
                       RecordIsLost, PublishIsLost, Crash
            <4>2. \/ Answer(w)
                  \/ \E p \in PCs : Goto(w, p)
                  \/ Retry(w) /\ pc[w] # "invoke"
                BY <1>2, <3>2
                   DEF Work, Mishap, Prepare, Reserve, Existing, Store, Record, Poll, PollAgain,
                       Timeout, Read, Publish, Interrupted, ReserveIsLost, StoreIsLost,
                       RecordIsLost, PublishIsLost, Crash, Lost, PCs
            <4>3. OthersStay(w) /\ (pc'[w] = "invoke" => attempt'[w] = 1)
                BY <4>2, Going
            <4> QED
                BY <4>1, <4>3 DEF OthersStay, InOrder
        <3> QED
            BY <3>1, <3>2
    <2> QED
        BY <2>5, <2>6, <2>7 DEF InOrder
<1>3. ASSUME NEW a \in Artifacts, Infer(a) PROVE InOrder'
    BY <1>3 DEF Infer, InOrder, TypeOK
<1>4. CASE UNCHANGED vars
    BY <1>4 DEF vars, InOrder
<1> QED
    BY <1>1, <1>2, <1>3, <1>4 DEF Next

LEMMA LineInit == Init => Line!Init
BY DEF Init, Line!Init, Line!Products, Artifacts

LEMMA Stepping ==
    ASSUME NEW p \in Line!Products,
           Line!Reserve(p) \/ Line!Ask(p) \/ Line!Compute(p) \/ Line!Publish(p)
    PROVE  Line!Next
BY DEF Line!Next

LEMMA LineStep ==
    TypeOK /\ OneSubmitter /\ Waited /\ InOrder /\ [Next]_vars => [Line!Next]_(Line!vars)
<1> SUFFICES ASSUME TypeOK, OneSubmitter, Waited, InOrder, [Next]_vars
             PROVE  Line!Next \/ UNCHANGED Line!vars
    OBVIOUS
<1> USE DEF environment, store, endpoint, worker
<1>0. ASSUME NEW w \in Workers, pc[w] # "idle", submissions[artifact[w]] = 0
      PROVE  artifact[w] \in Line!Products /\ Line!Current(artifact[w])
    <2>1. artifact[w] \in Artifacts
        BY <1>0, HasProduct
    <2>2. published[artifact[w]] = "none"
        BY <1>0, <2>1 DEF InOrder, Waited, PublishedIsComputed, TypeOK
    <2> QED
        BY <2>1, <2>2 DEF InOrder, Line!Current, Line!Products, Artifacts
\* What neither reserves, nor asks, nor computes, nor publishes is not seen.
<1>1. ASSUME \A a \in Artifacts : reservation'[a] = "none" <=> reservation[a] = "none",
             UNCHANGED <<submissions, result, published>>
      PROVE  UNCHANGED Line!vars
    BY <1>1 DEF Line!vars
<1>2. ASSUME NEW w \in Workers, Reserve(w) \/ ReserveIsLost(w)
      PROVE  Line!Next \/ UNCHANGED Line!vars
    <2> DEFINE own == artifact[w]
    <2>1. own \in Artifacts /\ UNCHANGED <<submissions, result, published>> /\ pc[w] # "idle"
        BY <1>2, HasProduct DEF Reserve, ReserveIsLost
    <2>2. CASE reservation[own] = "none" /\ Reserved(own)
        <3>1. submissions[own] = 0
            BY <2>1, <2>2 DEF OneSubmitter
        <3>2. {b \in Artifacts : reservation'[b] # "none"}
                  = {b \in Artifacts : reservation[b] # "none"} \cup {own}
            BY <2>1, <2>2 DEF Reserved, TypeOK
        <3>3. PICK p \in Line!Products : p = own /\ Line!Current(p)
            BY <1>0, <2>1, <3>1
        <3>4. Line!Reserve(p)
            BY <2>1, <2>2, <3>2, <3>3 DEF Line!Reserve
        <3> QED
            BY <3>4, Stepping
    <2>3. CASE UNCHANGED reservation
        BY <1>1, <2>1, <2>3
    <2> QED
        BY <1>2, <2>2, <2>3 DEF Reserve, ReserveIsLost
<1>3. ASSUME NEW w \in Workers, Invoke(w) \/ InvokeIsLost(w)
      PROVE  Line!Next \/ UNCHANGED Line!vars
    <2> DEFINE own == artifact[w]
    <2>1. /\ own \in Artifacts /\ pc[w] = "invoke" /\ Submitted(w)
          /\ UNCHANGED <<reservation, result, published>>
        BY <1>3, HasProduct DEF Invoke, InvokeIsLost
    <2>2. CASE attempt[w] = 1
        <3>1. submissions[own] = 0 /\ reservation[own] # "none"
            BY <2>1, <2>2 DEF OneSubmitter, Submitting
        <3>2. submissions' = [submissions EXCEPT ![own] = 1]
            BY <2>1, <2>2, <3>1 DEF Submitted, TypeOK
        <3>3. Line!Ask(own) /\ own \in Line!Products
            BY <1>0, <2>1, <3>1, <3>2 DEF Line!Ask
        <3> QED
            BY <3>3, Stepping
    <2>3. CASE attempt[w] # 1
        <3>1. submissions' = submissions
            BY <2>1, <2>3 DEF Submitted, TypeOK
        <3> QED
            BY <1>1, <2>1, <3>1
    <2> QED
        BY <2>2, <2>3
<1>4. ASSUME NEW w \in Workers, Publish(w) \/ PublishIsLost(w)
      PROVE  Line!Next \/ UNCHANGED Line!vars
    <2> DEFINE own == artifact[w]
    <2>1. /\ own \in Artifacts /\ pc[w] = "publish"
          /\ UNCHANGED <<reservation, submissions, result>>
        BY <1>4, HasProduct DEF Publish, PublishIsLost
    <2>2. CASE published[own] = "none" /\ Persist(own)
        <3>1. Line!Current(own) /\ own \in Line!Products
            BY <2>1, <2>2 DEF InOrder, Line!Current, Line!Products, Artifacts
        <3>2. result[own] \in {"proposals", "nothing"}
            BY <2>1 DEF Waited
        <3>3. published' = [published EXCEPT ![own] = Line!Status(result[own])]
            BY <2>1, <2>2 DEF Persist, Status, Line!Status, TypeOK
        <3>4. Line!Publish(own)
            BY <2>1, <3>1, <3>2, <3>3 DEF Line!Publish
        <3> QED
            BY <3>1, <3>4, Stepping
    <2>3. CASE ~(published[own] = "none" /\ Persist(own))
        <3>1. UNCHANGED published
            BY <1>4, <2>1, <2>3 DEF Publish, PublishIsLost, Persist, TypeOK
        <3> QED
            BY <1>1, <2>1, <3>1
    <2> QED
        BY <2>2, <2>3
<1>5. ASSUME NEW w \in Workers,
             \/ Start(w) \/ Prepare(w) \/ Existing(w) \/ Store(w) \/ Poll(w) \/ PollAgain(w)
             \/ Timeout(w) \/ Read(w) \/ Interrupted(w) \/ StoreIsLost(w) \/ Crash(w)
      PROVE  UNCHANGED Line!vars
    <2>1. UNCHANGED <<reservation, submissions, result, published>>
        BY <1>5 DEF Start, Prepare, Existing, Store, Poll, PollAgain, Timeout, Read,
                    Interrupted, StoreIsLost, Crash
    <2> QED
        BY <1>1, <2>1
<1>6. ASSUME NEW w \in Workers, Record(w) \/ RecordIsLost(w) PROVE UNCHANGED Line!vars
    <2>1. artifact[w] \in Artifacts /\ reservation[artifact[w]] # "none"
        BY <1>6, HasProduct DEF Record, RecordIsLost, OneSubmitter, Submitting
    <2>2. /\ \A a \in Artifacts : reservation'[a] = "none" <=> reservation[a] = "none"
          /\ UNCHANGED <<submissions, result, published>>
        BY <1>6, <2>1 DEF Record, RecordIsLost, Recorded, TypeOK
    <2> QED
        BY <1>1, <2>2
<1>7. ASSUME NEW a \in Artifacts, Infer(a) PROVE Line!Next
    <2>1. submissions[a] = 1
        BY <1>7 DEF Infer, InOrder, OneSubmitter, OneSubmission, TypeOK
    <2>2. Line!Compute(a) /\ a \in Line!Products
        BY <1>7, <2>1 DEF Infer, Line!Compute, Line!Products, Artifacts, Results, Outputs
    <2> QED
        BY <2>2, Stepping
<1>8. CASE UNCHANGED vars
    BY <1>1, <1>8 DEF vars
<1> QED
    BY <1>2, <1>3, <1>4, <1>5, <1>6, <1>7, <1>8 DEF Next, Work, Mishap

\* The calls together do what one orderly analyst would: a product is reserved,
\* asked for once, computed and published before the next one is begun
\* (satellite_cpu.py:484-609, 772-788).
THEOREM Implements == Spec => InLine
<1>1. Init => Waited /\ InOrder
    BY DEF Init, Waited, PublishedIsComputed, InOrder, Artifacts
<1>2. TypeOK /\ OneSubmitter /\ Waited /\ InOrder /\ [Next]_vars
          => TypeOK' /\ OneSubmitter' /\ Waited' /\ InOrder'
    BY TypeStep, SubmitterStep, WaitedStep, InOrderStep
<1> QED
    BY <1>1, <1>2, TypeInit, SubmitterInit, LineInit, LineStep, PTL DEF Spec, InLine, Line!Spec
=============================================================================
