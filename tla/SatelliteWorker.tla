-------------------------- MODULE SatelliteWorker ---------------------------
(***************************************************************************)
(* The paid analysis of satellite products (satellite_cpu.py,              *)
(* satellite_cpu_service.py).                                              *)
(*                                                                         *)
(* Each call of the service takes the first product of an incident day     *)
(* that has no published analysis, prepares its request, sends it to an    *)
(* asynchronous endpoint that costs money, waits for the result and        *)
(* publishes it.  The object store's reservation of a request, made with   *)
(* If-None-Match, is what keeps two calls, or a call and its repetition    *)
(* after a crash, from both paying.                                        *)
(*                                                                         *)
(* The request of a product is the same each time, so a product stands for *)
(* its request.  A call to the store or the endpoint may be lost, or its   *)
(* answer, and the SDK then tries again by itself.  What the service tells *)
(* its caller is left out: whoever calls may call again, after any answer. *)
(***************************************************************************)
EXTENDS Naturals

CONSTANTS
    Workers,        \* threads of the service
    Last,           \* products of the incident day, in the order of its tickets
    AttemptLimits,  \* values of the SDK's total_max_attempts
    MaxLosses       \* bound on what goes wrong outside the worker

ASSUME LastAssumption == Last \in Nat \ {0}
ASSUME AttemptsAssumption == AttemptLimits \subseteq Nat \ {0}
ASSUME LossesAssumption == MaxLosses \in Nat

Artifacts == 1..Last

VARIABLES
    attempts,       \* what the SDK's limit is
    watched,        \* whether the endpoint reports a location for failures
    unusable,       \* products no raster can be made of, such as one beside the incident
    reservation,    \* reservation.json of each request
    stored,         \* requests whose request.json is in the store
    result,         \* what the endpoint made of the request whose location is recorded
    calls,          \* inferences the endpoint was made to run
    submissions,    \* times the worker asked for one
    published,      \* analyses the backend has
    pc,             \* per worker: what it does next
    artifact,       \* per worker: the product it works on, 0 if none
    attempt,        \* per worker: which attempt of an SDK call this is
    losses          \* what has gone wrong so far

environment == <<attempts, watched, unusable>>
store    == <<reservation, stored>>
endpoint == <<result, calls, submissions>>
worker   == <<pc, artifact, attempt>>
vars == <<environment, store, endpoint, published, worker, losses>>

PCs == {"idle", "prepare", "reserve", "existing", "store", "invoke", "record",
        "poll", "wait", "read", "publish"}
Outputs == {"proposals", "nothing", "unreadable"}
Results == Outputs \cup {"failure"}

Init ==
    /\ attempts \in AttemptLimits
    /\ watched \in BOOLEAN
    /\ unusable \in SUBSET Artifacts
    /\ reservation = [a \in Artifacts |-> "none"]
    /\ stored = {}
    /\ result = [a \in Artifacts |-> "none"]
    /\ calls = [a \in Artifacts |-> 0]
    /\ submissions = [a \in Artifacts |-> 0]
    /\ published = [a \in Artifacts |-> "none"]
    /\ pc = [w \in Workers |-> "idle"]
    /\ artifact = [w \in Workers |-> 0]
    /\ attempt = [w \in Workers |-> 1]
    /\ losses = 0

-----------------------------------------------------------------------------
(* Steps of a worker *)

Goto(w, p) ==
    /\ pc' = [pc EXCEPT ![w] = p]
    /\ attempt' = [attempt EXCEPT ![w] = 1]
    /\ UNCHANGED artifact

\* (mutant) the next call goes on with the product of this one
AnswerKeepsArtifact(w) == Goto(w, "idle")

\* The call of w ends, with a receipt or an error.
Answer(w) ==
    /\ pc' = [pc EXCEPT ![w] = "idle"]
    /\ attempt' = [attempt EXCEPT ![w] = 1]
    /\ artifact' = [artifact EXCEPT ![w] = 0]

Loss == losses < MaxLosses /\ losses' = losses + 1

\* (mutant) the limit counts the repetitions and not the attempts
RetryBeyondLimit(w) ==
    /\ attempt[w] <= attempts
    /\ attempt' = [attempt EXCEPT ![w] = @ + 1]
    /\ UNCHANGED <<pc, artifact>>

\* The SDK tries a call again whose answer did not come.
Retry(w) ==
    /\ attempt[w] < attempts
    /\ attempt' = [attempt EXCEPT ![w] = @ + 1]
    /\ UNCHANGED <<pc, artifact>>

\* A call of w, or the answer to it, is lost: the SDK tries again, or the error
\* ends the call of the service.
Lost(w) == Loss /\ (Retry(w) \/ Answer(w))

-----------------------------------------------------------------------------
(* Choosing and preparing: SatelliteCpuWorker.run *)

\* The first product without an analysis, in the evidence as it is now.
Start(w) ==
    /\ pc[w] = "idle"
    /\ \E a \in Artifacts :
            /\ published[a] = "none"
            /\ \A b \in 1..(a - 1) : published[b] # "none"
            /\ artifact' = [artifact EXCEPT ![w] = a]
    /\ pc' = [pc EXCEPT ![w] = "prepare"]
    /\ UNCHANGED <<environment, store, endpoint, published, attempt, losses>>

\* Its bands are fetched, its raster and request are built.
Prepare(w) ==
    /\ pc[w] = "prepare"
    /\ IF artifact[w] \in unusable THEN Answer(w) ELSE Goto(w, "reserve")
    /\ UNCHANGED <<environment, store, endpoint, published, losses>>

\* Downloads, the federation of credentials and the reads of the store may fail.
Interrupted(w) ==
    /\ pc[w] \in {"prepare", "existing", "poll", "read"}
    /\ Loss
    /\ Answer(w)
    /\ UNCHANGED <<environment, store, endpoint, published>>

-----------------------------------------------------------------------------
(* Paying at most once: AzureFederatedSageMakerAsyncProvider.invoke *)

Reserved(a) == reservation' = [reservation EXCEPT ![a] = "reserved"]

\* put_object with IfNoneMatch="*"
Reserve(w) ==
    /\ pc[w] = "reserve"
    /\ IF reservation[artifact[w]] = "none"
       THEN Reserved(artifact[w]) /\ Goto(w, "store")
       ELSE UNCHANGED reservation /\ Goto(w, "existing")
    /\ UNCHANGED <<environment, stored, endpoint, published, losses>>

ReserveIsLost(w) ==
    /\ pc[w] = "reserve"
    /\ \/ UNCHANGED reservation
       \/ reservation[artifact[w]] = "none" /\ Reserved(artifact[w])
    /\ Lost(w)
    /\ UNCHANGED <<environment, stored, endpoint, published>>

\* (mutant) a reservation without a submission is submitted by whoever finds it
ExistingIsResubmitted(w) ==
    /\ pc[w] = "existing"
    /\ IF reservation[artifact[w]] = "submitted" THEN Goto(w, "poll") ELSE Goto(w, "invoke")
    /\ UNCHANGED <<environment, store, endpoint, published, losses>>

\* (mutant) a reservation that exists is an error
ExistingIsRefused(w) ==
    /\ pc[w] = "existing"
    /\ Answer(w)
    /\ UNCHANGED <<environment, store, endpoint, published, losses>>

\* The reservation is another one's: its result is waited for if there will be
\* one.  Otherwise nobody knows whether the endpoint was called.
Existing(w) ==
    /\ pc[w] = "existing"
    /\ IF reservation[artifact[w]] = "submitted" THEN Goto(w, "poll") ELSE Answer(w)
    /\ UNCHANGED <<environment, store, endpoint, published, losses>>

\* put_object of the request with IfNoneMatch="*"
Store(w) ==
    /\ pc[w] = "store"
    /\ IF artifact[w] \in stored THEN Answer(w) ELSE Goto(w, "invoke")
    /\ stored' = stored \cup {artifact[w]}
    /\ UNCHANGED <<environment, reservation, endpoint, published, losses>>

StoreIsLost(w) ==
    /\ pc[w] = "store"
    /\ stored' \in {stored, stored \cup {artifact[w]}}
    /\ Lost(w)
    /\ UNCHANGED <<environment, reservation, endpoint, published>>

Called(a) == calls' = [calls EXCEPT ![a] = @ + 1]

\* An attempt is another submission only if it is the first one.
Submitted(w) ==
    submissions' = [submissions EXCEPT ![artifact[w]] = IF attempt[w] = 1 THEN @ + 1 ELSE @]

\* invoke_endpoint_async
Invoke(w) ==
    /\ pc[w] = "invoke"
    /\ Called(artifact[w])
    /\ Submitted(w)
    /\ Goto(w, "record")
    /\ UNCHANGED <<environment, store, result, published, losses>>

InvokeIsLost(w) ==
    /\ pc[w] = "invoke"
    /\ Called(artifact[w]) \/ UNCHANGED calls
    /\ Submitted(w)
    /\ Lost(w)
    /\ UNCHANGED <<environment, store, result, published>>

Recorded(a) == reservation' = [reservation EXCEPT ![a] = "submitted"]

\* (mutant) the location of the result is only kept in memory
RecordNothing(w) ==
    /\ pc[w] = "record"
    /\ Goto(w, "poll")
    /\ UNCHANGED <<environment, store, endpoint, published, losses>>

\* put_object with IfMatch: a repetition of one that was carried out is refused.
Record(w) ==
    /\ pc[w] = "record"
    /\ IF reservation[artifact[w]] = "reserved" THEN Goto(w, "poll") ELSE Answer(w)
    /\ Recorded(artifact[w])
    /\ UNCHANGED <<environment, stored, endpoint, published, losses>>

RecordIsLost(w) ==
    /\ pc[w] = "record"
    /\ Recorded(artifact[w]) \/ UNCHANGED reservation
    /\ Lost(w)
    /\ UNCHANGED <<environment, stored, endpoint, published>>

-----------------------------------------------------------------------------
(* Waiting for the result, reading and publishing it *)

Poll(w) ==
    /\ pc[w] = "poll"
    /\ IF result[artifact[w]] \in Outputs THEN Goto(w, "read")
       ELSE IF result[artifact[w]] = "failure" /\ watched THEN Answer(w)
       ELSE Goto(w, "wait")
    /\ UNCHANGED <<environment, store, endpoint, published, losses>>

\* After poll_seconds the time is up or not.
PollAgain(w) ==
    /\ pc[w] = "wait"
    /\ Goto(w, "poll")
    /\ UNCHANGED <<environment, store, endpoint, published, losses>>

\* (mutant) no result in time is an analysis without proposals
TimeoutAbstains(w) ==
    /\ pc[w] = "wait"
    /\ Goto(w, "publish")
    /\ UNCHANGED <<environment, store, endpoint, published, losses>>

Timeout(w) ==
    /\ pc[w] = "wait"
    /\ Answer(w)
    /\ UNCHANGED <<environment, store, endpoint, published, losses>>

Read(w) ==
    /\ pc[w] = "read"
    /\ IF result[artifact[w]] = "unreadable" THEN Answer(w) ELSE Goto(w, "publish")
    /\ UNCHANGED <<environment, store, endpoint, published, losses>>

Status(r) == IF r = "proposals" THEN "completed" ELSE "abstained"

\* The backend keeps the first analysis of a product and replays its receipt.
Persist(a) ==
    published' = [published EXCEPT ![a] = IF @ = "none" THEN Status(result[a]) ELSE @]

Publish(w) ==
    /\ pc[w] = "publish"
    /\ Persist(artifact[w])
    /\ Answer(w)
    /\ UNCHANGED <<environment, store, endpoint, losses>>

PublishIsLost(w) ==
    /\ pc[w] = "publish"
    /\ Persist(artifact[w]) \/ UNCHANGED published
    /\ Loss
    /\ Answer(w)
    /\ UNCHANGED <<environment, store, endpoint>>

-----------------------------------------------------------------------------
\* The replica stops while w is in a call.
Crash(w) ==
    /\ pc[w] # "idle"
    /\ Loss
    /\ Answer(w)
    /\ UNCHANGED <<environment, store, endpoint, published>>

\* The endpoint ends an inference.
Infer(a) ==
    /\ calls[a] > 0
    /\ result[a] = "none"
    /\ \E r \in Results : result' = [result EXCEPT ![a] = r]
    /\ UNCHANGED <<environment, store, calls, submissions, published, worker, losses>>

Work(w) == \/ Prepare(w) \/ Reserve(w) \/ Existing(w) \/ Store(w) \/ Invoke(w) \/ Record(w)
           \/ Poll(w) \/ PollAgain(w) \/ Timeout(w) \/ Read(w) \/ Publish(w)

Mishap(w) == \/ Interrupted(w) \/ ReserveIsLost(w) \/ StoreIsLost(w) \/ InvokeIsLost(w)
             \/ RecordIsLost(w) \/ PublishIsLost(w) \/ Crash(w)

Next == \/ \E w \in Workers : Start(w) \/ Work(w) \/ Mishap(w)
        \/ \E a \in Artifacts : Infer(a)

Spec == Init /\ [][Next]_vars

\* The service is called again and again, a call goes on, an inference ends.
Fairness ==
    /\ \A w \in Workers : WF_vars(Start(w)) /\ WF_vars(Work(w))
    /\ \A a \in Artifacts : WF_vars(Infer(a))

FairSpec == Spec /\ Fairness

-----------------------------------------------------------------------------
(* Properties *)

\* Every variable has its type, and a worker has a product exactly while it is
\* in a call (satellite_cpu.py:763-860).
TypeOK ==
    /\ attempts \in AttemptLimits
    /\ watched \in BOOLEAN
    /\ unusable \subseteq Artifacts
    /\ reservation \in [Artifacts -> {"none", "reserved", "submitted"}]
    /\ stored \subseteq Artifacts
    /\ result \in [Artifacts -> Results \cup {"none"}]
    /\ calls \in [Artifacts -> Nat]
    /\ submissions \in [Artifacts -> Nat]
    /\ published \in [Artifacts -> {"none", "completed", "abstained"}]
    /\ pc \in [Workers -> PCs]
    /\ artifact \in [Workers -> 0..Last]
    /\ attempt \in [Workers -> 1..attempts]
    /\ losses \in 0..MaxLosses
    /\ \A w \in Workers : pc[w] = "idle" <=> artifact[w] = 0

\* However many calls of the service meet, crash and are repeated, the endpoint
\* is asked for one inference of a request (satellite_cpu.py:361, 484-562).
OneSubmission == \A a \in Artifacts : submissions[a] <= 1

\* "S3 reservation prevents paid duplicate calls" (satellite_cpu.py:361).
PaidOnce == \A a \in Artifacts : calls[a] <= 1

\* ... which it does if the SDK does not repeat the call by itself
\* (satellite_cpu.py:426-432).
PaidOnceWithoutRetries == attempts = 1 => PaidOnce

\* A request that is reserved and that nobody is about to submit.  No later call
\* can do anything about it (satellite_cpu.py:509-512).
Submitting == {"store", "invoke", "record"}
Orphaned(a) ==
    /\ reservation[a] = "reserved"
    /\ \A w \in Workers : pc[w] \in Submitting => artifact[w] # a

\* As long as nothing goes wrong outside, whoever reserves a request submits it,
\* also if several calls of the service are at it (satellite_cpu.py:527-566).
OrphanedOnlyAfterLoss == losses = 0 => \A a \in Artifacts : ~Orphaned(a)

\* What is published is what the endpoint computed, whoever waited for it and
\* however often (satellite_cpu.py:581-609, 822-854).
PublishedIsComputed == \A a \in Artifacts :
    published[a] # "none" =>
        /\ result[a] \in {"proposals", "nothing"}
        /\ published[a] = Status(result[a])

\* The calls together do what one orderly analyst would: a product is reserved,
\* asked for once, computed and published before the next one is begun
\* (satellite_cpu.py:484-609, 772-788).
Line == INSTANCE AnalysisLine WITH
    reserved <- {a \in Artifacts : reservation[a] # "none"},
    asked <- submissions
InLine == Line!Spec

\* What keeps a product, and the products after it, from ever being analysed: no
\* raster, no submission, or no readable result (satellite_cpu.py:788).
Blocks(a) == a \in unusable \/ Orphaned(a) \/ result[a] \in {"failure", "unreadable"}

\* Every product is analysed, or one that blocks is at or before it: a time-out, a
\* crash or a repeated call alone loses nothing (satellite_cpu.py:772-788, 581-609).
EveryProductEnds == \A a \in Artifacts :
    <>(published[a] # "none" \/ \E b \in 1..a : Blocks(b))

-----------------------------------------------------------------------------
(* Why they hold *)

\* Nothing is stored, submitted or paid of a request that is not reserved, one
\* worker at most is submitting a request, and it has not done so before.
OneSubmitter ==
    /\ \A w \in Workers : pc[w] \in Submitting => reservation[artifact[w]] # "none"
    /\ \A v, w \in Workers :
            pc[v] \in Submitting /\ pc[w] \in Submitting /\ artifact[v] = artifact[w] => v = w
    /\ \A a \in Artifacts :
            reservation[a] = "none" => submissions[a] = 0 /\ a \notin stored
    /\ \A w \in Workers :
            pc[w] = "store" \/ (pc[w] = "invoke" /\ attempt[w] = 1)
                => submissions[artifact[w]] = 0
    /\ OneSubmission

PaidBySubmission == attempts = 1 => \A a \in Artifacts : calls[a] <= submissions[a]

\* Before anything goes wrong, whoever submits goes through with it.
Undisturbed == losses = 0 =>
    /\ \A w \in Workers : pc[w] \in Submitting => reservation[artifact[w]] = "reserved"
    /\ \A w \in Workers : pc[w] = "store" => artifact[w] \notin stored
    /\ OrphanedOnlyAfterLoss

\* A worker that reads or publishes has seen a result, which does not change.
Waited ==
    /\ \A w \in Workers : pc[w] = "read" => result[artifact[w]] \in Outputs
    /\ \A w \in Workers : pc[w] = "publish" => result[artifact[w]] \in {"proposals", "nothing"}
    /\ PublishedIsComputed

\* A worker is at the first product without an analysis, or at one that another
\* worker has ended meanwhile; no inference was not asked for, and no result came
\* without one.
InOrder ==
    /\ \A w \in Workers : \A b \in 1..(artifact[w] - 1) : published[b] # "none"
    /\ \A w \in Workers : pc[w] = "invoke" /\ attempt[w] > 1 => submissions[artifact[w]] > 0
    /\ \A a \in Artifacts : calls[a] > 0 => submissions[a] > 0
    /\ \A a \in Artifacts : result[a] # "none" => calls[a] > 0

IInv == TypeOK /\ OneSubmitter /\ PaidBySubmission /\ Undisturbed /\ Waited /\ InOrder
=============================================================================
