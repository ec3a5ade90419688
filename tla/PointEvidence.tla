---------------------------- MODULE PointEvidence -----------------------------
(***************************************************************************)
(* The services that build the evidence of one event: key frames           *)
(* (keyframe_cpu_service.py), vision (yolo_cpu_service.py), geography      *)
(* (geographic_cpu_service.py) and point supervision                       *)
(* (durable_endpoint.py).  They share nothing but the evidence in the      *)
(* backend, which is external.  A service reads the evidence with its      *)
(* revision, derives something from it, and publishes that with the        *)
(* revision.  The backend records it if the revision is still the latest;  *)
(* otherwise the request fails with what it has not published yet.         *)
(*                                                                         *)
(* A revision is the hash of the evidence, so no revision comes back, and  *)
(* all one can do with it is to compare it with the latest.  It is here    *)
(* the set "fresh" of the requests whose revision is the latest.           *)
(*                                                                         *)
(* Evidence is a set of items.  What a medium shows, where a candidate     *)
(* lies and what the supervisor says are left out.                         *)
(***************************************************************************)
EXTENDS Naturals, FiniteSets

CONSTANTS
    Threads,      \* threads of the services
    ServiceOf,    \* which service a thread is of
    Photos,       \* media of the event that are no videos
    Frames,       \* key frames of its videos, in the order they are published
    MaxMedia,     \* media of one vision request (max_media)
    Candidates,   \* locations the backend may propose, in the order of their ids
    MaxRequests,  \* bound on requests to services other than supervision
    MaxMishaps    \* bound on lost answers, failures and writes of others

Services == {"keyframes", "vision", "geography", "supervision"}

ASSUME ServicesAssumption == ServiceOf \in [Threads -> Services]
ASSUME MediaAssumption == Photos \subseteq Nat /\ Frames \subseteq Nat
ASSUME CandidatesAssumption == Candidates \subseteq Nat
ASSUME BoundsAssumption == MaxMedia \in Nat /\ MaxRequests \in Nat /\ MaxMishaps \in Nat

VARIABLES
    evidence,   \* backend: what is recorded of the event
    fresh,      \* requests that hold the latest revision
    pc,         \* per thread: what its request does next
    todo,       \* per thread: what it has yet to publish, or to assess
    requests,   \* requests to services other than supervision so far
    mishaps,    \* lost answers, failures and writes of others so far
    seen,       \* history, per thread: the evidence its work is derived from
    own,        \* history, per thread: what it recorded itself since it read that
    disturbed   \* history: requests since whose reading someone else recorded

backend == <<evidence, fresh>>
threads == <<pc, todo>>
history == <<seen, own, disturbed>>
vars == <<backend, threads, requests, mishaps, history>>

Keyframe(f) == <<"keyframe", f>>
Observation(m) == <<"observation", m>>
Candidate(c) == <<"candidate", c>>
Assessment(c) == <<"assessment", c>>
Research(n) == <<"research", n>>
Hypotheses == <<"hypotheses", 0>>

Proposals == {Candidate(c) : c \in Candidates}
Items ==
    {Keyframe(f) : f \in Frames} \cup {Observation(m) : m \in Photos \cup Frames}
    \cup Proposals \cup {Assessment(c) : c \in Candidates}
    \cup {Research(n) : n \in 1..MaxMishaps} \cup {Hypotheses}

Busy == {t \in Threads : pc[t] # "idle"}

Init ==
    /\ evidence \in SUBSET Proposals
    /\ fresh = {}
    /\ pc = [t \in Threads |-> "idle"]
    /\ todo = [t \in Threads |-> {}]
    /\ requests = 0
    /\ mishaps = 0
    /\ seen = [t \in Threads |-> {}]
    /\ own = [t \in Threads |-> {}]
    /\ disturbed = {}

Mishap == mishaps < MaxMishaps /\ mishaps' = mishaps + 1

-----------------------------------------------------------------------------
(* Steps of a request *)

\* The request of t is over, with an answer or an error.
Rest(t) ==
    /\ pc' = [pc EXCEPT ![t] = "idle"]
    /\ todo' = [todo EXCEPT ![t] = {}]
    /\ seen' = [seen EXCEPT ![t] = {}]
    /\ own' = [own EXCEPT ![t] = {}]

Go(t, place, work) ==
    /\ pc' = [pc EXCEPT ![t] = place]
    /\ todo' = [todo EXCEPT ![t] = work]

\* t reads the evidence with its revision.
Read(t) ==
    /\ fresh' = fresh \cup {t}
    /\ seen' = [seen EXCEPT ![t] = evidence]
    /\ own' = [own EXCEPT ![t] = {}]
    /\ disturbed' = disturbed \ {t}
    /\ UNCHANGED evidence

\* The request of t gives up without having written anything.
Fail(t) ==
    /\ Rest(t)
    /\ fresh' = fresh \ {t}
    /\ disturbed' = disturbed \ {t}
    /\ UNCHANGED <<evidence, requests>>

\* The backend makes "after" of the evidence.  If that is a new revision, it is not the one
\* the others hold; "holder" is the request that is told the revision and goes on with it.
Record(t, after, new, holder) ==
    /\ evidence' = after
    /\ IF new THEN fresh' = holder /\ disturbed' = Busy \ {t}
       ELSE fresh' = (fresh \ {t}) \cup holder /\ disturbed' = disturbed \ {t}

\* t goes on with what it has left, or its request is over.
Continue(t, place, left, recorded) ==
    IF left = {} THEN Rest(t)
    ELSE /\ Go(t, place, left)
         /\ own' = [own EXCEPT ![t] = @ \cup recorded]
         /\ UNCHANGED seen

\* What a publication adds is recorded, and the answer may be lost.
Publish(t, after, new, holder, place, left) ==
    \/ /\ Record(t, after, new, holder)
       /\ Continue(t, place, left, after \ evidence)
       /\ UNCHANGED mishaps
    \/ /\ Record(t, after, new, {})
       /\ Rest(t)
       /\ Mishap

Asked(t, service) ==
    /\ pc[t] = "idle"
    /\ ServiceOf[t] = service
    /\ IF service = "supervision" THEN UNCHANGED requests
       ELSE requests < MaxRequests /\ requests' = requests + 1

At(t, service, place) ==
    /\ pc[t] = place
    /\ ServiceOf[t] = service
    /\ UNCHANGED requests

Publishes(t, service) == At(t, service, "publish") /\ t \in fresh

\* The revision is not the latest any more.
Conflict(t) ==
    /\ pc[t] = "publish"
    /\ t \notin fresh
    /\ Fail(t)
    /\ UNCHANGED mishaps

\* The first of what t has left.
First(t, w) == w \in todo[t] /\ \A v \in todo[t] : w <= v

-----------------------------------------------------------------------------
(* Key frames: extracted from the videos, and published one by one.  A later request      *)
(* publishes them all again: those that are recorded are acknowledged.                    *)

ReadVideos(t) ==
    /\ Asked(t, "keyframes")
    /\ Frames # {}
    /\ Read(t)
    /\ Go(t, "publish", Frames)
    /\ UNCHANGED mishaps

\* (mutant) every frame is published with the revision the backend has by then
PublishFrameUnconditionally(t) ==
    /\ At(t, "keyframes", "publish")
    /\ \E f \in todo[t] :
          LET after == evidence \cup {Keyframe(f)}
              left == todo[t] \ {f}
          IN  /\ First(t, f)
              /\ Publish(t, after, after # evidence, IF left = {} THEN {} ELSE {t},
                         "publish", left)

\* (mutant) every frame is published with the revision of the reading
PublishFrameUnchained(t) ==
    /\ Publishes(t, "keyframes")
    /\ \E f \in todo[t] :
          LET after == evidence \cup {Keyframe(f)}
              left == todo[t] \ {f}
          IN  /\ First(t, f)
              /\ Publish(t, after, after # evidence,
                         IF left = {} \/ after # evidence THEN {} ELSE {t}, "publish", left)

\* The receipt has the revision that the next frame is published with.
PublishFrame(t) ==
    /\ Publishes(t, "keyframes")
    /\ \E f \in todo[t] :
          LET after == evidence \cup {Keyframe(f)}
              left == todo[t] \ {f}
          IN  /\ First(t, f)
              /\ Publish(t, after, after # evidence, IF left = {} THEN {} ELSE {t},
                         "publish", left)

-----------------------------------------------------------------------------
(* Vision: one request detects in all media, up to a limit, and publishes at once *)

Detectable == Photos \cup {f \in Frames : Keyframe(f) \in evidence}
Selected == {m \in Detectable : Cardinality({n \in Detectable : n < m}) < MaxMedia}

\* Detection fails on some media.
Detect(t) ==
    /\ Asked(t, "vision")
    /\ Read(t)
    /\ \E detected \in SUBSET Selected : Go(t, "publish", detected)
    /\ UNCHANGED mishaps

PublishObservations(t) ==
    /\ Publishes(t, "vision")
    /\ LET after == evidence \cup {Observation(m) : m \in todo[t]}
       IN  Publish(t, after, after # evidence, {}, "idle", {})

-----------------------------------------------------------------------------
(* Geography: the evidence is read for the queries of the maps provider, whose answer is  *)
(* not published, and read again for the hypotheses                                       *)

Enrich(t) ==
    /\ Asked(t, "geography")
    /\ Go(t, "locate", {})
    /\ UNCHANGED <<backend, mishaps, history>>

Locate(t) ==
    /\ At(t, "geography", "locate")
    /\ Read(t)
    /\ Go(t, "publish", {})
    /\ UNCHANGED mishaps

\* The hypotheses have a time of their own, so they are a new revision, and it is up to the
\* backend which locations it proposes then.
PublishHypotheses(t) ==
    /\ Publishes(t, "geography")
    /\ \E proposed \in SUBSET Proposals :
          LET after == (evidence \ Proposals) \cup proposed \cup {Hypotheses}
          IN  Publish(t, after, TRUE, {}, "idle", {})

-----------------------------------------------------------------------------
(* Point supervision: the candidates of the first reading are assessed one after the      *)
(* other, each with a reading of its own                                                  *)

ReadCandidates(t) ==
    /\ Asked(t, "supervision")
    /\ \E c \in Candidates : Candidate(c) \in evidence
    /\ Read(t)
    /\ Go(t, "bundle", {c \in Candidates : Candidate(c) \in evidence})
    /\ UNCHANGED mishaps

\* (mutant) the bundles are made of the first reading
BundleOfFirstReading(t) ==
    /\ At(t, "supervision", "bundle")
    /\ \E c \in todo[t] : First(t, c) /\ Candidate(c) \in evidence
    /\ Go(t, "assess", todo[t])
    /\ UNCHANGED <<backend, mishaps, history>>

\* The evidence is read again, unless the candidate is not there any more.
Bundle(t) ==
    /\ At(t, "supervision", "bundle")
    /\ \E c \in todo[t] : First(t, c) /\ Candidate(c) \in evidence
    /\ Read(t)
    /\ Go(t, "assess", todo[t])
    /\ UNCHANGED mishaps

BundleFails(t) ==
    /\ At(t, "supervision", "bundle")
    /\ \E c \in todo[t] : First(t, c) /\ Candidate(c) \notin evidence
    /\ Fail(t)
    /\ UNCHANGED mishaps

\* The evidence is read once more; then the supervisor, which may cost money, is asked.
Assess(t) ==
    /\ At(t, "supervision", "assess")
    /\ t \in fresh
    /\ Go(t, "publish", todo[t])
    /\ UNCHANGED <<backend, mishaps, history>>

\* The bundle is stale or cannot be assembled, or the supervisor fails.
AssessFails(t) ==
    /\ At(t, "supervision", "assess")
    /\ IF t \in fresh THEN Mishap ELSE UNCHANGED mishaps
    /\ Fail(t)

\* (mutant) an assessment is recorded whatever the backend has by then
PublishAssessmentUnconditionally(t) ==
    /\ At(t, "supervision", "publish")
    /\ \E c \in todo[t] :
          /\ First(t, c)
          /\ Publish(t, evidence \cup {Assessment(c)}, TRUE, {}, "bundle", todo[t] \ {c})

\* An assessment names its bundle and so the revision: it is never recorded already.
\* Its receipt has no revision of the evidence.
PublishAssessment(t) ==
    /\ Publishes(t, "supervision")
    /\ \E c \in todo[t] :
          /\ First(t, c)
          /\ Publish(t, evidence \cup {Assessment(c)}, TRUE, {}, "bundle", todo[t] \ {c})

-----------------------------------------------------------------------------

\* Another service records sources, or the backend proposes other locations.
OtherWrite ==
    /\ Mishap
    /\ \E proposed \in SUBSET Proposals :
          evidence' = (evidence \ Proposals) \cup proposed \cup {Research(mishaps + 1)}
    /\ fresh' = {}
    /\ disturbed' = Busy
    /\ UNCHANGED <<threads, requests, seen, own>>

\* A process fails, or a request does at whatever it does between two calls.
Stop(t) ==
    /\ pc[t] # "idle"
    /\ Mishap
    /\ Fail(t)

KeyframesStep(t) == ReadVideos(t) \/ PublishFrame(t)
VisionStep(t) == Detect(t) \/ PublishObservations(t)
GeographyStep(t) == Enrich(t) \/ Locate(t) \/ PublishHypotheses(t)
SupervisionStep(t) ==
    \/ ReadCandidates(t) \/ Bundle(t) \/ BundleFails(t)
    \/ Assess(t) \/ AssessFails(t) \/ PublishAssessment(t)
Step(t) ==
    \/ KeyframesStep(t) \/ VisionStep(t) \/ GeographyStep(t) \/ SupervisionStep(t)
    \/ Conflict(t)

Next ==
    \/ \E t \in Threads : Step(t) \/ Stop(t)
    \/ OtherWrite

Spec == Init /\ [][Next]_vars

\* A request goes on once it has begun, and supervision is asked for again and again.
FairSpec ==
    /\ Spec
    /\ \A t \in Threads : WF_vars(ServiceOf[t] = "supervision" /\ Step(t))

-----------------------------------------------------------------------------
(* Properties *)

TypeOK ==
    /\ evidence \subseteq Items
    /\ fresh \subseteq Busy
    /\ pc \in [Threads -> {"idle", "publish", "locate", "bundle", "assess"}]
    /\ todo \in [Threads -> SUBSET (Photos \cup Frames \cup Candidates)]
    /\ requests \in 0..MaxRequests
    /\ mishaps \in 0..MaxMishaps
    /\ seen \in [Threads -> SUBSET Items]
    /\ own \in [Threads -> SUBSET Items]
    /\ disturbed \subseteq Busy

\* What is about to be recorded was derived from the evidence there is, but for what the same
\* request recorded on the way: no service writes beside what it has not read.
NothingFromStaleEvidence ==
    \A t \in fresh : pc[t] = "publish" => evidence = seen[t] \cup own[t]

\* A request is refused for its revision only if another one recorded something since it read
\* the evidence: a chain of publications does not get into its own way.
RefusedOnlyIfDisturbed ==
    \A t \in Threads :
        pc[t] \in {"assess", "publish"} /\ t \notin fresh => t \in disturbed

\* The services together keep the record as if each of them read, derived and recorded in
\* one step: observations are of media the record had a request observe when they were
\* recorded, assessments of candidates it proposed, and key frames have no gaps.
Event == INSTANCE EventRecord WITH
    keyframes    <- {f \in Frames : Keyframe(f) \in evidence},
    observations <- {m \in Photos \cup Frames : Observation(m) \in evidence},
    proposed     <- {c \in Candidates : Candidate(c) \in evidence},
    assessed     <- {c \in Candidates : Assessment(c) \in evidence},
    located      <- Hypotheses \in evidence

AsIfInOneStep == Event!Spec

\* Every candidate that stays is assessed, as long as supervision is asked for, and its
\* bundle, like the answer of the supervisor, fails only so many times.
EveryCandidateIsAssessed ==
    \A c \in Candidates :
        Candidate(c) \in evidence ~>
            Assessment(c) \in evidence \/ Candidate(c) \notin evidence

=============================================================================
