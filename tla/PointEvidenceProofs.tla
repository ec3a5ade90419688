------------------------- MODULE PointEvidenceProofs --------------------------
(***************************************************************************)
(* Proofs about PointEvidence, for any threads, media, candidates and      *)
(* mishaps.  The invariant behind both properties is that of a revision:   *)
(* whoever holds the latest one knows the evidence (Known), wherever its   *)
(* request is.  So what is published with it was selected from that same   *)
(* evidence, as if in one step (Implements).                               *)
(***************************************************************************)
EXTENDS PointEvidence, TLAPS

Places == {"idle", "publish", "locate", "bundle", "assess"}

\* What a thread may have to do, by its service.
Work(t) ==
    IF ServiceOf[t] = "keyframes" THEN Frames
    ELSE IF ServiceOf[t] = "vision" THEN Photos \cup Frames
    ELSE IF ServiceOf[t] = "supervision" THEN Candidates ELSE {}
OwnWork == \A t \in Threads : todo[t] \subseteq Work(t)

\* A request that holds the latest revision has read the evidence, or recorded it itself.
Known == \A t \in fresh : evidence = seen[t] \cup own[t]

IInv == TypeOK /\ OwnWork /\ Known /\ RefusedOnlyIfDisturbed

LEMMA InitOK == Init => IInv
<1>. SUFFICES ASSUME Init PROVE IInv
  OBVIOUS
<1>1. evidence \subseteq Items /\ fresh \subseteq Busy /\ disturbed \subseteq Busy
  BY DEF Init, Items
<1>2. pc \in [Threads -> {"idle", "publish", "locate", "bundle", "assess"}]
  BY DEF Init
<1>3. todo \in [Threads -> SUBSET (Photos \cup Frames \cup Candidates)] /\ OwnWork
  BY DEF Init, OwnWork
<1>4. requests \in 0..MaxRequests /\ mishaps \in 0..MaxMishaps
  BY BoundsAssumption DEF Init
<1>5. seen \in [Threads -> SUBSET Items] /\ own \in [Threads -> SUBSET Items]
  BY DEF Init
<1>6. TypeOK
  BY <1>1, <1>2, <1>3, <1>4, <1>5 DEF TypeOK
<1>7. Known /\ RefusedOnlyIfDisturbed
  BY DEF Init, Known, RefusedOnlyIfDisturbed
<1>. QED
  BY <1>3, <1>6, <1>7 DEF IInv

-----------------------------------------------------------------------------
(* The building blocks of the actions *)

\* A request that gives up leaves the others alone.
LEMMA FailOK ==
    ASSUME IInv, NEW t \in Threads, pc[t] # "idle", Fail(t), mishaps' \in 0..MaxMishaps
    PROVE  IInv'
<1>. USE DEF IInv, Fail, Rest
<1>1. TypeOK' /\ OwnWork'
  BY DEF TypeOK, OwnWork, Busy
<1>2. Known'
  BY DEF TypeOK, Busy, Known
<1>3. RefusedOnlyIfDisturbed'
  BY DEF TypeOK, Busy, RefusedOnlyIfDisturbed
<1>. QED
  BY <1>1, <1>2, <1>3

\* Who reads the evidence knows it.
LEMMA ReadOK ==
    ASSUME IInv, NEW t \in Threads, NEW place \in Places \ {"idle"}, NEW work \in SUBSET Work(t),
           Read(t), Go(t, place, work), requests' \in 0..MaxRequests, mishaps' = mishaps
    PROVE  IInv'
<1>. USE DEF IInv, Read, Go
<1>1. TypeOK' /\ OwnWork'
  BY DEF TypeOK, OwnWork, Busy, Places, Work
<1>2. Known'
  BY DEF TypeOK, Busy, Known
<1>3. RefusedOnlyIfDisturbed'
  BY DEF TypeOK, Busy, RefusedOnlyIfDisturbed
<1>. QED
  BY <1>1, <1>2, <1>3

\* A request that goes on without having read or written anything.
LEMMA GoOK ==
    ASSUME IInv, NEW t \in Threads, NEW place \in Places \ {"idle"}, NEW work \in SUBSET Work(t),
           Go(t, place, work), requests' \in 0..MaxRequests,
           UNCHANGED <<backend, mishaps, history>>,
           place \in {"publish", "assess"} => t \in fresh
    PROVE  IInv'
<1>. USE DEF IInv, Go, backend, history
<1>1. TypeOK' /\ OwnWork'
  BY DEF TypeOK, OwnWork, Busy, Places, Work
<1>2. Known'
  BY DEF Known
<1>3. RefusedOnlyIfDisturbed'
  BY DEF TypeOK, Busy, RefusedOnlyIfDisturbed
<1>. QED
  BY <1>1, <1>2, <1>3

\* A publication that ends its request, whether its answer is lost or not.
LEMMA LastOK ==
    ASSUME IInv, NEW t \in Threads, pc[t] # "idle", NEW after \in SUBSET Items,
           NEW new \in BOOLEAN, after # evidence => new,
           Record(t, after, new, {}), Rest(t),
           requests' = requests, mishaps' \in 0..MaxMishaps
    PROVE  IInv'
<1>. USE DEF IInv, Record, Rest
<1>1. TypeOK' /\ OwnWork'
  BY DEF TypeOK, OwnWork, Busy
<1>2. Known'
  BY DEF TypeOK, Busy, Known
<1>3. RefusedOnlyIfDisturbed'
  BY DEF TypeOK, Busy, RefusedOnlyIfDisturbed
<1>. QED
  BY <1>1, <1>2, <1>3

\* A publication after which its request goes on, with the new revision or to read again.
LEMMA ChainOK ==
    ASSUME IInv, NEW t \in Threads, t \in fresh, NEW after \in SUBSET Items,
           evidence \subseteq after,
           NEW new \in BOOLEAN, after # evidence => new,
           NEW holder \in {{}, {t}}, NEW place \in Places \ {"idle"}, NEW left \in SUBSET Work(t),
           place \in {"publish", "assess"} => holder = {t},
           Record(t, after, new, holder), Go(t, place, left),
           own' = [own EXCEPT ![t] = @ \cup (after \ evidence)], seen' = seen,
           requests' = requests, mishaps' = mishaps
    PROVE  IInv'
<1>. USE DEF IInv, Record, Go
<1>1. TypeOK' /\ OwnWork'
  BY DEF TypeOK, OwnWork, Busy, Places, Work
<1>2. Known'
  BY DEF TypeOK, Busy, Known
<1>3. RefusedOnlyIfDisturbed'
  BY DEF TypeOK, Busy, RefusedOnlyIfDisturbed
<1>. QED
  BY <1>1, <1>2, <1>3

LEMMA PublishOK ==
    ASSUME IInv, NEW t \in Threads, t \in fresh, NEW after \in SUBSET Items,
           NEW new \in BOOLEAN, after # evidence => new,
           NEW holder \in {{}, {t}}, NEW place \in Places, NEW left \in SUBSET Work(t),
           left = {} => holder = {},
           left # {} => place # "idle" /\ evidence \subseteq after,
           place \in {"publish", "assess"} /\ left # {} => holder = {t},
           Publish(t, after, new, holder, place, left), requests' = requests
    PROVE  IInv'
<1>1. pc[t] # "idle"
  BY DEF IInv, TypeOK, Busy
<1>2. CASE Record(t, after, new, holder) /\ Continue(t, place, left, after \ evidence)
           /\ UNCHANGED mishaps
  <2>1. mishaps' \in 0..MaxMishaps
    BY <1>2 DEF IInv, TypeOK
  <2>2. CASE left = {}
    <3>1. Record(t, after, new, {}) /\ Rest(t)
      BY <1>2, <2>2 DEF Continue
    <3>. QED
      BY <3>1, <2>1, <1>1, LastOK
  <2>3. CASE left # {}
    <3>1. Record(t, after, new, holder) /\ Go(t, place, left) /\ seen' = seen /\ mishaps' = mishaps
          /\ own' = [own EXCEPT ![t] = @ \cup (after \ evidence)]
      BY <1>2, <2>3 DEF Continue
    <3>2. place \in Places \ {"idle"} /\ evidence \subseteq after
      BY <2>3
    <3>. QED
      BY <3>1, <3>2, <2>3, ChainOK
  <2>. QED
    BY <2>2, <2>3
<1>3. CASE Record(t, after, new, {}) /\ Rest(t) /\ Mishap
  <2>1. mishaps' \in 0..MaxMishaps
    BY <1>3, BoundsAssumption DEF Mishap, IInv, TypeOK
  <2>. QED
    BY <1>1, <1>3, <2>1, LastOK
<1>. QED
  BY <1>2, <1>3 DEF Publish

LEMMA AskedOK ==
    ASSUME IInv, NEW t, NEW service, Asked(t, service)
    PROVE  requests' \in 0..MaxRequests
  BY BoundsAssumption DEF IInv, TypeOK, Asked

-----------------------------------------------------------------------------
(* The services *)

LEMMA KeyframesOK ==
    ASSUME IInv, NEW t \in Threads, KeyframesStep(t)
    PROVE  IInv'
<1>1. CASE ReadVideos(t)
  <2>1. /\ Asked(t, "keyframes") /\ Read(t) /\ Go(t, "publish", Frames) /\ mishaps' = mishaps
        /\ Frames \in SUBSET Work(t) /\ "publish" \in Places \ {"idle"}
    BY <1>1 DEF ReadVideos, Asked, Work, Places
  <2>. QED
    BY <2>1, AskedOK, ReadOK
<1>2. CASE PublishFrame(t)
  <2>1. t \in fresh /\ requests' = requests /\ ServiceOf[t] = "keyframes"
    BY <1>2 DEF PublishFrame, Publishes, At
  <2>2. PICK f \in todo[t] :
          Publish(t, evidence \cup {Keyframe(f)}, evidence \cup {Keyframe(f)} # evidence,
                  IF todo[t] \ {f} = {} THEN {} ELSE {t}, "publish", todo[t] \ {f})
    BY <1>2 DEF PublishFrame
  <2>. DEFINE after == evidence \cup {Keyframe(f)}
              left == todo[t] \ {f}
              new == after # evidence
              holder == IF left = {} THEN {} ELSE {t}
  <2>3. f \in Frames /\ left \in SUBSET Work(t)
    BY <2>1 DEF IInv, OwnWork, Work
  <2>4. after \in SUBSET Items
    BY <2>3 DEF IInv, TypeOK, Items
  <2>5. "publish" \in Places /\ holder \in {{}, {t}} /\ new \in BOOLEAN
    BY DEF Places
  <2>. HIDE DEF after, left, new, holder
  <2>6. /\ Publish(t, after, new, holder, "publish", left)
        /\ left = {} => holder = {}
        /\ left # {} => holder = {t}
        /\ evidence \subseteq after
        /\ after # evidence => new
    BY <2>2 DEF after, left, new, holder
  <2>7. CASE left = {}
    <3>1. Publish(t, after, new, {}, "publish", {})
      BY <2>6, <2>7
    <3>. QED
      BY <3>1, <2>1, <2>4, <2>5, <2>6, PublishOK
  <2>8. CASE left # {}
    BY <2>1, <2>3, <2>4, <2>5, <2>6, <2>8, PublishOK
  <2>. QED
    BY <2>7, <2>8
<1>. QED
  BY <1>1, <1>2 DEF KeyframesStep

LEMMA VisionOK ==
    ASSUME IInv, NEW t \in Threads, VisionStep(t)
    PROVE  IInv'
<1>1. CASE Detect(t)
  <2>1. PICK detected \in SUBSET Selected : Go(t, "publish", detected)
    BY <1>1 DEF Detect
  <2>2. Asked(t, "vision") /\ Read(t) /\ mishaps' = mishaps /\ "publish" \in Places \ {"idle"}
    BY <1>1 DEF Detect, Places
  <2>3. detected \in SUBSET Work(t)
    BY <2>2 DEF Asked, Work, Selected, Detectable
  <2>. QED
    BY <2>1, <2>2, <2>3, AskedOK, ReadOK
<1>2. CASE PublishObservations(t)
  <2>. DEFINE after == evidence \cup {Observation(m) : m \in todo[t]}
              new == after # evidence
  <2>1. /\ t \in fresh /\ requests' = requests /\ ServiceOf[t] = "vision"
        /\ Publish(t, after, new, {}, "idle", {})
    BY <1>2 DEF PublishObservations, Publishes, At
  <2>2. todo[t] \subseteq Photos \cup Frames
    BY <2>1 DEF IInv, OwnWork, Work
  <2>3. after \in SUBSET Items
    BY <2>2 DEF IInv, TypeOK, Items
  <2>4. new \in BOOLEAN /\ (after # evidence => new) /\ "idle" \in Places
    BY DEF Places
  <2>. HIDE DEF after, new
  <2>. QED
    BY <2>1, <2>3, <2>4, PublishOK
<1>. QED
  BY <1>1, <1>2 DEF VisionStep

LEMMA GeographyOK ==
    ASSUME IInv, NEW t \in Threads, GeographyStep(t)
    PROVE  IInv'
<1>1. CASE Enrich(t)
  <2>1. /\ Asked(t, "geography") /\ Go(t, "locate", {})
        /\ UNCHANGED <<backend, mishaps, history>>
        /\ "locate" \in Places \ {"idle"}
    BY <1>1 DEF Enrich, Places
  <2>. QED
    BY <2>1, AskedOK, GoOK
<1>2. CASE Locate(t)
  <2>1. /\ Read(t) /\ Go(t, "publish", {}) /\ mishaps' = mishaps
        /\ requests' \in 0..MaxRequests /\ "publish" \in Places \ {"idle"}
    BY <1>2 DEF Locate, At, Places, IInv, TypeOK
  <2>. QED
    BY <2>1, ReadOK
<1>3. CASE PublishHypotheses(t)
  <2>1. PICK proposed \in SUBSET Proposals :
          Publish(t, (evidence \ Proposals) \cup proposed \cup {Hypotheses}, TRUE, {}, "idle", {})
    BY <1>3 DEF PublishHypotheses
  <2>. DEFINE after == (evidence \ Proposals) \cup proposed \cup {Hypotheses}
  <2>2. t \in fresh /\ requests' = requests
    BY <1>3 DEF PublishHypotheses, Publishes, At
  <2>3. after \in SUBSET Items /\ "idle" \in Places
    BY DEF IInv, TypeOK, Items, Places
  <2>4. Publish(t, after, TRUE, {}, "idle", {})
    BY <2>1
  <2>. HIDE DEF after
  <2>. QED
    BY <2>2, <2>3, <2>4, PublishOK
<1>. QED
  BY <1>1, <1>2, <1>3 DEF GeographyStep

LEMMA SupervisionOK ==
    ASSUME IInv, NEW t \in Threads, SupervisionStep(t)
    PROVE  IInv'
<1>1. CASE ReadCandidates(t)
  <2>1. /\ Asked(t, "supervision") /\ Read(t) /\ mishaps' = mishaps
        /\ Go(t, "bundle", {c \in Candidates : Candidate(c) \in evidence})
        /\ "bundle" \in Places \ {"idle"}
    BY <1>1 DEF ReadCandidates, Places
  <2>2. {c \in Candidates : Candidate(c) \in evidence} \in SUBSET Work(t)
    BY <2>1 DEF Asked, Work
  <2>. QED
    BY <2>1, <2>2, AskedOK, ReadOK
<1>2. CASE Bundle(t)
  <2>1. /\ Read(t) /\ Go(t, "assess", todo[t]) /\ mishaps' = mishaps
        /\ requests' \in 0..MaxRequests /\ "assess" \in Places \ {"idle"}
        /\ todo[t] \in SUBSET Work(t)
    BY <1>2 DEF Bundle, At, Places, IInv, TypeOK, OwnWork
  <2>. QED
    BY <2>1, ReadOK
<1>3. CASE BundleFails(t)
  <2>1. Fail(t) /\ pc[t] # "idle" /\ mishaps' \in 0..MaxMishaps
    BY <1>3 DEF BundleFails, At, IInv, TypeOK
  <2>. QED
    BY <2>1, FailOK
<1>4. CASE Assess(t)
  <2>1. /\ Go(t, "publish", todo[t]) /\ t \in fresh /\ UNCHANGED <<backend, mishaps, history>>
        /\ requests' \in 0..MaxRequests /\ "publish" \in Places \ {"idle"}
        /\ todo[t] \in SUBSET Work(t)
    BY <1>4 DEF Assess, At, Places, IInv, TypeOK, OwnWork
  <2>. QED
    BY <2>1, GoOK
<1>5. CASE AssessFails(t)
  <2>1. Fail(t) /\ pc[t] # "idle" /\ mishaps' \in 0..MaxMishaps
    BY <1>5, BoundsAssumption DEF AssessFails, At, Mishap, IInv, TypeOK
  <2>. QED
    BY <2>1, FailOK
<1>6. CASE PublishAssessment(t)
  <2>1. t \in fresh /\ requests' = requests /\ ServiceOf[t] = "supervision"
    BY <1>6 DEF PublishAssessment, Publishes, At
  <2>2. PICK c \in todo[t] :
          Publish(t, evidence \cup {Assessment(c)}, TRUE, {}, "bundle", todo[t] \ {c})
    BY <1>6 DEF PublishAssessment
  <2>. DEFINE after == evidence \cup {Assessment(c)}
              left == todo[t] \ {c}
  <2>3. c \in Candidates /\ left \in SUBSET Work(t)
    BY <2>1 DEF IInv, OwnWork, Work
  <2>4. after \in SUBSET Items /\ evidence \subseteq after /\ "bundle" \in Places
    BY <2>3 DEF IInv, TypeOK, Items, Places
  <2>5. Publish(t, after, TRUE, {}, "bundle", left)
    BY <2>2
  <2>. HIDE DEF after, left
  <2>. QED
    BY <2>1, <2>3, <2>4, <2>5, PublishOK
<1>. QED
  BY <1>1, <1>2, <1>3, <1>4, <1>5, <1>6 DEF SupervisionStep

\* Every step of a service, and whatever else happens, preserves the invariant.
LEMMA NextOK == IInv /\ [Next]_vars => IInv'
<1>. SUFFICES ASSUME IInv, [Next]_vars PROVE IInv'
  OBVIOUS
<1>1. CASE UNCHANGED vars
  BY <1>1
  DEF IInv, vars, backend, threads, history, TypeOK, OwnWork, Known, RefusedOnlyIfDisturbed, Busy
<1>2. ASSUME NEW t \in Threads, Conflict(t) PROVE IInv'
  <2>1. Fail(t) /\ pc[t] # "idle" /\ mishaps' \in 0..MaxMishaps
    BY <1>2 DEF Conflict, IInv, TypeOK
  <2>. QED
    BY <2>1, FailOK
<1>3. ASSUME NEW t \in Threads, Stop(t) PROVE IInv'
  <2>1. Fail(t) /\ pc[t] # "idle" /\ mishaps' \in 0..MaxMishaps
    BY <1>3, BoundsAssumption DEF Stop, Mishap, IInv, TypeOK
  <2>. QED
    BY <2>1, FailOK
<1>4. CASE OtherWrite
  <2>1. mishaps' \in 0..MaxMishaps /\ mishaps + 1 \in 1..MaxMishaps
    BY <1>4, BoundsAssumption DEF OtherWrite, Mishap, IInv, TypeOK
  <2>2. evidence' \subseteq Items
    BY <1>4, <2>1 DEF OtherWrite, IInv, TypeOK, Items
  <2>3. fresh' = {} /\ disturbed' = Busy /\ UNCHANGED <<threads, requests, seen, own>>
    BY <1>4 DEF OtherWrite
  <2>4. TypeOK' /\ OwnWork'
    BY <2>1, <2>2, <2>3 DEF IInv, TypeOK, OwnWork, Busy, threads
  <2>5. Known' /\ RefusedOnlyIfDisturbed'
    BY <2>3 DEF Known, RefusedOnlyIfDisturbed, Busy, threads
  <2>. QED
    BY <2>4, <2>5 DEF IInv
<1>. QED
  BY <1>1, <1>2, <1>3, <1>4, KeyframesOK, VisionOK, GeographyOK, SupervisionOK DEF Next, Step

-----------------------------------------------------------------------------

\* The inductive invariant of the event's evidence and its services.
THEOREM Invariant == Spec => []IInv
  BY InitOK, NextOK, PTL DEF Spec

\* Types, and who holds a revision or was disturbed has a request in progress.
THEOREM TypeCorrect == Spec => []TypeOK
<1>1. IInv => TypeOK
  BY DEF IInv
<1>. QED
  BY Invariant, <1>1, PTL

\* No service writes beside evidence it has not read: what is recorded was derived from the
\* evidence there is, but for what the same request recorded (source_revision_sha256).
THEOREM NothingStale == Spec => []NothingFromStaleEvidence
<1>1. IInv => NothingFromStaleEvidence
  BY DEF IInv, Known, NothingFromStaleEvidence
<1>. QED
  BY Invariant, <1>1, PTL

\* No chain of publications refuses itself (KeyframeCpuWorker.run_candidate,
\* supervise_event_payload).
THEOREM RefusedByOthers == Spec => []RefusedOnlyIfDisturbed
<1>1. IInv => RefusedOnlyIfDisturbed
  BY DEF IInv
<1>. QED
  BY Invariant, <1>1, PTL

-----------------------------------------------------------------------------
(* The abstract specification.  What a request is about to record is derived from the     *)
(* evidence as it is, so reading, deriving and recording may be taken for one step.       *)

\* What a request knows of its work: the frames it has no more to publish are recorded; the
\* media it detected in are still selected; the candidate it assesses is still proposed.
FramesDone(t) ==
    ServiceOf[t] = "keyframes" /\ pc[t] = "publish" =>
        \A f \in Frames \ todo[t] : Keyframe(f) \in evidence
StillSelected(t) ==
    ServiceOf[t] = "vision" /\ pc[t] = "publish" /\ t \in fresh => todo[t] \subseteq Selected
StillProposed(t) ==
    ServiceOf[t] = "supervision" /\ pc[t] \in {"assess", "publish"} /\ t \in fresh =>
        \A c \in todo[t] : First(t, c) => Candidate(c) \in evidence

Derived(t) == FramesDone(t) /\ StillSelected(t) /\ StillProposed(t)
Derivations == \A t \in Threads : Derived(t)

\* A step of t leaves the others where they are, and the latest revision with them only if
\* it records nothing new.
Undisturbed(t) ==
    /\ \A s \in Threads \ {t} :
          /\ pc'[s] = pc[s] /\ todo'[s] = todo[s]
          /\ s \in fresh' => s \in fresh /\ evidence' = evidence
    /\ \A f \in Frames : Keyframe(f) \in evidence => Keyframe(f) \in evidence'

LEMMA OthersDerived ==
    ASSUME Derivations, NEW t \in Threads, Undisturbed(t), Derived(t)'
    PROVE  Derivations'
<1>. SUFFICES ASSUME NEW s \in Threads \ {t} PROVE Derived(s)'
  BY DEF Derivations
<1>1. /\ pc'[s] = pc[s] /\ todo'[s] = todo[s] /\ Derived(s)
      /\ s \in fresh' => s \in fresh /\ evidence' = evidence
  BY DEF Undisturbed, Derivations
<1>2. FramesDone(s)'
  BY <1>1 DEF Undisturbed, Derived, FramesDone
<1>3. StillSelected(s)'
  BY <1>1 DEF Derived, StillSelected, Selected, Detectable
<1>4. StillProposed(s)'
  BY <1>1 DEF Derived, StillProposed, First
<1>. QED
  BY <1>2, <1>3, <1>4 DEF Derived

LEMMA RestDerived ==
    ASSUME IInv, Derivations, NEW t \in Threads, Rest(t), Undisturbed(t)
    PROVE  Derivations'
<1>1. pc'[t] = "idle"
  BY DEF Rest, IInv, TypeOK
<1>. QED
  BY <1>1, OthersDerived DEF Derived, FramesDone, StillSelected, StillProposed

LEMMA FailDerived ==
    ASSUME IInv, Derivations, NEW t \in Threads, Fail(t)
    PROVE  Derivations' /\ evidence' = evidence
<1>1. Undisturbed(t) /\ Rest(t) /\ evidence' = evidence
  BY DEF Fail, Rest, Undisturbed, IInv, TypeOK
<1>. QED
  BY <1>1, RestDerived

LEMMA GoUndisturbed ==
    ASSUME IInv, NEW t \in Threads, NEW place, NEW work, Go(t, place, work),
           evidence' = evidence, fresh' \in {fresh, fresh \cup {t}}
    PROVE  Undisturbed(t) /\ pc'[t] = place /\ todo'[t] = work
  BY DEF Go, Undisturbed, IInv, TypeOK

LEMMA RecordUndisturbed ==
    ASSUME IInv, NEW t \in Threads, NEW after, NEW new \in BOOLEAN, after # evidence => new,
           NEW holder \in {{}, {t}}, NEW place, NEW left,
           \A f \in Frames : Keyframe(f) \in evidence => Keyframe(f) \in after,
           Publish(t, after, new, holder, place, left)
    PROVE  /\ evidence' = after
           /\ Undisturbed(t)
           /\ \/ Rest(t)
              \/ left # {} /\ pc'[t] = place /\ todo'[t] = left
<1>1. Record(t, after, new, holder) \/ Record(t, after, new, {})
  BY DEF Publish
<1>2. Rest(t) \/ (left # {} /\ Go(t, place, left))
  <2>1. Continue(t, place, left, after \ evidence) \/ Rest(t)
    BY DEF Publish
  <2>2. CASE left = {}
    BY <2>1, <2>2 DEF Continue
  <2>3. CASE left # {}
    BY <2>1, <2>3 DEF Continue
  <2>. QED
    BY <2>2, <2>3
<1>3. \A s \in Threads \ {t} : pc'[s] = pc[s] /\ todo'[s] = todo[s]
  BY <1>2 DEF Rest, Go, IInv, TypeOK
<1>4. evidence' = after /\ \A s \in Threads \ {t} : s \in fresh' => s \in fresh /\ ~new
  <2>1. CASE new
    BY <1>1, <2>1 DEF Record
  <2>2. CASE ~new
    BY <1>1, <2>2 DEF Record
  <2>. QED
    BY <2>1, <2>2
<1>5. Undisturbed(t)
  BY <1>3, <1>4 DEF Undisturbed
<1>6. Go(t, place, left) => pc'[t] = place /\ todo'[t] = left
  BY DEF Go, IInv, TypeOK
<1>. QED
  BY <1>2, <1>4, <1>5, <1>6

\* The items of the evidence are told apart by their kind and number.
LEMMA ItemsDiffer ==
    ASSUME NEW x, NEW y
    PROVE  /\ Keyframe(x) = Keyframe(y) => x = y
           /\ Observation(x) = Observation(y) => x = y
           /\ Candidate(x) = Candidate(y) => x = y
           /\ Assessment(x) = Assessment(y) => x = y
           /\ Keyframe(x) \notin {Observation(y), Candidate(y), Assessment(y), Research(y), Hypotheses}
           /\ Observation(x) \notin {Candidate(y), Assessment(y), Research(y), Hypotheses}
           /\ Candidate(x) \notin {Assessment(y), Research(y), Hypotheses}
           /\ Assessment(x) \notin {Research(y), Hypotheses}
           /\ Research(x) # Hypotheses
  BY DEF Keyframe, Observation, Candidate, Assessment, Research, Hypotheses

\* Each step leaves its thread with work derived from the evidence, and maps to a step of
\* the abstract record.
Refines == [Event!Next]_(Event!vars)

LEMMA NothingRecorded == evidence' = evidence => Refines
  BY DEF Refines, Event!vars

LEMMA KeyframesRefine ==
    ASSUME IInv, Derivations, NEW t \in Threads, KeyframesStep(t)
    PROVE  Derivations' /\ Refines
<1>1. CASE ReadVideos(t)
  <2>1. /\ evidence' = evidence /\ pc'[t] = "publish" /\ todo'[t] = Frames
        /\ Undisturbed(t) /\ ServiceOf[t] = "keyframes"
    BY <1>1, GoUndisturbed DEF ReadVideos, Asked, Read
  <2>2. Derived(t)'
    BY <2>1 DEF Derived, FramesDone, StillSelected, StillProposed
  <2>. QED
    BY <2>1, <2>2, OthersDerived, NothingRecorded
<1>2. CASE PublishFrame(t)
  <2>1. PICK f \in todo[t] :
          /\ First(t, f)
          /\ Publish(t, evidence \cup {Keyframe(f)}, evidence \cup {Keyframe(f)} # evidence,
                     IF todo[t] \ {f} = {} THEN {} ELSE {t}, "publish", todo[t] \ {f})
    BY <1>2 DEF PublishFrame
  <2>. DEFINE after == evidence \cup {Keyframe(f)}
              left == todo[t] \ {f}
              new == after # evidence
              holder == IF left = {} THEN {} ELSE {t}
  <2>2. /\ Publish(t, after, new, holder, "publish", left)
        /\ new \in BOOLEAN /\ (after # evidence => new)
        /\ holder \in {{}, {t}}
        /\ evidence \subseteq after
    BY <2>1
  <2>3. /\ ServiceOf[t] = "keyframes" /\ pc[t] = "publish" /\ FramesDone(t)
        /\ todo[t] \subseteq Frames /\ f \in Frames
    BY <1>2, <2>1
    DEF PublishFrame, Publishes, At, IInv, OwnWork, Work, Derivations, Derived
  <2>4. after = evidence \cup {Keyframe(f)} /\ left = todo[t] \ {f}
    OBVIOUS
  <2>. HIDE DEF after, left, new, holder
  <2>5. /\ evidence' = after /\ Undisturbed(t)
        /\ \/ Rest(t)
           \/ left # {} /\ pc'[t] = "publish" /\ todo'[t] = left
    <3>1. \A g \in Frames : Keyframe(g) \in evidence => Keyframe(g) \in after
      BY <2>2
    <3>2. CASE holder = {}
      <4>1. Publish(t, after, new, {}, "publish", left)
        BY <2>2, <3>2
      <4>. QED
        BY <2>2, <3>1, <4>1, RecordUndisturbed
    <3>3. CASE holder = {t}
      <4>1. Publish(t, after, new, {t}, "publish", left)
        BY <2>2, <3>3
      <4>. QED
        BY <2>2, <3>1, <4>1, RecordUndisturbed
    <3>. QED
      BY <2>2, <3>2, <3>3
  <2>6. ASSUME Rest(t) PROVE Derivations'
    BY <2>5, <2>6, RestDerived
  <2>7. ASSUME pc'[t] = "publish", todo'[t] = left PROVE Derivations'
    <3>1. Derived(t)'
      BY <2>3, <2>4, <2>5, <2>7 DEF Derived, FramesDone, StillSelected, StillProposed
    <3>. QED
      BY <2>5, <3>1, OthersDerived
  <2>8. Event!AddKeyframe(f)
    <3>1. ASSUME NEW e \in Frames, e < f PROVE Keyframe(e) \in evidence
      <4>1. e \notin todo[t]
        BY <2>1, <2>3, <3>1, MediaAssumption DEF First
      <4>. QED
        BY <2>3, <4>1 DEF FramesDone
    <3>2. evidence' = evidence \cup {Keyframe(f)}
      BY <2>4, <2>5
    <3>. QED
      BY <2>3, <3>1, <3>2, ItemsDiffer DEF Event!AddKeyframe
  <2>. QED
    BY <2>3, <2>5, <2>6, <2>7, <2>8 DEF Refines, Event!Next
<1>. QED
  BY <1>1, <1>2 DEF KeyframesStep

LEMMA VisionRefines ==
    ASSUME IInv, Derivations, NEW t \in Threads, VisionStep(t)
    PROVE  Derivations' /\ Refines
<1>1. CASE Detect(t)
  <2>1. PICK detected \in SUBSET Selected : Go(t, "publish", detected)
    BY <1>1 DEF Detect
  <2>2. /\ evidence' = evidence /\ pc'[t] = "publish" /\ todo'[t] = detected
        /\ Undisturbed(t) /\ ServiceOf[t] = "vision"
    BY <1>1, <2>1, GoUndisturbed DEF Detect, Asked, Read
  <2>3. Derived(t)'
    BY <2>1, <2>2 DEF Derived, FramesDone, StillSelected, StillProposed, Selected, Detectable
  <2>. QED
    BY <2>2, <2>3, OthersDerived, NothingRecorded
<1>2. CASE PublishObservations(t)
  <2>. DEFINE after == evidence \cup {Observation(m) : m \in todo[t]}
              new == after # evidence
  <2>1. /\ Publish(t, after, new, {}, "idle", {})
        /\ new \in BOOLEAN /\ (after # evidence => new)
        /\ evidence \subseteq after
    BY <1>2 DEF PublishObservations
  <2>2. /\ ServiceOf[t] = "vision" /\ todo[t] \subseteq Selected
        /\ todo[t] \subseteq Photos \cup Frames
    BY <1>2 DEF PublishObservations, Publishes, At, IInv, OwnWork, Work, Derivations, Derived,
         StillSelected
  <2>3. after = evidence \cup {Observation(m) : m \in todo[t]}
    OBVIOUS
  <2>. HIDE DEF after, new
  <2>4. evidence' = after /\ Undisturbed(t) /\ Rest(t)
    BY <2>1, RecordUndisturbed
  <2>5. Event!Observe(todo[t])
    <3>1. Event!Selected = Selected
      BY DEF Event!Selected, Event!Media, Selected, Detectable, Event!Cardinality, Cardinality
    <3>2. evidence' = evidence \cup {Observation(m) : m \in todo[t]}
      BY <2>3, <2>4
    <3>. QED
      BY <2>2, <3>1, <3>2, ItemsDiffer DEF Event!Observe
  <2>. QED
    BY <2>2, <2>4, <2>5, RestDerived DEF Refines, Event!Next
<1>. QED
  BY <1>1, <1>2 DEF VisionStep

\* The backend may propose other candidates with whatever is recorded.
LEMMA ProposeRefines ==
    ASSUME NEW proposed \in SUBSET Proposals, NEW added,
           added = Hypotheses \/ \E n : added = Research(n),
           evidence' = (evidence \ Proposals) \cup proposed \cup {added}
    PROVE  /\ Refines
           /\ \A f \in Frames : Keyframe(f) \in evidence => Keyframe(f) \in evidence'
<1>1. \A x : /\ Keyframe(x) \notin Proposals \cup {added}
             /\ Observation(x) \notin Proposals \cup {added}
             /\ Assessment(x) \notin Proposals \cup {added}
  BY ItemsDiffer DEF Proposals
<1>2. \A x : /\ Keyframe(x) \in evidence' <=> Keyframe(x) \in evidence
             /\ Observation(x) \in evidence' <=> Observation(x) \in evidence
             /\ Assessment(x) \in evidence' <=> Assessment(x) \in evidence
  BY <1>1
<1>3. Hypotheses \in evidence' \/ (Hypotheses \notin evidence' /\ Hypotheses \notin evidence)
  <2>1. Hypotheses \notin Proposals
    BY ItemsDiffer DEF Proposals
  <2>. QED
    BY <2>1
<1>4. Event!Propose
  BY <1>2, <1>3 DEF Event!Propose
<1>. QED
  BY <1>2, <1>4 DEF Refines, Event!Next

LEMMA GeographyRefines ==
    ASSUME IInv, Derivations, NEW t \in Threads, GeographyStep(t)
    PROVE  Derivations' /\ Refines
<1>1. CASE Enrich(t) \/ Locate(t)
  <2>1. PICK place \in {"locate", "publish"} : Go(t, place, {})
    BY <1>1 DEF Enrich, Locate
  <2>2. evidence' = evidence /\ fresh' \in {fresh, fresh \cup {t}} /\ ServiceOf[t] = "geography"
    BY <1>1 DEF Enrich, Locate, Asked, At, Read, backend
  <2>3. Undisturbed(t)
    BY <2>1, <2>2, GoUndisturbed
  <2>4. Derived(t)'
    BY <2>2 DEF Derived, FramesDone, StillSelected, StillProposed
  <2>. QED
    BY <2>2, <2>3, <2>4, OthersDerived, NothingRecorded
<1>2. CASE PublishHypotheses(t)
  <2>1. PICK proposed \in SUBSET Proposals :
          Publish(t, (evidence \ Proposals) \cup proposed \cup {Hypotheses}, TRUE, {}, "idle", {})
    BY <1>2 DEF PublishHypotheses
  <2>. DEFINE after == (evidence \ Proposals) \cup proposed \cup {Hypotheses}
  <2>2. Publish(t, after, TRUE, {}, "idle", {})
    BY <2>1
  <2>3. \A f \in Frames : Keyframe(f) \in evidence => Keyframe(f) \in after
    BY ItemsDiffer DEF Proposals
  <2>4. after = (evidence \ Proposals) \cup proposed \cup {Hypotheses}
    OBVIOUS
  <2>. HIDE DEF after
  <2>5. evidence' = after /\ Undisturbed(t) /\ Rest(t)
    BY <2>2, <2>3, RecordUndisturbed
  <2>6. Refines
    BY <2>4, <2>5, ProposeRefines
  <2>. QED
    BY <2>5, <2>6, RestDerived
<1>. QED
  BY <1>1, <1>2 DEF GeographyStep

LEMMA SupervisionRefines ==
    ASSUME IInv, Derivations, NEW t \in Threads, SupervisionStep(t)
    PROVE  Derivations' /\ Refines
<1>1. CASE ReadCandidates(t)
  <2>. DEFINE work == {c \in Candidates : Candidate(c) \in evidence}
  <2>1. /\ Go(t, "bundle", work) /\ evidence' = evidence /\ fresh' = fresh \cup {t}
        /\ ServiceOf[t] = "supervision"
    BY <1>1 DEF ReadCandidates, Asked, Read
  <2>. HIDE DEF work
  <2>2. Undisturbed(t) /\ pc'[t] = "bundle"
    BY <2>1, GoUndisturbed
  <2>3. Derived(t)'
    BY <2>1, <2>2 DEF Derived, FramesDone, StillSelected, StillProposed
  <2>. QED
    BY <2>1, <2>2, <2>3, OthersDerived, NothingRecorded
<1>2. CASE Bundle(t)
  <2>1. /\ Go(t, "assess", todo[t]) /\ evidence' = evidence /\ fresh' = fresh \cup {t}
        /\ ServiceOf[t] = "supervision"
        /\ \E c \in todo[t] : First(t, c) /\ Candidate(c) \in evidence
    BY <1>2 DEF Bundle, At, Read
  <2>2. Undisturbed(t) /\ pc'[t] = "assess" /\ todo'[t] = todo[t]
    BY <2>1, GoUndisturbed
  <2>3. \A c \in todo[t] : First(t, c) => Candidate(c) \in evidence
    <3>1. todo[t] \subseteq Nat
      BY <2>1, CandidatesAssumption DEF IInv, OwnWork, Work
    <3>2. \A c, d \in todo[t] : First(t, c) /\ First(t, d) => c = d
      BY <3>1 DEF First
    <3>. QED
      BY <2>1, <3>2
  <2>4. Derived(t)'
    BY <2>1, <2>2, <2>3 DEF Derived, FramesDone, StillSelected, StillProposed, First
  <2>. QED
    BY <2>1, <2>2, <2>4, OthersDerived, NothingRecorded
<1>3. CASE BundleFails(t) \/ AssessFails(t)
  <2>1. Fail(t)
    BY <1>3 DEF BundleFails, AssessFails
  <2>. QED
    BY <2>1, FailDerived, NothingRecorded
<1>4. CASE Assess(t)
  <2>1. /\ Go(t, "publish", todo[t]) /\ evidence' = evidence /\ fresh' = fresh /\ t \in fresh
        /\ ServiceOf[t] = "supervision" /\ pc[t] = "assess"
    BY <1>4 DEF Assess, At, backend
  <2>2. Undisturbed(t) /\ pc'[t] = "publish" /\ todo'[t] = todo[t]
    BY <2>1, GoUndisturbed
  <2>3. StillProposed(t)
    BY DEF Derivations, Derived
  <2>4. Derived(t)'
    BY <2>1, <2>2, <2>3 DEF Derived, FramesDone, StillSelected, StillProposed, First
  <2>. QED
    BY <2>1, <2>2, <2>4, OthersDerived, NothingRecorded
<1>5. CASE PublishAssessment(t)
  <2>1. PICK c \in todo[t] :
          /\ First(t, c)
          /\ Publish(t, evidence \cup {Assessment(c)}, TRUE, {}, "bundle", todo[t] \ {c})
    BY <1>5 DEF PublishAssessment
  <2>. DEFINE after == evidence \cup {Assessment(c)}
              left == todo[t] \ {c}
  <2>2. Publish(t, after, TRUE, {}, "bundle", left) /\ evidence \subseteq after
    BY <2>1
  <2>3. /\ ServiceOf[t] = "supervision" /\ pc[t] = "publish" /\ t \in fresh /\ StillProposed(t)
        /\ todo[t] \subseteq Candidates /\ c \in Candidates
    BY <1>5, <2>1
    DEF PublishAssessment, Publishes, At, IInv, OwnWork, Work, Derivations, Derived
  <2>4. after = evidence \cup {Assessment(c)}
    OBVIOUS
  <2>. HIDE DEF after, left
  <2>5. /\ evidence' = after
        /\ Undisturbed(t)
        /\ \/ Rest(t)
           \/ left # {} /\ pc'[t] = "bundle" /\ todo'[t] = left
    BY <2>2, RecordUndisturbed
  <2>6. ASSUME Rest(t) PROVE Derivations'
    BY <2>5, <2>6, RestDerived
  <2>7. ASSUME pc'[t] = "bundle" PROVE Derivations'
    <3>1. Derived(t)'
      BY <2>3, <2>7 DEF Derived, FramesDone, StillSelected, StillProposed
    <3>. QED
      BY <2>5, <3>1, OthersDerived
  <2>8. Event!Assess(c)
    <3>1. Candidate(c) \in evidence
      BY <2>1, <2>3 DEF StillProposed
    <3>2. evidence' = evidence \cup {Assessment(c)}
      BY <2>4, <2>5
    <3>. QED
      BY <2>3, <3>1, <3>2, ItemsDiffer DEF Event!Assess
  <2>. QED
    BY <2>3, <2>5, <2>6, <2>7, <2>8 DEF Refines, Event!Next
<1>. QED
  BY <1>1, <1>2, <1>3, <1>4, <1>5 DEF SupervisionStep

LEMMA OthersRefine ==
    ASSUME IInv, Derivations, OtherWrite
    PROVE  Derivations' /\ Refines
<1>1. PICK proposed \in SUBSET Proposals :
        evidence' = (evidence \ Proposals) \cup proposed \cup {Research(mishaps + 1)}
  BY DEF OtherWrite
<1>2. Refines /\ \A f \in Frames : Keyframe(f) \in evidence => Keyframe(f) \in evidence'
  BY <1>1, ProposeRefines
<1>3. fresh' = {} /\ pc' = pc /\ todo' = todo
  BY DEF OtherWrite, threads
<1>4. Derivations'
  BY <1>2, <1>3 DEF Derivations, Derived, FramesDone, StillSelected, StillProposed
<1>. QED
  BY <1>2, <1>4

LEMMA StepRefines == IInv /\ Derivations /\ [Next]_vars => Derivations' /\ Refines
<1>. SUFFICES ASSUME IInv, Derivations, [Next]_vars PROVE Derivations' /\ Refines
  OBVIOUS
<1>1. ASSUME NEW t \in Threads, Conflict(t) \/ Stop(t) PROVE Derivations' /\ Refines
  <2>1. Fail(t)
    BY <1>1 DEF Conflict, Stop
  <2>. QED
    BY <2>1, FailDerived, NothingRecorded
<1>2. CASE UNCHANGED vars
  <2>1. evidence' = evidence /\ fresh' = fresh /\ pc' = pc /\ todo' = todo
    BY <1>2 DEF vars, backend, threads
  <2>2. Derivations'
    BY <2>1 DEF Derivations, Derived, FramesDone, StillSelected, StillProposed, First, Selected,
         Detectable
  <2>. QED
    BY <2>1, <2>2, NothingRecorded
<1>. QED
  BY <1>1, <1>2, KeyframesRefine, VisionRefines, GeographyRefines, SupervisionRefines,
     OthersRefine DEF Next, Step

LEMMA InitRefines == Init => Derivations /\ Event!Init
<1>. SUFFICES ASSUME Init PROVE Derivations /\ Event!Init
  OBVIOUS
<1>1. Derivations
  BY DEF Init, Derivations, Derived, FramesDone, StillSelected, StillProposed
<1>2. \A x : /\ Keyframe(x) \notin evidence
             /\ Observation(x) \notin evidence
             /\ Assessment(x) \notin evidence
  BY ItemsDiffer DEF Init, Proposals
<1>3. Hypotheses \notin evidence
  BY ItemsDiffer DEF Init, Proposals
<1>. QED
  BY <1>1, <1>2, <1>3 DEF Event!Init

\* Together the services keep the record as if each of them read it, derived something from
\* it and recorded that in one step: an observation is of a medium that was to be observed
\* when it was recorded, an assessment of a candidate that was proposed then, and no frame is
\* recorded before those that come first (source_revision_sha256 of every publication).
THEOREM Implements == Spec => AsIfInOneStep
<1>1. Init => Derivations /\ Event!Init
  BY InitRefines
<1>2. IInv /\ Derivations /\ [Next]_vars => Derivations' /\ [Event!Next]_(Event!vars)
  BY StepRefines DEF Refines
<1>. QED
  BY <1>1, <1>2, Invariant, PTL DEF Spec, AsIfInOneStep, Event!Spec

=============================================================================
