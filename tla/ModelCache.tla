------------------------------ MODULE ModelCache ------------------------------
(***************************************************************************)
(* The start of a pod (bootstrap.py, model_provisioning.py,                *)
(* roma_registration.py).  Pods share a volume with the weights of their   *)
(* models.  A pod that finds the volume complete starts its worker; any    *)
(* other waits for a lock, looks again, downloads what is missing, and     *)
(* names its models in a manifest.  Pods of different configurations want  *)
(* different models.  A download may fail, and a pod may be stopped at any *)
(* point; its lock is then released, and the volume stays as it is.        *)
(*                                                                         *)
(* The lock excludes all pods of the volume.  The pinned revision of a     *)
(* model is part of its name, and a download yields that revision.  The    *)
(* two assets of RoMa, which get their name once they are verified, are    *)
(* one.                                                                    *)
(***************************************************************************)
EXTENDS Naturals, FiniteSets

CONSTANTS
    Pods,
    Models,        \* in the order of the registry
    Expected,      \* the models of a pod's configuration
    AutoPrefetch,  \* pods that may download (FW_AUTO_PREFETCH_MODELS)
    MaxMishaps     \* bound on downloads that fail and pods that are stopped

ASSUME ModelsAssumption == Models \subseteq Nat /\ IsFiniteSet(Models)
ASSUME ExpectedAssumption == Expected \in [Pods -> (SUBSET Models) \ {{}}]
ASSUME PrefetchAssumption == AutoPrefetch \subseteq Pods
ASSUME MishapsAssumption == MaxMishaps \in Nat

VARIABLES
    snapshot,  \* volume, per model: none, some or all of its weight files
    roma,      \* volume: the assets of RoMa are there
    manifest,  \* volume: the models that the manifest names, if there is one
    pc,        \* per pod: what it does next
    marked,    \* per pod: the models of the manifest it has read
    todo,      \* per pod: models it has yet to provide
    mishaps    \* failed downloads and stopped pods so far

volume == <<snapshot, roma, manifest>>
vars == <<volume, pc, marked, todo, mishaps>>

Places == {"stopped", "check", "wait", "recheck", "provide", "final",
           "ready", "launched", "incomplete"}

\* (mutant) the lock is released before the last check
LockedUntilWritten == {p \in Pods : pc[p] \in {"recheck", "provide"}}

\* The places at which a pod holds the lock.
Locked == {p \in Pods : pc[p] \in {"recheck", "provide", "final"}}

Init ==
    /\ snapshot = [m \in Models |-> "none"]
    /\ roma = FALSE
    /\ manifest = {}
    /\ pc = [p \in Pods |-> "stopped"]
    /\ marked = [p \in Pods |-> {}]
    /\ todo = [p \in Pods |-> {}]
    /\ mishaps = 0

Mishap == mishaps < MaxMishaps /\ mishaps' = mishaps + 1

\* (mutant) a weight file of each model is enough
ReadyByFiles(p) ==
    /\ \A m \in Expected[p] : snapshot[m] # "none"
    /\ roma

\* The manifest names exactly the models of p, and each has a weight file at least: the
\* files are not looked into.
Ready(p) ==
    /\ manifest = Expected[p]
    /\ \A m \in Expected[p] : snapshot[m] # "none"
    /\ roma

Go(p, place) ==
    /\ pc' = [pc EXCEPT ![p] = place]
    /\ marked' = [marked EXCEPT ![p] = {}]
    /\ todo' = [todo EXCEPT ![p] = {}]

-----------------------------------------------------------------------------

Start(p) ==
    /\ pc[p] \in {"stopped", "incomplete"}
    /\ Go(p, "check")
    /\ UNCHANGED <<volume, mishaps>>

\* The first look takes no lock.
Check(p) ==
    /\ pc[p] = "check"
    /\ Go(p, IF Ready(p) THEN "ready" ELSE IF p \in AutoPrefetch THEN "wait" ELSE "incomplete")
    /\ UNCHANGED <<volume, mishaps>>

Lock(p) ==
    /\ pc[p] = "wait"
    /\ Locked = {}
    /\ Go(p, "recheck")
    /\ UNCHANGED <<volume, mishaps>>

\* Another pod may have provided the models while p waited.
Recheck(p) ==
    /\ pc[p] = "recheck"
    /\ IF Ready(p) THEN Go(p, "ready")
       ELSE /\ pc' = [pc EXCEPT ![p] = "provide"]
            /\ marked' = [marked EXCEPT ![p] = manifest]
            /\ todo' = [todo EXCEPT ![p] = Expected[p]]
    /\ UNCHANGED <<volume, mishaps>>

\* The model p has to provide next.
First(p, m) == m \in todo[p] /\ \A n \in todo[p] : m <= n

\* A model that the manifest names is not downloaded again.
Cached(p, m) == m \in marked[p] /\ snapshot[m] # "none"

\* The files of a model arrive one by one.
Download(p) ==
    /\ pc[p] = "provide"
    /\ \E m \in todo[p] :
          /\ First(p, m)
          /\ ~Cached(p, m)
          /\ snapshot[m] # "all"
          /\ snapshot' = [snapshot EXCEPT ![m] = IF @ = "none" THEN "some" ELSE "all"]
    /\ UNCHANGED <<roma, manifest, pc, marked, todo, mishaps>>

\* The download returns once all files are there.
Provided(p) ==
    /\ pc[p] = "provide"
    /\ \E m \in todo[p] :
          /\ First(p, m)
          /\ Cached(p, m) \/ snapshot[m] = "all"
          /\ todo' = [todo EXCEPT ![p] = @ \ {m}]
    /\ UNCHANGED <<volume, pc, marked, mishaps>>

ProvideRoma(p) ==
    /\ pc[p] = "provide"
    /\ todo[p] = {}
    /\ ~roma
    /\ roma' = TRUE
    /\ UNCHANGED <<snapshot, manifest, pc, marked, todo, mishaps>>

\* (mutant) the manifest goes on to name what it named
ExtendManifest(p) ==
    /\ pc[p] = "provide"
    /\ todo[p] = {}
    /\ roma
    /\ manifest' = manifest \cup Expected[p]
    /\ Go(p, "final")
    /\ UNCHANGED <<snapshot, roma, mishaps>>

\* The manifest is replaced as a whole, and names the models of p only.
WriteManifest(p) ==
    /\ pc[p] = "provide"
    /\ todo[p] = {}
    /\ roma
    /\ manifest' = Expected[p]
    /\ Go(p, "final")
    /\ UNCHANGED <<snapshot, roma, mishaps>>

\* (mutant) the last check is the first one once more
FinalCheckFromStart(p) ==
    /\ pc[p] = "final"
    /\ Go(p, "check")
    /\ UNCHANGED <<volume, mishaps>>

FinalCheck(p) ==
    /\ pc[p] = "final"
    /\ Go(p, IF Ready(p) THEN "ready" ELSE "incomplete")
    /\ UNCHANGED <<volume, mishaps>>

\* What follows, to secure the storage and to start the research runtime, does not touch
\* the models.
Launch(p) ==
    /\ pc[p] = "ready"
    /\ Go(p, "launched")
    /\ UNCHANGED <<volume, mishaps>>

\* A download, or whatever p does, fails, or p is stopped.
Stop(p) ==
    /\ pc[p] # "stopped"
    /\ Mishap
    /\ Go(p, "stopped")
    /\ UNCHANGED volume

Step(p) ==
    \/ Start(p) \/ Check(p) \/ Lock(p) \/ Recheck(p)
    \/ Download(p) \/ Provided(p) \/ ProvideRoma(p) \/ WriteManifest(p)
    \/ FinalCheck(p) \/ Launch(p)

Next == \E p \in Pods : Step(p) \/ Stop(p)

Spec == Init /\ [][Next]_vars

\* A pod that ends is started again, and goes on.
FairSpec == Spec /\ \A p \in Pods : WF_vars(Step(p))

-----------------------------------------------------------------------------
(* Properties *)

\* Types, and the lock has one holder.
TypeOK ==
    /\ snapshot \in [Models -> {"none", "some", "all"}]
    /\ roma \in BOOLEAN
    /\ manifest \subseteq Models
    /\ pc \in [Pods -> Places]
    /\ marked \in [Pods -> SUBSET Models]
    /\ todo \in [Pods -> SUBSET Models]
    /\ mishaps \in 0..MaxMishaps
    /\ \A p, q \in Locked : p = q

\* A worker runs with all the weights of its models, although a check of the volume sees
\* only that there are some: what a download that failed has left does not pass for a model.
LaunchedIsWhole ==
    \A p \in Pods :
        pc[p] \in {"ready", "launched"} =>
            roma /\ \A m \in Expected[p] : snapshot[m] = "all"

\* A pod that may download and is not disturbed does not find the volume incomplete after it
\* provided what was missing, whatever other pods want of it.
ProvidedIsComplete ==
    \A p \in AutoPrefetch : pc[p] # "incomplete"

\* How much a pod may still have to do until its worker runs.
FilesLeft(p) ==
      Cardinality(todo[p])
    + Cardinality({m \in todo[p] : snapshot[m] = "none"})
    + Cardinality({m \in todo[p] : snapshot[m] # "all"})
    + (IF roma THEN 0 ELSE 1)

MostFiles(p) == 3 * Cardinality(Expected[p]) + 1

StepsLeft(p) ==
    IF pc[p] = "check" THEN MostFiles(p) + 6
    ELSE IF pc[p] = "wait" THEN MostFiles(p) + 5
    ELSE IF pc[p] = "recheck" THEN MostFiles(p) + 4
    ELSE IF pc[p] = "provide" THEN FilesLeft(p) + 3
    ELSE IF pc[p] = "final" THEN 2
    ELSE IF pc[p] = "ready" THEN 1
    ELSE 0

Started(p) == pc[p] \notin {"stopped", "incomplete"}

\* A pod that has started goes straight on until it is launched, gives up or is stopped: it
\* takes the lock once, and nothing that others do to the volume gives it more to do, so
\* that the lock comes free after as many steps as there are files to provide.
NothingIsRepeated ==
    [][\A p \in Pods :
         Started(p) /\ pc'[p] # "stopped" =>
            /\ StepsLeft(p)' <= StepsLeft(p)
            /\ Step(p) => StepsLeft(p)' < StepsLeft(p)]_vars

\* A pod that may download gets its worker to run, whatever other pods want of the volume.
EveryPodLaunches ==
    \A p \in AutoPrefetch : pc[p] = "check" ~> pc[p] = "launched"

=============================================================================
