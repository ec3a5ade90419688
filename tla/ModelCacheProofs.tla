--------------------------- MODULE ModelCacheProofs ---------------------------
(***************************************************************************)
(* Proofs about ModelCache, for any pods, configurations and mishaps.      *)
(* A check of the volume sees only whether there are files; what makes it  *)
(* enough is that the manifest names whole models only (Names), which is   *)
(* so because its writer holds the lock and has provided every one of them *)
(* (Provides).  Files only arrive on the volume (Grown), so a pod that has *)
(* started is never set back (NotSetBack).                                 *)
(***************************************************************************)
EXTENDS ModelCache, FiniteSetTheorems, TLAPS

\* All files of the models are on the volume.
Whole(models) == \A m \in models : snapshot[m] = "all"

\* The manifest names whole models only.
Names == Whole(manifest) /\ (manifest # {} => roma)

\* A pod that provides models has provided all but those it has left, and what it passes
\* over is whole.
Provides ==
    \A p \in Pods : pc[p] = "provide" =>
        /\ todo[p] \subseteq Expected[p]
        /\ Whole(marked[p])
        /\ Whole(Expected[p] \ todo[p])

\* The manifest is that of the pod that looks at it for the last time.
Final == \A p \in Pods : pc[p] = "final" => manifest = Expected[p]

IInv == TypeOK /\ Names /\ Provides /\ Final /\ LaunchedIsWhole /\ ProvidedIsComplete

\* What the actions of one pod leave alone of the others.
LEMMA GoTypes ==
    ASSUME TypeOK, NEW p \in Pods, NEW place \in Places, Go(p, place)
    PROVE  /\ pc' \in [Pods -> Places] /\ pc'[p] = place
           /\ marked' \in [Pods -> SUBSET Models] /\ todo' \in [Pods -> SUBSET Models]
           /\ \A q \in Pods \ {p} : pc'[q] = pc[q] /\ marked'[q] = marked[q] /\ todo'[q] = todo[q]
  BY DEF TypeOK, Go

\* A pod that moves on without a change of the volume, and not to where something is
\* claimed of it, preserves the invariant.
LEMMA GoPreserves ==
    ASSUME IInv, NEW p \in Pods, NEW place \in Places, Go(p, place), UNCHANGED volume,
           mishaps' \in 0..MaxMishaps,
           place # "provide",
           place = "recheck" => Locked = {},
           place = "final" => p \in Locked /\ manifest = Expected[p],
           place \in {"ready", "launched"} => roma /\ Whole(Expected[p]),
           place = "incomplete" => p \notin AutoPrefetch
    PROVE  IInv'
<1>. USE GoTypes DEF IInv, volume
<1>1. TypeOK'
  BY DEF TypeOK, Locked
<1>2. Names'
  BY DEF Names, Whole
<1>3. Provides'
  BY DEF Provides, Whole
<1>4. Final'
  BY DEF Final
<1>5. LaunchedIsWhole'
  BY DEF LaunchedIsWhole, Whole
<1>6. ProvidedIsComplete'
  BY PrefetchAssumption DEF ProvidedIsComplete
<1>. QED
  BY <1>1, <1>2, <1>3, <1>4, <1>5, <1>6

\* A volume that a pod finds ready is ready: the manifest vouches for the models.
LEMMA ReadyIsWhole ==
    ASSUME IInv, NEW p \in Pods, Ready(p)
    PROVE  roma /\ Whole(Expected[p])
  BY ExpectedAssumption DEF IInv, Names, Ready, Whole

LEMMA InitOK == Init => IInv
<1>. SUFFICES ASSUME Init PROVE IInv
  OBVIOUS
<1>1. TypeOK
  <2>1. Locked = {}
    BY DEF Init, Locked
  <2>2. snapshot \in [Models -> {"none", "some", "all"}] /\ pc \in [Pods -> Places]
    BY DEF Init, Places
  <2>3. marked \in [Pods -> SUBSET Models] /\ todo \in [Pods -> SUBSET Models]
    BY DEF Init
  <2>4. roma \in BOOLEAN /\ manifest \subseteq Models
    BY DEF Init
  <2>5. mishaps \in 0..MaxMishaps
    BY MishapsAssumption DEF Init
  <2>. QED
    BY <2>1, <2>2, <2>3, <2>4, <2>5 DEF TypeOK
<1>2. Names /\ Provides /\ Final /\ LaunchedIsWhole
  BY DEF Init, Names, Provides, Final, Whole, LaunchedIsWhole
<1>3. ProvidedIsComplete
  BY PrefetchAssumption DEF Init, ProvidedIsComplete
<1>. QED
  BY <1>1, <1>2, <1>3 DEF IInv

\* Every step of a pod, and every mishap, preserves the invariant.
LEMMA NextOK == IInv /\ [Next]_vars => IInv'
<1>. SUFFICES ASSUME IInv, [Next]_vars PROVE IInv'
  OBVIOUS
<1>1. CASE UNCHANGED vars
  BY <1>1 DEF IInv, vars, volume, TypeOK, Names, Provides, Final, Whole, LaunchedIsWhole,
     ProvidedIsComplete, Locked
<1>2. ASSUME NEW p \in Pods, Start(p) PROVE IInv'
  BY <1>2, GoPreserves DEF Start, IInv, TypeOK, Places
<1>3. ASSUME NEW p \in Pods, Check(p) PROVE IInv'
  <2>1. CASE Ready(p)
    BY <1>3, <2>1, GoPreserves, ReadyIsWhole DEF Check, IInv, TypeOK, Places
  <2>2. CASE ~Ready(p) /\ p \in AutoPrefetch
    BY <1>3, <2>2, GoPreserves DEF Check, IInv, TypeOK, Places
  <2>3. CASE ~Ready(p) /\ p \notin AutoPrefetch
    BY <1>3, <2>3, GoPreserves DEF Check, IInv, TypeOK, Places
  <2>. QED
    BY <2>1, <2>2, <2>3
<1>4. ASSUME NEW p \in Pods, Lock(p) PROVE IInv'
  BY <1>4, GoPreserves DEF Lock, IInv, TypeOK, Places
<1>5. ASSUME NEW p \in Pods, Recheck(p) PROVE IInv'
  <2>1. CASE Ready(p)
    BY <1>5, <2>1, GoPreserves, ReadyIsWhole DEF Recheck, IInv, TypeOK, Places
  <2>2. CASE ~Ready(p)
    <3>1. /\ pc' = [pc EXCEPT ![p] = "provide"] /\ pc[p] = "recheck"
          /\ marked' = [marked EXCEPT ![p] = manifest]
          /\ todo' = [todo EXCEPT ![p] = Expected[p]]
          /\ UNCHANGED <<volume, mishaps>>
      BY <1>5, <2>2 DEF Recheck
    <3>2. TypeOK'
      <4>1. pc' \in [Pods -> Places] /\ todo' \in [Pods -> SUBSET Models]
        BY <3>1, ExpectedAssumption DEF IInv, TypeOK, Places
      <4>2. Locked' = Locked
        BY <3>1 DEF IInv, TypeOK, Locked
      <4>. QED
        BY <3>1, <4>1, <4>2 DEF IInv, TypeOK, volume
    <3>3. Names' /\ Provides'
      BY <3>1 DEF IInv, TypeOK, Names, Provides, Whole, volume
    <3>4. Final' /\ LaunchedIsWhole' /\ ProvidedIsComplete'
      BY <3>1, PrefetchAssumption
      DEF IInv, TypeOK, Final, LaunchedIsWhole, ProvidedIsComplete, volume
    <3>. QED
      BY <3>2, <3>3, <3>4 DEF IInv
  <2>. QED
    BY <2>1, <2>2
<1>6. ASSUME NEW p \in Pods, Download(p) PROVE IInv'
  <2>1. PICK m \in todo[p] :
          /\ snapshot[m] # "all"
          /\ snapshot' = [snapshot EXCEPT ![m] = IF @ = "none" THEN "some" ELSE "all"]
    BY <1>6 DEF Download
  <2>2. UNCHANGED <<roma, manifest, pc, marked, todo, mishaps>>
    BY <1>6 DEF Download
  <2>3. /\ snapshot' \in [Models -> {"none", "some", "all"}]
        /\ \A n \in Models : snapshot[n] = "all" => snapshot'[n] = "all"
    BY <2>1 DEF IInv, TypeOK
  <2>4. TypeOK' /\ Final' /\ ProvidedIsComplete'
    BY <2>2, <2>3 DEF IInv, TypeOK, Final, ProvidedIsComplete, Locked
  <2>5. Names' /\ Provides' /\ LaunchedIsWhole'
    BY <2>2, <2>3, ExpectedAssumption
    DEF IInv, TypeOK, Names, Provides, LaunchedIsWhole, Whole
  <2>. QED
    BY <2>4, <2>5 DEF IInv
<1>7. ASSUME NEW p \in Pods, Provided(p) PROVE IInv'
  <2>1. PICK m \in todo[p] :
          /\ Cached(p, m) \/ snapshot[m] = "all"
          /\ todo' = [todo EXCEPT ![p] = @ \ {m}]
    BY <1>7 DEF Provided
  <2>2. UNCHANGED <<volume, pc, marked, mishaps>> /\ pc[p] = "provide"
    BY <1>7 DEF Provided
  <2>3. snapshot[m] = "all"
    BY <2>1, <2>2 DEF Cached, IInv, Provides, Whole
  <2>4. TypeOK' /\ Final' /\ ProvidedIsComplete' /\ Names' /\ LaunchedIsWhole'
    BY <2>1, <2>2
    DEF IInv, TypeOK, Final, ProvidedIsComplete, Names, LaunchedIsWhole, Whole, Locked, volume
  <2>5. Provides'
    BY <2>1, <2>2, <2>3 DEF IInv, TypeOK, Provides, Whole, volume
  <2>. QED
    BY <2>4, <2>5 DEF IInv
<1>8. ASSUME NEW p \in Pods, ProvideRoma(p) PROVE IInv'
  BY <1>8
  DEF ProvideRoma, IInv, TypeOK, Final, ProvidedIsComplete, Names, LaunchedIsWhole, Provides,
      Whole, Locked
<1>9. ASSUME NEW p \in Pods, WriteManifest(p) PROVE IInv'
  <2>1. /\ pc[p] = "provide" /\ todo[p] = {} /\ roma
        /\ manifest' = Expected[p] /\ Go(p, "final") /\ UNCHANGED <<snapshot, roma, mishaps>>
    BY <1>9 DEF WriteManifest
  <2>2. "final" \in Places
    BY DEF Places
  <2>3. /\ pc' \in [Pods -> Places] /\ pc'[p] = "final"
        /\ marked' \in [Pods -> SUBSET Models] /\ todo' \in [Pods -> SUBSET Models]
        /\ \A q \in Pods \ {p} : pc'[q] = pc[q] /\ marked'[q] = marked[q] /\ todo'[q] = todo[q]
    BY <2>1, <2>2, GoTypes DEF IInv
  <2>4. Whole(Expected[p])
    BY <2>1 DEF IInv, Provides, Whole
  <2>5. TypeOK'
    BY <2>1, <2>3, ExpectedAssumption DEF IInv, TypeOK, Locked
  <2>6. Names'
    BY <2>1, <2>4 DEF Names, Whole
  <2>7. Provides' /\ LaunchedIsWhole' /\ ProvidedIsComplete'
    BY <2>1, <2>3, PrefetchAssumption
    DEF IInv, Provides, LaunchedIsWhole, ProvidedIsComplete, Whole
  <2>8. Final'
    BY <2>1, <2>3 DEF IInv, TypeOK, Final, Locked
  <2>. QED
    BY <2>5, <2>6, <2>7, <2>8 DEF IInv
<1>10. ASSUME NEW p \in Pods, FinalCheck(p) PROVE IInv'
  <2>1. pc[p] = "final" /\ manifest = Expected[p]
    BY <1>10 DEF FinalCheck, IInv, Final
  <2>2. Ready(p)
    BY <2>1, ExpectedAssumption DEF Ready, IInv, Names, Whole
  <2>. QED
    BY <1>10, <2>1, <2>2, GoPreserves, ReadyIsWhole DEF FinalCheck, IInv, TypeOK, Places
<1>11. ASSUME NEW p \in Pods, Launch(p) PROVE IInv'
  <2>1. roma /\ Whole(Expected[p])
    BY <1>11 DEF Launch, IInv, LaunchedIsWhole, Whole
  <2>. QED
    BY <1>11, <2>1, GoPreserves DEF Launch, IInv, TypeOK, Places
<1>12. ASSUME NEW p \in Pods, Stop(p) PROVE IInv'
  <2>1. mishaps' \in 0..MaxMishaps
    BY <1>12, MishapsAssumption DEF Stop, Mishap, IInv, TypeOK
  <2>. QED
    BY <1>12, <2>1, GoPreserves DEF Stop, Places
<1>. QED
  BY <1>1, <1>2, <1>3, <1>4, <1>5, <1>6, <1>7, <1>8, <1>9, <1>10, <1>11, <1>12 DEF Next, Step

\* The inductive invariant of the volume and its pods (ensure_model_cache).
THEOREM Invariant == Spec => []IInv
  BY InitOK, NextOK, PTL DEF Spec

\* Types, and the lock of the volume has one holder (bootstrap._volume_lock).
THEOREM TypeCorrect == Spec => []TypeOK
<1>1. IInv => TypeOK
  BY DEF IInv
<1>. QED
  BY Invariant, <1>1, PTL

\* A worker runs with all the weights of its models, whatever downloads failed before
\* (cache_status, which sees only whether there are files).
THEOREM WholeModels == Spec => []LaunchedIsWhole
<1>1. IInv => LaunchedIsWhole
  BY DEF IInv
<1>. QED
  BY Invariant, <1>1, PTL

\* The last check of a pod that provided its models succeeds, whatever the other pods want
\* (ensure_model_cache, "mounted model cache remains incomplete").
THEOREM CompleteAfterProvision == Spec => []ProvidedIsComplete
<1>1. IInv => ProvidedIsComplete
  BY DEF IInv
<1>. QED
  BY Invariant, <1>1, PTL

-----------------------------------------------------------------------------
(* What a pod has left to do *)

\* Files only arrive on the volume.
Grown ==
    /\ \A m \in Models : snapshot'[m] = "none" => snapshot[m] = "none"
    /\ \A m \in Models : snapshot'[m] # "all" => snapshot[m] # "all"
    /\ roma => roma'

LEMMA Grows == IInv /\ [Next]_vars => Grown
<1>. SUFFICES ASSUME IInv, [Next]_vars PROVE Grown
  OBVIOUS
<1>1. CASE UNCHANGED <<snapshot, roma>>
  BY <1>1 DEF Grown
<1>2. ASSUME NEW p \in Pods, Download(p) PROVE Grown
  BY <1>2 DEF Download, Grown, IInv, TypeOK
<1>3. ASSUME NEW p \in Pods, ProvideRoma(p) PROVE Grown
  BY <1>3 DEF ProvideRoma, Grown
<1>4. ASSUME NEW p \in Pods,
             \/ Start(p) \/ Check(p) \/ Lock(p) \/ Recheck(p) \/ Provided(p)
             \/ WriteManifest(p) \/ FinalCheck(p) \/ Launch(p) \/ Stop(p)
      PROVE  UNCHANGED <<snapshot, roma>>
  BY <1>4 DEF Start, Check, Lock, Recheck, Provided, WriteManifest, FinalCheck, Launch, Stop,
     volume
<1>. QED
  BY <1>1, <1>2, <1>3, <1>4 DEF Next, Step, vars, volume

\* A pod's step leaves the places and the work of the others alone.
LEMMA Alone ==
    ASSUME IInv, NEW q \in Pods, Step(q) \/ Stop(q), NEW p \in Pods, p # q
    PROVE  pc'[p] = pc[p] /\ todo'[p] = todo[p]
<1>1. CASE \E place \in Places : Go(q, place)
  BY <1>1, GoTypes DEF IInv
<1>2. CASE Download(q) \/ ProvideRoma(q) \/ Provided(q)
  BY <1>2 DEF Download, ProvideRoma, Provided, IInv, TypeOK
<1>3. CASE Recheck(q)
  BY <1>1, <1>3 DEF Recheck, IInv, TypeOK, Places
<1>4. CASE Start(q) \/ Check(q) \/ Lock(q) \/ WriteManifest(q) \/ FinalCheck(q)
           \/ Launch(q) \/ Stop(q)
  BY <1>1, <1>4 DEF Start, Check, Lock, WriteManifest, FinalCheck, Launch, Stop, Places
<1>. QED
  BY <1>2, <1>3, <1>4 DEF Step

Missing(p) == {m \in todo[p] : snapshot[m] = "none"}
Unfinished(p) == {m \in todo[p] : snapshot[m] # "all"}

\* The sets that are counted are finite.
Counted(p) ==
    /\ IsFiniteSet(todo[p]) /\ Cardinality(todo[p]) \in Nat
    /\ IsFiniteSet(Missing(p)) /\ Cardinality(Missing(p)) \in Nat
    /\ IsFiniteSet(Unfinished(p)) /\ Cardinality(Unfinished(p)) \in Nat
    /\ FilesLeft(p) =   Cardinality(todo[p]) + Cardinality(Missing(p))
                     + Cardinality(Unfinished(p)) + (IF roma THEN 0 ELSE 1)

LEMMA ModelSets == \A S \in SUBSET Models : IsFiniteSet(S) /\ Cardinality(S) \in Nat
  BY ModelsAssumption, FS_Subset, FS_CardinalityType

LEMMA Counts == TypeOK => \A p \in Pods : Counted(p)
<1>. SUFFICES ASSUME TypeOK, NEW p \in Pods PROVE Counted(p)
  OBVIOUS
<1>1. todo[p] \in SUBSET Models
  BY DEF TypeOK
<1>2. Missing(p) \in SUBSET Models /\ Unfinished(p) \in SUBSET Models
  BY <1>1 DEF Missing, Unfinished
<1>3. FilesLeft(p) =   Cardinality(todo[p]) + Cardinality(Missing(p))
                     + Cardinality(Unfinished(p)) + (IF roma THEN 0 ELSE 1)
  BY DEF FilesLeft, Missing, Unfinished
<1>. QED
  BY <1>1, <1>2, <1>3, ModelSets DEF Counted

LEMMA CountsNext == (TypeOK => \A p \in Pods : Counted(p))'
  BY Counts, PTL

\* What a pod has left to do is counted in steps.
LEMMA StepsAreNat == TypeOK => \A p \in Pods : StepsLeft(p) \in Nat
<1>. SUFFICES ASSUME TypeOK, NEW p \in Pods PROVE StepsLeft(p) \in Nat
  OBVIOUS
<1>1. FilesLeft(p) \in Nat
  BY Counts DEF Counted
<1>2. MostFiles(p) \in Nat
  BY ModelSets, ExpectedAssumption DEF MostFiles
<1>. QED
  BY <1>1, <1>2 DEF StepsLeft

LEMMA StepsAreNatNext == (TypeOK => \A p \in Pods : StepsLeft(p) \in Nat)'
  BY StepsAreNat, PTL

\* What others do gives a pod no more to do.
LEMMA OthersHelp ==
    ASSUME IInv, IInv', Grown, NEW p \in Pods, pc'[p] = pc[p], todo'[p] \subseteq todo[p]
    PROVE  StepsLeft(p)' <= StepsLeft(p) /\ FilesLeft(p)' <= FilesLeft(p)
<1>1. Missing(p)' \subseteq Missing(p) /\ Unfinished(p)' \subseteq Unfinished(p)
  BY DEF Missing, Unfinished, Grown, IInv, TypeOK
<1>2. Counted(p) /\ Counted(p)'
  BY Counts, CountsNext DEF IInv
<1>3. /\ Cardinality(todo'[p]) <= Cardinality(todo[p])
      /\ Cardinality(Missing(p)') <= Cardinality(Missing(p))
      /\ Cardinality(Unfinished(p)') <= Cardinality(Unfinished(p))
  BY <1>1, <1>2, FS_Subset DEF Counted
<1>4. FilesLeft(p)' <= FilesLeft(p)
  BY <1>2, <1>3 DEF Counted, Grown
<1>5. FilesLeft(p) \in Nat /\ FilesLeft(p)' \in Nat
  BY <1>2 DEF Counted
<1>6. MostFiles(p) \in Nat
  BY ModelSets, ExpectedAssumption DEF MostFiles
<1>. QED
  BY <1>4, <1>5, <1>6 DEF StepsLeft, MostFiles

\* Whatever a pod does itself leaves it with less to do.
LEMMA StepFalls ==
    ASSUME IInv, IInv', Grown, NEW p \in Pods, Started(p), Step(p)
    PROVE  StepsLeft(p)' < StepsLeft(p)
<1>1. Counted(p) /\ Counted(p)'
  BY Counts, CountsNext DEF IInv
<1>2. FilesLeft(p) \in Nat /\ FilesLeft(p)' \in Nat
  BY <1>1 DEF Counted
<1>3. Cardinality(Expected[p]) \in Nat /\ IsFiniteSet(Expected[p])
  BY ModelSets, ExpectedAssumption
<1>4. MostFiles(p) \in Nat /\ MostFiles(p)' = MostFiles(p)
  BY <1>3 DEF MostFiles
<1>5. ASSUME NEW place \in Places, Go(p, place) PROVE pc'[p] = place
  BY <1>5, GoTypes DEF IInv
<1>6. CASE Check(p)
  BY <1>2, <1>4, <1>5, <1>6 DEF Check, StepsLeft, Places
<1>7. CASE Lock(p)
  BY <1>2, <1>4, <1>5, <1>7 DEF Lock, StepsLeft, Places
<1>8. CASE Recheck(p)
  <2>1. CASE Ready(p)
    BY <1>2, <1>4, <1>5, <1>8, <2>1 DEF Recheck, StepsLeft, Places
  <2>2. CASE ~Ready(p)
    <3>1. pc[p] = "recheck" /\ pc'[p] = "provide" /\ todo'[p] = Expected[p]
      BY <1>8, <2>2 DEF Recheck, IInv, TypeOK
    <3>2. /\ Cardinality(todo'[p]) = Cardinality(Expected[p])
          /\ Cardinality(Missing(p)') <= Cardinality(Expected[p])
          /\ Cardinality(Unfinished(p)') <= Cardinality(Expected[p])
      <4>1. Missing(p)' \subseteq Expected[p] /\ Unfinished(p)' \subseteq Expected[p]
        BY <3>1 DEF Missing, Unfinished
      <4>. QED
        BY <3>1, <4>1, <1>3, FS_Subset
    <3>3. FilesLeft(p)' <= MostFiles(p)
      BY <1>1, <1>3, <3>2 DEF Counted, MostFiles
    <3>. QED
      BY <1>2, <1>4, <3>1, <3>3 DEF StepsLeft
  <2>. QED
    BY <2>1, <2>2
<1>9. ASSUME pc[p] = "provide", pc'[p] = "provide", FilesLeft(p)' < FilesLeft(p)
      PROVE  StepsLeft(p)' < StepsLeft(p)
  BY <1>2, <1>9 DEF StepsLeft
<1>10. CASE Download(p)
  <2>1. PICK m \in todo[p] :
          /\ snapshot[m] # "all"
          /\ snapshot' = [snapshot EXCEPT ![m] = IF @ = "none" THEN "some" ELSE "all"]
    BY <1>10 DEF Download
  <2>2. pc[p] = "provide" /\ UNCHANGED <<roma, pc, todo>>
    BY <1>10 DEF Download
  <2>3. m \in Models
    BY <2>1 DEF IInv, TypeOK
  <2>4. Missing(p)' \subseteq Missing(p) /\ Unfinished(p)' \subseteq Unfinished(p)
    BY <2>2 DEF Missing, Unfinished, Grown, IInv, TypeOK
  <2>5. /\ Cardinality(Missing(p)') <= Cardinality(Missing(p))
        /\ Cardinality(Unfinished(p)') <= Cardinality(Unfinished(p))
    BY <1>1, <2>4, FS_Subset DEF Counted
  <2>6. CASE snapshot[m] = "none"
    <3>1. m \in Missing(p) /\ Missing(p)' \subseteq Missing(p) \ {m}
      BY <2>1, <2>2, <2>3, <2>4, <2>6 DEF Missing, IInv, TypeOK
    <3>2. Cardinality(Missing(p)') <= Cardinality(Missing(p)) - 1
      <4>1. /\ IsFiniteSet(Missing(p) \ {m})
            /\ Cardinality(Missing(p) \ {m}) = Cardinality(Missing(p)) - 1
        BY <1>1, <3>1, FS_RemoveElement DEF Counted
      <4>. QED
        BY <3>1, <4>1, FS_Subset
    <3>. QED
      BY <1>1, <1>9, <2>2, <2>5, <3>2 DEF Counted
  <2>7. CASE snapshot[m] # "none"
    <3>1. m \in Unfinished(p) /\ Unfinished(p)' \subseteq Unfinished(p) \ {m}
      BY <2>1, <2>2, <2>3, <2>4, <2>7 DEF Unfinished, IInv, TypeOK
    <3>2. Cardinality(Unfinished(p)') <= Cardinality(Unfinished(p)) - 1
      <4>1. /\ IsFiniteSet(Unfinished(p) \ {m})
            /\ Cardinality(Unfinished(p) \ {m}) = Cardinality(Unfinished(p)) - 1
        BY <1>1, <3>1, FS_RemoveElement DEF Counted
      <4>. QED
        BY <3>1, <4>1, FS_Subset
    <3>. QED
      BY <1>1, <1>9, <2>2, <2>5, <3>2 DEF Counted
  <2>. QED
    BY <2>6, <2>7
<1>11. CASE Provided(p)
  <2>1. PICK m \in todo[p] : todo' = [todo EXCEPT ![p] = @ \ {m}]
    BY <1>11 DEF Provided
  <2>2. pc[p] = "provide" /\ UNCHANGED <<snapshot, roma, pc>>
    BY <1>11 DEF Provided, volume
  <2>3. todo'[p] = todo[p] \ {m}
    BY <2>1 DEF IInv, TypeOK
  <2>4. Cardinality(todo'[p]) = Cardinality(todo[p]) - 1
    BY <1>1, <2>1, <2>3, FS_RemoveElement DEF Counted
  <2>5. Missing(p)' \subseteq Missing(p) /\ Unfinished(p)' \subseteq Unfinished(p)
    BY <2>2, <2>3 DEF Missing, Unfinished
  <2>6. /\ Cardinality(Missing(p)') <= Cardinality(Missing(p))
        /\ Cardinality(Unfinished(p)') <= Cardinality(Unfinished(p))
    BY <1>1, <2>5, FS_Subset DEF Counted
  <2>. QED
    BY <1>1, <1>9, <2>2, <2>4, <2>6 DEF Counted
<1>12. CASE ProvideRoma(p)
  <2>1. pc[p] = "provide" /\ ~roma /\ roma' /\ UNCHANGED <<snapshot, pc, todo>>
    BY <1>12 DEF ProvideRoma
  <2>2. Missing(p)' = Missing(p) /\ Unfinished(p)' = Unfinished(p)
    BY <2>1 DEF Missing, Unfinished
  <2>. QED
    BY <1>1, <1>9, <2>1, <2>2 DEF Counted
<1>13. CASE WriteManifest(p)
  BY <1>2, <1>5, <1>13 DEF WriteManifest, StepsLeft, Places
<1>14. CASE FinalCheck(p)
  BY <1>2, <1>5, <1>14 DEF FinalCheck, StepsLeft, Places
<1>15. CASE Launch(p)
  BY <1>2, <1>5, <1>15 DEF Launch, StepsLeft, Places
<1>16. CASE Start(p)
  BY <1>16 DEF Start, Started
<1>. QED
  BY <1>6, <1>7, <1>8, <1>10, <1>11, <1>12, <1>13, <1>14, <1>15, <1>16 DEF Step

\* A pod is not set back, by itself or by the others (ensure_model_cache; what a pod looks at
\* again after the lock can only have become more).
THEOREM NotSetBack == Spec => NothingIsRepeated
<1> DEFINE Forward ==
      \A p \in Pods :
         Started(p) /\ pc'[p] # "stopped" =>
            /\ StepsLeft(p)' <= StepsLeft(p)
            /\ Step(p) => StepsLeft(p)' < StepsLeft(p)
<1>1. IInv /\ IInv' /\ [Next]_vars => [Forward]_vars
  <2> SUFFICES ASSUME IInv, IInv', Next, NEW p \in Pods, Started(p), pc'[p] # "stopped"
               PROVE  /\ StepsLeft(p)' <= StepsLeft(p)
                      /\ Step(p) => StepsLeft(p)' < StepsLeft(p)
    OBVIOUS
  <2>1. Grown
    BY Grows
  <2>2. Step(p) => StepsLeft(p)' < StepsLeft(p)
    BY <2>1, StepFalls
  <2>3. StepsLeft(p)' <= StepsLeft(p)
    <3>1. PICK q \in Pods : Step(q) \/ Stop(q)
      BY DEF Next
    <3>2. CASE p # q
      BY <2>1, <3>1, <3>2, Alone, OthersHelp
    <3>3. CASE p = q /\ Step(p)
      <4>1. StepsLeft(p) \in Int /\ StepsLeft(p)' \in Int
        BY StepsAreNat, StepsAreNatNext DEF IInv
      <4>. QED
        BY <2>2, <3>3, <4>1
    <3>4. CASE p = q /\ Stop(p)
      BY <3>4, GoTypes DEF Stop, IInv, Places
    <3>. QED
      BY <3>1, <3>2, <3>3, <3>4
  <2>. QED
    BY <2>2, <2>3
<1>. QED
  BY <1>1, Invariant, PTL DEF Spec, NothingIsRepeated
=============================================================================
