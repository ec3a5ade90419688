---------------------- MODULE SourceAcquisitionProofs -----------------------
(***************************************************************************)
(* Proofs about SourceAcquisition, for any runners, sources and limits.    *)
(* A run whose revision is the latest knows all that is recorded, and its  *)
(* next page is the next one of the recorded progress (RunOK, Fits); one   *)
(* whose revision is older cannot record anything.  So all runs together   *)
(* are one searcher, the one of AcquisitionLog (Implements).               *)
(***************************************************************************)
EXTENDS SourceAcquisition, TLAPS

Records ==
    [wave : 1..MaxWave, focus : Coverages, planned : Nat, base : Nat,
     number : 1..(MaxSourcePages + 1), at : Cursors,
     streak : 0..MaxSourcePages, known : SUBSET Sources,
     ended : BOOLEAN, stopped : BOOLEAN, converged : BOOLEAN]

\* The recorded progress keeps the limits of its wave.
Limits ==
    /\ progress.streak <= empties
    /\ empties <= progress.pages
    /\ ~progress.completed => progress.pages < MaxSourcePages
    /\ progress.converged => progress.streak >= ZeroYieldWaves

\* The next page of the run is the next one of the recorded progress.
Same(r) ==
    /\ SamePlan(r)
    /\ ~progress.completed
    /\ run[r].number = progress.pages + 1
    /\ run[r].at = progress.at
    /\ run[r].streak = progress.streak

First(r) ==
    /\ progress.wave = 0 \/ progress.completed
    /\ run[r].wave = progress.wave + 1
    /\ IF progress.wave = 0 THEN run[r].focus = "ready"
       ELSE kind = "incident_day" /\ (~progress.converged \/ Incomplete)
    /\ run[r].number = 1
    /\ run[r].at = Start
    /\ run[r].streak = 0

Fits(r) == Same(r) \/ First(r)

\* What is known of a run that searches.
CollectOK(r) ==
    /\ run[r].number <= MaxSourcePages
    /\ run[r].streak < run[r].number
    /\ run[r].base <= rev
    /\ run[r].known \subseteq found \cup dropped
    /\ run[r].base = rev => found \subseteq run[r].known /\ Fits(r)

\* What is known of a request with a plan: a plan of the latest revision is accepted.
PlannedOK(r) ==
    /\ progress.wave = 0 => run[r].wave = 1 /\ run[r].focus = "ready"
    /\ run[r].planned = rev /\ kind = "incident_day" => ~Refuses(r)

RunOK(r) ==
    /\ pc[r] = "collect" => CollectOK(r)
    /\ pc[r] = "planned" => PlannedOK(r)
    /\ pc[r] \in {"planned", "refused"} => run[r].planned <= rev
    /\ pc[r] = "refused" /\ kind = "incident_day" => rev # run[r].planned

IInv ==
    /\ TypeOK
    /\ coverage \in CoveragesOf(kind)
    /\ Limits
    /\ SourcesOnce
    /\ NothingSilentlyDropped
    /\ \A r \in Runners : RunOK(r)

LEMMA RestingIsRecord == Resting \in Records
<1>1. Start \in Cursors
  BY LimitsAssumption DEF Start, Cursors
<1>2. "ready" \in Coverages
  BY DEF Coverages
<1> QED
  BY <1>1, <1>2, LimitsAssumption DEF Resting, Records

LEMMA InitOK == Init => IInv
<1> SUFFICES ASSUME Init PROVE IInv
  OBVIOUS
<1>1. Start \in Cursors
  BY LimitsAssumption DEF Start, Cursors
<1>2. NoProgress \in Progresses
  BY <1>1, LimitsAssumption DEF NoProgress, Progresses, Coverages
<1>3. coverage \in Coverages
  BY DEF Init, CoveragesOf, Coverages
<1>4. TypeOK
  <2>1. run \in [Runners -> Records]
    BY RestingIsRecord DEF Init
  <2>2. pc \in [Runners -> {"idle", "planned", "refused", "collect", "returned"}]
    BY DEF Init
  <2>3. /\ rev \in Nat
        /\ mishaps \in 0..MaxMishaps /\ empties \in 0..MaxSourcePages
    BY LimitsAssumption DEF Init
  <2>4. progress \in Progresses
    BY <1>2 DEF Init
  <2>5. /\ kind \in Kinds /\ full \in BOOLEAN /\ found \subseteq Sources
        /\ {duplicates, dropped, passedOver} \subseteq SUBSET Sources
    BY DEF Init
  <2> QED
    BY <1>3, <2>1, <2>2, <2>3, <2>4, <2>5 DEF TypeOK, Records
<1>5. Limits
  BY LimitsAssumption DEF Limits, Init, NoProgress
<1>6. SourcesOnce /\ NothingSilentlyDropped
  BY DEF SourcesOnce, NothingSilentlyDropped, Init
<1>7. \A r \in Runners : RunOK(r)
  BY DEF RunOK, Init
<1> QED
  BY <1>4, <1>5, <1>6, <1>7 DEF IInv, Init

-----------------------------------------------------------------------------
(* Steps that record nothing *)

LEMMA GoOK ==
    ASSUME IInv, NEW r \in Runners, NEW x \in Records,
           NEW place \in {"idle", "planned", "refused", "collect", "returned"},
           pc' = [pc EXCEPT ![r] = place],
           run' = [run EXCEPT ![r] = x],
           UNCHANGED <<kind, evidence, mishaps, history>>,
           RunOK(r)'
    PROVE  IInv'
<1>1. TypeOK'
  BY DEF IInv, TypeOK, Records, evidence, history
<1>2. Limits' /\ SourcesOnce' /\ NothingSilentlyDropped'
  BY DEF IInv, Limits, SourcesOnce, NothingSilentlyDropped, evidence, history
<1>3. \A s \in Runners : RunOK(s)'
  <2> SUFFICES ASSUME NEW s \in Runners, s # r PROVE RunOK(s)'
    OBVIOUS
  <2>1. pc'[s] = pc[s] /\ run'[s] = run[s]
    BY DEF IInv, TypeOK
  <2>2. RunOK(s)
    BY DEF IInv
  <2> QED
    BY <2>1, <2>2 DEF RunOK, CollectOK, PlannedOK, Fits, Same, First, Refuses, SamePlan,
         MayFollow, Incomplete, evidence, history
<1> QED
  BY <1>1, <1>2, <1>3 DEF IInv, CoveragesOf, evidence

LEMMA RestOK ==
    ASSUME IInv, NEW r \in Runners, Rest(r), UNCHANGED <<kind, evidence, mishaps, history>>
    PROVE  IInv'
<1>1. pc' = [pc EXCEPT ![r] = "idle"] /\ run' = [run EXCEPT ![r] = Resting]
  BY DEF Rest
<1>2. RunOK(r)'
  BY <1>1 DEF RunOK, IInv, TypeOK
<1> QED
  BY <1>1, <1>2, RestingIsRecord, GoOK

\* A plan that was made from the latest revision is the recorded one or the next wave.
LEMMA PlanOK ==
    ASSUME IInv, NEW r \in Runners, Plan(r)
    PROVE  IInv'
<1>. DEFINE x == [Resting EXCEPT !.wave = PlanBuilt.wave, !.focus = PlanBuilt.focus,
                                 !.planned = rev]
<1>1. /\ pc' = [pc EXCEPT ![r] = "planned"]
      /\ run' = [run EXCEPT ![r] = x]
      /\ UNCHANGED <<kind, evidence, mishaps, history>>
  BY DEF Plan
<1>2. PlanBuilt.wave \in 1..MaxWave /\ PlanBuilt.focus \in Coverages
  BY LimitsAssumption
  DEF PlanBuilt, NeedsAnotherWave, IInv, TypeOK, Progresses, Coverages
<1>3. /\ x \in Records
      /\ x.wave = PlanBuilt.wave /\ x.focus = PlanBuilt.focus /\ x.planned = rev
  BY <1>2, RestingIsRecord DEF Records, IInv, TypeOK, Resting
<1>4. pc'[r] = "planned" /\ run'[r] = x
  BY <1>1 DEF IInv, TypeOK
<1>5. RunOK(r)'
  <2>. HIDE DEF x
  <2>1. progress.wave = 0 => x.wave = 1 /\ x.focus = "ready"
    BY <1>3 DEF PlanBuilt
  <2>2. kind = "incident_day" => ~Refuses(r)'
    BY <1>1, <1>3, <1>4
    DEF Refuses, SamePlan, MayFollow, PlanBuilt, NeedsAnotherWave, Incomplete, evidence
  <2>3. PlannedOK(r)'
    BY <1>1, <1>4, <2>1, <2>2 DEF PlannedOK, evidence
  <2> QED
    BY <1>1, <1>3, <1>4, <2>3 DEF RunOK, evidence, IInv, TypeOK
<1>. HIDE DEF x
<1> QED
  BY <1>1, <1>3, <1>5, GoOK

LEMMA RefuseOK ==
    ASSUME IInv, NEW r \in Runners, Refuse(r)
    PROVE  IInv'
<1>1. /\ pc[r] = "planned" /\ Refuses(r)
      /\ pc' = [pc EXCEPT ![r] = "refused"]
      /\ run' = [run EXCEPT ![r] = run[r]]
      /\ UNCHANGED <<kind, evidence, mishaps, history>>
  BY DEF Refuse, IInv, TypeOK
<1>2. run[r] \in Records
  BY DEF IInv, TypeOK, Records
<1>3. RunOK(r)'
  BY <1>1 DEF RunOK, PlannedOK, IInv, TypeOK, evidence
<1> QED
  BY <1>1, <1>2, <1>3, GoOK

\* What is left of a run that has ended.
LEMMA ReceiptIsRecord ==
    ASSUME IInv, NEW r \in Runners, NEW last \in Progresses
    PROVE  Receipt(r, last) \in Records
  BY RestingIsRecord DEF Receipt, Records, Progresses, IInv, TypeOK, Resting

LEMMA ReturnOK ==
    ASSUME IInv, NEW r \in Runners, Return(r)
    PROVE  IInv'
<1>1. /\ pc' = [pc EXCEPT ![r] = "returned"]
      /\ run' = [run EXCEPT ![r] = Receipt(r, progress)]
      /\ UNCHANGED <<kind, evidence, mishaps, history>>
  BY DEF Return
<1>2. Receipt(r, progress) \in Records
  BY ReceiptIsRecord DEF IInv, TypeOK
<1>3. RunOK(r)'
  BY <1>1 DEF RunOK, IInv, TypeOK
<1> QED
  BY <1>1, <1>2, <1>3, GoOK

\* A run begins with what is recorded.
LEMMA OpenOK ==
    ASSUME IInv, NEW r \in Runners, Open(r)
    PROVE  IInv'
<1>. DEFINE at == IF Resumed(r) THEN progress ELSE NoProgress
            x == [run[r] EXCEPT !.planned = 0, !.base = rev, !.number = at.pages + 1,
                                !.at = at.at, !.streak = at.streak, !.known = found]
<1>1. /\ pc[r] = "planned" /\ ~Refuses(r) /\ ~(Resumed(r) /\ progress.completed)
      /\ pc' = [pc EXCEPT ![r] = "collect"]
      /\ run' = [run EXCEPT ![r] = x]
      /\ UNCHANGED <<kind, evidence, mishaps, history>>
  BY DEF Open, IInv, TypeOK
<1>2. progress \in Progresses /\ NoProgress \in Progresses
  <2>1. Start \in Cursors
    BY LimitsAssumption DEF Start, Cursors
  <2> QED
    BY <2>1, LimitsAssumption DEF NoProgress, Progresses, Coverages, IInv, TypeOK
<1>3. /\ at \in Progresses
      /\ at.pages < MaxSourcePages
      /\ at.streak <= at.pages
  BY <1>1, <1>2, LimitsAssumption DEF NoProgress, IInv, Limits, Progresses, TypeOK
<1>4. (Resumed(r) => at = progress) /\ (~Resumed(r) => at.pages = 0 /\ at.at = Start /\ at.streak = 0)
  BY DEF NoProgress
<1>5. run[r] \in Records /\ rev \in Nat /\ found \subseteq Sources
  BY DEF IInv, TypeOK, Records
<1>. HIDE DEF at
<1>6. x \in Records
  <2>1. /\ at.pages + 1 \in 1..(MaxSourcePages + 1)
        /\ at.streak \in 0..MaxSourcePages
        /\ at.at \in Cursors
    BY <1>3, LimitsAssumption DEF Progresses
  <2> QED
    BY <1>5, <2>1 DEF Records
<1>7. /\ x.base = rev /\ x.number = at.pages + 1 /\ x.at = at.at /\ x.streak = at.streak
      /\ x.known = found /\ x.wave = run[r].wave /\ x.focus = run[r].focus
  BY <1>5 DEF Records
<1>8. pc'[r] = "collect" /\ run'[r] = x
  BY <1>1 DEF IInv, TypeOK
<1>. HIDE DEF x
<1>9. Fits(r)'
  <2>1. CASE Resumed(r)
    BY <1>1, <1>4, <1>7, <1>8, <2>1 DEF Fits, Same, SamePlan, Resumed, evidence
  <2>2. CASE ~Resumed(r)
    <3>1. x.number = 1 /\ x.at = Start /\ x.streak = 0
      BY <1>4, <1>7, <2>2
    <3>2. PlannedOK(r)
      BY <1>1 DEF IInv, RunOK
    <3>3. progress.wave = 0 \/ MayFollow(r)
      BY <1>1, <2>2 DEF Refuses, Resumed
    <3>4. progress.wave = 0 \/ progress.completed
      BY <3>3 DEF MayFollow
    <3>5. x.wave = progress.wave + 1
      BY <1>7, <3>2, <3>3 DEF MayFollow, PlannedOK
    <3>6. IF progress.wave = 0 THEN x.focus = "ready"
          ELSE kind = "incident_day" /\ (~progress.converged \/ Incomplete)
      BY <1>7, <3>2, <3>3 DEF MayFollow, PlannedOK
    <3> QED
      BY <1>1, <1>8, <3>1, <3>4, <3>5, <3>6 DEF Fits, First, Incomplete, evidence
  <2> QED
    BY <2>1, <2>2
<1>10. CollectOK(r)'
  BY <1>1, <1>3, <1>5, <1>7, <1>8, <1>9, LimitsAssumption
  DEF CollectOK, evidence, history, Progresses
<1>11. RunOK(r)'
  BY <1>8, <1>10 DEF RunOK
<1> QED
  BY <1>1, <1>6, <1>11, GoOK
-----------------------------------------------------------------------------
(* The recording of a page *)

Outcomes == {"new", "zero", "failed"}

\* The wave may have no more pages, or no more media.
Limited(r, filled) == filled \/ run[r].number = MaxSourcePages

\* A page after which the wave is completed, and one after which it goes on, with the next
\* results of its query from the offset on or with the next query.
Ends(r, q, filled) ==
    /\ Limited(r, filled) \/ run[r].at[1] + 1 = Queries
    /\ q.at = Start
    /\ q.converged <=> ~Limited(r, filled) /\ q.streak >= ZeroYieldWaves

GoesOn(r, q, filled, offset) ==
    /\ ~Limited(r, filled)
    /\ run[r].number < MaxSourcePages
    /\ q.at \in {<<run[r].at[1], offset>>, <<run[r].at[1] + 1, 0>>}
    /\ ~q.converged

\* What any page of the run is, its search over or failed.
PageOf(r, p) ==
    /\ p.progress \in Progresses
    /\ p.progress.wave = run[r].wave
    /\ p.progress.focus = run[r].focus
    /\ p.progress.pages = run[r].number
    /\ p.full \in BOOLEAN
    /\ p.full # full => p.full /\ p.outcome = "new"
    /\ p.progress.completed => Ends(r, p.progress, p.full)
    /\ ~p.progress.completed =>
          GoesOn(r, p.progress, p.full,
                 IF p.outcome = "failed" THEN run[r].at[2] ELSE run[r].at[2] + 1)
    /\ p.outcome \in Outcomes
    /\ p.outcome = "new" <=> p.sources # {}
    /\ p.outcome = "new" => p.progress.streak = 0
    /\ p.outcome = "zero" => p.progress.streak = run[r].streak + 1
    /\ p.outcome = "failed" => p.progress.streak = run[r].streak
    /\ p.sources \subseteq Sources /\ p.links \subseteq Sources
    /\ p.sources \cap run[r].known = {}
    /\ run[r].known \cup p.sources \subseteq p.known
    /\ p.known \subseteq run[r].known \cup p.sources
                         \cup (IF p.outcome = "failed" THEN p.links ELSE {})

\* The cursor stays among the queries and pages there are.
LEMMA ReachedOK ==
    ASSUME IInv, NEW r \in Runners, pc[r] = "collect",
           NEW outcome \in Outcomes, NEW offset \in 0..MaxOffset, NEW filled \in BOOLEAN
    PROVE  LET q == Reached(r, outcome, offset, filled)
           IN  /\ q \in Progresses
               /\ q.wave = run[r].wave /\ q.focus = run[r].focus /\ q.pages = run[r].number
               /\ q.streak = IF outcome = "new" THEN 0
                             ELSE IF outcome = "zero" THEN run[r].streak + 1
                             ELSE run[r].streak
               /\ q.completed => Ends(r, q, filled)
               /\ ~q.completed => /\ GoesOn(r, q, filled, offset)
                                  /\ offset = 0 => q.at = <<run[r].at[1] + 1, 0>>
<1>. DEFINE w == run[r]
            safety == filled \/ w.number >= MaxSourcePages
            completed == safety \/ (offset = 0 /\ w.at[1] + 1 = Queries)
            streak == IF outcome = "new" THEN 0
                      ELSE IF outcome = "zero" THEN w.streak + 1 ELSE w.streak
            at == IF completed THEN Start
                  ELSE IF offset # 0 THEN <<w.at[1], offset>> ELSE <<w.at[1] + 1, 0>>
            converged == completed /\ ~safety /\ streak >= ZeroYieldWaves
<1>1. Reached(r, outcome, offset, filled) =
        [wave |-> w.wave, focus |-> w.focus, pages |-> w.number, at |-> at, streak |-> streak,
         completed |-> completed, safety |-> safety, converged |-> converged]
  BY DEF Reached
<1>2. /\ w \in Records
      /\ w.number <= MaxSourcePages /\ w.streak < w.number
  BY DEF IInv, TypeOK, Records, RunOK, CollectOK
<1>3. /\ w.at[1] \in 0..(Queries - 1) /\ w.at[2] \in 0..MaxOffset
      /\ w.wave \in 0..MaxWave /\ w.focus \in Coverages /\ w.number \in 0..MaxSourcePages
  BY <1>2, LimitsAssumption DEF Records, Cursors
<1>4. streak \in 0..MaxSourcePages
  BY <1>2, LimitsAssumption DEF Records
<1>5. at \in Cursors
  BY <1>3, LimitsAssumption DEF Cursors, Start
<1>6. ~completed => /\ ~filled /\ w.number < MaxSourcePages
                    /\ at \in {<<w.at[1], offset>>, <<w.at[1] + 1, 0>>}
                    /\ offset = 0 => at = <<w.at[1] + 1, 0>>
                    /\ ~converged
  BY <1>3, LimitsAssumption
<1>7. completed \in BOOLEAN /\ safety \in BOOLEAN /\ converged \in BOOLEAN
  OBVIOUS
<1>8. completed => /\ \/ filled \/ w.number = MaxSourcePages
                      \/ w.at[1] + 1 = Queries
                   /\ at = Start
                   /\ converged <=> /\ ~(filled \/ w.number = MaxSourcePages)
                                    /\ streak >= ZeroYieldWaves
  BY <1>2, <1>3, LimitsAssumption
<1>. HIDE DEF w, safety, completed, streak, at, converged
<1>9. Reached(r, outcome, offset, filled) \in Progresses
  BY <1>1, <1>3, <1>4, <1>5, <1>7 DEF Progresses
<1> QED
  BY <1>1, <1>2, <1>6, <1>8, <1>9, LimitsAssumption DEF w, streak, Limited, Ends, GoesOn

LEMMA SearchedIsPage ==
    ASSUME IInv, NEW r \in Runners, pc[r] = "collect",
           NEW links \in SUBSET Sources, NEW rejected \in SUBSET links,
           NEW offset \in 0..MaxOffset, offset = 0 \/ offset = run[r].at[2] + 1,
           NEW fills \in BOOLEAN, fills => ~(links \subseteq run[r].known \cup rejected)
    PROVE  PageOf(r, SearchedPage(r, links, rejected, offset, fills))
<1>. DEFINE admitted == (links \ run[r].known) \ rejected
            filled == full \/ fills
            outcome == IF admitted = {} THEN "zero" ELSE "new"
            p == [progress |-> Reached(r, outcome, offset, filled), full |-> filled,
                  sources |-> admitted, outcome |-> outcome, links |-> links,
                  known |-> run[r].known \cup admitted]
<1>1. SearchedPage(r, links, rejected, offset, fills) = p
  BY DEF SearchedPage
<1>2. outcome \in {"zero", "new"} /\ (outcome = "new" <=> admitted # {})
  OBVIOUS
<1>3. filled \in BOOLEAN /\ (filled # full => filled /\ outcome = "new")
  BY DEF IInv, TypeOK
<1>4. /\ p.progress = Reached(r, outcome, offset, filled) /\ p.full = filled
      /\ p.sources = admitted
      /\ p.outcome = outcome /\ p.links = links /\ p.known = run[r].known \cup admitted
  OBVIOUS
<1>5. admitted \subseteq Sources /\ admitted \cap run[r].known = {}
  OBVIOUS
<1>. HIDE DEF p, outcome, admitted, filled
<1>6. outcome \in Outcomes
  BY <1>2 DEF Outcomes
<1>7. ~p.progress.completed => GoesOn(r, p.progress, p.full, run[r].at[2] + 1)
  BY <1>3, <1>4, <1>6, ReachedOK DEF GoesOn
<1> QED
  BY <1>1, <1>2, <1>3, <1>4, <1>5, <1>6, <1>7, ReachedOK DEF PageOf

LEMMA FailedIsPage ==
    ASSUME IInv, NEW r \in Runners, pc[r] = "collect",
           NEW links \in SUBSET Sources, NEW admitted \in SUBSET links
    PROVE  PageOf(r, FailedPage(r, links, admitted))
<1>. DEFINE offset == run[r].at[2]
            p == [progress |-> Reached(r, "failed", offset, full), full |-> full,
                  sources |-> {}, outcome |-> "failed", links |-> links,
                  known |-> run[r].known \cup admitted]
<1>1. FailedPage(r, links, admitted) = p
  BY DEF FailedPage
<1>2. offset \in 0..MaxOffset /\ full \in BOOLEAN
  BY LimitsAssumption DEF IInv, TypeOK, Cursors
<1>3. /\ p.progress = Reached(r, "failed", offset, full) /\ p.full = full /\ p.sources = {}
      /\ p.outcome = "failed" /\ p.links = links /\ p.known = run[r].known \cup admitted
  OBVIOUS
<1>4. "failed" \in Outcomes
  BY DEF Outcomes
<1>. HIDE DEF p
<1>5. ~p.progress.completed => GoesOn(r, p.progress, p.full, offset)
  BY <1>2, <1>3, <1>4, ReachedOK
<1> QED
  BY <1>1, <1>2, <1>3, <1>4, <1>5, ReachedOK DEF PageOf

\* A page whose run has the latest revision is the next one, and brings nothing known.
LEMMA IsNext ==
    ASSUME IInv, NEW r \in Runners, NEW p, PageOf(r, p), Publish(r, p)
    PROVE  /\ Same(r) \/ First(r)
           /\ p.sources \cap found = {}
           /\ run[r].known \subseteq found \cup dropped
           /\ found \subseteq run[r].known
<1>1. pc[r] = "collect" /\ rev = run[r].base
  BY DEF Publish
<1>2. CollectOK(r)
  BY <1>1 DEF IInv, RunOK
<1> QED
  BY <1>1, <1>2 DEF CollectOK, Fits, PageOf

LEMMA PagesOK ==
    ASSUME IInv, NEW r \in Runners, NEW p, PageOf(r, p), Publish(r, p)
    PROVE  NextInWave \/ NextWave
<1>1. progress' = p.progress
  BY DEF Publish, Record
<1>2. CASE Same(r)
  <2>1. run[r].at \in Cursors
    BY DEF IInv, TypeOK
  <2>2. ~p.progress.completed =>
          \/ p.progress.at[1] > run[r].at[1]
          \/ p.progress.at[1] = run[r].at[1] /\ p.progress.at[2] >= run[r].at[2]
    BY <2>1, LimitsAssumption DEF PageOf, GoesOn, Cursors
  <2> QED
    BY <1>1, <1>2, <2>2 DEF Same, SamePlan, NextInWave, PageOf
<1>3. CASE First(r)
  BY <1>1, <1>3 DEF First, NextWave, PageOf
<1> QED
  BY <1>2, <1>3, IsNext

LEMMA EmptiesOK ==
    ASSUME IInv, NEW r \in Runners, NEW p, PageOf(r, p), Publish(r, p)
    PROVE  Limits' /\ empties' \in 0..MaxSourcePages
<1>. DEFINE before == IF p.progress.wave = progress.wave THEN empties ELSE 0
<1>1. /\ progress' = p.progress
      /\ empties' = IF p.outcome = "new" THEN 0
                    ELSE IF p.outcome = "zero" THEN before + 1 ELSE before
  BY DEF Publish, Record
<1>2. /\ run[r].streak \in Nat /\ run[r].number \in 1..(MaxSourcePages + 1)
      /\ empties \in Nat /\ progress.streak \in Nat /\ progress.pages \in Nat
      /\ p.progress.pages \in 0..MaxSourcePages
      /\ progress.wave \in Nat
  BY LimitsAssumption DEF IInv, TypeOK, Progresses, PageOf
<1>3. /\ run[r].streak <= before
      /\ before + 1 <= run[r].number
      /\ before \in Nat
  <2>1. CASE Same(r)
    BY <1>2, <2>1 DEF Same, SamePlan, PageOf, IInv, Limits
  <2>2. CASE First(r)
    BY <1>2, <2>2 DEF First, PageOf
  <2> QED
    BY <2>1, <2>2, IsNext
<1>. HIDE DEF before
<1>4. p.progress.pages = run[r].number
  BY DEF PageOf
<1>5. p.outcome \in Outcomes
  BY DEF PageOf
<1>6. p.progress.streak <= empties' /\ empties' <= p.progress.pages /\ empties' \in Nat
  BY <1>1, <1>2, <1>3, <1>4, <1>5 DEF PageOf, Outcomes
<1>7. Limits'
  BY <1>1, <1>4, <1>6 DEF Limits, PageOf, Ends, GoesOn
<1> QED
  BY <1>2, <1>6, <1>7, LimitsAssumption

\* Where the run goes on after its page.
LEMMA AdvanceOK ==
    ASSUME IInv, NEW r \in Runners, NEW p, PageOf(r, p), Publish(r, p)
    PROVE  /\ pc' \in [Runners -> {"idle", "planned", "refused", "collect", "returned"}]
           /\ run' \in [Runners -> Records]
           /\ \A s \in Runners \ {r} : pc'[s] = pc[s] /\ run'[s] = run[s]
           /\ RunOK(r)'
<1>. DEFINE x == [run[r] EXCEPT !.base = rev + 1, !.number = p.progress.pages + 1,
                                !.at = p.progress.at, !.streak = p.progress.streak,
                                !.known = p.known]
            receipt == Receipt(r, p.progress)
<1>1. run[r] \in Records /\ rev \in Nat /\ found \subseteq Sources
  BY DEF IInv, TypeOK, Records
<1>2. pc[r] = "collect"
  BY DEF Publish
<1>3. receipt \in Records /\ Resting \in Records
  BY ReceiptIsRecord, RestingIsRecord DEF PageOf
<1>4. p.progress \in Progresses /\ p.progress.pages = run[r].number
  BY DEF PageOf
<1>5. \/ /\ pc' = [pc EXCEPT ![r] = "collect"]
         /\ run' = [run EXCEPT ![r] = x]
         /\ ~p.progress.completed
      \/ \E place \in {"idle", "returned"}, rest \in {receipt, Resting} :
            /\ pc' = [pc EXCEPT ![r] = place]
            /\ run' = [run EXCEPT ![r] = rest]
  <2>1. CASE Rest(r)
    BY <2>1 DEF Rest
  <2>2. CASE Advance(r, p)
    <3>1. PICK last \in {TRUE, p.progress.completed} :
            /\ pc' = [pc EXCEPT ![r] = IF last THEN "returned" ELSE "collect"]
            /\ run' = [run EXCEPT ![r] = IF last THEN receipt ELSE x]
      BY <2>2, <1>1 DEF Advance
    <3> QED
      BY <3>1, <1>4 DEF Progresses
  <2> QED
    BY <2>1, <2>2 DEF Publish
<1>6. CASE \E place \in {"idle", "returned"}, rest \in {receipt, Resting} :
            /\ pc' = [pc EXCEPT ![r] = place]
            /\ run' = [run EXCEPT ![r] = rest]
  <2>. HIDE DEF receipt
  <2> QED
    BY <1>3, <1>6 DEF IInv, TypeOK, Records, RunOK
<1>7. CASE /\ pc' = [pc EXCEPT ![r] = "collect"]
           /\ run' = [run EXCEPT ![r] = x]
           /\ ~p.progress.completed
  <2>1. /\ run[r].number \in 1..MaxSourcePages /\ run[r].number < MaxSourcePages
        /\ p.known \subseteq Sources
        /\ p.progress.at \in Cursors /\ p.progress.streak \in 0..MaxSourcePages
    BY <1>1, <1>4, <1>7, LimitsAssumption DEF PageOf, GoesOn, Records, Progresses
  <2>2. p.progress.pages + 1 \in 1..(MaxSourcePages + 1) /\ rev + 1 \in Nat
    BY <1>1, <1>4, <2>1, LimitsAssumption
  <2>3. x \in Records
    BY <1>1, <2>1, <2>2 DEF Records
  <2>4. /\ x.base = rev + 1 /\ x.number = p.progress.pages + 1 /\ x.at = p.progress.at
        /\ x.streak = p.progress.streak /\ x.known = p.known
        /\ x.wave = run[r].wave /\ x.focus = run[r].focus
    BY <1>1 DEF Records
  <2>. HIDE DEF x
  <2>5. pc'[r] = "collect" /\ run'[r] = x
    BY <1>7 DEF IInv, TypeOK
  <2>6. /\ rev' = rev + 1 /\ progress' = p.progress
        /\ found' = found \cup p.sources
        /\ dropped' = IF p.outcome = "failed" THEN dropped \cup p.links ELSE dropped
    BY DEF Publish, Record
  <2>7. Same(r)'
    BY <1>7, <2>4, <2>5, <2>6 DEF Same, SamePlan, PageOf
  <2>8. found' \subseteq x.known
    BY <2>4, <2>6, IsNext DEF PageOf
  <2>9. x.known \subseteq found' \cup dropped'
    BY <2>4, <2>6, IsNext DEF PageOf
  <2>10. x.number <= MaxSourcePages
    BY <1>4, <2>1, <2>4, LimitsAssumption
  <2>11. x.streak < x.number
    <3>1. run[r].streak \in Nat /\ run[r].streak < run[r].number
      BY <1>1, <1>2 DEF Records, IInv, RunOK, CollectOK
    <3>2. p.progress.streak <= run[r].streak + 1
      BY <3>1 DEF PageOf, Outcomes
    <3> QED
      BY <1>4, <2>1, <2>4, <3>1, <3>2, LimitsAssumption
  <2>12. CollectOK(r)'
    BY <1>1, <2>4, <2>5, <2>6, <2>7, <2>8, <2>9, <2>10, <2>11 DEF CollectOK, Fits
  <2>13. RunOK(r)'
    BY <2>5, <2>12 DEF RunOK
  <2> QED
    BY <1>7, <2>3, <2>13 DEF IInv, TypeOK, Records
<1> QED
  BY <1>5, <1>6, <1>7

LEMMA PublishOK ==
    ASSUME IInv, NEW r \in Runners, NEW p, PageOf(r, p), Publish(r, p)
    PROVE  IInv'
<1>1. /\ rev' = rev + 1 /\ progress' = p.progress
      /\ found' = found \cup p.sources /\ full' = p.full
      /\ duplicates' = duplicates \cup (p.sources \cap found)
      /\ coverage' \in CoveragesOf(kind)
      /\ dropped' = IF p.outcome = "failed" THEN dropped \cup p.links ELSE dropped
      /\ passedOver' = IF p.outcome = "failed" THEN passedOver
                       ELSE passedOver \cup (p.links \cap run[r].known)
      /\ UNCHANGED <<kind, mishaps>>
  BY DEF Publish, Record
<1>2. TypeOK'
  <2>1. /\ p.progress \in Progresses /\ p.full \in BOOLEAN
        /\ p.sources \subseteq Sources /\ p.links \subseteq Sources
    BY DEF PageOf
  <2>2. coverage' \in Coverages
    BY <1>1 DEF CoveragesOf, Coverages
  <2>3. /\ pc' \in [Runners -> {"idle", "planned", "refused", "collect", "returned"}]
        /\ run' \in [Runners -> Records]
    BY AdvanceOK
  <2>4. empties' \in 0..MaxSourcePages
    BY EmptiesOK
  <2>5. {duplicates', dropped', passedOver'} \subseteq SUBSET Sources /\ found' \subseteq Sources
    BY <1>1, <2>1 DEF IInv, TypeOK
  <2>6. kind' \in Kinds /\ rev' \in Nat /\ mishaps' \in 0..MaxMishaps
    BY <1>1 DEF IInv, TypeOK
  <2> QED
    BY <1>1, <2>1, <2>2, <2>3, <2>4, <2>5, <2>6 DEF TypeOK, Records
<1>3. SourcesOnce'
  BY <1>1, IsNext DEF SourcesOnce, IInv
<1>4. NothingSilentlyDropped'
  BY <1>1, IsNext DEF NothingSilentlyDropped, IInv
<1>5. \A s \in Runners : RunOK(s)'
  <2> SUFFICES ASSUME NEW s \in Runners, s # r PROVE RunOK(s)'
    BY AdvanceOK
  <2>1. pc'[s] = pc[s] /\ run'[s] = run[s]
    BY AdvanceOK
  <2>2. RunOK(s)
    BY DEF IInv
  <2>3. /\ rev \in Nat /\ run[s].base \in Nat /\ run[s].planned \in Nat
        /\ run[r].wave \in 1..MaxWave
    BY DEF IInv, TypeOK
  <2>4. progress'.wave # 0
    BY <1>1, <2>3 DEF PageOf
  <2>5. found \subseteq found' /\ dropped \subseteq dropped'
    BY <1>1
  <2>6. CollectOK(s) => CollectOK(s)'
    BY <1>1, <2>1, <2>3, <2>5 DEF CollectOK
  <2>7. run[s].planned <= rev => PlannedOK(s)' /\ run'[s].planned <= rev' /\ run'[s].planned # rev'
    BY <1>1, <2>1, <2>3, <2>4 DEF PlannedOK
  <2> QED
    BY <2>1, <2>2, <2>6, <2>7 DEF RunOK
<1> QED
  BY <1>1, <1>2, <1>3, <1>4, <1>5, EmptiesOK DEF IInv

-----------------------------------------------------------------------------
(* Steps of others *)

LEMMA OtherWriteOK == IInv /\ OtherWrite => IInv'
<1> SUFFICES ASSUME IInv, OtherWrite PROVE IInv'
  OBVIOUS
<1>1. /\ rev' = rev + 1 /\ coverage' \in CoveragesOf(kind)
      /\ UNCHANGED <<kind, progress, found, full, duplicates, pc, run, empties, dropped, passedOver>>
      /\ mishaps' \in 0..MaxMishaps
  BY LimitsAssumption DEF OtherWrite, Mishap, runners, history, IInv, TypeOK
<1>2. TypeOK'
  BY <1>1 DEF IInv, TypeOK, CoveragesOf, Coverages
<1>3. Limits' /\ SourcesOnce' /\ NothingSilentlyDropped'
  BY <1>1 DEF IInv, Limits, SourcesOnce, NothingSilentlyDropped
<1>4. \A s \in Runners : RunOK(s)'
  <2> SUFFICES ASSUME NEW s \in Runners PROVE RunOK(s)'
    OBVIOUS
  <2>1. RunOK(s) /\ rev \in Nat /\ run[s].base \in Nat /\ run[s].planned \in Nat
    BY DEF IInv, TypeOK
  <2> QED
    BY <1>1, <2>1 DEF RunOK, CollectOK, PlannedOK
<1> QED
  BY <1>1, <1>2, <1>3, <1>4 DEF IInv

LEMMA CrashOK == IInv /\ Crash => IInv'
<1> SUFFICES ASSUME IInv, Crash PROVE IInv'
  OBVIOUS
<1>1. /\ pc' = [r \in Runners |-> "idle"] /\ run' = [r \in Runners |-> Resting]
      /\ mishaps' \in 0..MaxMishaps
      /\ UNCHANGED <<kind, evidence, history>>
  BY LimitsAssumption DEF Crash, Mishap, IInv, TypeOK
<1>2. TypeOK'
  BY <1>1, RestingIsRecord DEF IInv, TypeOK, Records, evidence, history
<1>3. Limits' /\ SourcesOnce' /\ NothingSilentlyDropped'
  BY <1>1 DEF IInv, Limits, SourcesOnce, NothingSilentlyDropped, evidence, history
<1>4. \A s \in Runners : RunOK(s)'
  BY <1>1 DEF RunOK
<1> QED
  BY <1>1, <1>2, <1>3, <1>4 DEF IInv, CoveragesOf, evidence

-----------------------------------------------------------------------------

LEMMA SearchPages ==
    ASSUME IInv, NEW r \in Runners, Search(r) \/ Fail(r)
    PROVE  \E p : PageOf(r, p) /\ Publish(r, p)
<1>1. CASE Search(r)
  <2>1. PICK links \in SUBSET Sources, offset \in {0, run[r].at[2] + 1} :
        \E rejected \in SUBSET (links \ run[r].known), fills \in BOOLEAN :
          /\ offset <= MaxOffset
          /\ fills => ~full /\ ~(links \subseteq run[r].known \cup rejected)
          /\ Publish(r, SearchedPage(r, links, rejected, offset, fills))
    BY <1>1 DEF Search
  <2>2. PICK rejected \in SUBSET (links \ run[r].known), fills \in BOOLEAN :
          /\ offset <= MaxOffset
          /\ fills => ~(links \subseteq run[r].known \cup rejected)
          /\ Publish(r, SearchedPage(r, links, rejected, offset, fills))
    BY <2>1
  <2>3. pc[r] = "collect"
    BY <2>2 DEF Publish
  <2>4. offset \in 0..MaxOffset
    BY <2>2, LimitsAssumption DEF IInv, TypeOK, Cursors
  <2> QED
    BY <2>2, <2>3, <2>4, SearchedIsPage
<1>2. CASE Fail(r)
  <2>1. PICK links \in SUBSET Sources : \E admitted \in SUBSET links :
            Publish(r, FailedPage(r, links, admitted))
    BY <1>2 DEF Fail
  <2>2. PICK admitted \in SUBSET links : Publish(r, FailedPage(r, links, admitted))
    BY <2>1
  <2>3. pc[r] = "collect"
    BY <2>2 DEF Publish
  <2> QED
    BY <2>2, <2>3, FailedIsPage
<1> QED
  BY <1>1, <1>2

\* What holds of a step of any runner.
LEMMA NextOK ==
    ASSUME IInv, [Next]_vars
    PROVE  IInv' /\ (progress' # progress => NextInWave \/ NextWave)
<1>1. CASE Serve
  <2> SUFFICES ASSUME NEW r \in Runners,
          \/ Request(r) \/ Refuse(r) \/ Return(r) \/ Open(r)
          \/ Search(r) \/ Fail(r) \/ Conflict(r)
          \/ Continue(r) \/ Answer(r)
        PROVE IInv' /\ (progress' # progress => NextInWave \/ NextWave)
    BY <1>1 DEF Serve
  <2>1. CASE Request(r) \/ Continue(r)
    <3>1. Plan(r)
      BY <2>1 DEF Request, Continue
    <3> QED
      BY <3>1, PlanOK DEF Plan, evidence
  <2>2. CASE Refuse(r)
    BY <2>2, RefuseOK DEF Refuse, evidence
  <2>3. CASE Return(r)
    BY <2>3, ReturnOK DEF Return, evidence
  <2>4. CASE Open(r)
    BY <2>4, OpenOK DEF Open, evidence
  <2>5. CASE Search(r) \/ Fail(r)
    BY <2>5, SearchPages, PublishOK, PagesOK
  <2>6. CASE Conflict(r) \/ Answer(r)
    <3>1. Rest(r) /\ UNCHANGED <<kind, evidence, mishaps, history>>
      BY <2>6 DEF Conflict, Answer
    <3> QED
      BY <3>1, RestOK DEF evidence
  <2> QED
    BY <2>1, <2>2, <2>3, <2>4, <2>5, <2>6
<1>2. CASE OtherWrite
  BY <1>2, OtherWriteOK DEF OtherWrite
<1>3. CASE Crash
  BY <1>3, CrashOK DEF Crash, evidence
<1>4. CASE UNCHANGED vars
  <2>1. UNCHANGED <<kind, rev, progress, found, full, duplicates, coverage, pc, run,
                    mishaps, empties, dropped, passedOver>>
    BY <1>4 DEF vars, evidence, runners, history
  <2> QED
    BY <2>1 DEF IInv, TypeOK, CoveragesOf, Limits, SourcesOnce, NothingSilentlyDropped, RunOK,
         CollectOK, PlannedOK, Fits, Same, First, SamePlan, Refuses, MayFollow, Incomplete
<1> QED
  BY <1>1, <1>2, <1>3, <1>4 DEF Next

\* The inductive invariant: a run with the latest revision knows all that is recorded and
\* goes on where the record stands (source_acquisition.py, the evidence read at the start
\* of a run and the revision every page is published with).
THEOREM Invariant == Spec => []IInv
<1>1. Init => IInv
  BY InitOK
<1>2. IInv /\ [Next]_vars => IInv'
  BY NextOK
<1> QED
  BY <1>1, <1>2, PTL DEF Spec

\* Types, and the limits of a wave: no run, and no record, exceeds its pages.
THEOREM TypeCorrect == Spec => []TypeOK
<1>1. IInv => TypeOK
  BY DEF IInv
<1> QED
  BY <1>1, Invariant, PTL

\* No source is recorded by two pages, whoever searches and whatever fails.
THEOREM RecordedOnce == Spec => []SourcesOnce
<1>1. IInv => SourcesOnce
  BY DEF IInv
<1> QED
  BY <1>1, Invariant, PTL

\* What a page leaves out as known is recorded, or was on a page whose failure the journal
\* has.
THEOREM DroppedIsJournaled == Spec => []NothingSilentlyDropped
<1>1. IInv => NothingSilentlyDropped
  BY DEF IInv
<1> QED
  BY <1>1, Invariant, PTL

\* A wave converges on enough empty searches since the last one that brought something.
THEOREM Earned == Spec => []ConvergenceIsEarned
<1>1. IInv => ConvergenceIsEarned
  BY LimitsAssumption DEF IInv, Limits, ConvergenceIsEarned, TypeOK, Progresses
<1> QED
  BY <1>1, Invariant, PTL

\* The worker takes the plan of an incident day unless the evidence has changed.
THEOREM Accepted == Spec => []PlanIsAccepted
<1>1. IInv => PlanIsAccepted
  BY DEF IInv, RunOK, PlanIsAccepted
<1> QED
  BY <1>1, Invariant, PTL

\* The recorded pages form one sequence, whoever records them.
THEOREM InOrder == Spec => PagesInOrder
<1>1. IInv /\ [Next]_vars => [progress' # progress => NextInWave \/ NextWave]_vars
  BY NextOK
<1> QED
  BY <1>1, Invariant, PTL DEF Spec, PagesInOrder

-----------------------------------------------------------------------------
(* The abstract specification *)

LEMMA InitRefines == Init => Acquisition!Init
  BY KindsAssumption
  DEF Init, NoProgress, Start, CoveragesOf, Coverages, WaveStatus,
      Acquisition!Init, Acquisition!Start, Acquisition!CoveragesOf

\* A page that builds on the latest revision is one of the abstract searcher, who is at the
\* same place of the wave.
LEMMA PageRefines ==
    ASSUME IInv, NEW r \in Runners, NEW p, PageOf(r, p), Publish(r, p)
    PROVE  Acquisition!PageFrom(run[r].at, run[r].streak)
<1>1. /\ progress' = p.progress
      /\ found' = found \cup p.sources /\ full' = p.full
      /\ coverage' \in CoveragesOf(kind) /\ kind' = kind
  BY DEF Publish, Record
<1>2. /\ p.sources \in SUBSET (Sources \ found)
      /\ p.outcome \in Outcomes
      /\ p.progress.wave = run[r].wave /\ p.progress.pages = run[r].number
  BY IsNext DEF PageOf
<1>3. /\ run[r].at \in Cursors /\ run[r].wave \in 1..MaxWave
      /\ run[r].number \in Nat /\ run[r].number <= MaxSourcePages
      /\ p.progress.at \in Cursors
      /\ p.progress.completed \in BOOLEAN
  BY DEF IInv, TypeOK, RunOK, CollectOK, Publish, PageOf, Progresses
<1>4. run[r].at = <<run[r].at[1], run[r].at[2]>> /\ run[r].at[1] \in Nat
  BY <1>3, LimitsAssumption DEF Cursors
<1>5. WaveStatus' = IF ~p.progress.completed THEN "open"
                    ELSE IF p.progress.converged THEN "converged" ELSE "completed"
  BY <1>1, <1>2, <1>3, LimitsAssumption DEF WaveStatus
<1>6. CASE p.progress.completed
  <2>1. Acquisition!End(run[r].at)
    BY <1>1, <1>2, <1>3, <1>5, <1>6, LimitsAssumption
    DEF PageOf, Ends, Limited, Acquisition!End, Acquisition!LimitReached, Acquisition!Start,
        Start
  <2> QED
    BY <1>1, <1>2, <2>1
    DEF PageOf, Outcomes, CoveragesOf, Coverages, Acquisition!PageFrom, Acquisition!Answered,
        Acquisition!Failed, Acquisition!CoveragesOf
<1>7. CASE ~p.progress.completed
  <2>1. p.outcome = "failed" =>
          Acquisition!GoOnAt({run[r].at, Acquisition!NextQuery(run[r].at)})
    BY <1>1, <1>2, <1>3, <1>4, <1>5, <1>7, LimitsAssumption
    DEF PageOf, GoesOn, Limited, Cursors, Acquisition!GoOnAt, Acquisition!LimitReached,
        Acquisition!NextQuery
  <2>2. p.outcome # "failed" =>
          Acquisition!GoOnAt({Acquisition!NextResults(run[r].at),
                              Acquisition!NextQuery(run[r].at)})
    BY <1>1, <1>2, <1>3, <1>4, <1>5, <1>7, LimitsAssumption
    DEF PageOf, GoesOn, Limited, Cursors, Acquisition!GoOnAt, Acquisition!LimitReached,
        Acquisition!NextQuery, Acquisition!NextResults
  <2> QED
    BY <1>1, <1>2, <2>1, <2>2
    DEF PageOf, Outcomes, CoveragesOf, Coverages, Acquisition!PageFrom, Acquisition!Answered,
        Acquisition!Failed, Acquisition!CoveragesOf
<1> QED
  BY <1>3, <1>6, <1>7

\* It is the next page of the recorded wave, or the first one of the next.
LEMMA PublishRefines ==
    ASSUME IInv, NEW r \in Runners, NEW p, PageOf(r, p), Publish(r, p)
    PROVE  Acquisition!FirstPage \/ Acquisition!NextPage
<1>1. /\ progress'.wave = run[r].wave /\ progress'.focus = run[r].focus
      /\ progress'.pages = run[r].number
  BY DEF Publish, Record, PageOf
<1>2. /\ run[r].wave \in 1..MaxWave /\ run[r].focus \in Coverages
      /\ progress.wave \in 0..MaxWave /\ MaxWave \in Nat
  BY LimitsAssumption DEF IInv, TypeOK, Progresses
<1>3. CASE Same(r)
  <2>1. WaveStatus = "open"
    BY <1>2, <1>3 DEF Same, SamePlan, WaveStatus
  <2> QED
    BY <1>1, <1>3, <2>1, PageRefines DEF Same, SamePlan, Acquisition!NextPage
<1>4. CASE First(r)
  <2>1. Acquisition!MayBegin
    BY <1>4 DEF First, WaveStatus, Incomplete, Acquisition!MayBegin
  <2>2. run[r].focus \in IF progress.wave = 0 THEN {"ready"} ELSE Acquisition!CoveragesOf(kind)
    BY <1>2, <1>4 DEF First, Coverages, Acquisition!CoveragesOf
  <2>3. progress.wave < MaxWave
    BY <1>2, <1>4 DEF First
  <2> QED
    BY <1>1, <1>4, <2>1, <2>2, <2>3, PageRefines
    DEF First, Start, Acquisition!Start, Acquisition!FirstPage
<1> QED
  BY <1>3, <1>4, IsNext

LEMMA StepRefines == IInv /\ [Next]_vars => [Acquisition!Next]_(Acquisition!vars)
<1> SUFFICES ASSUME IInv, [Next]_vars PROVE [Acquisition!Next]_(Acquisition!vars)
  OBVIOUS
<1>1. CASE UNCHANGED <<kind, evidence>>
  BY <1>1 DEF evidence, WaveStatus, Acquisition!vars
<1>2. CASE OtherWrite
  BY <1>2 DEF OtherWrite, CoveragesOf, Coverages, WaveStatus, Acquisition!Next,
       Acquisition!Reassess, Acquisition!CoveragesOf
<1>3. CASE \E r \in Runners : Search(r) \/ Fail(r)
  BY <1>3, SearchPages, PublishRefines DEF Acquisition!Next
<1>4. ASSUME NEW r \in Runners,
             \/ Request(r) \/ Refuse(r) \/ Return(r) \/ Open(r)
             \/ Conflict(r) \/ Continue(r) \/ Answer(r)
      PROVE  UNCHANGED <<kind, evidence>>
  BY <1>4 DEF Request, Continue, Plan, Refuse, Return, Open, Conflict, Answer
<1>5. CASE Serve
  BY <1>1, <1>3, <1>4, <1>5 DEF Serve
<1>6. CASE Crash \/ UNCHANGED vars
  BY <1>1, <1>6 DEF Crash, vars
<1> QED
  BY <1>2, <1>5, <1>6 DEF Next

\* The requests of all runners implement one searcher who knows all that is recorded: no
\* page is repeated or taken out of order, no source is brought twice, no query is passed
\* over and no wave begun too early, whatever conflicts, fails or is interrupted
\* (source_acquisition.py:688, 727, 770).
THEOREM Implements == Spec => OneAcquisition
<1>1. Init => Acquisition!Init
  BY InitRefines
<1>2. IInv /\ [Next]_vars => [Acquisition!Next]_(Acquisition!vars)
  BY StepRefines
<1> QED
  BY <1>1, <1>2, Invariant, PTL DEF Spec, OneAcquisition, Acquisition!Spec
=============================================================================
