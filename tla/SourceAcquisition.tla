------------------------- MODULE SourceAcquisition --------------------------
(***************************************************************************)
(* The acquisition of public sources (source_acquisition.py,               *)
(* source_acquisition_service.py, source_planner.py).                      *)
(*                                                                         *)
(* A request plans a wave of queries from what the backend holds, and a    *)
(* worker searches them one page at a time.  Every page is published with  *)
(* the revision of the evidence it builds on, and the backend, which is    *)
(* external, records it only if that revision is still the latest.  The    *)
(* next request goes on from the recorded cursor, so that what is between  *)
(* two records is lost with a request that fails, or with the process.     *)
(* A search shares nothing with other threads, so it is one step with the  *)
(* publication of its page, and a page that could not be recorded is not   *)
(* searched: its thread finds the conflict instead.                        *)
(*                                                                         *)
(* What a search finds is a choice, page by page.  A source is its URL and *)
(* its content; its claims are left out, and of its media all but whether  *)
(* they are as many as the evidence may have.  The plan of a wave is       *)
(* its number and its focus, all else of it being settings.  How many      *)
(* pages one run may search, and how many runs one request may make, are   *)
(* choices too.                                                            *)
(***************************************************************************)
EXTENDS Naturals, FiniteSets

CONSTANTS
    Runners,         \* threads of the service
    Kinds,           \* what the evidence is about: an incident day, a candidate
    Sources,         \* what searches may find
    Gaps,            \* what the coverage of an incident day may lack
    Queries,         \* queries of a wave
    MaxOffset,       \* pages the search provider has beyond the first of a query
    MaxSourcePages,  \* pages of a wave (max_source_pages)
    MaxWave,         \* 16 in the code
    ZeroYieldWaves,  \* convergence_zero_yield_waves
    MaxMishaps       \* bound on writes of other services and failures of the process

ASSUME KindsAssumption == Kinds \subseteq {"incident_day", "event_candidate"}
ASSUME ReadyAssumption == "ready" \notin Gaps
ASSUME FiniteAssumption == IsFiniteSet(Sources)
ASSUME LimitsAssumption ==
    /\ Queries \in Nat \ {0}
    /\ MaxOffset \in Nat
    /\ MaxSourcePages \in Nat \ {0}
    /\ MaxWave \in Nat \ {0}
    /\ ZeroYieldWaves \in Nat \ {0}
    /\ MaxMishaps \in Nat

VARIABLES
    kind,       \* what the evidence is about
    rev,        \* backend: revision of the evidence
    progress,   \* backend: where the acquisition is
    found,      \* backend: sources recorded
    full,       \* backend: the media of public sources have reached their limit
    duplicates, \* backend: sources a page brought that were recorded before
    coverage,   \* backend: what the incident day lacks, "ready" if nothing
    pc,         \* per runner: what it does next
    run,        \* per runner: its plan and what it knows
    mishaps,    \* writes of other services and failures of the process so far
    empties,    \* history: pages of the wave that brought nothing, since one did
    dropped,    \* history: links of the pages recorded as failed
    passedOver  \* history: links that a recorded page left out as known

evidence == <<rev, progress, found, full, duplicates, coverage>>
runners  == <<pc, run>>
history  == <<empties, dropped, passedOver>>
vars == <<kind, evidence, runners, mishaps, history>>

\* Only an incident day has a coverage; without one, nothing is known to lack.
Coverages == Gaps \cup {"ready"}
CoveragesOf(k) == IF k = "incident_day" THEN Coverages ELSE {"ready"}
Cursors == (0..(Queries - 1)) \X (0..MaxOffset)
Start == <<0, 0>>

NoProgress == [wave |-> 0, focus |-> "ready", pages |-> 0, at |-> Start, streak |-> 0,
               completed |-> FALSE, safety |-> FALSE, converged |-> FALSE]
Resting == [wave |-> 1, focus |-> "ready", planned |-> 0, base |-> 0, number |-> 1,
            at |-> Start, streak |-> 0, known |-> {}, ended |-> FALSE, stopped |-> FALSE, converged |-> FALSE]

Init ==
    /\ kind \in Kinds
    /\ rev = 0
    /\ progress = NoProgress
    /\ found = {}
    /\ full = FALSE
    /\ duplicates = {}
    /\ coverage \in CoveragesOf(kind)
    /\ pc = [r \in Runners |-> "idle"]
    /\ run = [r \in Runners |-> Resting]
    /\ mishaps = 0
    /\ empties = 0
    /\ dropped = {}
    /\ passedOver = {}

-----------------------------------------------------------------------------
(* The plan of a request, and whether the worker takes it *)

\* An incident day with a document still lacking.
Incomplete == coverage # "ready"

NeedsAnotherWave ==
    /\ progress.completed
    /\ progress.wave < MaxWave
    /\ ~progress.converged \/ Incomplete

\* (mutant) the plan of a wave follows the coverage while the wave goes on
PlanRefocused ==
    IF progress.wave = 0 THEN [wave |-> 1, focus |-> "ready"]
    ELSE IF NeedsAnotherWave THEN [wave |-> progress.wave + 1, focus |-> coverage]
    ELSE [wave |-> progress.wave, focus |-> coverage]

\* The first wave has a focus of its own, which its number stands for; a later one goes
\* after what the coverage lacks when it is planned.
PlanBuilt ==
    IF progress.wave = 0 THEN [wave |-> 1, focus |-> "ready"]
    ELSE IF NeedsAnotherWave THEN [wave |-> progress.wave + 1, focus |-> coverage]
    ELSE [wave |-> progress.wave, focus |-> progress.focus]

SamePlan(r) == progress.wave = run[r].wave /\ progress.focus = run[r].focus

\* (mutant) the worker forgets to compare the numbers of the waves
MayFollowAny(r) ==
    /\ kind = "incident_day"
    /\ progress.completed
    /\ ~progress.converged \/ Incomplete

\* (mutant) a converged acquisition is never taken up again
MayFollowUnconverged(r) ==
    /\ kind = "incident_day"
    /\ progress.completed
    /\ run[r].wave = progress.wave + 1
    /\ ~progress.converged

\* The worker reads the evidence again.  A plan that is not the recorded one must be the
\* next wave of an incident day.
MayFollow(r) ==
    /\ kind = "incident_day"
    /\ progress.completed
    /\ run[r].wave = progress.wave + 1
    /\ ~progress.converged \/ Incomplete

Refuses(r) == progress.wave # 0 /\ ~SamePlan(r) /\ ~MayFollow(r)

\* The cursor and counters a run begins with: those of its own wave, if it has begun.
Resumed(r) == progress.wave # 0 /\ SamePlan(r)

-----------------------------------------------------------------------------
(* What a page brings *)

\* (mutant) a page that failed counts as one that found nothing
ReachedByFailure(r, outcome, offset, filled) ==
    LET w == run[r]
        query == w.at[1]
        safety == filled \/ w.number >= MaxSourcePages
        completed == safety \/ (offset = 0 /\ query + 1 = Queries)
        streak == IF outcome = "new" THEN 0 ELSE w.streak + 1
    IN  [wave |-> w.wave, focus |-> w.focus, pages |-> w.number,
         at |-> IF completed THEN Start
                ELSE IF offset # 0 THEN <<query, offset>> ELSE <<query + 1, 0>>,
         streak |-> streak, completed |-> completed, safety |-> safety,
         converged |-> completed /\ ~safety /\ streak >= ZeroYieldWaves]

\* The worker's page once its search is over: where the wave goes from here.  Offset 0
\* of a query is the search provider's missing cursor.  A wave that has filled the evidence
\* with media stops as one that has used up its pages.
Reached(r, outcome, offset, filled) ==
    LET w == run[r]
        query == w.at[1]
        safety == filled \/ w.number >= MaxSourcePages
        completed == safety \/ (offset = 0 /\ query + 1 = Queries)
        streak == IF outcome = "new" THEN 0
                  ELSE IF outcome = "zero" THEN w.streak + 1 ELSE w.streak
    IN  [wave |-> w.wave, focus |-> w.focus, pages |-> w.number,
         at |-> IF completed THEN Start
                ELSE IF offset # 0 THEN <<query, offset>> ELSE <<query + 1, 0>>,
         streak |-> streak, completed |-> completed, safety |-> safety,
         converged |-> completed /\ ~safety /\ streak >= ZeroYieldWaves]

\* (mutant) links are known from the search results on
SearchedPageKnowsLinks(r, links, rejected, offset, fills) ==
    LET admitted == (links \ run[r].known) \ rejected
        filled == full \/ fills
        outcome == IF admitted = {} THEN "zero" ELSE "new"
    IN  [progress |-> Reached(r, outcome, offset, filled), full |-> filled,
         sources |-> admitted, outcome |-> outcome, links |-> links,
         known |-> run[r].known \cup links]

\* Links whose page cannot be read, is no article, or repeats one that is known get an
\* entry of the journal; known URLs are passed over without one.
SearchedPage(r, links, rejected, offset, fills) ==
    LET admitted == (links \ run[r].known) \ rejected
        filled == full \/ fills
        outcome == IF admitted = {} THEN "zero" ELSE "new"
    IN  [progress |-> Reached(r, outcome, offset, filled), full |-> filled,
         sources |-> admitted, outcome |-> outcome, links |-> links,
         known |-> run[r].known \cup admitted]

\* Whatever is raised leaves a page without sources whose journal says that the search
\* failed.  By then some sources are already in the set of known ones, which nothing
\* restores.  The cursor stays, but that of the first page is no cursor at all.
FailedPage(r, links, admitted) ==
    [progress |-> Reached(r, "failed", run[r].at[2], full), full |-> full,
     sources |-> {}, outcome |-> "failed", links |-> links,
     known |-> run[r].known \cup admitted]

-----------------------------------------------------------------------------
(* Requests *)

Rest(r) ==
    /\ pc' = [pc EXCEPT ![r] = "idle"]
    /\ run' = [run EXCEPT ![r] = Resting]

Plan(r) ==
    /\ pc' = [pc EXCEPT ![r] = "planned"]
    /\ run' = [run EXCEPT ![r] = [Resting EXCEPT !.wave = PlanBuilt.wave,
                                                 !.focus = PlanBuilt.focus,
                                                 !.planned = rev]]
    /\ UNCHANGED <<kind, evidence, mishaps, history>>

\* All that is left of a run of the worker: its plan's wave, and what it says of it.
Receipt(r, last) ==
    [Resting EXCEPT !.wave = run[r].wave, !.ended = last.completed,
                    !.stopped = last.safety, !.converged = last.converged]

Request(r) ==
    /\ pc[r] = "idle"
    /\ Plan(r)

Refuse(r) ==
    /\ pc[r] = "planned"
    /\ Refuses(r)
    /\ pc' = [pc EXCEPT ![r] = "refused"]
    /\ UNCHANGED <<kind, evidence, run, mishaps, history>>

\* A wave that is completed is not searched again.
Return(r) ==
    /\ pc[r] = "planned"
    /\ Resumed(r) /\ progress.completed
    /\ pc' = [pc EXCEPT ![r] = "returned"]
    /\ run' = [run EXCEPT ![r] = Receipt(r, progress)]
    /\ UNCHANGED <<kind, evidence, mishaps, history>>

\* (mutant) a run begins without what the backend holds
OpenUnread(r) ==
    /\ pc[r] = "planned"
    /\ ~Refuses(r)
    /\ ~(Resumed(r) /\ progress.completed)
    /\ LET at == IF Resumed(r) THEN progress ELSE NoProgress
       IN  run' = [run EXCEPT ![r].planned = 0, ![r].base = rev,
                              ![r].number = at.pages + 1, ![r].at = at.at,
                              ![r].streak = at.streak, ![r].known = {}]
    /\ pc' = [pc EXCEPT ![r] = "collect"]
    /\ UNCHANGED <<kind, evidence, mishaps, history>>

\* (mutant) the streak of the last wave goes on in the next
OpenKeepsStreak(r) ==
    /\ pc[r] = "planned"
    /\ ~Refuses(r)
    /\ ~(Resumed(r) /\ progress.completed)
    /\ LET at == IF Resumed(r) THEN progress ELSE NoProgress
       IN  run' = [run EXCEPT ![r].planned = 0, ![r].base = rev,
                              ![r].number = at.pages + 1, ![r].at = at.at,
                              ![r].streak = progress.streak, ![r].known = found]
    /\ pc' = [pc EXCEPT ![r] = "collect"]
    /\ UNCHANGED <<kind, evidence, mishaps, history>>

Open(r) ==
    /\ pc[r] = "planned"
    /\ ~Refuses(r)
    /\ ~(Resumed(r) /\ progress.completed)
    /\ LET at == IF Resumed(r) THEN progress ELSE NoProgress
       IN  run' = [run EXCEPT ![r].planned = 0, ![r].base = rev,
                              ![r].number = at.pages + 1, ![r].at = at.at,
                              ![r].streak = at.streak, ![r].known = found]
    /\ pc' = [pc EXCEPT ![r] = "collect"]
    /\ UNCHANGED <<kind, evidence, mishaps, history>>

\* The backend records a page that builds on its latest revision; what the coverage is
\* then is up to it.
Record(r, p) ==
    /\ rev' = rev + 1
    /\ progress' = p.progress
    /\ found' = found \cup p.sources
    /\ full' = p.full
    /\ duplicates' = duplicates \cup (p.sources \cap found)
    /\ coverage' \in CoveragesOf(kind)
    /\ empties' = LET before == IF p.progress.wave = progress.wave THEN empties ELSE 0
                  IN  IF p.outcome = "new" THEN 0
                      ELSE IF p.outcome = "zero" THEN before + 1 ELSE before
    /\ dropped' = IF p.outcome = "failed" THEN dropped \cup p.links ELSE dropped
    /\ passedOver' = IF p.outcome = "failed" THEN passedOver
                     ELSE passedOver \cup (p.links \cap run[r].known)

\* A run goes on until its wave is completed or its pages are used up.  A request that
\* gets no answer fails, its page recorded or not.
Advance(r, p) ==
    \E last \in {TRUE, p.progress.completed} :
        /\ pc' = [pc EXCEPT ![r] = IF last THEN "returned" ELSE "collect"]
        /\ run' = [run EXCEPT ![r] =
              IF last THEN Receipt(r, p.progress)
              ELSE [@ EXCEPT !.base = rev + 1, !.number = p.progress.pages + 1,
                             !.at = p.progress.at, !.streak = p.progress.streak,
                             !.known = p.known]]

Publish(r, p) ==
    /\ pc[r] = "collect"
    /\ rev = run[r].base
    /\ Record(r, p)
    /\ Advance(r, p) \/ Rest(r)
    /\ UNCHANGED <<kind, mishaps>>

\* Only a page that brings sources brings media, which may fill the evidence.
Search(r) ==
    \E links \in SUBSET Sources, offset \in {0, run[r].at[2] + 1} :
    \E rejected \in SUBSET (links \ run[r].known), fills \in BOOLEAN :
        /\ offset <= MaxOffset
        /\ fills => ~full /\ ~(links \subseteq run[r].known \cup rejected)
        /\ Publish(r, SearchedPage(r, links, rejected, offset, fills))

Fail(r) ==
    \E links \in SUBSET Sources : \E admitted \in SUBSET links :
        Publish(r, FailedPage(r, links, admitted))

\* The revision is not the latest: the request fails, and its page is lost.
Conflict(r) ==
    /\ pc[r] = "collect"
    /\ rev # run[r].base
    /\ Rest(r)
    /\ UNCHANGED <<kind, evidence, mishaps, history>>

\* A request about an incident day plans again, unless its cycles or its time are over.
Continue(r) ==
    /\ pc[r] = "returned"
    /\ kind = "incident_day"
    /\ ~(coverage = "ready" /\ run[r].ended /\ run[r].converged)
    /\ ~run[r].stopped
    /\ run[r].wave < MaxWave
    /\ Plan(r)

Answer(r) ==
    /\ pc[r] \in {"returned", "refused"}
    /\ Rest(r)
    /\ UNCHANGED <<kind, evidence, mishaps, history>>

Mishap ==
    /\ mishaps < MaxMishaps
    /\ mishaps' = mishaps + 1

\* Another service writes to the same evidence, but adds no media of public sources.
OtherWrite ==
    /\ Mishap
    /\ rev' = rev + 1
    /\ coverage' \in CoveragesOf(kind)
    /\ UNCHANGED <<kind, progress, found, full, duplicates, runners, history>>

\* The process fails, with all its threads.
Crash ==
    /\ Mishap
    /\ pc' = [r \in Runners |-> "idle"]
    /\ run' = [r \in Runners |-> Resting]
    /\ UNCHANGED <<kind, evidence, history>>

Serve ==
    \E r \in Runners :
        \/ Request(r) \/ Refuse(r) \/ Return(r) \/ Open(r)
        \/ Search(r) \/ Fail(r) \/ Conflict(r)
        \/ Continue(r) \/ Answer(r)

Next == Serve \/ OtherWrite \/ Crash

Spec == Init /\ [][Next]_vars

\* Someone asks for the acquisition again and again, and some thread goes on.
FairSpec == Spec /\ WF_vars(Serve)

-----------------------------------------------------------------------------
(* Properties *)

Progresses ==
    [wave : 0..MaxWave, focus : Coverages, pages : 0..MaxSourcePages, at : Cursors,
     streak : 0..MaxSourcePages, completed : BOOLEAN, safety : BOOLEAN,
     converged : BOOLEAN]

\* Types, and with them the limit of a wave, that of its pages.
TypeOK ==
    /\ kind \in Kinds
    /\ rev \in Nat
    /\ progress \in Progresses
    /\ found \subseteq Sources
    /\ full \in BOOLEAN
    /\ coverage \in Coverages
    /\ pc \in [Runners -> {"idle", "planned", "refused", "collect", "returned"}]
    /\ run \in [Runners ->
          [wave : 1..MaxWave, focus : Coverages, planned : Nat, base : Nat,
           number : 1..(MaxSourcePages + 1), at : Cursors,
           streak : 0..MaxSourcePages, known : SUBSET Sources,
           ended : BOOLEAN, stopped : BOOLEAN,
           converged : BOOLEAN]]
    /\ mishaps \in 0..MaxMishaps
    /\ empties \in 0..MaxSourcePages
    /\ {duplicates, dropped, passedOver} \subseteq SUBSET Sources

\* The recorded pages of an acquisition form one sequence, whoever recorded them: a page
\* is the next one of its wave, from the cursor the page before it left or a later one,
\* or the first one of the next wave once the wave is completed (the worker's check of
\* the recorded plan, and the chain of revisions).
NextInWave ==
    /\ ~progress.completed
    /\ progress'.wave = progress.wave
    /\ progress'.focus = progress.focus
    /\ progress'.pages = progress.pages + 1
    /\ ~progress'.completed =>
          \/ progress'.at[1] > progress.at[1]
          \/ progress'.at[1] = progress.at[1] /\ progress'.at[2] >= progress.at[2]

NextWave ==
    /\ progress.wave = 0 \/ progress.completed
    /\ progress'.wave = progress.wave + 1
    /\ progress'.pages = 1

PagesInOrder == [][progress' # progress => NextInWave \/ NextWave]_vars

\* The requests of all runners together implement the acquisition of one searcher who
\* knows all that is recorded: each page goes on where the one before it stopped, brings
\* only what is new, and no query of a wave is passed over, whoever is interrupted
\* (SOURCE_ACQUISITION_METHOD.md:291, the durable cursor).
WaveStatus ==
    IF progress.wave = 0 THEN "none"
    ELSE IF ~progress.completed THEN "open"
    ELSE IF progress.converged THEN "converged" ELSE "completed"

Acquisition == INSTANCE AcquisitionLog WITH
    wave   <- progress.wave,
    focus  <- progress.focus,
    pages  <- progress.pages,
    at     <- progress.at,
    streak <- progress.streak,
    status <- WaveStatus

OneAcquisition == Acquisition!Spec

\* No source is brought by two pages, although two requests may have found it, or one
\* request and its repetition.
SourcesOnce == duplicates = {}

\* A wave converges on searches that answered and brought nothing: there were enough of
\* them since the last one that did, whichever requests recorded them, and no failure
\* counts for one.
ConvergenceIsEarned == progress.converged => empties >= ZeroYieldWaves

\* What a page leaves out as known is recorded, or was on a page whose failure the journal
\* has.  (All else that a search offers is recorded with the page or journaled with it.)
NothingSilentlyDropped == passedOver \subseteq found \cup dropped

\* The worker takes what the planner plans for an incident day, unless the evidence
\* changed in between.
PlanIsAccepted ==
    \A r \in Runners :
        pc[r] = "refused" /\ kind = "incident_day" => rev # run[r].planned

\* Again and again no wave is open: one that has begun is completed, as long as someone
\* asks for it.
WaveEnds == []<>(progress.wave # 0 => progress.completed)

\* Collection converges only when searches add nothing new: the pages of a wave that
\* converged left out as known only what is recorded.
ConvergedFoundNothing == progress.converged => passedOver \subseteq found

=============================================================================
