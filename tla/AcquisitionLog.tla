--------------------------- MODULE AcquisitionLog ---------------------------
(***************************************************************************)
(* What the acquisition of public sources promises about the evidence,     *)
(* whoever searches: the recorded pages are those of one searcher that     *)
(* knows all that is recorded, and searches the queries of one wave after  *)
(* another.  No query of a wave is passed over, a wave ends when its       *)
(* queries are searched, its pages used up or the media as many as there   *)
(* may be, and it converges only on searches that answered and brought     *)
(* nothing.                                                                *)
(***************************************************************************)
EXTENDS Naturals

CONSTANTS Sources, Gaps, Queries, MaxSourcePages, MaxWave, ZeroYieldWaves

VARIABLES
    kind,      \* what the evidence is about
    coverage,  \* what it lacks, "ready" if nothing
    found,     \* sources recorded
    full,      \* whether their media have reached the limit
    wave,      \* number of the wave, 0 before the first
    focus,     \* what the wave goes after
    pages,     \* pages of the wave so far
    at,        \* query and page of it where the wave goes on
    streak,    \* searches of the wave that brought nothing, one after another
    status     \* of the wave: "none", "open", "completed", "converged"

vars == <<kind, coverage, found, full, wave, focus, pages, at, streak, status>>

Start == <<0, 0>>
CoveragesOf(k) == IF k = "incident_day" THEN Gaps \cup {"ready"} ELSE {"ready"}

Init ==
    /\ kind \in {"incident_day", "event_candidate"}
    /\ coverage \in CoveragesOf(kind)
    /\ found = {}
    /\ full = FALSE
    /\ wave = 0 /\ focus = "ready" /\ pages = 0 /\ at = Start /\ streak = 0
    /\ status = "none"

-----------------------------------------------------------------------------
(* A page, from a place of the wave and a streak *)

NextQuery(place) == <<place[1] + 1, 0>>
NextResults(place) == <<place[1], place[2] + 1>>

\* A search that answered brings sources that are not recorded, or counts as empty.
Answered(empty) ==
    \E new \in SUBSET (Sources \ found) :
        /\ found' = found \cup new
        /\ full' \in IF new = {} THEN {full} ELSE {full, TRUE}
        /\ streak' = IF new = {} THEN empty + 1 ELSE 0

\* One that failed brings nothing and counts for nothing.
Failed(empty) ==
    /\ UNCHANGED <<found, full>>
    /\ streak' = empty

LimitReached == full' \/ pages' = MaxSourcePages

GoOnAt(places) ==
    /\ ~LimitReached
    /\ at' \in places
    /\ at'[1] < Queries
    /\ status' = "open"

End(place) ==
    /\ LimitReached \/ place[1] + 1 = Queries
    /\ at' = Start
    /\ status' = IF ~LimitReached /\ streak' >= ZeroYieldWaves
                 THEN "converged" ELSE "completed"

\* A failed search is repeated, or its query given up.
PageFrom(place, empty) ==
    /\ \/ Answered(empty) /\ (GoOnAt({NextResults(place), NextQuery(place)}) \/ End(place))
       \/ Failed(empty) /\ (GoOnAt({place, NextQuery(place)}) \/ End(place))
    /\ coverage' \in CoveragesOf(kind)
    /\ UNCHANGED kind

-----------------------------------------------------------------------------

NextPage ==
    /\ status = "open"
    /\ pages' = pages + 1
    /\ UNCHANGED <<wave, focus>>
    /\ PageFrom(at, streak)

\* Only an incident day has more than one wave, and only while it is not converged or
\* still lacks something.
MayBegin ==
    \/ wave = 0
    \/ /\ kind = "incident_day"
       /\ \/ status = "completed"
          \/ status = "converged" /\ coverage # "ready"

FirstPage ==
    /\ MayBegin
    /\ wave < MaxWave
    /\ wave' = wave + 1
    /\ focus' \in IF wave = 0 THEN {"ready"} ELSE CoveragesOf(kind)
    /\ pages' = 1
    /\ PageFrom(Start, 0)

\* Others change what the evidence lacks.
Reassess ==
    /\ coverage' \in CoveragesOf(kind)
    /\ UNCHANGED <<kind, found, full, wave, focus, pages, at, streak, status>>

Next == FirstPage \/ NextPage \/ Reassess

Spec == Init /\ [][Next]_vars
=============================================================================
