---------------------------- MODULE EventRecord -----------------------------
(***************************************************************************)
(* What the services that build the evidence of one event promise about    *)
(* the record: it grows as if each of them read all that is recorded,      *)
(* derived something from it and recorded that in a single step.           *)
(***************************************************************************)
EXTENDS Naturals, FiniteSets

CONSTANTS Photos, Frames, MaxMedia, Candidates

VARIABLES
    keyframes,     \* frames recorded
    observations,  \* media with a recorded detection
    proposed,      \* candidates the backend proposes
    assessed,      \* candidates with a recorded assessment
    located        \* whether hypotheses about the place are recorded

vars == <<keyframes, observations, proposed, assessed, located>>

Init ==
    /\ keyframes = {}
    /\ observations = {}
    /\ proposed \in SUBSET Candidates
    /\ assessed = {}
    /\ located = FALSE

\* Key frames are recorded in their order, whatever becomes of the requests.
AddKeyframe(f) ==
    /\ {e \in Frames : e < f} \subseteq keyframes
    /\ keyframes' = keyframes \cup {f}
    /\ UNCHANGED <<observations, proposed, assessed, located>>

\* The media that come first, up to the limit of a request.
Media == Photos \cup keyframes
Selected == {m \in Media : Cardinality({n \in Media : n < m}) < MaxMedia}

Observe(detected) ==
    /\ detected \subseteq Selected
    /\ observations' = observations \cup detected
    /\ UNCHANGED <<keyframes, proposed, assessed, located>>

\* Only what is proposed is assessed.
Assess(c) ==
    /\ c \in proposed
    /\ assessed' = assessed \cup {c}
    /\ UNCHANGED <<keyframes, observations, proposed, located>>

\* What is proposed is up to the backend, after the hypotheses and at any other time.
Propose ==
    /\ proposed' \in SUBSET Candidates
    /\ located' = TRUE \/ UNCHANGED located
    /\ UNCHANGED <<keyframes, observations, assessed>>

Next ==
    \/ \E f \in Frames : AddKeyframe(f)
    \/ \E detected \in SUBSET (Photos \cup Frames) : Observe(detected)
    \/ \E c \in Candidates : Assess(c)
    \/ Propose

Spec == Init /\ [][Next]_vars
=============================================================================
