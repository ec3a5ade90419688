----------------------------- MODULE Consensus ------------------------------
(***************************************************************************)
(* Which candidate's answer a stage uses (consensus.py, ModelGroupSpec in  *)
(* model_registry.py).                                                     *)
(*                                                                         *)
(* The candidates of a group are 1..size in the order of their ranks.      *)
(* How alike two answers are is Score, a number in an unknown unit: the    *)
(* code compares texts, boxes and facts, and not symmetrically             *)
(* (SequenceMatcher).  All candidates are compared with equally many       *)
(* others, so sums of scores stand for the means of the code.              *)
(***************************************************************************)
EXTENDS Naturals, FiniteSets, FiniteSetsExt

CONSTANT Score  \* how alike the second answer of a pair is to the first

Strategies == {"single_with_rules", "cascade", "quorum"}
Refusals   == {"abstain", "human_review"}
Releases   == {"pass", "repair", "adjudicated"}

\* A group that is not in the registry has no candidate.
Groups == [size : Nat, strategy : Strategies, minimumSuccessful : Nat,
           minimumAgreeing : Nat, threshold : Nat, onDisagreement : Refusals,
           alwaysChallenge : BOOLEAN, judge : BOOLEAN]

ValidGroup(g) ==
    /\ g \in Groups
    /\ g.size > 0 =>
        /\ g.minimumSuccessful \in 1..g.size
        /\ g.minimumAgreeing \in 1..g.size
        /\ g.strategy = "single_with_rules" => g.size = 1
        /\ g.strategy = "quorum" => g.size > 1 /\ g.judge
        /\ g.minimumAgreeing > 1 => g.judge

\* No candidate is 0.
Withheld(g) == [decision |-> g.onDisagreement, selected |-> 0, disputed |-> FALSE]
Disputed(g) == [decision |-> g.onDisagreement, selected |-> 0, disputed |-> TRUE]
Released(c, repaired) ==
    [decision |-> IF repaired THEN "repair" ELSE "pass", selected |-> c, disputed |-> FALSE]

\* out[c] is the answer of candidate c, Nothing if it failed; among is the set
\* of candidates that count.
Agreeing(g, out, among, c) ==
    {d \in among : d = c \/ Score[<<out[c], out[d]>>] >= g.threshold}

\* The scores of c with the others, each pair compared in the order of the ranks.
TotalScore(out, among, c) ==
    MapThenSumSet(LAMBDA d : IF d < c THEN Score[<<out[d], out[c]>>]
                                      ELSE Score[<<out[c], out[d]>>],
                  among \ {c})

Better(out, among, c, d) ==
    \/ TotalScore(out, among, c) > TotalScore(out, among, d)
    \/ TotalScore(out, among, c) = TotalScore(out, among, d) /\ c < d

-----------------------------------------------------------------------------
(* evaluate_consensus: e is the evaluation of a group whose candidates in ok *)
(* succeeded, those in repaired at the second attempt, and those in weak     *)
(* with an answer that calls for a challenger.                               *)

Insufficient(g, ok) == Cardinality(ok) < g.minimumSuccessful

\* Whether enough others agree with the preferred candidate c.
Settle(g, out, among, c, repaired) ==
    IF Cardinality(Agreeing(g, out, among, c)) < g.minimumAgreeing
    THEN Disputed(g)
    ELSE Released(c, c \in repaired)

EvaluatesCascade(g, out, ok, weak, repaired, e) ==
    /\ g.strategy = "cascade"
    /\ ~ Insufficient(g, ok)
    /\ \/ ok \ weak = {} /\ e = Withheld(g)
       \/ \E c \in ok \ weak :
            /\ \A d \in ok \ weak : c <= d
            /\ e = Settle(g, out, ok \ weak, c, repaired)

\* One that stands alone is not compared: a quorum of one success agrees.
EvaluatesSingle(g, ok, repaired, e) ==
    /\ g.strategy # "cascade"
    /\ ~ Insufficient(g, ok)
    /\ g.strategy = "single_with_rules" \/ Cardinality(ok) = 1
    /\ \E c \in ok : (\A d \in ok : c <= d) /\ e = Released(c, c \in repaired)

EvaluatesQuorum(g, out, ok, repaired, e) ==
    /\ g.strategy = "quorum"
    /\ ~ Insufficient(g, ok)
    /\ Cardinality(ok) > 1
    /\ \E c \in ok :
        /\ \A d \in ok \ {c} : Better(out, ok, c, d)
        /\ e = Settle(g, out, ok, c, repaired)

Evaluates(g, out, ok, weak, repaired, e) ==
    \/ Insufficient(g, ok) /\ e = Withheld(g)
    \/ EvaluatesCascade(g, out, ok, weak, repaired, e)
    \/ EvaluatesSingle(g, ok, repaired, e)
    \/ EvaluatesQuorum(g, out, ok, repaired, e)

\* (mutant) the confidence of the judge is not compared with the threshold
AdjudicatesAnyway(g, ok, verdict, confident) ==
    IF verdict \in ok
    THEN [decision |-> "adjudicated", selected |-> verdict, disputed |-> FALSE]
    ELSE Withheld(g)

\* apply_adjudication
Adjudicated(g, ok, verdict, confident) ==
    IF verdict \in ok /\ confident
    THEN [decision |-> "adjudicated", selected |-> verdict, disputed |-> FALSE]
    ELSE Withheld(g)

Evaluations(n) == [decision : Refusals \cup Releases, selected : 0..n, disputed : BOOLEAN]
=============================================================================
