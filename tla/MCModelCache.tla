----------------------------- MODULE MCModelCache -----------------------------
EXTENDS ModelCache

CONSTANTS p1, p2, p3

\* Two configurations that share a model; the third pod has the first of them and must
\* not download.
MCExpected == [p \in {p1, p2, p3} |-> IF p = p2 THEN {2, 3} ELSE {1, 2}]
=============================================================================
