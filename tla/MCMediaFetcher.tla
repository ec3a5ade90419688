---------------------------- MODULE MCMediaFetcher ----------------------------
EXTENDS MediaFetcher

CONSTANTS u1, u2, u3, small, large, other, huge

\* Not all that may be held fits into the cache (MaxCache = 3), and one content is too large to
\* be downloaded (MaxBytes = 2).
MCSize == [c \in Contents |-> IF c = small THEN 1 ELSE IF c = huge THEN 4 ELSE 2]
=============================================================================
