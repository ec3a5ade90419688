--------------------------- MODULE MCPointEvidence ----------------------------
EXTENDS PointEvidence

CONSTANTS k, k2, v, g, s

\* Two threads of key frames, and one of each other service.
MCServiceOf ==
    [t \in {k, k2, v, g, s} |->
        CASE t \in {k, k2} -> "keyframes"
          [] t = v         -> "vision"
          [] t = g         -> "geography"
          [] t = s         -> "supervision"]
=============================================================================
