------------------------- MODULE MCSatelliteWorker --------------------------
(***************************************************************************)
(* Model checking SatelliteWorker.  Two calls of the service that meet, or *)
(* one that is repeated; two products, of which the first may block the    *)
(* second; an SDK that tries once or twice (five times in the code); two   *)
(* things may go wrong: a lost answer, and a crash or another lost answer  *)
(* on the way of whoever comes after.                                      *)
(***************************************************************************)
EXTENDS SatelliteWorker
=============================================================================
