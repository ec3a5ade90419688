----------------------------- MODULE MCPodQueue -----------------------------
(***************************************************************************)
(* Model checking PodQueue.  Two jobs are enough for one to be cancelled,  *)
(* overtaken or failed while the other waits; two request threads are the  *)
(* fewest whose requests overlap, and a request may follow another one.    *)
(* No symmetry: a liveness property is checked.                            *)
(***************************************************************************)
EXTENDS PodQueue
=============================================================================
