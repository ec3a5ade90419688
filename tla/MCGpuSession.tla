---------------------------- MODULE MCGpuSession ----------------------------
(***************************************************************************)
(* Model checking GpuSession.  A tick is 60 seconds, so the defaults are   *)
(* ConfigureLimit = RevokeLimit = 2 (120 s, research_rpc.py:51),           *)
(* ModelTimeout = 14 (840 s) and ServiceTimeout = 15 (900 s).              *)
(***************************************************************************)
EXTENDS GpuSession
=============================================================================
