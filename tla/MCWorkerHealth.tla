--------------------------- MODULE MCWorkerHealth ---------------------------
(***************************************************************************)
(* Instances of WorkerHealth for TLC.  The window of 7 is one more than    *)
(* the longest gap of the policies, OpTimeout + backoff + 2 * Jitter = 6,  *)
(* and the clock leaves room for two units of work and a lapsed window.    *)
(***************************************************************************)
EXTENDS WorkerHealth

MCPolicies == {RetryPolicy(0, 1), RetryPolicy(1, 1), RetryPolicy(2, 2), RetryPolicy(3, 1)}
=============================================================================
