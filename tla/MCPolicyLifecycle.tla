-------------------------- MODULE MCPolicyLifecycle --------------------------
(***************************************************************************)
(* A context with a few objects, and threads that free them concurrently.  *)
(***************************************************************************)
EXTENDS PolicyLifecycle
=============================================================================
