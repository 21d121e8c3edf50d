---------------------------- MODULE MCPipeline ----------------------------
(***************************************************************************)
(* Four stages reach every case: a failure in the first, in a middle and   *)
(* in the last stage, and a rollback walk with stages on both sides of the *)
(* one that fails.  Codes 1 and 3 stand for two different refusals, 5 is   *)
(* the idempotent no-op.                                                   *)
(***************************************************************************)
EXTENDS Pipeline
=============================================================================
