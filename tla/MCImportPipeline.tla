-------------------------- MODULE MCImportPipeline --------------------------
(***************************************************************************)
(* Two imports into one directory: the second meets whatever the first one *)
(* left, finished or not.                                                  *)
(***************************************************************************)
EXTENDS ImportPipeline
=============================================================================
