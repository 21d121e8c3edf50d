---------------------------- MODULE MCSnapshots ----------------------------
(***************************************************************************)
(* One document, two snapshot directories: what an earlier snapshot left   *)
(* on the host can get into a later one or into the project.               *)
(***************************************************************************)
EXTENDS Snapshots, TLC

Symmetry == Permutations(Names)
=============================================================================
