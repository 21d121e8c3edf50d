------------------------------ MODULE MCSharing ------------------------------
(***************************************************************************)
(* Two terminals and one project, shared under its name or another one.    *)
(***************************************************************************)
EXTENDS Sharing, TLC

Terminals == Permutations(Actors)
=============================================================================
