------------------------------- MODULE MCStack -------------------------------
(***************************************************************************)
(* Two projects and two commands at a time.  One project lies in a         *)
(* searched directory and uses every shared service; of the other only the *)
(* registry knows, and it is not served over TLS.                          *)
(***************************************************************************)
EXTENDS Stack, TLC

CONSTANTS p1, p2, a1, a2

MCActors == {a1, a2}
MCProjects == {p1, p2}
MCUses == (p1 :> {"search", "db", "proxy"}) @@ (p2 :> {"search", "db"})

\* Nothing tells one command's process from the other's.
MCSymmetry == Permutations(MCActors)
=============================================================================
