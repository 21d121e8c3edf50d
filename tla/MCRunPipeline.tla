--------------------------- MODULE MCRunPipeline ---------------------------
(***************************************************************************)
(* Two releases tell an upgrade from a downgrade, and what was verified    *)
(* from what was refuted, the older of them from before the quarterly      *)
(* releases; two commands are enough for one to leave                      *)
(* something half-done and the other to meet it, and each starts from      *)
(* every kind of machine Init describes.                                   *)
(***************************************************************************)
EXTENDS RunPipeline

\* No claim, and one with a ceiling: the older release works, the newer fails.
MCClaims == {NoClaim, [verified |-> {1}, refuted |-> {2}]}
=============================================================================
