---------------------------- MODULE MCNodePower -----------------------------
(***************************************************************************)
(* One machine of the workflow and one laptop; a node with an instance and *)
(* one without.  The clock runs from Friday 17:00, two hours before every  *)
(* window opens, so that a deadline of one or two hours ends before the    *)
(* window, at its start or inside it.                                      *)
(***************************************************************************)
EXTENDS NodePower, TLC

CONSTANTS ci, laptop, cloud, rack

MCSchedule == cloud :> "auto" @@ rack :> "overnight"
=============================================================================
