----------------------------- MODULE MCMonitor ------------------------------
(***************************************************************************)
(* One module and one client extension, a service of its own, each in its  *)
(* own branch: the two ways of copying, and batches that are mirrored to   *)
(* the node and that are not.  Two builds, two timers and `ldm deploy`:    *)
(* enough for a thread that is working, one that has fired while it was    *)
(* being cancelled, and the command in the middle of either.               *)
(***************************************************************************)
EXTENDS Monitor, TLC

CONSTANTS jar, zip

MCTargets == <<"client-extensions", "modules">>
MCTargetOf == jar :> "modules" @@ zip :> "client-extensions"
=============================================================================
