--------------------------- MODULE MCGlobalConfig ---------------------------
(***************************************************************************)
(* Two processes, of which each can lose what the other saved; two nodes   *)
(* beside the built-in one, so that the default can pass on, and a default *)
(* and another setting.  At first there is no file, or one of before the   *)
(* built-in node was written down.  A third lock file and a third file of  *)
(* settings, for what is removed or renamed while it is open.  The files   *)
(* are interchangeable, and so are the processes.                          *)
(*                                                                         *)
(* Or the two use the lock of a project, which is another one: by itself,  *)
(* with whatever file a process that was killed has left.  One attempt: a  *)
(* second begins as the first did.                                         *)
(***************************************************************************)
EXTENDS GlobalConfig, TLC

CONSTANTS local, east, west, tag, engine, token

MCFound ==
  {[nodes |-> {east, west}, flagged |-> {east}, root |-> {token}, blocked |-> FALSE,
    block |-> {}],
   [nodes |-> {}, flagged |-> {}, root |-> {token}, blocked |-> TRUE,
    block |-> {tag, engine}]}

MCInit ==
  \/ ConfigInit
  \/ Init /\ kind = "ProjectLock" /\ SettingsInit /\ config = NoFile

MCNext ==
  \/ kind = "FileLock" /\ ConfigNext
  \/ kind = "ProjectLock" /\ Next /\ UNCHANGED <<fileVars, taskVars, history>>

MCSpec == MCInit /\ [][MCNext]_vars

Files == Permutations(Inode) \cup Permutations(File) \cup Permutations(Proc)
=============================================================================
