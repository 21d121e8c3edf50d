---------------------------- MODULE GlobalConfig ----------------------------
(***************************************************************************)
(* The settings every `ldm` process of a user shares, ~/.ldmrc: target     *)
(* nodes, defaults, tokens.  A command loads the whole file under a shared *)
(* lock when it starts and again when it is about to change something, and *)
(* saves the whole file under an exclusive lock -- three acquisitions,     *)
(* with nothing held between them.  `ldm config` reads the second time,    *)
(* and writes, without the lock.  Every save writes ~/.ldmrc.tmp, which    *)
(* the processes share too, and renames it.                                *)
(*                                                                         *)
(* The lock is the one of module FileLock, which this one extends, on      *)
(* ~/.ldmrc.lock; the specification here is ConfigSpec.  `disk` holds      *)
(* the files that are or were at one of the two paths; a file that was     *)
(* renamed or replaced is still the one its writer has open.  A file that  *)
(* nobody can read any more counts as empty.                               *)
(***************************************************************************)
EXTENDS FileLock

CONSTANTS
  File,         \* files that ~/.ldmrc and ~/.ldmrc.tmp may name
  Node, Local,  \* target nodes; the built-in one
  Key,          \* settings at the root of the file or in its `defaults` block
  Convention,   \* those with a conventional default
  Torn,         \* the contents of a file that is not written completely
  Found,        \* contents the file may have at first
  Commands      \* bound: commands that are begun

Settings == [nodes : SUBSET Node, flagged : SUBSET Node, root : SUBSET Key,
             blocked : BOOLEAN, block : SUBSET Key]
Empty == [nodes |-> {}, flagged |-> {}, root |-> {}, blocked |-> FALSE, block |-> {}]

\* At most one default node, and one of the nodes.
Sound(c) ==
  /\ c.flagged \subseteq c.nodes
  /\ \A m, n \in c.flagged : m = n

ASSUME FoundAssumption == \A c \in Found : c \in Settings /\ Sound(c)
ASSUME NamesAssumption == Local \in Node /\ Convention \subseteq Key /\ Key # {}
ASSUME FilesAssumption == NoFile \notin File /\ Torn \notin Settings
ASSUME BothModesAssumption == Modes = {"EX", "SH"}
ASSUME CommandsAssumption == Commands \in Nat

VARIABLES
  disk,         \* the contents of each file
  config, temp, \* the files at ~/.ldmrc and ~/.ldmrc.tmp, or NoFile
  task,         \* where each process is
  io,           \* how far it is with what it does while it holds the lock
  edit,         \* what it changes
  first, second,\* what its two loads returned
  out,          \* the file it has open for writing
  stale,        \* history: ~/.ldmrc has been replaced since the first load, or
                \* a load returned something else
  mixed,        \* history: `ldm config` wrote while another command did
  begun

fileVars == <<disk, config, temp>>
taskVars == <<task, io, edit, first, second, out, stale>>
history == <<mixed, begun>>
vars == <<lockVars, fileVars, taskVars, history>>

Edit == [op : {"none", "add", "use", "rm", "default", "undefault", "reset", "set",
               "unset"},
         node : Node, flag : {"yes", "kept"}, key : Key]
NoEdit == [op |-> "none", node |-> Local, flag |-> "kept", key |-> CHOOSE k \in Key : TRUE]

Writing(p) == task[p] \in {"saving", "overwriting"} /\ io[p] # "done"

ConfigTypeOK ==
  /\ TypeOK
  /\ disk \in [File -> Settings \cup {Torn}]
  /\ {config, temp} \subseteq File \cup {NoFile}
  /\ task \in [Proc -> {"none", "starting", "started", "loading", "loaded",
                       "read", "saving", "overwriting"}]
  /\ io \in [Proc -> {"todo", "opened", "written", "done"}]
  /\ edit \in [Proc -> Edit]
  /\ first \in [Proc -> Settings] /\ second \in [Proc -> Settings]
  /\ out \in [Proc -> File \cup {NoFile}]
  /\ \A p \in Proc : io[p] \in {"opened", "written"} => out[p] # NoFile /\ Writing(p)
  /\ stale \in [Proc -> BOOLEAN]
  /\ mixed \in BOOLEAN
  /\ begun \in 0..Commands

SettingsInit ==
  /\ config \in File \cup {NoFile}
  /\ temp = NoFile
  /\ disk \in [File -> Found \cup {Empty}]
  /\ \A i \in File : i # config => disk[i] = Empty
  /\ task = [p \in Proc |-> "none"]
  /\ io = [p \in Proc |-> "todo"]
  /\ edit = [p \in Proc |-> NoEdit]
  /\ first = [p \in Proc |-> Empty] /\ second = [p \in Proc |-> Empty]
  /\ out = [p \in Proc |-> NoFile]
  /\ stale = [p \in Proc |-> FALSE]
  /\ mixed = FALSE
  /\ begun = 0

ConfigInit == Init /\ kind = "FileLock" /\ path = NoFile /\ SettingsInit

-----------------------------------------------------------------------------
(* What a command makes of what it loaded.                                 *)

\* load_targets(): the built-in node is always one of them, and the default
\* when no other is.
LoadTargets(c) ==
  [nodes |-> c.nodes \cup {Local},
   flagged |-> IF c.flagged = {} THEN {Local} ELSE c.flagged]

\* Mutant: the nodes that were there are not taken over.
TargetSavedAlone(c, again, n, default) ==
  [c EXCEPT !.nodes = {Local, n}, !.flagged = IF default THEN {n} ELSE {Local}]

\* save_target_node(): all nodes as they were loaded last, with this one.
TargetSaved(c, again, n, default) ==
  LET t == LoadTargets(again)
  IN  [c EXCEPT !.nodes = t.nodes \cup {n},
                !.flagged = IF default THEN {n} ELSE t.flagged \ {n}]

\* delete_target_node(): another node becomes the default in its place.
TargetDeleted(c, n) ==
  LET nodes == c.nodes \ {n}
      heir == IF Local \in nodes THEN {Local}
              ELSE IF nodes # {} THEN {CHOOSE m \in nodes : TRUE} ELSE {}
  IN  [c EXCEPT !.nodes = nodes,
                !.flagged = (c.flagged \ {n})
                              \cup (IF n \in c.flagged THEN heir ELSE {})]

\* Mutant: the others keep their flag.
DefaultTargetToo(c, n) ==
  [c EXCEPT !.nodes = c.nodes \cup {n}, !.flagged = c.flagged \cup {n}]

\* set_default_target()
DefaultTarget(c, n) == [c EXCEPT !.nodes = c.nodes \cup {n}, !.flagged = {n}]

\* DefaultsManager: without a block of its own all the file is taken for one.
UserDefaults(c) == IF c.blocked THEN c.block ELSE c.root

\* DefaultsManager._save(): the defaults as they were at the start, the rest as
\* it is now.
DefaultSaved(now, keys) == [now EXCEPT !.blocked = TRUE, !.block = keys]

\* What `ldm config` accepts: no target, nothing that a defaults block decides.
Plain(c, k) == k \notin Convention \cup UserDefaults(c)

Edited(e, a, b) ==
  CASE e.op = "add" -> TargetSaved(a, b, e.node, e.flag = "yes" \/ e.node \in a.flagged)
    [] e.op = "use" -> DefaultTarget(b, e.node)
    [] e.op = "rm" -> TargetDeleted(b, e.node)
    [] e.op = "default" -> DefaultSaved(b, UserDefaults(a) \cup {e.key})
    [] e.op \in {"undefault", "reset"} -> DefaultSaved(b, UserDefaults(a) \ {e.key})
    [] e.op = "set" -> [b EXCEPT !.root = b.root \cup {e.key}]
    [] e.op = "unset" -> [b EXCEPT !.root = b.root \ {e.key}]

-----------------------------------------------------------------------------
(* The lock                                                                *)

LockStep(p) ==
  /\ Open(p) \/ CannotOpen(p) \/ Lock(p) \/ FailAttempt(p) \/ AbandonStamp(p)
  /\ UNCHANGED <<fileVars, taskVars, history>>

\* Once the work under the lock is done.
UnlockStep(p) ==
  /\ io[p] = "done"
  /\ Unlock(p) \/ Close(p)
  /\ UNCHANGED <<fileVars, taskVars, history>>

\* The command is over; what it had in memory is gone.
Forget(p) ==
  /\ task' = [task EXCEPT ![p] = "none"]
  /\ io' = [io EXCEPT ![p] = "todo"]
  /\ edit' = [edit EXCEPT ![p] = NoEdit]
  /\ first' = [first EXCEPT ![p] = Empty]
  /\ second' = [second EXCEPT ![p] = Empty]
  /\ out' = [out EXCEPT ![p] = NoFile]
  /\ stale' = [stale EXCEPT ![p] = FALSE]

Loading(p) == task[p] \in {"starting", "loading"}

Loaded(p, refused) ==
  /\ task' = [task EXCEPT ![p] = IF task[p] = "starting" THEN "started" ELSE "loaded"]
  /\ io' = [io EXCEPT ![p] = "todo"]
  /\ stale' = [stale EXCEPT ![p] = stale[p] \/ refused]
  /\ UNCHANGED <<edit, first, second, out>>

\* _reset_all_defaults(): one save for each default, from what the process has
\* in memory, whatever became of the last one.
ToReset(p) ==
  IF edit[p].op = "reset" THEN (UserDefaults(first[p]) \cap Convention) \ {edit[p].key} ELSE {}

ResetNext(p) ==
  /\ task' = [task EXCEPT ![p] = "started"]
  /\ io' = [io EXCEPT ![p] = "todo"]
  /\ first' = [first EXCEPT ![p] =
                 [@ EXCEPT !.blocked = TRUE,
                           !.block = UserDefaults(first[p]) \ {edit[p].key}]]
  /\ out' = [out EXCEPT ![p] = NoFile]
  /\ UNCHANGED <<edit, second, stale>>

Saved(p) == IF ToReset(p) # {} THEN ResetNext(p) ELSE Forget(p)

RemoveLock(p) ==
  /\ Remove(p)
  /\ IF Loading(p) THEN Loaded(p, FALSE) ELSE Saved(p)
  /\ UNCHANGED <<fileVars, history>>

-----------------------------------------------------------------------------
(* load_global_config_safe                                                 *)

\* config_path.exists() comes before the lock.
Load(p, asking, answered) ==
  /\ pc[p] = "idle"
  /\ \/ /\ config = NoFile
        /\ task' = [task EXCEPT ![p] = answered]
        /\ UNCHANGED lockVars
     \/ /\ config # NoFile
        /\ task' = [task EXCEPT ![p] = asking]
        /\ Begin(p, "SH")
  /\ UNCHANGED <<fileVars, io, edit, first, second, out, stale, mixed>>

\* DefaultsManager() loads when a process starts.
StartCommand(p) ==
  /\ task[p] = "none"
  /\ begun < Commands /\ begun' = begun + 1
  /\ Load(p, "starting", "started")

LoadAgain(p) ==
  /\ task[p] = "started"
  /\ Load(p, "loading", "loaded")
  /\ UNCHANGED begun

\* Whatever cannot be parsed, an empty file too, is an empty dict.
Content(i) == IF disk[i] = Torn THEN Empty ELSE disk[i]

Read(p) ==
  /\ Loading(p) /\ pc[p] = "held" /\ io[p] = "todo"
  /\ IF task[p] = "starting"
     THEN first' = [first EXCEPT ![p] = Content(config)] /\ UNCHANGED second
     ELSE second' = [second EXCEPT ![p] = Content(config)] /\ UNCHANGED first
  /\ stale' = [stale EXCEPT ![p] = stale[p] \/ disk[config] = Torn]
  /\ io' = [io EXCEPT ![p] = "done"]
  /\ UNCHANGED <<lockVars, fileVars, task, edit, out, history>>

\* The load could not get the lock, for whatever reason: a warning, and an empty dict.
LoadNothing(p) ==
  /\ Loading(p)
  /\ Leave(p)
  /\ Loaded(p, TRUE)
  /\ UNCHANGED <<fileVars, history>>

\* cmd_config() reads the file as it is.
ReadUnlocked(p) ==
  /\ task[p] = "started" /\ pc[p] = "idle" /\ edit[p] = NoEdit
  /\ second' = [second EXCEPT ![p] = IF config = NoFile THEN Empty ELSE Content(config)]
  /\ stale' = [stale EXCEPT ![p] = stale[p] \/ (config # NoFile /\ disk[config] = Torn)]
  /\ task' = [task EXCEPT ![p] = "read"]
  /\ UNCHANGED <<lockVars, fileVars, io, edit, first, out, history>>

-----------------------------------------------------------------------------
(* The commands.                                                           *)

Mixes(p, to) ==
  \E q \in Proc \ {p} : Writing(q) /\ "overwriting" \in {task[q], to}

Save(p, e) ==
  /\ task[p] = "loaded" /\ pc[p] = "idle"
  /\ edit[p] # NoEdit => e.op = "reset"
  /\ task' = [task EXCEPT ![p] = "saving"]
  /\ edit' = [edit EXCEPT ![p] = e]
  /\ mixed' = (mixed \/ Mixes(p, "saving"))
  /\ Begin(p, "EX")
  /\ UNCHANGED <<fileVars, io, first, second, out, stale, begun>>

\* cmd_target_add(): what the command line leaves out is as it was.
AddTarget(p, n, flag) ==
  Save(p, [NoEdit EXCEPT !.op = "add", !.node = n, !.flag = flag])

UseTarget(p, n) ==
  /\ n \in LoadTargets(first[p]).nodes
  /\ Save(p, [NoEdit EXCEPT !.op = "use", !.node = n])

RemoveTarget(p, n) ==
  /\ n # Local /\ n \in second[p].nodes
  /\ Save(p, [NoEdit EXCEPT !.op = "rm", !.node = n])

SetDefault(p, k) == Save(p, [NoEdit EXCEPT !.op = "default", !.key = k])

UnsetDefault(p, k) ==
  /\ k \in UserDefaults(first[p])
  /\ Save(p, [NoEdit EXCEPT !.op = "undefault", !.key = k])

\* The next of those that are customised.
ResetDefault(p, k) ==
  /\ k \in UserDefaults(first[p])
  /\ edit[p].op \in {"none", "reset"}
  /\ Save(p, [NoEdit EXCEPT !.op = "reset", !.key = k])

\* cmd_config(), which takes no lock to write either.
Configure(p, op, k) ==
  /\ task[p] = "read"
  /\ op = "set" => Plain(first[p], k)
  /\ task' = [task EXCEPT ![p] = "overwriting"]
  /\ edit' = [edit EXCEPT ![p] = [NoEdit EXCEPT !.op = op, !.key = k]]
  /\ mixed' = (mixed \/ Mixes(p, "overwriting"))
  /\ UNCHANGED <<lockVars, fileVars, io, first, second, out, stale, begun>>

\* There is nothing to change, it must not be, or the user only asked.
End(p) ==
  /\ pc[p] = "idle"
  /\ \/ task[p] \in {"started", "loaded", "read"} /\ edit[p] = NoEdit
     \/ task[p] = "overwriting" /\ io[p] = "done"
  /\ Forget(p)
  /\ UNCHANGED <<lockVars, fileVars, history>>

-----------------------------------------------------------------------------
(* save_global_config_safe                                                 *)

\* The save could not get the lock: it returns False, its callers go on.
SaveNothing(p) ==
  /\ task[p] = "saving"
  /\ Leave(p)
  /\ Saved(p)
  /\ UNCHANGED <<fileVars, history>>

Allowed(p) == task[p] = "overwriting" \/ (task[p] = "saving" /\ pc[p] = "held")

Unused(i) == i \notin {config, temp} /\ \A q \in Proc : out[q] # i

\* os.open(O_WRONLY | O_CREAT | O_TRUNC)
OpenTemp(p) ==
  /\ Allowed(p) /\ io[p] = "todo"
  /\ \E i \in File :
       /\ IF temp = NoFile THEN Unused(i) ELSE i = temp
       /\ temp' = i
       /\ out' = [out EXCEPT ![p] = i]
       /\ disk' = [disk EXCEPT ![i] = Torn]
  /\ io' = [io EXCEPT ![p] = "opened"]
  /\ UNCHANGED <<lockVars, config, task, edit, first, second, stale, history>>

Text(p) == Edited(edit[p], first[p], second[p])

\* Over what another process wrote to the same file the text may be torn.
Write(p) ==
  /\ io[p] = "opened"
  /\ \E c \in {Text(p), Torn} :
       /\ c = Text(p) \/ disk[out[p]] \notin {Torn, Text(p)}
       /\ disk' = [disk EXCEPT ![out[p]] = c]
  /\ io' = [io EXCEPT ![p] = "written"]
  /\ UNCHANGED <<lockVars, config, temp, task, edit, first, second, out, stale, history>>

Replace(p) ==
  /\ io[p] = "written"
  /\ temp # NoFile
  /\ config' = temp /\ temp' = NoFile
  /\ disk' = [i \in File |-> IF i = config THEN Empty ELSE disk[i]]
  /\ out' = [out EXCEPT ![p] = NoFile]
  /\ stale' = [q \in Proc |-> stale[q] \/ (q # p /\ task[q] # "none")]
  /\ io' = [io EXCEPT ![p] = "done"]
  /\ UNCHANGED <<lockVars, task, edit, first, second, history>>

\* Another process has renamed the file already: False.
ReplaceNothing(p) ==
  /\ io[p] = "written"
  /\ temp = NoFile
  /\ out' = [out EXCEPT ![p] = NoFile]
  /\ io' = [io EXCEPT ![p] = "done"]
  /\ UNCHANGED <<lockVars, fileVars, task, edit, first, second, stale, history>>

-----------------------------------------------------------------------------

\* kill -9, at any point.
Kill(p) ==
  /\ \/ Die(p)
     \/ /\ task[p] \in {"started", "loaded", "read", "overwriting"} /\ pc[p] = "idle"
        /\ UNCHANGED lockVars
  /\ Forget(p)
  /\ UNCHANGED <<fileVars, history>>

Command(p) ==
  \/ \E n \in Node :
       \/ \E flag \in {"yes", "kept"} : AddTarget(p, n, flag)
       \/ UseTarget(p, n) \/ RemoveTarget(p, n)
  \/ \E k \in Convention : SetDefault(p, k) \/ UnsetDefault(p, k) \/ ResetDefault(p, k)
  \/ \E k \in Key \ Convention, op \in {"set", "unset"} : Configure(p, op, k)

ConfigNext ==
  \E p \in Proc :
    \/ StartCommand(p) \/ LoadAgain(p) \/ Command(p) \/ End(p)
    \/ LockStep(p) \/ UnlockStep(p) \/ RemoveLock(p)
    \/ Read(p) \/ LoadNothing(p) \/ ReadUnlocked(p)
    \/ SaveNothing(p)
    \/ OpenTemp(p) \/ Write(p) \/ Replace(p) \/ ReplaceNothing(p)
    \/ Kill(p)

ConfigSpec == ConfigInit /\ [][ConfigNext]_vars

-----------------------------------------------------------------------------
(* Properties                                                              *)

Present == IF config = NoFile THEN Empty ELSE disk[config]

\* "Saves global JSON config file securely and atomically with exclusive
\* locking": where the lock excludes, at no time and after no crash is
\* ~/.ldmrc half written, unless `ldm config` wrote beside another command.
\* What is written there never has two default nodes, or one that is none of
\* the nodes, however the loads and saves of the commands were interleaved.
SettingsAreSound ==
  /\ platform = "nt" /\ ~mixed => Present # Torn
  /\ Present # Torn => Sound(Present)

\* What a change makes of file c: what its command is about is changed, and the
\* rest is kept.
KeepsTheRest(e, c, d) ==
  /\ e.op \in {"add", "use", "rm"} =>
       /\ d.root = c.root /\ UserDefaults(d) = UserDefaults(c)
       /\ d.nodes \ {e.node, Local} = c.nodes \ {e.node, Local}
       /\ e.node \in d.nodes <=> e.op # "rm"
  /\ e.op = "reset" =>
       /\ d.nodes = c.nodes /\ d.flagged = c.flagged /\ d.root = c.root
       /\ UserDefaults(d) \ Convention = UserDefaults(c) \ Convention
       /\ e.key \notin UserDefaults(d)
  /\ e.op \in {"default", "undefault"} =>
       /\ d.nodes = c.nodes /\ d.flagged = c.flagged /\ d.root = c.root
       /\ UserDefaults(d) \ {e.key} = UserDefaults(c) \ {e.key}
       /\ e.key \in UserDefaults(d) <=> e.op = "default"
  /\ e.op \in {"set", "unset"} =>
       /\ d.nodes = c.nodes /\ d.flagged = c.flagged
       /\ d.blocked = c.blocked /\ d.block = c.block
       /\ d.root \ {e.key} = c.root \ {e.key}
       /\ e.key \in d.root <=> e.op = "set"

\* Under the same conditions a save whose loads saw the file as it still is
\* changes what its command is about and keeps the rest: the nodes, the
\* defaults and the other settings are in one file, saved whole.  A reset goes
\* on after a save of it has failed, and then makes up for that.
QuietSaveKeepsTheRest ==
  [][\A p \in Proc :
       /\ platform = "nt" /\ ~mixed
       /\ io[p] = "written" /\ config' # config /\ io'[p] = "done"
       /\ ~stale[p]
       => KeepsTheRest(edit[p], Present, Present')]_vars
=============================================================================
