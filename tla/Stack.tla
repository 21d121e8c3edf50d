-------------------------------- MODULE Stack --------------------------------
(***************************************************************************)
(* Several projects on one Docker engine: their containers, volumes and    *)
(* databases, the search, database and proxy containers they share         *)
(* (handlers/infra.py), and the commands that start, stop and delete them  *)
(* (runtime/orchestration.py).  A project's lock orders most commands on   *)
(* one project; nothing orders commands on two projects, nor the commands  *)
(* with --all.  A command may fail or be killed at any step.  A project    *)
(* whose target is a node has its containers on another engine, and is     *)
(* none of these.                                                          *)
(***************************************************************************)
EXTENDS Registry

CONSTANTS
  Repairs,         \* wipes of the search data one command may try (2)
  Commands,        \* bound: commands that are begun
  Older, Younger,  \* two projects whose names may be alike
  Uses,            \* the shared services each project uses
  Labelled         \* projects whose volumes carry LDM's labels

ASSUME BoundsAssumption == Repairs \in Nat /\ Commands \in Nat
ASSUME UsesAssumption == Uses \in [Projects -> SUBSET {"search", "db", "proxy"}]

VARIABLES
  kin,      \* how the names of two projects are alike
  stack,    \* the containers of each project
  vols,     \* projects with volumes
  schemas,  \* databases in the shared database, by the project they are for
  index,    \* projects whose search index is in the shared data directory
  search,   \* liferay-search-global; unreadable: it exited, for want of a plugin
            \* that an index in its data needs
  db,       \* liferay-db-global
  proxy,    \* liferay-proxy-global runs
  holder,   \* who holds the lock of each project
  cmd,      \* the command of each actor
  late,     \* history: projects brought up while they were being deleted, by a
            \* command the lock could not stop
  stranded, \* history: projects whose deletion found no compose file, and whose
            \* containers the sweep did not remove
  begun     \* commands begun, those of one step included

shared == <<index, search, db, proxy>>
own == <<stack, vols, schemas, late, stranded>>
vars == <<kin, own, shared, holder, cmd, begun, dirs, registry, saver>>

Ops == {"run", "start", "down", "clear", "delete", "setup", "list", "prune"}

\* on: its project; for a prune, those whose containers or volumes it is
\* removing.  free: --force; for a deletion --all, which takes no lock; for a
\* prune that it asks nothing.  then: the step after the next list.  found: what
\* its look for projects gave.  fresh: history, running projects the look could
\* not find: brought up later, or neither searched nor registered.
NoCommand ==
  [op |-> "none", on |-> {}, free |-> FALSE, step |-> "idle", then |-> "idle",
   depth |-> 0, found |-> {}, fresh |-> {}]

Steps ==
  {"idle", "load", "list", "save", "search", "waiting", "usable", "scan", "diagnose",
   "remove", "wipe", "room", "db", "db wait", "schema", "proxy", "boot", "start", "down",
   "sweep", "sweep only", "sweep volumes", "drop", "unlock", "rmtree", "look",
   "containers", "rm", "volumes", "volume rm", "legacy", "legacy rm", "done"}

Command ==
  [op : Ops \cup {"none"}, on : SUBSET Projects, free : BOOLEAN, step : Steps,
   then : Steps, depth : 0..Repairs, found : SUBSET Projects, fresh : SUBSET Projects]

TypeOK ==
  /\ kin \in {"dashed", "prefixed", "same database"}
  /\ stack \in [Projects -> {"none", "stopped", "running"}]
  /\ vols \in SUBSET Projects
  /\ schemas \in SUBSET Projects
  /\ index \in SUBSET Projects
  /\ search \in {"none", "stopped", "unreadable", "starting", "ready"}
  /\ db \in {"none", "stopped", "running"}
  /\ proxy \in BOOLEAN
  /\ holder \in [Projects -> Actors \cup {Nobody}]
  /\ cmd \in [Actors -> Command]
  /\ late \in SUBSET Projects /\ stranded \in SUBSET Projects
  /\ begun \in 0..Commands
  /\ RegistryTypeOK

-----------------------------------------------------------------------------
(* Names.  Projects are called after their directories; with two of them,  *)
(* Younger's name is Older's and "-x" (dashed), Older's and "2" (prefixed),*)
(* or differs from it in a dash and an underscore (same database).         *)

\* Mutant: the name filter of the sweep without its dash.
SweptByPrefix(p) ==
  IF kin \in {"dashed", "prefixed"} /\ p = Older THEN {Older, Younger} ELSE {p}

Swept(p) ==
  IF kin = "dashed" /\ p = Older THEN {Older, Younger} ELSE {p}

\* shared_database_name
DatabaseOf(p) == IF kin = "same database" THEN Older ELSE p

-----------------------------------------------------------------------------
\* Some projects exist, some of them run; an `ldm infra down` may have taken
\* the search container and the proxy since.
Init ==
  /\ kin \in {"dashed", "prefixed", "same database"}
  /\ \E S \in SUBSET Projects :
       /\ dirs = S
       /\ stack \in [Projects -> {"none", "stopped", "running"}]
       /\ \A p \in Projects : p \in S <=> stack[p] # "none"
       /\ vols = S /\ index = S
       /\ schemas = {DatabaseOf(p) : p \in S}
       /\ search \in IF S = {} THEN {"none"} ELSE {"none", "ready"}
       /\ db = IF S = {} THEN "none" ELSE "running"
       /\ proxy = (search = "ready")
       /\ registry = [torn |-> FALSE, names |-> S]
  /\ saver = [a \in Actors |-> NoSave]
  /\ holder = [p \in Projects |-> Nobody]
  /\ cmd = [a \in Actors |-> NoCommand]
  /\ late = {} /\ stranded = {} /\ begun = 0

At(a, op, step) == cmd[a].op \in op /\ cmd[a].step = step

\* What a command on a project works on, and steps of it.
On(a, p) == cmd[a].on = {p}

Goto(a, step) == cmd' = [cmd EXCEPT ![a].step = step]

GotoSave(a, then) ==
  cmd' = [cmd EXCEPT ![a] = [@ EXCEPT !.step = "save", !.then = then]]

Release(a) == holder' = [p \in Projects |-> IF holder[p] = a THEN Nobody ELSE holder[p]]

Leave(a) ==
  /\ cmd' = [cmd EXCEPT ![a] = NoCommand]
  /\ Release(a)

Running == {p \in Projects : stack[p] = "running"}

\* A deletion of the project that the lock does not protect, or not any more.
Exposed(p) ==
  \E a \in Actors :
    /\ On(a, p) /\ cmd[a].op = "delete"
    /\ cmd[a].free \/ cmd[a].step \in {"load", "save", "rmtree"}

BringUp(p, locked) ==
  /\ stack' = [stack EXCEPT ![p] = "running"]
  /\ late' = IF Exposed(p) \/ (~locked /\ holder[p] # Nobody) THEN late \cup {p}
             ELSE late \ {p}
  /\ stranded' = stranded \ {p}

\* A command that has looked for running projects misses those that come later.
Noticed(p, c) ==
  [a \in Actors |->
     [c[a] EXCEPT !.fresh = IF c[a].step \in {"diagnose", "remove", "wipe"}
                            THEN c[a].fresh \cup {p} ELSE c[a].fresh]]

-----------------------------------------------------------------------------
(* Commands begin                                                          *)

Free(p) == holder[p] = Nobody

Count ==
  /\ begun < Commands
  /\ begun' = begun + 1

Begin(a, op, p, free, step) ==
  /\ cmd[a].op = "none"
  /\ Count
  /\ cmd' = [cmd EXCEPT ![a] =
               [NoCommand EXCEPT !.op = op, !.on = p, !.free = free,
                                 !.step = step]]

\* `ldm run` creates what is missing of the directory under the lock.
BeginRun(a, p, force) ==
  /\ Free(p)
  /\ Begin(a, "run", {p}, force, "load")
  /\ holder' = [holder EXCEPT ![p] = a]
  /\ dirs' = dirs \cup {p}
  /\ Disturbed
  /\ UNCHANGED <<kin, own, shared, registry>>

\* `ldm start` registers the project before it takes the lock.
BeginStart(a, p) ==
  /\ p \in dirs
  /\ Begin(a, "start", {p}, FALSE, "load")
  /\ UNCHANGED <<kin, own, shared, holder, dirs, registry, saver>>

\* `ldm down`, with -v ("clear"; `ldm reset` too), with --delete, or without;
\* with --all the lock is not taken.
BeginDown(a, p, op, all) ==
  /\ p \in dirs
  /\ all \/ Free(p)
  /\ Begin(a, op, {p}, all, "down")
  /\ holder' = IF all THEN holder ELSE [holder EXCEPT ![p] = a]
  /\ UNCHANGED <<kin, own, shared, dirs, registry, saver>>

\* ldm infra setup --force-recreate
BeginSetup(a, force) ==
  /\ Begin(a, "setup", {}, force, "look")
  /\ UNCHANGED <<kin, own, shared, holder, dirs, registry, saver>>

\* Any command that looks for projects (find_dxp_roots).
BeginList(a) ==
  /\ Begin(a, "list", {}, FALSE, "list")
  /\ UNCHANGED <<kin, own, shared, holder, dirs, registry, saver>>

\* ldm prune; it takes no lock.
BeginPrune(a, quiet) ==
  /\ cmd[a].op = "none"
  /\ Count
  /\ cmd' = [cmd EXCEPT ![a] =
               [NoCommand EXCEPT !.op = "prune", !.free = quiet, !.step = "list",
                                 !.then = "containers"]]
  /\ UNCHANGED <<kin, own, shared, holder, dirs, registry, saver>>

\* A call of docker that fails or times out, a refused question, kill -9.
\* Or the end of a list.
Quit(a) ==
  /\ cmd[a].step # "idle"
  /\ Leave(a)
  /\ AbandonSave(a)
  /\ UNCHANGED <<kin, begun, own, shared, dirs, registry>>

-----------------------------------------------------------------------------
(* The registry, in the middle of a command                                *)

Register(a, p) ==
  /\ At(a, {"run", "start"}, "load") /\ On(a, p)
  /\ LoadToAdd(a, p)
  /\ GotoSave(a, IF cmd[a].op = "run" THEN "search" ELSE "start")
  /\ UNCHANGED <<kin, own, shared, holder, begun, dirs, registry>>

Unregister(a, p) ==
  /\ At(a, {"delete"}, "load") /\ On(a, p)
  /\ IF p \in Read THEN GotoSave(a, "rmtree") /\ LoadToRemove(a, p)
                   ELSE Goto(a, "rmtree") /\ UNCHANGED saver
  /\ UNCHANGED <<kin, own, shared, holder, begun, dirs, registry>>

\* The step after the look for projects.
AfterList(a) ==
  CASE cmd[a].op = "list"  -> "done"
    [] cmd[a].op = "prune" -> cmd[a].then
    [] OTHER               -> "scan"

\* What every look for projects does before it goes on.
ListProjects(a) ==
  /\ cmd[a].step = "list"
  /\ cmd' = [cmd EXCEPT ![a] =
               [@ EXCEPT !.step = IF Current THEN AfterList(a) ELSE "save",
                         !.then = AfterList(a), !.found = Roots]]
  /\ IF Current THEN UNCHANGED saver ELSE LoadToList(a)
  /\ UNCHANGED <<kin, own, shared, holder, begun, dirs, registry>>

SaveRegistry(a) ==
  /\ cmd[a].step = "save"
  /\ Save(a)
  /\ Goto(a, cmd[a].then)
  /\ UNCHANGED <<kin, own, shared, holder, begun, dirs>>

-----------------------------------------------------------------------------
(* ldm run: shared services first, then the project's own containers       *)

NeedsIt(a, service) == \A p \in cmd[a].on : service \in Uses[p]

\* liferay-search-global runs, or the project does not use it.
UseSearch(a) ==
  /\ At(a, {"run"}, "search")
  /\ search \in {"starting", "ready"} \/ ~NeedsIt(a, "search")
  /\ Goto(a, IF NeedsIt(a, "search") THEN "room" ELSE "db")
  /\ UNCHANGED <<kin, begun, own, shared, holder, dirs, registry, saver>>

StartSearch(a) ==
  /\ At(a, {"run"}, "search") /\ NeedsIt(a, "search")
  /\ search \in {"stopped", "unreadable"}
  /\ search' = "starting"
  /\ Goto(a, "room")
  /\ UNCHANGED <<kin, begun, own, index, db, proxy, holder, dirs, registry, saver>>

\* On the data directory there is, with the plugins that could be downloaded.
CreateSearch(a) ==
  /\ At(a, {"run"}, "search") /\ NeedsIt(a, "search")
  /\ search = "none"
  /\ search' = "starting"
  /\ Goto(a, "waiting")
  /\ UNCHANGED <<kin, begun, own, index, db, proxy, holder, dirs, registry, saver>>

SearchIsReady(a) ==
  /\ At(a, {"run"}, "waiting") /\ search = "ready"
  /\ Goto(a, "usable")
  /\ UNCHANGED <<kin, begun, own, shared, holder, dirs, registry, saver>>

\* Those that are still missing; it is restarted with them, and the run goes on,
\* ready again or not.
InstallPlugins(a) ==
  /\ search' = "starting"
  /\ Goto(a, "room")
  /\ UNCHANGED holder

\* A red cluster ends the run; any other health, and none, does not.
AssertUsable(a) ==
  /\ At(a, {"run"}, "usable")
  /\ \E health \in {"none", "yellow", "red"} :
       IF health = "red" THEN Leave(a) /\ UNCHANGED search
       ELSE InstallPlugins(a)
  /\ UNCHANGED <<kin, begun, own, index, db, proxy, dirs, registry, saver>>

\* Sixty polls are over, or the container has exited.
SearchIsNotReady(a) ==
  /\ At(a, {"run"}, "waiting") /\ search # "ready"
  /\ cmd[a].depth < Repairs
  /\ Goto(a, "list")
  /\ UNCHANGED <<kin, begun, own, shared, holder, dirs, registry, saver>>

AfterScan(a) ==
  cmd' = [cmd EXCEPT ![a] =
            [@ EXCEPT !.step = IF cmd[a].op = "run" THEN "diagnose" ELSE "remove",
                      !.fresh = Running \ cmd[a].found, !.found = {}]]

\* Mutant: docker gives no answer, which is taken for no running project.
ScanInVain(a) ==
  /\ At(a, {"run", "setup"}, "scan")
  /\ AfterScan(a)
  /\ UNCHANGED <<kin, begun, own, shared, holder, dirs, registry, saver>>

\* Of the projects found.  Without --force a running one, or no answer, ends
\* the command (Quit).
Scan(a) ==
  /\ At(a, {"run", "setup"}, "scan")
  /\ cmd[a].free \/ Running \cap cmd[a].found = {}
  /\ AfterScan(a)
  /\ UNCHANGED <<kin, begun, own, shared, holder, dirs, registry, saver>>

\* The log names a missing plugin; if it could not be had, nothing is known.
PluginIsMissing(captured) == captured /\ search = "unreadable"

\* The log is read before the container goes with it.
Diagnose(a) ==
  /\ At(a, {"run"}, "diagnose")
  /\ \E captured \in BOOLEAN :
       PluginIsMissing(captured) => cmd[a].free
  /\ Goto(a, "remove")
  /\ UNCHANGED <<kin, begun, own, shared, holder, dirs, registry, saver>>

\* docker rm -f, and if that failed, that the container is gone.
RemoveSearch(a) ==
  /\ At(a, {"run"}, "remove")
  /\ search' = "none"
  /\ Goto(a, "wipe")
  /\ UNCHANGED <<kin, begun, own, index, db, proxy, holder, dirs, registry, saver>>

\* Every project's index goes; the repair counts its depth.
WipeSearch(a) ==
  /\ At(a, {"run"}, "wipe")
  /\ index' = {}
  /\ cmd' = [cmd EXCEPT ![a] = [cmd[a] EXCEPT !.step = "search", !.depth = cmd[a].depth + 1]]
  /\ UNCHANGED <<kin, begun, own, search, db, proxy, holder, dirs, registry, saver>>

\* The disk under the search data: past the flood stage nothing is indexed,
\* past the high watermark no new index is made.
TooFull(used, p) == used = "flood" \/ (used = "high" /\ p \notin index)

CheckRoom(a, p) ==
  /\ At(a, {"run"}, "room") /\ On(a, p)
  /\ \E used \in {"low", "high", "flood"} :
       IF TooFull(used, p) /\ search \in {"starting", "ready"} THEN Leave(a)
       ELSE Goto(a, "db") /\ UNCHANGED holder
  /\ UNCHANGED <<kin, begun, own, shared, dirs, registry, saver>>

\* Created, or started.
SetUpDatabase(a) ==
  /\ At(a, {"run"}, "db")
  /\ db' = IF NeedsIt(a, "db") THEN "running" ELSE db
  /\ Goto(a, IF NeedsIt(a, "db") THEN "db wait" ELSE "proxy")
  /\ UNCHANGED <<kin, begun, own, index, search, proxy, holder, dirs, registry, saver>>

\* A container that exits meanwhile, or sixty polls, end the run (Quit).
WaitForDatabase(a) ==
  /\ At(a, {"run"}, "db wait") /\ db = "running"
  /\ Goto(a, "proxy")
  /\ UNCHANGED <<kin, begun, own, shared, holder, dirs, registry, saver>>

UpProxy(a) ==
  /\ At(a, {"run", "setup"}, "proxy")
  /\ proxy' = (proxy \/ NeedsIt(a, "proxy"))
  /\ IF cmd[a].op = "setup" THEN Leave(a)
     ELSE Goto(a, IF NeedsIt(a, "db") THEN "schema" ELSE "boot") /\ UNCHANGED holder
  /\ UNCHANGED <<kin, begun, own, index, search, db, dirs, registry, saver>>

\* CREATE DATABASE, unless it exists; check=True.
CreateDatabase(a, p) ==
  /\ At(a, {"run"}, "schema") /\ On(a, p) /\ db = "running"
  /\ schemas' = schemas \cup {DatabaseOf(p)}
  /\ Goto(a, "boot")
  /\ UNCHANGED <<kin, begun, stack, vols, late, stranded, shared, holder, dirs, registry, saver>>

\* docker compose up
Boot(a, p) ==
  /\ At(a, {"run"}, "boot") /\ On(a, p) /\ p \in dirs
  /\ BringUp(p, TRUE)
  /\ vols' = vols \cup {p}
  /\ cmd' = [Noticed(p, cmd) EXCEPT ![a] = NoCommand]
  /\ Release(a)
  /\ UNCHANGED <<kin, begun, schemas, shared, dirs, registry, saver>>

-----------------------------------------------------------------------------
(* ldm start, ldm stop                                                     *)

\* docker compose start under the lock; without containers it refuses (Quit).
Start(a, p) ==
  /\ At(a, {"start"}, "start") /\ On(a, p)
  /\ Free(p) /\ p \in dirs /\ stack[p] # "none"
  /\ BringUp(p, TRUE)
  /\ cmd' = [Noticed(p, cmd) EXCEPT ![a] = NoCommand]
  /\ UNCHANGED <<kin, begun, vols, schemas, shared, holder, dirs, registry, saver>>

\* `ldm restart --all --force-recreate` takes no lock.
Recreate(p) ==
  /\ Count
  /\ p \in dirs
  /\ BringUp(p, FALSE)
  /\ vols' = vols \cup {p}
  /\ cmd' = Noticed(p, cmd)
  /\ UNCHANGED <<kin, schemas, shared, holder, dirs, registry, saver>>

\* `ldm stop`, `ldm stop --all`, or the containers exit.
Stop(p) ==
  /\ Count
  /\ stack[p] = "running"
  /\ stack' = [stack EXCEPT ![p] = "stopped"]
  /\ UNCHANGED <<kin, vols, schemas, late, stranded, shared, holder, cmd, dirs, registry,
                 saver>>

-----------------------------------------------------------------------------
(* ldm down                                                                *)

Clears(a) == cmd[a].op \in {"clear", "delete"}

\* Mutant: a `docker compose down` that fails is passed over.
ComposeDownUnchecked(a, p) ==
  /\ At(a, {"down", "clear", "delete"}, "down") /\ On(a, p) /\ p \in dirs
  /\ stack' \in {stack, [stack EXCEPT ![p] = "none"]}
  /\ Goto(a, "sweep")
  /\ UNCHANGED <<kin, begun, vols, schemas, late, stranded, shared, holder, dirs,
                 registry, saver>>

\* docker compose down, with -v when the data goes too.  One that fails ends the
\* command, and with --all what it does to this project (Quit).
ComposeDown(a, p) ==
  /\ At(a, {"down", "clear", "delete"}, "down") /\ On(a, p) /\ p \in dirs
  /\ stack' = [stack EXCEPT ![p] = "none"]
  /\ vols' = IF Clears(a) THEN vols \ {p} ELSE vols
  /\ Goto(a, "sweep")
  /\ UNCHANGED <<kin, begun, schemas, late, stranded, shared, holder, dirs, registry,
                 saver>>

\* There is no docker-compose.yml: deleted by hand at any time, or gone with the
\* directory.  Only the sweep is left, and the command goes on.
MissComposeFile(a, p) ==
  /\ At(a, {"down", "clear", "delete"}, "down") /\ On(a, p)
  /\ Goto(a, "sweep only")
  /\ UNCHANGED <<kin, begun, own, shared, holder, dirs, registry, saver>>

\* What carries the project's label, and what is called after it and a dash;
\* nobody looks at what fails.
SweptUp(p) == {{}, {p}, Swept(p)}

Sweep(a, p) ==
  /\ \/ At(a, {"down", "clear", "delete"}, "sweep")
     \/ At(a, {"down", "clear", "delete"}, "sweep only")
  /\ On(a, p)
  /\ \E S \in SweptUp(p) :
       stack' = [q \in Projects |-> IF q \in S THEN "none" ELSE stack[q]]
  /\ stranded' = IF cmd[a].step = "sweep only" /\ stack'[p] # "none"
                 THEN stranded \cup {p} ELSE stranded
  /\ IF Clears(a) THEN Goto(a, "sweep volumes") /\ UNCHANGED holder ELSE Leave(a)
  /\ UNCHANGED <<kin, begun, vols, schemas, late, shared, dirs, registry, saver>>

\* docker volume rm is refused while a container has the volume.
SweepVolumes(a, p) ==
  /\ At(a, {"clear", "delete"}, "sweep volumes") /\ On(a, p)
  /\ \E S \in SweptUp(p) : vols' = {q \in vols : q \in S => stack[q] # "none"}
  /\ IF cmd[a].op = "delete" THEN Goto(a, "drop") /\ UNCHANGED holder ELSE Leave(a)
  /\ UNCHANGED <<kin, begun, stack, schemas, late, stranded, shared, dirs, registry,
                 saver>>

\* DROP DATABASE, whose failure nobody looks at.
DropDatabase(a, p) ==
  /\ At(a, {"delete"}, "drop") /\ On(a, p)
  /\ schemas' \in IF db = "running" THEN {schemas \ {DatabaseOf(p)}, schemas}
                  ELSE {schemas}
  /\ Goto(a, "unlock")
  /\ UNCHANGED <<kin, begun, stack, vols, late, stranded, shared, holder, dirs, registry, saver>>

\* Before the directory with the lock's file goes.
Unlock(a) ==
  /\ At(a, {"delete"}, "unlock")
  /\ Goto(a, "load")
  /\ Release(a)
  /\ UNCHANGED <<kin, begun, own, shared, dirs, registry, saver>>

RemoveDirectory(a, p) ==
  /\ At(a, {"delete"}, "rmtree") /\ On(a, p)
  /\ dirs' = dirs \ {p}
  /\ Disturbed
  /\ Leave(a)
  /\ UNCHANGED <<kin, begun, own, shared, registry>>

-----------------------------------------------------------------------------
(* ldm prune: what belongs to no project that it found                     *)

LabelledVolumes == vols \cap Labelled

Pick(a, step, S) ==
  cmd' = [cmd EXCEPT ![a] = [@ EXCEPT !.step = step, !.on = S]]

\* The containers there are, by their project's label.
FindOrphans(a) ==
  /\ At(a, {"prune"}, "containers")
  /\ Pick(a, "rm", {p \in Projects : stack[p] # "none"} \ cmd[a].found)
  /\ UNCHANGED <<kin, begun, own, shared, holder, dirs, registry, saver>>

\* docker rm -f, of a running one too; one that fails is passed over.
RemoveOrphan(a, p) ==
  /\ At(a, {"prune"}, "rm") /\ p \in cmd[a].on
  /\ stack' \in {stack, [stack EXCEPT ![p] = "none"]}
  /\ Pick(a, "rm", cmd[a].on \ {p})
  /\ UNCHANGED <<kin, begun, vols, schemas, late, stranded, shared, holder, dirs, registry, saver>>

\* They are gone, or the answer was no, or it is a dry run.
LookForVolumes(a) ==
  /\ At(a, {"prune"}, "rm")
  /\ cmd[a].free => cmd[a].on = {}
  /\ cmd' = [cmd EXCEPT ![a] = [@ EXCEPT !.step = "list", !.then = "volumes", !.on = {}]]
  /\ UNCHANGED <<kin, begun, own, shared, holder, dirs, registry, saver>>

\* Data is removed only if somebody says so.
FindVolumes(a) ==
  /\ At(a, {"prune"}, "volumes")
  /\ Pick(a, "volume rm", IF cmd[a].free THEN {} ELSE LabelledVolumes \ cmd[a].found)
  /\ UNCHANGED <<kin, begun, own, shared, holder, dirs, registry, saver>>

\* docker volume rm, which is refused while a container has it.
RemoveVolume(a, p) ==
  /\ At(a, {"prune"}, "volume rm") \/ At(a, {"prune"}, "legacy rm")
  /\ p \in cmd[a].on
  /\ vols' = IF stack[p] = "none" THEN vols \ {p} ELSE vols
  /\ Pick(a, cmd[a].step, cmd[a].on \ {p})
  /\ UNCHANGED <<kin, begun, stack, schemas, late, stranded, shared, holder, dirs, registry, saver>>

\* --legacy-volumes: with the volumes that carry no label, by their names.
LookForLegacy(a) ==
  /\ At(a, {"prune"}, "volume rm")
  /\ cmd' = [cmd EXCEPT ![a] = [@ EXCEPT !.step = "list", !.then = "legacy", !.on = {}]]
  /\ UNCHANGED <<kin, begun, own, shared, holder, dirs, registry, saver>>

FindLegacy(a) ==
  /\ At(a, {"prune"}, "legacy")
  /\ ~cmd[a].free
  /\ Pick(a, "legacy rm", (vols \ LabelledVolumes) \ cmd[a].found)
  /\ UNCHANGED <<kin, begun, own, shared, holder, dirs, registry, saver>>

-----------------------------------------------------------------------------
(* ldm infra, ldm db, and the world                                        *)

\* Looks for running projects only if there is a proxy to recreate.
LookBeforeCut(a) ==
  /\ At(a, {"setup"}, "look")
  /\ Goto(a, IF proxy THEN "list" ELSE "proxy")
  /\ UNCHANGED <<kin, own, shared, holder, begun, dirs, registry, saver>>

CutProxy(a) ==
  /\ At(a, {"setup"}, "remove")
  /\ proxy' = FALSE
  /\ Goto(a, "proxy")
  /\ UNCHANGED <<kin, begun, own, index, search, db, holder, dirs, registry, saver>>

\* The containers go, the databases and the indices stay; asks before.
InfraDown ==
  /\ Count
  /\ proxy' = FALSE
  /\ search' = "none"
  /\ UNCHANGED <<kin, own, index, db, holder, cmd, dirs, registry, saver>>

\* ldm db start, ldm db stop, docker, and a container that exits.
SwitchDatabase ==
  /\ Count
  /\ db # "none"
  /\ db' = IF db = "running" THEN "stopped" ELSE "running"
  /\ UNCHANGED <<kin, own, index, search, proxy, holder, cmd, dirs, registry,
                 saver>>

ReadySearch ==
  /\ search = "starting"
  /\ search' \in {"ready", "stopped"} \cup IF index = {} THEN {} ELSE {"unreadable"}
  /\ UNCHANGED <<kin, begun, own, index, db, proxy, holder, cmd, dirs, registry, saver>>

\* The portal indexes its content.
WriteIndex(p) ==
  /\ stack[p] = "running" /\ search = "ready"
  /\ index' = index \cup {p}
  /\ UNCHANGED <<kin, begun, own, search, db, proxy, holder, cmd, dirs, registry, saver>>

-----------------------------------------------------------------------------
BeginCommand(a) ==
  \/ \E p \in Projects, force \in BOOLEAN : BeginRun(a, p, force)
  \/ \E p \in Projects : BeginStart(a, p)
  \/ \E p \in Projects, op \in {"down", "clear", "delete"}, all \in BOOLEAN :
       BeginDown(a, p, op, all)
  \/ \E force \in BOOLEAN : BeginSetup(a, force)
  \/ BeginList(a)
  \/ \E quiet \in BOOLEAN : BeginPrune(a, quiet)

Work(a) ==
  \/ \E p \in Projects :
       \/ Register(a, p) \/ Unregister(a, p)
       \/ CreateDatabase(a, p) \/ Boot(a, p) \/ Start(a, p)
       \/ ComposeDown(a, p) \/ MissComposeFile(a, p)
       \/ Sweep(a, p) \/ SweepVolumes(a, p) \/ DropDatabase(a, p)
       \/ RemoveDirectory(a, p) \/ CheckRoom(a, p)
       \/ RemoveOrphan(a, p) \/ RemoveVolume(a, p)
  \/ ListProjects(a) \/ SaveRegistry(a)
  \/ UseSearch(a) \/ StartSearch(a) \/ CreateSearch(a) \/ SearchIsReady(a)
  \/ AssertUsable(a) \/ SearchIsNotReady(a) \/ Scan(a) \/ Diagnose(a)
  \/ RemoveSearch(a) \/ WipeSearch(a)
  \/ SetUpDatabase(a) \/ WaitForDatabase(a) \/ UpProxy(a)
  \/ FindOrphans(a) \/ LookForVolumes(a) \/ FindVolumes(a)
  \/ LookForLegacy(a) \/ FindLegacy(a)
  \/ Unlock(a)
  \/ LookBeforeCut(a) \/ CutProxy(a)

World ==
  \/ \E p \in Projects : Recreate(p) \/ Stop(p) \/ WriteIndex(p)
  \/ InfraDown \/ SwitchDatabase \/ ReadySearch

Next == World \/ \E a \in Actors : BeginCommand(a) \/ Work(a) \/ Quit(a)

Spec == Init /\ [][Next]_vars

-----------------------------------------------------------------------------
(* Properties                                                              *)

\* A command that sets up shared services never takes them from a running
\* project without --force, unless it could not know of it: brought up after
\* the look, or neither in a searched directory nor registered
\* (setup_global_search, setup_infrastructure).
SharedServicesSpareTheRunning ==
  [][\A a \in Actors :
       /\ cmd[a].step \in {"remove", "wipe"} /\ cmd'[a].step # cmd[a].step
       /\ index' # index \/ proxy' # proxy
       /\ ~cmd[a].free
       => Running \subseteq cmd[a].fresh]_vars

\* A deletion takes nothing from another project, unless that is called like
\* this one and a dash, or its name gives the same database (cmd_down); pruning
\* takes nothing of a project it found when it looked (run_prune).
DeletionIsConfined ==
  [][\A q \in Projects :
       /\ (q \in vols /\ q \notin vols') \/ (stack[q] # "none" /\ stack'[q] = "none")
            => \E a \in Actors :
                 \/ /\ cmd[a].op \in {"down", "clear", "delete"}
                    /\ On(a, q) \/ (kin = "dashed" /\ On(a, Older))
                    /\ q \in vols /\ q \notin vols' => Clears(a)
                 \/ cmd[a].op = "prune" /\ q \notin cmd[a].found
       /\ DatabaseOf(q) \in schemas /\ DatabaseOf(q) \notin schemas'
            => \E a \in Actors : On(a, q) \/ kin = "same database"]_vars

\* No container is left without the directory from which it could be managed,
\* unless something brought it up that the deletion's lock could not stop, or
\* the deletion found no compose file and its sweep did not remove the
\* containers: a `docker compose down` that fails is never followed by the
\* removal of the directory (orchestration.py:970-993).
NoOrphanStack ==
  \A p \in Projects : stack[p] # "none" => p \in dirs \cup late \cup stranded

\* Who writes the registry undisturbed changes what it wants to and keeps the
\* rest; every other entry is lost only to another writer.
QuietUpdateIsExact ==
  [][\A a \in Actors :
       saver[a].busy /\ ~saver'[a].busy /\ registry' # registry /\ saver[a].quiet
         => ~registry'.torn /\ registry'.names = saver[a].aim]_vars
=============================================================================
