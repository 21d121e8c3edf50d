# Verification of the Liferay Docker Manager (LDM)

LDM is a command-line program: every `ldm <command>` is one process that changes
project directories, Docker containers, a registry of projects and a few files in
the user's home, and then exits. Nothing coordinates two such processes but lock
files, and nothing repairs what a command leaves half-done but the command's own
rollback and the next command. That is what this development is about: TLA+
modules translated from the Python source, TLC runs that check them on small
instances, and theorems that TLAPS proves for every instance.

Source paths below are relative to `src/ldm_core/`.

## 1. The system

| component | source | state it keeps | operations | why it is hard |
|---|---|---|---|---|
| Stage engine | `pipelines/base.py` | `executed_stages`, `errors`, `context.stopped` | `run`, `_rollback`; callers map the result to an exit status | a stage raises anything from a refusal to Ctrl+C; rollbacks raise too |
| Run pipeline | `pipelines/run.py`, `validation.py`, `handlers/base.py` | project directory, `meta`, registry entry, containers, OSGi state on the host, database release | seven stages of `ldm run` / `ldm init` | each stage builds on what earlier commands left; rollback deletes directories |
| Compose file | `handlers/composer.py`, `workspace/metadata.py` | `docker-compose.yml`, `port_*` in `meta` | generate, from arguments, metadata, defaults and the client extensions found | fifteen builders decide separately which services, volumes and addresses there are |
| Serving | `runtime/readiness.py`, `portal_patches.py`, `workspace/site_initializers.py` | the portal's container, its log, the reindex flag, held-back extensions | wait, patch, settle a reindex, move extensions; restart, re-deploy, reindex | minutes pass between what a command reads and what it writes |
| Import pipeline | `pipelines/import_pipeline.py`, `workspace/importer.py` | the project directory, its artifact directories, its database, scratch directories | nine stages of `ldm import`, `init-from`, `link`, `clone`, and the release path without stages | overwrites an existing project |
| File locks | `utils.py` (`ProjectLock`, `FileLock`) | a lock file, `self.fd` | `acquire` with retries, `release`, `rescue --clear-lock` | the kernel locks the file, the code removes the path |
| Global settings | `utils.py`, `config.py`, `handlers/config.py` | `~/.ldmrc`, `.tmp`, `.lock` | load, change, save: target nodes, defaults and their reset, `ldm config` | every process rewrites the whole file, one command without the lock |
| Properties | `handlers/config.py`, `dashboard/server.py` | `portal-ext.properties`, its manifest, four layers above or below it | sync, reset, revert, edit, toggle, inspect | the result of the cascade is also its highest layer |
| Registry | `handlers/base.py` | `registry.json` | register, unregister, look for projects | read, changed and written without a lock |
| Stack | `runtime/orchestration.py`, `handlers/infra.py`, `diagnostics/prune.py` | containers, volumes and databases of all projects, shared search, database and proxy | run, start, stop, down, delete, prune, infra set-up and removal | a lock per project, none for what projects share |
| Sharing | `handlers/share.py` | `share_*` in `meta`, compose sidecars, background clients | start, stop, and every command that moves the containers | what can be closed again is only what metadata names |
| Monitor | `workspace/monitor.py`, `workspace/hydration.py` | observer, pending set, debounce timer, staging files | watch, debounce, copy, deploy; `ldm deploy` | observer thread, timer threads, builds and another process interleave |
| Node power | `node_power.py`, its hourly workflow | instance tag, a state file per machine | `wake`, `sleep`, `enforce` | commands on several machines share the tag; deadlines |
| Snapshot, restore | `handlers/snapshot.py`, `snapshot/` | data volume and its copy on the host, search index, snapshot directories | dump, copy, archive, seal, delete; reset, verify, extract, copy back, import with retries and a baseline | the portal goes on working while a snapshot is taken; a restore destroys before it rebuilds |
| The rest | see `PROJECT.json`, "components" | | | command line, reports, generated text, remote services |

Components interact by calls within a process (the pipelines run on the engine and
call the registry, the lock and the orchestration), and through files, containers
and tags between processes. No component sends messages; callbacks exist in the
monitor only (observer and timers).

What makes each part correct:

* engine: what a failed run did is undone, last stage first, each stage once, even
  when rollbacks fail; the exit status is not 0 after a failure; an intentional stop
  is neither;
* run pipeline: no command deletes what it did not create; a release boots only on
  data, and on OSGi state, that it was meant for; only what was asked is run;
* compose file: what one part of the file relies on, another part of it provides;
* serving: "ready" means the portal was waited for; a reindex, a patch and a deferred
  extension get where they should, whoever is killed;
* locks: two commands do not change one project at once;
* settings: the file is whole at any time, and a command changes its own setting
  only;
* properties: a skipped sync would have changed nothing; what the user set and
  marked stays set and marked; the dashboard shows what the file says;
* registry and stack: a deletion takes nothing of another project and leaves no
  containers without a directory; shared services serve as long as somebody runs;
* sharing: what is open to the internet can be closed by the command for it;
* import pipeline: an import into an existing project never deletes it, a refused one
  changes nothing, a failed one puts files back;
* snapshot, restore: what a snapshot's dump names is in its archive; a restore that
  says it is complete gives the snapshot and nothing else; what broke off is never
  restored as whole;
* monitor: no event is forgotten, and the last build is what ends up deployed, on a
  remote node too;
* node power: a node that somebody woke stays up until the deadline, and no node
  stays up for ever.

`PROJECT.json` lists, under "hazards", the places where these can go wrong, each
with the properties that watch it.

## 2. Modules

| module | models | composed of |
|---|---|---|
| `Saga` | what a pipeline promises, without exceptions and lists | |
| `Pipeline` | the stage engine, with abstract stages | implements `Saga` |
| `RunPipeline` | the seven stages of `ldm run`, several commands in a row | INSTANCE of `Pipeline` |
| `ImportPipeline` | the nine stages of an import and what stands around them | INSTANCE of `Pipeline` |
| `FileLock` | both lock classes | |
| `GlobalConfig` | commands that change `~/.ldmrc` | INSTANCE of `FileLock` |
| `Registry` | the file that says where projects are | |
| `Stack` | several projects, their containers and what they share | EXTENDS `Registry` |
| `Extensions` | what a client extension says of itself, archive and folder | |
| `Compose` | the compose file as a function of the settings | EXTENDS `Extensions` |
| `Serving` | from settings to a portal that answers | EXTENDS `Compose` |
| `Sharing` | tunnels to the internet | |
| `Properties` | `portal-ext.properties` and its cascade | |
| `Snapshots` | `ldm snapshot`, `ldm restore` beside a working portal | |
| `Monitor` | `ldm monitor` beside `ldm deploy` | |
| `NodePower` | `ldm node wake/sleep/enforce` | |
| `*Proofs` | theorems about the module of that name; `ImportAndPowerProofs` about `ImportPipeline` and `NodePower`, `SharingAndMonitorProofs` about `Sharing` and `Monitor`, `PipelineAndPropertiesProofs` about `Pipeline` and `Properties`, `GlobalConfigProofs` about `FileLock` too | EXTEND their modules |
| `MC*` | constants of the TLC runs | EXTEND their module |

Definitions whose comment begins with "Mutant" are variants of another
definition with a plausible bug. No specification uses them; `PROJECT.json`
("mutants") says which property each of them breaks.

Two conventions hold throughout. One action is one stretch of code between two
changes of state that others can see, so that a crash or a failure can come between
any two of them. Variables marked "history" record what no code keeps, so that a
property can say "unless two commands overlapped"; what a command does never depends
on them.

### Pipeline

`phase`, `at`, `executed`, `stopped`, `errors` are the locals and fields of
`Pipeline.run`; `inFlight` is the exception on its way up; `pending` is what
`reversed(executed_stages)` has not reached; `exitStatus` is what the callers make
of the result (`die_if_the_pipeline_failed`, `main`). An action is one step of the
loop: `ExecuteStage`, `RaiseInStage` (an exception, `SystemExit` with any of the
codes, Ctrl+C), `InterruptLoop` between stages, `RollbackStage`,
`FailRollbackOfStage`, `FinishRollback`, `ExitProcess`. `effect` records for each
stage whether its work stands, stands in part, or is undone: a stage that raises may
leave any part behind, and its `rollback()` is not called because it never reached
`executed_stages`.

### RunPipeline

`dir`, `meta`, `registry`, `stack`, `data` are the project directory, its metadata
file, the entry of the project's name, the containers and the release that last
booted on the database; `volume` is the container name the volume goes by, `osgi`
whose bundles the persisted OSGi state has and which tag is marked on it; `other` is
another project of the same name. `ctx` is the pipeline context. What a command is
told by flags or answers is chosen where the code looks at it.

By stage: (1) `LocateProject`, `ReadProject`, `CancelSelection`; (2)
`ValidateTooling`; (3) `ReportAlreadyRunning`, `DeclineRestart`, `ValidateRuntime`
with the guard against downgrades; (4) the release: `ResolveTag` with the discovery
of tags (`Found`, `Withdrawn`, `Discovered` and its limit `MaxInactiveTagChecks`),
`KeepTag`, `TakeWorkspaceProduct`, the ceiling of what was claimed to work
(`PassCeiling`, `OverrideCeiling`), `ApplyFlags`, then the preflight and the name:
`ReachHost`, `FindPort`, `FindNoCollision`/`DropStaleEntry`/`OverwriteEntry`; (5)
`LayOut`, `Seed`, `Register`, `VerifyEnvironment`, the OSGi state (`WipeState`,
`KeepState`, `MarkState`); (6) the upgrade offer (`NoticeUpgrade`, `BackUpFirst`,
`DeclineBackup`), `WriteCompose`; (7) `RestoreData`, `StampRun`, `BringUp`,
`VerifyPin`, `BecomeReady`. Between commands the stack may stop, and `ldm
set-version` may rewrite the tag (`BumpVersion`). `told` is history: what made up
for a rule that the next boot breaks.

Abstracted: refusals other than the no-op (5) share one code; the PostgreSQL and
MySQL version guards have the shape of the Liferay guard and are not repeated;
metadata writes succeed (`write_meta` swallows failures).

### FileLock

`path` is the file the lock path names, `fd[p]` the file a process has open: the
code removes a path, the kernel locks a file, and the difference is the point.
`Open`, `Lock`, `Unlock`, `Close`, `Remove` are the calls of `_try_acquire` and
`release` in their order, `Die` is `kill -9` at any of them, `ClearLock` is `ldm
system rescue --clear-lock`. Every call may fail, whoever holds the lock: the code
takes any `OSError` (another user's file, a full disk) for an attempt that failed
(`CannotOpen`, `FailAttempt`), so a refusal says nothing of another process, and
nothing here says that it does. `kind` is the class: `FileLock` opens the file outside
its `try`, so that a failure ends `acquire` at once, and its close after a failed write
may fail again, which leads to `release` by the caller (`AbandonStamp`); `ProjectLock`
counts every failure as an attempt and is exclusive always. On Windows a file that is
open cannot be removed and shared locks exclude too.

### GlobalConfig

A command loads `~/.ldmrc` under a shared lock when it starts and again when it is
about to change something (`first`, `second`), and saves under an exclusive lock,
with a write to `~/.ldmrc.tmp` and a rename. `ldm config` does its second load and
its save without the lock, through the same temporary file (`ReadUnlocked`,
`Configure`). `disk` gives the contents of each file, `Torn` for one that is not
completely written. A load that is refused the lock or cannot parse the file returns
nothing, as the code does, and the save that follows writes that back. Operations:
add, use and remove a target node; set, unset and reset one default; a reset of all
defaults, one save per default; `ldm config set` and `unset`. Of a setting only the
presence is modelled, not its value. `/etc/ldmrc`, the Docker contexts of `target
add` and the fallback to a copy where a rename fails are left out.

### Properties

A file is a sequence of lines, properties and `# !important` marks, because marks
are comment lines of their own that updates write and removals take away
(`UpdatePortalExt`, `RemovePortalExt`). `layer` are the layers of the LDM
properties, the user and the workspace, `Seed` is the shipped one, `file` the
project's file, layer 5 and the result at once. A sync is `Bypass`, or `Hash` and then
`Refuse`, `Announce` (a dry one) or `Resolve`, `Diff`, `Reread`, `Merge` and `Record`:
it reads the file when it hashes it, when it resolves the cascade, when it compares, and
when `update_portal_ext()` rewrites it, and each of these may be another text. `cmd`
has the text a command has read or is about to write, `held` what it has made of it.
Every other change of the file is a reading and a later writing too (`Reads`/`Set`,
`ReadToRemove`/`TakeOut`, `ReadToInject`/`Inject`), and whatever was written in between
is lost (`WriteBack`). `ldm run` and the commands on the file hold the project's lock,
which excludes on Windows only (above); the dashboard and `ldm env`, whose run takes
no lock either, hold none. So any two overlap in the model. Commands: a sync,
rebuild, reset (dry or not: `MoveAside`, `MoveBack`, `Unlink`), revert, feature
flags, `ldm env` and `ldm ssl` and `config revert` with their stale metadata copies
(`Consider`, `SetEnv`, `SslMode`, `RevertSettings`, `Restart`, `Save`), the text
interface (`OpenEditor`, `EditorSet`, ...), the dashboard (`Put`, `Delete`), a
restore of the file by a snapshot, and edits of layers by hand.

### Registry and Stack

`Registry` is the file and its writers: `LoadToAdd`/`LoadToRemove`/`LoadToList`
read it, `Save` writes all of it through the shared temporary file, so a writer that
overlaps another loses entries or tears the file. `Stack` extends it with projects
on one engine: `stack`, `vols`, `schemas`, `index` for each project, `search`, `db`,
`proxy` for all. Commands go step by step: `BeginRun` and the steps of the shared
services (`StartSearch`, `InstallPlugins`, `AssertUsable`, `Scan`, `Diagnose`,
`RemoveSearch`, `WipeSearch`, `CheckRoom`, `SetUpDatabase`, `UpProxy`), `Boot`;
`BeginStart`; `BeginDown` with `ComposeDown`, or `MissComposeFile` where
`docker-compose.yml` is gone, which somebody may have deleted at any time, then `Sweep`
and `SweepVolumes`, which may remove anything from nothing to all since nobody looks at
their failures, `DropDatabase`, `Unlock`, `Unregister`, `RemoveDirectory`. A `compose
down` that fails ends the command (or this project's part of `--all`): `Quit`. A remote
target, where the code goes on, is left out. There are `down`, `down --volumes`
("clear") and `down --delete`; `BeginSetup` (infra); `BeginList`; `BeginPrune`
with `FindOrphans`, `RemoveOrphan` and the same for labelled and legacy volumes.
`kin` says how the names of two projects are alike, since sweeps go by name.

### Extensions, Compose and Serving

`Extensions` has the metadata of a client extension: how the descriptors of an
archive merge, in its order and at any depth, how those of a folder do, when either
is a service with a container of its own, and what `Scanned` gives the composer.
`Compose` is a function from a project's settings `c` to a file: a record for each
service with what it waits for, publishes, mounts and answers on. It has the modes
of database and search, the host names of the network, the tuning of the heap, the
builders of services, the merge of an archetype's overlay, and the domain of a
tunnel beside the addresses the portal is told (`RecordedDomain`, `PublicDomain`,
`DialledGateway`, `WebHost`). `Serving` says when it is evaluated (`Scan`,
`FindPort`, `Generate`), and goes on: `Check`, `Create`, `Copy` (patches), `Start`,
`Rest`, `Wait`, `Poll`, `Reindexed`, `Pending`, `Deploy`, `Probe`. Beside it stand
`Look` (commands that scan and write ports), `Recreate`, `Reindex`, `Stop`,
`StartAgain`, the moves of held-back extensions (`Sync`, `HoldBack`, `Move`), the
portal's boot and death, and other programs that take ports. Health checks and
time-outs are choices.

### Sharing

`meta` is what metadata says of sharing, `compose` the sidecars the file names,
`clients` and `sidecars` what is open. A start is `BeginShare`, `SaveShared`,
`Equip`, `CheckClient`, `Authenticate`, then `Launch` for the host's client or
`Regenerate`, `UpSidecar`, and `Healthy`, or `TimeOut` and `CloseUnhealthy`. A stop
is `SaveUnshared`, `RemoveSidecar`, `StopClient`. `ldm run --share` configures and
boots; `Lifecycle` are the commands that move the containers. `ways` is history: the
ways a project was asked to be shared in.

### Monitor

The observer thread (`HandleEvent`), timers (`Fire`, with a cancellation that comes
too late), and one thread per timer that takes the pending set and copies artifacts
through a staging file (`ReadArtifact`, `WriteStaging`, `RemoveDeployed`, `Place`).
`ldm deploy` is one more worker that uses the same staging files and its own target
for modules (`StartDeploy`). When the project's target is a node, the monitor mirrors
the project to it (`Mirror`, `FailMirror`, `FinishMirror`) and the command ships its
artifacts by `Send` and `MoveOnNode`. `Build` is the user's build. The module has the
fallback to polling when inotify watches run out, and what a polling observer does
not see. Extensions that are rejected or expanded are left out; the exchange of a
file (`os.replace`, then `unlink` of what is left) is one step. The watchdog library
is external.

### NodePower

`tag` is the instance's `ldm:wake-until`, `file[p]` the state file of machine p,
`session[p]` the command that runs there, step by step; `now` counts hours since
Monday 00:00. The hourly workflow starts each command with a fresh machine
(`Ephemeral`). Any call may fail (`Fault`), any command may be killed (`Kill`). Host
addresses, docker contexts and `known_hosts`, `status` and `sync-dns` are left out.

### ImportPipeline

`dir`, `meta`, `files`, `data` are the project directory, its metadata, its artifact
directories and its database, each told by whose they are: the project's or the
user's from before (1) or the k-th import's (k + 1). Artifact directories come in two
groups, those that the answer "skip existing" spares and those that it does not.
`scratch` are the scratch directories on the disk, `ctx.tempDirs` the ones the
context knows of. `args` says where the source is (at hand, behind a URL, in a
repository, in a GitHub release), what it is (folder, archive, package) and whether it
is what it claims. `outer` follows `cmd_import` around the stages: `StartDownload`,
`StartClone`, and `StartPackage` ... `FinishPackage`, the release path that runs no
stage and rolls nothing back. Stages: `UseFolder`/`CreateScratch`/`Unpack` (3),
`LocateProject`, `UseNewDirectory`/`KeepDirectory`/`CleanDirectory`/`CleanPartly`,
`MakeDirectories`, `WriteMeta` (5), `SkipRestore`/`ResetProject`/`ExtractPackage`/
`RestoreDatabase` (6), the copy kept for a rollback and the parts of the copying
(7), `DiscardScratch`, `Commit`, `StartProject` (9); stages that only read are
`Check`. Rollbacks are `RemoveProject` (5), `RestoreFiles` (7), `RemoveScratch` (3),
and any of them may fail (`BotchRollback`). Bound: a clone's project is named in the
command.

### Snapshots

`rows` are the documents the database names, `store` those whose file is in the
document library, which lives in a volume; `host` and `hostDb` are the copies in
`data/` that a snapshot makes and archives and that a restore or a run lays back over
the volume (`Copy`, `CopyDatabase`, `FailCopy`, `Hydrate`, `RunProject`). `index`
says whether the project's search index is of the rows, of another time, or to be
built anew. A document is anything of which the portal keeps a row and a file; the
portal writes a document's file before its row and removes it after its row, which
is how the portal is assumed to work (external). `mode` is where the database lives:
in files of `data/` (Hypersonic), in a container of the project, in a container that
projects share. `snaps[n]` is a snapshot directory: its dump, its archive, its
checksum.

A command runs under the project lock, one at a time; `ldm reset` (`ResetProject`)
and the commands with `--all` (`StopProject`, `StartProject`) take no lock and come
at any moment. Two variables are history: `was`, the rows when the restore tore the
project down, and `flawed`, set when extraction errors were suppressed or the project
was started or reset in the middle of a restore. `lost` records documents that could
not be copied or whose file was deleted after the dump. Custom containers, packages
and cloud backups are left out.

## 3. Runs

Every run is listed in `PROJECT.json` with the question it asks. All of them pass but
`forced_downgrade`, which shows that the code does not do what a document says of it
(section 6). Bounds, and why they are enough:

| run | instance | shows |
|---|---|---|
| `pipeline` | 4 stages, exit codes 1, 3, 5 | order and completeness of rollback, exit status, stop, termination, refinement of `Saga`; a failure in the first, in a middle and in the last stage |
| `run_pipeline` | 2 releases, one from before the quarterly ones, 2 commands | an established project survives what fails, is repeated or killed; only a release that was asked for boots, and an older one on newer data only when a command was forced to or asked for it by name; nobody boots on another release's OSGi state; two commands are one that leaves something and one that meets it |
| `import_pipeline` | 2 imports, every way in and every payload | what an import may do to what was there, what a refused and a failed one leave |
| `forced_downgrade` | as `run_pipeline` | an older release is booted by `ldm run --tag` without `--force-downgrade` (a violation) |
| `global_config` | 2 commands, 1 attempt, posix and Windows, shared and exclusive, 3 settings, 2 target nodes and the local one, two contents to begin with; or 2 processes on a project's lock | where the lock excludes; and there a whole file with one default node, undisturbed saves |
| `properties` | 2 commands or edits of 2 actors, in a project that was never run, was run, or has an edit whose rebuild was killed | what a skipped sync may skip, what becomes of the user's properties and marks, what the dashboard shows |
| `stack` | 2 projects whose names are alike in three ways, 2 commands at a time, one of the projects searched and labelled | orphans, confinement of deletions, shared services, the registry |
| `serving` | about 1500 projects that are only generated, 5 that are served, 2 or 3 commands of 2 people, 4 ports | a file that holds together; ready, reindex, patches, initializers |
| `sharing` | 2 terminals, 2 subdomains, 3 providers, 3 commands | whether what is open can be found and closed |
| `snapshots` | 1 document and the database's files, 2 snapshot directories, 2 attempts, 3 database modes | what a snapshot holds, what a restore gives and keeps |
| `monitor` | a jar and a client extension with a container, a remote node, 2 builds in all, 2 timers and `ldm deploy`, failing copies | no event is forgotten; what was copied by one at a time is the last build, here and on the node |
| `node_power` | a workflow machine and a laptop, one node with an instance and one without, 4 hours around the beginning of both windows, one fault | promises are kept where commands do not overlap; nodes go down |

Two commands, or two people, are enough where what disturbs is one command that
leaves something behind or writes while another works. `sharing`
has three because there a third command meets what two that overlapped have left;
`properties` begins with what an earlier one has left (`AfterARun` in `MCProperties`).
In `monitor` the builds are no more than the timers, so that there is a timer for every
event and a leads-to is never discharged by the bound.
In `snapshots` one document is on each side of every step in turn, since it may be
written or deleted at any of them; `SnapshotsProofs` has any number. What a portal
writes that was started in the middle of a restore is followed from the end of the
restore only (`Working`).

Bounds in the guards: `MaxRuns` (commands of a pipeline), `Commands` (commands and
edits that are begun; `commands` in a project's record in `Serving`), `MaxChanges`
and `MaxBuilds` (builds), `MaxTimers`, `MaxFaults`, `First..Last` (the clock).
Parameters of the code that are smaller here: `Retries` (5 there, 1 here),
`Snapshots!Attempts` (3 there, 2 here), `Stack!Repairs` (2 there, 1 here): one
attempt that is followed by another and one that is the last, but for
the lock, where a second attempt begins as the first did and the theorem has any number.
Symmetry is used among files, processes,
projects' names, terminals or people, in runs that check invariants and step
properties only.

Configurations of `serving`: `Usual` (in `Serving`) says of which projects
`FileHoldsTogether` is true, and `MCServing` assumes it of all the run has, so that TLC
evaluates it. Their extensions are what the two scans make of some archive and some
folder, each has an id of its own, and none that is a service is called like the
project's database; a custom container is not named like the portal and waits for the
portal or another custom container; the domains a gateway advertises or the user lists are
domains, and `LFT_SERVER_URL` names no host on one of them. Left out besides are the "clustered"
archetype, from that property only, since no file of it holds together (section 6), and
in the run's projects custom containers named like another service of LDM (they replace it; the
theorem does not need that). `Misread` names the
cases in which the portal and its tunnel have different addresses: they are in the
code, and listed in section 6.

`CHECK_DEADLOCK FALSE` is used where the system may stop: a command that has exited
and no other begun, a monitor that was stopped, a clock at its bound.

Fairness. `Pipeline`: the process keeps running (weak fairness of its steps); nobody
is forced to press Ctrl+C. `Monitor`: the
observer dispatches its queue, a timer that is due fires, a thread that is not
blocked runs. `NodePower`: time passes, commands go on, and the hourly workflow gets
to run `enforce` again and again (strong fairness of its start, because an hour in
which its machine is free recurs). The other modules have safety properties only and
state no fairness.

## 4. Theorems

TLAPS checks them with the Z3, Zenon and LS4 backends. Each holds for all values of
the constants under the named assumptions of its module.

* `PipelineAndPropertiesProofs`, of the engine: `TypeCorrect`, `RollbackOrderHolds`, `NothingLeftBehindHolds`,
  `ExitCodeHolds`, `StopIsFinalHolds`, and `Refinement` (every behaviour of
  `Pipeline` is one of `Saga`), for any number of stages. The invariant ties
  `executed` to `1..at-1`, `pending` to a prefix of it, and `effect` to both: a
  stage below the rollback's position still stands, one above it is undone unless
  its rollback is in `botched`. None of the properties is inductive alone, because
  none mentions where the walk is.
  Of the properties: `PropertiesAreTyped`, `BypassesAreSound`, `EditsSurvive`,
  `TheInspectorAgrees`, `MarksWereAsked`, for any layers, actors, properties and number
  of commands, with anything in between a command's reads and its writing: all that the
  run checks. What `update_portal_ext()` and
  `remove_portal_ext()` make of a text is proved line by line, by induction over the
  lines (`Rewritten`, `Removed`), up to what they make of a file (`UpdateFile`,
  `RemoveFromFile`). From that and from what the cascade picks (`IsResolved`) follows
  `ResolvedAgain`: the cascade is idempotent, so after a merge another one would change
  nothing, although the merge's result is itself the layer below the host's settings.
  Every step is of one of a few kinds (`Kinds`), and each part of the invariant is shown
  for each kind. No text has a property twice (`PropertiesTypeOK`; without it a mark
  would not belong to one property). A file, the one set aside and the original end with
  no mark, and what they mark was asked for (`MarksAreAsked`; a mark at the end would
  make the next property important). The manifest, and what a command is about to record
  as one, agree with the file they were made of (`RecordsAgree`). One reset at a time
  is past moving the file, and what the user wishes is in the file, or in the one that
  was set aside while a dry reset has none (`WishesAreKept`). What is wished was set
  while nobody held an older text, so it is in every text that is about to be written,
  but for what that command may take away.
* `RunPipelineProofs`: `RunsAreTyped`, `ProjectsSurvive`, `BootsAreAsked`,
  `BootsArePrepared`, for any number of commands. The invariant: between two commands
  the context is a fresh one (`BetweenCommands`); in every phase the flags that the
  rollbacks read tell the truth about a directory with the user's files, an established
  project and one with data (`RollbackIsGuarded`); metadata is written whole and keeps
  the name the volume goes by (`MetadataIsWhole`, `NameIsKept`); the last stamp is the
  release on the data unless the user was told otherwise, and what a command has
  resolved and asked about stays so until it stamps (`StampIsCovered`,
  `CeilingIsKept`); the OSGi state is that of its marker, which a command sets before it
  boots (`StateIsMarked`, `MarkIsSet`).
* `GlobalConfigProofs`, of the lock: `TypeCorrect`, `OneHolderPerFileHolds`,
  `ExcludesOnWindowsHolds`, for any number of
  processes, files and attempts, whatever call fails. The invariant adds that who is
  not refused has attempts left, that two holders of one *file* share it, and that on Windows every
  open file is the one at the path, from which exclusion follows. Of the settings:
  `TheLockIsTheLock` (every behaviour of `ConfigSpec` is one of `FileLock`, so that
  the lock's invariant holds here too), and from it `SettingsStaySound` and
  `QuietSavesKeepTheRest`. `Calm` is: on Windows, and no saver goes without the lock. Every file that is not torn
  is sound, and in a calm `~/.ldmrc` is not torn (`SoundFiles`); two that write at once
  have both asked for the lock (`Locked`), which only one of them can hold; what a
  process remembers is sound (`SoundMemory`); in a calm the temporary file is the one it
  writes (`WritesTemporary`), and who is not stale remembers the file as it is
  (`UpToDate`).
* `ImportAndPowerProofs`, of node power: `TypeCorrect`; `WokenNodeStaysUpHolds`, along
  an invariant for behaviours without overlap: one command at a time, the tag equals
  the promise while the promise lasts, and what a command has decided on is still so
  when it acts; `NightIsAnInterval` and `WeekendIsAnInterval`: the conditions on
  weekday and hour are one interval of the day and one of the week, for every hour.
  Of imports: `ImportsAreTyped`, `ExistingProjectsSurvive`, `CommittedImportsStay`,
  `FailedSyncsAreUndone`. The stages run in order (`EngineInOrder`), so the length of
  `pending` says which rollbacks are still to come, and each part of the invariant is
  about an interval of stages: a refused source never gets past the fourth
  (`RefusedEarly`); only who cleaned a directory treats it as new (`ExistingIsKept`);
  the ninth stage commits what the earlier ones have made, and nothing is taken back
  from then on (`Made`, `CommitIsLast`); the artifact directories are as before until
  they are saved (`FilesAreKept`), the saved copy is there until the rollback that uses
  it (`CopyIsSaved`), and after that rollback the files are back (`SyncIsUndone`).
* `SnapshotsProofs`: `TypeCorrect`, `SnapshotsHoldTheirDocuments`,
  `RestoresGiveTheSnapshot`, `BrokenSnapshotsAreNotRestored`, `SharedRowsSurvive`, for
  any documents, snapshot directories and attempts: all that its run checks. The
  invariant has three parts. `Typed`: an import is tried only while attempts are
  left. `Recording`: of the snapshots that are there (`Kept`) and the one being taken
  (`Begun`), a document the dump names is in the archive or in the copy it will be
  made of, or its file is there and the copy has still to come to it, or it was lost.
  `Restored`: between the reset and the end nobody brings the portal up but a command
  that takes no lock, so the copy on the host (`HostRestored`), library, rows,
  baseline and index are what the last step made them. The last part needs
  `Recording`, because a restore trusts that a whole archive comes with a whole dump.
* `StackProofs`: `QuietUpdatesAreExact`, because every action is one of five kinds of
  change to the registry (`Write`) and those keep that a writer marked quiet is alone
  and writes its aim; and `NoStackIsOrphaned`. Its invariant says that a deletion
  holds the lock of its project until it unlocks (`LocksAreHeld`), that it goes on
  where it was (`DeletionsGoOn`), and that after its sweep there are no containers
  but of those who came past the lock, or whose sweep failed where there was no compose
  file (`DeletedIsGone`). Most actions are a `Walk`:
  they move one command between steps that are not a deletion's and touch neither
  containers nor locks, which one lemma settles for all of them. `Known` (volumes and
  directories are of projects) is kept beside it, for `ldm prune`.
  `SharedServicesAreSpared` and `DeletionsAreConfined` have an invariant of their own
  (`Careful`): no command is to go on, after it has saved the registry, in the middle
  of a prune or of a removal of shared services; what a prune is about to delete is not
  of a project it found; and who removes shared services without `--force` missed only
  running projects it could not know of.
* `SharingAndMonitorProofs`, of sharing: `TypeCorrect` (not listed), `TunnelsAreFound`,
  `StopIsEffective`, `DeadStartIsClosed`, for any terminals and subdomains. The invariant: as long as no
  two commands overlapped there is one (`Alone`); what metadata says belongs to a way
  that was asked for (`Founded`); and containers, compose file and clients are those
  of the recorded provider and subdomain (`Placed`), with what a start has done up to
  each step (`Starting`).
  Of the monitor: `MonitorIsTyped` and `SyncedUnlessOverlappedHolds`, for any artifacts,
  branches, timers and builds. The property says what is so when nothing is left to do;
  the invariant says it of every step on the way. What is not marked as overlapping has
  one worker (`OneAtATime`), so the staging file holds what that worker has read
  (`StagedIsRead`). A build that the observer sees is in the queue, pending, in a
  timer's batch, in somebody's hand, or in its place, and who holds an older one is
  followed by another (`BuildsAreFollowed`). What the command took is in the project, or
  something newer is or is about to be (`PlacedIsThere`), and what it has shipped is on
  the node (`ShippedIsThere`): a mirror that could delete it meets the thread that has
  just cleared its place, and that marks an overlap.
* `ServingProofs`: `ReadyMeansServedHolds`, `ReindexIsNotLostHolds`,
  `PatchesAreInHolds`, `InitializerSurvivesHolds`, for any projects, people and
  numbers of commands. Two parts of the invariant hold always: the records have their
  fields (`Shapes`), and who says the portal is ready has waited or read a stale
  line. The rest (`Quiet`) holds while no two commands overlapped: one command is
  active (`Alone`), the jars in the container are patches, a reindex that is due is on
  record, and what the active command remembers is in order with the disk.
  `FileHoldsTogetherHolds`: every file that a run writes holds together, for any projects
  that are `Usual`, whoever has scanned their extensions before and whatever was killed.
  Its own invariant is `OnRecord`: the ports in the metadata, in each command's copy
  and in the copy of a scan are different for different extensions (`Apart`), an
  extension the scan has passed is in that copy, and a file that is there was made of
  such ports (`FromRecord`). That a built extension says the same in its archive and its
  folder is an induction over the list of descriptors (`DescribedStepwise`, `HeardAll`);
  the rest is what each of the fifteen builders returns (`MergedServices`, `FileIsSound`).
  `CalculatedHeapIsOrdered`: for every size of memory the calculated heap is one a
  JVM accepts.

The assumptions are those the modules name (`NAssumption`, `AttemptsAssumption`, ...):
counts and bounds are natural, `NoFile` is no file, and the other constants are of
their type. Those of `Properties` say that a layer is finitely many properties, that the
keys and values the code names are keys and values, that a mark is no key, and that
`Nothing`, a file that is not there, is neither a text nor a manifest.

Not provable with these tools, and model-checked only: liveness
(`EveryCommandExits`, `EventsAreHandled`, `NodesGoDown`). Every other
property of the passing runs is a theorem. The theorems of the library on induction take an
operator as a parameter, which the backends cannot instantiate; an induction over numbers
is possible through sets (`AllNumbers`: a set with 0 and every successor is all of `Nat`),
and so is what a concatenation of lines (`FlattenSeq`) or a list of descriptors comes to.

## 5. Not modelled

* Texts: images, labels and resource limits of the compose file, messages, reports
  (`diagnostics/doctor.py`, `info.py`), completion, logs.
* Lookup tables and their download (`compatibility.py`, `constants.py`): what they
  decide is an input of `RunPipeline`.
* Remote services: Liferay Cloud (`handlers/cloud.py`), AWS beyond power and tag, AI.
* `cli.py`, `manager.py`: parsing of arguments and dispatch.
* User interface: dashboard beyond its properties, tray, guides, console.
* `docker_tunnel.py`: one ssh child per target and process, closed at exit; no other
  command sees it.
* `diagnostics/upgrade.py`: replaces the program itself, alone, by a rename;
  `handlers/assets.py`: downloads into a cache; `runtime/fragments.py`: one pass over
  the portal's API.
* `handlers/system.py` (`nuke`, `clean`): sequences of deletions without a protocol;
  `rescue --clear-lock` is in `FileLock`.

Of the modelled components, `PROJECT.json` says in each note what is left out.

## 6. Seen on the way

One run refutes a sentence of the repository's documents (`forced_downgrade`, under "Run
pipeline"). What follows is what the code does, met while
modelling. Items marked (m) are behaviours of the models, excused by name in a
property or outside what it says; the others are from reading.

Locks, settings, monitor, power:

* On posix two processes can hold the project lock, since `release` unlinks the path
  after it has unlocked the file (`utils.py:5019`; m).
* Load and save of `~/.ldmrc` lock separately, so one of two concurrent changes is
  lost; a load that is refused the lock loses all other settings (m).
* `ldm config` reads and writes `~/.ldmrc` without the lock, through the temporary
  file the locked savers use (`handlers/config.py:1420`, `1545`; m).
* The first `ldm defaults` copies the whole root of the file into the `defaults`
  block, after which `ldm config set` of those keys is refused; a reset of all
  defaults goes on after a failed save and still reports success (m).
* `target add` ignores every failure of the Docker context, `target set` re-pins a
  project without moving anything, `target migrate` writes back a whole copy of the
  metadata and discards what `cmd_run` returns.
* Two timer threads of the monitor, or one and `ldm deploy`, copy one artifact
  through one staging file, and an older build can end up deployed over a newer one
  (m). The monitor's jars go to `deploy/`, those of `ldm deploy` to `osgi/modules`:
  two copies.
* A batch of `ldm deploy` with a container extension only brings it up: a remote node
  never gets it. A mirror of the monitor that runs while another thread has an
  extension removed deletes it on the node; `rsync --delete` may delete the command's
  `.ldm-partial`; `run` ignores what `sync_project_to_target` returns (`run.py:2732`).
* When inotify runs out of watches for a later branch, the replacement observer does
  not watch the earlier ones (`workspace/monitor.py:238`; m); a polling observer
  never descends into `build`, where the jars are (`monitor.py:157`; m).
* Any `OSError` refuses the lock, a file that another user left behind or a full disk
  too, and the message says that another instance is running (`utils.py:4974`); a
  `FileLock` whose write and close fail removes the path of a lock it never had (m).
* `enforce` reads the tag, and `wake` may write it before the power-off (m).

Run pipeline:

* The guard against downgrades compares the metadata's own tag, before the asked one
  is resolved (`run.py:672`), so `ldm run --tag <older>` boots an older release on newer
  data without `--force-downgrade`; `docs/how-to/version_upgrades.md:90` says "By default,
  LDM blocks downgrades entirely". `DowngradeIsForced` says what the document says, and
  `forced_downgrade` finds it violated; `ReleaseIsAsked` says what the guard does keep. The
  guards of
  PostgreSQL and MySQL compare the recorded tag's version likewise (m).
* A run refused because its name is registered elsewhere removes the other project's
  entry on rollback (`run.py:591`; m).
* `ldm run <new>` that fails keeps the directory: `root_existed` (`run.py:496`) is
  recorded after the project lock has created it (m).
* A database container that has exited stops the last stage without an error and
  the command exits 0 (`run.py:2940`; m).
* A pre-upgrade backup that failed only warns (`run.py:2029`). `last_run_*` is
  stamped before the boot, so a retried upgrade runs without the offer (m).
* A restore of samples or of a snapshot writes the snapshot's tag, and the run then
  writes its own older copy of the metadata over it (m).
* Persisted OSGi state is wiped and marked while the old stack still runs, wipe errors
  suppressed (`run.py:1852-1885`; m). Without `--persist-osgi` the state is in the
  named volume `<name>-state`, which no change of tag wipes;
  `docs/reference/advanced_cli.md:16` calls it anonymous.
* Inactive tags are checked up to a limit, and then an unchecked one may be returned
  (m). A cache of tags that cannot be parsed is never written again; it is written in
  place, without a lock (`utils.py:2309-2323`).
* Failed writes of metadata only warn. Hosts entries are cleaned up by a pattern that
  never matches those LDM writes (`handlers/base.py:313`, `470`); only
  `--clean-hosts` removes them. `init --samples` restores even with `--no-up`.

Import:

* The lock of `import` and `init-from` creates the directory before it is looked at:
  every such import is one into an existing directory, asks whether to overwrite it,
  and leaves it behind when it fails (m).
* A copy of `VolumeSyncStage` that fails half-way leaves an existing project's
  artifact directories mixed: the stage that raised is not rolled back, and the copy
  it had taken is thrown away (m).
* "[n]o (skip existing)" still overwrites modules, configurations and services, and
  `configs/<env>/deploy`; "[c]lean" removes the lock file under its holder (m).
* Interrupted between the discard of the scratch directories and the commit, the
  rollback finds no copy to put back (`import_pipeline.py:1251`; m).
* `FinalizationStage` ignores what `cmd_run` returns: the import exits 0 (m). The
  package of a GitHub release is imported without any rollback (m).
* `ldm clone <url>` without a project imports into `clone_<time>` and then runs one
  named after the repository (`importer.py:825`); `--build` builds after the
  workspace was copied.

Snapshot and restore:

* The reset comes before the look at the snapshot: a restore that is refused for a
  wrong checksum or a missing archive has already wiped the project. "Original data
  has been preserved." is printed whether or not a baseline could be imported (m).
* A snapshot taken while the database is down has no dump and says nothing; its
  restore wipes the database and says "Restore complete.". `errorlevel = 0` hides a
  partial extraction. A snapshot that failed leaves its directory (m).
* Every `ldm run` lays the host's `data/` over the live volume, so a Hypersonic
  database is rewound and deleted files come back (`run.py:1887`,
  `volumes.py:138`; m); a failed copy out of the volume at most warns, and the
  snapshot archives the stale copy (m).
* The archive holds the whole shared search backup repository, and a restore lays it
  over the present one. `prune` splits names of search snapshots at dashes and takes
  those of live projects with a dash in their name for orphans (`prune.py:518`).
* `reset data` only stops the containers, so the volume they hold cannot be removed
  and only the host's copy goes; `reset` of data or database alone leaves a stale
  index without a reindex. `package --latest` packs a broken snapshot directory.

Stack and registry:

* The registry is read, changed and written without a lock through one temporary
  file; a torn file is an empty registry, and the next write loses all other entries
  (m). Projects unknown to it lose their running containers to `ldm prune`, which
  takes no lock and takes any container `*-db` of an unknown prefix for an orphan (m).
* A deletion of a project without `docker-compose.yml` has its sweep only, and removes the
  directory whether or not the containers are gone (`orchestration.py:1079`; m).
* The sweep of `cmd_down` by name takes the containers of project `<name>-x` too, and
  two names that differ in a dash and an underscore share a database (m). A failed
  `DROP` and a failed remote `compose down` do not stop a deletion; a search index is
  not deleted with its project; the lock goes before the entry and the directory (m).
* `stop`, `restart` and `down` with `--all`, `reset`, `reseed`, `init`, `link`,
  `clone` take no project lock.
* The shared search data can be wiped on the evidence of an old scan; the indices of
  stopped projects go with it (m).

Compose and extensions:

* The clustered archetype's second node waits for service `db`, the file calls it
  `<project>-db`: no file of that archetype is accepted (`composer.py:1996`; m).
* The public address is resolved without the project's id (`composer.py:1724`), so a
  domain in the project's metadata only gives a portal that builds its addresses on
  another domain than its tunnel's. With `--share-domain <host on a known domain>`
  the sidecar takes the argument as typed and dials the default gateway
  (`composer.py:1837`). With an `LFT_SERVER_URL` on a known domain the portal's address
  is cut to the domain and the sidecar dials the URL as it is (`share.py:1190`). A custom
  domain is never among the valid hosts (m).
* Overriding `jvm_heap_max` alone below the calculated minimum gives `-Xms` above
  `-Xmx`. A custom container can replace a service of its name. Scaled services keep
  a fixed port; Kibana's and the inspector's are the same for every project.
* The scan of an archive asks for `deploy`, that of a folder does not (the composer
  does); a folder left from a time when its archive was a service keeps its
  container (m); which OAuth code wins depends on the order in the archive (m).
* Two extensions of a first run that want one port get two, but a whole write of the
  metadata by the run drops what the scan has stored (`handlers/base.py:585`; m).

Serving:

* A startup line of an earlier boot makes a wait ready at once; a time-out, or a
  keyword from an old log, clears the reindex flag; `reindex` and then `wait` clears
  it without a reindex; `_wait_for_ready` writes back metadata read minutes ago (m).
* Two overlapping waits can lose a deferred initializer (m). Containers that were
  created and not started after a failed patch boot half patched with `ldm start`, and
  the next run reports ready over them (m). Removed patches stay.
* `ldm wait` can die on the address because earlier phases used the whole budget, and
  succeeds although bundles or processor timed out.

Sharing:

* Share commands take no project lock and write whole metadata (m). A native start
  does not record its provider, so `share stop` can miss the client; another
  `--subdomain` loses the old one; a start that fails in `up` leaves `share = true`;
  `restart --force-recreate` after `share stop` reopens a sidecar (m).
* `stop` and `down` leave the native client running, and the next run dies "already
  running". `pause_background_syncs` exists nowhere, so the pause of a tunnel event
  never happens (`share.py:2690`).

Properties:

* The file is read, changed and written whole, by the dashboard without the project's
  lock: what a command or another edit wrote in between is undone, and a manifest can be
  recorded of a text no sync has seen (`config.py:350-423`, `1024`; m). Two writers share
  the temporary name of `safe_write_text`, which the model does not have.
* A value once taken from the global or local layer sticks in the project's file;
  `ldm config feature --disable` never removes the flag (`handlers/config.py:2255`);
  a user who sets a key back to its baseline is overruled by the global layer (m).
* Removing a doubly marked key leaves a mark that makes the next property important;
  a dry reset really moves the file; a reset refused by validation deletes the
  customisations; the inspector orders host updates and the file differently (m).
* `env`, `ssl` and `config revert` hold a copy of the metadata over prompts and
  restarts, and write it back whole (m). Switching the database of an established
  project dies in `validate_properties`.

Upgrade: `ldm upgrade --repair` does nothing (`diagnostics/upgrade.py:190`;
`docs/reference/cli/system.md:154` says it downloads again); a checksum that cannot
be fetched only warns (`upgrade.py:440`).

## 7. Plan

Done: the engine with its abstract specification, the run and import pipelines on it,
locks, settings, monitor, node power, snapshot and restore, registry and stack,
compose and serving, sharing, properties. Worth doing next:

1. An abstract restore ("all of the snapshot, or refused") that `Snapshots`
   implements, and the restore of an import as an instance of it.
2. Remote nodes: what a project's files on a node are after `run`, `deploy`, `down`
   and `target migrate` from two machines.
3. The dashboard's child processes.
