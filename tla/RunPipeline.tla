---------------------------- MODULE RunPipeline ----------------------------
(***************************************************************************)
(* `ldm run` / `ldm init`: the seven stages of pipelines/run.py driven by  *)
(* the stage engine of Pipeline, over the things the stages share with the *)
(* next command: the project directory, its `meta` file, the registry      *)
(* entry of the project's name, the containers that carry that name, the   *)
(* database volume and the OSGi state kept on the host.                    *)
(* Several commands run one after the other, each                          *)
(* with arguments of its own; any of them may be refused, fail, be         *)
(* interrupted or be killed at any step.                                   *)
(*                                                                         *)
(* Another project of the same name may be registered from another         *)
(* directory.  Versions are Liferay releases in their order; 0 is none.    *)
(* What a command is asked on its command line or at a prompt is chosen    *)
(* where the code looks at it.                                             *)
(***************************************************************************)
EXTENDS Naturals, Sequences, FiniteSets

CONSTANTS
  Versions,   \* releases a project may run, positive and ordered
  Legacy,     \* those from before the quarterly releases
  Claims,     \* what packages claim: the releases tried, and how they fared
  MaxRuns     \* bound: commands run one after the other

ASSUME VersionsAssumption ==
  /\ Versions \subseteq Nat \ {0} /\ Legacy \subseteq Versions
  /\ \A old \in Legacy, new \in Versions \ Legacy : old < new
ASSUME ClaimsAssumption ==
  Claims \subseteq [verified : SUBSET Versions, refuted : SUBSET Versions]
ASSUME MaxRunsAssumption == MaxRuns \in Nat \ {0}

VARIABLES
  phase, at, executed, stopped, errors, inFlight, pending, undone, botched,
  verdict, exitStatus,   \* the engine's
  step,       \* how far execute() of stage `at` has come
  noUp,       \* the command does not start the stack (`ldm init`, --no-up)
  ctx,        \* what the stages pass on in the context, project_meta included
  runs,       \* commands started
  dir,        \* the project directory exists
  meta,       \* its metadata file
  registry,   \* which directory the registry gives for the project's name
  stack,      \* whose containers carry the project's name
  data,       \* release that last booted on this project's database
  volume,     \* container name the volume of that database goes by
  osgi,       \* the host's OSGi state: whose bundles, and the tag marked on it
  other,      \* the project that shares the name
  established, \* this command found metadata and the registry entry
  userFiles,  \* the directory held the user's own files from the start
  told        \* what makes up for a rule the next boot breaks, see Excuses

engineVars == <<phase, at, executed, stopped, errors, inFlight, pending,
                undone, botched, verdict, exitStatus>>
world == <<dir, meta, registry, stack, data, volume, osgi, other>>
rest == <<volume, osgi, other>>
history == <<established, userFiles, told>>
vars == <<engineVars, step, noUp, ctx, runs, world, history>>

StageCount == 7
E == INSTANCE Pipeline WITH
  N <- StageCount, ExitCodes <- {1, 5},
  effect <- [s \in 1..StageCount |-> "absent"]

NoClaim == [verified |-> {}, refuted |-> {}]
NoMeta ==
  [tag |-> 0, lastRun |-> 0, container |-> "none", claim |-> NoClaim,
   overridden |-> FALSE, persist |-> FALSE]
HasMeta == meta # NoMeta
KillCode == 137

\* The project's own container name, or one chosen with --container.
Names == {"own", "chosen"}
Metas ==
  [tag : Versions \cup {0}, lastRun : Versions \cup {0},
   container : Names \cup {"none"}, claim : Claims \cup {NoClaim},
   overridden : BOOLEAN, persist : BOOLEAN]
Owners == {"none", "here", "other"}
NoBundles == [bundles |-> 0, marker |-> 0]

\* RunPipelineContext.__init__; `meta` is project_meta, `asked` that a flag or
\* an answer chose the release, `forced` that --force-downgrade was needed.
NewContext ==
  [isNew |-> FALSE, rootExisted |-> TRUE, initSuccess |-> FALSE,
   asked |-> FALSE, forced |-> FALSE, tag |-> 0, meta |-> NoMeta]

\* What happened since the last boot: "forced", a command past the guard against
\* downgrades stamped a release older than the data; "older", one did that was
\* asked for the release; "newer", one noticed an upgrade; "restored", a
\* snapshot replaced the data; "leftovers", the OSGi state was not wiped clean,
\* or a running portal wrote it again.
Excuses == {"forced", "older", "newer", "restored", "leftovers"}

\* A claim has a ceiling when some release was tried above all that worked.
HasCeiling(claim) ==
  /\ claim.verified # {}
  /\ \E r \in claim.refuted : \A v \in claim.verified : r > v

ExceedsCeiling(claim, tag) ==
  HasCeiling(claim) /\ \A v \in claim.verified : tag > v

TypeOK ==
  /\ phase \in {"execute", "rollback", "returned", "exited"}
  /\ at \in 1..(StageCount + 1)
  /\ step \in {"idle", "start", "located", "resolved", "matched", "claimed",
               "flagged", "reachable", "checked", "laidOut", "seeded",
               "registered", "verified", "wiped", "marked", "noticed",
               "compared", "restoring", "restored", "stamped", "up", "pinned"}
  /\ noUp \in BOOLEAN
  /\ ctx \in [isNew : BOOLEAN, rootExisted : BOOLEAN, initSuccess : BOOLEAN,
              asked : BOOLEAN, forced : BOOLEAN, tag : Versions \cup {0}, meta : Metas]
  /\ runs \in 1..MaxRuns
  /\ dir \in BOOLEAN /\ (HasMeta => dir)
  /\ meta \in Metas
  /\ registry \in Owners
  /\ stack \in Owners
  /\ data \in Versions \cup {0}
  /\ volume \in Names
  /\ osgi \in [bundles : Versions \cup {0}, marker : Versions \cup {0}]
  /\ told \subseteq Excuses
  /\ other \in [exists : BOOLEAN, same : BOOLEAN]

\* A new directory name, a folder of the user's own, or a project that was
\* made (or moved here) earlier; the name free, taken, or left behind in the
\* registry by a directory that is gone.
Init ==
  /\ phase = "execute" /\ at = 1 /\ executed = << >> /\ stopped = FALSE
  /\ errors = << >> /\ inFlight = E!NoException /\ pending = << >>
  /\ undone = << >> /\ botched = {} /\ verdict = "none" /\ exitStatus = 0
  /\ step = "start"
  /\ noUp \in BOOLEAN
  /\ ctx = NewContext
  /\ runs = 1
  /\ userFiles \in BOOLEAN
  /\ dir = userFiles
  /\ \/ meta = NoMeta /\ data = 0 /\ osgi = NoBundles
     \/ userFiles /\ \E v \in Versions, c \in Claims :
          /\ ~ExceedsCeiling(c, v)
          /\ meta = [NoMeta EXCEPT !.tag = v, !.lastRun = v, !.claim = c,
                                  !.container = "own", !.persist = TRUE]
          /\ data = v
          /\ osgi = [bundles |-> v, marker |-> v]
  /\ volume = "own"
  /\ registry \in {"none", "other"}
  /\ other \in [exists : BOOLEAN, same : BOOLEAN]
  /\ other.same => HasMeta
  /\ registry = "none" => ~other.exists /\ ~other.same
  /\ stack \in {"none"} \cup (IF other.exists THEN {"other"} ELSE {})
  /\ established = FALSE
  /\ told = {}

-----------------------------------------------------------------------------
(* Shorthands for a step of execute()                                      *)

InStage(s, label) == E!Executing /\ at = s /\ step = label

\* execute() goes on: the engine stays where it is.
Continue(label) ==
  step' = label /\ UNCHANGED <<engineVars, noUp, runs, history>>

\* execute() returns, possibly having set context.stopped.
Return(stop) ==
  /\ E!Advance(stop)
  /\ step' = "start"
  /\ UNCHANGED <<noUp, runs, history>>

\* execute() raises: of the context, only what the rollback reads stays.
Raise(e) ==
  /\ E!Fail(e)
  /\ step' = "start"
  /\ ctx' = [NewContext EXCEPT !.isNew = ctx.isNew,
                !.rootExisted = ctx.rootExisted,
                !.initSuccess = ctx.initSuccess]
  /\ UNCHANGED <<noUp, runs, world, history>>

-----------------------------------------------------------------------------
(* 1. ProjectInitializationStage, 2. SharedValidationStage                 *)

\* No project chosen, or no name given at the prompt.
CancelSelection ==
  /\ InStage(1, "start")
  /\ Return(TRUE)
  /\ UNCHANGED <<ctx, world>>

\* detect_project_path: the commands that take the project lock create
\* <root>/.liferay-docker, and with it the project directory.
LocateProject ==
  /\ InStage(1, "start")
  /\ dir' \in {dir, TRUE}
  /\ Continue("located")
  /\ UNCHANGED <<ctx, meta, registry, stack, data, rest>>

ReadProject ==
  /\ InStage(1, "located")
  /\ ctx' = [ctx EXCEPT !.isNew = ~HasMeta, !.rootExisted = dir,
                        !.meta = meta]
  /\ Return(FALSE)
  /\ UNCHANGED world

ValidateTooling ==
  /\ InStage(2, "start")
  /\ Return(FALSE)
  /\ UNCHANGED <<ctx, world>>

(* 3. RuntimeValidationStage                                               *)

AlreadyRunning == ~noUp /\ stack # "none"

\* Compared with project_meta's own tag: the one asked for is resolved later.
DowngradeDetected ==
  /\ ctx.meta.tag # 0 /\ ctx.meta.lastRun # 0
  /\ ctx.meta.tag < ctx.meta.lastRun

\* Non-interactive and already running: exit 5.
ReportAlreadyRunning ==
  /\ InStage(3, "start") /\ AlreadyRunning
  /\ E!ReportNoOp
  /\ UNCHANGED <<step, noUp, runs, ctx, world, history>>

DeclineRestart ==
  /\ InStage(3, "start") /\ AlreadyRunning
  /\ Return(TRUE)
  /\ UNCHANGED <<ctx, world>>

\* Not running, or the user agrees to reconfigure and restart.  A downgrade
\* passes with --force-downgrade only; without one the flag changes nothing.
ValidateRuntime ==
  /\ InStage(3, "start")
  /\ ctx' = [ctx EXCEPT !.forced = DowngradeDetected]
  /\ Return(FALSE)
  /\ UNCHANGED world

(* 4. ConfigResolutionStage                                                *)

\* What the search for quarterly releases lists.
Quarterly(tags) == tags \ Legacy

\* The releases that the narrow search finds and that are of the wanted type,
\* else the wide one's, else the release index's.  A request that fails lists
\* nothing, and no more pages are read.
Found(narrow, wide, index) ==
  CASE narrow # {} -> narrow
    [] narrow = {} /\ wide # {} -> wide
    [] OTHER -> index

\* Only of the older releases the registry is asked whether it withdrew them.
Withdrawn(inactive) == Legacy \cap inactive

MaxInactiveTagChecks == 3

\* The newest, a quarterly one if there is any; so many withdrawn ones are
\* passed over, and then the next is taken as it is.
Discovered(found, inactive) ==
  LET ranked == IF Quarterly(found) # {} THEN Quarterly(found) ELSE found
      Newer(v) == {w \in ranked : w > v}
      skipped == {v \in ranked : /\ Newer(v) \cup {v} \subseteq Withdrawn(inactive)
                                /\ Cardinality(Newer(v)) < MaxInactiveTagChecks}
  IN  {v \in ranked \ skipped : Newer(v) \subseteq skipped}

\* --tag, --tag-latest or --tag-prefix, else the project's tag, else the latest
\* release discovered; a cached answer was discovered within a day.
ResolveTag ==
  /\ InStage(4, "start")
  /\ \/ \E v \in Versions : ctx' = [ctx EXCEPT !.tag = v, !.asked = TRUE]
     \/ /\ ctx.meta.tag # 0
        /\ ctx' = [ctx EXCEPT !.tag = ctx.meta.tag]
     \/ /\ ctx.meta.tag = 0
        /\ \E narrow \in SUBSET Quarterly(Versions), wide, index \in SUBSET Versions,
               inactive \in SUBSET Legacy :
             \E tag \in Discovered(Found(narrow, wide, index), inactive) :
               ctx' = [ctx EXCEPT !.tag = tag]
  /\ Continue("resolved")
  /\ UNCHANGED world

\* No workspace, the same product, or the user keeps what was resolved.
KeepTag ==
  /\ InStage(4, "resolved")
  /\ Continue("matched")
  /\ UNCHANGED <<ctx, world>>

\* The workspace pins another product, and the user takes it.
TakeWorkspaceProduct ==
  /\ InStage(4, "resolved") /\ ~ctx.asked
  /\ \E pinned \in Versions \ {ctx.tag} :
       ctx' = [ctx EXCEPT !.tag = pinned, !.asked = TRUE]
  /\ Continue("matched")
  /\ UNCHANGED world

PassCeiling ==
  /\ InStage(4, "matched") /\ ~ExceedsCeiling(ctx.meta.claim, ctx.tag)
  /\ Continue("claimed")
  /\ UNCHANGED <<ctx, world>>

\* --ignore-verified-ceiling: recorded at once, before the tag is; that the
\* write fails is ignored.
OverrideCeiling ==
  /\ InStage(4, "matched") /\ ExceedsCeiling(ctx.meta.claim, ctx.tag)
  /\ ctx' = [ctx EXCEPT !.meta.overridden = TRUE]
  /\ meta' \in {meta, ctx'.meta}
  /\ Continue("claimed")
  /\ UNCHANGED <<dir, registry, stack, data, rest>>

\* --container names the containers of a project that has none yet.
ApplyFlags ==
  /\ InStage(4, "claimed")
  /\ \E name \in IF ctx.meta.container = "none" THEN Names
                 ELSE {ctx.meta.container} :
       ctx' = [ctx EXCEPT !.meta.container = name]
  /\ Continue("flagged")
  /\ UNCHANGED world

\* _pre_flight_checks, only when the stack is to be started.  The host name
\* resolves to this machine, an entry was added for it, or the user agreed to
\* one that could not be added: what ensure_hostnames_resolve returns is
\* dropped.
ReachHost ==
  /\ InStage(4, "flagged") /\ ~noUp
  /\ Continue("reachable")
  /\ UNCHANGED <<ctx, world>>

\* The port is free, held by this project, or replaced by the next free one.
FindPort ==
  /\ InStage(4, "reachable")
  /\ Continue("checked")
  /\ UNCHANGED <<ctx, world>>

\* project_meta gets the release once nothing is in the way, and whether the
\* OSGi state is kept on the host: by a flag, or as before.
Configured ==
  \E persist \in BOOLEAN :
    ctx' = [ctx EXCEPT !.meta.tag = ctx.tag, !.meta.persist = persist]

PreFlown == InStage(4, "checked") \/ (InStage(4, "flagged") /\ noUp)

NameTaken == registry = "other" /\ ~other.same

\* check_registry_collisions finds nothing in the way: the name is free, is
\* this directory's, or belongs to the directory this project was moved from.
FindNoCollision ==
  /\ PreFlown /\ ~NameTaken
  /\ Configured
  /\ Return(FALSE)
  /\ UNCHANGED world

DropStaleEntry ==
  /\ PreFlown /\ NameTaken /\ ~other.exists
  /\ registry' = "none"
  /\ Configured
  /\ Return(FALSE)
  /\ UNCHANGED <<dir, meta, stack, data, rest>>

\* --overwrite-registry, or "Y" at the prompt: the other stack is torn down.
OverwriteEntry ==
  /\ PreFlown /\ NameTaken /\ other.exists
  /\ registry' = "none"
  /\ stack' = IF stack = "other" THEN "none" ELSE stack
  /\ Configured
  /\ Return(FALSE)
  /\ UNCHANGED <<dir, meta, data, rest>>

ResolveRelease ==
  \/ ResolveTag \/ KeepTag \/ TakeWorkspaceProduct
  \/ PassCeiling \/ OverrideCeiling
  \/ ApplyFlags \/ ReachHost \/ FindPort
ResolveConfig == FindNoCollision \/ DropStaleEntry \/ OverwriteEntry

(* 5. EnvironmentSetupStage                                                *)

\* migrate_layout creates the directories of a project.
LayOut ==
  /\ InStage(5, "start")
  /\ dir' = TRUE
  /\ Continue("laidOut")
  /\ UNCHANGED <<ctx, meta, registry, stack, data, rest>>

\* A new project may be seeded, which writes its metadata at once.
Seed ==
  /\ InStage(5, "laidOut") /\ ctx.isNew
  /\ meta' = ctx.meta
  /\ Continue("seeded")
  /\ UNCHANGED <<ctx, dir, registry, stack, data, rest>>

Seeded == InStage(5, "laidOut") \/ InStage(5, "seeded")

Register ==
  /\ Seeded
  /\ registry' = "here"
  /\ ctx' = [ctx EXCEPT !.initSuccess = ctx.isNew]
  /\ Continue("registered")
  /\ UNCHANGED <<dir, meta, stack, data, rest>>

\* verify_runtime_environment: the project directory can be mounted and
\* written in a container.
VerifyEnvironment ==
  /\ InStage(5, "registered") /\ ~noUp
  /\ Continue("verified")
  /\ UNCHANGED <<ctx, world>>

Verified == InStage(5, "verified") \/ (InStage(5, "registered") /\ noUp)

\* Marked by another release, or --vanilla.  What cannot be removed is
\* ignored, the marker goes with the rest, and a stack that runs, which a
\* reconfiguration leaves up, may write its bundles again.
WipeState ==
  /\ Verified /\ ctx.meta.persist
  /\ \E left \in {0, osgi.bundles} :
       /\ osgi' = [bundles |-> left, marker |-> 0]
       /\ told' = IF left = 0 THEN told \ {"leftovers"}
                  ELSE told \cup {"leftovers"}
  /\ step' = "wiped"
  /\ UNCHANGED <<engineVars, noUp, ctx, runs, dir, meta, registry, stack, data,
                 volume, other, established, userFiles>>

\* Mutant: any marker will do.
KeepMarked ==
  /\ Verified /\ ctx.meta.persist /\ osgi.marker # 0
  /\ Continue("wiped")
  /\ UNCHANGED <<ctx, world>>

KeepState ==
  /\ Verified /\ ctx.meta.persist /\ osgi.marker = ctx.tag
  /\ Continue("wiped")
  /\ UNCHANGED <<ctx, world>>

MarkState ==
  /\ InStage(5, "wiped")
  /\ osgi' = [osgi EXCEPT !.marker = ctx.tag]
  /\ Continue("marked")
  /\ UNCHANGED <<ctx, dir, meta, registry, stack, data, volume, other>>

SetUpEnvironment ==
  /\ InStage(5, "marked") \/ (Verified /\ ~ctx.meta.persist)
  /\ meta' = ctx.meta
  /\ Return(FALSE)
  /\ UNCHANGED <<ctx, dir, registry, stack, data, rest>>

(* 6. ComposerStage                                                        *)

\* Compared with the last run, which project_meta was read with.
Upgrading == ctx.meta.lastRun # 0 /\ ctx.tag > ctx.meta.lastRun

NoticeUpgrade ==
  /\ InStage(6, "start") /\ Upgrading
  /\ told' = told \cup {"newer"}
  /\ step' = "noticed"
  /\ UNCHANGED <<engineVars, noUp, ctx, runs, world, established, userFiles>>

\* The database is started for the snapshot; that the snapshot fails is only
\* a warning.
BackUpFirst ==
  /\ InStage(6, "noticed") /\ stack # "other"
  /\ stack' = "here"
  /\ Continue("compared")
  /\ UNCHANGED <<ctx, dir, meta, registry, data, rest>>

DeclineBackup ==
  /\ InStage(6, "noticed")
  /\ Continue("compared")
  /\ UNCHANGED <<ctx, world>>

Compared == InStage(6, "compared") \/ (InStage(6, "start") /\ ~Upgrading)

WriteCompose ==
  /\ Compared
  /\ meta' = ctx.meta
  /\ Return(FALSE)
  /\ UNCHANGED <<ctx, dir, registry, stack, data, rest>>

(* 7. ExecutionStage                                                       *)

\* --samples or --snapshot: the database is started and a snapshot of any
\* release restored, even with --no-up.
RestoreData ==
  /\ InStage(7, "start") /\ stack # "other"
  /\ data' \in Versions
  /\ volume' = meta.container
  /\ stack' = "here"
  /\ told' = told \cup {"restored"}
  /\ step' = "restoring"
  /\ UNCHANGED <<engineVars, noUp, ctx, runs, dir, meta, registry, osgi, other, established, userFiles>>

\* The restore records the snapshot's release, when the snapshot names one;
\* project_meta does not hear of it.
RecordRestored ==
  /\ InStage(7, "restoring")
  /\ meta' \in {meta, [meta EXCEPT !.tag = data, !.lastRun = data]}
  /\ Continue("restored")
  /\ UNCHANGED <<ctx, dir, registry, stack, data, rest>>

Provided == InStage(7, "start") \/ InStage(7, "restored")

FinishWithoutUp ==
  /\ Provided /\ noUp
  /\ Return(FALSE)
  /\ UNCHANGED <<ctx, world>>

\* Mutant: the stamp is kept in memory until the next write_meta.
StampInMemory ==
  /\ Provided /\ ~noUp
  /\ ctx' = [ctx EXCEPT !.meta.lastRun = ctx.meta.tag]
  /\ Continue("stamped")
  /\ UNCHANGED <<dir, meta, registry, stack, data, rest>>

\* last_run_* is written before anything is started.
StampRun ==
  /\ Provided /\ ~noUp
  /\ ctx' = [ctx EXCEPT !.meta.lastRun = ctx.meta.tag]
  /\ meta' = ctx'.meta
  /\ step' = "stamped"
  /\ told' = told \cup
       (IF ctx.meta.tag >= data THEN {}
        ELSE IF ctx.forced THEN {"forced"}
        ELSE IF ctx.asked THEN {"older"} ELSE {})
  /\ UNCHANGED <<engineVars, noUp, runs, dir, registry, stack, data, rest,
                 established, userFiles>>

\* The database container exited: context.stopped, and execute() returns.
DependencyExited ==
  /\ InStage(7, "stamped")
  /\ Return(TRUE)
  /\ UNCHANGED <<ctx, world>>

\* docker compose up.  It fails when another project's containers have the
\* name, and then ends like any other step that raises.
BringUp ==
  /\ InStage(7, "stamped") /\ stack # "other"
  /\ stack' = "here"
  /\ data' = ctx.meta.tag
  /\ volume' = ctx.meta.container
  /\ osgi' = IF ctx.meta.persist THEN [osgi EXCEPT !.bundles = ctx.meta.tag]
             ELSE osgi
  /\ told' = told \cap {"leftovers"}
  /\ step' = "up"
  /\ UNCHANGED <<engineVars, noUp, ctx, runs, dir, meta, registry, other,
                 established, userFiles>>

\* The container has the MAC its node pins, when it pins one.
VerifyPin ==
  /\ InStage(7, "up")
  /\ Continue("pinned")
  /\ UNCHANGED <<ctx, world>>

\* The portal answers, or nothing is waited for; a deferred announcement
\* writes project_meta.
BecomeReady ==
  /\ InStage(7, "pinned")
  /\ meta' = ctx.meta
  /\ Return(FALSE)
  /\ UNCHANGED <<ctx, dir, registry, stack, data, rest>>

-----------------------------------------------------------------------------
(* Failures                                                                *)

\* UI.die: the engine treats every code but 5 alike, so 1 stands for them.
Refusal == E!SystemExit(1)

\* Any step may be refused, blow up or be interrupted.
FailStage ==
  /\ E!Executing /\ step # "idle"
  /\ \E e \in {E!Error, E!KeyboardInterrupt, Refusal} : Raise(e)

\* Mutant: the rollback does not ask whether the initialisation succeeded.
UnwoundAlways == TRUE

Unwound == ctx.isNew /\ ~ctx.initSuccess

\* ProjectInitializationStage.rollback.  unregister_project removes whatever
\* entry the name has.
RollBackInitialization ==
  /\ phase = "rollback" /\ pending # << >> /\ E!Last(pending) = 1
  /\ E!UndoStage
  /\ IF Unwound
     THEN /\ dir' = (dir /\ ctx.rootExisted)
          /\ meta' = IF ctx.rootExisted THEN meta ELSE NoMeta
          /\ registry' = "none"
     ELSE UNCHANGED <<dir, meta, registry>>
  /\ UNCHANGED <<step, noUp, ctx, runs, stack, data, rest,
                 history>>

\* The delete raises half-way: the directory or what is left of it stays, and
\* so does the registry entry.
BotchInitializationRollback ==
  /\ phase = "rollback" /\ pending # << >> /\ E!Last(pending) = 1
  /\ Unwound /\ dir /\ ~ctx.rootExisted
  /\ E!BotchUndo
  /\ \/ UNCHANGED meta
     \/ meta' = NoMeta
  /\ UNCHANGED <<step, noUp, ctx, runs, dir, registry, stack, data,
                 rest, history>>

\* The other stages have nothing of their own to undo.
RollBackNothing ==
  /\ phase = "rollback" /\ pending # << >> /\ E!Last(pending) # 1
  /\ E!UndoStage
  /\ UNCHANGED <<step, noUp, ctx, runs, world, history>>

HandOver ==
  /\ \/ E!Complete
     \/ E!FinishRollback
     \/ E!AbandonRollback
     \/ E!ExitProcess
  /\ UNCHANGED <<step, noUp, ctx, runs, world, history>>

\* kill -9, or the machine goes down.
Kill ==
  /\ phase \in {"execute", "rollback"} /\ step # "idle"
  /\ phase' = "exited"
  /\ exitStatus' = KillCode
  /\ verdict' = "raise"
  /\ UNCHANGED <<at, executed, stopped, errors, inFlight, pending, undone,
                 botched, step, noUp, ctx, runs, world, history>>

-----------------------------------------------------------------------------
(* Between two commands                                                    *)

\* The process is gone, and another may come.
Leave ==
  /\ phase = "exited" /\ runs < MaxRuns
  /\ ctx' = NewContext /\ noUp' = FALSE
  /\ step' = "idle"
  /\ phase' = "execute" /\ at' = 1 /\ executed' = << >> /\ stopped' = FALSE
  /\ errors' = << >> /\ inFlight' = E!NoException /\ pending' = << >>
  /\ undone' = << >> /\ botched' = {} /\ verdict' = "none" /\ exitStatus' = 0
  /\ established' = FALSE
  /\ UNCHANGED <<runs, world, userFiles, told>>

\* The containers are stopped, or stop by themselves.
StackStops ==
  /\ step = "idle" /\ stack # "none"
  /\ stack' = "none"
  /\ UNCHANGED <<engineVars, step, noUp, ctx, runs, dir, meta, registry, data,
                 rest, history>>

\* workspace/versioning.py rewrites the project's tag.
BumpVersion ==
  /\ step = "idle" /\ HasMeta
  /\ \E v \in Versions \ {meta.tag} : meta' = [meta EXCEPT !.tag = v]
  /\ UNCHANGED <<engineVars, step, noUp, ctx, runs, dir, registry, stack, data,
                 rest, history>>

NextCommand ==
  /\ step = "idle"
  /\ runs' = runs + 1
  /\ noUp' \in BOOLEAN
  /\ step' = "start"
  /\ established' = (HasMeta /\ registry = "here")
  /\ UNCHANGED <<engineVars, ctx, world, userFiles, told>>

Initialize == CancelSelection \/ LocateProject \/ ReadProject
CheckRuntime == ReportAlreadyRunning \/ DeclineRestart \/ ValidateRuntime
SetUp ==
  \/ LayOut \/ Seed \/ Register \/ VerifyEnvironment
  \/ WipeState \/ KeepState \/ MarkState \/ SetUpEnvironment
Compose == NoticeUpgrade \/ BackUpFirst \/ DeclineBackup \/ WriteCompose
Execute ==
  \/ RestoreData \/ RecordRestored
  \/ FinishWithoutUp \/ StampRun \/ DependencyExited \/ BringUp
  \/ VerifyPin \/ BecomeReady

Next ==
  \/ Initialize
  \/ ValidateTooling
  \/ CheckRuntime
  \/ ResolveRelease \/ ResolveConfig
  \/ SetUp
  \/ Compose
  \/ Execute
  \/ FailStage
  \/ RollBackInitialization \/ BotchInitializationRollback \/ RollBackNothing
  \/ HandOver
  \/ Kill
  \/ Leave \/ StackStops \/ BumpVersion \/ NextCommand

Spec == Init /\ [][Next]_vars

-----------------------------------------------------------------------------
(* Properties                                                              *)

\* Adopting a folder of the user's own never ends in its deletion, whatever
\* fails, in any sequence of commands (LDM-#1630, run.py:569-589).  A project
\* that has metadata and its registry entry keeps both through any later
\* command, however it ends: a failed reconfiguration does not make a working
\* project undiscoverable.  And its containers keep the name that its volumes
\* go by, so that no release boots beside the data (run.py:1184-1214).
EstablishedProjectSurvives ==
  /\ userFiles => dir
  /\ established => HasMeta /\ registry = "here"
  /\ data # 0 => meta.container = volume

\* A step that starts the portal.
Boots == step # "up" /\ step' = "up"

\* The release a run boots is older than the data only if a command was forced
\* to or asked for a release by name, or a snapshot was restored: metadata
\* rewritten between two commands does not get past the guard, even after a
\* crash; nor is a newer one booted that no command noticed to be an upgrade
\* (run.py:645-735, 1952-1962).  It is above the ceiling of the package the
\* project came from only when the metadata says that this was overridden
\* (LDM-#1791), whether the release came from the command line, the metadata or
\* the workspace.  A release asked for by name is excused here because the
\* guard does not see it: see DowngradeIsForced.
ReleaseIsAsked ==
  [][Boots =>
       /\ data' < data => told \cap {"forced", "older", "restored"} # {}
       /\ data # 0 /\ data' > data => told \cap {"newer", "restored"} # {}
       /\ ~ExceedsCeiling(meta.claim, data') \/ meta.overridden]_vars

\* "By default, LDM blocks downgrades entirely [...] you must pass the override
\* flag" (docs/how-to/version_upgrades.md:90): an older release is booted on a
\* database only past the guard, or where a snapshot brought the data.  The
\* code does not keep this: the guard (run.py:672-682) looks at the tag in the
\* metadata, and --tag is resolved only in the next stage.
DowngradeIsForced ==
  [][Boots /\ data' < data => told \cap {"forced", "restored"} # {}]_vars

\* A portal boots on OSGi state kept on the host that is empty or its own,
\* whatever was switched or killed half-way between two boots (run.py:1852-1885),
\* unless that state could not be wiped or was written again since.
BootIsPrepared ==
  [][Boots /\ ctx.meta.persist /\ "leftovers" \notin told =>
       osgi.bundles \in {0, data'}]_vars
=============================================================================
