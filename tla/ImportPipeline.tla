--------------------------- MODULE ImportPipeline ---------------------------
(***************************************************************************)
(* `ldm import`, `link`, `clone`, `init-from`: the nine stages of          *)
(* pipelines/import_pipeline.py driven by the stage engine of Pipeline,    *)
(* over the project directory they import into -- its metadata, its        *)
(* artifact directories -- the project's database, and the scratch         *)
(* directories kept beside it.  Around the stages stands what              *)
(* workspace/importer.py does outside the engine: it downloads an archive, *)
(* clones a repository, or imports the package of a GitHub release itself, *)
(* with no stage and no rollback.  Several imports run one after the other *)
(* into the same directory; each may be refused, fail, be interrupted or   *)
(* be killed at any step.                                                  *)
(*                                                                         *)
(* What a directory holds is told by where it came from: 1 is the project  *)
(* or the user before all this, k + 1 the k-th import, 0 nothing.          *)
(***************************************************************************)
EXTENDS Naturals, Sequences

CONSTANT MaxRuns     \* bound: imports run one after the other

ASSUME MaxRunsAssumption == MaxRuns \in Nat \ {0}

VARIABLES
  phase, at, executed, stopped, errors, inFlight, pending, undone, botched,
  verdict, exitStatus,   \* the engine's
  outer,      \* how far cmd_import around the stages has come
  step,       \* how far execute() of stage `at` has come
  args,       \* where the source is, what it holds, and who takes the lock
  ctx,        \* what the stages pass on in the context
  runs,       \* imports started
  dir,        \* the project directory exists
  meta,       \* whose metadata it has
  files,      \* whose files its artifact directories hold
  data,       \* whose data its database holds
  scratch,    \* scratch directories of this import that exist
  before      \* the project as this import found it

engineVars == <<phase, at, executed, stopped, errors, inFlight, pending,
                undone, botched, verdict, exitStatus>>
project == <<dir, meta, files, data>>
world == <<project, scratch>>
importVars == <<engineVars, outer, step, args, ctx, runs, world, before>>

StageCount == 9
E == INSTANCE Pipeline WITH
  N <- StageCount, ExitCodes <- {1, 5},
  effect <- [s \in 1..StageCount |-> "absent"]

KillCode == 137
Origin == 1..(MaxRuns + 1)
Me == runs + 1

\* Directories the copies of VolumeSyncStage spare in "skip existing" mode
\* (deploy, files, scripts, client extensions), and those they do not
\* (osgi/configs, osgi/modules, services).
Groups == {"spared", "overwritten"}
NoFiles == [g \in Groups |-> {}]
Files == [Groups -> SUBSET Origin]

\* The source is at hand, behind the URL of an archive, a package of a GitHub
\* release, or a repository to clone.
Sources ==
  [local |-> {"package", "archive", "folder"}, url |-> {"package", "archive"},
   release |-> {"package"}, clone |-> {"folder"}]

\* "damaged": not what the checksum beside it says (a source with no checksum,
\* or imported with --no-verify, counts as sound).  "unreadable": the manifest
\* of a package does not parse.  "misdeclared": it contradicts what the package
\* ships, or the repository it was downloaded from.
Payloads ==
  [folder |-> {"sound"}, archive |-> {"sound", "damaged"},
   package |-> {"sound", "damaged", "unreadable", "misdeclared"}]

\* The commands `import` and `init-from` take the project lock, `link`, `clone`
\* and `quickstart` do not.
Args ==
  {a \in [way : DOMAIN Sources, source : DOMAIN Payloads,
          payload : Payloads["package"], locks : BOOLEAN] :
     a.source \in Sources[a.way] /\ a.payload \in Payloads[a.source]}

\* ImportPipelineContext.__init__; `saved` is volume_sync_saved, `answer` what
\* was answered to "exists. Overwrite? [y]es, [n]o (skip existing), [c]lean".
NewContext ==
  [isNew |-> FALSE, answer |-> "Y", tempDirs |-> {}, hasSaved |-> FALSE,
   saved |-> NoFiles, committed |-> FALSE]

Scratch == {"import", "volsync", "download", "clone", "package"}

ImportTypeOK ==
  /\ phase \in {"execute", "rollback", "returned", "exited"}
  /\ at \in 1..(StageCount + 1)
  /\ outer \in {"start", "located", "fetching", "verified", "laidOut",
                "importing", "restoring", "restored", "over"}
  /\ step \in {"start", "unpacking", "located", "chosen", "laidOut",
               "described", "identified", "reset", "extracted", "saving",
               "saved", "syncing", "configured", "discarded", "committed"}
  /\ args \in Args
  /\ ctx \in [isNew : BOOLEAN, answer : {"Y", "N", "C"},
              tempDirs : SUBSET {"import", "volsync"}, hasSaved : BOOLEAN,
              saved : Files, committed : BOOLEAN]
  /\ runs \in 1..MaxRuns
  /\ dir \in BOOLEAN
  /\ meta \in Origin \cup {0}
  /\ files \in Files
  /\ ~dir => meta = 0 /\ files = NoFiles
  /\ data \in SUBSET Origin
  /\ scratch \in SUBSET Scratch

\* No directory, a folder of the user's, or a project.
ImportInit ==
  /\ phase = "execute" /\ at = 1 /\ executed = << >> /\ stopped = FALSE
  /\ errors = << >> /\ inFlight = E!NoException /\ pending = << >>
  /\ undone = << >> /\ botched = {} /\ verdict = "none" /\ exitStatus = 0
  /\ outer = "start" /\ step = "start"
  /\ args \in Args
  /\ ctx = NewContext
  /\ runs = 1
  /\ dir \in BOOLEAN
  /\ meta \in IF dir THEN {0, 1} ELSE {0}
  /\ files \in IF dir THEN {NoFiles, [g \in Groups |-> {1}]} ELSE {NoFiles}
  /\ data = IF meta = 1 THEN {1} ELSE {}
  /\ scratch = {}
  /\ before = [dir |-> dir, meta |-> meta, files |-> files, data |-> data]

-----------------------------------------------------------------------------
(* Shorthands for a step of execute()                                      *)

InStage(s, label) ==
  outer = "importing" /\ E!Executing /\ at = s /\ step = label

\* execute() goes on: the engine stays where it is.
Continue(label) ==
  step' = label /\ UNCHANGED <<engineVars, outer, args, runs, before>>

\* execute() returns.
Return ==
  E!Advance(FALSE) /\ step' = "start" /\ UNCHANGED <<outer, args, runs, before>>

\* What a directory may hold once the import's files were copied into it: they
\* were added to what was there, or replaced it.
Copied(old, overwrite) == {old \cup {Me}} \cup (IF overwrite THEN {{Me}} ELSE {})

-----------------------------------------------------------------------------
(* Around the stages: cmd_import                                           *)

\* A step outside the engine, from one point of cmd_import to another.
Outside(from, to) ==
  /\ outer = from /\ phase = "execute"
  /\ outer' = to
  /\ UNCHANGED <<engineVars, step, args, ctx, runs, before>>

\* The process ends outside the engine.
ExitOutside(status) ==
  /\ phase' = "exited"
  /\ exitStatus' = status
  /\ UNCHANGED <<at, executed, stopped, errors, inFlight, pending, undone,
                 botched, verdict>>

BeginImport ==
  /\ args.way = "local"
  /\ Outside("start", "importing")
  /\ UNCHANGED world

\* _download_remote_archive
StartDownload ==
  /\ args.way = "url"
  /\ Outside("start", "fetching")
  /\ scratch' = scratch \cup {"download"}
  /\ UNCHANGED project

\* detect_project_path(for_init = True), and whoever runs is stopped.
LocateRepository ==
  /\ args.way \in {"clone", "release"}
  /\ Outside("start", "located")
  /\ dir' = (dir \/ args.locks)
  /\ UNCHANGED <<meta, files, data, scratch>>

StartClone ==
  /\ args.way = "clone"
  /\ Outside("located", "fetching")
  /\ scratch' = scratch \cup {"clone"}
  /\ UNCHANGED project

\* The package of a GitHub release: one directory to download into, one to
\* extract into.
StartPackage ==
  /\ args.way = "release"
  /\ Outside("located", "fetching")
  /\ scratch' = scratch \cup {"package"}
  /\ UNCHANGED project

\* What was downloaded or cloned is imported like any source at hand.
ImportFetched ==
  /\ args.way \in {"url", "clone"}
  /\ Outside("fetching", "importing")
  /\ UNCHANGED world

\* Checksum, manifest and origin, all before the project is touched; whatever
\* is wrong ends the import.
VerifyPackage ==
  /\ args.way = "release" /\ args.payload = "sound"
  /\ Outside("fetching", "verified")
  /\ UNCHANGED world

\* _hydrate_ldm_package_to_project
LayOutPackage ==
  /\ Outside("verified", "laidOut")
  /\ dir' = TRUE
  /\ UNCHANGED <<meta, files, data, scratch>>

RecordPackage ==
  /\ Outside("laidOut", "restoring")
  /\ meta' = Me
  /\ UNCHANGED <<dir, files, data, scratch>>

\* The package is in, and started when it brings a database; both scratch
\* directories go.
FinishPackage ==
  /\ outer = "restored" /\ phase = "execute"
  /\ outer' = "over"
  /\ ExitOutside(0)
  /\ scratch' = {}
  /\ UNCHANGED <<step, args, ctx, runs, project, before>>

\* Anything outside the stages fails: the download, the clone, a verification,
\* the restore of a release's package.  The `finally` blocks remove what was
\* fetched; nothing is rolled back.
FailOutside ==
  /\ outer \notin {"importing", "over"} /\ phase = "execute"
  /\ outer' = "over"
  /\ ExitOutside(1)
  /\ scratch' = {}
  /\ UNCHANGED <<step, args, ctx, runs, project, before>>

-----------------------------------------------------------------------------
(* 1. validation, 2. ImportValidationStage, 4. PackageVerificationStage,
   8. BuildWorkspaceStage: they read, refuse, and build in the source
   workspace.                                                              *)

\* Both only read: the container runtime, the names asked for.
Prepare ==
  /\ InStage(1, "start")
  /\ Return
  /\ UNCHANGED <<ctx, world>>

\* The source exists, has a known suffix, and is what its checksum says.
ValidateSource ==
  /\ InStage(2, "start") /\ args.payload # "damaged"
  /\ Return
  /\ UNCHANGED <<ctx, world>>

\* A manifest that contradicts the package is corrected or reported.
VerifyManifest ==
  /\ InStage(4, "start") /\ args.payload # "unreadable"
  /\ Return
  /\ UNCHANGED <<ctx, world>>

\* `--build`, in the source workspace, whose files are in the project by now.
BuildWorkspace ==
  /\ InStage(8, "start")
  /\ Return
  /\ UNCHANGED <<ctx, world>>

(* 3. ExtractionStage                                                      *)

UseFolder ==
  /\ InStage(3, "start") /\ args.source = "folder"
  /\ Return
  /\ UNCHANGED <<ctx, world>>

\* The directory is in temp_dirs before anything is unpacked into it.
CreateScratch ==
  /\ InStage(3, "start") /\ args.source # "folder"
  /\ scratch' = scratch \cup {"import"}
  /\ ctx' = [ctx EXCEPT !.tempDirs = @ \cup {"import"}]
  /\ Continue("unpacking")
  /\ UNCHANGED project

Unpack ==
  /\ InStage(3, "unpacking")
  /\ Return
  /\ UNCHANGED <<ctx, world>>

(* 5. ProjectSetupStage                                                    *)

\* detect_project_path: the project lock lies in <root>/.liferay-docker.
LocateProject ==
  /\ InStage(5, "start")
  /\ dir' = (dir \/ args.locks)
  /\ Continue("located")
  /\ UNCHANGED <<ctx, meta, files, data, scratch>>

UseNewDirectory ==
  /\ InStage(5, "located") /\ ~dir
  /\ ctx' = [ctx EXCEPT !.isNew = TRUE]
  /\ Continue("chosen")
  /\ UNCHANGED world

\* Mutant: the directory counts as this import's own whoever made it.
KeepDirectoryAsNew ==
  /\ InStage(5, "located") /\ dir
  /\ \E a \in {"Y", "N"} : ctx' = [ctx EXCEPT !.isNew = TRUE, !.answer = a]
  /\ Continue("chosen")
  /\ UNCHANGED world

KeepDirectory ==
  /\ InStage(5, "located") /\ dir
  /\ \E a \in {"Y", "N"} : ctx' = [ctx EXCEPT !.answer = a]
  /\ Continue("chosen")
  /\ UNCHANGED world

\* safe_rmtree, and from there on it is a new project.
CleanDirectory ==
  /\ InStage(5, "located") /\ dir
  /\ dir' = FALSE /\ meta' = 0 /\ files' = NoFiles
  /\ ctx' = [ctx EXCEPT !.isNew = TRUE, !.answer = "C"]
  /\ Continue("chosen")
  /\ UNCHANGED <<data, scratch>>

\* The removal stops half-way; is_brand_new is not set.
CleanPartly ==
  /\ InStage(5, "located") /\ dir
  /\ E!Fail(E!Error)
  /\ meta' \in {0, meta}
  /\ files' \in {NoFiles, files}
  /\ ctx' = [ctx EXCEPT !.answer = "C"]
  /\ UNCHANGED <<outer, step, args, runs, dir, data, scratch, before>>

MakeDirectories ==
  /\ InStage(5, "chosen")
  /\ dir' = TRUE
  /\ Continue("laidOut")
  /\ UNCHANGED <<ctx, meta, files, data, scratch>>

\* The tag and database type of the manifest, and for a workspace the product
\* that gradle.properties names.
DescribeProject ==
  /\ InStage(5, "laidOut")
  /\ Continue("described")
  /\ UNCHANGED <<ctx, world>>

\* The linked workspace and its cloud project; a cloud project that cannot be
\* told refuses the import (FailStage).
IdentifyCloudProject ==
  /\ InStage(5, "described")
  /\ Continue("identified")
  /\ UNCHANGED <<ctx, world>>

WriteMeta ==
  /\ InStage(5, "identified")
  /\ meta' = Me
  /\ Return
  /\ UNCHANGED <<ctx, dir, files, data, scratch>>

(* 6. DatabaseRestoreStage: cmd_restore of the package                     *)

\* Of a package the engine imports, or of a release's.
AtRestore(label) ==
  \/ InStage(6, label) /\ args.source = "package"
  \/ outer = "restoring" /\ phase = "execute" /\ step = label

EndRestore ==
  IF outer = "importing"
  THEN Return
  ELSE /\ outer' = "restored" /\ step' = "start"
       /\ UNCHANGED <<engineVars, args, runs, before>>

SkipRestore ==
  /\ InStage(6, "start") /\ args.source # "package"
  /\ Return
  /\ UNCHANGED <<ctx, world>>

\* cmd_reset wipes the project's data first, unless the project has neither
\* containers nor a compose file (its scaffolding failed).
ResetProject ==
  /\ AtRestore("start")
  /\ data' \in {{}, data}
  /\ Continue("reset")
  /\ UNCHANGED <<ctx, dir, meta, files, scratch>>

ExtractPackage ==
  /\ AtRestore("reset")
  /\ files' \in [Groups -> SUBSET Origin]
  /\ \A g \in Groups : files'[g] \in Copied(files[g], TRUE)
  /\ Continue("extracted")
  /\ UNCHANGED <<ctx, dir, meta, data, scratch>>

RestoreDatabase ==
  /\ AtRestore("extracted")
  /\ data' = {Me}
  /\ EndRestore
  /\ UNCHANGED <<ctx, dir, meta, files, scratch>>

(* 7. VolumeSyncStage                                                      *)

LeaveToRestore ==
  /\ InStage(7, "start") /\ args.source = "package"
  /\ Return
  /\ UNCHANGED <<ctx, world>>

\* A brand-new project needs no copy of what it holds.
SkipSnapshot ==
  /\ InStage(7, "start") /\ args.source # "package" /\ ctx.isNew
  /\ Continue("saved")
  /\ UNCHANGED <<ctx, world>>

BeginSnapshot ==
  /\ InStage(7, "start") /\ args.source # "package" /\ ~ctx.isNew
  /\ scratch' = scratch \cup {"volsync"}
  /\ Continue("saving")
  /\ UNCHANGED <<ctx, project>>

\* Only a complete copy is remembered, and only then is it in temp_dirs.
EndSnapshot ==
  /\ InStage(7, "saving")
  /\ ctx' = [ctx EXCEPT !.hasSaved = TRUE, !.saved = files,
                        !.tempDirs = @ \cup {"volsync"}]
  /\ Continue("saved")
  /\ UNCHANGED world

SyncSpared ==
  /\ InStage(7, "saved")
  /\ \E c \in Copied(files["spared"], ctx.answer # "N") :
       files' = [files EXCEPT !["spared"] = c]
  /\ Continue("syncing")
  /\ UNCHANGED <<ctx, dir, meta, data, scratch>>

\* configs/<environment> of the workspace goes over what is there, in either
\* mode and in both groups; a workspace may have none.
SyncConfigs ==
  /\ InStage(7, "syncing")
  /\ files' \in [Groups -> SUBSET Origin]
  /\ \A g \in Groups : files'[g] \in {files[g]} \cup Copied(files[g], TRUE)
  /\ Continue("configured")
  /\ UNCHANGED <<ctx, dir, meta, data, scratch>>

\* Mutant: the copy is taken when the stage is done.
SyncOverwrittenThenSave ==
  /\ InStage(7, "configured")
  /\ \E c \in Copied(files["overwritten"], TRUE) :
       files' = [files EXCEPT !["overwritten"] = c]
  /\ ctx' = [ctx EXCEPT !.saved = files']
  /\ Return
  /\ UNCHANGED <<dir, meta, data, scratch>>

SyncOverwritten ==
  /\ InStage(7, "configured")
  /\ \E c \in Copied(files["overwritten"], TRUE) :
       files' = [files EXCEPT !["overwritten"] = c]
  /\ Return
  /\ UNCHANGED <<ctx, dir, meta, data, scratch>>

(* 9. FinalizationStage                                                    *)

DiscardScratch ==
  /\ InStage(9, "start")
  /\ scratch' = scratch \ ctx.tempDirs
  /\ Continue("discarded")
  /\ UNCHANGED <<ctx, project>>

\* import_committed: nothing from here on may undo the import.
Commit ==
  /\ InStage(9, "discarded")
  /\ ctx' = [ctx EXCEPT !.committed = TRUE]
  /\ Continue("committed")
  /\ UNCHANGED world

\* --no-run, or cmd_run (RunPipeline): False, when the start failed, is not
\* looked at; what it raises fails this stage.
StartProject ==
  /\ InStage(9, "committed")
  /\ Return
  /\ UNCHANGED <<ctx, world>>

-----------------------------------------------------------------------------
(* Failures and rollbacks                                                  *)

\* UI.die: the engine treats every code but 5 alike, so 1 stands for them.
Refusal == E!SystemExit(1)

\* Any step may be refused, blow up or be interrupted; before the commit point
\* FinalizationStage can only be interrupted.
FailStage ==
  /\ outer = "importing"
  /\ \E e \in {E!Error, E!KeyboardInterrupt, Refusal} :
       /\ at = 9 /\ ~ctx.committed => e = E!KeyboardInterrupt
       /\ E!Fail(e)
  /\ UNCHANGED <<outer, step, args, ctx, runs, world, before>>

RollingBack(s) == phase = "rollback" /\ pending # << >> /\ E!Last(pending) = s

\* What the restore of the saved copy leaves: each directory is removed, and
\* copied back if the scratch directory is still there.
Restored == IF "volsync" \in scratch THEN ctx.saved ELSE NoFiles

\* VolumeSyncStage.rollback
RestoreFiles ==
  /\ RollingBack(7)
  /\ E!UndoStage
  /\ files' = IF ~ctx.committed /\ ctx.hasSaved THEN Restored ELSE files
  /\ UNCHANGED <<outer, step, args, ctx, runs, dir, meta, data, scratch,
                 before>>

\* Mutant: the rollback does not look at import_committed.
RemovableAlways == ctx.isNew /\ dir

Removable == ~ctx.committed /\ ctx.isNew /\ dir

\* ProjectSetupStage.rollback
RemoveProject ==
  /\ RollingBack(5)
  /\ E!UndoStage
  /\ IF Removable
     THEN dir' = FALSE /\ meta' = 0 /\ files' = NoFiles
     ELSE UNCHANGED <<dir, meta, files>>
  /\ UNCHANGED <<outer, step, args, ctx, runs, data, scratch, before>>

\* ExtractionStage.rollback: every directory in temp_dirs by now.
RemoveScratch ==
  /\ RollingBack(3)
  /\ E!UndoStage
  /\ scratch' = scratch \ ctx.tempDirs
  /\ UNCHANGED <<outer, step, args, ctx, runs, project, before>>

\* The restore or the removal raises, or is interrupted, half-way.
BotchRollback ==
  /\ \/ /\ RollingBack(7) /\ ~ctx.committed /\ ctx.hasSaved
        /\ files' \in {files, NoFiles, Restored}
        /\ UNCHANGED meta
     \/ /\ RollingBack(5) /\ Removable
        /\ meta' \in {0, meta}
        /\ files' \in {NoFiles, files}
  /\ E!BotchUndo \/ E!AbandonRollback
  /\ UNCHANGED <<outer, step, args, ctx, runs, dir, data, scratch, before>>

\* The other stages have nothing of their own to undo.
RollBackNothing ==
  /\ \E s \in {1, 2, 4, 6, 8} : RollingBack(s)
  /\ E!UndoStage
  /\ UNCHANGED <<outer, step, args, ctx, runs, world, before>>

HandOver ==
  /\ outer = "importing"
  /\ \/ E!Complete
     \/ E!FinishRollback
     \/ E!AbandonRollback
  /\ UNCHANGED <<outer, step, args, ctx, runs, world, before>>

\* die_if_the_pipeline_failed; what was downloaded or cloned goes either way,
\* and a clone that went well is started.
Leave ==
  /\ E!ExitProcess
  /\ outer' = "over"
  /\ scratch' = scratch \ {"download", "clone"}
  /\ UNCHANGED <<step, args, ctx, runs, project, before>>

\* kill -9, or the machine goes down.
KillImport ==
  /\ phase \in {"execute", "rollback", "returned"}
  /\ phase' = "exited"
  /\ exitStatus' = KillCode
  /\ verdict' = "raise"
  /\ outer' = "over"
  /\ UNCHANGED <<at, executed, stopped, errors, inFlight, pending, undone,
                 botched, step, args, ctx, runs, world, before>>

\* The next import; scratch directories are named by their time.
NextCommand ==
  /\ outer = "over" /\ runs < MaxRuns
  /\ runs' = runs + 1
  /\ args' \in Args
  /\ ctx' = NewContext
  /\ outer' = "start" /\ step' = "start"
  /\ phase' = "execute" /\ at' = 1 /\ executed' = << >> /\ stopped' = FALSE
  /\ errors' = << >> /\ inFlight' = E!NoException /\ pending' = << >>
  /\ undone' = << >> /\ botched' = {} /\ verdict' = "none" /\ exitStatus' = 0
  /\ scratch' = {}
  /\ before' = [dir |-> dir, meta |-> meta, files |-> files, data |-> data]
  /\ UNCHANGED project

Fetch ==
  \/ BeginImport
  \/ StartDownload \/ LocateRepository \/ StartClone \/ ImportFetched
Package ==
  \/ StartPackage \/ VerifyPackage \/ LayOutPackage \/ RecordPackage
  \/ FinishPackage
Check == Prepare \/ ValidateSource \/ VerifyManifest \/ BuildWorkspace
Extract == UseFolder \/ CreateScratch \/ Unpack
SetUp ==
  \/ LocateProject
  \/ UseNewDirectory \/ KeepDirectory \/ CleanDirectory \/ CleanPartly
  \/ MakeDirectories
  \/ DescribeProject \/ IdentifyCloudProject \/ WriteMeta
Restore == SkipRestore \/ ResetProject \/ ExtractPackage \/ RestoreDatabase
Sync ==
  \/ LeaveToRestore
  \/ SkipSnapshot \/ BeginSnapshot \/ EndSnapshot
  \/ SyncSpared \/ SyncConfigs \/ SyncOverwritten
Finalize == DiscardScratch \/ Commit \/ StartProject

ImportNext ==
  \/ Fetch \/ Package \/ FailOutside
  \/ Check \/ Extract \/ SetUp \/ Restore \/ Sync \/ Finalize
  \/ FailStage
  \/ RestoreFiles \/ RemoveProject \/ RemoveScratch \/ RollBackNothing
  \/ BotchRollback
  \/ HandOver \/ Leave
  \/ KillImport
  \/ NextCommand

ImportSpec == ImportInit /\ [][ImportNext]_importVars

-----------------------------------------------------------------------------
(* Properties                                                              *)

\* The command failed and its rollback walk went all the way.
Unwound ==
  /\ phase = "exited" /\ exitStatus # KillCode
  /\ errors # << >> /\ pending = << >> /\ botched = {}

Cleaned == before.dir /\ ctx.answer = "C"
Workspace == args.source # "package"

\* What verification must refuse: a release's package that is not what it says
\* in any respect, any other source with a wrong checksum or an unreadable
\* manifest.
Refused ==
  args.payload \in IF args.way = "release"
                   THEN Payloads["package"] \ {"sound"}
                   ELSE {"damaged", "unreadable"}

\* Importing into a directory the user already had never deletes it or its
\* metadata, whatever fails, unless the user chose [c]lean (import_pipeline.py,
\* ProjectSetupStage.rollback); and a source that verification refuses changes
\* nothing of the project, whichever way it came (LDM-#1621: the stages and the
\* release's own path verify the manifest in two places).
ExistingProjectSurvives ==
  /\ before.dir /\ ~Cleaned => dir /\ (before.meta # 0 => meta # 0)
  /\ Refused =>
       meta = before.meta /\ files = before.files /\ data = before.data

\* Past import_committed nothing undoes the import: not a start that fails,
\* not Ctrl-C during it, not the rollbacks either of them sets off (LDM-#1630).
CommittedImportStays ==
  ctx.committed =>
    /\ dir /\ meta = Me
    /\ ~Workspace => data = {Me}

\* When an import of a workspace into an existing project fails after its
\* files were copied, what the artifact directories held is back -- as long
\* as the copy is still there (LDM-#1677).
FailedSyncIsUndone ==
  Unwound /\ Workspace /\ at > 7 /\ ~ctx.committed /\ ~Cleaned
  /\ ctx.hasSaved /\ step # "discarded" => files = before.files
=============================================================================
