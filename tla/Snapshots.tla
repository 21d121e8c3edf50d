------------------------------ MODULE Snapshots ------------------------------
(***************************************************************************)
(* `ldm snapshot` and `ldm restore` (handlers/snapshot.py, snapshot/) over *)
(* one project: its document library (the files in the data volume, which  *)
(* a snapshot copies to data/ on the host and a restore or a run copies    *)
(* back), its database (the rows that name those files), its part of the   *)
(* shared search index, its snapshot directories, and the portal, which    *)
(* goes on working while a snapshot is taken.  Commands take the project   *)
(* lock, so one runs at a time -- but `ldm reset` and the commands with    *)
(* --all take none, and neither does `ldm prune`.  A command may fail at   *)
(* any step or be killed between any two of them.                          *)
(***************************************************************************)
EXTENDS Naturals

CONSTANTS
  Docs,       \* documents
  Database,   \* the files of a hypersonic database
  Names,      \* bound: names (times) of snapshot directories
  Attempts    \* imports of the dump that are tried (3 in the code)

ASSUME AttemptsAssumption == Attempts \in Nat \ {0}
ASSUME DatabaseAssumption == Database \notin Docs

VARIABLES
  mode,       \* the database: in files of the project, in a container of the
              \* project, in a container that projects share
  portal,     \* the portal is running
  dbUp,       \* the database answers
  rows,       \* documents the database names
  store,      \* documents whose file is in the document library
  host,       \* documents whose file is in data/ on the host
  hostDb,     \* the database's files in data/ on the host
  index,      \* the project's part of the shared search index: it is of the rows,
              \* of another time, or to be built anew (reindex_required)
  snaps,      \* the snapshot directories
  step,       \* how far the command has come
  snap,       \* the snapshot directory it works on
  todo,       \* what the copy out of the volume has not come to yet
  baseline,   \* the dump taken before the import
  tries,      \* imports that failed
  was,        \* history: the rows when the restore tore the project down
  flawed      \* history: extraction errors were suppressed, or the project
              \* was started or reset in the middle of the restore

project == <<mode, portal, dbUp, rows, store>>
copies == <<host, hostDb>>
command == <<step, snap, todo, baseline, tries, was, flawed>>
vars == <<project, copies, index, snaps, command>>

Taking == {"created", "asked", "dumped", "copying", "copied", "archiving", "archived"}
Restoring == {"chosen", "down", "wiped", "verified", "extracted", "hydrated", "ready",
              "trying", "cleared", "failed", "imported", "indexed"}
Ending == {"refused", "dying", "reinstated", "restored"}

Dump == [state : {"none", "partial", "whole"}, rows : SUBSET Docs]
NoDump == [state |-> "none", rows |-> {}]

\* database.sql with its rows; files.tar.gz with its documents and, when the
\* database is files, the rows; its checksum file.  lost: history, documents
\* of the dump whose file was missing then, or was deleted after it, or could not
\* be copied out of the volume, which is at most warned about.
Snapshot ==
  [exists : BOOLEAN, db : {"none", "partial", "whole"}, rows : SUBSET Docs,
   files : {"none", "partial", "whole"}, store : SUBSET Docs,
   sha : BOOLEAN, damaged : BOOLEAN, lost : SUBSET Docs]
NoSnapshot ==
  [exists |-> FALSE, db |-> "none", rows |-> {}, files |-> "none",
   store |-> {}, sha |-> FALSE, damaged |-> FALSE, lost |-> {}]

TypeOK ==
  /\ mode \in {"hypersonic", "isolated", "shared"}
  /\ portal \in BOOLEAN
  /\ dbUp \in BOOLEAN
  /\ rows \in SUBSET Docs
  /\ store \in SUBSET Docs
  /\ host \in SUBSET Docs
  /\ hostDb \in Dump
  /\ index \in {"current", "stale", "due"}
  /\ snaps \in [Names -> Snapshot]
  /\ step \in {"idle"} \cup Taking \cup Restoring \cup Ending
  /\ snap \in Names
  /\ todo \in SUBSET (Docs \cup {Database})
  /\ baseline \in Dump
  /\ tries \in 0..Attempts
  /\ was \in SUBSET Docs
  /\ flawed \in BOOLEAN
  /\ step # "idle" => snaps[snap].exists

Init ==
  /\ mode \in {"hypersonic", "isolated", "shared"}
  /\ portal = FALSE
  /\ dbUp = (mode # "isolated")
  /\ rows = {} /\ store = {}
  /\ host = {} /\ hostDb = NoDump
  /\ index = "current"
  /\ snaps = [n \in Names |-> NoSnapshot]
  /\ step = "idle"
  /\ snap \in Names
  /\ todo = {} /\ baseline = NoDump /\ tries = 0
  /\ was = {} /\ flawed = FALSE

Files == mode = "hypersonic"

-----------------------------------------------------------------------------
(* The portal, the database and the disk                                   *)

\* Bound: what a portal does that was started in the middle of a restore is
\* followed only from the restore's end on.
Working == portal /\ dbUp /\ ~flawed

\* The portal keeps a document's file before its row is committed, and until
\* after its row is gone.
StoreFile(d) ==
  /\ Working /\ d \notin store /\ d \notin rows
  /\ store' = store \cup {d}
  /\ UNCHANGED <<mode, portal, dbUp, rows, copies, index, snaps, command>>

CommitRow(d) ==
  /\ Working /\ d \in store
  /\ rows' = rows \cup {d}
  /\ UNCHANGED <<mode, portal, dbUp, store, copies, index, snaps, command>>

DeleteRow(d) ==
  /\ Working /\ d \in rows
  /\ rows' = rows \ {d}
  /\ UNCHANGED <<mode, portal, dbUp, store, copies, index, snaps, command>>

\* The documents of the dump that are lost while a snapshot is taken.
Losing(S) ==
  snaps' = IF step \in Taking
           THEN [snaps EXCEPT ![snap].lost = @ \cup (S \cap snaps[snap].rows)]
           ELSE snaps

DeleteFile(d) ==
  /\ Working /\ d \in store /\ d \notin rows
  /\ store' = store \ {d}
  /\ Losing({d})
  /\ UNCHANGED <<mode, portal, dbUp, rows, copies, index, command>>

DatabaseStops ==
  /\ ~Files /\ dbUp
  /\ dbUp' = FALSE
  /\ UNCHANGED <<mode, portal, rows, store, copies, index, snaps, command>>

Meddled == flawed' = (flawed \/ step \in (Restoring \ {"chosen"}) \cup Ending)

\* `ldm start` between two commands; `ldm restart --all --force-recreate`, which
\* finds the projects without taking their locks, at any moment.
StartProject ==
  /\ ~portal
  /\ portal' = TRUE
  /\ dbUp' = TRUE
  /\ Meddled
  /\ UNCHANGED <<mode, rows, store, copies, index, snaps, step, snap, todo, baseline, tries, was>>

\* What is in data/ on the host is laid over what is in the volume.
Overlaid == store' = store \cup host
DatabaseOverlaid == rows' = IF Files /\ hostDb.state = "whole" THEN hostDb.rows ELSE rows

OutOfDate == IF index = "due" THEN "due" ELSE "stale"

\* `ldm run`: with what an earlier snapshot or restore left on the host, or
\* without, when the copy fails, which is only warned about.
RunProject ==
  /\ step = "idle"
  /\ \/ Overlaid /\ DatabaseOverlaid
     \/ UNCHANGED <<store, rows>>
  /\ index' = IF rows' # rows THEN OutOfDate ELSE index
  /\ portal' = TRUE
  /\ dbUp' = TRUE
  /\ UNCHANGED <<mode, copies, snaps, command>>

\* The portal boots with the order to index anew.
Reindex ==
  /\ step = "idle" /\ portal /\ index = "due"
  /\ index' = "current"
  /\ UNCHANGED <<project, copies, snaps, command>>

\* `ldm stop --all` takes no lock either.
StopProject ==
  /\ portal
  /\ portal' = FALSE
  /\ dbUp' = (mode # "isolated" /\ dbUp)
  /\ UNCHANGED <<mode, rows, store, copies, index, snaps, command>>

\* `ldm reset all`, which takes no lock: compose down -v, then the data, and
\* the indices, unless the search container is down or refuses.
ResetProject ==
  /\ portal' = FALSE
  /\ dbUp' = (mode # "isolated" /\ dbUp)
  /\ store' = {}
  /\ rows' = IF mode = "shared" THEN rows ELSE {}
  /\ host' = {} /\ hostDb' = NoDump
  /\ index' \in {OutOfDate, index}
  /\ Losing(store \cup host)
  /\ Meddled
  /\ UNCHANGED <<mode, step, snap, todo, baseline, tries, was>>

\* An archive gets corrupted on the disk.
Damage(n) ==
  /\ step = "idle" /\ snaps[n].files = "whole" /\ ~snaps[n].damaged
  /\ snaps' = [snaps EXCEPT ![n].damaged = TRUE]
  /\ UNCHANGED <<project, copies, index, command>>

-----------------------------------------------------------------------------
(* The end of a command                                                    *)

Leave ==
  /\ step' = "idle"
  /\ todo' = {} /\ baseline' = NoDump /\ tries' = 0
  /\ was' = {} /\ flawed' = FALSE
  /\ UNCHANGED snap

Exit ==
  /\ step \in Ending
  /\ Leave
  /\ UNCHANGED <<project, copies, index, snaps>>

\* kill -9, Ctrl-C, a failed call of docker (sys.exit), a full disk.
Kill ==
  /\ step # "idle"
  /\ Leave
  /\ UNCHANGED <<project, copies, index, snaps>>

Goto(label) ==
  /\ step' = label
  /\ UNCHANGED <<snap, todo, baseline, tries, was, flawed>>

-----------------------------------------------------------------------------
(* ldm snapshot                                                            *)

\* cmd_snapshots
Backups == {n \in Names : snaps[n].exists}

\* safe_mkdir(snap_dir); nothing removes it when a later step fails.
CreateSnapshot(n) ==
  /\ step = "idle" /\ n \notin Backups
  /\ snaps' = [snaps EXCEPT ![n] = [NoSnapshot EXCEPT !.exists = TRUE]]
  /\ step' = "created"
  /\ snap' = n
  /\ UNCHANGED <<project, copies, index, todo, baseline, tries, was, flawed>>

\* The shared search container, if it runs, is asked for a snapshot of the
\* project's indices, which it takes in the background.
AskForIndex ==
  /\ step = "created"
  /\ Goto("asked")
  /\ UNCHANGED <<project, copies, index, snaps>>

DumpDatabase ==
  /\ step = "asked" /\ ~Files /\ dbUp
  /\ snaps' = [snaps EXCEPT ![snap] =
                 [@ EXCEPT !.db = "whole", !.rows = rows, !.lost = rows \ store]]
  /\ Goto("dumped")
  /\ UNCHANGED <<project, copies, index>>

\* Without a running database container there is no dump, and no complaint.
SkipDump ==
  /\ step = "asked" /\ (Files \/ ~dbUp)
  /\ Goto("dumped")
  /\ UNCHANGED <<project, copies, index, snaps>>

\* Mutant: a dump that fails does not fail the snapshot.
FailDumpAndGoOn ==
  /\ step = "asked" /\ ~Files
  /\ snaps' = [snaps EXCEPT ![snap].db = "partial"]
  /\ Goto("dumped")
  /\ UNCHANGED <<project, copies, index>>

\* UI.die removes the file, the exit of run_command does not.
FailDump ==
  /\ step = "asked" /\ ~Files
  /\ \E s \in {"none", "partial"} : snaps' = [snaps EXCEPT ![snap].db = s]
  /\ Leave
  /\ UNCHANGED <<project, copies, index>>

\* The wait for it ends, whole or not; then the images of other containers.
AwaitIndex ==
  /\ step = "dumped"
  /\ todo' = IF Files THEN Docs \cup {Database} ELSE Docs
  /\ step' = "copying"
  /\ UNCHANGED <<project, copies, index, snaps, snap, baseline, tries, was,
                 flawed>>

\* The tar that reads the volume comes to the document, if it is there now.  What
\* is on the host already stays.
Copy(d) ==
  /\ step = "copying" /\ d \in todo \ {Database}
  /\ host' = host \cup ({d} \cap store)
  /\ todo' = todo \ {d}
  /\ UNCHANGED <<project, hostDb, index, snaps, step, snap, baseline,
                 tries, was, flawed>>

CopyDatabase ==
  /\ step = "copying" /\ Database \in todo
  /\ hostDb' = [state |-> "whole", rows |-> rows]
  /\ todo' = todo \ {Database}
  /\ UNCHANGED <<project, host, index, snaps, step, snap, baseline,
                 tries, was, flawed>>

EndCopy ==
  /\ step = "copying" /\ todo = {}
  /\ Goto("copied")
  /\ UNCHANGED <<project, copies, index, snaps>>

\* No helper container, or one that breaks off: a warning, or none when it is the
\* tar that reads, and the snapshot goes on with what is on the host.
FailCopy ==
  /\ step = "copying"
  /\ Losing(Docs \ host)
  /\ todo' = {}
  /\ step' = "copied"
  /\ UNCHANGED <<project, copies, index, snap, baseline, tries, was,
                 flawed>>

BeginArchive ==
  /\ step = "copied"
  /\ snaps' = [snaps EXCEPT ![snap].files = "partial"]
  /\ Goto("archiving")
  /\ UNCHANGED <<project, copies, index>>

\* Mutant: the dump is taken when the archive is complete.
EndArchiveThenDump ==
  /\ step = "archiving"
  /\ snaps' = [snaps EXCEPT ![snap] =
                 [@ EXCEPT !.files = "whole", !.rows = rows, !.store = host]]
  /\ Goto("archived")
  /\ UNCHANGED <<project, copies, index>>

\* What is in data/ on the host.
EndArchive ==
  /\ step = "archiving"
  /\ snaps' = [snaps EXCEPT ![snap] =
                 [@ EXCEPT !.files = "whole", !.store = host,
                           !.lost = snaps[snap].lost \ host,
                           !.rows = IF Files THEN hostDb.rows ELSE snaps[snap].rows]]
  /\ Goto("archived")
  /\ UNCHANGED <<project, copies, index>>

\* An archive that lacks something is removed rather than kept.
FailArchive ==
  /\ step = "archiving"
  /\ snaps' = [snaps EXCEPT ![snap].files = "none"]
  /\ Leave
  /\ UNCHANGED <<project, copies, index>>

\* The metadata, then the checksum, unless --no-verify is given.
Seal ==
  /\ step = "archived"
  /\ \E verify \in BOOLEAN : snaps' = [snaps EXCEPT ![snap].sha = verify]
  /\ Leave
  /\ UNCHANGED <<project, copies, index>>

\* ldm snapshot --delete, --keep-last, --older-than
DeleteSnapshot(n) ==
  /\ step = "idle" /\ n \in Backups
  /\ snaps' = [snaps EXCEPT ![n] = NoSnapshot]
  /\ UNCHANGED <<project, copies, index, command>>

-----------------------------------------------------------------------------
(* ldm restore                                                             *)

Chosen == snaps[snap]

ChooseSnapshot(n) ==
  /\ step = "idle" /\ n \in Backups
  /\ step' = "chosen"
  /\ snap' = n
  /\ UNCHANGED <<project, copies, index, snaps, todo, baseline, tries, was,
                 flawed>>

\* cmd_reset(target="all"): compose down -v, which takes the volumes, ...
TearDown ==
  /\ step = "chosen"
  /\ portal' = FALSE
  /\ dbUp' = (mode # "isolated" /\ dbUp)
  /\ store' = {}
  /\ rows' = IF mode = "shared" THEN rows ELSE {}
  /\ index' = OutOfDate
  /\ step' = "down"
  /\ was' = rows
  /\ UNCHANGED <<mode, copies, snaps, snap, todo, baseline, tries,
                 flawed>>

\* Mutant: the reset leaves data/ on the host as it is.
WipeNothing ==
  /\ step = "down"
  /\ Goto("wiped")
  /\ UNCHANGED <<project, copies, index, snaps>>

\* The project's part of the search index after its deletion, which may be
\* refused, and which a reindex still follows that was due.
IndicesDeleted == IF index = "due" THEN {index} ELSE {index, "current"}

\* ... then the volumes that are still there, the data on the host and the
\* indices.
Wipe ==
  /\ step = "down"
  /\ store' = {}
  /\ rows' = IF mode = "shared" THEN rows ELSE {}
  /\ host' = {} /\ hostDb' = NoDump
  /\ index' \in IndicesDeleted
  /\ Goto("wiped")
  /\ UNCHANGED <<mode, portal, dbUp, snaps>>

Sound(verify) == verify /\ Chosen.sha => ~Chosen.damaged

Refuse ==
  /\ step = "wiped"
  /\ Chosen.files = "none" \/ \E verify \in BOOLEAN : ~Sound(verify)
  /\ Goto("refused")
  /\ UNCHANGED <<project, copies, index, snaps>>

Accept ==
  /\ step = "wiped"
  /\ Chosen.files # "none" /\ \E verify \in BOOLEAN : Sound(verify)
  /\ Goto("verified")
  /\ UNCHANGED <<project, copies, index, snaps>>

Extract ==
  /\ step = "verified" /\ Chosen.files = "whole" /\ ~Chosen.damaged
  /\ host' = host \cup Chosen.store
  /\ hostDb' = IF Files THEN [state |-> "whole", rows |-> Chosen.rows] ELSE hostDb
  /\ Goto("extracted")
  /\ UNCHANGED <<project, index, snaps>>

\* errorlevel = 0: what cannot be written is left out, and so is what follows
\* damage that the tar reader takes for the end.
ExtractPartly ==
  /\ step = "verified" /\ Chosen.files = "whole"
  /\ \E S \in SUBSET Chosen.store : host' = host \cup S
  /\ hostDb' \in IF Files THEN {hostDb, [state |-> "whole", rows |-> Chosen.rows]}
                 ELSE {hostDb}
  /\ step' = "extracted"
  /\ flawed' = TRUE
  /\ UNCHANGED <<project, index, snaps, snap, todo, baseline, tries,
                 was>>

\* An archive that breaks off, too little space, a git repository.
FailExtract ==
  /\ step = "verified"
  /\ Goto("dying")
  /\ UNCHANGED <<project, copies, index, snaps>>

Hydrate ==
  /\ step = "extracted"
  /\ Overlaid /\ DatabaseOverlaid
  /\ Goto("hydrated")
  /\ UNCHANGED <<mode, portal, dbUp, copies, index, snaps>>

\* The helper container fails or breaks off, which is at most warned about.
HydratePartly ==
  /\ step = "extracted"
  /\ \E S \in SUBSET host : store' = store \cup S
  /\ DatabaseOverlaid \/ UNCHANGED rows
  /\ step' = "hydrated"
  /\ flawed' = TRUE
  /\ UNCHANGED <<mode, portal, dbUp, copies, index, snaps, snap, todo,
                 baseline, tries, was>>

Dumped == ~Files /\ Chosen.db # "none"

KeepDatabase ==
  /\ step = "hydrated" /\ ~Dumped
  /\ Goto("imported")
  /\ UNCHANGED <<project, copies, index, snaps>>

\* cmd_stop of the portal, then the database container if it is not running.
StartDatabase ==
  /\ step = "hydrated" /\ Dumped
  /\ portal' = FALSE
  /\ dbUp' = TRUE
  /\ Goto("ready")
  /\ UNCHANGED <<mode, rows, store, copies, index, snaps>>

FailDatabase ==
  /\ step = "hydrated" /\ Dumped
  /\ portal' = FALSE
  /\ Goto("dying")
  /\ UNCHANGED <<mode, dbUp, rows, store, copies, index, snaps>>

\* Mutant: the baseline is taken of the schema that was just wiped.
TakeBaselineOfNothing ==
  /\ step = "ready"
  /\ baseline' = [state |-> "whole", rows |-> {}]
  /\ step' = "trying"
  /\ UNCHANGED <<project, copies, index, snaps, snap, todo, tries, was,
                 flawed>>

\* check=False: a dump that breaks off, or is empty, is not noticed.
TakeBaseline ==
  /\ step = "ready"
  /\ \/ /\ dbUp
        /\ baseline' = [state |-> "whole", rows |-> rows]
     \/ /\ dbUp
        /\ \E S \in SUBSET rows : baseline' = [state |-> "partial", rows |-> S]
     \/ baseline' = NoDump
  /\ step' = "trying"
  /\ UNCHANGED <<project, copies, index, snaps, snap, todo, tries, was,
                 flawed>>

\* _wipe_db, whose failure is only warned about.
ClearDatabase ==
  /\ step = "trying"
  /\ rows' \in IF dbUp THEN {{}, rows} ELSE {rows}
  /\ Goto("cleared")
  /\ UNCHANGED <<mode, portal, dbUp, store, copies, index, snaps>>

ImportDump ==
  /\ step = "cleared" /\ dbUp
  /\ rows' = Chosen.rows
  /\ baseline' = NoDump
  /\ step' = "imported"
  /\ UNCHANGED <<mode, portal, dbUp, store, copies, index, snaps, snap, todo, tries, was, flawed>>

FailImport ==
  /\ step = "cleared"
  /\ rows' \in (SUBSET Chosen.rows) \cup {rows}
  /\ tries' = tries + 1
  /\ step' = IF tries' = Attempts THEN "failed" ELSE "trying"
  /\ UNCHANGED <<mode, portal, dbUp, store, copies, index, snaps, snap, todo, baseline, was, flawed>>

\* "Restoring database to the pre-restore baseline..."
Reinstate ==
  /\ step = "failed" /\ baseline.state # "none" /\ dbUp
  /\ rows' = baseline.rows
  /\ Goto("reinstated")
  /\ UNCHANGED <<mode, portal, dbUp, store, copies, index, snaps>>

FailReinstate ==
  /\ step = "failed"
  /\ rows' \in IF baseline.state = "none" THEN {rows}
               ELSE (SUBSET baseline.rows) \cup {rows}
  /\ baseline' = NoDump
  /\ step' = "dying"
  /\ UNCHANGED <<mode, portal, dbUp, store, copies, index, snaps, snap, todo, tries, was, flawed>>

\* The project's indices are deleted, then those of the snapshot are restored if
\* the shared repository has them; a refusal is only warned about.
RestoreIndex ==
  /\ step = "imported"
  /\ index' \in IF index = "due" THEN {index} ELSE {index, "current", "stale"}
  /\ Goto("indexed")
  /\ UNCHANGED <<project, copies, snaps>>

\* flag_reindex
FlagReindex ==
  /\ step = "indexed"
  /\ index' = "due"
  /\ Goto("restored")
  /\ UNCHANGED <<project, copies, snaps>>

-----------------------------------------------------------------------------
Environment ==
  \/ \E d \in Docs : StoreFile(d) \/ CommitRow(d) \/ DeleteRow(d) \/ DeleteFile(d)
  \/ DatabaseStops
  \/ StartProject \/ RunProject \/ Reindex \/ StopProject \/ ResetProject
  \/ \E n \in Names : Damage(n)

Begin ==
  \E n \in Names : CreateSnapshot(n) \/ DeleteSnapshot(n) \/ ChooseSnapshot(n)

TakeSnapshot ==
  \/ AskForIndex \/ DumpDatabase \/ SkipDump \/ FailDump \/ AwaitIndex
  \/ (\E d \in Docs : Copy(d)) \/ CopyDatabase \/ EndCopy \/ FailCopy
  \/ BeginArchive \/ EndArchive \/ FailArchive
  \/ Seal

RestoreFiles ==
  \/ TearDown \/ Wipe \/ Refuse \/ Accept
  \/ Extract \/ ExtractPartly \/ FailExtract
  \/ Hydrate \/ HydratePartly

RestoreDatabase ==
  \/ KeepDatabase \/ StartDatabase \/ FailDatabase
  \/ TakeBaseline \/ ClearDatabase \/ ImportDump \/ FailImport
  \/ Reinstate \/ FailReinstate
  \/ RestoreIndex \/ FlagReindex

Command == TakeSnapshot \/ RestoreFiles \/ RestoreDatabase \/ Exit

Next == Environment \/ Begin \/ Command \/ Kill

Spec == Init /\ [][Next]_vars

-----------------------------------------------------------------------------
(* Properties                                                              *)

\* A snapshot taken of a running project with a dump holds the file of every
\* document its dump names, unless the portal deleted the file meanwhile, or the
\* volume could not be copied: the dump comes before the copy (cmd_snapshot).
SnapshotHoldsItsDocuments ==
  \A n \in Names :
    LET s == snaps[n]
    IN  ~Files /\ s.files = "whole" /\ s.db = "whole"
          => s.rows \subseteq s.store \cup s.lost

\* What a restore that nothing disturbed says is complete is the snapshot:
\* nothing of the old data is mixed with it, except the rows of a shared
\* database for which the snapshot has no dump, and an index of another time has
\* its reindex due.
RestoreGivesTheSnapshot ==
  step = "restored" /\ ~flawed =>
    /\ store = Chosen.store
    /\ Files \/ Chosen.db = "whole" => rows = Chosen.rows
    /\ mode = "isolated" /\ Chosen.db = "none" => rows = {}
    /\ index # "stale"

\* A snapshot whose archive or dump broke off is never restored as if it were
\* whole, though nothing marks it and it has no checksum.
BrokenSnapshotIsNotRestored ==
  step = "restored" => Chosen.files = "whole" /\ Chosen.db # "partial"

\* A failed restore leaves the rows of a shared database as they were: up to
\* the import, and after it if a complete baseline could be imported again.
SharedRowsSurviveFailure ==
  mode = "shared" /\ ~flawed
    /\ \/ step \in {"down", "wiped", "refused", "verified", "extracted", "hydrated",
                    "ready"}
       \/ step = "reinstated" /\ baseline.state = "whole"
  => rows = was
=============================================================================
