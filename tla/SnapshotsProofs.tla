--------------------------- MODULE SnapshotsProofs ---------------------------
(***************************************************************************)
(* The safety properties of Snapshots, for any documents, any snapshot     *)
(* directories and any number of attempts.  Two strengthenings of them are *)
(* inductive: Recording, about the snapshot being taken and those that     *)
(* were taken before, and Restored, about the project between the reset    *)
(* and the end of a restore.                                               *)
(***************************************************************************)
EXTENDS Snapshots, TLAPS

-----------------------------------------------------------------------------
(* Types                                                                   *)

\* With TypeOK inductive: an import is tried only while attempts are left.
Counted ==
  step \in {"idle"} \cup Taking \cup (Restoring \ {"failed"}) => tries < Attempts

Typed == TypeOK /\ Counted

LEMMA NoDumpTyped == NoDump \in Dump
  BY DEF NoDump, Dump

LEMMA NoSnapshotTyped == NoSnapshot \in Snapshot
  BY DEF NoSnapshot, Snapshot

LEMMA TypedInit == ASSUME Init PROVE Typed
<1>1. Counted
  BY AttemptsAssumption DEF AttemptsAssumption, Init, Counted
<1>2. tries \in 0..Attempts
  BY AttemptsAssumption DEF AttemptsAssumption, Init
<1>3. TypeOK
  BY <1>2, NoDumpTyped, NoSnapshotTyped DEF Init, TypeOK
<1> QED  BY <1>1, <1>3 DEF Typed

LEMMA LosingTyped ==
  ASSUME TypeOK, NEW S \in SUBSET Docs, Losing(S)
  PROVE  snaps' \in [Names -> Snapshot] /\ (step # "idle" => snaps'[snap].exists)
  BY DEF TypeOK, Losing, Snapshot

LEMMA EnvironmentTyped == ASSUME TypeOK, Environment PROVE TypeOK'
<1> USE DEF TypeOK, project, command, copies
<1>1. ASSUME NEW d \in Docs, StoreFile(d) PROVE TypeOK'
  BY <1>1 DEF StoreFile
<1>2. ASSUME NEW d \in Docs, CommitRow(d) PROVE TypeOK'
  BY <1>2 DEF CommitRow
<1>3. ASSUME NEW d \in Docs, DeleteRow(d) PROVE TypeOK'
  BY <1>3 DEF DeleteRow
<1>4. ASSUME NEW d \in Docs, DeleteFile(d) PROVE TypeOK'
  <2>1. snaps' \in [Names -> Snapshot] /\ (step # "idle" => snaps'[snap].exists)
    BY <1>4, LosingTyped DEF DeleteFile
  <2> QED  BY <1>4, <2>1 DEF DeleteFile
<1>5. ASSUME DatabaseStops PROVE TypeOK'
  BY <1>5 DEF DatabaseStops
<1>6. ASSUME StartProject PROVE TypeOK'
  BY <1>6 DEF StartProject, Meddled
<1>7. ASSUME StopProject PROVE TypeOK'
  BY <1>7 DEF StopProject
<1>8. ASSUME NEW n \in Names, Damage(n) PROVE TypeOK'
  BY <1>8 DEF Damage, Snapshot
<1>9. ASSUME ResetProject PROVE TypeOK'
  <2>1. snaps' \in [Names -> Snapshot] /\ (step # "idle" => snaps'[snap].exists)
    BY <1>9, LosingTyped DEF ResetProject
  <2>2. index' \in {"current", "stale", "due"}
    BY <1>9 DEF ResetProject, OutOfDate
  <2> QED  BY <1>9, <2>1, <2>2, NoDumpTyped DEF ResetProject, Meddled
<1>10. ASSUME RunProject PROVE TypeOK'
  <2>1. store' \in SUBSET Docs /\ rows' \in SUBSET Docs
    BY <1>10 DEF RunProject, Overlaid, DatabaseOverlaid, Dump
  <2>2. index' \in {"current", "stale", "due"}
    BY <1>10 DEF RunProject, OutOfDate
  <2> QED  BY <1>10, <2>1, <2>2 DEF RunProject
<1>11. ASSUME Reindex PROVE TypeOK'
  BY <1>11 DEF Reindex
<1> QED
  BY <1>1, <1>2, <1>3, <1>4, <1>5, <1>6, <1>7, <1>8, <1>9, <1>10, <1>11
     DEF Environment

LEMMA LeaveTyped ==
  ASSUME TypeOK, Leave, UNCHANGED <<project, copies, index>>,
         snaps' \in [Names -> Snapshot]
  PROVE  TypeOK'
<1>1. tries' \in 0..Attempts
  BY AttemptsAssumption DEF AttemptsAssumption, Leave
<1> QED  BY <1>1, NoDumpTyped DEF TypeOK, Leave, project, copies

LEMMA BeginTyped == ASSUME TypeOK, Begin PROVE TypeOK'
<1> USE DEF TypeOK, project, command, copies
<1>1. ASSUME NEW n \in Names, CreateSnapshot(n) PROVE TypeOK'
  BY <1>1 DEF CreateSnapshot, NoSnapshot, Snapshot, Taking
<1>2. ASSUME NEW n \in Names, DeleteSnapshot(n) PROVE TypeOK'
  BY <1>2 DEF DeleteSnapshot, NoSnapshot, Snapshot
<1>3. ASSUME NEW n \in Names, ChooseSnapshot(n) PROVE TypeOK'
  BY <1>3 DEF ChooseSnapshot, Backups, Restoring
<1> QED
  BY <1>1, <1>2, <1>3 DEF Begin

LEMMA TakeTyped == ASSUME TypeOK, TakeSnapshot PROVE TypeOK'
<1> USE DEF TypeOK, project, copies, Goto, Taking
<1>1. ASSUME DumpDatabase PROVE TypeOK'
  BY <1>1 DEF DumpDatabase, Snapshot
<1>2. ASSUME SkipDump PROVE TypeOK'
  BY <1>2 DEF SkipDump
<1>3. ASSUME FailDump PROVE TypeOK'
  <2>1. snaps' \in [Names -> Snapshot]
    BY <1>3 DEF FailDump, Snapshot
  <2> QED  BY <1>3, <2>1, LeaveTyped DEF FailDump
<1>4. ASSUME BeginArchive PROVE TypeOK'
  BY <1>4 DEF BeginArchive, Snapshot
<1>5. ASSUME NEW d \in Docs, Copy(d) PROVE TypeOK'
  BY <1>5 DEF Copy
<1>6. ASSUME EndArchive PROVE TypeOK'
  <2>1. snaps[snap] \in Snapshot
    OBVIOUS
  <2> DEFINE r == [snaps[snap] EXCEPT
                     !.files = "whole", !.store = host,
                     !.lost = snaps[snap].lost \ host,
                     !.rows = IF Files THEN hostDb.rows ELSE snaps[snap].rows]
  <2>2. r \in Snapshot /\ r.exists = snaps[snap].exists
    <3>1. hostDb.rows \in SUBSET Docs
      BY DEF Dump
    <3> QED  BY <2>1, <3>1 DEF Snapshot
  <2>3. snaps' = [snaps EXCEPT ![snap] = r]
    BY <1>6 DEF EndArchive
  <2> HIDE DEF r
  <2>4. snaps' \in [Names -> Snapshot] /\ snaps'[snap].exists
    BY <1>6, <2>2, <2>3 DEF EndArchive
  <2> QED  BY <1>6, <2>4 DEF EndArchive
<1>7. ASSUME FailArchive PROVE TypeOK'
  <2>1. snaps' \in [Names -> Snapshot]
    BY <1>7 DEF FailArchive, Snapshot
  <2> QED  BY <1>7, <2>1, LeaveTyped DEF FailArchive
<1>8. ASSUME Seal PROVE TypeOK'
  <2>1. snaps' \in [Names -> Snapshot]
    BY <1>8 DEF Seal, Snapshot
  <2> QED  BY <1>8, <2>1, LeaveTyped DEF Seal
<1>9. ASSUME AskForIndex \/ EndCopy PROVE TypeOK'
  BY <1>9 DEF AskForIndex, EndCopy
<1>10. ASSUME AwaitIndex PROVE TypeOK'
  BY <1>10 DEF AwaitIndex
<1>11. ASSUME CopyDatabase PROVE TypeOK'
  BY <1>11 DEF CopyDatabase, Dump
<1>12. ASSUME FailCopy PROVE TypeOK'
  <2>1. snaps' \in [Names -> Snapshot] /\ (step # "idle" => snaps'[snap].exists)
    BY <1>12, LosingTyped DEF FailCopy
  <2> QED  BY <1>12, <2>1 DEF FailCopy
<1> QED
  BY <1>1, <1>2, <1>3, <1>4, <1>5, <1>6, <1>7, <1>8, <1>9, <1>10, <1>11, <1>12
     DEF TakeSnapshot

LEMMA RestoreFilesTyped == ASSUME TypeOK, RestoreFiles PROVE TypeOK'
<1> USE DEF TypeOK, project, copies, Goto, Restoring, Ending
<1>1. ASSUME TearDown PROVE TypeOK'
  BY <1>1 DEF TearDown, OutOfDate
<1>2. ASSUME Wipe PROVE TypeOK'
  <2>1. index' \in {"current", "stale", "due"}
    BY <1>2 DEF Wipe, IndicesDeleted
  <2> QED  BY <1>2, <2>1, NoDumpTyped DEF Wipe
<1>3. ASSUME Refuse \/ Accept PROVE TypeOK'
  BY <1>3 DEF Refuse, Accept
<1>4. Chosen.store \subseteq Docs /\ Chosen.rows \subseteq Docs
  BY DEF Chosen, Snapshot
<1>5. [state |-> "whole", rows |-> Chosen.rows] \in Dump
  BY <1>4 DEF Dump
<1>6. ASSUME Extract PROVE TypeOK'
  BY <1>4, <1>5, <1>6 DEF Extract
<1>7. ASSUME ExtractPartly PROVE TypeOK'
  <2>1. host' \in SUBSET Docs
    BY <1>4, <1>7 DEF ExtractPartly
  <2>2. hostDb' \in Dump
    BY <1>5, <1>7 DEF ExtractPartly
  <2> QED  BY <1>7, <2>1, <2>2 DEF ExtractPartly
<1>8. ASSUME FailExtract PROVE TypeOK'
  BY <1>8 DEF FailExtract
<1>9. hostDb.rows \in SUBSET Docs
  BY DEF Dump
<1>10. ASSUME Hydrate PROVE TypeOK'
  BY <1>9, <1>10 DEF Hydrate, Overlaid, DatabaseOverlaid
<1>11. ASSUME HydratePartly PROVE TypeOK'
  <2>1. store' \in SUBSET Docs
    BY <1>11 DEF HydratePartly
  <2>2. rows' \in SUBSET Docs
    BY <1>9, <1>11 DEF HydratePartly, DatabaseOverlaid
  <2> QED  BY <1>11, <2>1, <2>2 DEF HydratePartly
<1> QED
  BY <1>1, <1>2, <1>3, <1>6, <1>7, <1>8, <1>10, <1>11 DEF RestoreFiles

LEMMA RestoreDatabaseTyped == ASSUME Typed, RestoreDatabase PROVE TypeOK'
<1> USE DEF TypeOK, project, copies, Goto, Restoring, Ending
<1>0. TypeOK /\ Counted
  BY DEF Typed
<1>1. Chosen.rows \subseteq Docs
  BY <1>0 DEF Chosen, Snapshot
<1>2. ASSUME KeepDatabase PROVE TypeOK'
  BY <1>0, <1>2 DEF KeepDatabase
<1>3. ASSUME StartDatabase \/ FailDatabase PROVE TypeOK'
  BY <1>0, <1>3 DEF StartDatabase, FailDatabase
<1>4. ASSUME TakeBaseline PROVE TypeOK'
  BY <1>0, <1>4 DEF TakeBaseline, NoDump, Dump
<1>5. ASSUME ClearDatabase PROVE TypeOK'
  BY <1>0, <1>5 DEF ClearDatabase
<1>6. ASSUME ImportDump PROVE TypeOK'
  BY <1>0, <1>1, <1>6 DEF ImportDump, NoDump, Dump
<1>7. ASSUME FailImport PROVE TypeOK'
  <2>1. tries < Attempts
    BY <1>0, <1>7 DEF FailImport, Counted
  <2>2. tries' \in 0..Attempts
    BY <1>0, <1>7, <2>1, AttemptsAssumption DEF FailImport, AttemptsAssumption
  <2>3. rows' \in SUBSET Docs
    <3>1. rows' \in SUBSET Chosen.rows \/ rows' = rows
      BY <1>7 DEF FailImport
    <3> QED  BY <1>0, <1>1, <3>1
  <2>4. step' \in {"failed", "trying"}
    BY <1>7 DEF FailImport
  <2>5. step # "idle"
    BY <1>7 DEF FailImport
  <2> QED  BY <1>0, <1>7, <2>2, <2>3, <2>4, <2>5 DEF FailImport
<1>8. ASSUME Reinstate PROVE TypeOK'
  BY <1>0, <1>8 DEF Reinstate, Dump
<1>9. ASSUME FailReinstate PROVE TypeOK'
  <2>1. baseline.rows \subseteq Docs
    BY <1>0 DEF Dump
  <2>2. rows' \in SUBSET Docs
    <3>1. rows' \in SUBSET baseline.rows \/ rows' = rows
      BY <1>9 DEF FailReinstate
    <3> QED  BY <1>0, <2>1, <3>1
  <2> QED  BY <1>0, <1>9, <2>2, NoDumpTyped DEF FailReinstate
<1>10. ASSUME RestoreIndex PROVE TypeOK'
  <2>1. index' \in {"current", "stale", "due"}
    BY <1>0, <1>10 DEF RestoreIndex
  <2> QED  BY <1>0, <1>10, <2>1 DEF RestoreIndex
<1>11. ASSUME FlagReindex PROVE TypeOK'
  BY <1>0, <1>11 DEF FlagReindex
<1> QED
  BY <1>0, <1>2, <1>3, <1>4, <1>5, <1>6, <1>7, <1>8, <1>9, <1>10, <1>11
     DEF RestoreDatabase

LEMMA CountedStep == ASSUME Typed, Next PROVE Counted'
<1> USE DEF Counted, Goto, Taking, Restoring, Ending, project, command
<1>0. TypeOK /\ Counted
  BY DEF Typed
<1>1. ASSUME Leave PROVE Counted'
  BY <1>1, AttemptsAssumption DEF Leave, AttemptsAssumption
<1>2. ASSUME Environment PROVE Counted'
  BY <1>0, <1>2
     DEF Environment, StoreFile, CommitRow, DeleteRow, DeleteFile, DatabaseStops,
         StartProject, RunProject, Reindex, StopProject, ResetProject, Damage
<1>3. ASSUME Begin PROVE Counted'
  BY <1>0, <1>3 DEF Begin, CreateSnapshot, DeleteSnapshot, ChooseSnapshot
<1>4. ASSUME TakeSnapshot PROVE Counted'
  BY <1>0, <1>1, <1>4
     DEF TakeSnapshot, AskForIndex, DumpDatabase, SkipDump, FailDump, AwaitIndex,
         Copy, CopyDatabase, EndCopy, FailCopy, BeginArchive, EndArchive,
         FailArchive, Seal
<1>5. ASSUME RestoreFiles PROVE Counted'
  BY <1>0, <1>5
     DEF RestoreFiles, TearDown, Wipe, Refuse, Accept, Extract, ExtractPartly,
         FailExtract, Hydrate, HydratePartly
<1>6. ASSUME FailImport PROVE Counted'
  BY <1>0, <1>6, AttemptsAssumption DEF FailImport, AttemptsAssumption, TypeOK
<1>7. ASSUME RestoreDatabase, ~FailImport PROVE Counted'
  BY <1>0, <1>7
     DEF RestoreDatabase, KeepDatabase, StartDatabase, FailDatabase, TakeBaseline,
         ClearDatabase, ImportDump, Reinstate, FailReinstate, RestoreIndex,
         FlagReindex
<1> QED
  BY <1>1, <1>2, <1>3, <1>4, <1>5, <1>6, <1>7 DEF Next, Command, Exit, Kill

LEMMA TypedStep == ASSUME Typed, [Next]_vars PROVE Typed'
<1>1. CASE UNCHANGED vars
  BY <1>1 DEF Typed, TypeOK, Counted, vars, project, copies, command
<1>2. CASE Next
  <2>1. TypeOK'
    <3>1. TypeOK
      BY DEF Typed
    <3>2. ASSUME Exit \/ Kill PROVE TypeOK'
      BY <3>1, <3>2, LeaveTyped DEF Exit, Kill, TypeOK
    <3> QED
      BY <1>2, <3>1, <3>2, EnvironmentTyped, BeginTyped, TakeTyped,
         RestoreFilesTyped, RestoreDatabaseTyped
         DEF Next, Command
  <2> QED  BY <1>2, <2>1, CountedStep DEF Typed
<1> QED  BY <1>1, <1>2

\* The types, and the count of the attempts that are left.
LEMMA AlwaysTyped == Spec => []Typed
  BY TypedInit, TypedStep, PTL DEF Spec

\* Every variable keeps its type; no import of a dump is tried more than
\* Attempts times (_restore_orchestrated).
THEOREM TypeCorrect == Spec => []TypeOK
<1>1. Typed => TypeOK
  BY DEF Typed
<1> QED  BY <1>1, AlwaysTyped, PTL

-----------------------------------------------------------------------------
(* What a snapshot holds                                                   *)

\* A snapshot with a whole archive has no broken dump, and the files of the
\* documents its dump names.
Fine(s) ==
  s.files = "whole" =>
    /\ s.db # "partial"
    /\ ~Files /\ s.db = "whole" => s.rows \subseteq s.store \cup s.lost

Kept == \A n \in Names : Fine(snaps[n])

\* The documents the copy out of the volume has still to come to.
Coming == IF step = "dumped" THEN Docs ELSE todo

\* While a snapshot is taken, the file of a document its dump names is on the
\* host, or in the volume for the copy still to find, or it was deleted.
Begun ==
  LET s == snaps[snap]
  IN  /\ step \in {"created", "asked"} => s.db = "none" /\ s.rows = {}
      /\ step \in {"created", "asked", "dumped", "copying", "copied"}
           => s.files = "none"
      /\ step \in Taking => s.db # "partial"
      /\ step \in {"dumped", "copying"} /\ ~Files =>
           \A d \in s.rows : d \in s.lost \/ d \in host \/ d \in store \cap Coming
      /\ step \in {"copied", "archiving"} /\ ~Files =>
           \A d \in s.rows : d \in s.lost \/ d \in host

Recording == Kept /\ Begun

LEMMA RecordingInit == ASSUME Init PROVE Recording
  BY DEF Init, Recording, Kept, Begun, Fine, NoSnapshot, Taking

LEMMA KeptUnchanged ==
  ASSUME Kept, UNCHANGED <<mode, snaps>> PROVE Kept'
  BY DEF Kept, Fine, Files

LEMMA KeptReplaced ==
  ASSUME TypeOK, Kept, NEW n \in Names, NEW r, Fine(r),
         snaps' = [snaps EXCEPT ![n] = r], UNCHANGED mode
  PROVE  Kept'
  BY DEF TypeOK, Kept, Fine, Files

LEMMA NotBegun == ASSUME step' \notin Taking PROVE Begun'
  BY DEF Begun, Taking

\* What Losing changes of the snapshot that is being taken.
LEMMA LosingEffect ==
  ASSUME TypeOK, Kept, step \in Taking, NEW S, Losing(S), UNCHANGED mode
  PROVE  /\ Kept'
         /\ snaps'[snap].lost = snaps[snap].lost \cup (S \cap snaps[snap].rows)
         /\ snaps'[snap].db = snaps[snap].db
         /\ snaps'[snap].rows = snaps[snap].rows
         /\ snaps'[snap].files = snaps[snap].files
<1> DEFINE s == snaps[snap]
           r == [s EXCEPT !.lost = @ \cup (S \cap s.rows)]
<1>1. snap \in Names /\ s \in Snapshot
  BY DEF TypeOK
<1>2. r.lost = s.lost \cup (S \cap s.rows)
      /\ r.db = s.db /\ r.rows = s.rows /\ r.files = s.files /\ r.store = s.store
  BY <1>1 DEF Snapshot
<1>3. snaps' = [snaps EXCEPT ![snap] = r]
  BY DEF Losing
<1>4. Fine(s)
  BY <1>1 DEF Kept
<1> HIDE DEF r
<1>5. Kept'
  <2>1. Fine(r)
    BY <1>2, <1>4 DEF Fine
  <2> QED  BY <1>1, <1>3, <2>1, KeptReplaced
<1>6. snaps'[snap] = r
  BY <1>1, <1>3 DEF TypeOK
<1> QED  BY <1>2, <1>5, <1>6

LEMMA EnvironmentRecording ==
  ASSUME TypeOK, Recording, Environment PROVE Recording'
<1> USE DEF Recording, project, copies, command
<1>1. ASSUME UNCHANGED <<mode, snaps, step, snap, todo, host>>,
             store \subseteq store'
      PROVE  Recording'
  <2>1. Begun'
    BY <1>1 DEF Begun, Coming, Files
  <2> QED  BY <1>1, <2>1, KeptUnchanged
<1>2. ASSUME NEW d \in Docs, StoreFile(d) \/ CommitRow(d) \/ DeleteRow(d)
      PROVE  Recording'
  BY <1>1, <1>2 DEF StoreFile, CommitRow, DeleteRow
<1>3. ASSUME DatabaseStops \/ StartProject \/ StopProject PROVE Recording'
  BY <1>1, <1>3 DEF DatabaseStops, StartProject, StopProject
<1>4. ASSUME NEW d \in Docs, DeleteFile(d), step \notin Taking PROVE Recording'
  BY <1>4, KeptUnchanged, NotBegun DEF DeleteFile, Losing
<1>5. ASSUME NEW d \in Docs, DeleteFile(d), step \in Taking PROVE Recording'
  <2>1. Losing({d}) /\ store' = store \ {d}
        /\ UNCHANGED <<mode, step, snap, todo, host>>
    BY <1>5 DEF DeleteFile
  <2>2. /\ Kept'
        /\ snaps'[snap].lost = snaps[snap].lost \cup ({d} \cap snaps[snap].rows)
        /\ snaps'[snap].db = snaps[snap].db
        /\ snaps'[snap].rows = snaps[snap].rows
        /\ snaps'[snap].files = snaps[snap].files
    BY <1>5, <2>1, LosingEffect
  <2>3. Begun'
    BY <2>1, <2>2 DEF Begun, Coming, Files
  <2> QED  BY <2>2, <2>3
<1>6. ASSUME NEW n \in Names, Damage(n) PROVE Recording'
  <2> DEFINE r == [snaps[n] EXCEPT !.damaged = TRUE]
  <2>1. snaps' = [snaps EXCEPT ![n] = r]
    BY <1>6 DEF Damage
  <2>2. Fine(r)
    BY DEF TypeOK, Kept, Fine, Snapshot
  <2> HIDE DEF r
  <2>3. Kept'
    BY <1>6, <2>1, <2>2, KeptReplaced DEF Damage
  <2> QED  BY <1>6, <2>3, NotBegun DEF Damage, Taking
<1>7. ASSUME ResetProject, step \notin Taking PROVE Recording'
  BY <1>7, KeptUnchanged, NotBegun DEF ResetProject, Losing
<1>8. ASSUME ResetProject, step \in Taking PROVE Recording'
  <2>1. Losing(store \cup host) /\ UNCHANGED <<mode, step, snap, todo>>
    BY <1>8 DEF ResetProject
  <2>2. /\ Kept'
        /\ snaps'[snap].lost
             = snaps[snap].lost \cup ((store \cup host) \cap snaps[snap].rows)
        /\ snaps'[snap].db = snaps[snap].db
        /\ snaps'[snap].rows = snaps[snap].rows
        /\ snaps'[snap].files = snaps[snap].files
    BY <1>8, <2>1, LosingEffect
  <2>3. Begun'
    BY <2>1, <2>2 DEF Begun, Coming, Files
  <2> QED  BY <2>2, <2>3
<1>9. ASSUME RunProject \/ Reindex PROVE Recording'
  BY <1>9, KeptUnchanged, NotBegun DEF RunProject, Reindex, Taking
<1> QED
  BY <1>2, <1>3, <1>4, <1>5, <1>6, <1>7, <1>8, <1>9 DEF Environment

LEMMA BeginRecording ==
  ASSUME TypeOK, Recording, Begin PROVE Recording'
<1> USE DEF Recording, project, command
<1>1. Fine(NoSnapshot) /\ Fine([NoSnapshot EXCEPT !.exists = TRUE])
  BY DEF Fine, NoSnapshot
<1>2. ASSUME NEW n \in Names, CreateSnapshot(n) PROVE Recording'
  <2>1. Kept'
    BY <1>1, <1>2, KeptReplaced DEF CreateSnapshot
  <2>2. Begun'
    BY <1>2 DEF CreateSnapshot, Begun, NoSnapshot, TypeOK
  <2> QED  BY <2>1, <2>2
<1>3. ASSUME NEW n \in Names, DeleteSnapshot(n) PROVE Recording'
  <2>1. Kept'
    BY <1>1, <1>3, KeptReplaced DEF DeleteSnapshot
  <2> QED  BY <1>3, <2>1, NotBegun DEF DeleteSnapshot, Taking
<1>4. ASSUME NEW n \in Names, ChooseSnapshot(n) PROVE Recording'
  BY <1>4, KeptUnchanged, NotBegun DEF ChooseSnapshot, Taking
<1> QED
  BY <1>2, <1>3, <1>4 DEF Begin

LEMMA TakeRecording ==
  ASSUME TypeOK, Recording, TakeSnapshot PROVE Recording'
<1> USE DEF Recording, project, copies, Goto
<1> DEFINE s == snaps[snap]
<1>0. snap \in Names /\ s \in Snapshot /\ Fine(s)
  BY DEF TypeOK, Kept
<1>1. ASSUME AskForIndex PROVE Recording'
  <2>1. Begun'
    BY <1>1 DEF AskForIndex, Begun, Taking
  <2> QED  BY <1>1, <2>1, KeptUnchanged DEF AskForIndex
<1>2. ASSUME DumpDatabase PROVE Recording'
  <2> DEFINE r == [s EXCEPT !.db = "whole", !.rows = rows, !.lost = rows \ store]
  <2>1. r.db = "whole" /\ r.rows = rows /\ r.lost = rows \ store
        /\ r.files = s.files /\ r.store = s.store
    BY <1>0 DEF Snapshot
  <2>2. snaps' = [snaps EXCEPT ![snap] = r]
    BY <1>2 DEF DumpDatabase
  <2> HIDE DEF r
  <2>3. s.files = "none"
    BY <1>2 DEF DumpDatabase, Begun
  <2>4. Kept'
    <3>1. Fine(r)
      BY <2>1, <2>3 DEF Fine
    <3> QED  BY <1>0, <1>2, <2>2, <3>1, KeptReplaced DEF DumpDatabase
  <2>5. snaps'[snap] = r
    BY <1>0, <2>2 DEF TypeOK
  <2>6. Begun'
    BY <1>2, <2>1, <2>3, <2>5 DEF DumpDatabase, Begun, Coming, TypeOK
  <2> QED  BY <2>4, <2>6
<1>3. ASSUME SkipDump PROVE Recording'
  <2>1. Begun'
    BY <1>3 DEF SkipDump, Begun, Taking
  <2> QED  BY <1>3, <2>1, KeptUnchanged DEF SkipDump
<1>4. ASSUME FailDump PROVE Recording'
  <2>1. PICK b \in {"none", "partial"} : snaps' = [snaps EXCEPT ![snap].db = b]
    BY <1>4 DEF FailDump
  <2> DEFINE r == [s EXCEPT !.db = b]
  <2>2. r.files = "none"
    BY <1>0, <1>4 DEF Snapshot, FailDump, Begun
  <2>3. snaps' = [snaps EXCEPT ![snap] = r]
    BY <2>1
  <2> HIDE DEF r
  <2>4. Fine(r)
    BY <2>2 DEF Fine
  <2>5. Kept'
    BY <1>0, <1>4, <2>3, <2>4, KeptReplaced DEF FailDump
  <2> QED  BY <1>4, <2>5, NotBegun DEF FailDump, Leave, Taking
<1>5. ASSUME AwaitIndex PROVE Recording'
  <2>1. Begun'
    BY <1>5 DEF AwaitIndex, Begun, Coming, Files, Taking
  <2> QED  BY <1>5, <2>1, KeptUnchanged DEF AwaitIndex
<1>6. ASSUME NEW d \in Docs, Copy(d) PROVE Recording'
  <2>1. Begun'
    BY <1>6 DEF Copy, Begun, Coming, Files, Taking
  <2> QED  BY <1>6, <2>1, KeptUnchanged DEF Copy
<1>7. ASSUME CopyDatabase PROVE Recording'
  <2>1. Begun'
    BY <1>7, DatabaseAssumption
       DEF CopyDatabase, Begun, Coming, Files, Taking, DatabaseAssumption, TypeOK,
           Snapshot
  <2> QED  BY <1>7, <2>1, KeptUnchanged DEF CopyDatabase
<1>8. ASSUME EndCopy PROVE Recording'
  <2>1. Begun'
    BY <1>8 DEF EndCopy, Begun, Coming, Files, Taking
  <2> QED  BY <1>8, <2>1, KeptUnchanged DEF EndCopy
<1>9. ASSUME FailCopy PROVE Recording'
  <2>1. Losing(Docs \ host) /\ step \in Taking /\ step = "copying"
        /\ step' = "copied" /\ UNCHANGED <<mode, snap, host>>
    BY <1>9 DEF FailCopy, Taking
  <2>2. /\ Kept'
        /\ snaps'[snap].lost
             = snaps[snap].lost \cup ((Docs \ host) \cap snaps[snap].rows)
        /\ snaps'[snap].db = snaps[snap].db
        /\ snaps'[snap].rows = snaps[snap].rows
        /\ snaps'[snap].files = snaps[snap].files
    BY <2>1, LosingEffect
  <2>3. s.rows \subseteq Docs
    BY <1>0 DEF Snapshot
  <2>4. Begun'
    BY <2>1, <2>2, <2>3 DEF Begun, Files, Taking
  <2> QED  BY <2>2, <2>4
<1>10. ASSUME BeginArchive PROVE Recording'
  <2> DEFINE r == [s EXCEPT !.files = "partial"]
  <2>1. r.files = "partial" /\ r.db = s.db /\ r.rows = s.rows /\ r.lost = s.lost
        /\ r.store = s.store
    BY <1>0 DEF Snapshot
  <2>2. snaps' = [snaps EXCEPT ![snap] = r]
    BY <1>10 DEF BeginArchive
  <2> HIDE DEF r
  <2>3. Kept'
    <3>1. Fine(r)
      BY <2>1 DEF Fine
    <3> QED  BY <1>0, <1>10, <2>2, <3>1, KeptReplaced DEF BeginArchive
  <2>4. snaps'[snap] = r
    BY <1>0, <2>2 DEF TypeOK
  <2>5. Begun'
    BY <1>10, <2>1, <2>4 DEF BeginArchive, Begun, Files, Taking
  <2> QED  BY <2>3, <2>5
<1>11. ASSUME EndArchive PROVE Recording'
  <2> DEFINE r == [s EXCEPT !.files = "whole", !.store = host,
                            !.lost = snaps[snap].lost \ host,
                            !.rows = IF Files THEN hostDb.rows ELSE snaps[snap].rows]
  <2>1. r.db = s.db /\ r.lost = s.lost \ host /\ r.store = host
        /\ (~Files => r.rows = s.rows)
    BY <1>0 DEF Snapshot
  <2>2. snaps' = [snaps EXCEPT ![snap] = r]
    BY <1>11 DEF EndArchive
  <2> HIDE DEF r
  <2>3. Fine(r)
    BY <1>11, <2>1 DEF EndArchive, Fine, Begun, Taking
  <2>4. Kept'
    BY <1>0, <1>11, <2>2, <2>3, KeptReplaced DEF EndArchive
  <2>5. snaps'[snap] = r
    BY <1>0, <2>2 DEF TypeOK
  <2>6. Begun'
    BY <1>11, <2>1, <2>5 DEF EndArchive, Begun, Taking
  <2> QED  BY <2>4, <2>6
<1>12. ASSUME FailArchive PROVE Recording'
  <2> DEFINE r == [s EXCEPT !.files = "none"]
  <2>1. Fine(r)
    BY <1>0 DEF Fine, Snapshot
  <2>2. snaps' = [snaps EXCEPT ![snap] = r]
    BY <1>12 DEF FailArchive
  <2> HIDE DEF r
  <2>3. Kept'
    BY <1>0, <1>12, <2>1, <2>2, KeptReplaced DEF FailArchive
  <2> QED  BY <1>12, <2>3, NotBegun DEF FailArchive, Leave, Taking
<1>13. ASSUME Seal PROVE Recording'
  <2>1. PICK verify \in BOOLEAN : snaps' = [snaps EXCEPT ![snap].sha = verify]
    BY <1>13 DEF Seal
  <2> DEFINE r == [s EXCEPT !.sha = verify]
  <2>2. Fine(r)
    BY <1>0 DEF Fine, Snapshot
  <2>3. snaps' = [snaps EXCEPT ![snap] = r]
    BY <2>1
  <2> HIDE DEF r
  <2>4. Kept'
    BY <1>0, <1>13, <2>2, <2>3, KeptReplaced DEF Seal
  <2> QED  BY <1>13, <2>4, NotBegun DEF Seal, Leave, Taking
<1> QED
  BY <1>1, <1>2, <1>3, <1>4, <1>5, <1>6, <1>7, <1>8, <1>9, <1>10, <1>11, <1>12,
     <1>13 DEF TakeSnapshot

-----------------------------------------------------------------------------
(* What a restore leaves                                                   *)

After == (Restoring \ {"chosen"}) \cup Ending

Hydrated ==
  {"hydrated", "ready", "trying", "cleared", "failed", "reinstated", "imported",
   "indexed", "restored"}

Imported == {"imported", "indexed", "restored"}

\* Only a start without the lock brings the portal up between the reset and
\* the end.
PortalDown == step \in After /\ ~flawed => ~portal

HostRestored ==
  /\ step \in {"wiped", "verified"} /\ ~flawed => host = {}
  /\ step = "extracted" /\ ~flawed =>
       /\ host = Chosen.store
       /\ Files => hostDb = [state |-> "whole", rows |-> Chosen.rows]

FilesRestored ==
  /\ step \in {"down", "wiped", "verified", "extracted"} /\ ~flawed => store = {}
  /\ step \in Hydrated \cup {"extracted"} => Chosen.files = "whole"
  /\ step \in Hydrated /\ ~flawed => store = Chosen.store

RowsRestored ==
  /\ mode = "isolated" /\ step \in {"down", "wiped", "verified", "extracted",
                                    "hydrated"}
       /\ ~flawed => rows = {}
  /\ Files /\ step = "hydrated" /\ ~flawed => rows = Chosen.rows
  /\ step \in {"ready", "trying", "cleared"} => Dumped
  /\ step \in Imported /\ ~flawed =>
       /\ Files \/ Chosen.db = "whole" => rows = Chosen.rows
       /\ mode = "isolated" /\ Chosen.db = "none" => rows = {}

IndexOwed == step = "restored" /\ ~flawed => index # "stale"

SharedRowsKept ==
  mode = "shared" /\ ~flawed =>
    /\ step \in {"down", "wiped", "refused", "verified", "extracted", "hydrated",
                 "ready"}
         => rows = was
    /\ step \in {"trying", "cleared", "failed", "reinstated"}
         /\ baseline.state = "whole" => baseline.rows = was
    /\ step = "reinstated" /\ baseline.state = "whole" => rows = was

Restored ==
  /\ PortalDown /\ HostRestored /\ FilesRestored /\ RowsRestored /\ IndexOwed
  /\ SharedRowsKept

LEMMA NotAfter == ASSUME step' \notin After PROVE Restored'
  BY DEF Restored, PortalDown, HostRestored, FilesRestored, RowsRestored, IndexOwed,
         SharedRowsKept, After, Restoring, Ending, Hydrated, Imported

LEMMA RestoredInit == ASSUME Init PROVE Restored
  BY DEF Init, Restored, PortalDown, HostRestored, FilesRestored, RowsRestored,
         IndexOwed, SharedRowsKept, After, Restoring, Ending, Hydrated, Imported

LEMMA EnvironmentRestored ==
  ASSUME TypeOK, Restored, Environment PROVE Restored'
<1> USE DEF project, copies, command
<1>1. ASSUME NEW d \in Docs,
             StoreFile(d) \/ CommitRow(d) \/ DeleteRow(d) \/ DeleteFile(d)
      PROVE  Restored'
  <2>1. step \notin After
    BY <1>1
       DEF StoreFile, CommitRow, DeleteRow, DeleteFile, Working, Restored,
           PortalDown
  <2>2. step' = step
    BY <1>1 DEF StoreFile, CommitRow, DeleteRow, DeleteFile
  <2> QED  BY <2>1, <2>2, NotAfter
<1>2. ASSUME DatabaseStops PROVE Restored'
  BY <1>2
     DEF DatabaseStops, Restored, PortalDown, HostRestored, FilesRestored,
         RowsRestored, IndexOwed, SharedRowsKept, Files, Dumped, Chosen
<1>3. ASSUME StartProject, step \in After PROVE Restored'
  BY <1>3
     DEF StartProject, Meddled, Restored, PortalDown, HostRestored, FilesRestored,
         RowsRestored, IndexOwed, SharedRowsKept, Files, Dumped, Chosen, After,
         Restoring, Ending
<1>4. ASSUME StartProject, step \notin After PROVE Restored'
  BY <1>4, NotAfter DEF StartProject
<1>5. ASSUME NEW n \in Names, Damage(n) PROVE Restored'
  BY <1>5, NotAfter DEF Damage, After, Restoring, Ending
<1>6. ASSUME StopProject PROVE Restored'
  BY <1>6
     DEF StopProject, Restored, PortalDown, HostRestored, FilesRestored,
         RowsRestored, IndexOwed, SharedRowsKept, Files, Dumped, Chosen
<1>7. ASSUME ResetProject, step \in After PROVE Restored'
  <2>1. step \notin Taking
    BY <1>7 DEF After, Taking, Restoring, Ending
  <2> QED
    BY <1>7, <2>1
       DEF ResetProject, Losing, Meddled, Restored, PortalDown, HostRestored,
           FilesRestored, RowsRestored, IndexOwed, SharedRowsKept, Files, Dumped,
           Chosen, After, Restoring, Ending
<1>8. ASSUME ResetProject, step \notin After PROVE Restored'
  BY <1>8, NotAfter DEF ResetProject
<1>9. ASSUME RunProject \/ Reindex PROVE Restored'
  BY <1>9, NotAfter DEF RunProject, Reindex, After, Restoring, Ending
<1> QED
  BY <1>1, <1>2, <1>3, <1>4, <1>5, <1>6, <1>7, <1>8, <1>9 DEF Environment

LEMMA OutsideRestored ==
  ASSUME Begin \/ TakeSnapshot \/ Exit \/ Kill PROVE Restored'
<1>1. step' \notin After
  BY DEF Begin, CreateSnapshot, DeleteSnapshot, ChooseSnapshot, TakeSnapshot,
         AskForIndex, DumpDatabase, SkipDump, FailDump, AwaitIndex, Copy,
         CopyDatabase, EndCopy, FailCopy, BeginArchive, EndArchive, FailArchive,
         Seal, Exit, Kill, Leave, Goto, After, Restoring, Ending, command
<1> QED  BY <1>1, NotAfter

LEMMA RestoreFilesRestored ==
  ASSUME TypeOK, Restored, RestoreFiles PROVE Restored'
<1> USE DEF Restored, PortalDown, HostRestored, FilesRestored, RowsRestored,
            IndexOwed, SharedRowsKept, Files, Dumped, Chosen, After, Restoring,
            Ending, Hydrated, Imported, project, copies, Goto, TypeOK
<1>1. ASSUME TearDown PROVE Restored'
  BY <1>1 DEF TearDown
<1>2. ASSUME Wipe PROVE Restored'
  BY <1>2 DEF Wipe
<1>3. ASSUME Refuse PROVE Restored'
  BY <1>3 DEF Refuse
<1>4. ASSUME Accept PROVE Restored'
  BY <1>4 DEF Accept
<1>5. ASSUME Extract PROVE Restored'
  BY <1>5 DEF Extract
<1>6. ASSUME ExtractPartly PROVE Restored'
  BY <1>6 DEF ExtractPartly
<1>7. ASSUME FailExtract PROVE Restored'
  BY <1>7 DEF FailExtract
<1>8. ASSUME Hydrate PROVE Restored'
  <2>1. PortalDown'
    BY <1>8 DEF Hydrate
  <2>2. HostRestored' /\ IndexOwed'
    BY <1>8 DEF Hydrate
  <2>3. FilesRestored'
    BY <1>8 DEF Hydrate, Overlaid
  <2>4. RowsRestored'
    BY <1>8 DEF Hydrate, DatabaseOverlaid
  <2>5. SharedRowsKept'
    BY <1>8 DEF Hydrate, DatabaseOverlaid
  <2> QED  BY <2>1, <2>2, <2>3, <2>4, <2>5
<1>9. ASSUME HydratePartly PROVE Restored'
  BY <1>9 DEF HydratePartly
<1> QED
  BY <1>1, <1>2, <1>3, <1>4, <1>5, <1>6, <1>7, <1>8, <1>9 DEF RestoreFiles

LEMMA RestoreDatabaseRestored ==
  ASSUME TypeOK, Recording, Restored, RestoreDatabase PROVE Restored'
<1> USE DEF Restored, PortalDown, HostRestored, FilesRestored, RowsRestored,
            IndexOwed, SharedRowsKept, Files, Dumped, Chosen, After, Restoring,
            Ending, Hydrated, Imported, project, copies, Goto, TypeOK
<1>1. ASSUME KeepDatabase PROVE Restored'
  <2>1. ~Files => Chosen.db = "none"
    BY <1>1 DEF KeepDatabase
  <2> QED  BY <1>1, <2>1 DEF KeepDatabase
<1>2. ASSUME StartDatabase PROVE Restored'
  BY <1>2 DEF StartDatabase
<1>3. ASSUME FailDatabase PROVE Restored'
  BY <1>3 DEF FailDatabase
<1>4. ASSUME TakeBaseline PROVE Restored'
  BY <1>4 DEF TakeBaseline, NoDump
<1>5. ASSUME ClearDatabase PROVE Restored'
  BY <1>5 DEF ClearDatabase
<1>6. ASSUME ImportDump PROVE Restored'
  BY <1>6 DEF ImportDump
<1>7. ASSUME FailImport PROVE Restored'
  BY <1>7 DEF FailImport
<1>8. ASSUME Reinstate PROVE Restored'
  BY <1>8 DEF Reinstate
<1>9. ASSUME FailReinstate PROVE Restored'
  BY <1>9 DEF FailReinstate
<1>10. ASSUME RestoreIndex PROVE Restored'
  BY <1>10 DEF RestoreIndex
<1>11. ASSUME FlagReindex PROVE Restored'
  BY <1>11 DEF FlagReindex
<1> QED
  BY <1>1, <1>2, <1>3, <1>4, <1>5, <1>6, <1>7, <1>8, <1>9, <1>10, <1>11
     DEF RestoreDatabase

LEMMA RestoreRecording ==
  ASSUME Recording, RestoreFiles \/ RestoreDatabase \/ Exit \/ Kill
  PROVE  Recording'
<1>1. step' \notin Taking /\ UNCHANGED <<mode, snaps>>
  BY DEF RestoreFiles, TearDown, Wipe, Refuse, Accept, Extract, ExtractPartly,
         FailExtract, Hydrate, HydratePartly, RestoreDatabase, KeepDatabase,
         StartDatabase, FailDatabase, TakeBaseline, ClearDatabase, ImportDump,
         FailImport, Reinstate, FailReinstate, RestoreIndex, FlagReindex, Exit,
         Kill, Leave, Goto, Taking, project
<1> QED  BY <1>1, KeptUnchanged, NotBegun DEF Recording

-----------------------------------------------------------------------------
(* The theorems                                                            *)

IInv == Typed /\ Recording /\ Restored

LEMMA InvariantStep == ASSUME IInv, [Next]_vars PROVE IInv'
<1> USE DEF IInv
<1>1. CASE UNCHANGED vars
  <2>1. Recording'
    BY <1>1, KeptUnchanged
       DEF vars, project, copies, command, Recording, Begun, Coming, Files
  <2>2. Restored'
    BY <1>1
       DEF vars, project, copies, command, Restored, PortalDown, HostRestored,
           FilesRestored, RowsRestored, IndexOwed, SharedRowsKept, Files, Dumped,
           Chosen
  <2> QED  BY <1>1, <2>1, <2>2, TypedStep
<1>2. CASE Next
  <2>1. TypeOK
    BY DEF Typed
  <2>2. Recording'
    BY <1>2, <2>1, EnvironmentRecording, BeginRecording, TakeRecording,
       RestoreRecording DEF Next, Command
  <2>3. Restored'
    BY <1>2, <2>1, EnvironmentRestored, OutsideRestored, RestoreFilesRestored,
       RestoreDatabaseRestored DEF Next, Command
  <2> QED  BY <2>2, <2>3, TypedStep
<1> QED  BY <1>1, <1>2

\* What snapshots hold and what a restore has done so far hold together.
LEMMA Invariant == Spec => []IInv
<1>1. Init => IInv
  BY TypedInit, RecordingInit, RestoredInit DEF IInv
<1> QED  BY <1>1, InvariantStep, PTL DEF Spec

\* Whatever the portal stores and deletes while a snapshot is taken, the
\* archive holds the file of every document the dump names, unless the portal
\* deleted it meanwhile or it could not be copied out of the volume: the dump
\* comes before the copy (cmd_snapshot).
THEOREM SnapshotsHoldTheirDocuments == Spec => []SnapshotHoldsItsDocuments
<1>1. IInv => SnapshotHoldsItsDocuments
  BY DEF IInv, Recording, Kept, Fine, SnapshotHoldsItsDocuments
<1> QED  BY <1>1, Invariant, PTL

\* A restore that nothing disturbed, and that says it is complete, left the
\* library and the rows of the snapshot and nothing else (cmd_restore).
THEOREM RestoresGiveTheSnapshot == Spec => []RestoreGivesTheSnapshot
<1>1. IInv => RestoreGivesTheSnapshot
  BY DEF IInv, Restored, FilesRestored, RowsRestored, IndexOwed, Hydrated,
         Imported, RestoreGivesTheSnapshot
<1> QED  BY <1>1, Invariant, PTL

\* What broke off while it was written is never restored as a whole snapshot,
\* though nothing marks its directory (cmd_snapshot, _extract_snapshot_archive).
THEOREM BrokenSnapshotsAreNotRestored == Spec => []BrokenSnapshotIsNotRestored
<1>1. IInv => BrokenSnapshotIsNotRestored
  BY DEF IInv, Typed, TypeOK, Recording, Kept, Fine, Restored, FilesRestored,
         Hydrated, Chosen, BrokenSnapshotIsNotRestored
<1> QED  BY <1>1, Invariant, PTL

\* A restore that fails before it imports the dump, or after which a whole
\* baseline was imported again, left the rows of a shared database as they were
\* (_restore_orchestrated).
THEOREM SharedRowsSurvive == Spec => []SharedRowsSurviveFailure
<1>1. IInv => SharedRowsSurviveFailure
  BY DEF IInv, Restored, SharedRowsKept, SharedRowsSurviveFailure
<1> QED  BY <1>1, Invariant, PTL
=============================================================================
