------------------------- MODULE ImportAndPowerProofs -------------------------
(***************************************************************************)
(* Proofs about two systems that share nothing: `ldm import`, for any      *)
(* number of imports one after the other; and the power of nodes, for any  *)
(* nodes, machines, schedules and bounds of the clock, where the windows   *)
(* are intervals, the state is well typed, and a woken node stays up as    *)
(* long as no two commands overlap.                                        *)
(***************************************************************************)
EXTENDS ImportPipeline, NodePower, SequenceTheorems, TLAPS

(***************************************************************************)
(* `ldm import`                                                            *)
(***************************************************************************)
-----------------------------------------------------------------------------
(* The inductive invariant                                                 *)

\* Stages are executed in order and rolled back in reverse order.
InOrder(stages) ==
  stages \in Seq(1..StageCount) /\ \A i \in 1..Len(stages) : stages[i] = i

EngineInOrder ==
  /\ InOrder(executed) /\ Len(executed) = at - 1
  /\ InOrder(pending) /\ Len(pending) < at
  /\ phase = "execute" => errors = << >>
  /\ phase = "rollback" => at <= StageCount

Contexts ==
  [isNew : BOOLEAN, answer : {"Y", "N", "C"}, tempDirs : SUBSET {"import", "volsync"},
   hasSaved : BOOLEAN, saved : Files, committed : BOOLEAN]

\* The stages run.
Inside == outer = "importing" /\ phase = "execute"

\* What is outside the stages leaves the context alone, and the directory is
\* there as soon as anything is written into it.
OutsideIsOutside ==
  /\ outer \notin {"importing", "over"} => ctx = NewContext /\ at = 1
  /\ outer \in {"start", "located", "fetching"} =>
       /\ step = "start"
       /\ meta = before.meta /\ files = before.files /\ data = before.data
  /\ outer \in {"laidOut", "restoring", "restored"} => dir

\* Only who cleaned a directory treats it as new, and otherwise nothing of an
\* existing project is taken away.
ExistingIsKept ==
  /\ before.dir /\ ctx.answer # "C" => dir /\ ~ctx.isNew
  /\ before.meta # 0 /\ ctx.answer # "C" => meta # 0
  /\ before.meta # 0 => before.dir
  /\ phase = "execute" /\ ctx.answer = "C" => ctx.isNew
  /\ phase = "execute" /\ (at < 5 \/ (at = 5 /\ step \in {"start", "located"})) =>
       ctx.answer = "Y"

\* A source that is refused does not get far enough to change anything.
RefusedEarly ==
  Refused =>
    /\ outer \in {"start", "located", "fetching", "importing", "over"}
    /\ args.way = "release" => outer # "importing" /\ at = 1
    /\ at <= 4
    /\ args.payload = "damaged" => at <= 2
    /\ meta = before.meta /\ files = before.files /\ data = before.data

\* What the stages have made so far.
Made ==
  /\ Inside /\ at = 5 /\ step \in {"laidOut", "described", "identified"} => dir
  /\ Inside /\ at >= 6 => dir /\ meta = Me
  /\ Inside /\ at >= 7 /\ ~Workspace => data = {Me}

CommitIsLast ==
  /\ ctx.committed =>
       /\ at >= 9 /\ outer \in {"importing", "over"}
       /\ dir /\ meta = Me
       /\ ~Workspace => data = {Me}
  /\ at = 9 => step \in {"start", "discarded"} \/ ctx.committed

\* Before its files are copied a workspace's import has not touched the
\* artifact directories, unless it cleaned them.
FilesAreKept ==
  /\ Inside /\ Workspace /\ ctx.answer # "C"
  /\ at <= 6 \/ (at = 7 /\ step \in {"start", "saving"})
  => files = before.files

\* The saved copy is what the artifact directories held, and it stays where it
\* is until it is needed.
CopyIsSaved ==
  /\ ctx.hasSaved =>
       /\ at >= 7 /\ dir /\ ~ctx.isNew /\ Workspace
       /\ ctx.saved = before.files
       /\ ~ctx.committed /\ (at = 9 => step = "start") /\ at <= 9
          /\ (phase = "execute" \/ (phase = "rollback" /\ Len(pending) >= 3))
          => "volsync" \in scratch
  /\ Inside /\ at = 7 /\ step = "saving" =>
       Workspace /\ ~ctx.isNew /\ "volsync" \in scratch

\* Past its own rollback the directories hold it again.
SyncIsUndone ==
  /\ errors # << >> /\ botched = {} /\ Len(pending) < 7
  /\ ctx.hasSaved /\ at > 7 /\ ~ctx.committed /\ step # "discarded"
  => files = before.files

ImportInv ==
  /\ ImportTypeOK
  /\ EngineInOrder
  /\ OutsideIsOutside
  /\ ExistingIsKept
  /\ RefusedEarly
  /\ Made
  /\ CommitIsLast
  /\ FilesAreKept
  /\ CopyIsSaved
  /\ SyncIsUndone

-----------------------------------------------------------------------------
(* The engine                                                              *)

\* A sequence in order grows by the stage that comes next.
LEMMA Appended ==
  ASSUME NEW s, InOrder(s), NEW k \in 1..StageCount, k = Len(s) + 1
  PROVE  InOrder(Append(s, k)) /\ Len(Append(s, k)) = k
BY DEF InOrder, StageCount

\* What a sequence loses with its last element.
LEMMA FrontOf ==
  ASSUME NEW S, NEW s \in Seq(S), Len(s) # 0
  PROVE  /\ Len(s) \in Nat /\ Len(s) \in 1..Len(s) /\ s[Len(s)] \in S
         /\ SubSeq(s, 1, Len(s) - 1) \in Seq(S)
         /\ Len(SubSeq(s, 1, Len(s) - 1)) = Len(s) - 1
         /\ \A i \in 1..(Len(s) - 1) : SubSeq(s, 1, Len(s) - 1)[i] = s[i]
<1>1. Len(s) \in Nat /\ Len(s) \in 1..Len(s)
  OBVIOUS
<1>2. s[Len(s)] \in S
  BY <1>1, ElementOfSeq
<1>3. Len(s) - 1 \in Nat /\ Len(s) - 1 <= Len(s)
  BY <1>1
<1>4. ASSUME NEW n \in Nat, n <= Len(s)
      PROVE  /\ SubSeq(s, 1, n) \in Seq(S) /\ Len(SubSeq(s, 1, n)) = n
             /\ \A i \in 1..n : SubSeq(s, 1, n)[i] = s[i]
  BY <1>4
<1> QED
  BY <1>1, <1>2, <1>3, <1>4

\* It shrinks by the stage that came last.
LEMMA Shortened ==
  ASSUME NEW s, InOrder(s), s # << >>
  PROVE  /\ InOrder(E!Front(s)) /\ Len(E!Front(s)) = Len(s) - 1
         /\ E!Last(s) = Len(s) /\ Len(s) \in 1..StageCount
<1>1. /\ s \in Seq(1..StageCount) /\ Len(s) \in Nat /\ Len(s) # 0
      /\ \A i \in 1..Len(s) : s[i] = i
  BY DEF InOrder
<1>2. /\ Len(s) \in 1..Len(s) /\ s[Len(s)] \in 1..StageCount
      /\ SubSeq(s, 1, Len(s) - 1) \in Seq(1..StageCount)
      /\ Len(SubSeq(s, 1, Len(s) - 1)) = Len(s) - 1
      /\ \A i \in 1..(Len(s) - 1) : SubSeq(s, 1, Len(s) - 1)[i] = s[i]
  BY <1>1, FrontOf
<1>3. s[Len(s)] = Len(s) /\ \A i \in 1..(Len(s) - 1) : i \in 1..Len(s)
  BY <1>1, <1>2
<1> QED
  BY <1>1, <1>2, <1>3 DEF InOrder, E!Front, E!Last

\* execute() of a stage returned.
LEMMA Advances ==
  ASSUME at \in 1..(StageCount + 1), EngineInOrder, E!Advance(FALSE)
  PROVE  /\ EngineInOrder' /\ phase = "execute" /\ phase' = phase
         /\ at \in 1..StageCount /\ at' = at + 1 /\ errors = << >>
         /\ UNCHANGED <<errors, pending, botched>>
<1> USE DEF E!Advance, E!Executing, EngineInOrder, StageCount
<1>1. InOrder(executed') /\ Len(executed') = at
  BY Appended
<1> QED
  BY <1>1 DEF InOrder

\* It raised: everything executed is to be rolled back.
LEMMA Fails ==
  ASSUME at \in 1..(StageCount + 1), EngineInOrder, NEW e, E!Fail(e)
  PROVE  /\ EngineInOrder' /\ phase = "execute" /\ phase' = "rollback"
         /\ Len(pending') = at - 1
         /\ UNCHANGED <<at, botched>>
BY DEF E!Fail, E!Executing, EngineInOrder, InOrder, StageCount

\* rollback() of a stage returned, raised or was interrupted.
LEMMA RollsBack ==
  ASSUME at \in 1..(StageCount + 1), EngineInOrder, NEW s, RollingBack(s),
         E!UndoStage \/ E!BotchUndo
  PROVE  /\ EngineInOrder' /\ phase = "rollback" /\ phase' = phase
         /\ Len(pending) = s /\ Len(pending') = s - 1 /\ s \in 1..StageCount
         /\ UNCHANGED <<at, errors>>
         /\ E!UndoStage => botched' = botched
         /\ E!BotchUndo => botched' # {}
<1> USE DEF RollingBack, EngineInOrder
<1>1. InOrder(pending') /\ Len(pending') = Len(pending) - 1 /\ s = Len(pending)
  BY Shortened DEF E!UndoStage, E!BotchUndo
<1>2. Len(pending') < at
  BY <1>1 DEF InOrder
<1> QED
  BY <1>1, <1>2, Shortened DEF E!UndoStage, E!BotchUndo

\* The walk was interrupted.
LEMMA Abandons ==
  ASSUME EngineInOrder, E!AbandonRollback
  PROVE  /\ EngineInOrder' /\ phase = "rollback" /\ phase' = "returned"
         /\ UNCHANGED <<at, errors, pending, botched>>
BY DEF E!AbandonRollback, EngineInOrder

\* The engine stands still.
LEMMA StandsStill ==
  ASSUME EngineInOrder, UNCHANGED engineVars
  PROVE  EngineInOrder' /\ UNCHANGED <<phase, at, errors, pending, botched>>
BY DEF EngineInOrder, engineVars

-----------------------------------------------------------------------------
(* Around the stages                                                       *)

\* What verification must refuse, spelled out.
LEMMA WhatIsRefused ==
  Refused <=>
    \/ args.payload \in {"damaged", "unreadable"}
    \/ args.way = "release" /\ args.payload = "misdeclared"
BY DEF Refused, Payloads

LEMMA RefusalStays == UNCHANGED args => (Refused' <=> Refused)
BY DEF Refused

\* A command that begins knows of nothing.
LEMMA Blank ==
  /\ NewContext \in Contexts
  /\ ~NewContext.isNew /\ NewContext.answer = "Y" /\ ~NewContext.hasSaved
  /\ ~NewContext.committed
BY DEF NewContext, Contexts, NoFiles, Files

\* What an import brings is its own.
LEMMA MineIsAnOrigin ==
  ASSUME runs \in 1..MaxRuns
  PROVE  Me \in Origin /\ Me # 0 /\ Me \in Origin \cup {0}
BY MaxRunsAssumption DEF MaxRunsAssumption, Me, Origin

\* What cmd_import does outside the stages keeps the invariant.
LEMMA OutsideKeeps ==
  ASSUME ImportInv,
         \/ Fetch \/ VerifyPackage \/ LayOutPackage \/ RecordPackage \/ StartPackage
         \/ FinishPackage \/ FailOutside
  PROVE  ImportInv'
<1> USE MaxRunsAssumption, WhatIsRefused, Blank
    DEF MaxRunsAssumption, ImportInv, ImportTypeOK, OutsideIsOutside, project, world
<1>1. CASE BeginImport \/ StartDownload \/ StartClone \/ StartPackage \/ ImportFetched
           \/ VerifyPackage
  <2>1. /\ UNCHANGED <<engineVars, step, args, ctx, runs, before, project>>
        /\ outer \in {"start", "located", "fetching"} /\ phase = "execute"
        /\ scratch' \in SUBSET Scratch
        /\ \/ /\ outer' \in {"fetching", "importing"}
              /\ args.way = "release" => outer' # "importing"
           \/ outer' = "verified" /\ ~Refused
    BY <1>1 DEF BeginImport, StartDownload, StartClone, StartPackage, ImportFetched,
                VerifyPackage, Outside, Scratch
  <2>2. Refused' <=> Refused
    BY <2>1, RefusalStays
  <2>3. EngineInOrder' /\ UNCHANGED <<phase, at, errors, pending, botched>>
    BY <2>1, StandsStill
  <2>4. ImportTypeOK'
    BY <2>1, <2>3
  <2>5. OutsideIsOutside'
    BY <2>1, <2>3
  <2>6. ExistingIsKept' /\ Made' /\ CommitIsLast' /\ SyncIsUndone'
    BY <2>1, <2>3
       DEF ExistingIsKept, Made, CommitIsLast, SyncIsUndone, Inside, Workspace
  <2>7. RefusedEarly'
    BY <2>1, <2>2, <2>3 DEF RefusedEarly
  <2>8. FilesAreKept' /\ CopyIsSaved'
    BY <2>1, <2>3 DEF FilesAreKept, CopyIsSaved, Inside, Workspace
  <2> QED
    BY <2>3, <2>4, <2>5, <2>6, <2>7, <2>8
<1>2. CASE LocateRepository \/ LayOutPackage \/ RecordPackage
  <2>1. /\ UNCHANGED <<engineVars, step, args, ctx, runs, before, files, data,
                       scratch>> /\ phase = "execute"
        /\ \/ /\ outer = "start" /\ outer' = "located" /\ (dir => dir') /\ dir' \in BOOLEAN
              /\ meta' = meta
           \/ outer = "verified" /\ outer' = "laidOut" /\ dir' /\ meta' = meta
           \/ outer = "laidOut" /\ outer' = "restoring" /\ dir' = dir /\ meta' = Me
    BY <1>2 DEF LocateRepository, LayOutPackage, RecordPackage, Outside
  <2>2. Refused' <=> Refused
    BY <2>1, RefusalStays
  <2>3. EngineInOrder' /\ UNCHANGED <<phase, at, errors, pending, botched>>
    BY <2>1, StandsStill
  <2>4. ImportTypeOK'
    BY <2>1, <2>2, <2>3, MineIsAnOrigin DEF StageCount, CopyIsSaved
  <2>5. OutsideIsOutside'
    BY <2>1, <2>2, <2>3, MineIsAnOrigin
       DEF StageCount, ExistingIsKept, RefusedEarly, Made, CommitIsLast, FilesAreKept,
           CopyIsSaved, SyncIsUndone, Inside, Workspace, Me
  <2>6. ExistingIsKept' /\ RefusedEarly'
    BY <2>1, <2>2, <2>3, MineIsAnOrigin
       DEF StageCount, ExistingIsKept, RefusedEarly, Made, CommitIsLast, FilesAreKept,
           CopyIsSaved, SyncIsUndone, Inside, Workspace, Me
  <2>7. Made' /\ CommitIsLast'
    BY <2>1, <2>2, <2>3, MineIsAnOrigin
       DEF StageCount, ExistingIsKept, RefusedEarly, Made, CommitIsLast, FilesAreKept,
           CopyIsSaved, SyncIsUndone, Inside, Workspace, Me
  <2>8. FilesAreKept' /\ CopyIsSaved' /\ SyncIsUndone'
    BY <2>1, <2>2, <2>3, MineIsAnOrigin
       DEF StageCount, ExistingIsKept, RefusedEarly, Made, CommitIsLast, FilesAreKept,
           CopyIsSaved, SyncIsUndone, Inside, Workspace, Me
  <2> QED
    BY <2>3, <2>4, <2>5, <2>6, <2>7, <2>8
<1>3. CASE FinishPackage \/ FailOutside
  <2>1. /\ UNCHANGED <<at, executed, errors, pending, botched, step, args, ctx, runs,
                       before, project>>
        /\ outer \notin {"importing", "over"} /\ outer' = "over"
        /\ phase = "execute" /\ phase' = "exited" /\ scratch' = {}
    BY <1>3 DEF FinishPackage, FailOutside, ExitOutside
  <2>2. Refused' <=> Refused
    BY <2>1, RefusalStays
  <2>3. EngineInOrder'
    BY <2>1 DEF EngineInOrder
  <2>4. ImportTypeOK' /\ OutsideIsOutside'
    BY <2>1
  <2>5. ExistingIsKept' /\ RefusedEarly' /\ Made' /\ CommitIsLast'
    BY <2>1, <2>2
       DEF ExistingIsKept, RefusedEarly, Made, CommitIsLast, Inside, Workspace
  <2>6. FilesAreKept' /\ CopyIsSaved' /\ SyncIsUndone'
    BY <2>1
       DEF FilesAreKept, CopyIsSaved, SyncIsUndone, Inside, Workspace, EngineInOrder
  <2> QED
    BY <2>3, <2>4, <2>5, <2>6
<1> QED
  BY <1>1, <1>2, <1>3 DEF Fetch

-----------------------------------------------------------------------------
(* The stages                                                              *)

\* Stage `s`, which changes nothing, returns, with what it has found out.
Quietly(s) ==
  /\ outer = "importing" /\ at = s /\ E!Advance(FALSE) /\ step' = "start"
  /\ UNCHANGED <<outer, args, ctx, runs, world, before>>
  /\ s = 2 => args.payload # "damaged"
  /\ s = 4 => args.payload # "unreadable"
  /\ s = 6 => Workspace
  /\ s = 7 => ~Workspace
  /\ s = 9 => step = "committed"

\* These are the steps that do.
LEMMA QuietReturns ==
  ASSUME \/ Check \/ UseFolder \/ Unpack \/ SkipRestore \/ LeaveToRestore
         \/ StartProject
  PROVE  \E s \in {1, 2, 3, 4, 6, 7, 8, 9} : Quietly(s)
<1>1. Prepare => Quietly(1)
  BY DEF Prepare, Quietly, InStage, Return, Workspace, world, project, E!Advance
<1>2. ValidateSource => Quietly(2)
  BY DEF ValidateSource, Quietly, InStage, Return, Workspace, world, project,
     E!Advance
<1>3. VerifyManifest => Quietly(4)
  BY DEF VerifyManifest, Quietly, InStage, Return, Workspace, world, project,
     E!Advance
<1>4. BuildWorkspace => Quietly(8)
  BY DEF BuildWorkspace, Quietly, InStage, Return, Workspace, world, project,
     E!Advance
<1>5. (UseFolder \/ Unpack) => Quietly(3)
  BY DEF UseFolder, Unpack, Quietly, InStage, Return, Workspace, world, project,
     E!Advance
<1>6. SkipRestore => Quietly(6)
  BY DEF SkipRestore, Quietly, InStage, Return, Workspace, world, project, E!Advance
<1>7. LeaveToRestore => Quietly(7)
  BY DEF LeaveToRestore, Quietly, InStage, Return, Workspace, world, project,
     E!Advance
<1>8. StartProject => Quietly(9)
  BY DEF StartProject, Quietly, InStage, Return, Workspace, world, project, E!Advance
<1> QED
  BY <1>1, <1>2, <1>3, <1>4, <1>5, <1>6, <1>7, <1>8 DEF Check

\* A stage that changes nothing keeps the invariant.
LEMMA QuietReturnsKeep ==
  ASSUME ImportInv,
         \/ Check \/ UseFolder \/ Unpack \/ SkipRestore \/ LeaveToRestore
         \/ StartProject
  PROVE  ImportInv'
<1>1. PICK s \in {1, 2, 3, 4, 6, 7, 8, 9} : Quietly(s)
  BY QuietReturns
<1>2. /\ outer = "importing" /\ at = s /\ E!Advance(FALSE) /\ step' = "start"
      /\ UNCHANGED <<outer, args, ctx, runs, before, dir, meta, files, data, scratch>>
      /\ s = 2 => args.payload # "damaged"
      /\ s = 4 => args.payload # "unreadable"
      /\ s = 6 => Workspace
      /\ s = 7 => ~Workspace
      /\ s = 9 => step = "committed"
  BY <1>1 DEF Quietly, world, project
<1>3. at \in 1..(StageCount + 1) /\ EngineInOrder
  BY DEF ImportInv, ImportTypeOK
<1>4. /\ EngineInOrder' /\ phase = "execute" /\ phase' = "execute"
      /\ at' = s + 1 /\ errors = << >> /\ errors' = << >>
      /\ UNCHANGED <<pending, botched>>
  BY <1>2, <1>3, Advances
<1>5. Refused' <=> Refused
  BY <1>2, RefusalStays
<1>6. ImportTypeOK'
  BY <1>2, <1>4 DEF ImportInv, ImportTypeOK, StageCount
<1>7. OutsideIsOutside'
  BY <1>2, <1>4 DEF ImportInv, OutsideIsOutside
<1>8. ExistingIsKept'
  BY <1>2, <1>4 DEF ImportInv, ExistingIsKept
<1>9. RefusedEarly'
  BY <1>1, <1>2, <1>4, <1>5, WhatIsRefused DEF ImportInv, RefusedEarly
<1>10. Made' /\ CommitIsLast'
  BY <1>1, <1>2, <1>4
     DEF ImportInv, Made, CommitIsLast, Inside, Workspace, Me, RefusedEarly
<1>11. FilesAreKept'
  BY <1>1, <1>2, <1>4 DEF ImportInv, FilesAreKept, Inside, Workspace
<1>12. CopyIsSaved'
  BY <1>1, <1>2, <1>4 DEF ImportInv, CopyIsSaved, Inside, Workspace, CommitIsLast
<1>13. SyncIsUndone'
  BY <1>2, <1>4 DEF SyncIsUndone
<1> QED
  BY <1>4, <1>6, <1>7, <1>8, <1>9, <1>10, <1>11, <1>12, <1>13 DEF ImportInv

\* So does a step within a stage that changes nothing.
LEMMA QuietContinuesKeep ==
  ASSUME ImportInv, DescribeProject \/ IdentifyCloudProject \/ SkipSnapshot
  PROVE  ImportInv'
<1>1. /\ outer = "importing" /\ phase = "execute"
      /\ UNCHANGED <<engineVars, outer, args, ctx, runs, dir, meta, files, data,
                     scratch,
                   before>>
      /\ \/ /\ at = 5 /\ step \in {"laidOut", "described"}
            /\ step' \in {"described", "identified"}
         \/ at = 7 /\ step' = "saved"
  BY DEF DescribeProject, IdentifyCloudProject, SkipSnapshot, InStage, Continue,
         E!Executing, world, project
<1>2. Refused' <=> Refused
  BY <1>1, RefusalStays
<1>3. at \in 1..(StageCount + 1) /\ EngineInOrder
  BY DEF ImportInv, ImportTypeOK
<1>4. /\ EngineInOrder'
      /\ phase' = phase /\ at' = at /\ errors' = errors
      /\ pending' = pending /\ botched' = botched
  BY <1>1, <1>3, StandsStill
<1>5. ImportTypeOK'
  BY <1>1, <1>4 DEF ImportInv, ImportTypeOK, StageCount
<1>6. OutsideIsOutside'
  BY <1>1, <1>4 DEF ImportInv, OutsideIsOutside
<1>7. ExistingIsKept'
  BY <1>1, <1>4 DEF ImportInv, ExistingIsKept
<1>8. RefusedEarly'
  BY <1>1, <1>2, <1>4, WhatIsRefused DEF ImportInv, RefusedEarly
<1>9. Made'
  BY <1>1, <1>4 DEF ImportInv, Made, Inside, Workspace, Me
<1>10. CommitIsLast'
  BY <1>1, <1>4 DEF ImportInv, CommitIsLast, Workspace, Me
<1>11. FilesAreKept'
  BY <1>1, <1>4 DEF ImportInv, FilesAreKept, Inside, Workspace
<1>12. CopyIsSaved'
  BY <1>1, <1>4 DEF ImportInv, CopyIsSaved, Inside, Workspace
<1>13. SyncIsUndone'
  BY <1>1, <1>4 DEF ImportInv, SyncIsUndone
<1> QED
  BY <1>4, <1>5, <1>6, <1>7, <1>8, <1>9, <1>10, <1>11, <1>12, <1>13 DEF ImportInv

\* A scratch directory is noted in the context.
LEMMA ScratchNoted ==
  ASSUME NEW c \in Contexts, NEW d,
         d = [c EXCEPT !.tempDirs = @ \cup {"import"}]
  PROVE  /\ d \in Contexts /\ d.tempDirs = c.tempDirs \cup {"import"}
         /\ d.isNew = c.isNew /\ d.answer = c.answer /\ d.hasSaved = c.hasSaved
         /\ d.saved = c.saved /\ d.committed = c.committed
BY DEF Contexts

\* A directory that was not there is new.
LEMMA Unasked ==
  ASSUME NEW c \in Contexts, NEW d,
         d = [c EXCEPT !.isNew = TRUE]
  PROVE  /\ d \in Contexts /\ d.isNew
         /\ d.answer = c.answer /\ d.hasSaved = c.hasSaved /\ d.saved = c.saved
         /\ d.committed = c.committed /\ d.tempDirs = c.tempDirs
BY DEF Contexts

\* What the user answers is noted.
LEMMA Answered ==
  ASSUME NEW c \in Contexts, NEW d, NEW a \in {"Y", "N", "C"},
         d = [c EXCEPT !.answer = a]
  PROVE  /\ d \in Contexts /\ d.answer = a
         /\ d.isNew = c.isNew /\ d.hasSaved = c.hasSaved /\ d.saved = c.saved
         /\ d.committed = c.committed /\ d.tempDirs = c.tempDirs
BY DEF Contexts

\* One who cleans it starts anew.
LEMMA Cleans ==
  ASSUME NEW c \in Contexts, NEW d,
         d = [c EXCEPT !.isNew = TRUE, !.answer = "C"]
  PROVE  /\ d \in Contexts /\ d.isNew /\ d.answer = "C"
         /\ d.hasSaved = c.hasSaved /\ d.saved = c.saved /\ d.committed = c.committed
         /\ d.tempDirs = c.tempDirs
BY DEF Contexts

\* A complete copy is noted with where it is.
LEMMA CopyNoted ==
  ASSUME NEW c \in Contexts, NEW d, NEW f \in Files,
         d = [c EXCEPT !.hasSaved = TRUE, !.saved = f, !.tempDirs = @ \cup {"volsync"}]
  PROVE  /\ d \in Contexts /\ d.hasSaved /\ d.saved = f
         /\ d.isNew = c.isNew /\ d.answer = c.answer /\ d.committed = c.committed
BY DEF Contexts

\* The import is committed.
LEMMA Commits ==
  ASSUME NEW c \in Contexts, NEW d,
         d = [c EXCEPT !.committed = TRUE]
  PROVE  /\ d \in Contexts /\ d.committed
         /\ d.isNew = c.isNew /\ d.answer = c.answer /\ d.hasSaved = c.hasSaved
         /\ d.saved = c.saved /\ d.tempDirs = c.tempDirs
BY DEF Contexts

\* There may be no artifacts.
LEMMA NoFilesAreFiles == NoFiles \in Files
BY DEF NoFiles, Files

\* The context has its fields.
LEMMA ContextTyped == ImportInv => ctx \in Contexts
BY DEF ImportInv, ImportTypeOK, Contexts

\* ExtractionStage makes its scratch directory.
LEMMA CreateScratchKeeps ==
  ASSUME ImportInv, CreateScratch
  PROVE  ImportInv'
<1>1. /\ outer = "importing" /\ phase = "execute" /\ at = 3 /\ step' = "unpacking"
      /\ UNCHANGED <<engineVars, outer, args, runs, dir, meta, files, data, before>>
      /\ ctx' \in Contexts /\ ctx'.isNew = ctx.isNew /\ ctx'.answer = ctx.answer
      /\ ctx'.hasSaved = ctx.hasSaved /\ ctx'.committed = ctx.committed
      /\ scratch' = scratch \cup {"import"}
  <2>1. ctx \in Contexts
    BY ContextTyped
  <2> QED
    BY <2>1, ScratchNoted DEF CreateScratch, InStage, Continue, E!Executing, project
<1>2. Refused' <=> Refused
  BY <1>1, RefusalStays
<1>3. at \in 1..(StageCount + 1) /\ EngineInOrder
  BY DEF ImportInv, ImportTypeOK
<1>4. /\ EngineInOrder'
      /\ phase' = phase /\ at' = at /\ errors' = errors
      /\ pending' = pending /\ botched' = botched
  BY <1>1, <1>3, StandsStill
<1>5. ImportTypeOK'
  BY <1>1, <1>4 DEF ImportInv, ImportTypeOK, StageCount, Contexts, Scratch
<1>6. OutsideIsOutside'
  BY <1>1, <1>4 DEF ImportInv, OutsideIsOutside
<1>7. ExistingIsKept'
  BY <1>1, <1>4 DEF ImportInv, ExistingIsKept
<1>8. RefusedEarly'
  BY <1>1, <1>2, <1>4, WhatIsRefused DEF ImportInv, RefusedEarly
<1>9. Made'
  BY <1>1, <1>4 DEF ImportInv, Made, Inside, Workspace, Me
<1>10. CommitIsLast'
  BY <1>1, <1>4 DEF ImportInv, CommitIsLast, Workspace, Me
<1>11. FilesAreKept'
  BY <1>1, <1>4 DEF ImportInv, FilesAreKept, Inside, Workspace
<1>12. CopyIsSaved'
  BY <1>1, <1>4 DEF ImportInv, CopyIsSaved, Inside, Workspace
<1>13. SyncIsUndone'
  BY <1>1, <1>4 DEF ImportInv, SyncIsUndone
<1> QED
  BY <1>4, <1>5, <1>6, <1>7, <1>8, <1>9, <1>10, <1>11, <1>12, <1>13 DEF ImportInv

\* The project directory comes into being, for the lock or for its layout.
LEMMA DirectoriesKeep ==
  ASSUME ImportInv, LocateProject \/ MakeDirectories
  PROVE  ImportInv'
<1>1. /\ outer = "importing" /\ phase = "execute" /\ at = 5
      /\ UNCHANGED <<engineVars, outer, args, ctx, runs, meta, files, data, scratch,
                     before>>
      /\ dir' \in BOOLEAN /\ (dir => dir')
      /\ \/ step = "start" /\ step' = "located"
         \/ dir' /\ step' = "laidOut"
  <2>1. dir \in BOOLEAN /\ args.locks \in BOOLEAN
    BY DEF ImportInv, ImportTypeOK, Args
  <2> QED
    BY <2>1 DEF LocateProject, MakeDirectories, InStage, Continue, E!Executing
<1>2. Refused' <=> Refused
  BY <1>1, RefusalStays
<1>3. at \in 1..(StageCount + 1) /\ EngineInOrder
  BY DEF ImportInv, ImportTypeOK
<1>4. /\ EngineInOrder'
      /\ phase' = phase /\ at' = at /\ errors' = errors
      /\ pending' = pending /\ botched' = botched
  BY <1>1, <1>3, StandsStill
<1>5. ImportTypeOK'
  BY <1>1, <1>4 DEF ImportInv, ImportTypeOK, StageCount
<1>6. OutsideIsOutside'
  BY <1>1, <1>4 DEF ImportInv, OutsideIsOutside
<1>7. ExistingIsKept'
  BY <1>1, <1>4 DEF ImportInv, ExistingIsKept
<1>8. RefusedEarly'
  BY <1>1, <1>2, <1>4, WhatIsRefused DEF ImportInv, RefusedEarly
<1>9. Made'
  BY <1>1, <1>4 DEF ImportInv, Made, Inside, Workspace, Me
<1>10. CommitIsLast'
  BY <1>1, <1>4 DEF ImportInv, CommitIsLast, Workspace, Me
<1>11. FilesAreKept'
  BY <1>1, <1>4 DEF ImportInv, FilesAreKept, Inside, Workspace
<1>12. CopyIsSaved'
  BY <1>1, <1>4 DEF ImportInv, CopyIsSaved, Inside, Workspace
<1>13. SyncIsUndone'
  BY <1>1, <1>4 DEF ImportInv, SyncIsUndone
<1> QED
  BY <1>4, <1>5, <1>6, <1>7, <1>8, <1>9, <1>10, <1>11, <1>12, <1>13 DEF ImportInv

\* What becomes of a directory that was there is chosen; who cleans it starts anew.
LEMMA ChooseKeeps ==
  ASSUME ImportInv, UseNewDirectory \/ KeepDirectory \/ CleanDirectory
  PROVE  ImportInv'
<1>1. /\ outer = "importing" /\ phase = "execute"
      /\ at = 5 /\ step = "located" /\ step' = "chosen"
      /\ UNCHANGED <<engineVars, outer, args, runs, data, scratch, before>>
      /\ ctx' \in Contexts
      /\ ctx'.hasSaved = ctx.hasSaved /\ ctx'.committed = ctx.committed
      /\ \/ /\ ~dir /\ ctx'.isNew /\ ctx'.answer = ctx.answer
            /\ UNCHANGED <<dir, meta, files>>
         \/ /\ dir /\ ctx'.isNew = ctx.isNew /\ ctx'.answer \in {"Y", "N"}
            /\ UNCHANGED <<dir, meta, files>>
         \/ /\ dir /\ ctx'.isNew /\ ctx'.answer = "C"
            /\ dir' = FALSE /\ meta' = 0 /\ files' = NoFiles
  <2>1. ctx \in Contexts
    BY ContextTyped
  <2>2. CASE UseNewDirectory
    BY <2>1, <2>2, Unasked
       DEF UseNewDirectory, InStage, Continue, E!Executing, world, project
  <2>3. CASE KeepDirectory
    BY <2>1, <2>3, Answered
       DEF KeepDirectory, InStage, Continue, E!Executing, world, project
  <2>4. CASE CleanDirectory
    BY <2>1, <2>4, Cleans
       DEF CleanDirectory, InStage, Continue, E!Executing
  <2> QED
    BY <2>2, <2>3, <2>4
<1>2. Refused' <=> Refused
  BY <1>1, RefusalStays
<1>3. at \in 1..(StageCount + 1) /\ EngineInOrder
  BY DEF ImportInv, ImportTypeOK
<1>4. /\ EngineInOrder'
      /\ phase' = phase /\ at' = at /\ errors' = errors
      /\ pending' = pending /\ botched' = botched
  BY <1>1, <1>3, StandsStill
<1>5. ImportTypeOK'
  <2>1. /\ dir' \in BOOLEAN /\ meta' \in Origin \cup {0} /\ files' \in Files
        /\ ~dir' => meta' = 0 /\ files' = NoFiles
    <3>1. CASE UNCHANGED <<dir, meta, files>>
      BY <3>1 DEF ImportInv, ImportTypeOK
    <3>2. CASE dir' = FALSE /\ meta' = 0 /\ files' = NoFiles
      BY <3>2, NoFilesAreFiles
    <3> QED
      BY <1>1, <3>1, <3>2
  <2> QED
    BY <1>1, <1>4, <2>1 DEF ImportInv, ImportTypeOK, Contexts, StageCount
<1>6. OutsideIsOutside'
  BY <1>1, <1>4 DEF ImportInv, OutsideIsOutside
<1>7. ExistingIsKept'
  BY <1>1, <1>4 DEF ImportInv, ExistingIsKept
<1>8. RefusedEarly'
  BY <1>1, <1>2, <1>4, WhatIsRefused DEF ImportInv, RefusedEarly
<1>9. Made'
  BY <1>1, <1>4 DEF ImportInv, Made, Inside, Workspace, Me
<1>10. CommitIsLast'
  BY <1>1, <1>4 DEF ImportInv, CommitIsLast, Workspace, Me
<1>11. FilesAreKept'
  BY <1>1, <1>4 DEF ImportInv, FilesAreKept, ExistingIsKept, Inside, Workspace
<1>12. CopyIsSaved'
  BY <1>1, <1>4 DEF ImportInv, CopyIsSaved, Inside, Workspace
<1>13. SyncIsUndone'
  BY <1>1, <1>4 DEF ImportInv, SyncIsUndone
<1> QED
  BY <1>4, <1>5, <1>6, <1>7, <1>8, <1>9, <1>10, <1>11, <1>12, <1>13 DEF ImportInv

\* ProjectSetupStage writes the metadata of the project, and returns.
LEMMA WriteMetaKeeps ==
  ASSUME ImportInv, WriteMeta
  PROVE  ImportInv'
<1>1. /\ outer = "importing" /\ phase = "execute"
      /\ at = 5 /\ step = "identified" /\ step' = "start"
      /\ E!Advance(FALSE) /\ meta' = Me
      /\ UNCHANGED <<outer, args, ctx, runs, dir, files, data, scratch, before>>
  BY DEF WriteMeta, InStage, Return, E!Executing, E!Advance
<1>2. Refused' <=> Refused
  BY <1>1, RefusalStays
<1>3. at \in 1..(StageCount + 1) /\ EngineInOrder
  BY DEF ImportInv, ImportTypeOK
<1>4. /\ EngineInOrder' /\ phase = "execute" /\ phase' = "execute"
      /\ at' = at + 1 /\ errors = << >> /\ errors' = << >>
      /\ pending' = pending /\ botched' = botched
  BY <1>1, <1>3, Advances
<1>5. ImportTypeOK'
  <2>1. Me \in Origin \cup {0}
    BY MineIsAnOrigin DEF ImportInv, ImportTypeOK
  <2> QED
    BY <1>1, <1>4, <2>1 DEF ImportInv, ImportTypeOK, StageCount, Made, Inside
<1>6. OutsideIsOutside'
  BY <1>1, <1>4 DEF ImportInv, OutsideIsOutside
<1>7. ExistingIsKept'
  <2>1. Me # 0
    BY MineIsAnOrigin DEF ImportInv, ImportTypeOK
  <2> QED
    BY <1>1, <1>4, <2>1 DEF ImportInv, ExistingIsKept
<1>8. RefusedEarly'
  BY <1>1, <1>2, <1>4, WhatIsRefused DEF ImportInv, RefusedEarly
<1>9. Made'
  BY <1>1, <1>4 DEF ImportInv, Made, Inside, Workspace, Me
<1>10. CommitIsLast'
  BY <1>1, <1>4 DEF ImportInv, CommitIsLast, Workspace, Me
<1>11. FilesAreKept'
  BY <1>1, <1>4 DEF ImportInv, FilesAreKept, Inside, Workspace
<1>12. CopyIsSaved'
  BY <1>1, <1>4 DEF ImportInv, CopyIsSaved, Inside, Workspace
<1>13. SyncIsUndone'
  BY <1>1, <1>4 DEF ImportInv, SyncIsUndone
<1> QED
  BY <1>4, <1>5, <1>6, <1>7, <1>8, <1>9, <1>10, <1>11, <1>12, <1>13 DEF ImportInv

\* cmd_restore resets the project and extracts the package, in a stage or for a
\* release.
LEMMA RestoreKeeps ==
  ASSUME ImportInv, ResetProject \/ ExtractPackage
  PROVE  ImportInv'
<1>1. /\ phase = "execute"
      /\ \/ outer = "importing" /\ at = 6 /\ ~Workspace
         \/ outer = "restoring"
      /\ step' \in {"reset", "extracted"} /\ data' \in SUBSET Origin /\ files' \in Files
      /\ UNCHANGED <<engineVars, outer, args, ctx, runs, dir, meta, scratch, before>>
  <2>1. data \in SUBSET Origin /\ files \in Files
    BY DEF ImportInv, ImportTypeOK
  <2> QED
    BY <2>1
       DEF ResetProject, ExtractPackage, AtRestore, InStage, Continue, E!Executing,
       Workspace, Files
<1>2. Refused' <=> Refused
  BY <1>1, RefusalStays
<1>3. at \in 1..(StageCount + 1) /\ EngineInOrder
  BY DEF ImportInv, ImportTypeOK
<1>4. /\ EngineInOrder'
      /\ phase' = phase /\ at' = at /\ errors' = errors
      /\ pending' = pending /\ botched' = botched
  BY <1>1, <1>3, StandsStill
<1>5. ImportTypeOK'
  BY <1>1, <1>4
     DEF ImportInv, ImportTypeOK, Made, OutsideIsOutside, StageCount, Inside
<1>6. OutsideIsOutside'
  BY <1>1, <1>4 DEF ImportInv, OutsideIsOutside
<1>7. ExistingIsKept'
  BY <1>1, <1>4 DEF ImportInv, ExistingIsKept
<1>8. RefusedEarly'
  BY <1>1, <1>2, <1>4, WhatIsRefused DEF ImportInv, RefusedEarly
<1>9. Made'
  BY <1>1, <1>4 DEF ImportInv, Made, Inside, Workspace, Me
<1>10. CommitIsLast'
  BY <1>1, <1>4 DEF ImportInv, CommitIsLast, OutsideIsOutside, Workspace, Me
<1>11. FilesAreKept'
  BY <1>1, <1>4 DEF ImportInv, FilesAreKept, Inside, Workspace
<1>12. CopyIsSaved'
  BY <1>1, <1>4 DEF ImportInv, CopyIsSaved, OutsideIsOutside, Inside, Workspace
<1>13. SyncIsUndone'
  BY <1>1, <1>4 DEF ImportInv, SyncIsUndone, EngineInOrder
<1> QED
  BY <1>4, <1>5, <1>6, <1>7, <1>8, <1>9, <1>10, <1>11, <1>12, <1>13 DEF ImportInv

\* The database is in: the stage returns, or cmd_import goes on.
LEMMA DatabaseRestored ==
  ASSUME ImportInv, RestoreDatabase
  PROVE  /\ phase = "execute" /\ data' = {Me} /\ step' = "start"
         /\ UNCHANGED <<args, ctx, runs, dir, meta, files, scratch, before>>
         /\ \/ /\ outer = "importing" /\ at = 6 /\ ~Workspace
               /\ E!Advance(FALSE) /\ outer' = outer
            \/ /\ outer = "restoring" /\ outer' = "restored"
               /\ UNCHANGED engineVars
<1>1. CASE InStage(6, "extracted") /\ args.source = "package"
  BY <1>1 DEF RestoreDatabase, EndRestore, InStage, Return, E!Executing, E!Advance,
     Workspace
<1>2. CASE outer = "restoring" /\ phase = "execute" /\ step = "extracted"
  BY <1>2 DEF RestoreDatabase, EndRestore
<1> QED
  BY <1>1, <1>2 DEF RestoreDatabase, AtRestore

\* What a stage restores is the import's.
LEMMA DatabaseStageKeeps ==
  ASSUME ImportInv, RestoreDatabase, outer = "importing"
  PROVE  ImportInv'
<1>1. /\ phase = "execute" /\ data' = {Me} /\ step' = "start"
      /\ UNCHANGED <<outer, args, ctx, runs, dir, meta, files, scratch, before>>
      /\ outer = "importing" /\ at = 6 /\ ~Workspace /\ E!Advance(FALSE)
  BY DatabaseRestored
<1>2. Refused' <=> Refused
  BY <1>1, RefusalStays
<1>3. at \in 1..(StageCount + 1) /\ EngineInOrder
  BY DEF ImportInv, ImportTypeOK
<1>4. /\ EngineInOrder' /\ phase = "execute" /\ phase' = "execute"
      /\ at' = at + 1 /\ errors = << >> /\ errors' = << >>
      /\ pending' = pending /\ botched' = botched
  BY <1>1, <1>3, Advances
<1>5. ImportTypeOK'
  <2>1. Me \in Origin
    BY MineIsAnOrigin DEF ImportInv, ImportTypeOK
  <2> QED
    BY <1>1, <1>4, <2>1 DEF ImportInv, ImportTypeOK, StageCount
<1>6. OutsideIsOutside'
  BY <1>1, <1>4 DEF ImportInv, OutsideIsOutside
<1>7. ExistingIsKept'
  BY <1>1, <1>4 DEF ImportInv, ExistingIsKept
<1>8. RefusedEarly'
  BY <1>1, <1>2, <1>4, WhatIsRefused DEF ImportInv, RefusedEarly
<1>9. Made'
  BY <1>1, <1>4 DEF ImportInv, Made, Inside, Workspace, Me
<1>10. CommitIsLast'
  BY <1>1, <1>4 DEF ImportInv, CommitIsLast, Workspace, Me
<1>11. FilesAreKept'
  BY <1>1, <1>4 DEF ImportInv, FilesAreKept, Inside, Workspace
<1>12. CopyIsSaved'
  BY <1>1, <1>4 DEF ImportInv, CopyIsSaved, Inside, Workspace
<1>13. SyncIsUndone'
  BY <1>1, <1>4 DEF ImportInv, SyncIsUndone
<1> QED
  BY <1>4, <1>5, <1>6, <1>7, <1>8, <1>9, <1>10, <1>11, <1>12, <1>13 DEF ImportInv

\* So is what a release brings.
LEMMA DatabaseOfReleaseKeeps ==
  ASSUME ImportInv, RestoreDatabase, outer # "importing"
  PROVE  ImportInv'
<1>1. /\ phase = "execute" /\ data' = {Me} /\ step' = "start"
      /\ UNCHANGED <<engineVars, args, ctx, runs, dir, meta, files, scratch, before>>
      /\ outer = "restoring" /\ outer' = "restored"
  BY DatabaseRestored
<1>2. Refused' <=> Refused
  BY <1>1, RefusalStays
<1>3. at \in 1..(StageCount + 1) /\ EngineInOrder
  BY DEF ImportInv, ImportTypeOK
<1>4. /\ EngineInOrder'
      /\ phase' = phase /\ at' = at /\ errors' = errors
      /\ pending' = pending /\ botched' = botched
  BY <1>1, <1>3, StandsStill
<1>5. ImportTypeOK'
  <2>1. Me \in Origin
    BY MineIsAnOrigin DEF ImportInv, ImportTypeOK
  <2> QED
    BY <1>1, <1>4, <2>1 DEF ImportInv, ImportTypeOK, StageCount
<1>6. OutsideIsOutside'
  BY <1>1, <1>4 DEF ImportInv, OutsideIsOutside
<1>7. ExistingIsKept'
  BY <1>1, <1>4 DEF ImportInv, ExistingIsKept, OutsideIsOutside
<1>8. RefusedEarly'
  BY <1>1, <1>2, <1>4, WhatIsRefused DEF ImportInv, RefusedEarly
<1>9. Made'
  BY <1>1, <1>4 DEF ImportInv, Made, Inside, Workspace, Me
<1>10. CommitIsLast'
  BY <1>1, <1>4 DEF ImportInv, CommitIsLast, OutsideIsOutside, Workspace, Me
<1>11. FilesAreKept'
  BY <1>1, <1>4 DEF ImportInv, FilesAreKept, Inside, Workspace
<1>12. CopyIsSaved'
  BY <1>1, <1>4 DEF ImportInv, CopyIsSaved, OutsideIsOutside, Inside, Workspace
<1>13. SyncIsUndone'
  BY <1>1, <1>4 DEF ImportInv, SyncIsUndone, EngineInOrder
<1> QED
  BY <1>4, <1>5, <1>6, <1>7, <1>8, <1>9, <1>10, <1>11, <1>12, <1>13 DEF ImportInv

\* VolumeSyncStage begins its copy in a scratch directory.
LEMMA BeginSnapshotKeeps ==
  ASSUME ImportInv, BeginSnapshot
  PROVE  ImportInv'
<1>1. /\ outer = "importing" /\ phase = "execute"
      /\ at = 7 /\ step = "start" /\ step' = "saving"
      /\ Workspace /\ ~ctx.isNew
      /\ UNCHANGED <<engineVars, outer, args, ctx, runs, dir, meta, files, data,
                     before>>
      /\ scratch' = scratch \cup {"volsync"}
  BY DEF BeginSnapshot, InStage, Continue, E!Executing, project, Workspace
<1>2. Refused' <=> Refused
  BY <1>1, RefusalStays
<1>3. at \in 1..(StageCount + 1) /\ EngineInOrder
  BY DEF ImportInv, ImportTypeOK
<1>4. /\ EngineInOrder'
      /\ phase' = phase /\ at' = at /\ errors' = errors
      /\ pending' = pending /\ botched' = botched
  BY <1>1, <1>3, StandsStill
<1>5. ImportTypeOK'
  BY <1>1, <1>4 DEF ImportInv, ImportTypeOK, StageCount, Scratch
<1>6. OutsideIsOutside'
  BY <1>1, <1>4 DEF ImportInv, OutsideIsOutside
<1>7. ExistingIsKept'
  BY <1>1, <1>4 DEF ImportInv, ExistingIsKept
<1>8. RefusedEarly'
  BY <1>1, <1>2, <1>4, WhatIsRefused DEF ImportInv, RefusedEarly
<1>9. Made'
  BY <1>1, <1>4 DEF ImportInv, Made, Inside, Workspace, Me
<1>10. CommitIsLast'
  BY <1>1, <1>4 DEF ImportInv, CommitIsLast, Workspace, Me
<1>11. FilesAreKept'
  BY <1>1, <1>4 DEF ImportInv, FilesAreKept, Inside, Workspace
<1>12. CopyIsSaved'
  BY <1>1, <1>4 DEF ImportInv, CopyIsSaved, Inside, Workspace
<1>13. SyncIsUndone'
  BY <1>1, <1>4 DEF ImportInv, SyncIsUndone
<1> QED
  BY <1>4, <1>5, <1>6, <1>7, <1>8, <1>9, <1>10, <1>11, <1>12, <1>13 DEF ImportInv

\* The copy is complete, and holds what the directories held.
LEMMA EndSnapshotKeeps ==
  ASSUME ImportInv, EndSnapshot
  PROVE  ImportInv'
<1>1. /\ outer = "importing" /\ phase = "execute"
      /\ at = 7 /\ step = "saving" /\ step' = "saved"
      /\ UNCHANGED <<engineVars, outer, args, runs, dir, meta, files, data, scratch,
                     before>>
      /\ ctx' \in Contexts /\ ctx'.hasSaved /\ ctx'.saved = files
      /\ ctx'.isNew = ctx.isNew /\ ctx'.answer = ctx.answer
      /\ ctx'.committed = ctx.committed
  <2>1. ctx \in Contexts /\ files \in Files
    BY ContextTyped DEF ImportInv, ImportTypeOK
  <2> QED
    BY <2>1, CopyNoted DEF EndSnapshot, InStage, Continue, E!Executing, world, project
<1>2. Refused' <=> Refused
  BY <1>1, RefusalStays
<1>3. at \in 1..(StageCount + 1) /\ EngineInOrder
  BY DEF ImportInv, ImportTypeOK
<1>4. /\ EngineInOrder'
      /\ phase' = phase /\ at' = at /\ errors' = errors
      /\ pending' = pending /\ botched' = botched
  BY <1>1, <1>3, StandsStill
<1>5. ImportTypeOK'
  BY <1>1, <1>4 DEF ImportInv, ImportTypeOK, StageCount, Contexts
<1>6. OutsideIsOutside'
  BY <1>1, <1>4 DEF ImportInv, OutsideIsOutside
<1>7. ExistingIsKept'
  BY <1>1, <1>4 DEF ImportInv, ExistingIsKept
<1>8. RefusedEarly'
  BY <1>1, <1>2, <1>4, WhatIsRefused DEF ImportInv, RefusedEarly
<1>9. Made'
  BY <1>1, <1>4 DEF ImportInv, Made, Inside, Workspace, Me
<1>10. CommitIsLast'
  BY <1>1, <1>4 DEF ImportInv, CommitIsLast, Workspace, Me
<1>11. FilesAreKept'
  BY <1>1, <1>4 DEF ImportInv, FilesAreKept, Inside, Workspace
<1>12. CopyIsSaved'
  BY <1>1, <1>4
     DEF ImportInv, CopyIsSaved, Made, ExistingIsKept, FilesAreKept, Inside, Workspace
<1>13. SyncIsUndone'
  BY <1>1, <1>4 DEF ImportInv, SyncIsUndone
<1> QED
  BY <1>4, <1>5, <1>6, <1>7, <1>8, <1>9, <1>10, <1>11, <1>12, <1>13 DEF ImportInv

\* VolumeSyncStage copies into the artifact directories.
LEMMA SyncKeeps ==
  ASSUME ImportInv, SyncSpared \/ SyncConfigs
  PROVE  ImportInv'
<1>1. /\ outer = "importing" /\ phase = "execute"
      /\ at = 7 /\ step' \in {"syncing", "configured"}
      /\ UNCHANGED <<engineVars, outer, args, ctx, runs, dir, meta, data, scratch,
                     before>>
      /\ files' \in Files
  <2>1. files \in Files /\ Me \in Origin
    BY MineIsAnOrigin DEF ImportInv, ImportTypeOK
  <2> QED
    BY <2>1 DEF SyncSpared, SyncConfigs, InStage, Continue, E!Executing, Copied, Files
<1>2. Refused' <=> Refused
  BY <1>1, RefusalStays
<1>3. at \in 1..(StageCount + 1) /\ EngineInOrder
  BY DEF ImportInv, ImportTypeOK
<1>4. /\ EngineInOrder'
      /\ phase' = phase /\ at' = at /\ errors' = errors
      /\ pending' = pending /\ botched' = botched
  BY <1>1, <1>3, StandsStill
<1>5. ImportTypeOK'
  BY <1>1, <1>4 DEF ImportInv, ImportTypeOK, Made, StageCount, Inside
<1>6. OutsideIsOutside'
  BY <1>1, <1>4 DEF ImportInv, OutsideIsOutside
<1>7. ExistingIsKept'
  BY <1>1, <1>4 DEF ImportInv, ExistingIsKept
<1>8. RefusedEarly'
  BY <1>1, <1>2, <1>4, WhatIsRefused DEF ImportInv, RefusedEarly
<1>9. Made'
  BY <1>1, <1>4 DEF ImportInv, Made, Inside, Workspace, Me
<1>10. CommitIsLast'
  BY <1>1, <1>4 DEF ImportInv, CommitIsLast, Workspace, Me
<1>11. FilesAreKept'
  BY <1>1, <1>4 DEF ImportInv, FilesAreKept, Inside, Workspace
<1>12. CopyIsSaved'
  BY <1>1, <1>4 DEF ImportInv, CopyIsSaved, Inside, Workspace
<1>13. SyncIsUndone'
  BY <1>1, <1>4 DEF ImportInv, SyncIsUndone
<1> QED
  BY <1>4, <1>5, <1>6, <1>7, <1>8, <1>9, <1>10, <1>11, <1>12, <1>13 DEF ImportInv

\* Its last copy, and it returns.
LEMMA SyncOverwrittenKeeps ==
  ASSUME ImportInv, SyncOverwritten
  PROVE  ImportInv'
<1>1. /\ outer = "importing" /\ phase = "execute"
      /\ at = 7 /\ step' = "start" /\ E!Advance(FALSE)
      /\ UNCHANGED <<outer, args, ctx, runs, dir, meta, data, scratch, before>>
      /\ files' \in Files
  <2>1. files \in Files /\ Me \in Origin
    BY MineIsAnOrigin DEF ImportInv, ImportTypeOK
  <2>2. files' \in Files
    <3>1. PICK c \in Copied(files["overwritten"], TRUE) :
            files' = [files EXCEPT !["overwritten"] = c]
      BY DEF SyncOverwritten
    <3>2. c \subseteq Origin
      BY <2>1, <3>1 DEF Copied, Files, Groups
    <3> QED
      BY <2>1, <3>1, <3>2 DEF Files
  <2> QED
    BY <2>2 DEF SyncOverwritten, InStage, Return, E!Executing, E!Advance
<1>2. Refused' <=> Refused
  BY <1>1, RefusalStays
<1>3. at \in 1..(StageCount + 1) /\ EngineInOrder
  BY DEF ImportInv, ImportTypeOK
<1>4. /\ EngineInOrder' /\ phase = "execute" /\ phase' = "execute"
      /\ at' = at + 1 /\ errors = << >> /\ errors' = << >>
      /\ pending' = pending /\ botched' = botched
  BY <1>1, <1>3, Advances
<1>5. ImportTypeOK'
  BY <1>1, <1>4 DEF ImportInv, ImportTypeOK, Made, StageCount, Inside
<1>6. OutsideIsOutside'
  BY <1>1, <1>4 DEF ImportInv, OutsideIsOutside
<1>7. ExistingIsKept'
  BY <1>1, <1>4 DEF ImportInv, ExistingIsKept
<1>8. RefusedEarly'
  BY <1>1, <1>2, <1>4, WhatIsRefused DEF ImportInv, RefusedEarly
<1>9. Made'
  BY <1>1, <1>4 DEF ImportInv, Made, Inside, Workspace, Me
<1>10. CommitIsLast'
  BY <1>1, <1>4 DEF ImportInv, CommitIsLast, Workspace, Me
<1>11. FilesAreKept'
  BY <1>1, <1>4 DEF ImportInv, FilesAreKept, Inside, Workspace
<1>12. CopyIsSaved'
  BY <1>1, <1>4 DEF ImportInv, CopyIsSaved, Inside, Workspace
<1>13. SyncIsUndone'
  BY <1>1, <1>4 DEF ImportInv, SyncIsUndone
<1> QED
  BY <1>4, <1>5, <1>6, <1>7, <1>8, <1>9, <1>10, <1>11, <1>12, <1>13 DEF ImportInv

\* FinalizationStage removes the scratch directories.
LEMMA DiscardScratchKeeps ==
  ASSUME ImportInv, DiscardScratch
  PROVE  ImportInv'
<1>1. /\ outer = "importing" /\ phase = "execute"
      /\ at = 9 /\ step' = "discarded" /\ scratch' \subseteq scratch
      /\ UNCHANGED <<engineVars, outer, args, ctx, runs, dir, meta, files, data,
                     before>>
  BY DEF DiscardScratch, InStage, Continue, E!Executing, project
<1>2. Refused' <=> Refused
  BY <1>1, RefusalStays
<1>3. at \in 1..(StageCount + 1) /\ EngineInOrder
  BY DEF ImportInv, ImportTypeOK
<1>4. /\ EngineInOrder'
      /\ phase' = phase /\ at' = at /\ errors' = errors
      /\ pending' = pending /\ botched' = botched
  BY <1>1, <1>3, StandsStill
<1>5. ImportTypeOK'
  BY <1>1, <1>4 DEF ImportInv, ImportTypeOK, StageCount
<1>6. OutsideIsOutside'
  BY <1>1, <1>4 DEF ImportInv, OutsideIsOutside
<1>7. ExistingIsKept'
  BY <1>1, <1>4 DEF ImportInv, ExistingIsKept
<1>8. RefusedEarly'
  BY <1>1, <1>2, <1>4, WhatIsRefused DEF ImportInv, RefusedEarly
<1>9. Made'
  BY <1>1, <1>4 DEF ImportInv, Made, Inside, Workspace, Me
<1>10. CommitIsLast'
  BY <1>1, <1>4 DEF ImportInv, CommitIsLast, Workspace, Me
<1>11. FilesAreKept'
  BY <1>1, <1>4 DEF ImportInv, FilesAreKept, Inside, Workspace
<1>12. CopyIsSaved'
  BY <1>1, <1>4 DEF ImportInv, CopyIsSaved, Inside, Workspace
<1>13. SyncIsUndone'
  BY <1>1, <1>4 DEF ImportInv, SyncIsUndone
<1> QED
  BY <1>4, <1>5, <1>6, <1>7, <1>8, <1>9, <1>10, <1>11, <1>12, <1>13 DEF ImportInv

\* From here on the import is there to stay: everything it makes is made.
LEMMA CommitKeeps ==
  ASSUME ImportInv, Commit
  PROVE  ImportInv'
<1>1. /\ outer = "importing" /\ phase = "execute" /\ at = 9 /\ step' = "committed"
      /\ UNCHANGED <<engineVars, outer, args, runs, dir, meta, files, data, scratch,
                     before>>
      /\ ctx' \in Contexts /\ ctx'.committed /\ ctx'.isNew = ctx.isNew
      /\ ctx'.answer = ctx.answer /\ ctx'.hasSaved = ctx.hasSaved /\ ctx'.saved = ctx.saved
  <2>1. ctx \in Contexts
    BY ContextTyped
  <2> QED
    BY <2>1, Commits DEF Commit, InStage, Continue, E!Executing, world, project
<1>2. Refused' <=> Refused
  BY <1>1, RefusalStays
<1>3. at \in 1..(StageCount + 1) /\ EngineInOrder
  BY DEF ImportInv, ImportTypeOK
<1>4. /\ EngineInOrder'
      /\ phase' = phase /\ at' = at /\ errors' = errors
      /\ pending' = pending /\ botched' = botched
  BY <1>1, <1>3, StandsStill
<1>5. ImportTypeOK'
  BY <1>1, <1>4 DEF ImportInv, ImportTypeOK, StageCount, Contexts
<1>6. OutsideIsOutside'
  BY <1>1, <1>4 DEF ImportInv, OutsideIsOutside
<1>7. ExistingIsKept'
  BY <1>1, <1>4 DEF ImportInv, ExistingIsKept
<1>8. RefusedEarly'
  BY <1>1, <1>2, <1>4, WhatIsRefused DEF ImportInv, RefusedEarly
<1>9. Made'
  BY <1>1, <1>4 DEF ImportInv, Made, Inside, Workspace, Me
<1>10. CommitIsLast'
  BY <1>1, <1>4 DEF ImportInv, CommitIsLast, Made, Workspace, Me, Inside
<1>11. FilesAreKept'
  BY <1>1, <1>4 DEF ImportInv, FilesAreKept, Inside, Workspace
<1>12. CopyIsSaved'
  BY <1>1, <1>4 DEF ImportInv, CopyIsSaved, Inside, Workspace
<1>13. SyncIsUndone'
  BY <1>1, <1>4 DEF ImportInv, SyncIsUndone
<1> QED
  BY <1>4, <1>5, <1>6, <1>7, <1>8, <1>9, <1>10, <1>11, <1>12, <1>13 DEF ImportInv

-----------------------------------------------------------------------------
(* Failures and rollbacks                                                  *)

\* The removal of a directory stops half-way.
LEMMA CleanPartlyKeeps ==
  ASSUME ImportInv, CleanPartly
  PROVE  ImportInv'
<1>1. /\ outer = "importing" /\ at = 5 /\ E!Fail(E!Error)
      /\ UNCHANGED <<outer, step, args, runs, dir, data, scratch, before>>
      /\ dir /\ meta' \in {0, meta} /\ files' \in {NoFiles, files}
      /\ ctx' \in Contexts /\ ctx'.answer = "C" /\ ctx'.hasSaved = ctx.hasSaved
      /\ ctx'.committed = ctx.committed
  <2>1. ctx \in Contexts
    BY ContextTyped
  <2> QED
    BY <2>1, Answered DEF CleanPartly, InStage, E!Fail
<1>2. Refused' <=> Refused
  BY <1>1, RefusalStays
<1>3. at \in 1..(StageCount + 1) /\ EngineInOrder
  BY DEF ImportInv, ImportTypeOK
<1>4. /\ EngineInOrder' /\ phase = "execute" /\ phase' = "rollback"
      /\ Len(pending') = at - 1 /\ at' = at /\ botched' = botched
  BY <1>1, <1>3, Fails
<1>5. ImportTypeOK'
  BY <1>1, <1>4, NoFilesAreFiles DEF ImportInv, ImportTypeOK, StageCount, Contexts
<1>6. OutsideIsOutside'
  BY <1>1, <1>4 DEF ImportInv, OutsideIsOutside
<1>7. ExistingIsKept'
  BY <1>1, <1>4 DEF ImportInv, ExistingIsKept
<1>8. RefusedEarly'
  BY <1>1, <1>2, <1>4, WhatIsRefused DEF ImportInv, RefusedEarly
<1>9. Made'
  BY <1>1, <1>4 DEF ImportInv, Made, Inside, Workspace, Me
<1>10. CommitIsLast'
  BY <1>1, <1>4 DEF ImportInv, CommitIsLast, Workspace, Me
<1>11. FilesAreKept'
  BY <1>1, <1>4 DEF ImportInv, FilesAreKept, Inside, Workspace
<1>12. CopyIsSaved'
  BY <1>1, <1>4 DEF ImportInv, CopyIsSaved, Inside, Workspace
<1>13. SyncIsUndone'
  BY <1>1, <1>4 DEF ImportInv, SyncIsUndone
<1> QED
  BY <1>4, <1>5, <1>6, <1>7, <1>8, <1>9, <1>10, <1>11, <1>12, <1>13 DEF ImportInv

\* A stage fails with some exception.
LEMMA SomeFailure ==
  ASSUME FailStage, at \in 1..(StageCount + 1), EngineInOrder
  PROVE  /\ EngineInOrder' /\ phase = "execute" /\ phase' = "rollback"
         /\ Len(pending') = at - 1 /\ at' = at /\ botched' = botched
         /\ at <= StageCount
<1>1. PICK e \in {E!Error, E!KeyboardInterrupt, Refusal} : E!Fail(e)
  BY DEF FailStage
<1> QED
  BY <1>1, Fails DEF E!Fail, E!Executing

\* A stage is refused, raises or is interrupted.
LEMMA FailStageKeeps ==
  ASSUME ImportInv, FailStage
  PROVE  ImportInv'
<1>1. /\ outer = "importing"
      /\ UNCHANGED <<outer, step, args, ctx, runs, dir, meta, files, data, scratch,
                     before>>
  BY DEF FailStage, world, project
<1>2. Refused' <=> Refused
  BY <1>1, RefusalStays
<1>3. at \in 1..(StageCount + 1) /\ EngineInOrder
  BY DEF ImportInv, ImportTypeOK
<1>4. /\ EngineInOrder' /\ phase = "execute" /\ phase' = "rollback"
      /\ Len(pending') = at - 1 /\ at' = at /\ botched' = botched
  BY <1>1, <1>3, SomeFailure
<1>5. ImportTypeOK'
  BY <1>1, <1>4 DEF ImportInv, ImportTypeOK, StageCount
<1>6. OutsideIsOutside'
  BY <1>1, <1>4 DEF ImportInv, OutsideIsOutside
<1>7. ExistingIsKept'
  BY <1>1, <1>4 DEF ImportInv, ExistingIsKept
<1>8. RefusedEarly'
  BY <1>1, <1>2, <1>4, WhatIsRefused DEF ImportInv, RefusedEarly
<1>9. Made'
  BY <1>1, <1>4 DEF ImportInv, Made, Inside, Workspace, Me
<1>10. CommitIsLast'
  BY <1>1, <1>4 DEF ImportInv, CommitIsLast, Workspace, Me
<1>11. FilesAreKept'
  BY <1>1, <1>4 DEF ImportInv, FilesAreKept, Inside, Workspace
<1>12. CopyIsSaved'
  BY <1>1, <1>4 DEF ImportInv, CopyIsSaved, Inside, Workspace
<1>13. SyncIsUndone'
  BY <1>1, <1>4, <1>3 DEF ImportInv, SyncIsUndone, StageCount
<1> QED
  BY <1>4, <1>5, <1>6, <1>7, <1>8, <1>9, <1>10, <1>11, <1>12, <1>13 DEF ImportInv

\* VolumeSyncStage puts back what its copy holds.
LEMMA RestoreFilesKeeps ==
  ASSUME ImportInv, RestoreFiles
  PROVE  ImportInv'
<1>1. /\ RollingBack(7) /\ E!UndoStage
      /\ files' = IF ~ctx.committed /\ ctx.hasSaved THEN Restored ELSE files
      /\ UNCHANGED <<outer, step, args, ctx, runs, dir, meta, data, scratch, before>>
  BY DEF RestoreFiles
<1>2. Refused' <=> Refused
  BY <1>1, RefusalStays
<1>3. at \in 1..(StageCount + 1) /\ EngineInOrder
  BY DEF ImportInv, ImportTypeOK
<1>4. /\ EngineInOrder' /\ phase = "rollback" /\ phase' = "rollback"
      /\ Len(pending) = 7 /\ Len(pending') = 7 - 1
      /\ at' = at /\ errors' = errors /\ botched' = botched
  BY <1>1, <1>3, RollsBack
<1>5. ImportTypeOK'
  <2>1. Restored \in Files /\ files \in Files
    <3>1. ctx.saved \in Files
      BY ContextTyped DEF Contexts
    <3> QED
      BY <3>1, NoFilesAreFiles DEF Restored, ImportInv, ImportTypeOK
  <2>2. files' \in Files /\ (~dir => files' = NoFiles)
    BY <1>1, <2>1 DEF ImportInv, ImportTypeOK, CopyIsSaved
  <2> QED
    BY <1>1, <1>4, <2>2 DEF ImportInv, ImportTypeOK, StageCount
<1>6. OutsideIsOutside'
  BY <1>1, <1>4, <1>3 DEF ImportInv, OutsideIsOutside, EngineInOrder, StageCount
<1>7. ExistingIsKept'
  BY <1>1, <1>4 DEF ImportInv, ExistingIsKept
<1>8. RefusedEarly'
  BY <1>1, <1>2, <1>4, WhatIsRefused, <1>3
     DEF ImportInv, RefusedEarly, EngineInOrder, StageCount
<1>9. Made'
  BY <1>1, <1>4 DEF ImportInv, Made, Inside, Workspace, Me
<1>10. CommitIsLast'
  BY <1>1, <1>4 DEF ImportInv, CommitIsLast, Workspace, Me
<1>11. FilesAreKept'
  BY <1>1, <1>4 DEF ImportInv, FilesAreKept, Inside, Workspace
<1>12. CopyIsSaved'
  BY <1>1, <1>4 DEF ImportInv, CopyIsSaved, Inside, Workspace
<1>13. SyncIsUndone'
  <2>1. ASSUME ctx.hasSaved, ~ctx.committed, at > 7, step # "discarded"
        PROVE  "volsync" \in scratch /\ ctx.saved = before.files
    <3>1. at \in 8..9
      BY <1>3, <1>4, <2>1 DEF EngineInOrder, StageCount
    <3>2. at = 9 => step = "start"
      BY <2>1 DEF ImportInv, CommitIsLast
    <3> QED
      BY <1>4, <2>1, <3>1, <3>2 DEF ImportInv, CopyIsSaved
  <2> QED
    BY <1>1, <1>4, <2>1 DEF SyncIsUndone, Restored
<1> QED
  BY <1>4, <1>5, <1>6, <1>7, <1>8, <1>9, <1>10, <1>11, <1>12, <1>13 DEF ImportInv

\* ProjectSetupStage removes a directory that was not there.
LEMMA RemoveProjectKeeps ==
  ASSUME ImportInv, RemoveProject
  PROVE  ImportInv'
<1>1. /\ RollingBack(5) /\ E!UndoStage
      /\ \/ /\ ~ctx.committed /\ ctx.isNew
            /\ dir' = FALSE /\ meta' = 0 /\ files' = NoFiles
         \/ UNCHANGED <<dir, meta, files>>
      /\ UNCHANGED <<outer, step, args, ctx, runs, data, scratch, before>>
  BY DEF RemoveProject, Removable
<1>2. Refused' <=> Refused
  BY <1>1, RefusalStays
<1>3. at \in 1..(StageCount + 1) /\ EngineInOrder
  BY DEF ImportInv, ImportTypeOK
<1>4. /\ EngineInOrder' /\ phase = "rollback" /\ phase' = "rollback"
      /\ Len(pending) = 5 /\ Len(pending') = 5 - 1
      /\ at' = at /\ errors' = errors /\ botched' = botched
  BY <1>1, <1>3, RollsBack
<1>5. ImportTypeOK'
  <2>1. /\ dir' \in BOOLEAN /\ meta' \in Origin \cup {0} /\ files' \in Files
        /\ ~dir' => meta' = 0 /\ files' = NoFiles
    <3>1. CASE UNCHANGED <<dir, meta, files>>
      BY <3>1 DEF ImportInv, ImportTypeOK
    <3>2. CASE dir' = FALSE /\ meta' = 0 /\ files' = NoFiles
      BY <3>2, NoFilesAreFiles
    <3> QED
      BY <1>1, <3>1, <3>2
  <2> QED
    BY <1>1, <1>4, <2>1 DEF ImportInv, ImportTypeOK, StageCount
<1>6. OutsideIsOutside'
  BY <1>1, <1>4, <1>3 DEF ImportInv, OutsideIsOutside, EngineInOrder, StageCount
<1>7. ExistingIsKept'
  BY <1>1, <1>4 DEF ImportInv, ExistingIsKept
<1>8. RefusedEarly'
  BY <1>1, <1>2, <1>4, WhatIsRefused, <1>3
     DEF ImportInv, RefusedEarly, EngineInOrder, StageCount
<1>9. Made'
  BY <1>1, <1>4 DEF ImportInv, Made, Inside, Workspace, Me
<1>10. CommitIsLast'
  BY <1>1, <1>4 DEF ImportInv, CommitIsLast, Workspace, Me
<1>11. FilesAreKept'
  BY <1>1, <1>4 DEF ImportInv, FilesAreKept, Inside, Workspace
<1>12. CopyIsSaved'
  BY <1>1, <1>4 DEF ImportInv, CopyIsSaved, Inside, Workspace
<1>13. SyncIsUndone'
  <2>1. ctx.hasSaved => files' = files
    BY <1>1 DEF ImportInv, CopyIsSaved
  <2>2. Len(pending) < 7
    BY <1>4
  <2> QED
    BY <1>1, <1>4, <2>1, <2>2 DEF ImportInv, SyncIsUndone
<1> QED
  BY <1>4, <1>5, <1>6, <1>7, <1>8, <1>9, <1>10, <1>11, <1>12, <1>13 DEF ImportInv

\* ExtractionStage removes the scratch directories.
LEMMA RemoveScratchKeeps ==
  ASSUME ImportInv, RemoveScratch
  PROVE  ImportInv'
<1>1. /\ RollingBack(3) /\ E!UndoStage
      /\ scratch' \subseteq scratch
      /\ UNCHANGED <<outer, step, args, ctx, runs, dir, meta, files, data, before>>
  BY DEF RemoveScratch, project
<1>2. Refused' <=> Refused
  BY <1>1, RefusalStays
<1>3. at \in 1..(StageCount + 1) /\ EngineInOrder
  BY DEF ImportInv, ImportTypeOK
<1>4. /\ EngineInOrder' /\ phase = "rollback" /\ phase' = "rollback"
      /\ Len(pending) = 3 /\ Len(pending') = 3 - 1
      /\ at' = at /\ errors' = errors /\ botched' = botched
  BY <1>1, <1>3, RollsBack
<1>5. ImportTypeOK'
  BY <1>1, <1>4 DEF ImportInv, ImportTypeOK, StageCount
<1>6. OutsideIsOutside'
  BY <1>1, <1>4 DEF ImportInv, OutsideIsOutside
<1>7. ExistingIsKept'
  BY <1>1, <1>4 DEF ImportInv, ExistingIsKept
<1>8. RefusedEarly'
  BY <1>1, <1>2, <1>4, WhatIsRefused DEF ImportInv, RefusedEarly
<1>9. Made'
  BY <1>1, <1>4 DEF ImportInv, Made, Inside, Workspace, Me
<1>10. CommitIsLast'
  BY <1>1, <1>4 DEF ImportInv, CommitIsLast, Workspace, Me
<1>11. FilesAreKept'
  BY <1>1, <1>4 DEF ImportInv, FilesAreKept, Inside, Workspace
<1>12. CopyIsSaved'
  BY <1>1, <1>4 DEF ImportInv, CopyIsSaved, Inside, Workspace
<1>13. SyncIsUndone'
  BY <1>1, <1>4 DEF ImportInv, SyncIsUndone
<1> QED
  BY <1>4, <1>5, <1>6, <1>7, <1>8, <1>9, <1>10, <1>11, <1>12, <1>13 DEF ImportInv

\* The other stages have nothing to roll back.
LEMMA RollBackNothingKeeps ==
  ASSUME ImportInv, RollBackNothing
  PROVE  ImportInv'
<1>1. /\ \E s \in {1, 2, 4, 6, 8} : RollingBack(s)
      /\ E!UndoStage
      /\ UNCHANGED <<outer, step, args, ctx, runs, dir, meta, files, data, scratch,
                     before>>
  BY DEF RollBackNothing, project, world
<1>2. Refused' <=> Refused
  BY <1>1, RefusalStays
<1>3. at \in 1..(StageCount + 1) /\ EngineInOrder
  BY DEF ImportInv, ImportTypeOK
<1>4. /\ EngineInOrder' /\ phase = "rollback" /\ phase' = "rollback"
      /\ Len(pending) \in 1..9 /\ Len(pending) # 7 /\ Len(pending') = Len(pending) - 1
      /\ at' = at /\ errors' = errors /\ botched' = botched
  <2>1. PICK s \in {1, 2, 4, 6, 8} : RollingBack(s)
    BY <1>1
  <2>2. /\ EngineInOrder' /\ phase = "rollback" /\ phase' = phase
        /\ Len(pending) = s /\ Len(pending') = s - 1
        /\ at' = at /\ errors' = errors /\ botched' = botched
    BY <1>1, <1>3, <2>1, RollsBack
  <2>3. s \in 1..9 /\ s # 7
    OBVIOUS
  <2> QED
    BY <2>2, <2>3
<1>5. ImportTypeOK'
  BY <1>1, <1>4 DEF ImportInv, ImportTypeOK, StageCount
<1>6. OutsideIsOutside'
  BY <1>1, <1>4 DEF ImportInv, OutsideIsOutside
<1>7. ExistingIsKept'
  BY <1>1, <1>4 DEF ImportInv, ExistingIsKept
<1>8. RefusedEarly'
  BY <1>1, <1>2, <1>4, WhatIsRefused DEF ImportInv, RefusedEarly
<1>9. Made'
  BY <1>1, <1>4 DEF ImportInv, Made, Inside, Workspace, Me
<1>10. CommitIsLast'
  BY <1>1, <1>4 DEF ImportInv, CommitIsLast, Workspace, Me
<1>11. FilesAreKept'
  BY <1>1, <1>4 DEF ImportInv, FilesAreKept, Inside, Workspace
<1>12. CopyIsSaved'
  BY <1>1, <1>4 DEF ImportInv, CopyIsSaved, Inside, Workspace
<1>13. SyncIsUndone'
  BY <1>1, <1>4 DEF ImportInv, SyncIsUndone
<1> QED
  BY <1>4, <1>5, <1>6, <1>7, <1>8, <1>9, <1>10, <1>11, <1>12, <1>13 DEF ImportInv

\* The walk goes on past a rollback that raised, or is interrupted in it.
LEMMA Botches ==
  ASSUME at \in 1..(StageCount + 1), EngineInOrder, NEW s, RollingBack(s),
         E!BotchUndo \/ E!AbandonRollback
  PROVE  /\ EngineInOrder' /\ phase = "rollback" /\ phase' \in {"rollback", "returned"}
         /\ Len(pending) = s /\ s < at /\ s \in 1..StageCount
         /\ at' = at /\ errors' = errors
         /\ \/ botched' # {} /\ Len(pending') = s - 1
            \/ phase' = "returned" /\ pending' = pending /\ botched' = botched
<1>1. Len(pending) = s /\ s < at /\ s \in 1..StageCount
  BY Shortened DEF RollingBack, EngineInOrder
<1>2. CASE E!BotchUndo
  BY <1>1, <1>2, RollsBack
<1>3. CASE E!AbandonRollback
  BY <1>1, <1>3, Abandons
<1> QED
  BY <1>2, <1>3

\* The restore of the copy goes wrong half-way.
LEMMA BotchedRestoreKeeps ==
  ASSUME ImportInv, BotchRollback, RollingBack(7)
  PROVE  ImportInv'
<1>1. /\ RollingBack(7) /\ (E!BotchUndo \/ E!AbandonRollback)
      /\ ~ctx.committed /\ ctx.hasSaved /\ files' \in {files, NoFiles, Restored}
      /\ UNCHANGED <<outer, step, args, ctx, runs, dir, meta, data, scratch, before>>
  BY DEF BotchRollback, RollingBack
<1>2. Refused' <=> Refused
  BY <1>1, RefusalStays
<1>3. at \in 1..(StageCount + 1) /\ EngineInOrder
  BY DEF ImportInv, ImportTypeOK
<1>4. /\ EngineInOrder' /\ phase = "rollback" /\ phase' \in {"rollback", "returned"}
      /\ Len(pending) = 7 /\ 7 < at /\ at' = at /\ errors' = errors
      /\ \/ botched' # {} /\ Len(pending') = 7 - 1
         \/ phase' = "returned" /\ pending' = pending /\ botched' = botched
  BY <1>1, <1>3, Botches
<1>5. ImportTypeOK'
  <2>1. files' \in Files
    <3>1. ctx.saved \in Files
      BY ContextTyped DEF Contexts
    <3> QED
      BY <1>1, <3>1, NoFilesAreFiles DEF Restored, ImportInv, ImportTypeOK
  <2>2. dir
    BY <1>1 DEF ImportInv, CopyIsSaved
  <2> QED
    BY <1>1, <1>4, <2>1, <2>2 DEF ImportInv, ImportTypeOK, StageCount
<1>6. OutsideIsOutside'
  BY <1>1, <1>4, <1>3 DEF ImportInv, OutsideIsOutside, StageCount
<1>7. ExistingIsKept'
  BY <1>1, <1>4 DEF ImportInv, ExistingIsKept
<1>8. RefusedEarly'
  BY <1>1, <1>2, <1>4, WhatIsRefused, <1>3 DEF ImportInv, RefusedEarly, CopyIsSaved
<1>9. Made'
  BY <1>1, <1>4 DEF ImportInv, Made, Inside, Workspace, Me
<1>10. CommitIsLast'
  BY <1>1, <1>4 DEF ImportInv, CommitIsLast, Workspace, Me
<1>11. FilesAreKept'
  BY <1>1, <1>4 DEF ImportInv, FilesAreKept, Inside, Workspace
<1>12. CopyIsSaved'
  BY <1>1, <1>4 DEF ImportInv, CopyIsSaved, Inside, Workspace
<1>13. SyncIsUndone'
  BY <1>1, <1>4 DEF ImportInv, SyncIsUndone
<1> QED
  BY <1>4, <1>5, <1>6, <1>7, <1>8, <1>9, <1>10, <1>11, <1>12, <1>13 DEF ImportInv

\* The removal of a new directory goes wrong half-way.
LEMMA BotchedRemovalKeeps ==
  ASSUME ImportInv, BotchRollback, ~RollingBack(7)
  PROVE  ImportInv'
<1>1. /\ RollingBack(5) /\ (E!BotchUndo \/ E!AbandonRollback)
      /\ ~ctx.committed /\ ctx.isNew /\ dir
      /\ meta' \in {0, meta} /\ files' \in {NoFiles, files}
      /\ UNCHANGED <<outer, step, args, ctx, runs, dir, data, scratch, before>>
  BY DEF BotchRollback, Removable
<1>2. Refused' <=> Refused
  BY <1>1, RefusalStays
<1>3. at \in 1..(StageCount + 1) /\ EngineInOrder
  BY DEF ImportInv, ImportTypeOK
<1>4. /\ EngineInOrder' /\ phase = "rollback" /\ phase' \in {"rollback", "returned"}
      /\ Len(pending) = 5 /\ 5 < at /\ at' = at /\ errors' = errors
      /\ \/ botched' # {} /\ Len(pending') = 5 - 1
         \/ phase' = "returned" /\ pending' = pending /\ botched' = botched
  BY <1>1, <1>3, Botches
<1>5. ImportTypeOK'
  BY <1>1, <1>4, NoFilesAreFiles DEF ImportInv, ImportTypeOK, StageCount
<1>6. OutsideIsOutside'
  BY <1>1, <1>4, <1>3 DEF ImportInv, OutsideIsOutside, StageCount
<1>7. ExistingIsKept'
  BY <1>1, <1>4 DEF ImportInv, ExistingIsKept
<1>8. RefusedEarly'
  BY <1>1, <1>2, <1>4, WhatIsRefused, <1>3 DEF ImportInv, RefusedEarly
<1>9. Made'
  BY <1>1, <1>4 DEF ImportInv, Made, Inside, Workspace, Me
<1>10. CommitIsLast'
  BY <1>1, <1>4 DEF ImportInv, CommitIsLast, Workspace, Me
<1>11. FilesAreKept'
  BY <1>1, <1>4 DEF ImportInv, FilesAreKept, Inside, Workspace
<1>12. CopyIsSaved'
  BY <1>1, <1>4 DEF ImportInv, CopyIsSaved, Inside, Workspace
<1>13. SyncIsUndone'
  BY <1>1, <1>4 DEF ImportInv, SyncIsUndone, CopyIsSaved
<1> QED
  BY <1>4, <1>5, <1>6, <1>7, <1>8, <1>9, <1>10, <1>11, <1>12, <1>13 DEF ImportInv

-----------------------------------------------------------------------------
(* The ends, the next command, and the theorems                            *)

\* run() returns or re-raises.
LEMMA HandOverKeeps ==
  ASSUME ImportInv, HandOver
  PROVE  ImportInv'
<1>1. /\ outer = "importing" /\ phase \in {"execute", "rollback"} /\ phase' = "returned"
      /\ UNCHANGED <<at, executed, errors, pending, botched>>
      /\ UNCHANGED <<outer, step, args, ctx, runs, dir, meta, files, data, scratch,
                     before>>
  BY DEF HandOver, E!Complete, E!FinishRollback, E!AbandonRollback, project, world
<1>2. Refused' <=> Refused
  BY <1>1, RefusalStays
<1>3. at \in 1..(StageCount + 1) /\ EngineInOrder
  BY DEF ImportInv, ImportTypeOK
<1>4. EngineInOrder'
  BY <1>1, <1>3 DEF EngineInOrder
<1>5. ImportTypeOK'
  BY <1>1, <1>4 DEF ImportInv, ImportTypeOK, StageCount
<1>6. OutsideIsOutside'
  BY <1>1, <1>4 DEF ImportInv, OutsideIsOutside
<1>7. ExistingIsKept'
  BY <1>1, <1>4 DEF ImportInv, ExistingIsKept
<1>8. RefusedEarly'
  BY <1>1, <1>2, <1>4, WhatIsRefused DEF ImportInv, RefusedEarly
<1>9. Made'
  BY <1>1, <1>4 DEF ImportInv, Made, Inside, Workspace, Me
<1>10. CommitIsLast'
  BY <1>1, <1>4 DEF ImportInv, CommitIsLast, Workspace, Me
<1>11. FilesAreKept'
  BY <1>1, <1>4 DEF ImportInv, FilesAreKept, Inside, Workspace
<1>12. CopyIsSaved'
  BY <1>1, <1>4 DEF ImportInv, CopyIsSaved, Inside, Workspace
<1>13. SyncIsUndone'
  BY <1>1, <1>4 DEF ImportInv, SyncIsUndone
<1> QED
  BY <1>4, <1>5, <1>6, <1>7, <1>8, <1>9, <1>10, <1>11, <1>12, <1>13 DEF ImportInv

\* The process exits, or is killed at any point.
LEMMA EndsKeep ==
  ASSUME ImportInv, Leave \/ KillImport
  PROVE  ImportInv'
<1>1. /\ phase' = "exited" /\ outer' = "over" /\ scratch' \subseteq scratch
      /\ UNCHANGED <<at, executed, errors, pending, botched>>
      /\ UNCHANGED <<step, args, ctx, runs, dir, meta, files, data, before>>
  BY DEF Leave, KillImport, E!ExitProcess, project, world
<1>2. Refused' <=> Refused
  BY <1>1, RefusalStays
<1>3. at \in 1..(StageCount + 1) /\ EngineInOrder
  BY DEF ImportInv, ImportTypeOK
<1>4. EngineInOrder'
  BY <1>1, <1>3 DEF EngineInOrder
<1>5. ImportTypeOK'
  BY <1>1, <1>4 DEF ImportInv, ImportTypeOK, StageCount
<1>6. OutsideIsOutside'
  BY <1>1, <1>4 DEF ImportInv, OutsideIsOutside
<1>7. ExistingIsKept'
  BY <1>1, <1>4 DEF ImportInv, ExistingIsKept
<1>8. RefusedEarly'
  BY <1>1, <1>2, <1>4, WhatIsRefused DEF ImportInv, RefusedEarly
<1>9. Made'
  BY <1>1, <1>4 DEF ImportInv, Made, Inside, Workspace, Me
<1>10. CommitIsLast'
  BY <1>1, <1>4 DEF ImportInv, CommitIsLast, Workspace, Me
<1>11. FilesAreKept'
  BY <1>1, <1>4 DEF ImportInv, FilesAreKept, Inside, Workspace
<1>12. CopyIsSaved'
  BY <1>1, <1>4 DEF ImportInv, CopyIsSaved, Inside, Workspace
<1>13. SyncIsUndone'
  BY <1>1, <1>4 DEF ImportInv, SyncIsUndone
<1> QED
  BY <1>4, <1>5, <1>6, <1>7, <1>8, <1>9, <1>10, <1>11, <1>12, <1>13 DEF ImportInv

\* Nothing is executed at first.
LEMMA NothingInOrder == InOrder(<< >>) /\ Len(<< >>) = 0
BY DEF InOrder

\* A command that begins in what is there knows of nothing else.
LEMMA BeginsKeeping ==
  ASSUME phase = "execute", at = 1, executed = << >>, errors = << >>, pending = << >>,
         outer = "start", step = "start", args \in Args, ctx = NewContext,
         runs \in 1..MaxRuns, dir \in BOOLEAN, meta \in Origin \cup {0},
         files \in Files,
         ~dir => meta = 0 /\ files = NoFiles, data \in SUBSET Origin, scratch = {},
         before = [dir |-> dir, meta |-> meta, files |-> files, data |-> data]
  PROVE  ImportInv
<1>1. EngineInOrder
  BY NothingInOrder DEF EngineInOrder
<1>2. ImportTypeOK
  BY Blank DEF ImportTypeOK, Contexts, StageCount
<1>3. OutsideIsOutside /\ RefusedEarly
  BY DEF OutsideIsOutside, RefusedEarly
<1>4. ExistingIsKept
  BY Blank DEF ExistingIsKept
<1>5. Made /\ CommitIsLast /\ FilesAreKept /\ CopyIsSaved /\ SyncIsUndone
  BY Blank DEF Made, CommitIsLast, FilesAreKept, CopyIsSaved, SyncIsUndone, Inside
<1> QED
  BY <1>1, <1>2, <1>3, <1>4, <1>5 DEF ImportInv

\* So does the first,
LEMMA InitImportInv == ImportInit => ImportInv
<1> SUFFICES ASSUME ImportInit PROVE ImportInv
  OBVIOUS
<1>1. 1 \in 1..MaxRuns /\ 1 \in Origin
  BY MaxRunsAssumption DEF MaxRunsAssumption, Origin
<1>2. [g \in Groups |-> {1}] \in Files /\ NoFiles \in Files
  BY <1>1, NoFilesAreFiles DEF Files
<1>3. /\ dir \in BOOLEAN /\ meta \in Origin \cup {0}
      /\ files \in Files /\ data \in SUBSET Origin
  BY <1>1, <1>2 DEF ImportInit
<1>4. ~dir => meta = 0 /\ files = NoFiles
  BY DEF ImportInit
<1> QED
  BY <1>1, <1>3, <1>4, BeginsKeeping DEF ImportInit

\* and the next.
LEMMA NextCommandKeeps == ASSUME ImportInv, NextCommand PROVE ImportInv'
<1>1. runs' \in 1..MaxRuns
  BY MaxRunsAssumption DEF MaxRunsAssumption, NextCommand, ImportInv, ImportTypeOK
<1>2. /\ dir \in BOOLEAN /\ meta \in Origin \cup {0} /\ files \in Files
      /\ data \in SUBSET Origin /\ (~dir => meta = 0 /\ files = NoFiles)
  BY DEF ImportInv, ImportTypeOK
<1>3. /\ phase' = "execute" /\ at' = 1 /\ executed' = << >> /\ errors' = << >>
      /\ pending' = << >> /\ outer' = "start" /\ step' = "start" /\ args' \in Args
      /\ ctx' = NewContext /\ scratch' = {}
      /\ dir' = dir /\ meta' = meta /\ files' = files /\ data' = data
      /\ before' = [dir |-> dir, meta |-> meta, files |-> files, data |-> data]
  BY DEF NextCommand, project
<1>4. EngineInOrder'
  BY <1>3, NothingInOrder DEF EngineInOrder
<1>5. ImportTypeOK'
  BY <1>1, <1>2, <1>3, Blank DEF ImportTypeOK, Contexts, StageCount
<1>6. OutsideIsOutside' /\ RefusedEarly'
  BY <1>3 DEF OutsideIsOutside, RefusedEarly
<1>7. ExistingIsKept'
  BY <1>2, <1>3, Blank DEF ExistingIsKept
<1>8. Made' /\ CommitIsLast' /\ FilesAreKept' /\ CopyIsSaved' /\ SyncIsUndone'
  BY <1>3, Blank
     DEF Made, CommitIsLast, FilesAreKept, CopyIsSaved, SyncIsUndone, Inside
<1> QED
  BY <1>4, <1>5, <1>6, <1>7, <1>8 DEF ImportInv

\* Every step of an import keeps the invariant.
LEMMA StepImportInv == ImportInv /\ [ImportNext]_importVars => ImportInv'
<1> SUFFICES ASSUME ImportInv, [ImportNext]_importVars PROVE ImportInv'
  OBVIOUS
<1>1. CASE Fetch \/ Package \/ FailOutside
  BY <1>1, OutsideKeeps DEF Package
<1>2. CASE Check \/ Extract
  BY <1>2, QuietReturnsKeep, CreateScratchKeeps DEF Extract
<1>3. CASE SetUp
  BY <1>3, DirectoriesKeep, ChooseKeeps, CleanPartlyKeeps, QuietContinuesKeep,
     WriteMetaKeeps DEF SetUp
<1>4. CASE Restore
  BY <1>4, QuietReturnsKeep, RestoreKeeps, DatabaseStageKeeps, DatabaseOfReleaseKeeps
     DEF Restore
<1>5. CASE Sync
  BY <1>5, QuietReturnsKeep, QuietContinuesKeep, BeginSnapshotKeeps, EndSnapshotKeeps,
     SyncKeeps, SyncOverwrittenKeeps DEF Sync
<1>6. CASE Finalize
  BY <1>6, DiscardScratchKeeps, CommitKeeps, QuietReturnsKeep DEF Finalize
<1>7. CASE FailStage \/ RestoreFiles \/ RemoveProject \/ RemoveScratch \/ RollBackNothing
  BY <1>7, FailStageKeeps, RestoreFilesKeeps, RemoveProjectKeeps, RemoveScratchKeeps,
     RollBackNothingKeeps
<1>8. CASE BotchRollback
  BY <1>8, BotchedRestoreKeeps, BotchedRemovalKeeps
<1>9. CASE HandOver \/ Leave \/ KillImport \/ NextCommand
  BY <1>9, HandOverKeeps, EndsKeep, NextCommandKeeps
<1>10. CASE UNCHANGED importVars
  <2>1. /\ UNCHANGED <<engineVars, outer, step, args, ctx, runs, before>>
        /\ UNCHANGED <<dir, meta, files, data, scratch>>
    BY <1>10 DEF importVars, world, project
  <2>2. EngineInOrder' /\ UNCHANGED <<phase, at, errors, pending, botched>>
    BY <2>1, StandsStill DEF ImportInv
  <2>3. Refused' <=> Refused
    BY <2>1, RefusalStays
  <2>4. ImportTypeOK' /\ OutsideIsOutside' /\ ExistingIsKept'
    BY <2>1, <2>2 DEF ImportInv, ImportTypeOK, OutsideIsOutside, ExistingIsKept
  <2>5. RefusedEarly' /\ Made' /\ CommitIsLast'
    BY <2>1, <2>2, <2>3
       DEF ImportInv, RefusedEarly, Made, CommitIsLast, Inside, Workspace, Me
  <2>6. FilesAreKept' /\ CopyIsSaved' /\ SyncIsUndone'
    BY <2>1, <2>2
       DEF ImportInv, FilesAreKept, CopyIsSaved, SyncIsUndone, Inside, Workspace
  <2> QED
    BY <2>2, <2>4, <2>5, <2>6 DEF ImportInv
<1> QED
  BY <1>1, <1>2, <1>3, <1>4, <1>5, <1>6, <1>7, <1>8, <1>9, <1>10 DEF ImportNext

\* The invariant that the properties of `ldm import` follow from.
THEOREM ImportsKeepTheInvariant == ImportSpec => []ImportInv
BY InitImportInv, StepImportInv, PTL DEF ImportSpec

\* The project, the scratch directories and the context of the nine stages are
\* well typed, for any number of imports.
THEOREM ImportsAreTyped == ImportSpec => []ImportTypeOK
BY ImportsKeepTheInvariant, PTL DEF ImportInv

\* For any number of imports one after the other, whatever fails in them: a
\* directory the user had is not deleted, nor its metadata, unless the user
\* chose to clean it, and a source that is refused changes nothing.
THEOREM ExistingProjectsSurvive == ImportSpec => []ExistingProjectSurvives
<1>1. ImportInv => ExistingProjectSurvives
  BY DEF ImportInv, ExistingIsKept, RefusedEarly, ExistingProjectSurvives, Cleaned
<1> QED
  BY <1>1, ImportsKeepTheInvariant, PTL

\* Past import_committed no failure and no rollback takes the import away.
THEOREM CommittedImportsStay == ImportSpec => []CommittedImportStays
<1>1. ImportInv => CommittedImportStays
  BY DEF ImportInv, CommitIsLast, CommittedImportStays
<1> QED
  BY <1>1, ImportsKeepTheInvariant, PTL

\* VolumeSyncStage.rollback gives back what the artifact directories held.
THEOREM FailedSyncsAreUndone == ImportSpec => []FailedSyncIsUndone
<1>1. ImportInv => FailedSyncIsUndone
  BY DEF ImportInv, SyncIsUndone, FailedSyncIsUndone, Unwound
<1> QED
  BY <1>1, ImportsKeepTheInvariant, PTL

(***************************************************************************)
(* The power of nodes                                                      *)
(***************************************************************************)

\* The windows of is_in_shutdown_window written as intervals of the day and
\* of the week: the night begins at 19:00 and lasts 12 hours ...
THEOREM NightIsAnInterval ==
  ASSUME NEW t \in Nat
  PROVE  Overnight(t) <=> (t + 24 - 19) % 24 < 12
BY DEF Overnight, Hour

\* ... and the weekend begins on Friday at 19:00 and lasts 60 hours.
THEOREM WeekendIsAnInterval ==
  ASSUME NEW t \in Nat
  PROVE  Weekend(t) <=> (t + 168 - (4 * 24 + 19)) % 168 < 60
BY DEF Weekend, Weekday, Hour

-----------------------------------------------------------------------------
(* Types                                                                   *)

\* The clock has an hour to begin with.
LEMMA Bounds == First \in Nat \ {0} /\ Last \in Nat /\ First <= Last
BY ClockAssumption DEF ClockAssumption

\* What a machine runs before its first command and after its last.
LEMMA NoSessionType == NoSession \in Command /\ NoState \in [Node -> Deadline]
<1>1. NoState \in [Node -> Deadline]
  BY DEF NoState, Deadline
<1> QED
  BY <1>1, Bounds DEF NoSession, Command, CommandSteps, Deadline

\* Before the first command.
LEMMA InitTypeOK == Init => TypeOK
<1> SUFFICES ASSUME Init PROVE TypeOK
  OBVIOUS
<1> USE Bounds, NoSessionType
<1>1. session \in [Proc -> Command]
  BY DEF Init
<1>2. \A p \in Proc : session[p].at = "idle"
  BY DEF Init, NoSession
<1>3. now \in First..Last /\ running \subseteq Node /\ faults \in 0..MaxFaults
  BY BoundsAssumption DEF Init, BoundsAssumption
<1>4. tag \in [Node -> Deadline] /\ promised \in [Node -> Deadline]
      /\ \A n \in Node \ Instance : tag[n] = None
  BY DEF Init, Deadline
<1>5. file \in [Proc -> [Node -> Deadline] \cup {Torn}]
  BY DEF Init
<1> QED
  BY <1>1, <1>2, <1>3, <1>4, <1>5 DEF Init, TypeOK

\* What load_state() returns is a dict.
LEMMA LoadedType ==
  ASSUME TypeOK, NEW p \in Proc
  PROVE  Loaded(p) \in [Node -> Deadline]
BY NoSessionType DEF TypeOK, Loaded

\* What a step makes of a machine's command is one, at a node if need be.
SessionsFit ==
  /\ session' \in [Proc -> Command]
  /\ \A p \in Proc : session'[p].at \in {"power", "tag", "load", "clear"} =>
                      session'[p].node # NoNode

LEMMA StartFits ==
  ASSUME TypeOK, NEW p \in Proc, NEW s \in Command, Start(p, s),
         s.at \in {"power", "tag", "load", "clear"} => s.node # NoNode
  PROVE  SessionsFit /\ file' \in [Proc -> [Node -> Deadline] \cup {Torn}]
         /\ overlapped' \in BOOLEAN
BY NoSessionType DEF TypeOK, Start, SessionsFit

LEMMA ExitFits ==
  ASSUME TypeOK, NEW p \in Proc, Exit(p)
  PROVE  SessionsFit
BY NoSessionType DEF TypeOK, Exit, SessionsFit, NoSession

LEMMA GotoFits ==
  ASSUME TypeOK, NEW p \in Proc, NEW label \in CommandSteps, Goto(p, label),
         session[p].node # NoNode \/ label \in {"idle", "save", "write", "check"}
  PROVE  SessionsFit
BY DEF TypeOK, Goto, SessionsFit, Command

LEMMA FaultFits ==
  ASSUME TypeOK, Fault \/ UNCHANGED faults
  PROVE  faults' \in 0..MaxFaults
BY BoundsAssumption DEF TypeOK, Fault, BoundsAssumption

\* Every step keeps the types.
LEMMA StepTypeOK == TypeOK /\ [Next]_vars => TypeOK'
<1> SUFFICES ASSUME TypeOK, [Next]_vars PROVE TypeOK'
  OBVIOUS
<1> USE Bounds DEF SessionsFit
<1>1. ASSUME NEW p \in Proc, NEW n \in Node, StartSleep(p, n) PROVE TypeOK'
  <2>1. [NoSession EXCEPT !.at = "power", !.cmd = "sleep", !.node = n] \in Command
    BY NoSessionType DEF Command, CommandSteps
  <2> QED
    BY <1>1, <2>1, StartFits, NodesAssumption
       DEF StartSleep, TypeOK, NodesAssumption, NoSession
<1>2. ASSUME NEW p \in Proc, NEW n \in Node, NEW ttl \in Ttl,
             StartWake(p, n, ttl)
      PROVE  TypeOK'
  <2>1. now + ttl \in Deadline
    BY <1>2, ClockAssumption DEF StartWake, ClockAssumption, Deadline, TypeOK
  <2>2. [NoSession EXCEPT !.at = "power", !.cmd = "wake", !.node = n,
                          !.until = now + ttl] \in Command
    BY <2>1, NoSessionType DEF Command, CommandSteps
  <2> QED
    BY <1>2, <2>2, StartFits, NodesAssumption
       DEF StartWake, TypeOK, NodesAssumption, NoSession
<1>3. ASSUME NEW p \in Proc, StartEnforce(p) PROVE TypeOK'
  <2> DEFINE s == [NoSession EXCEPT !.at = "check", !.cmd = "enforce",
                     !.left = Node, !.time = now,
                     !.state = IF p \in Ephemeral THEN NoState ELSE Loaded(p)]
  <2>1. s \in Command /\ s.at = "check"
    BY NoSessionType, LoadedType DEF Command, CommandSteps, TypeOK, NoSession
  <2>2. Start(p, s) /\ UNCHANGED <<now, running, tag, promised, faults>>
    BY <1>3 DEF StartEnforce
  <2> HIDE DEF s
  <2> QED
    BY <2>1, <2>2, StartFits DEF TypeOK
<1>4. ASSUME NEW p \in Proc, PowerOn(p) \/ PowerOff(p) PROVE TypeOK'
  <2>1. SessionsFit /\ session[p].node \in Node
    BY <1>4, GotoFits DEF PowerOn, PowerOff, At, CommandSteps, TypeOK, Command
  <2>2. None \in Deadline
    BY DEF Deadline
  <2> QED
    BY <1>4, <2>1, <2>2 DEF PowerOn, PowerOff, TypeOK
<1>5. ASSUME NEW p \in Proc, FailPowerOn(p) \/ FailPowerOff(p) \/ Kill(p)
      PROVE  TypeOK'
  <2>1. SessionsFit /\ faults' \in 0..MaxFaults
    BY <1>5, ExitFits, FaultFits DEF FailPowerOn, FailPowerOff, Kill
  <2> QED
    BY <1>5, <2>1 DEF FailPowerOn, FailPowerOff, Kill, TypeOK
<1>6. ASSUME NEW p \in Proc, WriteTag(p) \/ FailWriteTag(p) PROVE TypeOK'
  <2>1. SessionsFit /\ session[p].node \in Node /\ session[p].until \in Deadline
    BY <1>6, GotoFits DEF WriteTag, FailWriteTag, At, CommandSteps, TypeOK, Command
  <2>2. CASE WriteTag(p)
    BY <2>1, <2>2, NodesAssumption DEF WriteTag, TypeOK, NodesAssumption
  <2>3. CASE FailWriteTag(p)
    <3>1. faults' \in 0..MaxFaults
      BY <2>3, FaultFits DEF FailWriteTag
    <3> QED
      BY <2>1, <2>3, <3>1 DEF FailWriteTag, TypeOK
  <2> QED
    BY <1>6, <2>2, <2>3
<1>7. ASSUME NEW p \in Proc, LoadState(p) PROVE TypeOK'
  <2> DEFINE d == [Loaded(p) EXCEPT ![session[p].node] = session[p].until]
             c == [session[p] EXCEPT !.at = "save", !.state = d]
  <2>1. d \in [Node -> Deadline]
    BY LoadedType DEF TypeOK, Command
  <2>2. session' = [session EXCEPT ![p] = c]
    BY <1>7 DEF LoadState
  <2>3. c \in Command /\ c.at = "save"
    <3> HIDE DEF d
    <3> QED
      BY <2>1 DEF TypeOK, Command, CommandSteps
  <2> HIDE DEF c
  <2>4. SessionsFit
    BY <2>2, <2>3 DEF TypeOK
  <2> QED
    BY <1>7, <2>4 DEF LoadState, TypeOK
<1>8. ASSUME NEW p \in Proc, TruncateState(p) \/ WriteState(p) PROVE TypeOK'
  <2>1. SessionsFit
    BY <1>8, GotoFits, ExitFits DEF TruncateState, WriteState, CommandSteps
  <2>2. session[p].state \in [Node -> Deadline]
    BY DEF TypeOK, Command
  <2> QED
    BY <1>8, <2>1, <2>2 DEF TruncateState, WriteState, TypeOK
<1>9. ASSUME NEW p \in Proc, LeaveNode(p) \/ LeaveUnreadable(p) PROVE TypeOK'
  <2>1. SessionsFit
    <3> DEFINE c(n) == [session[p] EXCEPT !.left = @ \ {n}]
    <3>1. \A n : c(n) \in Command /\ c(n).at = session[p].at
                 /\ c(n).node = session[p].node
      BY DEF TypeOK, Command
    <3>2. PICK n : session' = [session EXCEPT ![p] = c(n)]
      BY <1>9 DEF LeaveNode, LeaveUnreadable
    <3> HIDE DEF c
    <3> QED
      BY <3>1, <3>2 DEF TypeOK
  <2>2. faults' \in 0..MaxFaults
    BY <1>9, FaultFits DEF LeaveNode, LeaveUnreadable
  <2> QED
    BY <1>9, <2>1, <2>2 DEF LeaveNode, LeaveUnreadable, TypeOK
<1>10. ASSUME NEW p \in Proc, Decide(p) PROVE TypeOK'
  <2>1. SessionsFit
    BY <1>10, NodesAssumption
       DEF Decide, At, TypeOK, Command, CommandSteps, NodesAssumption, Deadline
  <2> QED
    BY <1>10, <2>1 DEF Decide, TypeOK
<1>11. ASSUME NEW p \in Proc, EnforceOff(p) PROVE TypeOK'
  <2>1. SessionsFit /\ faults' \in 0..MaxFaults
    BY <1>11, GotoFits, FaultFits DEF EnforceOff, At, CommandSteps, TypeOK
  <2> QED
    BY <1>11, <2>1 DEF EnforceOff, TypeOK
<1>12. ASSUME NEW p \in Proc, EnforceClear(p) PROVE TypeOK'
  <2>1. SessionsFit /\ faults' \in 0..MaxFaults
    BY <1>12, FaultFits DEF EnforceClear, At, CommandSteps, TypeOK, Command
  <2>2. tag' \in [Node -> Deadline] /\ \A n \in Node \ Instance : tag'[n] = None
    BY <1>12 DEF EnforceClear, TypeOK, Deadline
  <2> QED
    BY <1>12, <2>1, <2>2 DEF EnforceClear, TypeOK
<1>13. CASE Tick
  BY <1>13 DEF Tick, TypeOK
<1>14. CASE UNCHANGED vars
  BY <1>14 DEF vars, TypeOK
<1> QED
  BY <1>1, <1>2, <1>3, <1>4, <1>5, <1>6, <1>7, <1>8, <1>9, <1>10, <1>11,
     <1>12, <1>13, <1>14 DEF Next

\* The clock, the tags, the state files and every command under way
\* (node_power.py) are well typed.
THEOREM TypeCorrect == Spec => []TypeOK
BY InitTypeOK, StepTypeOK, PTL DEF Spec

-----------------------------------------------------------------------------
(* A woken node stays up.  As long as no two commands overlap, the tag is  *)
(* the promise while the promise lasts; `wake` records it for a node that  *)
(* runs, and `enforce` stops no node whose promise is not over.            *)

Alone ==
  \A p, q \in Proc : session[p].at # "idle" /\ session[q].at # "idle" => p = q

Kept ==
  \A n \in Node : now < promised[n] => n \in running /\ tag[n] = promised[n]

\* A command acts on what it has found, which is still so.
InTime ==
  \A p \in Proc :
    /\ session[p].time <= now
    /\ session[p].cmd = "sleep" => session[p].until = None
    /\ At(p, {"wake"}, "tag") => session[p].node \in running
    /\ At(p, {"enforce"}, "power") \/ At(p, {"enforce"}, "clear") =>
         promised[session[p].node] <= now

Calm == ~overlapped => Alone /\ Kept /\ InTime

LEMMA InitCalm == Init => Calm
BY Bounds DEF Init, Calm, Alone, Kept, InTime, NoSession, At, None

\* Who acts is alone, and leaves the others idle.
LEMMA Others ==
  ASSUME Alone, NEW p \in Proc, session[p].at # "idle", NEW q \in Proc, q # p
  PROVE  session[q].at = "idle"
BY DEF Alone

\* One command goes on as c.
LEMMA Continues ==
  ASSUME TypeOK, Alone, InTime, NEW p \in Proc, session[p].at # "idle",
         NEW c, session' = [session EXCEPT ![p] = c], now' = now,
         c.time <= now,
         c.cmd = "sleep" => c.until = None,
         c.cmd = "wake" /\ c.at = "tag" => c.node \in running',
         c.cmd = "enforce" /\ c.at \in {"power", "clear"} =>
           promised'[c.node] <= now
  PROVE  Alone' /\ InTime'
<1>1. session'[p] = c /\ \A q \in Proc \ {p} : session'[q] = session[q]
  BY DEF TypeOK
<1>2. \A q \in Proc \ {p} : session'[q].at = "idle"
  BY <1>1, Others
<1>3. Alone'
  BY <1>2 DEF Alone
<1>4. \A q \in Proc \ {p} : session'[q].time <= now
                           /\ (session'[q].cmd = "sleep" => session'[q].until = None)
  BY <1>1 DEF InTime
<1>5. InTime'
  BY <1>1, <1>2, <1>4 DEF InTime, At
<1> QED
  BY <1>3, <1>5

\* The step that a command with the same node and deadline goes to.
LEMMA GoesOn ==
  ASSUME TypeOK, Alone, InTime, NEW p \in Proc, NEW label \in CommandSteps,
         session[p].at # "idle", Goto(p, label), now' = now,
         session[p].cmd = "wake" /\ label = "tag" => session[p].node \in running',
         session[p].cmd = "enforce" /\ label \in {"power", "clear"} =>
           promised'[session[p].node] <= now
  PROVE  Alone' /\ InTime'
<1> DEFINE c == [session[p] EXCEPT !.at = label]
<1>1. session[p] \in Command
  BY DEF TypeOK
<1>2. c.at = label /\ c.cmd = session[p].cmd /\ c.until = session[p].until
      /\ c.time = session[p].time /\ c.node = session[p].node
  BY <1>1 DEF Command
<1>3. session' = [session EXCEPT ![p] = c]
  BY DEF Goto
<1>4. c.time <= now /\ (c.cmd = "sleep" => c.until = None)
  BY <1>2 DEF InTime
<1> HIDE DEF c
<1> QED
  BY <1>2, <1>3, <1>4, Continues

LEMMA Ends ==
  ASSUME TypeOK, Alone, InTime, NEW p \in Proc, session[p].at # "idle",
         Exit(p), now' = now
  PROVE  Alone' /\ InTime'
<1>1. NoSession.time <= now /\ NoSession.cmd = "none"
  BY Bounds DEF NoSession, TypeOK
<1>2. session' = [session EXCEPT ![p] = NoSession]
  BY DEF Exit
<1> QED
  BY <1>1, <1>2, Continues

\* A command begins while every machine is idle.
LEMMA Begins ==
  ASSUME TypeOK, Calm, NEW p \in Proc, NEW s \in Command, Start(p, s),
         UNCHANGED <<now, running, tag, promised>>, ~overlapped',
         s.at \in {"power", "check"}, s.time <= now,
         s.cmd = "sleep" => s.until = None,
         s.at = "power" => s.cmd # "enforce"
  PROVE  Alone' /\ Kept' /\ InTime'
<1>1. ~overlapped /\ \A q \in Proc : session[q].at = "idle"
  BY DEF Start
<1>2. Kept /\ InTime
  BY <1>1 DEF Calm
<1>3. session'[p] = s /\ \A q \in Proc \ {p} : session'[q] = session[q]
  BY DEF Start, TypeOK
<1>4. Alone'
  BY <1>1, <1>3 DEF Alone
<1>5. Kept'
  BY <1>2 DEF Kept
<1>6. InTime'
  BY <1>1, <1>2, <1>3 DEF InTime, At
<1> QED
  BY <1>4, <1>5, <1>6

\* What MustStop says of a promise that is not over.
LEMMA PromisedIsSpared ==
  ASSUME TypeOK, Kept, InTime, NEW p \in Proc, NEW n \in Node, MustStop(p, n)
  PROVE  promised[n] <= now
<1> SUFFICES ASSUME now < promised[n] PROVE FALSE
  BY Bounds DEF TypeOK, Deadline, None
<1>1. tag[n] = promised[n] /\ tag[n] # None
  BY Bounds DEF Kept, TypeOK, None
<1>2. session[p].time <= now /\ session[p].time \in Nat /\ now \in Nat
      /\ tag[n] \in Nat
  BY Bounds DEF InTime, TypeOK, Command, Deadline, None
<1>3. InForce(WakeUntil(p, n), session[p].time)
  BY <1>1, <1>2 DEF InForce, WakeUntil
<1> QED
  BY <1>3 DEF MustStop

LEMMA StepCalm == TypeOK /\ Calm /\ [Next]_vars => Calm'
<1> SUFFICES ASSUME TypeOK, Calm, [Next]_vars, ~overlapped'
             PROVE  Alone' /\ Kept' /\ InTime'
  BY DEF Calm
<1>1. ASSUME NEW p \in Proc, NEW n \in Node,
             StartSleep(p, n) \/ \E ttl \in Ttl : StartWake(p, n, ttl)
      PROVE  Alone' /\ Kept' /\ InTime'
  <2>1. CASE StartSleep(p, n)
    <3> DEFINE s == [NoSession EXCEPT !.at = "power", !.cmd = "sleep", !.node = n]
    <3>1. s \in Command
      BY NoSessionType DEF Command, CommandSteps
    <3>2. s.at = "power" /\ s.cmd = "sleep" /\ s.until = None /\ s.time = First
      BY DEF NoSession
    <3>3. Start(p, s) /\ First <= now
      BY <2>1, Bounds DEF StartSleep, TypeOK
    <3> HIDE DEF s
    <3> QED
      BY <2>1, <3>1, <3>2, <3>3, Begins DEF StartSleep
  <2>2. ASSUME NEW ttl \in Ttl, StartWake(p, n, ttl)
        PROVE  Alone' /\ Kept' /\ InTime'
    <3> DEFINE s == [NoSession EXCEPT !.at = "power", !.cmd = "wake",
                                      !.node = n, !.until = now + ttl]
    <3>1. now + ttl \in Deadline
      BY <2>2, Bounds, ClockAssumption
         DEF StartWake, ClockAssumption, Deadline, TypeOK
    <3>2. s \in Command
      BY <3>1, NoSessionType DEF Command, CommandSteps
    <3>3. s.at = "power" /\ s.cmd = "wake" /\ s.time = First
      BY DEF NoSession
    <3>4. Start(p, s) /\ First <= now
      BY <2>2, Bounds DEF StartWake, TypeOK
    <3> HIDE DEF s
    <3> QED
      BY <2>2, <3>2, <3>3, <3>4, Begins DEF StartWake
  <2> QED
    BY <1>1, <2>1, <2>2
<1>2. ASSUME NEW p \in Proc, StartEnforce(p)
      PROVE  Alone' /\ Kept' /\ InTime'
  <2> DEFINE s == [NoSession EXCEPT !.at = "check", !.cmd = "enforce",
                     !.left = Node, !.time = now,
                     !.state = IF p \in Ephemeral THEN NoState ELSE Loaded(p)]
  <2>1. s \in Command /\ s.at = "check" /\ s.time = now /\ s.cmd = "enforce"
    BY NoSessionType, LoadedType DEF Command, CommandSteps, TypeOK, NoSession
  <2>2. now \in Nat /\ Start(p, s)
    BY <1>2, Bounds DEF StartEnforce, TypeOK
  <2> HIDE DEF s
  <2> QED
    BY <1>2, <2>1, <2>2, Begins DEF StartEnforce
\* The other steps are a command's, or the clock's.
<1>3. ASSUME ~overlapped PROVE Alone /\ Kept /\ InTime
  BY <1>3 DEF Calm
<1>4. ASSUME NEW p \in Proc, PowerOn(p) \/ PowerOff(p)
      PROVE  Alone' /\ Kept' /\ InTime'
  <2>1. ~overlapped /\ now' = now /\ session[p].at = "power"
        /\ session[p].cmd \in {"wake", "sleep"} /\ Goto(p, "tag")
    BY <1>4 DEF PowerOn, PowerOff, At
  <2>2. session[p].node \in Node
    BY <2>1 DEF TypeOK, Command
  <2>3. session[p].cmd = "wake" => session[p].node \in running'
    BY <1>4 DEF PowerOn, PowerOff, At
  <2>4. Kept'
    BY <1>3, <1>4, <2>1, <2>2, Bounds
       DEF PowerOn, PowerOff, Kept, TypeOK, None
  <2> QED
    BY <1>3, <2>1, <2>3, <2>4, GoesOn DEF CommandSteps
<1>5. ASSUME NEW p \in Proc, FailPowerOn(p) \/ FailPowerOff(p) \/ Kill(p)
      PROVE  Alone' /\ Kept' /\ InTime'
  <2>1. ~overlapped /\ session[p].at # "idle" /\ Exit(p)
        /\ UNCHANGED <<now, running, tag, promised>>
    BY <1>5 DEF FailPowerOn, FailPowerOff, Kill, At
  <2> QED
    BY <1>3, <2>1, Ends DEF Kept
<1>6. ASSUME NEW p \in Proc, WriteTag(p) \/ FailWriteTag(p)
      PROVE  Alone' /\ Kept' /\ InTime'
  <2>1. ~overlapped /\ now' = now /\ running' = running
        /\ session[p].at = "tag" /\ session[p].cmd \in {"wake", "sleep"}
        /\ Goto(p, "load")
    BY <1>6 DEF WriteTag, FailWriteTag, At
  <2>2. session[p].node \in Node /\ session[p].until \in Nat
    BY <2>1, Bounds DEF TypeOK, Command, Deadline, None
  <2>3. session[p].cmd = "wake" => session[p].node \in running
    BY <1>3, <2>1 DEF InTime, At
  <2>4. session[p].cmd = "sleep" => session[p].until = 0
    BY <1>3, <2>1 DEF InTime, None
  <2>5. Kept'
    BY <1>3, <1>6, <2>1, <2>2, <2>3, <2>4, Bounds
       DEF WriteTag, FailWriteTag, Kept, TypeOK
  <2> QED
    BY <1>3, <2>1, <2>5, GoesOn DEF CommandSteps
<1>7. ASSUME NEW p \in Proc, LoadState(p)
      PROVE  Alone' /\ Kept' /\ InTime'
  <2> DEFINE c == [session[p] EXCEPT
       !.at = "save",
       !.state = [Loaded(p) EXCEPT ![session[p].node] = session[p].until]]
  <2>1. ~overlapped /\ UNCHANGED <<now, running, tag, promised>>
        /\ session[p].at = "load" /\ session[p].cmd \in {"wake", "sleep"}
    BY <1>7 DEF LoadState, At
  <2>2. session[p] \in Command
    BY DEF TypeOK
  <2>3. c.at = "save" /\ c.cmd = session[p].cmd /\ c.until = session[p].until
        /\ c.time = session[p].time
    BY <2>2 DEF Command
  <2>4. session' = [session EXCEPT ![p] = c]
    BY <1>7 DEF LoadState
  <2> HIDE DEF c
  <2>5. c.time <= now /\ (c.cmd = "sleep" => c.until = None)
    BY <1>3, <2>1, <2>3 DEF InTime
  <2>6. Alone' /\ InTime'
    BY <1>3, <2>1, <2>3, <2>4, <2>5, Continues
  <2> QED
    BY <1>3, <2>1, <2>6 DEF Kept
<1>8. ASSUME NEW p \in Proc, TruncateState(p) \/ WriteState(p)
      PROVE  Alone' /\ Kept' /\ InTime'
  <2>1. ~overlapped /\ UNCHANGED <<now, running, tag, promised>>
        /\ session[p].at # "idle" /\ (Goto(p, "write") \/ Exit(p))
    BY <1>8 DEF TruncateState, WriteState, At
  <2>2. Alone' /\ InTime'
    BY <1>3, <2>1, GoesOn, Ends DEF CommandSteps
  <2> QED
    BY <1>3, <2>1, <2>2 DEF Kept
<1>9. ASSUME NEW p \in Proc, LeaveNode(p) \/ LeaveUnreadable(p)
      PROVE  Alone' /\ Kept' /\ InTime'
  <2> DEFINE c(n) == [session[p] EXCEPT !.left = @ \ {n}]
  <2>1. ~overlapped /\ UNCHANGED <<now, running, tag, promised>>
        /\ session[p].at = "check" /\ session[p].cmd = "enforce"
    BY <1>9 DEF LeaveNode, LeaveUnreadable, At
  <2>2. session[p] \in Command
    BY DEF TypeOK
  <2>3. \A n : c(n).at = "check" /\ c(n).cmd = "enforce"
              /\ c(n).time = session[p].time
    BY <2>1, <2>2 DEF Command
  <2>4. PICK n : session' = [session EXCEPT ![p] = c(n)]
    BY <1>9 DEF LeaveNode, LeaveUnreadable
  <2> HIDE DEF c
  <2>5. c(n).time <= now
    BY <1>3, <2>1, <2>3 DEF InTime
  <2>6. Alone' /\ InTime'
    BY <1>3, <2>1, <2>3, <2>4, <2>5, Continues
  <2> QED
    BY <1>3, <2>1, <2>6 DEF Kept
<1>10. ASSUME NEW p \in Proc, Decide(p)
       PROVE  Alone' /\ Kept' /\ InTime'
  <2> DEFINE c(n) == [session[p] EXCEPT !.at = "power", !.node = n,
                        !.state[n] = None, !.left = @ \ {n}]
  <2>1. ~overlapped /\ UNCHANGED <<now, running, tag, promised>>
        /\ session[p].at = "check" /\ session[p].cmd = "enforce"
    BY <1>10 DEF Decide, At
  <2>2. session[p] \in Command
    BY DEF TypeOK
  <2>3. \A n : c(n).at = "power" /\ c(n).cmd = "enforce" /\ c(n).node = n
              /\ c(n).time = session[p].time
    BY <2>1, <2>2 DEF Command
  <2>4. PICK n \in Node : MustStop(p, n) /\ session' = [session EXCEPT ![p] = c(n)]
    <3>1. PICK n \in session[p].left :
            /\ MustStop(p, n)
            /\ session' = [session EXCEPT ![p].at = "power", ![p].node = n,
                             ![p].state[n] = None, ![p].left = @ \ {n}]
      BY <1>10 DEF Decide
    <3>2. n \in Node
      BY <2>2 DEF Command
    <3>3. session' = [session EXCEPT ![p] = c(n)]
      BY <3>1 DEF TypeOK
    <3> QED
      BY <3>1, <3>2, <3>3
  <2> HIDE DEF c
  <2>5. c(n).time <= now
    BY <1>3, <2>1, <2>3 DEF InTime
  <2>6. promised'[n] <= now
    BY <1>3, <2>1, <2>4, PromisedIsSpared
  <2>7. Alone' /\ InTime'
    BY <1>3, <2>1, <2>3, <2>4, <2>5, <2>6, Continues
  <2> QED
    BY <1>3, <2>1, <2>7 DEF Kept
<1>11. ASSUME NEW p \in Proc, EnforceOff(p)
       PROVE  Alone' /\ Kept' /\ InTime'
  <2>1. ~overlapped /\ UNCHANGED <<now, tag, promised>> /\ session[p].at = "power"
        /\ session[p].cmd = "enforce" /\ Goto(p, "clear")
    BY <1>11 DEF EnforceOff, At
  <2>2. promised[session[p].node] <= now
    BY <1>3, <2>1 DEF InTime, At
  <2>3. Kept'
    BY <1>3, <1>11, <2>1, <2>2, Bounds
       DEF EnforceOff, Kept, TypeOK, Deadline, None
  <2> QED
    BY <1>3, <2>1, <2>2, <2>3, GoesOn DEF CommandSteps
<1>12. ASSUME NEW p \in Proc, EnforceClear(p)
       PROVE  Alone' /\ Kept' /\ InTime'
  <2> DEFINE c == [session[p] EXCEPT !.at = "check", !.node = NoNode]
  <2>1. ~overlapped /\ UNCHANGED <<now, running, promised>>
        /\ session[p].at = "clear" /\ session[p].cmd = "enforce"
    BY <1>12 DEF EnforceClear, At
  <2>2. session[p] \in Command
    BY DEF TypeOK
  <2>3. c.at = "check" /\ c.cmd = "enforce" /\ c.time = session[p].time
    BY <2>1, <2>2 DEF Command
  <2>4. session' = [session EXCEPT ![p] = c]
    BY <1>12 DEF EnforceClear
  <2> HIDE DEF c
  <2>5. c.time <= now /\ promised[session[p].node] <= now
    BY <1>3, <2>1, <2>3 DEF InTime, At
  <2>6. Alone' /\ InTime'
    BY <1>3, <2>1, <2>3, <2>4, <2>5, Continues
  <2>7. Kept'
    BY <1>3, <1>12, <2>1, <2>5, Bounds
       DEF EnforceClear, Kept, TypeOK, Deadline, None
  <2> QED
    BY <2>6, <2>7
<1>13. CASE Tick
  <2>1. ~overlapped /\ UNCHANGED <<running, tag, session, promised>>
        /\ now' = now + 1 /\ now \in Nat
    BY <1>13, Bounds DEF Tick, TypeOK
  <2>2. Alone' /\ Kept'
    BY <1>3, <2>1, Bounds DEF Alone, Kept, TypeOK, Deadline, None
  <2>3. \A n \in Node : promised[n] \in Nat
    BY Bounds DEF TypeOK, Deadline, None
  <2>4. \A p \in Proc : session[p].time \in Nat
                       /\ (session[p].at \in {"power", "clear"} =>
                             session[p].node \in Node)
    BY Bounds DEF TypeOK, Command
  <2>5. InTime'
    BY <1>3, <2>1, <2>3, <2>4 DEF InTime, At
  <2> QED
    BY <2>2, <2>5
<1>14. CASE UNCHANGED vars
  BY <1>3, <1>14 DEF vars, Alone, Kept, InTime, At
<1> QED
  BY <1>1, <1>2, <1>4, <1>5, <1>6, <1>7, <1>8, <1>9, <1>10, <1>11, <1>12,
     <1>13, <1>14 DEF Next

\* Whatever fails and whoever is killed, a node runs until the deadline
\* `wake` recorded for it, if no two commands overlap.
THEOREM WokenNodeStaysUpHolds == Spec => []WokenNodeStaysUp
<1>1. Calm => WokenNodeStaysUp
  BY DEF Calm, Kept, WokenNodeStaysUp
<1> QED
  BY InitTypeOK, StepTypeOK, InitCalm, StepCalm, <1>1, PTL DEF Spec
===============================================================================
