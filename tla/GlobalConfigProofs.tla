-------------------------- MODULE GlobalConfigProofs --------------------------
(***************************************************************************)
(* For any number of processes, files, nodes and settings: ~/.ldmrc never  *)
(* has two default nodes; and where the lock excludes, unless `ldm config` *)
(* wrote beside another command, it is never half written, and a save that *)
(* nobody came before changes what its command is about.                   *)
(*                                                                         *)
(* First the lock by itself: for any number of processes, of files and of  *)
(* attempts its state is well typed, no file has two exclusive holders,    *)
(* and where an open file cannot be removed the path itself has one        *)
(* holder, whatever could not be opened, locked or written.  To the lock's *)
(* variables every step of a command is one of module FileLock, so what is *)
(* proved of the lock holds of the commands that use it.                   *)
(***************************************************************************)
EXTENDS GlobalConfig, TLAPS

-----------------------------------------------------------------------------
(* The lock                                                                *)

\* Two holders of one file have both locked it shared.
FileExclusion ==
  \A p, q \in Proc :
    p # q /\ Held(p) /\ Held(q) /\ fd[p] = fd[q] => Shared(p) /\ Shared(q)

\* Who has not been refused has attempts left.
AttemptsLeft == \A p \in Proc : pc[p] # "refused" => attempt[p] < Retries

\* Where a file that is open cannot be removed every open file is the one at
\* the path.
OpenFileIsThePath ==
  platform = "nt" => \A p \in Proc : fd[p] # NoFile => fd[p] = path

\* The inductive invariant of the lock.
LockInv ==
  /\ TypeOK
  /\ AttemptsLeft
  /\ FileExclusion
  /\ OpenFileIsThePath

\* A fresh set of processes holds nothing, has nothing open and waits for
\* nothing.
LEMMA InitLockInv == Init => LockInv
<1> SUFFICES ASSUME Init PROVE LockInv
  OBVIOUS
<1>1. TypeOK
  BY RetriesAssumption, NoFileAssumption
     DEF Init, TypeOK, Steps, RetriesAssumption, NoFileAssumption
<1>2. AttemptsLeft /\ FileExclusion
  BY RetriesAssumption
     DEF Init, AttemptsLeft, FileExclusion, Held, RetriesAssumption
<1>3. OpenFileIsThePath
  BY DEF Init, OpenFileIsThePath
<1> QED
  BY <1>1, <1>2, <1>3 DEF LockInv

\* Every step keeps the types, and with them which steps have a file open.
LEMMA StepLockTypeOK == TypeOK /\ AttemptsLeft /\ [Next]_lockVars => TypeOK'
<1> SUFFICES ASSUME TypeOK, AttemptsLeft, [Next]_lockVars PROVE TypeOK'
  OBVIOUS
<1> USE RetriesAssumption, NoFileAssumption
    DEF TypeOK, Steps, RetriesAssumption, NoFileAssumption
<1>1. ASSUME NEW p \in Proc, NEW m \in Modes, Begin(p, m) PROVE TypeOK'
  BY <1>1 DEF Begin
<1>2. ASSUME NEW p \in Proc, Open(p) PROVE TypeOK'
  <2>1. path' \in Inode
    BY <1>2 DEF Open
  <2> QED
    BY <1>2, <2>1 DEF Open
<1>3. ASSUME NEW p \in Proc, Lock(p) PROVE TypeOK'
  BY <1>3 DEF Lock, ForgetAttempts
<1>4. ASSUME NEW p \in Proc, CannotOpen(p) \/ FailAttempt(p) PROVE TypeOK'
  <2>1. attempt[p] + 1 \in 0..Retries
    BY <1>4 DEF CannotOpen, FailAttempt, AttemptsLeft
  <2>2. attempt' \in [Proc -> 0..Retries] /\ pc' \in [Proc -> Steps]
    BY <1>4, <2>1 DEF CannotOpen, FailAttempt, Retry
  <2>3. CASE CannotOpen(p)
    <3>1. UNCHANGED fd /\ fd[p] = NoFile
      BY <2>3 DEF CannotOpen
    <3>2. \A q \in Proc \ {p} : pc'[q] = pc[q]
      BY <2>3 DEF CannotOpen, Retry
    <3>3. pc'[p] \in {"refused", "acquiring"}
      BY <2>3 DEF CannotOpen, Retry
    <3> QED
      BY <2>2, <2>3, <3>1, <3>2, <3>3 DEF CannotOpen
  <2>4. CASE FailAttempt(p)
    <3>1. fd' = [fd EXCEPT ![p] = NoFile]
      BY <2>4 DEF FailAttempt
    <3>2. \A q \in Proc \ {p} : pc'[q] = pc[q]
      BY <2>4 DEF FailAttempt, Retry
    <3>3. pc'[p] \in {"refused", "acquiring"}
      BY <2>4 DEF FailAttempt, Retry
    <3> QED
      BY <2>2, <2>4, <3>1, <3>2, <3>3 DEF FailAttempt
  <2> QED
    BY <1>4, <2>3, <2>4
<1>8. ASSUME NEW p \in Proc, AbandonStamp(p) PROVE TypeOK'
  BY <1>8 DEF AbandonStamp, ForgetAttempts
<1>5. ASSUME NEW p \in Proc, Leave(p) \/ Unlock(p) \/ Close(p) PROVE TypeOK'
  BY <1>5 DEF Leave, Unlock, Close, ForgetAttempts
<1>6. ASSUME NEW p \in Proc, Remove(p) \/ Die(p) PROVE TypeOK'
  BY <1>6 DEF Remove, Die, ForgetAttempts
<1>7. CASE ClearLock \/ UNCHANGED lockVars
  BY <1>7 DEF ClearLock, lockVars
<1> QED
  BY <1>1, <1>2, <1>3, <1>4, <1>5, <1>6, <1>7, <1>8 DEF Next

\* An attempt is counted only when another one begins or the last one fails.
LEMMA StepAttemptsLeft ==
  TypeOK /\ AttemptsLeft /\ [Next]_lockVars => AttemptsLeft'
<1> SUFFICES ASSUME TypeOK, AttemptsLeft, [Next]_lockVars PROVE AttemptsLeft'
  OBVIOUS
<1> USE RetriesAssumption DEF TypeOK, AttemptsLeft, RetriesAssumption
<1>1. ASSUME NEW p \in Proc, NEW m \in Modes, Begin(p, m) PROVE AttemptsLeft'
  BY <1>1 DEF Begin
<1>2. ASSUME NEW p \in Proc, CannotOpen(p) \/ FailAttempt(p) PROVE AttemptsLeft'
  BY <1>2 DEF CannotOpen, FailAttempt, Retry
<1>3. ASSUME NEW p \in Proc, Open(p) \/ Lock(p) \/ AbandonStamp(p) \/ Leave(p)
      PROVE  AttemptsLeft'
  BY <1>3 DEF Open, Lock, AbandonStamp, Leave, ForgetAttempts
<1>4. ASSUME NEW p \in Proc, Unlock(p) \/ Close(p) \/ Remove(p) \/ Die(p)
      PROVE  AttemptsLeft'
  BY <1>4 DEF Unlock, Close, Remove, Die, ForgetAttempts
<1>5. CASE ClearLock \/ UNCHANGED lockVars
  BY <1>5 DEF ClearLock, lockVars
<1> QED
  BY <1>1, <1>2, <1>3, <1>4, <1>5 DEF Next

\* Only Lock makes a holder, and it looks at who holds the file first.
LEMMA StepFileExclusion ==
  TypeOK /\ FileExclusion /\ [Next]_lockVars => FileExclusion'
<1> SUFFICES ASSUME TypeOK, FileExclusion, [Next]_lockVars
             PROVE  FileExclusion'
  OBVIOUS
<1> USE DEF FileExclusion, Held, Shared
<1>1. ASSUME NEW p \in Proc, Lock(p) PROVE FileExclusion'
  <2>1. \A q \in Proc : Held(q) /\ fd[q] = fd[p] => Shared(p) /\ Shared(q)
    BY <1>1 DEF Lock, Conflicts, Holders
  <2>2. UNCHANGED <<platform, fd, mode>> /\ \A q \in Proc \ {p} : pc'[q] = pc[q]
    BY <1>1 DEF Lock, TypeOK
  <2> QED
    BY <2>1, <2>2
\* The others make no holder, and leave file and mode of the holders alone.
<1>2. ASSUME NEW p \in Proc, NEW m \in Modes, Begin(p, m) PROVE FileExclusion'
  BY <1>2 DEF Begin, TypeOK
<1>3. ASSUME NEW p \in Proc,
             Open(p) \/ CannotOpen(p) \/ FailAttempt(p) \/ AbandonStamp(p)
      PROVE  FileExclusion'
  BY <1>3 DEF Open, CannotOpen, FailAttempt, AbandonStamp, Retry, TypeOK
<1>4. ASSUME NEW p \in Proc, Leave(p) \/ Unlock(p) \/ Close(p)
      PROVE  FileExclusion'
  BY <1>4 DEF Leave, Unlock, Close, TypeOK
<1>5. ASSUME NEW p \in Proc, Remove(p) \/ Die(p) PROVE FileExclusion'
  BY <1>5 DEF Remove, Die, TypeOK
<1>6. CASE ClearLock \/ UNCHANGED lockVars
  BY <1>6 DEF ClearLock, lockVars
<1> QED
  BY <1>1, <1>2, <1>3, <1>4, <1>5, <1>6 DEF Next

\* The processes do not change systems.
LEMMA PlatformIsFixed == [Next]_lockVars => platform' = platform
<1>1. ASSUME NEW p \in Proc, NEW m \in Modes, Begin(p, m)
      PROVE  platform' = platform
  BY <1>1 DEF Begin
<1>2. ASSUME NEW p \in Proc,
             \/ Open(p) \/ CannotOpen(p) \/ Lock(p) \/ FailAttempt(p)
             \/ AbandonStamp(p) \/ Leave(p)
      PROVE  platform' = platform
  BY <1>2 DEF Open, CannotOpen, Lock, FailAttempt, AbandonStamp, Leave
<1>3. ASSUME NEW p \in Proc, Unlock(p) \/ Close(p) \/ Remove(p) \/ Die(p)
      PROVE  platform' = platform
  BY <1>3 DEF Unlock, Close, Remove, Die
<1> QED
  BY <1>1, <1>2, <1>3 DEF Next, ClearLock, lockVars

\* On Windows a file that somebody has open stays at the path.
LEMMA StepOpenFileIsThePath ==
  TypeOK /\ OpenFileIsThePath /\ [Next]_lockVars => OpenFileIsThePath'
<1> SUFFICES ASSUME TypeOK, OpenFileIsThePath, [Next]_lockVars,
                    platform = "nt"
             PROVE  \A r \in Proc : fd'[r] # NoFile => fd'[r] = path'
  BY PlatformIsFixed DEF OpenFileIsThePath
<1> USE DEF OpenFileIsThePath, TypeOK
<1>1. ASSUME NEW p \in Proc, Open(p)
      PROVE  \A r \in Proc : fd'[r] # NoFile => fd'[r] = path'
  BY <1>1 DEF Open
<1>2. ASSUME NEW p \in Proc, Remove(p)
      PROVE  \A r \in Proc : fd'[r] # NoFile => fd'[r] = path'
  BY <1>2 DEF Remove, Removable
<1>3. ASSUME ClearLock
      PROVE  \A r \in Proc : fd'[r] # NoFile => fd'[r] = path'
  BY <1>3 DEF ClearLock
<1>4. ASSUME NEW p \in Proc,
             FailAttempt(p) \/ AbandonStamp(p) \/ Close(p) \/ Die(p)
      PROVE  \A r \in Proc : fd'[r] # NoFile => fd'[r] = path'
  BY <1>4 DEF FailAttempt, AbandonStamp, Close, Die
<1>5. ASSUME UNCHANGED <<path, fd>>
      PROVE  \A r \in Proc : fd'[r] # NoFile => fd'[r] = path'
  BY <1>5
<1> QED
  BY <1>1, <1>2, <1>4, <1>5, <1>3
     DEF Next, Begin, CannotOpen, Lock, Leave, Unlock, lockVars

\* Whoever takes the lock, in whatever program, keeps the invariant.
LEMMA StepLockInv == LockInv /\ [Next]_lockVars => LockInv'
BY StepLockTypeOK, StepAttemptsLeft, StepFileExclusion, StepOpenFileIsThePath
   DEF LockInv

\* The invariant that the properties of the lock follow from.
THEOREM LockInvariance == Spec => []LockInv
BY InitLockInv, StepLockInv, PTL DEF Spec

\* The state of the lock (utils.py, FileLock and ProjectLock) is well typed,
\* and a file is open exactly between open() and close().
THEOREM TypeCorrect == Spec => []TypeOK
BY LockInvariance, PTL DEF LockInv

\* acquire() never lets two processes have one file locked unless both have
\* it shared.
THEOREM OneHolderPerFileHolds == Spec => []OneHolderPerFile
<1>1. LockInv => OneHolderPerFile
  BY DEF LockInv, FileExclusion, OneHolderPerFile, Shared
<1> QED
  BY <1>1, LockInvariance, PTL

\* Where an open file cannot be removed, release()'s unlink is harmless and
\* the lock excludes.
THEOREM ExcludesOnWindowsHolds == Spec => []ExcludesOnWindows
<1>1. LockInv => ExcludesOnWindows
  BY DEF LockInv, TypeOK, FileExclusion, OpenFileIsThePath, MutualExclusion,
         ExcludesOnWindows, Shared, Held
<1> QED
  BY <1>1, LockInvariance, PTL

-----------------------------------------------------------------------------
(* The invariant of ~/.ldmrc                                               *)

Saving(p) == task[p] \in {"saving", "overwriting"}
HasOpen(p) == io[p] \in {"opened", "written"}

\* A process that writes, or is about to.
Active(p) == Allowed(p) /\ io[p] # "done"

\* A process whose first load is over.
Begun(p) == task[p] # "none" /\ (task[p] = "starting" => io[p] = "done")

Calm == platform = "nt" /\ ~mixed

\* Every file that is whole is sound, and in a calm ~/.ldmrc is whole.
SoundFiles ==
  /\ \A i \in File : disk[i] # Torn => Sound(disk[i])
  /\ temp # NoFile => temp # config
  /\ Calm => Present # Torn

\* Who writes beside another has asked for the lock, and so has the other.
Locked ==
  ~mixed => \A p, q \in Proc :
              p # q /\ Writing(p) /\ Writing(q) => task[p] = "saving" /\ task[q] = "saving"

\* What a process has been asked to change, and how it is to the lock while it
\* does so.
Asked(p) ==
  /\ Saving(p) => edit[p].op # "none"
  /\ ~Saving(p) => edit[p] = NoEdit \/ edit[p].op = "reset"
  /\ edit[p].op = "reset" =>
       /\ edit[p].key \in Convention
       /\ task[p] \notin {"none", "starting", "read", "overwriting"}
  /\ task[p] \in {"none", "started", "loaded", "read"} => io[p] = "todo"
  /\ pc[p] = "unlocked" => io[p] = "done"
  /\ pc[p] = "closed" => io[p] = "done" \/ task[p] = "saving"
  /\ pc[p] # "idle" => Loading(p) \/ task[p] = "saving"
  /\ Loading(p) => mode[p] = "SH"
  /\ task[p] = "saving" => mode[p] = "EX"
  /\ task[p] = "saving" /\ HasOpen(p) => pc[p] = "held"

\* What it has in memory is sound, and was read.
SoundMemory(p) ==
  /\ Sound(first[p]) /\ Sound(second[p])
  /\ Loading(p) => config # NoFile
  /\ config = NoFile => first[p] = Empty /\ second[p] = Empty

\* In a calm the file it writes is the one at ~/.ldmrc.tmp, and nobody else's.
WritesTemporary(p) ==
  Calm /\ HasOpen(p) => temp = out[p] /\ disk[temp] = IF io[p] = "opened" THEN Torn ELSE Text(p)

\* The same but for the defaults that have a conventional value.
Alike(c, d) ==
  /\ c.nodes = d.nodes /\ c.flagged = d.flagged /\ c.root = d.root
  /\ UserDefaults(c) \ Convention = UserDefaults(d) \ Convention

\* What it has in memory is what is in the file, if nobody came before it.
UpToDate(p) ==
  Calm /\ ~stale[p] =>
    /\ Begun(p) /\ edit[p].op = "reset" => Alike(first[p], Present)
    /\ Begun(p) /\ edit[p].op # "reset" /\ (Saving(p) => Writing(p)) => first[p] = Present
    /\ \/ task[p] \in {"loaded", "read"}
       \/ Writing(p)
       \/ task[p] = "loading" /\ io[p] = "done"
       => second[p] = Present

InOrder(p) == Asked(p) /\ SoundMemory(p) /\ WritesTemporary(p) /\ UpToDate(p)

\* The inductive invariant.
CInv ==
  /\ ConfigTypeOK
  /\ LockInv
  /\ SoundFiles
  /\ Locked
  /\ \A p \in Proc : InOrder(p)

-----------------------------------------------------------------------------
(* What the processes do with the lock when they use it for ~/.ldmrc       *)

\* What a process does with the lock is its own affair.
LockAct(p) ==
  /\ [Next]_lockVars
  /\ platform' = platform
  /\ \A q \in Proc \ {p} : pc'[q] = pc[q] /\ mode'[q] = mode[q]

\* Everything that a process does with the lock is a step of module FileLock.
LEMMA LockActs ==
  ASSUME ConfigTypeOK, NEW p \in Proc,
         \/ UNCHANGED lockVars \/ \E m \in Modes : Begin(p, m)
         \/ Open(p) \/ CannotOpen(p) \/ Lock(p) \/ FailAttempt(p)
         \/ AbandonStamp(p) \/ Leave(p)
         \/ Unlock(p) \/ Close(p) \/ Remove(p) \/ Die(p)
  PROVE  LockAct(p)
<1> USE DEF ConfigTypeOK, TypeOK, LockAct, Next
<1>1. CASE UNCHANGED lockVars
  BY <1>1 DEF lockVars
<1>2. CASE \E m \in Modes : Begin(p, m)
  BY <1>2 DEF Begin
<1>3. CASE Open(p) \/ Leave(p)
  BY <1>3 DEF Open, Leave, ForgetAttempts
<1>4. CASE Lock(p) \/ FailAttempt(p)
  BY <1>4 DEF Lock, FailAttempt, Retry, ForgetAttempts
<1>7. CASE CannotOpen(p) \/ AbandonStamp(p)
  BY <1>7 DEF CannotOpen, AbandonStamp, Retry, ForgetAttempts
<1>5. CASE Unlock(p) \/ Close(p)
  BY <1>5 DEF Unlock, Close
<1>6. CASE Remove(p) \/ Die(p)
  BY <1>6 DEF Remove, Die, ForgetAttempts
<1> QED
  BY <1>1, <1>2, <1>3, <1>4, <1>5, <1>6, <1>7

\* Its types stay what they are.
LEMMA LockStaysTyped ==
  ASSUME CInv, NEW p \in Proc, LockAct(p)
  PROVE  TypeOK'
BY StepLockInv DEF LockAct, CInv, LockInv

\* In a calm one process at most writes.
LEMMA Exclusive ==
  ASSUME CInv, Calm, NEW p \in Proc, NEW q \in Proc, Active(p), Active(q)
  PROVE  p = q
<1> SUFFICES ASSUME p # q PROVE FALSE
  OBVIOUS
<1>1. Writing(p) /\ Writing(q)
  BY DEF Active, Allowed, Writing
<1>2. task[p] = "saving" /\ task[q] = "saving"
  BY <1>1 DEF CInv, Locked, Calm
<1>3. pc[p] = "held" /\ pc[q] = "held" /\ mode[p] = "EX"
  BY <1>2 DEF Active, Allowed, CInv, InOrder, Asked
<1>4. fd[p] = path /\ fd[q] = path
  BY <1>3 DEF CInv, Calm, LockInv, OpenFileIsThePath, ConfigTypeOK, TypeOK
<1> QED
  BY <1>3, <1>4 DEF CInv, Calm, LockInv, FileExclusion, Held,
                    Shared

\* Who has a file open for writing is active.
LEMMA OpenIsActive ==
  ASSUME CInv, NEW p \in Proc, HasOpen(p)
  PROVE  Active(p)
BY DEF CInv, InOrder, Asked, Active, Allowed, HasOpen, ConfigTypeOK, Writing

-----------------------------------------------------------------------------
(* Values                                                                  *)

\* There is an empty file, and a command that asks for nothing.
LEMMA Blank ==
  Empty \in Settings /\ Sound(Empty) /\ Empty # Torn /\ NoEdit \in Edit /\ NoEdit.op = "none"
<1>1. Empty \in Settings /\ Sound(Empty)
  BY DEF Empty, Settings, Sound
<1>2. (CHOOSE k \in Key : TRUE) \in Key /\ Local \in Node
  BY NamesAssumption DEF NamesAssumption
<1> QED
  BY <1>1, <1>2, FilesAssumption DEF FilesAssumption, NoEdit, Edit

\* Whatever a command makes of two sound files is one: set_default_target() and
\* delete_target_node() pass on the one flag there is.
LEMMA EditedIsSound ==
  ASSUME NEW e \in Edit, e.op # "none",
         NEW a \in Settings, NEW b \in Settings, Sound(a), Sound(b)
  PROVE  Edited(e, a, b) \in Settings /\ Sound(Edited(e, a, b))
<1> USE NamesAssumption DEF NamesAssumption, Settings, Sound
<1>1. e.node \in Node /\ e.key \in Key
  BY DEF Edit
<1>2. ASSUME NEW default \in BOOLEAN
      PROVE  LET t == TargetSaved(a, b, e.node, default) IN t \in Settings /\ Sound(t)
  BY <1>1 DEF TargetSaved, LoadTargets
<1>3. DefaultTarget(b, e.node) \in Settings /\ Sound(DefaultTarget(b, e.node))
  BY <1>1 DEF DefaultTarget
<1>4. TargetDeleted(b, e.node) \in Settings /\ Sound(TargetDeleted(b, e.node))
  <2> DEFINE nodes == b.nodes \ {e.node}
             heir == IF Local \in nodes THEN {Local}
                     ELSE IF nodes # {} THEN {CHOOSE m \in nodes : TRUE} ELSE {}
             flagged == (b.flagged \ {e.node}) \cup (IF e.node \in b.flagged THEN heir ELSE {})
  <2>1. heir \subseteq nodes /\ \A m, n \in heir : m = n
    OBVIOUS
  <2>2. flagged \subseteq nodes /\ \A m, n \in flagged : m = n
    <3>1. CASE e.node \in b.flagged
      <4>1. flagged = heir
        BY <3>1
      <4> QED
        BY <4>1, <2>1
    <3> QED
      BY <3>1
  <2>3. TargetDeleted(b, e.node) = [b EXCEPT !.nodes = nodes, !.flagged = flagged]
    BY DEF TargetDeleted
  <2> HIDE DEF flagged
  <2> QED
    BY <2>2, <2>3
<1>5. ASSUME NEW keys \in SUBSET Key
      PROVE  DefaultSaved(b, keys) \in Settings /\ Sound(DefaultSaved(b, keys))
  BY DEF DefaultSaved
<1>6. UserDefaults(a) \cup {e.key} \in SUBSET Key /\ UserDefaults(a) \ {e.key} \in SUBSET Key
  BY <1>1 DEF UserDefaults
<1>7. ASSUME NEW keys \in SUBSET Key
      PROVE  [b EXCEPT !.root = keys] \in Settings /\ Sound([b EXCEPT !.root = keys])
  OBVIOUS
<1>8. e.op \in {"add", "use", "rm", "default", "undefault", "reset", "set", "unset"}
  BY DEF Edit
<1> HIDE DEF Settings, Sound
<1>9. CASE e.op = "add"
  <2>1. Edited(e, a, b) = TargetSaved(a, b, e.node, e.flag = "yes" \/ e.node \in a.flagged)
    BY <1>9 DEF Edited
  <2> QED
    BY <2>1, <1>2
<1>10. CASE e.op \in {"use", "rm"}
  BY <1>10, <1>3, <1>4 DEF Edited
<1>11. CASE e.op \in {"default", "undefault", "reset"}
  BY <1>11, <1>5, <1>6 DEF Edited
<1>12. CASE e.op \in {"set", "unset"}
  <2>1. b.root \cup {e.key} \in SUBSET Key /\ b.root \ {e.key} \in SUBSET Key
    BY <1>1 DEF Settings
  <2> QED
    BY <1>12, <2>1, <1>7 DEF Edited
<1> QED
  BY <1>8, <1>9, <1>10, <1>11, <1>12

\* What is written is whole and sound.
LEMMA TextIsSound ==
  ASSUME CInv, NEW p \in Proc, HasOpen(p)
  PROVE  Text(p) \in Settings /\ Sound(Text(p)) /\ Text(p) # Torn
<1>1. Saving(p)
  BY DEF CInv, ConfigTypeOK, HasOpen, Writing, Saving
<1>2. edit[p] \in Edit /\ edit[p].op # "none"
  BY <1>1 DEF CInv, ConfigTypeOK, InOrder, Asked
<1>3. first[p] \in Settings /\ second[p] \in Settings /\ Sound(first[p]) /\ Sound(second[p])
  BY DEF CInv, ConfigTypeOK, InOrder, SoundMemory
<1> QED
  BY <1>2, <1>3, EditedIsSound, FilesAssumption DEF FilesAssumption, Text

\* What can be read of a file is whole and sound.
LEMMA ContentIsSound ==
  ASSUME CInv, NEW i \in File
  PROVE  Content(i) \in Settings /\ Sound(Content(i)) /\ (disk[i] # Torn => Content(i) = disk[i])
BY Blank DEF CInv, ConfigTypeOK, SoundFiles, Content

-----------------------------------------------------------------------------
(* Steps that leave the files alone                                        *)

\* A process goes on, alone.
Goes(p) ==
  /\ LockAct(p)
  /\ UNCHANGED fileVars
  /\ mixed' \in BOOLEAN /\ (mixed => mixed')
  /\ \A q \in Proc \ {p} :
       /\ task'[q] = task[q] /\ io'[q] = io[q] /\ edit'[q] = edit[q]
       /\ first'[q] = first[q] /\ second'[q] = second[q]
       /\ out'[q] = out[q] /\ stale'[q] = stale[q]

\* It makes no writer of itself.
NoNewWriter(p) == Writing(p)' => Writing(p) /\ task'[p] = task[p]

\* The others are where they were.
LEMMA OthersKeep ==
  ASSUME CInv, NEW p \in Proc, Goes(p), NEW q \in Proc \ {p}
  PROVE  InOrder(q)'
<1> USE DEF Goes, LockAct, fileVars
<1>1. InOrder(q) /\ (Calm' => Calm) /\ Present' = Present /\ pc'[q] = pc[q] /\ mode'[q] = mode[q]
  BY DEF CInv, Calm, Present
<1>2. Asked(q)'
  BY <1>1 DEF InOrder, Asked, Saving, HasOpen, Loading
<1>3. SoundMemory(q)'
  BY <1>1 DEF InOrder, SoundMemory, Loading
<1>4. WritesTemporary(q)'
  BY <1>1 DEF InOrder, WritesTemporary, HasOpen, Text
<1>5. UpToDate(q)'
  BY <1>1 DEF InOrder, UpToDate, Begun, Saving, Writing
<1> QED
  BY <1>2, <1>3, <1>4, <1>5 DEF InOrder

\* So the process that went is all there is to look at.
LEMMA GoingKeeps ==
  ASSUME CInv, NEW p \in Proc, Goes(p), ConfigTypeOK', InOrder(p)', Locked'
  PROVE  CInv'
<1>1. \A q \in Proc : InOrder(q)'
  BY OthersKeep
<1>2. LockInv'
  BY StepLockInv DEF CInv, Goes, LockAct
<1>3. SoundFiles'
  <2>1. Calm' => Calm
    BY DEF Calm, Goes, LockAct
  <2> QED
    BY <2>1 DEF CInv, SoundFiles, Goes, fileVars, Present
<1> QED
  BY <1>1, <1>2, <1>3 DEF CInv

\* Who does not begin to write writes beside nobody new.
LEMMA NoNewWriterKeeps ==
  ASSUME CInv, NEW p \in Proc, Goes(p), NoNewWriter(p)
  PROVE  Locked'
BY DEF CInv, Locked, Goes, NoNewWriter, Writing

\* The steps on the lock alone.
LEMMA StepLock ==
  ASSUME CInv, NEW p \in Proc, LockStep(p) \/ UnlockStep(p)
  PROVE  CInv'
<1> USE DEF LockStep, UnlockStep, fileVars, taskVars, history
<1>1. LockAct(p)
  BY LockActs DEF CInv
<1>2. Goes(p) /\ NoNewWriter(p)
  BY <1>1 DEF Goes, NoNewWriter, Writing, CInv, ConfigTypeOK
<1>3. TypeOK'
  BY <1>1, LockStaysTyped
<1>4. ConfigTypeOK'
  BY <1>3 DEF CInv, ConfigTypeOK, Writing
<1>5. Asked(p)'
  <2>1. CASE AbandonStamp(p)
    <3>1. mode[p] = "EX" /\ mode' = mode /\ pc'[p] = "closed" /\ pc[p] = "opened"
      BY <2>1 DEF AbandonStamp, CInv, ConfigTypeOK, TypeOK
    <3>2. task[p] = "saving"
      BY <3>1 DEF CInv, InOrder, Asked
    <3> QED
      BY <2>1, <3>1, <3>2 DEF CInv, InOrder, Asked, Saving, HasOpen, Loading, AbandonStamp
  <2>2. CASE ~AbandonStamp(p)
    <3>1. /\ pc'[p] \in {"unlocked", "closed"} => io[p] = "done"
          /\ pc[p] = "held" => pc'[p] = "held" \/ io[p] = "done"
          /\ mode' = mode /\ pc[p] # "idle"
      BY <2>2 DEF Open, CannotOpen, Lock, FailAttempt, Retry, Unlock, Close, CInv,
                  ConfigTypeOK, TypeOK
    <3> QED
      BY <3>1 DEF CInv, InOrder, Asked, Saving, HasOpen, Loading
  <2> QED
    BY <2>1, <2>2
<1>6. Present' = Present /\ (Calm' => Calm)
  BY <1>2 DEF Goes, LockAct, Present, Calm
<1>7. SoundMemory(p)' /\ WritesTemporary(p)' /\ UpToDate(p)'
  BY <1>6 DEF CInv, InOrder, SoundMemory, WritesTemporary, UpToDate, Loading, HasOpen, Text,
              Begun, Saving, Writing
<1> QED
  BY <1>2, <1>4, <1>5, <1>7, GoingKeeps, NoNewWriterKeeps DEF InOrder

\* A command that is over asks for nothing and remembers nothing.
LEMMA ForgetKeeps ==
  ASSUME CInv, NEW p \in Proc, LockAct(p), pc'[p] = "idle", Forget(p),
         UNCHANGED <<fileVars, history>>
  PROVE  CInv'
<1> USE DEF Forget, fileVars, history
<1>1. /\ task'[p] = "none" /\ io'[p] = "todo" /\ edit'[p] = NoEdit
      /\ first'[p] = Empty /\ second'[p] = Empty
  BY DEF CInv, ConfigTypeOK
<1>2. Goes(p) /\ NoNewWriter(p)
  BY <1>1 DEF Goes, NoNewWriter, Writing, CInv, ConfigTypeOK
<1>3. ConfigTypeOK'
  <2>1. /\ task' \in [Proc -> {"none", "starting", "started", "loading", "loaded",
                              "read", "saving", "overwriting"}]
        /\ io' \in [Proc -> {"todo", "opened", "written", "done"}]
        /\ edit' \in [Proc -> Edit]
        /\ first' \in [Proc -> Settings] /\ second' \in [Proc -> Settings]
        /\ out' \in [Proc -> File \cup {NoFile}] /\ stale' \in [Proc -> BOOLEAN]
    BY Blank DEF CInv, ConfigTypeOK
  <2>2. \A q \in Proc : io'[q] \in {"opened", "written"} => out'[q] # NoFile /\ Writing(q)'
    BY <1>1 DEF CInv, ConfigTypeOK, Writing
  <2> QED
    BY <2>1, <2>2, LockStaysTyped DEF CInv, ConfigTypeOK
<1>4. InOrder(p)'
  BY <1>1, Blank DEF InOrder, Asked, Saving, HasOpen, SoundMemory, Loading, WritesTemporary,
                     UpToDate, Begun, Writing
<1> QED
  BY <1>2, <1>3, <1>4, GoingKeeps, NoNewWriterKeeps

\* A reset of all defaults goes on with what it has in memory: the file may lack
\* some of its saves, but of nothing else.
LEMMA ResetNextKeeps ==
  ASSUME CInv, NEW p \in Proc, LockAct(p), pc'[p] = "idle", ResetNext(p),
         task[p] = "saving", ToReset(p) # {}, UNCHANGED <<fileVars, history>>
  PROVE  CInv'
<1> DEFINE next == [first[p] EXCEPT !.blocked = TRUE,
                                    !.block = UserDefaults(first[p]) \ {edit[p].key}]
<1> USE DEF ResetNext, fileVars, history
<1>1. edit[p].op = "reset" /\ edit[p].key \in Convention
  BY DEF ToReset, CInv, InOrder, Asked
<1>2. first[p] \in Settings /\ Sound(first[p])
  BY DEF CInv, ConfigTypeOK, InOrder, SoundMemory
<1>3. next \in Settings /\ Sound(next)
  BY <1>2 DEF Settings, Sound, UserDefaults
<1>4. /\ next.nodes = first[p].nodes /\ next.flagged = first[p].flagged
      /\ next.root = first[p].root
      /\ UserDefaults(next) = UserDefaults(first[p]) \ {edit[p].key}
  BY <1>2 DEF Settings, UserDefaults
<1>5. first' = [first EXCEPT ![p] = next]
  OBVIOUS
<1> HIDE DEF next
<1>6. /\ task'[p] = "started" /\ io'[p] = "todo" /\ edit' = edit /\ second' = second
      /\ stale' = stale /\ first'[p] = next
  BY <1>5 DEF CInv, ConfigTypeOK
<1>7. Goes(p) /\ NoNewWriter(p)
  BY <1>5, <1>6 DEF Goes, NoNewWriter, Writing, CInv, ConfigTypeOK
<1>8. ConfigTypeOK'
  <2>1. /\ task' \in [Proc -> {"none", "starting", "started", "loading", "loaded",
                              "read", "saving", "overwriting"}]
        /\ io' \in [Proc -> {"todo", "opened", "written", "done"}]
        /\ first' \in [Proc -> Settings] /\ out' \in [Proc -> File \cup {NoFile}]
    BY <1>3, <1>5 DEF CInv, ConfigTypeOK
  <2>2. \A q \in Proc : io'[q] \in {"opened", "written"} => out'[q] # NoFile /\ Writing(q)'
    BY <1>6 DEF CInv, ConfigTypeOK, Writing
  <2> QED
    BY <1>6, <2>1, <2>2, LockStaysTyped DEF CInv, ConfigTypeOK
<1>9. Asked(p)'
  BY <1>1, <1>6 DEF Asked, Saving, HasOpen, Loading
<1>10. SoundMemory(p)'
  <2>1. config # NoFile
    BY DEF CInv, InOrder, SoundMemory, ToReset, UserDefaults, Empty
  <2> QED
    BY <1>3, <1>6, <2>1 DEF CInv, InOrder, SoundMemory, Loading
<1>11. WritesTemporary(p)' /\ UpToDate(p)'
  <2>1. Present' = Present /\ (Calm' => Calm)
    BY <1>7 DEF Goes, LockAct, Present, Calm
  <2>2. Begun(p) /\ (Calm /\ ~stale[p] => Alike(first[p], Present))
    BY <1>1 DEF Begun, CInv, InOrder, UpToDate
  <2>3. Calm /\ ~stale[p] => Alike(next, Present)
    BY <1>1, <1>4, <2>2 DEF Alike
  <2> QED
    BY <1>1, <1>6, <2>1, <2>3 DEF WritesTemporary, HasOpen, UpToDate, Writing, Saving
<1> QED
  BY <1>7, <1>8, <1>9, <1>10, <1>11, GoingKeeps, NoNewWriterKeeps DEF InOrder

\* After a save, whether it got the lock or not.
LEMMA SavedKeeps ==
  ASSUME CInv, NEW p \in Proc, LockAct(p), pc'[p] = "idle", Saved(p),
         task[p] = "saving", UNCHANGED <<fileVars, history>>
  PROVE  CInv'
BY ForgetKeeps, ResetNextKeeps DEF Saved

\* A load that has read the file, or could not get the lock and says so.
LEMMA LoadedKeeps ==
  ASSUME CInv, NEW p \in Proc, NEW refused \in BOOLEAN,
         LockAct(p), pc'[p] = "idle", Loading(p), Loaded(p, refused),
         refused \/ io[p] = "done", UNCHANGED <<fileVars, history>>
  PROVE  CInv'
<1> USE DEF Loading, Loaded, fileVars, history
<1>1. /\ task'[p] = IF task[p] = "starting" THEN "started" ELSE "loaded"
      /\ io'[p] = "todo" /\ stale'[p] = (stale[p] \/ refused)
      /\ edit' = edit /\ first' = first /\ second' = second /\ out' = out
  BY DEF CInv, ConfigTypeOK
<1>2. Goes(p) /\ NoNewWriter(p)
  BY <1>1 DEF Goes, NoNewWriter, Writing, CInv, ConfigTypeOK
<1>3. ConfigTypeOK'
  <2>1. stale[p] \/ refused \in BOOLEAN
    BY DEF CInv, ConfigTypeOK
  <2>2. stale' \in [Proc -> BOOLEAN]
    BY <2>1 DEF CInv, ConfigTypeOK
  <2>3. /\ task' \in [Proc -> {"none", "starting", "started", "loading", "loaded",
                              "read", "saving", "overwriting"}]
        /\ io' \in [Proc -> {"todo", "opened", "written", "done"}]
    BY DEF CInv, ConfigTypeOK
  <2>4. \A q \in Proc : io'[q] \in {"opened", "written"} => out'[q] # NoFile /\ Writing(q)'
    BY DEF CInv, ConfigTypeOK, Writing
  <2> QED
    BY <1>1, <2>2, <2>3, <2>4, LockStaysTyped DEF CInv, ConfigTypeOK
<1>4. Asked(p)'
  BY <1>1 DEF CInv, InOrder, Asked, Saving, HasOpen, Loading
<1>5. SoundMemory(p)'
  BY <1>1 DEF CInv, InOrder, SoundMemory
<1>6. WritesTemporary(p)' /\ UpToDate(p)'
  <2>1. Present' = Present /\ (Calm' => Calm)
    BY <1>2 DEF Goes, LockAct, Present, Calm
  <2>2. ASSUME Calm, ~stale[p], ~refused
        PROVE  /\ edit[p].op = "reset" => Alike(first[p], Present)
               /\ edit[p].op # "reset" => first[p] = Present
               /\ task[p] = "loading" => second[p] = Present
    BY <2>2 DEF CInv, InOrder, UpToDate, Begun, Saving
  <2>3. WritesTemporary(p)'
    BY <1>1 DEF WritesTemporary, HasOpen
  <2>4. ~stale'[p] => ~stale[p] /\ ~refused
    BY <1>1
  <2>5. /\ task'[p] = IF task[p] = "starting" THEN "started" ELSE "loaded"
        /\ edit' = edit /\ first' = first /\ second' = second
    BY <1>1
  <2>6. ~Saving(p)' /\ ~Writing(p)'
    BY <2>5 DEF Saving, Writing
  <2>7. Alike(first[p], Present)' <=> Alike(first[p], Present)
    BY <2>1, <2>5 DEF Alike
  <2>8. UpToDate(p)'
    BY <2>1, <2>2, <2>4, <2>5, <2>6, <2>7 DEF UpToDate
  <2> QED
    BY <2>3, <2>8
<1> QED
  BY <1>2, <1>3, <1>4, <1>5, <1>6, GoingKeeps, NoNewWriterKeeps DEF InOrder

\* The end of an acquisition that is over or was refused.
LEMMA StepLeave ==
  ASSUME CInv, NEW p \in Proc, RemoveLock(p) \/ LoadNothing(p) \/ SaveNothing(p)
  PROVE  CInv'
<1>1. LockAct(p) /\ pc'[p] = "idle"
  <2>1. Remove(p) \/ Leave(p)
    BY DEF RemoveLock, LoadNothing, SaveNothing
  <2> QED
    BY <2>1, LockActs DEF CInv, Remove, Leave, ConfigTypeOK, TypeOK
<1>2. CASE RemoveLock(p) /\ Loading(p)
  <2>1. io[p] = "done"
    BY <1>2 DEF RemoveLock, Remove, CInv, InOrder, Asked, Loading
  <2> QED
    BY <1>1, <1>2, <2>1, LoadedKeeps DEF RemoveLock
<1>3. CASE RemoveLock(p) /\ ~Loading(p)
  <2>1. task[p] = "saving"
    BY <1>3 DEF RemoveLock, Remove, CInv, InOrder, Asked
  <2> QED
    BY <1>1, <1>3, <2>1, SavedKeeps DEF RemoveLock
<1>4. CASE LoadNothing(p)
  BY <1>1, <1>4, LoadedKeeps DEF LoadNothing
<1>5. CASE SaveNothing(p)
  BY <1>1, <1>5, SavedKeeps DEF SaveNothing
<1> QED
  BY <1>2, <1>3, <1>4, <1>5 DEF RemoveLock

\* The end of a command, and kill -9.
LEMMA StepEnd ==
  ASSUME CInv, NEW p \in Proc, End(p) \/ Kill(p)
  PROVE  CInv'
<1>1. LockAct(p) /\ pc'[p] = "idle"
  <2>1. \/ Die(p)
        \/ UNCHANGED lockVars /\ pc[p] = "idle"
    BY DEF End, Kill
  <2> QED
    BY <2>1, LockActs DEF CInv, Die, ConfigTypeOK, TypeOK, lockVars
<1> QED
  BY <1>1, ForgetKeeps DEF End, Kill

\* What a process asks of ~/.ldmrc before the lock: is there such a file?
LEMMA StepLoad ==
  ASSUME CInv, NEW p \in Proc, StartCommand(p) \/ LoadAgain(p)
  PROVE  CInv'
<1> USE DEF StartCommand, LoadAgain, Load, fileVars
<1>1. /\ io' = io /\ edit' = edit /\ first' = first /\ second' = second /\ out' = out
      /\ stale' = stale /\ mixed' = mixed
      /\ io[p] = "todo" /\ pc[p] = "idle" /\ task[p] \in {"none", "started"}
  BY DEF CInv, InOrder, Asked
<1>2. LockAct(p)
  <2>1. UNCHANGED lockVars \/ Begin(p, "SH")
    OBVIOUS
  <2> QED
    BY <2>1, LockActs, BothModesAssumption DEF BothModesAssumption, CInv
<1>3. \/ /\ config = NoFile /\ pc'[p] = "idle"
         /\ task'[p] = IF task[p] = "none" THEN "started" ELSE "loaded"
      \/ /\ config # NoFile /\ pc'[p] = "acquiring" /\ mode'[p] = "SH"
         /\ task'[p] = IF task[p] = "none" THEN "starting" ELSE "loading"
  BY <1>1 DEF CInv, ConfigTypeOK, TypeOK, Begin, lockVars
<1>4. Goes(p) /\ NoNewWriter(p)
  BY <1>1, <1>2, <1>3 DEF Goes, NoNewWriter, Writing, CInv, ConfigTypeOK
<1>5. ConfigTypeOK'
  <2>1. task' \in [Proc -> {"none", "starting", "started", "loading", "loaded",
                           "read", "saving", "overwriting"}]
    BY DEF CInv, ConfigTypeOK
  <2>2. begun' \in 0..Commands
    BY CommandsAssumption DEF CommandsAssumption, CInv, ConfigTypeOK
  <2>3. \A q \in Proc : io'[q] \in {"opened", "written"} => out'[q] # NoFile /\ Writing(q)'
    BY <1>1, <1>3 DEF CInv, ConfigTypeOK, Writing
  <2> QED
    BY <1>1, <1>2, <2>1, <2>2, <2>3, LockStaysTyped DEF CInv, ConfigTypeOK
<1>6. Asked(p)'
  BY <1>1, <1>3 DEF CInv, InOrder, Asked, Saving, HasOpen, Loading
<1>7. SoundMemory(p)'
  BY <1>1, <1>3 DEF CInv, InOrder, SoundMemory, Loading
<1>8. Present' = Present /\ (Calm' => Calm)
  BY <1>4 DEF Goes, LockAct, Present, Calm
<1>9. WritesTemporary(p)'
  BY <1>1 DEF WritesTemporary, HasOpen
<1>10. UpToDate(p)'
  <2>1. CASE task[p] = "none"
    <3>1. edit[p] = NoEdit
      BY <2>1 DEF CInv, InOrder, Asked, Saving
    <3>2. config = NoFile => first[p] = Present
      BY DEF CInv, InOrder, SoundMemory, Present
    <3> QED
      BY <1>1, <1>3, <1>8, <2>1, <3>1, <3>2, Blank DEF UpToDate, Begun, Saving, Writing
  <2>2. CASE task[p] = "started"
    <3>1. config = NoFile => second[p] = Present
      BY DEF CInv, InOrder, SoundMemory, Present
    <3>2. Calm /\ ~stale[p] =>
            /\ edit[p].op = "reset" => Alike(first[p], Present)
            /\ edit[p].op # "reset" => first[p] = Present
      BY <2>2 DEF CInv, InOrder, UpToDate, Begun, Saving
    <3>3. Alike(first[p], Present)' <=> Alike(first[p], Present)
      BY <1>1, <1>8 DEF Alike
    <3> QED
      BY <1>1, <1>3, <1>8, <2>2, <3>1, <3>2, <3>3 DEF UpToDate, Begun, Saving, Writing
  <2> QED
    BY <1>1, <2>1, <2>2
<1> QED
  BY <1>4, <1>5, <1>6, <1>7, <1>9, <1>10, GoingKeeps, NoNewWriterKeeps DEF InOrder

\* Under the lock, and by `ldm config` without.
LEMMA StepRead ==
  ASSUME CInv, NEW p \in Proc, Read(p) \/ ReadUnlocked(p)
  PROVE  CInv'
<1> USE DEF Read, ReadUnlocked, fileVars, history
<1> DEFINE seen == IF config = NoFile THEN Empty ELSE Content(config)
           torn == config # NoFile /\ disk[config] = Torn
<1>1. seen \in Settings /\ Sound(seen) /\ (~torn => seen = Present)
  BY Blank, ContentIsSound DEF CInv, ConfigTypeOK, Present
<1>2. config = NoFile => seen = Empty
  OBVIOUS
<1>3. /\ edit' = edit /\ out' = out /\ stale' = [stale EXCEPT ![p] = stale[p] \/ torn]
      /\ \/ /\ task[p] = "starting" /\ task' = task /\ io' = [io EXCEPT ![p] = "done"]
            /\ first' = [first EXCEPT ![p] = seen] /\ second' = second
         \/ /\ task[p] = "loading" /\ task' = task /\ io' = [io EXCEPT ![p] = "done"]
            /\ second' = [second EXCEPT ![p] = seen] /\ first' = first
         \/ /\ task[p] = "started" /\ task' = [task EXCEPT ![p] = "read"] /\ io' = io
            /\ second' = [second EXCEPT ![p] = seen] /\ first' = first
            /\ edit[p] = NoEdit
  BY DEF CInv, InOrder, SoundMemory, Loading
<1>4. LockAct(p) /\ UNCHANGED lockVars
  BY LockActs DEF CInv
<1> HIDE DEF seen
<1>5. ~stale'[p] => ~stale[p] /\ ~torn
  BY <1>3 DEF CInv, ConfigTypeOK
<1> HIDE DEF torn
<1>6. Goes(p) /\ NoNewWriter(p)
  BY <1>3, <1>4 DEF Goes, NoNewWriter, Writing, CInv, ConfigTypeOK
<1>7. ConfigTypeOK'
  <2>1. first' \in [Proc -> Settings] /\ second' \in [Proc -> Settings]
    BY <1>1, <1>3 DEF CInv, ConfigTypeOK
  <2>2. torn \in BOOLEAN /\ stale[p] \in BOOLEAN
    BY DEF CInv, ConfigTypeOK, torn
  <2>3. stale' \in [Proc -> BOOLEAN]
    BY <1>3, <2>2 DEF CInv, ConfigTypeOK
  <2>4. /\ task' \in [Proc -> {"none", "starting", "started", "loading", "loaded",
                              "read", "saving", "overwriting"}]
        /\ io' \in [Proc -> {"todo", "opened", "written", "done"}]
    BY <1>3 DEF CInv, ConfigTypeOK
  <2>5. \A q \in Proc : io'[q] \in {"opened", "written"} => out'[q] # NoFile /\ Writing(q)'
    BY <1>3 DEF CInv, ConfigTypeOK, Writing
  <2> QED
    BY <1>3, <1>4, <2>1, <2>3, <2>4, <2>5, LockStaysTyped DEF CInv, ConfigTypeOK
<1>8. Asked(p)'
  <2>1. pc' = pc /\ edit' = edit /\ mode' = mode
    BY <1>3, <1>4 DEF lockVars
  <2>2. CASE task[p] \in {"starting", "loading"}
    <3>1. task' = task /\ io'[p] = "done"
      BY <1>3, <2>2 DEF CInv, ConfigTypeOK
    <3> QED
      BY <2>1, <2>2, <3>1 DEF CInv, InOrder, Asked, Saving, HasOpen, Loading
  <2>3. CASE task[p] = "started"
    <3>1. task'[p] = "read" /\ io' = io /\ edit[p] = NoEdit
      BY <1>3, <2>3 DEF CInv, ConfigTypeOK
    <3> QED
      BY <2>1, <2>3, <3>1, Blank DEF CInv, InOrder, Asked, Saving, HasOpen, Loading
  <2> QED
    BY <1>3, <2>2, <2>3
<1>9. SoundMemory(p)'
  BY <1>1, <1>2, <1>3 DEF CInv, InOrder, SoundMemory, Loading, ConfigTypeOK
<1>10. WritesTemporary(p)'
  BY <1>3 DEF CInv, ConfigTypeOK, WritesTemporary, HasOpen, Writing
<1>11. UpToDate(p)'
  <2>1. Present' = Present /\ (Calm' => Calm)
    BY <1>6 DEF Goes, LockAct, Present, Calm
  <2>2. CASE task[p] = "starting"
    <3>1. edit[p].op # "reset"
      BY <2>2 DEF CInv, InOrder, Asked
    <3>2. first'[p] = seen /\ task'[p] = "starting"
      BY <1>3, <2>2 DEF CInv, ConfigTypeOK
    <3> QED
      BY <1>1, <1>3, <1>5, <2>1, <3>1, <3>2 DEF UpToDate, Writing
  <2>3. CASE task[p] \in {"loading", "started"}
    <3>1. /\ second'[p] = seen /\ first' = first /\ ~Saving(p)' /\ ~Writing(p)'
      BY <1>3, <2>3 DEF CInv, ConfigTypeOK, Saving, Writing
    <3>2. Calm /\ ~stale[p] =>
            /\ edit[p].op = "reset" => Alike(first[p], Present)
            /\ edit[p].op # "reset" => first[p] = Present
      BY <2>3 DEF CInv, InOrder, UpToDate, Begun, Saving
    <3>3. Alike(first[p], Present)' <=> Alike(first[p], Present)
      BY <2>1, <3>1 DEF Alike
    <3> QED
      BY <1>1, <1>3, <1>5, <2>1, <3>1, <3>2, <3>3 DEF UpToDate
  <2> QED
    BY <1>3, <2>2, <2>3
<1> QED
  BY <1>6, <1>7, <1>8, <1>9, <1>10, <1>11, GoingKeeps, NoNewWriterKeeps DEF InOrder

\* Who begins to write beside another has the lock, or makes it a mixture.
LEMMA NewWriterKeeps ==
  ASSUME CInv, NEW p \in Proc, Goes(p), task'[p] \in {"saving", "overwriting"},
         mixed' = (mixed \/ Mixes(p, task'[p]))
  PROVE  Locked'
<1> SUFFICES ASSUME ~mixed', NEW q \in Proc, NEW r \in Proc, q # r, Writing(q)', Writing(r)'
             PROVE  task'[q] = "saving" /\ task'[r] = "saving"
  BY DEF Locked
<1>1. ~mixed /\ ~Mixes(p, task'[p])
  OBVIOUS
<1>2. \A t \in Proc \ {p} : task'[t] = task[t] /\ (Writing(t)' <=> Writing(t))
  BY DEF Goes, Writing
<1>3. \A t \in Proc \ {p} : Writing(t) => task[t] = "saving" /\ task'[p] = "saving"
  BY <1>1 DEF Mixes, Writing
<1>4. CASE q # p /\ r # p
  BY <1>1, <1>2, <1>4 DEF CInv, Locked
<1> QED
  BY <1>2, <1>3, <1>4

\* A command is told what to change, and asks for the lock -- `ldm config` does
\* not.
LEMMA StepBegin ==
  ASSUME CInv, NEW p \in Proc, NEW e \in Edit, e.op # "none",
         e.op = "reset" => e.key \in Convention,
         \/ Save(p, e)
         \/ /\ task[p] = "read" /\ task' = [task EXCEPT ![p] = "overwriting"]
            /\ e.op # "reset"
            /\ edit' = [edit EXCEPT ![p] = e]
            /\ mixed' = (mixed \/ Mixes(p, "overwriting"))
            /\ UNCHANGED <<lockVars, fileVars, io, first, second, out, stale, begun>>
  PROVE  CInv'
<1> USE DEF Save, fileVars
<1>1. /\ task[p] \in {"loaded", "read"} /\ io[p] = "todo"
      /\ task'[p] = IF task[p] = "loaded" THEN "saving" ELSE "overwriting"
      /\ edit'[p] = e
      /\ io' = io /\ first' = first /\ second' = second /\ out' = out /\ stale' = stale
      /\ begun' = begun /\ mixed' = (mixed \/ Mixes(p, task'[p]))
  BY DEF CInv, InOrder, Asked, ConfigTypeOK
<1>2. LockAct(p)
  <2>1. UNCHANGED lockVars \/ Begin(p, "EX")
    OBVIOUS
  <2> QED
    BY <2>1, LockActs, BothModesAssumption DEF BothModesAssumption, CInv
<1>3. mixed' \in BOOLEAN /\ (mixed => mixed')
  BY <1>1 DEF Mixes, CInv, ConfigTypeOK
<1>4. Goes(p)
  BY <1>2, <1>3 DEF Goes, CInv, ConfigTypeOK
<1>5. Locked'
  BY <1>1, <1>4, NewWriterKeeps
<1>6. ConfigTypeOK'
  <2>1. /\ task' \in [Proc -> {"none", "starting", "started", "loading", "loaded",
                              "read", "saving", "overwriting"}]
        /\ edit' \in [Proc -> Edit]
    BY DEF CInv, ConfigTypeOK
  <2>2. \A q \in Proc : io'[q] \in {"opened", "written"} => out'[q] # NoFile /\ Writing(q)'
    BY <1>1 DEF CInv, ConfigTypeOK, Writing
  <2> QED
    BY <1>1, <1>2, <1>3, <2>1, <2>2, LockStaysTyped DEF CInv, ConfigTypeOK
<1>7. Asked(p)'
  <2>1. task[p] = "loaded" => pc'[p] = "acquiring" /\ mode'[p] = "EX"
    BY DEF CInv, ConfigTypeOK, TypeOK, Begin
  <2>2. task[p] = "read" => pc' = pc
    BY DEF lockVars
  <2> QED
    BY <1>1, <2>1, <2>2 DEF CInv, InOrder, Asked, Saving, HasOpen, Loading
<1>8. SoundMemory(p)'
  BY <1>1 DEF CInv, InOrder, SoundMemory, Loading
<1>9. WritesTemporary(p)'
  BY <1>1 DEF WritesTemporary, HasOpen
<1>10. UpToDate(p)'
  <2>1. Present' = Present /\ (Calm' => Calm)
    BY <1>4 DEF Goes, LockAct, Present, Calm
  <2>2. Calm /\ ~stale[p] =>
          /\ second[p] = Present
          /\ edit[p].op = "reset" => Alike(first[p], Present)
          /\ edit[p].op # "reset" => first[p] = Present
    BY <1>1 DEF CInv, InOrder, UpToDate, Begun, Saving
  <2>3. edit[p].op = "reset" => e.op = "reset"
    BY Blank DEF CInv, InOrder, Asked
  <2>4. Alike(first[p], Present)' <=> Alike(first[p], Present)
    BY <1>1, <2>1 DEF Alike
  <2>5. first[p] = Present => Alike(first[p], Present)
    BY DEF Alike
  <2> QED
    BY <1>1, <2>1, <2>2, <2>3, <2>4, <2>5 DEF UpToDate
<1> QED
  BY <1>4, <1>5, <1>6, <1>7, <1>8, <1>9, <1>10, GoingKeeps DEF InOrder

\* All commands that change something.
LEMMA StepCommand ==
  ASSUME CInv, NEW p \in Proc, Command(p)
  PROVE  CInv'
<1> DEFINE ops == {"none", "add", "use", "rm", "default", "undefault", "reset", "set", "unset"}
<1> USE NamesAssumption DEF NamesAssumption
<1>1. /\ NoEdit = [op |-> "none", node |-> NoEdit.node, flag |-> "kept", key |-> NoEdit.key]
      /\ NoEdit.node \in Node /\ NoEdit.key \in Key
  BY Blank DEF Edit, NoEdit
<1>0. ASSUME NEW op \in ops, NEW n \in Node, NEW k \in Key
      PROVE  /\ [NoEdit EXCEPT !.op = op, !.node = n] \in Edit
             /\ [NoEdit EXCEPT !.op = op, !.node = n].op = op
             /\ [NoEdit EXCEPT !.op = op, !.key = k] \in Edit
             /\ [NoEdit EXCEPT !.op = op, !.key = k].op = op
             /\ [NoEdit EXCEPT !.op = op, !.key = k].key = k
  <2> DEFINE e == [NoEdit EXCEPT !.op = op, !.node = n]
             f == [NoEdit EXCEPT !.op = op, !.key = k]
  <2>1. /\ e = [x \in {"op", "node", "flag", "key"} |->
                  IF x = "op" THEN op ELSE IF x = "node" THEN n ELSE NoEdit[x]]
        /\ f = [x \in {"op", "node", "flag", "key"} |->
                  IF x = "op" THEN op ELSE IF x = "key" THEN k ELSE NoEdit[x]]
    BY <1>1
  <2> QED
    BY <1>1, <2>1 DEF Edit
<1>2. ASSUME NEW n \in Node, NEW flag \in {"yes", "kept"}, AddTarget(p, n, flag)
      PROVE  CInv'
  <2> DEFINE e == [NoEdit EXCEPT !.op = "add", !.node = n, !.flag = flag]
  <2>1. e \in Edit /\ e.op = "add"
    BY <1>1 DEF Edit
  <2>2. Save(p, e)
    BY <1>2 DEF AddTarget
  <2> QED
    BY <2>1, <2>2, StepBegin
<1>3. ASSUME NEW n \in Node, UseTarget(p, n) \/ RemoveTarget(p, n)
      PROVE  CInv'
  <2>1. PICK op \in {"use", "rm"} : Save(p, [NoEdit EXCEPT !.op = op, !.node = n])
    BY <1>3 DEF UseTarget, RemoveTarget
  <2> DEFINE e == [NoEdit EXCEPT !.op = op, !.node = n]
  <2>2. e \in Edit /\ e.op = op
    <3>1. op \in ops
      OBVIOUS
    <3> QED
      BY <1>0, <3>1, <1>1
  <2> QED
    BY <2>1, <2>2, StepBegin
<1>4. ASSUME NEW k \in Convention, SetDefault(p, k) \/ UnsetDefault(p, k) \/ ResetDefault(p, k)
      PROVE  CInv'
  <2>1. PICK op \in {"default", "undefault", "reset"} :
          Save(p, [NoEdit EXCEPT !.op = op, !.key = k])
    BY <1>4 DEF SetDefault, UnsetDefault, ResetDefault
  <2> DEFINE e == [NoEdit EXCEPT !.op = op, !.key = k]
  <2>2. e \in Edit /\ e.op = op /\ e.key = k
    <3>1. op \in ops /\ k \in Key
      OBVIOUS
    <3> QED
      BY <1>0, <3>1, <1>1
  <2> QED
    BY <2>1, <2>2, StepBegin
<1>5. ASSUME NEW k \in Key \ Convention, NEW op \in {"set", "unset"}, Configure(p, op, k)
      PROVE  CInv'
  <2> DEFINE e == [NoEdit EXCEPT !.op = op, !.key = k]
  <2>1. e \in Edit /\ e.op = op
    <3>1. op \in ops
      OBVIOUS
    <3> QED
      BY <1>0, <3>1, <1>1
  <2>2. /\ task[p] = "read" /\ task' = [task EXCEPT ![p] = "overwriting"]
        /\ edit' = [edit EXCEPT ![p] = e]
        /\ mixed' = (mixed \/ Mixes(p, "overwriting"))
        /\ UNCHANGED <<lockVars, fileVars, io, first, second, out, stale, begun>>
    BY <1>5 DEF Configure
  <2> HIDE DEF e
  <2> QED
    BY <2>1, <2>2, StepBegin
<1> QED
  BY <1>2, <1>3, <1>4, <1>5 DEF Command

-----------------------------------------------------------------------------
(* Steps on the files                                                      *)

\* A process writes, alone if it is calm.
Works(p) ==
  /\ UNCHANGED <<lockVars, task, edit, first, second, history>>
  /\ \A q \in Proc \ {p} : io'[q] = io[q] /\ out'[q] = out[q]
  /\ \A q \in Proc \ {p} : stale[q] => stale'[q]
  /\ stale'[p] = stale[p]
  /\ Active(p)
  /\ config' # NoFile \/ config' = config

\* What a writer leaves to the others.  In a calm no other has a file open, and
\* those that are under way are told of a new ~/.ldmrc.
LEMMA OthersWhileWriting ==
  ASSUME CInv, NEW p \in Proc, Works(p), NEW q \in Proc \ {p},
         Calm => Present' = Present \/ task[q] = "none" \/ stale'[q]
  PROVE  InOrder(q)'
<1> USE DEF Works, history, lockVars
<1>1. InOrder(q) /\ Calm' = Calm
  BY DEF CInv, Calm
<1>2. Asked(q)'
  BY <1>1 DEF InOrder, Asked, Saving, HasOpen, Loading
<1>3. SoundMemory(q)'
  BY <1>1 DEF InOrder, SoundMemory, Loading
<1>4. WritesTemporary(q)'
  BY <1>1, Exclusive, OpenIsActive DEF WritesTemporary, HasOpen
<1>5. UpToDate(q)'
  <2>1. CASE Calm /\ ~stale'[q] /\ task[q] # "none"
    BY <1>1, <2>1 DEF InOrder, UpToDate, Begun, Saving, Writing, Alike
  <2>2. CASE task[q] = "none"
    BY <2>2 DEF UpToDate, Begun, Writing, Saving
  <2> QED
    BY <1>1, <2>1, <2>2 DEF UpToDate
<1> QED
  BY <1>2, <1>3, <1>4, <1>5 DEF InOrder

\* What is left to see to when a process has written.
LEMMA WritingKeeps ==
  ASSUME CInv, NEW p \in Proc, Works(p), io'[p] \in {"opened", "written", "done"},
         disk' \in [File -> Settings \cup {Torn}],
         {config', temp'} \subseteq File \cup {NoFile},
         io' \in [Proc -> {"todo", "opened", "written", "done"}],
         out' \in [Proc -> File \cup {NoFile}], stale' \in [Proc -> BOOLEAN],
         io'[p] # "done" => out'[p] # NoFile,
         SoundFiles', WritesTemporary(p)', UpToDate(p)',
         \A q \in Proc \ {p} : Calm => Present' = Present \/ task[q] = "none" \/ stale'[q]
  PROVE  CInv'
<1> USE DEF Works, history, lockVars
<1>1. Writing(p) /\ io[p] # "done"
  BY DEF Active, Allowed, Writing
<1>2. \A q \in Proc : Writing(q)' => Writing(q)
  BY <1>1 DEF Writing
<1>3. Locked'
  BY <1>2 DEF CInv, Locked
<1>4. LockAct(p)
  BY LockActs DEF CInv
<1>5. ConfigTypeOK'
  <2>1. \A q \in Proc : io'[q] \in {"opened", "written"} => out'[q] # NoFile /\ Writing(q)'
    BY <1>1 DEF CInv, ConfigTypeOK, Writing
  <2> QED
    BY <1>4, <2>1, LockStaysTyped DEF CInv, ConfigTypeOK
<1>6. InOrder(p)'
  <2>1. Asked(p)'
    <3>1. pc[p] \in {"idle", "held"} /\ (task[p] = "saving" => pc[p] = "held")
      BY <1>1 DEF Active, Allowed, CInv, InOrder, Asked, Loading
    <3>2. task[p] \in {"saving", "overwriting"}
      BY <1>1 DEF Writing
    <3> QED
      BY <3>1, <3>2 DEF CInv, InOrder, Asked, Saving, HasOpen, Loading
  <2>2. SoundMemory(p)'
    BY DEF CInv, InOrder, SoundMemory, Loading
  <2> QED
    BY <2>1, <2>2 DEF InOrder
<1>7. \A q \in Proc : InOrder(q)'
  BY <1>6, OthersWhileWriting
<1>8. LockInv'
  BY <1>4, StepLockInv DEF CInv, LockAct
<1> QED
  BY <1>3, <1>5, <1>7, <1>8 DEF CInv

\* os.open() takes the file that is at ~/.ldmrc.tmp, or a new one.
LEMMA StepOpenTemp ==
  ASSUME CInv, NEW p \in Proc, OpenTemp(p)
  PROVE  CInv'
<1> USE DEF OpenTemp
<1>1. PICK i \in File :
        /\ IF temp = NoFile THEN Unused(i) ELSE i = temp
        /\ temp' = i /\ out' = [out EXCEPT ![p] = i] /\ disk' = [disk EXCEPT ![i] = Torn]
  OBVIOUS
<1>2. i # config /\ i # NoFile
  BY <1>1, FilesAssumption DEF FilesAssumption, CInv, SoundFiles, Unused
<1>3. io'[p] = "opened" /\ out'[p] = i /\ disk'[i] = Torn /\ stale' = stale
  BY <1>1 DEF CInv, ConfigTypeOK
<1>4. Works(p)
  BY <1>1, <1>3 DEF Works, Active, CInv, ConfigTypeOK
<1>5. Present' = Present
  BY <1>1, <1>2 DEF Present, CInv, ConfigTypeOK
<1>6. SoundFiles'
  BY <1>1, <1>2, <1>5 DEF CInv, SoundFiles, ConfigTypeOK, Calm, lockVars, history
<1>7. WritesTemporary(p)'
  BY <1>1, <1>3 DEF WritesTemporary
<1>8. UpToDate(p)'
  BY <1>3, <1>5
     DEF CInv, InOrder, UpToDate, Begun, Saving, Writing, Alike, Calm, lockVars, history
<1> QED
  BY <1>1, <1>2, <1>3, <1>4, <1>5, <1>6, <1>7, <1>8, WritingKeeps DEF CInv, ConfigTypeOK

\* json.dump() and fsync, into the file that is open.
LEMMA StepWrite ==
  ASSUME CInv, NEW p \in Proc, Write(p)
  PROVE  CInv'
<1> USE DEF Write
<1>1. PICK c \in {Text(p), Torn} :
        /\ c = Text(p) \/ disk[out[p]] \notin {Torn, Text(p)}
        /\ disk' = [disk EXCEPT ![out[p]] = c]
  OBVIOUS
<1>2. HasOpen(p) /\ out[p] \in File
  BY DEF HasOpen, CInv, ConfigTypeOK
<1>3. Text(p) \in Settings /\ Sound(Text(p)) /\ Text(p) # Torn
  BY <1>2, TextIsSound
<1>4. io'[p] = "written" /\ stale' = stale
  BY DEF CInv, ConfigTypeOK
<1>5. Works(p)
  BY <1>2, <1>4, OpenIsActive DEF Works, CInv, ConfigTypeOK
<1>6. Text(p)' = Text(p) /\ Calm' = Calm
  BY DEF Text, Calm, lockVars, history
<1>7. Calm => c = Text(p) /\ temp = out[p] /\ Present' = Present
  <2>1. Calm => disk[out[p]] = Torn /\ temp = out[p]
    BY <1>2 DEF CInv, InOrder, WritesTemporary
  <2>2. Calm => temp # config
    BY <1>2, <2>1, FilesAssumption DEF FilesAssumption, CInv, SoundFiles
  <2> QED
    BY <1>1, <2>1, <2>2 DEF Present, CInv, ConfigTypeOK
<1>8. SoundFiles'
  BY <1>1, <1>2, <1>3, <1>6, <1>7 DEF CInv, SoundFiles, ConfigTypeOK
<1>9. WritesTemporary(p)'
  BY <1>1, <1>2, <1>4, <1>6, <1>7 DEF WritesTemporary, CInv, ConfigTypeOK
<1>10. UpToDate(p)'
  BY <1>4, <1>6, <1>7 DEF CInv, InOrder, UpToDate, Begun, Saving, Writing, Alike
<1>11. disk' \in [File -> Settings \cup {Torn}]
  BY <1>1, <1>3 DEF CInv, ConfigTypeOK
<1> QED
  BY <1>2, <1>4, <1>5, <1>7, <1>8, <1>9, <1>10, <1>11, WritingKeeps DEF CInv, ConfigTypeOK

\* What a save of a reset leaves: the rest of the file it had read.
LEMMA ResetIsAlike ==
  ASSUME NEW e \in Edit, e.op = "reset", e.key \in Convention,
         NEW a \in Settings, NEW b \in Settings, Alike(a, b)
  PROVE  Alike(a, Edited(e, a, b))
<1>1. Edited(e, a, b) = DefaultSaved(b, UserDefaults(a) \ {e.key})
  BY DEF Edited
<1>2. LET d == DefaultSaved(b, UserDefaults(a) \ {e.key})
      IN  /\ d.nodes = b.nodes /\ d.flagged = b.flagged /\ d.root = b.root
          /\ UserDefaults(d) = UserDefaults(a) \ {e.key}
  BY DEF DefaultSaved, UserDefaults, Settings
<1> QED
  BY <1>1, <1>2 DEF Alike

\* os.replace(): ~/.ldmrc is the file that was at ~/.ldmrc.tmp.
LEMMA StepReplace ==
  ASSUME CInv, NEW p \in Proc, Replace(p)
  PROVE  CInv'
<1> USE DEF Replace
<1>1. HasOpen(p) /\ io'[p] = "done"
  BY DEF HasOpen, CInv, ConfigTypeOK
<1>2. Active(p) /\ Saving(p)
  BY <1>1, OpenIsActive DEF Active, Allowed, Saving
<1>3. temp \in File /\ temp # config /\ config' = temp /\ temp' = NoFile
  BY DEF CInv, ConfigTypeOK, SoundFiles
<1>4. stale'[p] = stale[p] /\ \A q \in Proc \ {p} : stale[q] => stale'[q]
  BY DEF CInv, ConfigTypeOK
<1>5. \A q \in Proc \ {p} : task[q] = "none" \/ stale'[q]
  OBVIOUS
<1>6. Works(p)
  BY <1>2, <1>3, <1>4 DEF Works, CInv, ConfigTypeOK
<1>7. Calm' = Calm
  BY DEF Calm, lockVars, history
<1>8. Present' = disk[temp]
  BY <1>3, FilesAssumption DEF FilesAssumption, Present, CInv, ConfigTypeOK
<1>9. Calm => Present' = Text(p) /\ Text(p) # Torn
  <2>1. Calm => temp = out[p] /\ disk[temp] = Text(p)
    BY <1>1 DEF CInv, InOrder, WritesTemporary
  <2> QED
    BY <1>1, <1>8, <2>1, TextIsSound
<1>10. SoundFiles'
  <2>1. \A i \in File : disk'[i] # Torn => Sound(disk'[i])
    BY Blank DEF CInv, SoundFiles
  <2> QED
    BY <1>3, <1>7, <1>9, <2>1 DEF SoundFiles
<1>11. WritesTemporary(p)'
  BY <1>1 DEF WritesTemporary, HasOpen
<1>12. UpToDate(p)'
  <2>1. ~Writing(p)' /\ Saving(p)'
    BY <1>1, <1>2 DEF Writing, Saving
  <2>2. ASSUME Calm, ~stale[p], edit[p].op = "reset" PROVE Alike(first[p], Text(p))
    <3>1. Alike(first[p], Present) /\ second[p] = Present /\ edit[p].key \in Convention
      BY <1>2, <2>2
         DEF CInv, InOrder, UpToDate, Asked, Begun, Saving, Writing, Active
    <3> QED
      BY <2>2, <3>1, ResetIsAlike DEF Text, CInv, ConfigTypeOK
  <2>3. Alike(first[p], Present)' <=> Alike(first[p], Present')
    BY DEF Alike
  <2> QED
    BY <1>2, <1>4, <1>7, <1>9, <2>1, <2>2, <2>3 DEF UpToDate, Saving
<1>13. disk' \in [File -> Settings \cup {Torn}]
  BY Blank DEF CInv, ConfigTypeOK
<1>14. stale' \in [Proc -> BOOLEAN]
  BY DEF CInv, ConfigTypeOK
<1> QED
  BY <1>1, <1>3, <1>5, <1>6, <1>10, <1>11, <1>12, <1>13, <1>14, WritingKeeps DEF CInv, ConfigTypeOK

\* There was nothing to rename: in a calm there is.
LEMMA StepReplaceNothing ==
  ASSUME CInv, NEW p \in Proc, ReplaceNothing(p)
  PROVE  CInv'
<1> USE DEF ReplaceNothing, fileVars
<1>1. HasOpen(p) /\ io'[p] = "done" /\ out[p] # NoFile
  BY DEF HasOpen, CInv, ConfigTypeOK
<1>2. ~Calm /\ Calm' = Calm
  BY <1>1 DEF CInv, InOrder, WritesTemporary, Calm, lockVars, history
<1>3. Works(p)
  BY <1>1, OpenIsActive DEF Works, CInv, ConfigTypeOK
<1>4. SoundFiles' /\ WritesTemporary(p)' /\ UpToDate(p)'
  BY <1>2 DEF CInv, SoundFiles, WritesTemporary, UpToDate
<1> QED
  BY <1>1, <1>2, <1>3, <1>4, WritingKeeps DEF CInv, ConfigTypeOK

-----------------------------------------------------------------------------
(* The theorems                                                            *)

\* At first nobody has done anything, and the file is one LDM wrote.
LEMMA InitCInv == ConfigInit => CInv
<1> SUFFICES ASSUME ConfigInit PROVE CInv
  OBVIOUS
<1> USE DEF ConfigInit, SettingsInit
<1>1. LockInv
  BY InitLockInv
<1>2. TypeOK
  BY <1>1 DEF LockInv
<1>3. \A c \in Found \cup {Empty} : c \in Settings /\ Sound(c) /\ c # Torn
  BY Blank, FoundAssumption, FilesAssumption DEF FoundAssumption, FilesAssumption
<1>4. ConfigTypeOK
  <2>1. disk \in [File -> Settings \cup {Torn}]
    BY <1>3
  <2>2. begun \in 0..Commands
    BY CommandsAssumption DEF CommandsAssumption
  <2>3. {config, temp} \subseteq File \cup {NoFile}
    OBVIOUS
  <2>4. first \in [Proc -> Settings] /\ second \in [Proc -> Settings] /\ edit \in [Proc -> Edit]
    BY Blank
  <2> QED
    BY <1>2, <2>1, <2>2, <2>3, <2>4 DEF ConfigTypeOK
<1>5. SoundFiles
  BY <1>3, Blank DEF SoundFiles, Present
<1>6. Locked
  BY DEF Locked, Writing
<1>7. ASSUME NEW p \in Proc PROVE InOrder(p)
  BY Blank DEF InOrder, Asked, Saving, HasOpen, SoundMemory, Loading, WritesTemporary, UpToDate,
               Begun, Writing, Init
<1> QED
  BY <1>1, <1>4, <1>5, <1>6, <1>7 DEF CInv

\* Every step of every command, and every crash, keeps the invariant.
LEMMA StepCInv == CInv /\ [ConfigNext]_vars => CInv'
<1> SUFFICES ASSUME CInv, [ConfigNext]_vars PROVE CInv'
  OBVIOUS
<1>1. CASE UNCHANGED vars
  <2>1. UNCHANGED lockVars /\ UNCHANGED fileVars /\ UNCHANGED taskVars /\ UNCHANGED history
    BY <1>1 DEF vars
  <2>2. LockInv'
    BY <2>1, StepLockInv DEF CInv
  <2>3. ConfigTypeOK'
    <3>1. TypeOK'
      BY <2>2 DEF LockInv
    <3> QED
      BY <2>1, <3>1 DEF CInv, ConfigTypeOK, Writing, fileVars, taskVars, history
  <2>4. SoundFiles' /\ Locked'
    BY <2>1 DEF CInv, SoundFiles, Locked, Writing, Present, Calm, lockVars, fileVars, taskVars,
                history
  <2>5. ASSUME NEW p \in Proc PROVE InOrder(p)'
    BY <2>1 DEF CInv, InOrder, Asked, Saving, HasOpen, SoundMemory, Loading, WritesTemporary,
                UpToDate, Begun, Writing, Text, Alike, Present, Calm, lockVars, fileVars,
                taskVars, history
  <2> QED
    BY <2>2, <2>3, <2>4, <2>5 DEF CInv
<1>2. ASSUME NEW p \in Proc, StartCommand(p) \/ LoadAgain(p) PROVE CInv'
  BY <1>2, StepLoad
<1>3. ASSUME NEW p \in Proc, Command(p) PROVE CInv'
  BY <1>3, StepCommand
<1>4. ASSUME NEW p \in Proc, End(p) \/ Kill(p) PROVE CInv'
  BY <1>4, StepEnd
<1>5. ASSUME NEW p \in Proc, LockStep(p) \/ UnlockStep(p) PROVE CInv'
  BY <1>5, StepLock
<1>6. ASSUME NEW p \in Proc, RemoveLock(p) \/ LoadNothing(p) \/ SaveNothing(p) PROVE CInv'
  BY <1>6, StepLeave
<1>7. ASSUME NEW p \in Proc, Read(p) \/ ReadUnlocked(p) PROVE CInv'
  BY <1>7, StepRead
<1>8. ASSUME NEW p \in Proc, OpenTemp(p) \/ Write(p) \/ Replace(p) \/ ReplaceNothing(p)
      PROVE  CInv'
  BY <1>8, StepOpenTemp, StepWrite, StepReplace, StepReplaceNothing
<1> QED
  BY <1>1, <1>2, <1>3, <1>4, <1>5, <1>6, <1>7, <1>8 DEF ConfigNext

\* The invariant that the properties of ~/.ldmrc follow from.
THEOREM ConfigInvariance == ConfigSpec => []CInv
BY InitCInv, StepCInv, PTL DEF ConfigSpec

\* load_global_config_safe and save_global_config_safe use the lock as module
\* FileLock says: what they do to its variables is a behaviour of it.
THEOREM TheLockIsTheLock == ConfigSpec => Init /\ [][Next]_lockVars
<1>1. CInv /\ [ConfigNext]_vars => [Next]_lockVars
  <2> SUFFICES ASSUME CInv, [ConfigNext]_vars PROVE [Next]_lockVars
    OBVIOUS
  <2> USE DEF lockVars
  <2>1. CASE UNCHANGED vars
    BY <2>1 DEF vars
  <2>2. ASSUME NEW p \in Proc,
               LockStep(p) \/ UnlockStep(p) \/ RemoveLock(p) \/ LoadNothing(p)
                 \/ SaveNothing(p) \/ End(p) \/ Kill(p)
        PROVE  [Next]_lockVars
    BY <2>2 DEF LockStep, UnlockStep, RemoveLock, LoadNothing, SaveNothing, End, Kill, Next
  <2>3. ASSUME NEW p \in Proc, StartCommand(p) \/ LoadAgain(p) \/ Command(p)
        PROVE  [Next]_lockVars
    <3>1. UNCHANGED lockVars \/ Begin(p, "SH") \/ Begin(p, "EX")
      BY <2>3 DEF StartCommand, LoadAgain, Load, Command, AddTarget, UseTarget, RemoveTarget,
                  SetDefault, UnsetDefault, ResetDefault, Save, Configure
    <3> QED
      BY <3>1, BothModesAssumption DEF BothModesAssumption, Next
  <2>4. ASSUME NEW p \in Proc,
               Read(p) \/ ReadUnlocked(p) \/ OpenTemp(p) \/ Write(p) \/ Replace(p)
                 \/ ReplaceNothing(p)
        PROVE  [Next]_lockVars
    BY <2>4 DEF Read, ReadUnlocked, OpenTemp, Write, Replace, ReplaceNothing
  <2> QED
    BY <2>1, <2>2, <2>3, <2>4 DEF ConfigNext
<1>2. ConfigInit => Init
  BY DEF ConfigInit
<1> QED
  BY <1>1, <1>2, ConfigInvariance, PTL DEF ConfigSpec

\* For any number of processes ~/.ldmrc never has two default nodes
\* (save_target_node, set_default_target, delete_target_node), and on Windows,
\* unless `ldm config` wrote beside another command, no crash of
\* save_global_config_safe leaves it half written.
THEOREM SettingsStaySound == ConfigSpec => []SettingsAreSound
<1>1. CInv => SettingsAreSound
  BY Blank DEF CInv, ConfigTypeOK, SoundFiles, SettingsAreSound, Calm, Present
<1> QED
  BY <1>1, ConfigInvariance, PTL

\* What each change does to a file it was made of.
LEMMA EditedKeepsTheRest ==
  ASSUME NEW e \in Edit, NEW a \in Settings, NEW c \in Settings,
         e.op = "reset" => Alike(a, c) /\ e.key \in Convention,
         e.op # "reset" => a = c
  PROVE  KeepsTheRest(e, c, Edited(e, a, c))
<1> USE DEF KeepsTheRest
<1> DEFINE d == Edited(e, a, c)
<1>1. ASSUME NEW nodes, NEW flagged, d = [c EXCEPT !.nodes = nodes, !.flagged = flagged]
      PROVE  d.nodes = nodes /\ d.root = c.root /\ UserDefaults(d) = UserDefaults(c)
  BY <1>1 DEF Settings, UserDefaults
<1>2. CASE e.op = "add"
  <2> DEFINE default == e.flag = "yes" \/ e.node \in a.flagged
             t == LoadTargets(c)
             flagged == IF default THEN {e.node} ELSE t.flagged \ {e.node}
  <2>1. d = [c EXCEPT !.nodes = t.nodes \cup {e.node}, !.flagged = flagged]
    BY <1>2 DEF Edited, TargetSaved
  <2>2. t.nodes = c.nodes \cup {Local}
    BY DEF LoadTargets
  <2> HIDE DEF d, t, flagged
  <2>3. /\ d.nodes = t.nodes \cup {e.node} /\ d.root = c.root
        /\ UserDefaults(d) = UserDefaults(c)
    BY <1>1, <2>1
  <2> QED
    BY <1>2, <2>2, <2>3 DEF d
<1>3. CASE e.op = "use"
  <2>1. d = [c EXCEPT !.nodes = c.nodes \cup {e.node}, !.flagged = {e.node}]
    BY <1>3 DEF Edited, DefaultTarget
  <2> HIDE DEF d
  <2>2. d.nodes = c.nodes \cup {e.node} /\ d.root = c.root /\ UserDefaults(d) = UserDefaults(c)
    BY <1>1, <2>1
  <2> QED
    BY <1>3, <2>2 DEF d
<1>4. CASE e.op = "rm"
  <2>1. PICK flagged : d = [c EXCEPT !.nodes = c.nodes \ {e.node}, !.flagged = flagged]
    BY <1>4 DEF Edited, TargetDeleted
  <2> HIDE DEF d
  <2>2. d.nodes = c.nodes \ {e.node} /\ d.root = c.root /\ UserDefaults(d) = UserDefaults(c)
    BY <1>1, <2>1
  <2> QED
    BY <1>4, <2>2 DEF d
<1>5. ASSUME NEW keys, d = DefaultSaved(c, keys)
      PROVE  /\ d.nodes = c.nodes /\ d.flagged = c.flagged /\ d.root = c.root
             /\ UserDefaults(d) = keys
  BY <1>5 DEF Settings, DefaultSaved, UserDefaults
<1>6. CASE e.op = "reset"
  <2>1. d = DefaultSaved(c, UserDefaults(a) \ {e.key})
    BY <1>6 DEF Edited
  <2> HIDE DEF d
  <2> QED
    BY <1>5, <1>6, <2>1 DEF Alike, d
<1>7. CASE e.op = "default"
  <2>1. d = DefaultSaved(c, UserDefaults(c) \cup {e.key})
    BY <1>7 DEF Edited
  <2> HIDE DEF d
  <2> QED
    BY <1>5, <1>7, <2>1 DEF d
<1>8. CASE e.op = "undefault"
  <2>1. d = DefaultSaved(c, UserDefaults(c) \ {e.key})
    BY <1>8 DEF Edited
  <2> HIDE DEF d
  <2> QED
    BY <1>5, <1>8, <2>1 DEF d
<1>9. CASE e.op \in {"set", "unset"}
  <2>1. d = [c EXCEPT !.root = IF e.op = "set" THEN c.root \cup {e.key} ELSE c.root \ {e.key}]
    BY <1>9 DEF Edited
  <2> HIDE DEF d
  <2> QED
    BY <1>9, <2>1 DEF Settings, d
<1>10. CASE e.op = "none"
  BY <1>10
<1> QED
  BY <1>2, <1>3, <1>4, <1>6, <1>7, <1>8, <1>9, <1>10 DEF Edit

\* A save that nobody came before, for any number of other commands: it was made
\* of what the file still is.
THEOREM QuietSavesKeepTheRest == ConfigSpec => QuietSaveKeepsTheRest
<1> DEFINE Quiet(p) ==
      /\ platform = "nt" /\ ~mixed
      /\ io[p] = "written" /\ config' # config /\ io'[p] = "done"
      /\ ~stale[p]
<1>1. ASSUME CInv, [ConfigNext]_vars, NEW p \in Proc, Quiet(p)
      PROVE  Replace(p)
  <2>1. ASSUME NEW q \in Proc, Replace(q) PROVE q = p
    BY <1>1, <2>1 DEF Replace, CInv, ConfigTypeOK
  <2>2. PICK q \in Proc : Replace(q)
    BY <1>1 DEF ConfigNext, vars, fileVars, StartCommand, LoadAgain, Load, Command, AddTarget,
                UseTarget,
                RemoveTarget, SetDefault, UnsetDefault, ResetDefault, Save, Configure, End,
                LockStep, UnlockStep, RemoveLock, Read, LoadNothing, ReadUnlocked, SaveNothing,
                OpenTemp, Write, ReplaceNothing, Kill
  <2> QED
    BY <2>1, <2>2
<1>2. ASSUME CInv, [ConfigNext]_vars, NEW p \in Proc, Quiet(p)
      PROVE  LET e == edit[p]  c == Present  d == Present'
             IN  /\ c \in Settings /\ second[p] = c /\ d = Edited(e, first[p], c)
                 /\ e.op = "reset" => Alike(first[p], c) /\ e.key \in Convention
                 /\ e.op # "reset" => first[p] = c
  <2>1. Replace(p) /\ Calm
    BY <1>1, <1>2 DEF Calm
  <2>2. HasOpen(p) /\ Writing(p) /\ Begun(p)
    BY <1>2 DEF HasOpen, Begun, CInv, ConfigTypeOK, Writing
  <2>3. /\ second[p] = Present
        /\ edit[p].op = "reset" => Alike(first[p], Present) /\ edit[p].key \in Convention
        /\ edit[p].op # "reset" => first[p] = Present
    BY <1>2, <2>1, <2>2 DEF CInv, InOrder, UpToDate, Asked
  <2>4. Present' = disk[temp]
    BY <1>2, <2>1, FilesAssumption
       DEF FilesAssumption, Replace, Present, CInv, ConfigTypeOK, SoundFiles
  <2>5. disk[temp] = Text(p)
    BY <1>2, <2>1, <2>2 DEF CInv, InOrder, WritesTemporary, Calm
  <2>6. second[p] \in Settings
    BY <1>2 DEF CInv, ConfigTypeOK
  <2> QED
    BY <2>3, <2>4, <2>5, <2>6 DEF Text
<1>3. CInv /\ [ConfigNext]_vars =>
        [\A p \in Proc : Quiet(p) => KeepsTheRest(edit[p], Present, Present')]_vars
  <2>1. ASSUME CInv, [ConfigNext]_vars, NEW p \in Proc, Quiet(p)
        PROVE  KeepsTheRest(edit[p], Present, Present')
    <3>1. edit[p] \in Edit /\ first[p] \in Settings
      BY <2>1 DEF CInv, ConfigTypeOK
    <3> QED
      BY <1>2, <2>1, <3>1, EditedKeepsTheRest
  <2> QED
    BY <2>1
<1> QED
  BY <1>3, ConfigInvariance, PTL DEF ConfigSpec, QuietSaveKeepsTheRest
=============================================================================
