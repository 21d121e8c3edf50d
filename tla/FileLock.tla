------------------------------ MODULE FileLock ------------------------------
(***************************************************************************)
(* The lock files of LDM: ProjectLock (one per project, taken by the       *)
(* commands that change it) and FileLock (beside ~/.ldmrc and the update   *)
(* cache), both in utils.py.                                               *)
(*                                                                         *)
(* A lock is an flock on whatever file the lock path names when it is      *)
(* opened; release() unlocks, closes, and then removes the path.  What     *)
(* the kernel locks is the file, not the path, so the two are kept apart:  *)
(* `path` is the file the path names, `fd` the file a process has open.    *)
(* An flock is gone when its process is, and on Windows a file that some   *)
(* process has open cannot be removed.  Opening the file, locking it and   *)
(* writing the PID into it may each fail.                                  *)
(***************************************************************************)
EXTENDS Naturals, FiniteSets

CONSTANTS
  Proc,       \* LDM processes that use one lock path
  Inode,      \* files the path may name, one after the other
  NoFile,
  Platforms,  \* "posix" (fcntl.flock), "nt" (msvcrt.locking)
  Kinds,      \* "FileLock", "ProjectLock": whose acquire() it is
  Retries,    \* attempts of acquire(): 5 in the code
  Modes       \* "EX", "SH": the modes a FileLock is taken in

ASSUME PlatformsAssumption == Platforms \subseteq {"posix", "nt"}
ASSUME KindsAssumption == Kinds \subseteq {"FileLock", "ProjectLock"}
ASSUME RetriesAssumption == Retries \in Nat \ {0}
ASSUME ModesAssumption == Modes \subseteq {"EX", "SH"}
ASSUME NoFileAssumption == NoFile \notin Inode

VARIABLES
  platform,   \* the system they run on
  kind,       \* the class of the lock
  path,       \* the file at the lock path, or NoFile
  pc,         \* where each process is in acquire() and release()
  fd,         \* self.fd: the file each process has open, or NoFile
  mode,       \* what it asks for: LOCK_EX or LOCK_SH
  attempt     \* attempts it has failed

lockVars == <<platform, kind, path, pc, fd, mode, attempt>>

Steps == {"idle", "acquiring", "opened", "held", "unlocked", "closed",
          "refused"}

TypeOK ==
  /\ platform \in Platforms
  /\ kind \in Kinds
  /\ path \in Inode \cup {NoFile}
  /\ pc \in [Proc -> Steps]
  /\ fd \in [Proc -> Inode \cup {NoFile}]
  /\ mode \in [Proc -> Modes]
  /\ attempt \in [Proc -> 0..Retries]
  /\ \A p \in Proc : fd[p] # NoFile <=> pc[p] \in {"opened", "held", "unlocked"}

\* No lock file yet, or one that a killed process left behind.
Init ==
  /\ platform \in Platforms
  /\ kind \in Kinds
  /\ path \in Inode \cup {NoFile}
  /\ pc = [p \in Proc |-> "idle"]
  /\ fd = [p \in Proc |-> NoFile]
  /\ mode \in [Proc -> Modes]
  /\ attempt = [p \in Proc |-> 0]

-----------------------------------------------------------------------------
(* The kernel                                                              *)

\* The processes that hold an flock on file i.
Holders(i) == {q \in Proc : pc[q] = "held" /\ fd[q] = i}

\* LK_NBRLCK is the same as LK_NBLCK: on Windows a shared lock is not shared.
Shared(p) == platform = "posix" /\ mode[p] = "SH"

Conflicts(p) ==
  {q \in Holders(fd[p]) : ~(Shared(p) /\ Shared(q))}

\* A file that is neither at the path nor open.
Free(i) == i # path /\ \A q \in Proc : fd[q] # i

Removable(p) == platform = "posix" \/ \A q \in Proc \ {p} : fd[q] = NoFile

-----------------------------------------------------------------------------
(* acquire                                                                 *)

\* The attempts are a local of acquire().
ForgetAttempts(p) == attempt' = [attempt EXCEPT ![p] = 0]

Begin(p, m) ==
  /\ pc[p] = "idle"
  /\ kind = "ProjectLock" => m = "EX"
  /\ pc' = [pc EXCEPT ![p] = "acquiring"]
  /\ mode' = [mode EXCEPT ![p] = m]
  /\ UNCHANGED <<platform, kind, path, fd, attempt>>

\* open(self.lock_file, "w+" / "a+") creates the file when there is none.
Open(p) ==
  /\ pc[p] = "acquiring"
  /\ path' \in IF path = NoFile THEN {i \in Inode : Free(i)} ELSE {path}
  /\ fd' = [fd EXCEPT ![p] = path']
  /\ pc' = [pc EXCEPT ![p] = "opened"]
  /\ UNCHANGED <<platform, kind, mode, attempt>>

\* Sleep and try again; the last attempt raises RuntimeError.
Retry(p) ==
  /\ attempt' = [attempt EXCEPT ![p] = @ + 1]
  /\ pc' = [pc EXCEPT ![p] =
              IF attempt[p] + 1 = Retries THEN "refused" ELSE "acquiring"]

\* The directory or the file cannot be made, or is another user's.  FileLock
\* opens it outside its try, and acquire() passes the OSError on at once.
CannotOpen(p) ==
  /\ pc[p] = "acquiring"
  /\ \/ kind = "ProjectLock" /\ Retry(p)
     \/ /\ kind = "FileLock"
        /\ pc' = [pc EXCEPT ![p] = "refused"]
        /\ UNCHANGED attempt
  /\ UNCHANGED <<platform, kind, path, fd, mode>>

\* Mutant: an error of the locking call is passed over.
LockAnyway(p) ==
  /\ pc[p] = "opened"
  /\ pc' = [pc EXCEPT ![p] = "held"]
  /\ ForgetAttempts(p)
  /\ UNCHANGED <<platform, kind, path, fd, mode>>

\* flock(fd, LOCK_EX or LOCK_SH | LOCK_NB) succeeds, and so does the writing of
\* the PID.
Lock(p) ==
  /\ pc[p] = "opened"
  /\ Conflicts(p) = {}
  /\ pc' = [pc EXCEPT ![p] = "held"]
  /\ ForgetAttempts(p)
  /\ UNCHANGED <<platform, kind, path, fd, mode>>

\* It would block, or it fails, or the PID cannot be written: close the file,
\* and with it give back what may have been locked.  The file stays at the path.
FailAttempt(p) ==
  /\ pc[p] = "opened"
  /\ fd' = [fd EXCEPT ![p] = NoFile]
  /\ Retry(p)
  /\ UNCHANGED <<platform, kind, path, mode>>

\* On a full disk the close fails too, in writing what was buffered.  That
\* OSError leaves acquire(), and the caller's release() removes the path.
AbandonStamp(p) ==
  /\ kind = "FileLock" /\ mode[p] = "EX"
  /\ pc[p] = "opened"
  /\ Conflicts(p) = {}
  /\ fd' = [fd EXCEPT ![p] = NoFile]
  /\ pc' = [pc EXCEPT ![p] = "closed"]
  /\ ForgetAttempts(p)
  /\ UNCHANGED <<platform, kind, path, mode>>

\* The command reports the concurrency violation and ends, or goes without.
Leave(p) ==
  /\ pc[p] = "refused"
  /\ pc' = [pc EXCEPT ![p] = "idle"]
  /\ ForgetAttempts(p)
  /\ UNCHANGED <<platform, kind, path, fd, mode>>

-----------------------------------------------------------------------------
(* release, by the holder or by its atexit handler                         *)

Unlock(p) ==
  /\ pc[p] = "held"
  /\ pc' = [pc EXCEPT ![p] = "unlocked"]
  /\ UNCHANGED <<platform, kind, path, fd, mode, attempt>>

Close(p) ==
  /\ pc[p] = "unlocked"
  /\ pc' = [pc EXCEPT ![p] = "closed"]
  /\ fd' = [fd EXCEPT ![p] = NoFile]
  /\ UNCHANGED <<platform, kind, path, mode, attempt>>

\* if exists(): unlink(), whatever file the path names by now; an OSError is
\* suppressed.
Remove(p) ==
  /\ pc[p] = "closed"
  /\ path' = IF Removable(p) THEN NoFile ELSE path
  /\ pc' = [pc EXCEPT ![p] = "idle"]
  /\ UNCHANGED <<platform, kind, fd, mode, attempt>>

\* kill -9: the kernel closes the file, nobody removes the path.
Die(p) ==
  /\ pc[p] # "idle"
  /\ pc' = [pc EXCEPT ![p] = "idle"]
  /\ fd' = [fd EXCEPT ![p] = NoFile]
  /\ ForgetAttempts(p)
  /\ UNCHANGED <<platform, kind, path, mode>>

\* `ldm system rescue --clear-lock` takes no lock: it unlinks the path, whose
\* ever the file is.
ClearLock ==
  /\ kind = "ProjectLock"
  /\ path # NoFile
  /\ platform = "posix" \/ \A q \in Proc : fd[q] = NoFile
  /\ path' = NoFile
  /\ UNCHANGED <<platform, kind, pc, fd, mode, attempt>>

Next ==
  \/ \E p \in Proc :
       \/ \E m \in Modes : Begin(p, m)
       \/ Open(p) \/ CannotOpen(p)
       \/ Lock(p) \/ FailAttempt(p) \/ AbandonStamp(p)
       \/ Leave(p)
       \/ Unlock(p) \/ Close(p) \/ Remove(p)
       \/ Die(p)
  \/ ClearLock

Spec == Init /\ [][Next]_lockVars

-----------------------------------------------------------------------------
(* Properties                                                              *)

Held(p) == pc[p] = "held"

\* "Application-level concurrency lock": of two processes that have acquired
\* the lock, neither holds it exclusively.
MutualExclusion ==
  \A p, q \in Proc :
    p # q /\ Held(p) /\ Held(q) => mode[p] = "SH" /\ mode[q] = "SH"

\* It does exclude where a file that is open cannot be removed: release()'s
\* unlink then never takes the path from under another process.
ExcludesOnWindows == platform = "nt" => MutualExclusion

\* What survives on every platform: two exclusive holders have locked
\* different files, so one of them at least works under a removed path.
OneHolderPerFile ==
  \A p, q \in Proc :
    p # q /\ Held(p) /\ Held(q) /\ fd[p] = fd[q] =>
      mode[p] = "SH" /\ mode[q] = "SH"
=============================================================================
