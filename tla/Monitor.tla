------------------------------ MODULE Monitor -------------------------------
(***************************************************************************)
(* `ldm monitor` (workspace/monitor.py): a file watcher that copies built  *)
(* artifacts into the project and deploys it.  The observer's thread adds  *)
(* every changed artifact to `pending` and restarts one timer; a timer     *)
(* that fires takes all that is pending and works on it outside the lock,  *)
(* while the observer goes on and the next timer may fire.  Then it deploys*)
(* the project, which mirrors the project's directory to the node when its *)
(* target is one; `ldm deploy <files>` (runtime/orchestration.py) may be   *)
(* copying the same artifacts meanwhile, and ships them to the node itself.*)
(*                                                                         *)
(* Content is a version number.  Both ways of copying go through a staging *)
(* file that the threads share: `.<name>.tmp` beside the target for a      *)
(* module (atomic_copy), <root>/client-extensions/<name> for an extension  *)
(* (_sync_cx_artifact).  A module of the monitor goes to deploy/, one of   *)
(* `ldm deploy` to osgi/modules.                                           *)
(***************************************************************************)
EXTENDS Naturals, Sequences, FiniteSets, Functions

CONSTANTS
  Targets,      \* the branches to watch, in the order they are scheduled
  Jars,         \* artifacts under modules/*/build/libs
  Zips,         \* client extensions and fragments
  Containers,   \* the extensions that ship a Dockerfile: services of their own
  NoArtifact,
  TargetOf,     \* the branch each artifact is built in
  StartPolling, \* macOS: PollingObserverVFS from the start
  MaxChanges,   \* bound on how often an artifact is built
  MaxBuilds,    \* bound on how often anything is built
  MaxTimers,    \* bound on the timers that are started: one for every build
  Remote,       \* whether the project's target is a node
  MayFail       \* whether schedule() may hit EMFILE and a copy may fail

Artifact == Jars \cup Zips
Timer == 1..MaxTimers
Deployer == MaxTimers + 1  \* the `ldm deploy` of the user
Worker == Timer \cup {Deployer}
Branch == {Targets[i] : i \in DOMAIN Targets}
NoTimer == 0
Absent == 0

ASSUME ArtifactsAssumption ==
  Jars \cap Zips = {} /\ Containers \subseteq Zips /\ NoArtifact \notin Artifact
    /\ Targets \in Seq(Branch) /\ TargetOf \in [Artifact -> Branch]
ASSUME BoundsAssumption ==
  /\ {MaxChanges, MaxBuilds, MaxTimers} \subseteq Nat /\ MaxBuilds <= MaxTimers
  /\ {StartPolling, Remote, MayFail} \subseteq BOOLEAN

\* The files of a project, and the one that a worker writes for an artifact.
File == (Zips \X {"client-extensions"}) \cup (Jars \X {"deploy", "modules"})

FileOf(w, a) ==
  CASE a \in Zips -> <<a, "client-extensions">>
    [] a \in Jars /\ w = Deployer -> <<a, "modules">>
    [] OTHER -> <<a, "deploy">>

VARIABLES
  phase,        \* "scheduling", "watching", "stopped", "dead"
  todo,         \* targets still to be scheduled
  polling,      \* the observer is a PollingObserverVFS
  watched,      \* targets scheduled on the present observer
  version,      \* the workspace: how often each artifact was built
  queue,        \* artifacts with an event the observer has not dispatched
  pending,      \* self.pending_files
  timer,        \* self.timer
  thread,       \* the timers' threads and the command
  staged,       \* version in the staging file of each file
  deployed,     \* version in the project
  asked,        \* the command: the artifacts it was given
  taken,        \* the command: the version it read of each
  unplaced,     \* the command: `failed`, what it could not ship
  node,         \* version on the node
  partial,      \* version in the command's staging file on the node
  overlapped,   \* history: artifacts two workers were at at once
  lost          \* history: artifacts of a batch that was abandoned

setup == <<phase, todo, polling, watched>>
intake == <<version, queue, pending, timer>>
files == <<staged, deployed>>
shipped == <<asked, taken, unplaced, node, partial>>
mishaps == <<overlapped, lost>>
monitorVars == <<setup, intake, thread, files, shipped, mishaps>>

Idle == [at |-> "unused", batch |-> {}, file |-> NoArtifact, copy |-> Absent,
         services |-> FALSE]

ThreadSteps == {"unused", "waiting", "cancelled", "fired", "working",
                "read", "staged", "cleared", "shipping", "sent", "mirroring",
                "deploying", "done", "failed"}

MonitorTypeOK ==
  /\ phase \in {"scheduling", "watching", "stopped", "dead"}
  /\ \E i \in 0..Len(Targets) : todo = SubSeq(Targets, i + 1, Len(Targets))
  /\ polling \in BOOLEAN
  /\ watched \subseteq Branch
  /\ version \in [Artifact -> 0..MaxChanges]
  /\ queue \subseteq Artifact /\ pending \subseteq Artifact
  /\ timer \in Timer \cup {NoTimer}
  /\ thread \in [Worker -> [at : ThreadSteps, batch : SUBSET Artifact,
                            file : Artifact \cup {NoArtifact}, copy : 0..MaxChanges,
                            services : BOOLEAN]]
  /\ \A w \in Worker :
       thread[w].file = NoArtifact
         <=> thread[w].at \notin {"read", "staged", "cleared", "sent"}
  /\ {staged, deployed, node} \subseteq [File -> 0..MaxChanges]
  /\ asked \subseteq Artifact /\ unplaced \subseteq asked
  /\ taken \in [Artifact -> 0..MaxChanges]
  /\ partial \in 0..MaxChanges
  /\ overlapped \subseteq Artifact /\ lost \subseteq Artifact

MonitorInit ==
  /\ phase = "scheduling" /\ todo = Targets
  /\ polling = StartPolling /\ watched = {}
  /\ version = [a \in Artifact |-> 0]
  /\ queue = {} /\ pending = {} /\ timer = NoTimer
  /\ thread = [w \in Worker |-> Idle]
  /\ staged = [f \in File |-> Absent]
  /\ deployed = [f \in File |-> Absent]
  /\ asked = {} /\ unplaced = {}
  /\ taken = [a \in Artifact |-> Absent]
  /\ node = [f \in File |-> Absent] /\ partial = Absent
  /\ overlapped = {} /\ lost = {}

-----------------------------------------------------------------------------
(* cmd_monitor: the observer                                               *)

Schedule ==
  /\ phase = "scheduling" /\ todo # <<>>
  /\ watched' = watched \cup {Head(todo)}
  /\ todo' = Tail(todo)
  /\ UNCHANGED <<phase, polling, intake, thread, files, shipped, mishaps>>

\* EMFILE on the native observer: a new polling observer takes this target
\* and the ones that follow.
FallBackToPolling ==
  /\ phase = "scheduling" /\ todo # <<>>
  /\ MayFail /\ ~polling
  /\ polling' = TRUE
  /\ watched' = {Head(todo)}
  /\ todo' = Tail(todo)
  /\ UNCHANGED <<phase, intake, thread, files, shipped, mishaps>>

\* Any other error, or EMFILE while polling.
DieInSchedule ==
  /\ phase = "scheduling" /\ todo # <<>>
  /\ MayFail
  /\ phase' = "dead"
  /\ UNCHANGED <<todo, polling, watched, intake, thread, files, shipped, mishaps>>

StartObserver ==
  /\ phase = "scheduling" /\ todo = <<>>
  /\ phase' = "watching"
  /\ UNCHANGED <<todo, polling, watched, intake, thread, files, shipped, mishaps>>

\* Ctrl+C: the events not yet dispatched are dropped, the timers run on.
StopObserver ==
  /\ phase = "watching"
  /\ phase' = "stopped"
  /\ queue' = {}
  /\ UNCHANGED <<todo, polling, watched, version, pending, timer, thread,
                 files, shipped, mishaps>>

\* filtered_scandir hides every directory named "build" from a polling
\* observer; the modules' artifacts are in one.
Visible(a) == ~(polling /\ a \in Jars)

Seen(a) == TargetOf[a] \in watched /\ Visible(a)

\* The user's build writes an artifact.
Build(a) ==
  /\ phase = "watching"
  /\ version[a] < MaxChanges
  /\ FoldFunction(+, 0, version) < MaxBuilds
  /\ version' = [version EXCEPT ![a] = @ + 1]
  /\ queue' = IF Seen(a) THEN queue \cup {a} ELSE queue
  /\ UNCHANGED <<setup, pending, timer, thread, files, shipped, mishaps>>

-----------------------------------------------------------------------------
(* WorkspaceEventHandler._handle_event                                     *)

\* Timer.cancel() stops a timer that has not fired and does nothing else.
Cancelled(t) ==
  IF t # NoTimer /\ thread[t].at = "waiting"
    THEN [thread EXCEPT ![t].at = "cancelled"]
    ELSE thread

\* Mutant: no timer is started while the thread of another is at work.
HandleEventUnlessBusy(a) ==
  /\ a \in queue
  /\ queue' = queue \ {a}
  /\ pending' = pending \cup {a}
  /\ IF \E t \in Timer : thread[t].at \notin {"unused", "cancelled", "done", "failed"}
     THEN UNCHANGED <<thread, timer>>
     ELSE \E t \in Timer :
            /\ thread[t].at = "unused"
            /\ thread' = [thread EXCEPT ![t].at = "waiting"]
            /\ timer' = t
  /\ UNCHANGED <<setup, version, files, shipped, mishaps>>

HandleEvent(a) ==
  /\ a \in queue
  /\ queue' = queue \ {a}
  /\ pending' = pending \cup {a}
  /\ \E t \in Timer :
       /\ thread[t].at = "unused"
       /\ \A u \in Timer : thread[u].at = "unused" => t <= u
       /\ thread' = [Cancelled(timer) EXCEPT ![t].at = "waiting"]
       /\ timer' = t
  /\ UNCHANGED <<setup, version, files, shipped, mishaps>>

-----------------------------------------------------------------------------
(* WorkspaceEventHandler._process_pending, in the timers' threads          *)

\* The delay is over; from now on cancel() is too late.
Fire(t) ==
  /\ thread[t].at = "waiting"
  /\ thread' = [thread EXCEPT ![t].at = "fired"]
  /\ UNCHANGED <<setup, intake, files, shipped, mishaps>>

\* What the workers have yet to finish.
InWork ==
  UNION {thread[w].batch \cup ({thread[w].file} \ {NoArtifact}) : w \in Worker}

TakePending(t) ==
  /\ thread[t].at = "fired"
  /\ thread' = [thread EXCEPT
       ![t].batch = pending,
       ![t].services = pending \cap Containers # {},
       ![t].at = IF pending = {} THEN "done" ELSE "working"]
  /\ pending' = {} /\ timer' = NoTimer
  /\ overlapped' = overlapped \cup (pending \cap InWork)
  /\ UNCHANGED <<setup, version, queue, files, shipped, lost>>

-----------------------------------------------------------------------------
(* Copying, by the timers' threads and by cmd_deploy                       *)

\* `ldm deploy <files>`.
StartDeploy ==
  /\ phase = "watching" /\ thread[Deployer].at = "unused"
  /\ \E batch \in (SUBSET Artifact) \ {{}} :
       /\ thread' = [thread EXCEPT ![Deployer].at = "working", ![Deployer].batch = batch]
       /\ asked' = batch
       /\ overlapped' = overlapped \cup (batch \cap InWork)
  /\ UNCHANGED <<setup, intake, files, taken, unplaced, node, partial, lost>>

\* safe_copy reads the artifact ...
ReadArtifact(w) ==
  /\ thread[w].at = "working"
  /\ \E a \in thread[w].batch :
       /\ thread' = [thread EXCEPT ![w].at = "read", ![w].batch = @ \ {a},
                                   ![w].file = a, ![w].copy = version[a]]
       /\ taken' = IF w = Deployer THEN [taken EXCEPT ![a] = version[a]] ELSE taken
  /\ UNCHANGED <<setup, intake, files, asked, unplaced, node, partial, mishaps>>

\* ... and writes the staging file.
WriteStaging(w) ==
  /\ thread[w].at = "read"
  /\ staged' = [staged EXCEPT ![FileOf(w, thread[w].file)] = thread[w].copy]
  /\ thread' = [thread EXCEPT ![w].at =
                  IF thread[w].file \in Zips THEN "staged" ELSE "cleared"]
  /\ UNCHANGED <<setup, intake, deployed, shipped, mishaps>>

\* Before it moves an extension, _sync_cx_artifact removes the deployed one.
RemoveDeployed(w) ==
  /\ thread[w].at = "staged"
  /\ deployed' = [deployed EXCEPT ![FileOf(w, thread[w].file)] = Absent]
  /\ thread' = [thread EXCEPT ![w].at = "cleared"]
  /\ UNCHANGED <<setup, intake, staged, shipped, mishaps>>

Place(w) ==
  /\ thread[w].at = "cleared"
  /\ LET f == FileOf(w, thread[w].file) IN
       /\ staged[f] # Absent
       /\ deployed' = [deployed EXCEPT ![f] = staged[f]]
       /\ staged' = [staged EXCEPT ![f] = Absent]
  /\ thread' = [thread EXCEPT ![w].at = "working", ![w].file = NoArtifact,
                              ![w].copy = Absent]
  /\ UNCHANGED <<setup, intake, shipped, mishaps>>

\* The worker ends with an exception; nothing puts its batch back.
Abandon(w) ==
  /\ thread' = [thread EXCEPT ![w] = [Idle EXCEPT !.at = "failed"]]
  /\ lost' = lost \cup thread[w].batch \cup ({thread[w].file} \ {NoArtifact})
  /\ UNCHANGED <<setup, intake, shipped, overlapped>>

\* Another worker has moved the staging file away.
FailPlace(w) ==
  /\ thread[w].at = "cleared"
  /\ staged[FileOf(w, thread[w].file)] = Absent
  /\ Abandon(w)
  /\ UNCHANGED files

\* The build has removed the file again, the disk is full; atomic_copy
\* removes its staging file, _sync_cx_artifact does not.
FailCopy(w) ==
  /\ MayFail
  /\ thread[w].at = "read"
  /\ Abandon(w)
  /\ staged' = IF thread[w].file \in Jars
                 THEN [staged EXCEPT ![FileOf(w, thread[w].file)] = Absent]
                 ELSE staged
  /\ UNCHANGED deployed

\* The command ships what it placed.  A thread runs the project, which mirrors
\* it first, unless its batch holds services: those are only brought up.
FinishBatch(w) ==
  /\ thread[w].at = "working" /\ thread[w].batch = {}
  /\ thread' = [thread EXCEPT
       ![w].at = CASE Remote /\ w = Deployer -> "shipping"
                   [] Remote /\ w # Deployer /\ ~thread[w].services -> "mirroring"
                   [] OTHER -> "deploying",
       ![w].batch = CASE Remote /\ w = Deployer -> asked
                      [] Remote /\ w # Deployer /\ ~thread[w].services -> Artifact
                      [] OTHER -> {}]
  /\ UNCHANGED <<setup, intake, files, shipped, mishaps>>

-----------------------------------------------------------------------------
(* The node                                                                *)

\* push_artifact_to_target: the placed file, as it is by now, goes to a
\* staging file on the node ...
Send ==
  /\ thread[Deployer].at = "shipping"
  /\ \E a \in thread[Deployer].batch :
       /\ deployed[FileOf(Deployer, a)] # Absent
       /\ partial' = deployed[FileOf(Deployer, a)]
       /\ thread' = [thread EXCEPT ![Deployer].at = "sent", ![Deployer].file = a,
                                   ![Deployer].batch = @ \ {a}]
  /\ UNCHANGED <<setup, intake, files, asked, taken, unplaced, node, mishaps>>

\* ... and is moved into its place.
MoveOnNode ==
  /\ thread[Deployer].at = "sent" /\ partial # Absent
  /\ node' = [node EXCEPT ![FileOf(Deployer, thread[Deployer].file)] = partial]
  /\ partial' = Absent
  /\ thread' = [thread EXCEPT ![Deployer].at = "shipping", ![Deployer].file = NoArtifact]
  /\ UNCHANGED <<setup, intake, files, asked, taken, unplaced, mishaps>>

\* No directory, or nothing to send; the other files are tried all the same.
FailSend ==
  /\ thread[Deployer].at = "shipping"
  /\ \E a \in thread[Deployer].batch :
       /\ MayFail \/ deployed[FileOf(Deployer, a)] = Absent
       /\ thread' = [thread EXCEPT ![Deployer].batch = @ \ {a}]
       /\ unplaced' = unplaced \cup {a}
  /\ UNCHANGED <<setup, intake, files, asked, taken, node, partial, mishaps>>

FailMove ==
  /\ thread[Deployer].at = "sent"
  /\ MayFail \/ partial = Absent
  /\ partial' = Absent
  /\ thread' = [thread EXCEPT ![Deployer].at = "shipping", ![Deployer].file = NoArtifact]
  /\ unplaced' = unplaced \cup {thread[Deployer].file}
  /\ UNCHANGED <<setup, intake, files, asked, taken, node, mishaps>>

\* Mutant: the command does not look at what it could not ship.
DeliverWhatever ==
  /\ thread[Deployer].at = "shipping" /\ thread[Deployer].batch = {}
  /\ thread' = [thread EXCEPT ![Deployer].at = "deploying"]
  /\ UNCHANGED <<setup, intake, files, shipped, mishaps>>

\* _ship_to_node dies if a file is missing on the node.
Delivered ==
  /\ thread[Deployer].at = "shipping" /\ thread[Deployer].batch = {}
  /\ thread' = [thread EXCEPT ![Deployer].at =
                  IF unplaced = {} THEN "deploying" ELSE "failed"]
  /\ UNCHANGED <<setup, intake, files, shipped, mishaps>>

\* sync_project_to_target, one artifact's files at a time: what the project
\* does not have is deleted on the node, the command's staging file too.
Mirror(t) ==
  /\ thread[t].at = "mirroring"
  /\ \E a \in thread[t].batch :
       /\ thread' = [thread EXCEPT ![t].batch = @ \ {a}]
       /\ node' = [f \in File |-> IF f[1] = a THEN deployed[f] ELSE node[f]]
       /\ partial' = IF thread[Deployer].file = a THEN Absent ELSE partial
       /\ overlapped' = overlapped \cup
            {b \in {a} : \E w \in Worker \ {t} :
               thread[w].at # "mirroring" /\ a \in thread[w].batch \cup {thread[w].file}}
  /\ UNCHANGED <<setup, intake, files, asked, taken, unplaced, lost>>

\* rsync fails on the way; the run only warns and goes on.
FailMirror(t) ==
  /\ MayFail
  /\ thread[t].at = "mirroring"
  /\ thread' = [thread EXCEPT ![t].at = "deploying", ![t].batch = {}]
  /\ UNCHANGED <<setup, intake, files, shipped, mishaps>>

FinishMirror(t) ==
  /\ thread[t].at = "mirroring" /\ thread[t].batch = {}
  /\ thread' = [thread EXCEPT ![t].at = "deploying"]
  /\ UNCHANGED <<setup, intake, files, shipped, mishaps>>

\* The services of the batch or of the command are brought up, or the project
\* is run; it may die.
Deploy(w) ==
  /\ thread[w].at = "deploying"
  /\ \E end \in {"done", "failed"} :
       thread' = [thread EXCEPT ![w].at = end]
  /\ UNCHANGED <<setup, intake, files, shipped, mishaps>>

Copying(w) ==
  ReadArtifact(w) \/ WriteStaging(w) \/ RemoveDeployed(w) \/ Place(w)
    \/ FailPlace(w) \/ FinishBatch(w) \/ Deploy(w)

MonitorNext ==
  \/ Schedule \/ FallBackToPolling \/ DieInSchedule
  \/ StartObserver \/ StopObserver
  \/ \E a \in Artifact : Build(a) \/ HandleEvent(a)
  \/ \E t \in Timer : Fire(t) \/ TakePending(t)
  \/ \E w \in Worker :
       \/ ReadArtifact(w) \/ WriteStaging(w) \/ RemoveDeployed(w)
       \/ Place(w) \/ FailPlace(w) \/ FailCopy(w)
       \/ FinishBatch(w) \/ Deploy(w)
  \/ StartDeploy \/ Send \/ MoveOnNode \/ FailSend \/ FailMove \/ Delivered
  \/ \E t \in Timer : Mirror(t) \/ FailMirror(t) \/ FinishMirror(t)

\* The observer dispatches, timers fire, and threads that are not blocked run.
\* Nothing makes the user build or stop.
Fairness ==
  /\ \A a \in Artifact : WF_monitorVars(HandleEvent(a))
  /\ \A t \in Timer : WF_monitorVars(Fire(t)) /\ WF_monitorVars(TakePending(t))
                        /\ WF_monitorVars(Copying(t))

MonitorSpec == MonitorInit /\ [][MonitorNext]_monitorVars /\ Fairness

-----------------------------------------------------------------------------
(* Properties                                                              *)

Quiet ==
  /\ phase = "watching" /\ queue = {} /\ pending = {}
  /\ \A w \in Worker : thread[w].at \in {"unused", "cancelled", "done", "failed"}

\* What the monitor makes of an artifact.
Watched(a) == deployed[FileOf(NoTimer, a)]

\* When nothing is left to do the project has the last build of every
\* artifact that the observer sees; and an `ldm deploy` that succeeded has put
\* everything it was given on the node, no older than it was.  Except for
\* artifacts that two workers were at at once or whose batch was abandoned.
SyncedUnlessOverlapped ==
  /\ Quiet => \A a \in Artifact : Seen(a) /\ a \notin overlapped \cup lost =>
                                    Watched(a) = version[a]
  /\ Remote /\ thread[Deployer].at = "done" =>
       \A a \in asked \ (overlapped \cup lost) :
         node[FileOf(Deployer, a)] >= taken[a]

\* Every event leads to a deployment of the artifact as it is by then, whether
\* the timer that its dispatch cancels was still waiting, had fired, or was at
\* work on an earlier batch (monitor.py:95-133); or its batch was abandoned,
\* two workers were at the artifact at once, or the user stopped the monitor.
\* There is a timer for every event, so that the bound excuses none.
EventsAreHandled ==
  \A a \in Artifact :
    a \in queue ~>
      Watched(a) = version[a] \/ a \in overlapped \cup lost
        \/ phase # "watching"
=============================================================================
