------------------------------ MODULE Serving ------------------------------
(***************************************************************************)
(* From settings to a portal that answers: `ldm run` writes the compose    *)
(* file, brings the containers up, patches them and waits; `ldm wait`      *)
(* waits again; while other commands restart, re-deploy and look.          *)
(* pipelines/run.py (ComposerStage, ExecutionStage), runtime/readiness.py, *)
(* runtime/portal_patches.py, workspace/metadata.py (ports) and            *)
(* workspace/site_initializers.py (extensions held back until the portal   *)
(* is up).  Module Compose says what is in the file.                       *)
(*                                                                         *)
(* Only `run` and `start` take the project's lock.  Every command works on *)
(* the copy of the metadata it has read and writes it back whole.          *)
(*                                                                         *)
(* Bounds: `commands`, in a project's record, is how many are given;       *)
(* `others` says whether another program takes a port.                     *)
(***************************************************************************)
EXTENDS Compose

CONSTANTS
  Actors,         \* who gives commands
  Configs,        \* the projects to look at
  Initializers,   \* client extensions that are site initializers
  Ports,          \* the ports of the host
  Nothing

ASSUME PortsAssumption == Ports \subseteq Nat

ASSUME ConfigsAssumption == \A k \in Configs : k.initializers \subseteq Initializers

VARIABLES
  c,           \* the project
  meta,        \* its metadata on disk: is a reindex asked for, port_<extension>
  file,        \* docker-compose.yml
  box,         \* the portal's container
  bound,       \* the services that run, and the ports they hold
  foreign,     \* ports that other programs hold
  places,      \* where each site initializer is
  cmd,         \* what each actor's command is doing
  begun,       \* how many commands were given
  due,         \* a reindex was asked for, and no boot since has done it
  overlapped,  \* some command was given while another ran
  unserved     \* a command that did not start the portal settled the reindex

vars == <<c, meta, file, box, bound, foreign, places, cmd, begun, due, overlapped, unserved>>

-----------------------------------------------------------------------------
(* Containers                                                              *)

NoBox == [state |-> "absent", reindex |-> FALSE, jars |-> {}, loaded |-> {}, log |-> FALSE]

\* A new container has the image's own jars and an empty log.
NewBox(reindex) == [NoBox EXCEPT !.state = "created", !.reindex = reindex]

Running(b) == b.state \in {"booting", "up"}

\* Starting one that runs does nothing.
Boot(b) == IF Running(b) THEN b ELSE [b EXCEPT !.state = "booting", !.loaded = b.jars]

\* Mutant: a container that is there is always kept.
OutdatedIfAbsent == box.state = "absent"

\* compose replaces a container whose settings have changed; of the portal's
\* only the reindex does from run to run.
Outdated == box.state = "absent" \/ box.reindex # file.reindex

Held == foreign \cup UNION {bound[s] : s \in DOMAIN bound}

Published(s) == file.services[s].ports

\* The services that compose starts only when the portal is healthy.
Waiting == {s \in DOMAIN file.services : Portal \in DOMAIN file.services[s].needs}

\* Docker refuses a port that is taken, by whom ever.
Bindable(services) ==
  /\ \A s \in services : Published(s) \cap foreign = {}
  /\ \A s \in services :
       \A t \in (services \cup DOMAIN bound) \ {s} :
         Published(s) \cap (IF t \in services THEN Published(t) ELSE bound[t]) = {}

Bind(services) ==
  [s \in DOMAIN bound \cup services |-> IF s \in services THEN Published(s) ELSE bound[s]]

Unbind(services) == [s \in DOMAIN bound \ services |-> bound[s]]

-----------------------------------------------------------------------------
(* Commands                                                                *)

Idle == [kind |-> "none", pc |-> "idle", mem |-> Nothing, todo |-> {}, item |-> Nothing,
         asked |-> FALSE, noWait |-> FALSE, booted |-> FALSE, unread |-> FALSE,
         served |-> FALSE, stale |-> FALSE, outcome |-> "none"]

At(a, pc) == cmd[a].pc = pc

Active(a) == ~At(a, "idle")

Goto(a, pc) == cmd' = [cmd EXCEPT ![a] = [cmd[a] EXCEPT !.pc = pc]]

\* The exit: only what the properties ask of a finished command is kept.
End(a, outcome) ==
  cmd' = [cmd EXCEPT ![a] =
            [Idle EXCEPT !.kind = cmd[a].kind, !.outcome = outcome,
                         !.served = cmd[a].served, !.stale = cmd[a].stale]]

\* One more command is given.
Counted ==
  /\ begun < c.commands
  /\ begun' = begun + 1
  /\ overlapped' = (overlapped \/ \E b \in Actors : Active(b))

Begin(a, fields) ==
  /\ ~Active(a)
  /\ Counted
  /\ cmd' = [cmd EXCEPT ![a] = fields]

\* ProjectLock.  It is the operating system's: gone when its process is.
Unlocked == \A b \in Actors : ~(Active(b) /\ cmd[b].kind = "run")

-----------------------------------------------------------------------------
(* ldm run: the file                                                       *)

\* `--reindex` marks the copy; the flag of an earlier `ldm reindex` is in it.
Run(a) ==
  \E reindex, noWait \in BOOLEAN :
    /\ Unlocked
    /\ Begin(a, [Idle EXCEPT !.kind = "run", !.pc = "store", !.noWait = noWait,
                             !.asked = reindex, !.mem = [meta EXCEPT !.reindex = @ \/ reindex]])
    /\ UNCHANGED <<c, meta, file, box, bound, foreign, places, due, unserved>>

\* ConfigResolutionStage writes what it has resolved.
Store(a) ==
  /\ At(a, "store")
  /\ meta' = cmd[a].mem
  /\ due' = (due \/ cmd[a].asked)
  /\ cmd' = [cmd EXCEPT ![a] = [cmd[a] EXCEPT !.pc = "scan", !.asked = FALSE]]
  /\ UNCHANGED <<c, file, box, bound, foreign, places, begun, overlapped, unserved>>

\* `ldm info`, the dashboard and the check of host names scan too.
Look(a) ==
  /\ c.exts # {}
  /\ Begin(a, [Idle EXCEPT !.kind = "look", !.pc = "scan"])
  /\ UNCHANGED <<c, meta, file, box, bound, foreign, places, due, unserved>>

\* scan_client_extensions reads the metadata again, into a copy of its own.
Scan(a) ==
  /\ At(a, "scan")
  /\ cmd' = [cmd EXCEPT ![a] =
               [cmd[a] EXCEPT !.pc = "ports", !.item = meta,
                              !.todo = {e.id : e \in ServiceExts(c)}]]
  /\ UNCHANGED <<c, meta, file, box, bound, foreign, places, begun, due, overlapped, unserved>>

\* Mutant: only what is free on the host counts.
NoPortTaken(copy, id) == {}

\* The other extensions' ports; the portal's is under another key.
TakenPorts(copy, id) == {copy.ports[x] : x \in DOMAIN copy.ports \ {id}}

\* find_available_port, from the extension's own port upwards
FreePorts(e, copy) ==
  {p \in Ports : p >= WantedPort(e) /\ p \notin Held \cup TakenPorts(copy, e.id)}

WithPort(copy, id, p) ==
  [copy EXCEPT !.ports =
     [x \in DOMAIN copy.ports \cup {id} |-> IF x = id THEN p ELSE copy.ports[x]]]

\* A port on record is kept; one that is found is written at once, with the
\* rest of the copy.
FindPort(a) ==
  /\ At(a, "ports")
  /\ \E e \in ServiceExts(c) :
       /\ e.id \in cmd[a].todo
       /\ LET copy == cmd[a].item
              known == e.id \in DOMAIN copy.ports
              free == FreePorts(e, copy)
              found == IF known THEN copy
                       ELSE WithPort(copy, e.id, CHOOSE p \in free : \A q \in free : p <= q)
          IN  IF known \/ free # {}
              THEN /\ cmd' = [cmd EXCEPT ![a] =
                                [cmd[a] EXCEPT !.item = found, !.todo = @ \ {e.id}]]
                   /\ meta' = IF known THEN meta ELSE found
              ELSE /\ End(a, "failed")
                   /\ UNCHANGED meta
  /\ UNCHANGED <<c, file, box, bound, foreign, places, begun, due, overlapped, unserved>>

Looked(a) ==
  /\ At(a, "ports")
  /\ cmd[a].kind = "look"
  /\ cmd[a].todo = {}
  /\ End(a, "done")
  /\ UNCHANGED <<c, meta, file, box, bound, foreign, places, begun, due, overlapped, unserved>>

\* write_docker_compose
Generate(a) ==
  /\ At(a, "ports")
  /\ cmd[a].kind = "run"
  /\ cmd[a].todo = {}
  /\ LET new == ComposeFile(c, cmd[a].item.ports)
     IN  file' = [services |-> new.services, volumes |-> new.volumes,
                  reindex |-> cmd[a].mem.reindex]
  /\ Goto(a, "check")
  /\ UNCHANGED <<c, meta, box, bound, foreign, places, begun, due, overlapped, unserved>>

\* Ports of services that do not run are tried, each for itself.
Preflight ==
  \A s \in DOMAIN file.services \ DOMAIN bound : Published(s) \cap Held = {}

\* `docker compose config`: a service cannot wait for one that is not there.
Understood ==
  \A s \in DOMAIN file.services : DOMAIN file.services[s].needs \subseteq DOMAIN file.services

\* The metadata is written from the copy the run began with: the ports just
\* found are not in it.
Check(a) ==
  /\ At(a, "check")
  /\ Understood
  /\ c.noUp \/ Preflight
  /\ meta' = cmd[a].mem
  /\ IF c.noUp THEN End(a, "done") ELSE Goto(a, "containers")
  /\ UNCHANGED <<c, file, box, bound, foreign, places, begun, due, overlapped, unserved>>

CheckFails(a) ==
  /\ At(a, "check")
  /\ ~Understood \/ (~c.noUp /\ ~Preflight)
  /\ End(a, "failed")
  /\ UNCHANGED <<c, meta, file, box, bound, foreign, places, begun, due, overlapped, unserved>>

-----------------------------------------------------------------------------
(* The containers                                                          *)

\* Mutant: the portal is started before it is patched.
StartedFirst == "start"

\* What is left to do with the portal's container when it is there.
AfterCreation == IF c.patches # {} THEN "copy" ELSE "start"

\* `create` when there are patches; otherwise the first half of `up`.
Create(a) ==
  /\ At(a, "containers")
  /\ IF Outdated
     THEN /\ box' = NewBox(file.reindex)
          /\ bound' = Unbind({Portal})
     ELSE UNCHANGED <<box, bound>>
  /\ cmd' = [cmd EXCEPT ![a] =
               [cmd[a] EXCEPT !.pc = AfterCreation, !.todo = c.patches]]
  /\ UNCHANGED <<c, meta, file, foreign, places, begun, due, overlapped, unserved>>

\* The project's own database, or the shared one, is not there in time.
DatabaseFails(a) ==
  /\ At(a, "containers")
  /\ OwnsDatabase(c) \/ DatabaseOf(c).mode = "shared"
  /\ End(a, "stopped")
  /\ UNCHANGED <<c, meta, file, box, bound, foreign, places, begun, due, overlapped, unserved>>

\* `start|restart --force-recreate`: a new container from the file as it is.
Recreate(a) ==
  /\ file # Nothing
  /\ Begin(a, [Idle EXCEPT !.kind = "recreate", !.pc = AfterCreation, !.todo = c.patches])
  /\ box' = NewBox(file.reindex)
  /\ bound' = Unbind({Portal})
  /\ UNCHANGED <<c, meta, file, foreign, places, due, unserved>>

\* copy_patches_into, a jar at a time.
Copy(a) ==
  /\ At(a, "copy")
  /\ \E jar \in cmd[a].todo :
       /\ box' = [box EXCEPT !.jars = @ \cup {jar}]
       /\ cmd' = [cmd EXCEPT ![a] = [cmd[a] EXCEPT !.todo = @ \ {jar}]]
  /\ UNCHANGED <<c, meta, file, bound, foreign, places, begun, due, overlapped, unserved>>

\* The image has no such jar, or Docker fails: the container stays as it is.
CopyFails(a) ==
  /\ At(a, "copy")
  /\ cmd[a].todo # {}
  /\ End(a, "failed")
  /\ UNCHANGED <<c, meta, file, box, bound, foreign, places, begun, due, overlapped, unserved>>

Copied(a) ==
  /\ At(a, "copy")
  /\ cmd[a].todo = {}
  /\ Goto(a, "start")
  /\ UNCHANGED <<c, meta, file, box, bound, foreign, places, begun, due, overlapped, unserved>>

\* The portal, and what does not wait for it, is started.
Start(a) ==
  /\ At(a, "start")
  /\ box.state # "absent"
  /\ LET first == DOMAIN file.services \ Waiting
     IN  IF Bindable(first)
         THEN /\ box' = Boot(box)
              /\ bound' = Bind(first)
              /\ due' = (due /\ (Running(box) \/ ~box.reindex))
              /\ cmd' = [cmd EXCEPT ![a] =
                           [cmd[a] EXCEPT !.pc = "rest", !.booted = ~Running(box)]]
         ELSE /\ End(a, "failed")
              /\ UNCHANGED <<box, bound, due>>
  /\ UNCHANGED <<c, meta, file, foreign, places, begun, overlapped, unserved>>

\* Ready to be waited for: the log may hold the line of an earlier boot.
Listening(record) ==
  [record EXCEPT !.pc = "poll", !.unread = box.log, !.served = (box.state = "up"),
                 !.stale = (box.log /\ box.state # "up")]

\* The rest starts when the portal is healthy.
Rest(a) ==
  /\ At(a, "rest")
  /\ Waiting # {} => box.state = "up"
  /\ IF Bindable(Waiting)
     THEN /\ bound' = Bind(Waiting)
          /\ IF cmd[a].noWait \/ cmd[a].kind = "recreate"
             THEN End(a, "done")
             ELSE cmd' = [cmd EXCEPT ![a] = Listening(cmd[a])]
     ELSE /\ End(a, "failed")
          /\ UNCHANGED bound
  /\ UNCHANGED <<c, meta, file, box, foreign, places, begun, due, overlapped, unserved>>

\* The portal dies while compose waits for it, or it takes too long.
RestFails(a) ==
  /\ At(a, "rest")
  /\ Waiting # {}
  /\ End(a, "failed")
  /\ UNCHANGED <<c, meta, file, box, bound, foreign, places, begun, due, overlapped, unserved>>

-----------------------------------------------------------------------------
(* Waiting                                                                 *)

\* `ldm wait` takes no lock, and the metadata as it is now.
Wait(a) ==
  /\ Begin(a, Listening([Idle EXCEPT !.kind = "wait", !.mem = meta]))
  /\ UNCHANGED <<c, meta, file, box, bound, foreign, places, due, unserved>>

\* Mutant: a container that runs is taken for a portal that answers.
RunsOrSaysReady(a) == Running(box) \/ cmd[a].unread

\* Healthy, or the startup line among what the log shows since the last look.
SaysReady(a) == box.state = "up" \/ cmd[a].unread

Poll(a) ==
  /\ At(a, "poll")
  /\ SaysReady(a)
  /\ Goto(a, IF cmd[a].mem.reindex THEN "reindex" ELSE "deploy")
  /\ UNCHANGED <<c, meta, file, box, bound, foreign, places, begun, due, overlapped, unserved>>

\* It exited, or the time is over: the run exits 3, `wait` 1.
PollFails(a) ==
  /\ At(a, "poll")
  /\ End(a, "not ready")
  /\ UNCHANGED <<c, meta, file, box, bound, foreign, places, begun, due, overlapped, unserved>>

\* The reindex is over when a line of the log, a quiet processor or the clock
\* says so; the whole copy is written, without the flag.
Reindexed(a) ==
  /\ At(a, "reindex")
  /\ LET copy == [cmd[a].mem EXCEPT !.reindex = FALSE]
     IN  /\ meta' = copy
         /\ cmd' = [cmd EXCEPT ![a] = [cmd[a] EXCEPT !.pc = "deploy", !.mem = copy]]
  /\ unserved' = (unserved \/ ~cmd[a].booted)
  /\ UNCHANGED <<c, file, box, bound, foreign, places, begun, due, overlapped>>

\* pending(): the list is made once.
Pending(a) ==
  /\ At(a, "deploy")
  /\ cmd' = [cmd EXCEPT ![a] =
               [cmd[a] EXCEPT !.pc = "deploying",
                              !.todo = {i \in Initializers : "staged" \in places[i]}]]
  /\ UNCHANGED <<c, meta, file, box, bound, foreign, places, begun, due, overlapped, unserved>>

Deploy(a) ==
  /\ At(a, "deploying")
  /\ \E i \in cmd[a].todo :
       cmd' = [cmd EXCEPT ![a] =
                 [cmd[a] EXCEPT !.pc = "clear", !.todo = @ \ {i},
                                !.item = [what |-> i, from |-> "staged", to |-> "deployed"]]]
  /\ UNCHANGED <<c, meta, file, box, bound, foreign, places, begun, due, overlapped, unserved>>

\* `wait` asks the portal itself before it says so.
Deployed(a) ==
  /\ At(a, "deploying")
  /\ cmd[a].todo = {}
  /\ IF cmd[a].kind = "wait" THEN Goto(a, "probe") ELSE End(a, "ready")
  /\ UNCHANGED <<c, meta, file, box, bound, foreign, places, begun, due, overlapped, unserved>>

Probe(a) ==
  /\ At(a, "probe")
  /\ \/ box.state = "up" /\ End(a, "ready")
     \/ End(a, "not ready")
  /\ UNCHANGED <<c, meta, file, box, bound, foreign, places, begun, due, overlapped, unserved>>

-----------------------------------------------------------------------------
(* Moving an extension from one place to another: an old file there is     *)
(* deleted, the new one is copied, its source is deleted.                  *)

\* An import, a monitor or `ldm deploy`: the archive is copied to the project's
\* own folder, and what is deployed of it goes; `defer` is for workspaces.
Sync(a) ==
  \E i \in c.initializers, to \in {"staged", "deployed"} :
    /\ Begin(a, [Idle EXCEPT !.kind = "sync", !.pc = "unpack",
                             !.item = [what |-> i, from |-> "root", to |-> to]])
    /\ UNCHANGED <<c, meta, file, box, bound, foreign, places, due, unserved>>

Unpack(a) ==
  /\ At(a, "unpack")
  /\ places' = [places EXCEPT ![cmd[a].item.what] = @ \cup {"root"}]
  /\ Goto(a, "withdraw")
  /\ UNCHANGED <<c, meta, file, box, bound, foreign, begun, due, overlapped, unserved>>

Withdraw(a) ==
  /\ At(a, "withdraw")
  /\ places' = [places EXCEPT ![cmd[a].item.what] = @ \ {"deployed"}]
  /\ Goto(a, "clear")
  /\ UNCHANGED <<c, meta, file, box, bound, foreign, begun, due, overlapped, unserved>>

\* A restore holds back what was deployed, until the portal is up again.
HoldBack(a) ==
  \E i \in Initializers :
    /\ "deployed" \in places[i]
    /\ Begin(a, [Idle EXCEPT !.kind = "restore", !.pc = "clear",
                             !.item = [what |-> i, from |-> "deployed", to |-> "staged"]])
    /\ UNCHANGED <<c, meta, file, box, bound, foreign, places, due, unserved>>

\* Only the waiter has more of them.
Moved(a) ==
  IF cmd[a].kind \in {"run", "wait"}
  THEN cmd' = [cmd EXCEPT ![a] = [cmd[a] EXCEPT !.pc = "deploying", !.item = Nothing]]
  ELSE End(a, "done")

\* destination.unlink()
Clear(a) ==
  /\ At(a, "clear")
  /\ places' = [places EXCEPT ![cmd[a].item.what] = @ \ {cmd[a].item.to}]
  /\ Goto(a, "move")
  /\ UNCHANGED <<c, meta, file, box, bound, foreign, begun, due, overlapped, unserved>>

\* Mutant: the source is moved away first.
LeavesFirst(move) == [places EXCEPT ![move.what] = @ \ {move.from}]

\* safe_move copies under another name and renames.
Arrives(move) == [places EXCEPT ![move.what] = @ \cup {move.to}]

\* Without its source nothing moves: reported, and the next one is tried.
Move(a) ==
  /\ At(a, "move")
  /\ LET move == cmd[a].item
     IN  IF move.from \in places[move.what]
         THEN /\ places' = Arrives(move)
              /\ Goto(a, "leave")
         ELSE /\ UNCHANGED places
              /\ Moved(a)
  /\ UNCHANGED <<c, meta, file, box, bound, foreign, begun, due, overlapped, unserved>>

Leave(a) ==
  /\ At(a, "leave")
  /\ places' = [places EXCEPT ![cmd[a].item.what] = @ \ {cmd[a].item.from}]
  /\ Moved(a)
  /\ UNCHANGED <<c, meta, file, box, bound, foreign, begun, due, overlapped, unserved>>

-----------------------------------------------------------------------------
(* The rest of the world                                                   *)

\* flag_reindex: read, marked and written at once.
Reindex ==
  /\ Counted
  /\ meta' = [meta EXCEPT !.reindex = TRUE]
  /\ due' = TRUE
  /\ UNCHANGED <<c, file, box, bound, foreign, places, cmd, unserved>>

\* `ldm stop` takes no lock.
Stop ==
  /\ DOMAIN bound # {}
  /\ Counted
  /\ box' = IF Running(box) THEN [box EXCEPT !.state = "exited"] ELSE box
  /\ bound' = <<>>
  /\ UNCHANGED <<c, meta, file, foreign, places, cmd, due, unserved>>

\* `ldm start`: the containers as they are.
StartAgain ==
  /\ Unlocked
  /\ ~Running(box)
  /\ box.state # "absent"
  /\ Bindable(DOMAIN file.services)
  /\ Counted
  /\ box' = Boot(box)
  /\ bound' = Bind(DOMAIN file.services)
  /\ due' = (due /\ ~box.reindex)
  /\ UNCHANGED <<c, meta, file, foreign, places, cmd, unserved>>

\* The portal prints its startup line; who polls will see it.
PortalIsUp ==
  /\ box.state = "booting"
  /\ box' = [box EXCEPT !.state = "up", !.log = TRUE]
  /\ cmd' = [a \in Actors |-> IF At(a, "poll")
                              THEN [cmd[a] EXCEPT !.unread = TRUE, !.served = TRUE]
                              ELSE cmd[a]]
  /\ UNCHANGED <<c, meta, file, bound, foreign, places, begun, due, overlapped, unserved>>

PortalDies ==
  /\ Running(box)
  /\ box' = [box EXCEPT !.state = "exited"]
  /\ bound' = Unbind({Portal})
  /\ UNCHANGED <<c, meta, file, foreign, places, cmd, begun, due, overlapped, unserved>>

\* Another program takes a port, until it is gone: one at a time.
OthersTake ==
  /\ c.others
  /\ foreign = {}
  /\ \E p \in Ports \ Held : foreign' = {p}
  /\ UNCHANGED <<c, meta, file, box, bound, places, cmd, begun, due, overlapped, unserved>>

\* Ctrl+C, or killed.
Killed(a) ==
  /\ Active(a)
  /\ End(a, "killed")
  /\ UNCHANGED <<c, meta, file, box, bound, foreign, places, begun, due, overlapped, unserved>>

-----------------------------------------------------------------------------
Init ==
  /\ c \in Configs
  /\ meta = [reindex |-> FALSE, ports |-> <<>>]
  /\ file = Nothing
  /\ box = NoBox
  /\ bound = <<>>
  /\ foreign = {}
  /\ places = [i \in Initializers |-> {}]
  /\ cmd = [a \in Actors |-> Idle]
  /\ begun = 0
  /\ due = FALSE
  /\ overlapped = FALSE
  /\ unserved = FALSE

RunSteps(a) ==
  \/ Run(a) \/ Store(a) \/ Look(a) \/ Scan(a) \/ FindPort(a) \/ Looked(a)
  \/ Generate(a) \/ Check(a) \/ CheckFails(a)

ContainerSteps(a) ==
  \/ Create(a) \/ DatabaseFails(a) \/ Recreate(a) \/ Copy(a) \/ CopyFails(a)
  \/ Copied(a) \/ Start(a) \/ Rest(a) \/ RestFails(a)

WaitSteps(a) ==
  \/ Wait(a) \/ Poll(a) \/ PollFails(a) \/ Reindexed(a) \/ Pending(a)
  \/ Deploy(a) \/ Deployed(a) \/ Probe(a)

MoveSteps(a) ==
  \/ Sync(a) \/ Unpack(a) \/ Withdraw(a) \/ HoldBack(a)
  \/ Clear(a) \/ Move(a) \/ Leave(a)

World == Reindex \/ Stop \/ StartAgain \/ PortalIsUp \/ PortalDies \/ OthersTake

Next ==
  \/ \E a \in Actors :
       RunSteps(a) \/ ContainerSteps(a) \/ WaitSteps(a) \/ MoveSteps(a) \/ Killed(a)
  \/ World

Spec == Init /\ [][Next]_vars

-----------------------------------------------------------------------------
(* Properties                                                              *)

Commands == {"none", "run", "look", "recreate", "wait", "sync", "restore"}

Outcomes == {"none", "done", "failed", "stopped", "not ready", "ready", "killed"}

TypeOK ==
  /\ meta.reindex \in BOOLEAN
  /\ \A x \in DOMAIN meta.ports : meta.ports[x] \in Ports
  /\ box.state \in {"absent", "created", "booting", "up", "exited"}
  /\ foreign \subseteq Ports
  /\ \A i \in Initializers : places[i] \subseteq {"root", "staged", "deployed"}
  /\ \A a \in Actors : cmd[a].kind \in Commands /\ cmd[a].outcome \in Outcomes
  /\ begun \in 0..c.commands

\* What setup_global_search and setup_global_database bring up for this run.
Provisioned ==
  (IF SearchMode(c) = "shared" THEN {Global("search")} ELSE {})
  \cup (IF DatabaseOf(c).mode = "shared" THEN {Global(SharedServer(c.engine))} ELSE {})

\* Where the portal can find something.
Reachable(services) == DOMAIN services \cup Provisioned \cup {Elsewhere}

\* The project's own domain, and a host given for its domain, do not reach both
\* of those that work the tunnel's address out: see the README.
Misread ==
  c.gatewayEnv = "unset" /\ IF c.domainArg = "unset" THEN c.domain # "unset"
                            ELSE c.domainArg = HostOnSe

\* The portal builds its addresses on the domain of the gateway that its sidecar
\* dials, and takes what comes from there.
AddressesAgree ==
  (HasTunnel(c) /\ ~c.tunnelCors) =>
    /\ (c.announced = "unset" /\ PublicDomain(c) \in Known(c) /\ ~Misread) =>
         DialledGateway(c) = WebHost(c)
    /\ c.gatewayEnv = "unset" => DialledGateway(c) \in ValidHosts(c)

\* What a service waits for is in the file, and has a healthcheck if the wait is
\* for its health.
WaitsAreMet ==
  \A s \in DOMAIN file.services : \A d \in DOMAIN file.services[s].needs :
    /\ d \in DOMAIN file.services
    /\ file.services[s].needs[d] = Healthy => file.services[d].healthcheck

VolumesAreDeclared ==
  \A s \in DOMAIN file.services : file.services[s].mounts \subseteq file.volumes

\* What the portal is told of is there, at that port.
PortalIsToldRight ==
  /\ {DatabaseHost(c), SearchHost(c)} \subseteq Reachable(file.services)
  /\ \A r \in Routes(c) :
       r.host \in DOMAIN file.services /\ file.services[r.host].answersOn = r.port

PortsAreApart ==
  \A d, e \in ServiceExts(c) :
    d # e => Published(ExtName(d)) \cap Published(ExtName(e)) = {}

\* The file of a run holds together: each service waits for services that are
\* in it, and for their health only if they say what that is; every volume is
\* declared; the database, the search engine and each extension the portal is
\* told of are in the file, at that port, or among what the run has brought up;
\* no two extensions are published on one port, however often and by whom they
\* were scanned before; the two scans make the same of a built extension; the
\* portal and its tunnel agree on their address.  (composer.py:560-777 puts
\* together what fifteen builders return, each with its own idea of what the
\* others do; a scan knows the ports in its own copy of the metadata only,
\* metadata.py:329-369.)  The
\* "clustered" archetype waits for a service that no file has: see the README.
FileHoldsTogether ==
  (file # Nothing /\ c.archetype # "clustered") =>
    /\ WaitsAreMet
    /\ VolumesAreDeclared
    /\ PortalIsToldRight
    /\ PortsAreApart
    /\ \A e \in c.exts : e.agree
    /\ AddressesAgree

\* The projects of which that is true: their database is one the run accepts;
\* their extensions are what the scans made of them, each with an id of its own
\* that is not the database's; custom containers do not take the portal's name,
\* and wait for each other or for the portal; a gateway's list has domains in it,
\* not hosts or keywords.  See the README for what becomes of the others.
Usual(k) ==
  /\ k.engine \in Engines /\ Accepted(k)
  /\ \A e \in k.exts :
       /\ e.from.built \in Archives /\ e.from.unpacked \in Archives
       /\ e = Scanned(e.id, e.from, e.scale)
  /\ \A d, e \in ServiceExts(k) : d.id = e.id => d = e
  /\ OwnsDatabase(k) => \A e \in ServiceExts(k) : ExtName(e) # Database
  /\ \A x \in Customs(k) :
       /\ CustomName(x) # Portal
       /\ {<<n>> : n \in x.needs} \subseteq {Portal} \cup {CustomName(y) : y \in Customs(k)}
  /\ k.ownDomains \in Seq(STRING) /\ k.advertised \in Seq(STRING)
  /\ Known(k) \cap {"unset", "default", HostOnSe} = {}
  /\ k.gatewayEnv # HostOnSe

\* A site initializer that has reached the project is somewhere in it: held
\* back, deployed, or in its own folder, whatever was killed between two
\* steps of a move.  Two commands that move it at the same time can lose it
\* (site_initializers.py:190-277, hydration.py:143-226).
InitializerSurvives ==
  [][\A i \in Initializers : places'[i] = {} => places[i] = {} \/ overlapped]_vars

\* A command that says the portal is ready has waited while it came up, or has
\* found it up, unless the log it read still had the line of an earlier boot
\* of that container (readiness.py:875-951).
ReadyMeansServed ==
  \A a \in Actors : cmd[a].outcome = "ready" => cmd[a].served \/ cmd[a].stale

\* A reindex that was asked for stays on record until a boot has done it, over
\* runs that fail, are killed or only generate the file.  Whole metadata copies
\* of other commands can undo the request, and a command that finds the portal
\* up takes it for done (readiness.py:956-1043, composer.py:1036, base.py:39).
ReindexIsNotLost == due => meta.reindex \/ overlapped \/ unserved

\* A run that started the portal itself and found it ready has started it with
\* all patches in place (run.py:2797-3058).
PatchesAreIn ==
  \A a \in Actors :
    (cmd[a].booted /\ cmd[a].pc \in {"poll", "reindex", "deploy"} /\ ~overlapped) =>
      box.loaded = c.patches
=============================================================================
