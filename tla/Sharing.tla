------------------------------- MODULE Sharing -------------------------------
(***************************************************************************)
(* Sharing a project on the internet (handlers/share.py): a background     *)
(* client on the host, or a sidecar container of the project, opens a      *)
(* tunnel; the project's metadata says which of them, and by that alone    *)
(* `ldm share stop` knows what to close.  Share commands take no project   *)
(* lock: they read the metadata, work for a while and write all of it      *)
(* back, beside `ldm run`, which shares too, and the commands that start,  *)
(* recreate and remove the containers.  Any call may fail, any command may *)
(* be killed.                                                              *)
(***************************************************************************)
EXTENDS Naturals

CONSTANTS
  Actors,       \* terminals
  Subdomains,   \* DNS labels, of the host's clients
  Label,        \* the one made of the project's name
  Commands      \* bound: commands that are begun

ASSUME SubdomainsAssumption ==
  /\ Label \in Subdomains
  /\ Subdomains \cap {"none", "tunnel", "ngrok"} = {}
ASSUME CommandsAssumption == Commands \in Nat

VARIABLES
  meta,       \* what the project's metadata says of sharing
  compose,    \* the sidecars docker-compose.yml names
  clients,    \* subdomains a background client runs for
  sidecars,   \* the sidecars' containers
  portal,     \* the project's containers
  cmd,        \* the command of each actor
  ways,       \* history: the ways the project was ever asked to be shared in
  overlap,    \* history: two commands of the project ran at once
  begun       \* commands begun

project == <<meta, compose, portal>>
tunnels == <<clients, sidecars>>
history == <<ways, overlap, begun>>
vars == <<project, tunnels, cmd, history>>

Native == "lfr-tunnel"
Docker == "lfr-tunnel-docker"
Providers == {Native, Docker, "ngrok"}

\* The services of the compose file, and which provider each belongs to.
Sidecar == {"tunnel", "ngrok"}
Service == [p \in {Docker, "ngrok"} |-> IF p = Docker THEN "tunnel" ELSE "ngrok"]

Meta ==
  [share : BOOLEAN, expose : BOOLEAN, provider : Providers \cup {"none"},
   sub : Subdomains \cup {"none"}]
Unshared ==
  [share |-> FALSE, expose |-> FALSE, provider |-> "none", sub |-> "none"]

\* locked: it holds the project's lock.  before: what was open when it began
\* to share.
NoCommand ==
  [op |-> "none", step |-> "idle", provider |-> Native, sub |-> Label,
   copy |-> Unshared, locked |-> FALSE, before |-> {}]

Steps ==
  {"idle", "asked", "saved", "equipped", "current", "trusted", "composed", "launched",
   "unhealthy", "shared", "failed", "stranded", "stopped", "ran"}
Ended == {"shared", "failed", "stranded", "stopped", "ran"}

Command ==
  [op : {"none", "share", "unshare", "run"}, step : Steps, provider : Providers,
   sub : Subdomains, copy : Meta, locked : BOOLEAN,
   before : SUBSET (Subdomains \cup Sidecar)]

\* What is open to the internet.
Open == clients \cup {s \in Sidecar : sidecars[s] = "running"}

TypeOK ==
  /\ meta \in Meta
  /\ compose \in SUBSET Sidecar
  /\ clients \in SUBSET Subdomains
  /\ sidecars \in [Sidecar -> {"none", "stopped", "running"}]
  /\ portal \in {"none", "stopped", "running"}
  /\ cmd \in [Actors -> Command]
  /\ ways \in SUBSET (Subdomains \cup Sidecar)
  /\ overlap \in BOOLEAN
  /\ begun \in 0..Commands

Init ==
  /\ meta = Unshared
  /\ compose = {}
  /\ clients = {}
  /\ sidecars = [s \in Sidecar |-> "none"]
  /\ portal \in {"none", "running"}
  /\ cmd = [a \in Actors |-> NoCommand]
  /\ ways = {}
  /\ overlap = FALSE
  /\ begun = 0

Locked == \E a \in Actors : cmd[a].locked
Busy == {a \in Actors : cmd[a].step # "idle"}
At(a, op, step) == cmd[a].op = op /\ cmd[a].step = step
Goto(a, step) == cmd' = [cmd EXCEPT ![a].step = step]

Count ==
  /\ begun < Commands
  /\ begun' = begun + 1
  /\ overlap' = (overlap \/ Busy # {})

\* resolve_share_config(): the command line, else the metadata, else the
\* setting of the machine, which stands for any of them.
Provider(asked, m) ==
  IF asked # "none" THEN {asked}
  ELSE IF m.provider # "none" THEN {m.provider}
  ELSE Providers

\* _resolve_subdomain(): --subdomain, else the label that the domain asked for
\* carries, else the project's name; a contradiction is refused.  What the
\* metadata remembers is not asked.
Subdomain(requested, carried) ==
  IF requested # "none" /\ carried # "none" /\ requested # carried THEN {}
  ELSE IF requested # "none" THEN {requested}
  ELSE IF carried # "none" THEN {carried}
  ELSE {Label}

Way(provider, sub) == IF provider = Native THEN sub ELSE Service[provider]

\* cmd_start(): reads the metadata.  The host's client has nothing to reach
\* unless the project runs; the sidecars are not asked.
Ask(a, p, s) ==
  cmd' = [cmd EXCEPT ![a] =
    [NoCommand EXCEPT !.op = "share", !.step = "asked", !.provider = p, !.sub = s,
                      !.copy = meta, !.before = Open, !.locked = cmd[a].locked]]

BeginShare(a) ==
  /\ cmd[a].step = "idle"
  /\ Count
  /\ \E asked \in Providers \cup {"none"}, requested, carried \in Subdomains \cup {"none"} :
       \E p \in Provider(asked, meta) :
         \E s \in Subdomain(requested, carried) :
           /\ Ask(a, p, s)
           /\ ways' = ways \cup {Way(p, s)}
  /\ UNCHANGED <<project, tunnels>>

\* _assert_target_is_running() and _assert_provider_can_reach_target(), for the
\* host's client; no project, token or recent image, for a sidecar.
RefuseShare(a) ==
  /\ At(a, "share", "asked")
  /\ Goto(a, "failed")
  /\ UNCHANGED <<project, tunnels, history>>

\* Mutant: no provider records itself.
SharedAnyWay(m, p, s) ==
  [m EXCEPT !.sub = s,
            !.share = IF p = Native THEN m.share ELSE TRUE,
            !.expose = IF p = "ngrok" THEN TRUE ELSE m.expose]

\* The metadata as it was read, with the way to share, before anything is
\* opened.  The native client leaves the provider out.
Shared(m, p, s) ==
  [m EXCEPT !.sub = s,
            !.share = IF p = Native THEN m.share ELSE TRUE,
            !.expose = IF p = "ngrok" THEN TRUE ELSE m.expose,
            !.provider = IF p = Native THEN m.provider ELSE p]

SaveShared(a) ==
  /\ At(a, "share", "asked")
  /\ cmd[a].provider = Native => portal = "running"
  /\ LET m == Shared(cmd[a].copy, cmd[a].provider, cmd[a].sub) IN
       /\ meta' = m
       /\ cmd' = [cmd EXCEPT ![a].copy = m, ![a].step = "saved"]
  /\ UNCHANGED <<compose, portal, tunnels, history>>

\* _ensure_binary(): the client that is there, or the one that the command of
\* the user's settings installs, which the user has to agree to.
Equip(a) ==
  /\ At(a, "share", "saved")
  /\ cmd[a].provider = Native
  /\ Goto(a, "equipped")
  /\ UNCHANGED <<project, tunnels, history>>

\* _verify_compatibility(): the gateway tells which clients it takes; when it
\* cannot be asked any client will do.
CheckClient(a) ==
  /\ At(a, "share", "equipped")
  /\ Goto(a, "current")
  /\ UNCHANGED <<project, tunnels, history>>

\* _get_auth_token(): of the environment, the keyring, a file or the settings,
\* or asked for and put into the first of these that takes it.
Authenticate(a) ==
  /\ At(a, "share", "current")
  /\ Goto(a, "trusted")
  /\ UNCHANGED <<project, tunnels, history>>

\* The host's client goes to the background.
Launch(a) ==
  /\ At(a, "share", "trusted")
  /\ cmd[a].provider = Native
  /\ cmd[a].sub \notin clients
  /\ clients' = clients \cup {cmd[a].sub}
  /\ Goto(a, "launched")
  /\ UNCHANGED <<project, sidecars, history>>

\* There is no client, no token, or the client is too old, is already running,
\* or fails: nothing is stopped.
FailLaunch(a) ==
  /\ cmd[a].op = "share" /\ cmd[a].provider = Native
  /\ cmd[a].step \in {"saved", "equipped", "current", "trusted"}
  /\ Goto(a, "failed")
  /\ UNCHANGED <<project, tunnels, history>>

\* The sidecars that the composer adds for this metadata.
Composed(m) ==
  {s \in Sidecar : \/ s = "tunnel" /\ m.share /\ m.provider = Docker
                   \/ s = "ngrok" /\ m.expose}

\* cmd_run(no_up=True) with the metadata as this command has it: metadata and
\* compose file are written again.  What it returns is not looked at.
Regenerate(a) ==
  /\ At(a, "share", "saved")
  /\ cmd[a].provider # Native
  /\ Goto(a, "composed")
  /\ \/ meta' = cmd[a].copy /\ compose' = Composed(cmd[a].copy)
     \/ UNCHANGED <<meta, compose>>
  /\ UNCHANGED <<portal, tunnels, history>>

\* compose up -d of one service.
UpSidecar(a) ==
  LET s == Service[cmd[a].provider] IN
  /\ At(a, "share", "composed")
  /\ s \in compose
  /\ sidecars' = [sidecars EXCEPT ![s] = "running"]
  /\ Goto(a, IF cmd[a].provider = Docker THEN "launched" ELSE "shared")
  /\ UNCHANGED <<project, clients, history>>

FailUpSidecar(a) ==
  LET s == Service[cmd[a].provider] IN
  /\ At(a, "share", "composed")
  /\ Goto(a, "failed")
  /\ \/ UNCHANGED sidecars
     \/ /\ s \in compose /\ sidecars[s] = "none"
        /\ sidecars' = [sidecars EXCEPT ![s] = "stopped"]
  /\ UNCHANGED <<project, clients, history>>

\* _poll_tunnel_health(): ten seconds for client and gateway to be connected.
Healthy(a) ==
  /\ At(a, "share", "launched")
  /\ Way(cmd[a].provider, cmd[a].sub) \in Open
  /\ Goto(a, "shared")
  /\ UNCHANGED <<project, tunnels, history>>

\* Mutant: what came up without being healthy is left for the user to look at.
TimeOutAndDie(a) ==
  /\ At(a, "share", "launched")
  /\ Goto(a, "failed")
  /\ UNCHANGED <<project, tunnels, history>>

TimeOut(a) ==
  /\ At(a, "share", "launched")
  /\ Goto(a, "unhealthy")
  /\ UNCHANGED <<project, tunnels, history>>

\* The client is stopped, or the sidecar removed; a failure of that is ignored.
CloseUnhealthy(a) ==
  /\ At(a, "share", "unhealthy")
  /\ \/ /\ cmd[a].provider = Native
        /\ clients' = clients \ {cmd[a].sub}
        /\ Goto(a, "failed")
        /\ UNCHANGED sidecars
     \/ /\ cmd[a].provider = Docker
        /\ "tunnel" \in compose
        /\ sidecars' = [sidecars EXCEPT !["tunnel"] = "none"]
        /\ Goto(a, "failed")
        /\ UNCHANGED clients
     \/ Goto(a, "stranded") /\ UNCHANGED tunnels
  /\ UNCHANGED <<project, history>>

----------------------------------------------------------------------------
\* What `ldm share stop` and `ldm share status` take the tunnel for.
Recorded(m) ==
  IF m.provider = "ngrok" \/ m.expose THEN "ngrok"
  ELSE IF m.provider = Docker THEN "tunnel"
  ELSE IF m.sub = "none" THEN Label ELSE m.sub

BeginUnshare(a) ==
  /\ cmd[a].step = "idle"
  /\ Count
  /\ cmd' = [cmd EXCEPT ![a] =
       [NoCommand EXCEPT !.op = "unshare", !.step = "asked", !.copy = meta]]
  /\ UNCHANGED <<project, tunnels, ways>>

\* For a sidecar the metadata is written first.
SaveUnshared(a) ==
  LET m == cmd[a].copy IN
  /\ At(a, "unshare", "asked")
  /\ Recorded(m) \in Sidecar
  /\ meta' = [m EXCEPT !.share = FALSE,
                       !.expose = IF Recorded(m) = "ngrok" THEN FALSE ELSE m.expose]
  /\ Goto(a, "saved")
  /\ UNCHANGED <<compose, portal, tunnels, history>>

\* Mutant: compose rm -f, which leaves a container that runs.
RemoveSidecarUnlessUp(a) ==
  LET s == Recorded(cmd[a].copy) IN
  /\ At(a, "unshare", "saved")
  /\ s \in compose
  /\ sidecars' = [sidecars EXCEPT ![s] = IF sidecars[s] = "running" THEN "running" ELSE "none"]
  /\ Goto(a, "stopped")
  /\ UNCHANGED <<project, clients, history>>

\* compose rm -fs of one service.
RemoveSidecar(a) ==
  LET s == Recorded(cmd[a].copy) IN
  /\ At(a, "unshare", "saved")
  /\ s \in compose
  /\ sidecars' = [sidecars EXCEPT ![s] = "none"]
  /\ Goto(a, "stopped")
  /\ UNCHANGED <<project, clients, history>>

\* Of the client a failure is printed, but the command exits 0.
StopClient(a) ==
  LET s == Recorded(cmd[a].copy) IN
  /\ At(a, "unshare", "asked")
  /\ s \in clients
  /\ clients' = clients \ {s}
  /\ Goto(a, "stopped")
  /\ UNCHANGED <<project, sidecars, history>>

FailUnshare(a) ==
  /\ \/ At(a, "unshare", "saved")
     \/ At(a, "unshare", "asked") /\ Recorded(cmd[a].copy) \notin Sidecar
  /\ Goto(a, "failed")
  /\ UNCHANGED <<project, tunnels, history>>

----------------------------------------------------------------------------
\* `ldm run`, with --share or without, holds the project's lock.  A project
\* that runs is not run again.
BeginRun(a) ==
  /\ cmd[a].step = "idle"
  /\ ~Locked
  /\ portal # "running"
  /\ Count
  /\ cmd' = [cmd EXCEPT ![a] =
       [NoCommand EXCEPT !.op = "run", !.step = "asked", !.copy = meta,
                         !.locked = TRUE]]
  /\ UNCHANGED <<project, tunnels, ways>>

\* _resolve_share_and_expose(): what was once shared is shared again; a
\* provider is recorded even for a project that is not.  share: --share.
Configured(m, share, p, s) ==
  LET shared == share \/ m.share
      provider == IF share THEN p ELSE IF m.provider = "none" THEN Native ELSE m.provider
  IN [share |-> shared, provider |-> provider,
      expose |-> m.expose \/ (shared /\ provider = "ngrok"),
      sub |-> IF share THEN s ELSE m.sub]

Configure(a) ==
  /\ At(a, "run", "asked")
  /\ \E share \in BOOLEAN, p \in Providers, s \in Subdomains :
       LET m == Configured(cmd[a].copy, share, p, s) IN
       /\ ~share => p = Native /\ s = Label
       /\ meta' = m
       /\ compose' = Composed(m)
       /\ ways' = IF share THEN ways \cup {Way(p, s)} ELSE ways
       /\ cmd' = [cmd EXCEPT ![a].copy = m, ![a].step = "composed"]
  /\ UNCHANGED <<portal, tunnels, overlap, begun>>

Recreated == [s \in Sidecar |-> IF s \in compose THEN "running" ELSE "none"]

\* The metadata is stamped, then compose up -d --remove-orphans; a project that
\* is shared is handed to cmd_start() when it is ready, in the same process.
Boot(a) ==
  LET m == cmd[a].copy IN
  /\ At(a, "run", "composed")
  /\ meta' = m
  /\ portal' = "running"
  /\ sidecars' = Recreated
  /\ IF m.share
     THEN cmd' = [cmd EXCEPT ![a] =
            [NoCommand EXCEPT
               !.op = "share", !.step = "asked",
               !.provider = IF m.provider = "none" THEN Native ELSE m.provider,
               !.sub = IF m.sub = "none" THEN Label ELSE m.sub, !.copy = m,
               !.before = clients \cup {s \in Sidecar : s \in compose},
               !.locked = TRUE]]
     ELSE Goto(a, "ran")
  /\ UNCHANGED <<compose, clients, history>>

FailRun(a) ==
  /\ cmd[a].op = "run" /\ cmd[a].step \in {"asked", "composed"}
  /\ Goto(a, "failed")
  /\ UNCHANGED <<project, tunnels, history>>

----------------------------------------------------------------------------
\* Commands that only move the containers; they know nothing of the clients.
Lifecycle ==
  /\ ~Locked
  /\ Count
  /\ UNCHANGED <<meta, compose, clients, cmd, ways>>

StopProject ==
  /\ Lifecycle
  /\ portal = "running"
  /\ portal' = "stopped"
  /\ sidecars' = [s \in Sidecar |-> IF sidecars[s] = "none" THEN "none" ELSE "stopped"]

StartProject ==
  /\ Lifecycle
  /\ portal # "none"
  /\ portal' = "running"
  /\ sidecars' = [s \in Sidecar |-> IF sidecars[s] = "none" THEN "none" ELSE "running"]

RecreateProject ==
  /\ Lifecycle
  /\ portal' = "running"
  /\ sidecars' = Recreated

RemoveProject ==
  /\ Lifecycle
  /\ portal' = "none"
  /\ sidecars' = [s \in Sidecar |-> "none"]

\* A client ends by itself: its gateway goes away, or the machine sleeps.
ClientEnds ==
  /\ \E s \in clients : clients' = clients \ {s}
  /\ UNCHANGED <<project, sidecars, cmd, history>>

Leave(a) ==
  /\ cmd[a].step \in Ended
  /\ cmd' = [cmd EXCEPT ![a] = NoCommand]
  /\ UNCHANGED <<project, tunnels, history>>

Kill(a) ==
  /\ cmd[a].step \notin Ended \cup {"idle"}
  /\ cmd' = [cmd EXCEPT ![a] = NoCommand]
  /\ UNCHANGED <<project, tunnels, history>>

Share(a) ==
  \/ BeginShare(a) \/ RefuseShare(a) \/ SaveShared(a) \/ Equip(a) \/ CheckClient(a)
  \/ Authenticate(a) \/ Launch(a) \/ FailLaunch(a)
  \/ Regenerate(a) \/ UpSidecar(a) \/ FailUpSidecar(a) \/ Healthy(a) \/ TimeOut(a)
  \/ CloseUnhealthy(a)
Unshare(a) ==
  \/ BeginUnshare(a) \/ SaveUnshared(a) \/ RemoveSidecar(a) \/ StopClient(a)
  \/ FailUnshare(a)
Run(a) == BeginRun(a) \/ Configure(a) \/ Boot(a) \/ FailRun(a)

Next ==
  \/ \E a \in Actors : Share(a) \/ Unshare(a) \/ Run(a) \/ Leave(a) \/ Kill(a)
  \/ StopProject \/ StartProject \/ RecreateProject \/ RemoveProject \/ ClientEnds

Spec == Init /\ [][Next]_vars
----------------------------------------------------------------------------
\* The metadata remembers one provider and one subdomain.
OneWay == \A v, w \in ways : v = w
Undisturbed == OneWay /\ ~overlap

\* What is open can be found: whatever command failed or was killed, and
\* whichever lifecycle command brought a sidecar up again, `ldm share status`
\* and `ldm share stop` look where the tunnel is (the provider is recorded
\* before anything is opened).  Of a project that was shared in two ways this
\* is not so.
OpenIsOnRecord == Undisturbed /\ Busy = {} => Open \subseteq {Recorded(meta)}

\* "To terminate the active sharing session" (docs/how-to/sharing_tunnels.md):
\* after a stop that says so nothing is open.
StopEndsSharing ==
  \A a \in Actors : At(a, "unshare", "stopped") /\ Undisturbed => Open = {}

\* A start that dies has opened nothing, unless its cleaning up failed: what is
\* open then was open before (share.py:1522, share.py:1702).
FailedShareOpensNothing ==
  \A a \in Actors : At(a, "share", "failed") /\ ~overlap => Open \subseteq cmd[a].before
=============================================================================
