------------------------- MODULE SharingAndMonitorProofs -------------------------
(***************************************************************************)
(* Proofs about two things that go on in the background, for any terminals *)
(* and subdomains, artifacts, branches, timers and builds.  Sharing: what  *)
(* is open is on record, a stop that says so ends the sharing, and a start *)
(* that dies has opened nothing.  Monitor: what is copied by one at a time *)
(* is the last build, in the project and on the node.                      *)
(***************************************************************************)
EXTENDS Sharing, Monitor, SequenceTheorems, TLAPS

-----------------------------------------------------------------------------
(* Sharing                                                                 *)

\* One command at a time, as long as no two overlapped.
Alone == \A a, b \in Actors : a \in Busy /\ b \in Busy => a = b

\* What metadata says belongs to a way the project was asked to be shared in.
Founded(m) ==
  /\ m.expose => m.provider = "ngrok"
  /\ m.provider = "ngrok" => "ngrok" \in ways
  /\ m.provider = Docker => "tunnel" \in ways
  /\ m.share =>
       /\ m.provider # "none"
       /\ Way(m.provider, IF m.sub = "none" THEN Label ELSE m.sub) \in ways

\* Containers and compose file have the sidecar of the recorded provider, the
\* host a client for the recorded subdomain.
Placed ==
  /\ "tunnel" \in compose \/ sidecars["tunnel"] # "none" => meta.provider = Docker
  /\ "ngrok" \in compose \/ sidecars["ngrok"] # "none" => meta.provider = "ngrok"
  /\ \A s \in clients : s \in ways /\ meta.sub = s

\* The metadata is saved, nothing is open or not yet known to be healthy.
Starting ==
  {"saved", "equipped", "current", "trusted", "composed", "launched", "unhealthy"}

\* A command in flight has the metadata as it is.
InFlight(a) ==
  LET c == cmd[a] IN
  /\ c.op = "share" /\ c.step \in Starting \cup {"asked"} =>
       c.copy = meta /\ Way(c.provider, c.sub) \in ways
  /\ c.op = "share" /\ c.step \in Starting =>
       /\ meta.sub = c.sub
       /\ c.provider # Native => meta.provider = c.provider
  /\ c.op = "run" /\ c.step \in {"asked", "composed"} => c.copy = meta
  /\ c.op = "unshare" /\ c.step = "asked" => c.copy = meta
  /\ c.op = "unshare" /\ c.step = "saved" =>
       Recorded(c.copy) \in Sidecar /\ Recorded(meta) = Recorded(c.copy)
  /\ c.op = "unshare" /\ c.step = "stopped" => Open = {}

\* What a start has opened so far is its own tunnel.
Opened(a) ==
  LET c == cmd[a] IN
  /\ c.op = "share" /\ c.step \in (Starting \ {"launched", "unhealthy"}) \cup {"asked", "failed"} =>
       Open \subseteq c.before
  /\ c.op = "share" /\ c.step \in {"launched", "unhealthy"} =>
       Open \subseteq c.before \cup {Way(c.provider, c.sub)}

IInv ==
  /\ TypeOK
  /\ ~overlap => Alone /\ \A a \in Actors : Opened(a)
  /\ Undisturbed => Founded(meta) /\ Placed /\ \A a \in Actors : InFlight(a)

----------------------------------------------------------------------------
USE DEF Native, Docker, Starting

LEMMA UnsharedType == Unshared \in Meta
  BY DEF Unshared, Meta

LEMMA NoCommandType == NoCommand \in Command
<1> USE SubdomainsAssumption DEF SubdomainsAssumption
<1>1. Label \in Subdomains /\ Native \in Providers /\ "idle" \in Steps
  BY DEF Providers, Steps
<1> QED BY <1>1, UnsharedType DEF NoCommand, Command

LEMMA CommandFields ==
  ASSUME NEW c \in Command
  PROVE  /\ c.op \in {"none", "share", "unshare", "run"}
         /\ c.step \in Steps
         /\ c.provider \in Providers
         /\ c.sub \in Subdomains
         /\ c.copy \in Meta
         /\ c.locked \in BOOLEAN
         /\ c.before \in SUBSET (Subdomains \cup Sidecar)
  BY DEF Command

\* What replaces the command of one actor.
LEMMA CommandSet ==
  ASSUME TypeOK, NEW a \in Actors, NEW c \in Command,
         cmd' = [cmd EXCEPT ![a] = c]
  PROVE  cmd' \in [Actors -> Command]
  BY DEF TypeOK

LEMMA CommandStep ==
  ASSUME TypeOK, NEW a \in Actors, NEW step \in Steps, Goto(a, step)
  PROVE  cmd' \in [Actors -> Command]
<1>1. cmd[a] \in Command BY DEF TypeOK
<1>2. [cmd[a] EXCEPT !.step = step] \in Command
  BY <1>1 DEF Command
<1>3. cmd' = [cmd EXCEPT ![a] = [cmd[a] EXCEPT !.step = step]]
  BY DEF Goto, TypeOK
<1> QED BY <1>2, <1>3, CommandSet

LEMMA CommandCopy ==
  ASSUME TypeOK, NEW a \in Actors, NEW step \in Steps, NEW m \in Meta,
         cmd' = [cmd EXCEPT ![a].copy = m, ![a].step = step]
  PROVE  cmd' \in [Actors -> Command]
<1>1. cmd[a] \in Command BY DEF TypeOK
<1>2. [[cmd[a] EXCEPT !.copy = m] EXCEPT !.step = step] \in Command
  BY <1>1 DEF Command
<1>3. cmd' = [cmd EXCEPT ![a] = [[cmd[a] EXCEPT !.copy = m] EXCEPT !.step = step]]
  BY DEF TypeOK
<1> QED BY <1>2, <1>3, CommandSet

LEMMA CountType ==
  ASSUME TypeOK, Count
  PROVE  begun' \in 0..Commands /\ overlap' \in BOOLEAN
  BY CommandsAssumption DEF CommandsAssumption, TypeOK, Count

LEMMA WayType ==
  ASSUME NEW p \in Providers, NEW s \in Subdomains
  PROVE  Way(p, s) \in Subdomains \cup Sidecar
  BY DEF Way, Service, Providers, Sidecar

LEMMA OpenType == TypeOK => Open \in SUBSET (Subdomains \cup Sidecar)
  BY DEF TypeOK, Open

\* The metadata a start saves.
LEMMA SharedType ==
  ASSUME NEW m \in Meta, NEW p \in Providers, NEW s \in Subdomains
  PROVE  Shared(m, p, s) \in Meta
  BY DEF Shared, Meta

LEMMA ConfiguredType ==
  ASSUME NEW m \in Meta, NEW share \in BOOLEAN, NEW p \in Providers, NEW s \in Subdomains
  PROVE  Configured(m, share, p, s) \in Meta
  BY DEF Configured, Meta, Providers

LEMMA TypeInit == Init => TypeOK
<1> SUFFICES ASSUME Init PROVE TypeOK OBVIOUS
<1>1. cmd \in [Actors -> Command]
  BY NoCommandType DEF Init
<1>2. begun \in 0..Commands
  BY CommandsAssumption DEF CommandsAssumption, Init
<1> QED BY <1>1, <1>2, UnsharedType DEF Init, TypeOK

\* The command line and the metadata give a provider and a label.
LEMMA BeginShareAsk ==
  ASSUME TypeOK, NEW a \in Actors, BeginShare(a)
  PROVE  \E p \in Providers, s \in Subdomains :
           Ask(a, p, s) /\ ways' = ways \cup {Way(p, s)}
  BY SubdomainsAssumption
  DEF SubdomainsAssumption, BeginShare, Provider, Subdomain, Providers, TypeOK, Meta

LEMMA AskType ==
  ASSUME TypeOK, NEW a \in Actors, NEW p \in Providers, NEW s \in Subdomains,
         Ask(a, p, s)
  PROVE  cmd' \in [Actors -> Command]
<1> DEFINE c == [NoCommand EXCEPT !.op = "share", !.step = "asked", !.provider = p, !.sub = s,
                   !.copy = meta, !.before = Open, !.locked = cmd[a].locked]
<1>1. meta \in Meta /\ cmd[a].locked \in BOOLEAN
  BY CommandFields DEF TypeOK
<1>2. "asked" \in Steps BY DEF Steps
<1>3. c \in Command
  BY <1>1, <1>2, OpenType, NoCommandType DEF Command
<1>4. cmd' = [cmd EXCEPT ![a] = c] BY DEF Ask
<1> QED BY <1>3, <1>4, CommandSet

LEMMA TypeShare ==
  ASSUME TypeOK, NEW a \in Actors, Share(a)
  PROVE  TypeOK'
<1>s. /\ {"asked", "saved", "composed", "launched", "unhealthy", "shared"} \subseteq Steps
      /\ {"failed", "stranded", "equipped", "current", "trusted"} \subseteq Steps
  BY DEF Steps
<1>0. cmd[a] \in Command BY DEF TypeOK
<1>f. cmd[a].provider \in Providers /\ cmd[a].sub \in Subdomains /\ cmd[a].copy \in Meta
  BY <1>0, CommandFields
<1>1. CASE BeginShare(a)
  <2>1. PICK p \in Providers, s \in Subdomains :
          Ask(a, p, s) /\ ways' = ways \cup {Way(p, s)}
    BY <1>1, BeginShareAsk
  <2>2. cmd' \in [Actors -> Command] BY <2>1, AskType
  <2>3. ways' \in SUBSET (Subdomains \cup Sidecar) BY <2>1, WayType DEF TypeOK
  <2>4. begun' \in 0..Commands /\ overlap' \in BOOLEAN BY <1>1, CountType DEF BeginShare
  <2> QED BY <1>1, <2>2, <2>3, <2>4 DEF TypeOK, BeginShare, project, tunnels
<1>2. CASE RefuseShare(a)
  <2>1. cmd' \in [Actors -> Command] BY <1>2, <1>s, CommandStep DEF RefuseShare
  <2> QED BY <1>2, <2>1 DEF TypeOK, RefuseShare, project, tunnels, history
<1>3. CASE SaveShared(a)
  <2> DEFINE m == Shared(cmd[a].copy, cmd[a].provider, cmd[a].sub)
  <2>1. m \in Meta BY <1>f, SharedType
  <2>2. meta' = m /\ cmd' = [cmd EXCEPT ![a].copy = m, ![a].step = "saved"]
    BY <1>3 DEF SaveShared
  <2> HIDE DEF m
  <2>3. cmd' \in [Actors -> Command] BY <2>1, <2>2, <1>s, CommandCopy
  <2> QED BY <1>3, <2>1, <2>2, <2>3 DEF TypeOK, SaveShared, tunnels, history
<1>4. CASE Launch(a) \/ FailLaunch(a)
  <2>1. cmd' \in [Actors -> Command] BY <1>4, <1>s, CommandStep DEF Launch, FailLaunch
  <2>2. clients' \in SUBSET Subdomains
    BY <1>4, <1>f DEF Launch, FailLaunch, tunnels, TypeOK
  <2> QED BY <1>4, <2>1, <2>2 DEF TypeOK, Launch, FailLaunch, project, tunnels, history
<1>5. CASE Regenerate(a)
  <2>1. cmd' \in [Actors -> Command] BY <1>5, <1>s, CommandStep DEF Regenerate
  <2>2. meta' \in Meta /\ compose' \in SUBSET Sidecar
    BY <1>5, <1>f DEF Regenerate, Composed, TypeOK
  <2> QED BY <1>5, <2>1, <2>2 DEF TypeOK, Regenerate, tunnels, history
<1>6. CASE UpSidecar(a) \/ FailUpSidecar(a)
  <2>1. cmd' \in [Actors -> Command]
    BY <1>6, <1>s, CommandStep DEF UpSidecar, FailUpSidecar
  <2>2. sidecars' \in [Sidecar -> {"none", "stopped", "running"}]
    BY <1>6 DEF UpSidecar, FailUpSidecar, TypeOK
  <2> QED BY <1>6, <2>1, <2>2 DEF TypeOK, UpSidecar, FailUpSidecar, project, tunnels, history
<1>7. CASE Healthy(a) \/ TimeOut(a)
  <2>1. cmd' \in [Actors -> Command] BY <1>7, <1>s, CommandStep DEF Healthy, TimeOut
  <2> QED BY <1>7, <2>1 DEF TypeOK, Healthy, TimeOut, project, tunnels, history
<1>8. CASE CloseUnhealthy(a)
  <2>1. cmd' \in [Actors -> Command] BY <1>8, <1>s, CommandStep DEF CloseUnhealthy
  <2>2. sidecars' \in [Sidecar -> {"none", "stopped", "running"}] /\ clients' \in SUBSET Subdomains
    BY <1>8 DEF CloseUnhealthy, TypeOK, tunnels
  <2> QED BY <1>8, <2>1, <2>2 DEF TypeOK, CloseUnhealthy, project, tunnels, history
<1>9. CASE Equip(a) \/ CheckClient(a) \/ Authenticate(a)
  <2>1. cmd' \in [Actors -> Command]
    BY <1>9, <1>s, CommandStep DEF Equip, CheckClient, Authenticate
  <2> QED BY <1>9, <2>1 DEF TypeOK, Equip, CheckClient, Authenticate, project, tunnels, history
<1> QED BY <1>1, <1>2, <1>3, <1>4, <1>5, <1>6, <1>7, <1>8, <1>9 DEF Share

LEMMA TypeUnshare ==
  ASSUME TypeOK, NEW a \in Actors, Unshare(a)
  PROVE  TypeOK'
<1>s. {"asked", "saved", "stopped", "failed"} \subseteq Steps BY DEF Steps
<1>0. cmd[a].copy \in Meta BY CommandFields DEF TypeOK
<1>1. CASE BeginUnshare(a)
  <2> DEFINE c == [NoCommand EXCEPT !.op = "unshare", !.step = "asked", !.copy = meta]
  <2>1. c \in Command BY <1>s, NoCommandType DEF Command, TypeOK
  <2>2. cmd' = [cmd EXCEPT ![a] = c] BY <1>1 DEF BeginUnshare
  <2> HIDE DEF c
  <2>3. cmd' \in [Actors -> Command] BY <2>1, <2>2, CommandSet
  <2>4. begun' \in 0..Commands /\ overlap' \in BOOLEAN BY <1>1, CountType DEF BeginUnshare
  <2> QED BY <1>1, <2>3, <2>4 DEF TypeOK, BeginUnshare, project, tunnels
<1>2. CASE SaveUnshared(a)
  <2>1. cmd' \in [Actors -> Command] BY <1>2, <1>s, CommandStep DEF SaveUnshared
  <2>2. meta' \in Meta BY <1>2, <1>0 DEF SaveUnshared, Meta
  <2> QED BY <1>2, <2>1, <2>2 DEF TypeOK, SaveUnshared, tunnels, history
<1>3. CASE RemoveSidecar(a) \/ StopClient(a) \/ FailUnshare(a)
  <2>1. cmd' \in [Actors -> Command]
    BY <1>3, <1>s, CommandStep DEF RemoveSidecar, StopClient, FailUnshare
  <2>2. sidecars' \in [Sidecar -> {"none", "stopped", "running"}] /\ clients' \in SUBSET Subdomains
    BY <1>3 DEF RemoveSidecar, StopClient, FailUnshare, TypeOK, tunnels
  <2> QED BY <1>3, <2>1, <2>2
      DEF TypeOK, RemoveSidecar, StopClient, FailUnshare, project, tunnels, history
<1> QED BY <1>1, <1>2, <1>3 DEF Unshare

LEMMA TypeRun ==
  ASSUME TypeOK, NEW a \in Actors, Run(a)
  PROVE  TypeOK'
<1>s. {"asked", "composed", "ran", "failed"} \subseteq Steps BY DEF Steps
<1>0. cmd[a].copy \in Meta BY CommandFields DEF TypeOK
<1>1. CASE BeginRun(a)
  <2> DEFINE c == [NoCommand EXCEPT !.op = "run", !.step = "asked", !.copy = meta,
                                    !.locked = TRUE]
  <2>1. c \in Command BY <1>s, NoCommandType DEF Command, TypeOK
  <2>2. cmd' = [cmd EXCEPT ![a] = c] BY <1>1 DEF BeginRun
  <2> HIDE DEF c
  <2>3. cmd' \in [Actors -> Command] BY <2>1, <2>2, CommandSet
  <2>4. begun' \in 0..Commands /\ overlap' \in BOOLEAN BY <1>1, CountType DEF BeginRun
  <2> QED BY <1>1, <2>3, <2>4 DEF TypeOK, BeginRun, project, tunnels
<1>2. CASE Configure(a)
  <2>1. PICK share \in BOOLEAN, p \in Providers, s \in Subdomains :
          LET m == Configured(cmd[a].copy, share, p, s) IN
          /\ meta' = m
          /\ compose' = Composed(m)
          /\ ways' = IF share THEN ways \cup {Way(p, s)} ELSE ways
          /\ cmd' = [cmd EXCEPT ![a].copy = m, ![a].step = "composed"]
    BY <1>2 DEF Configure
  <2> DEFINE m == Configured(cmd[a].copy, share, p, s)
  <2>2. m \in Meta BY <1>0, ConfiguredType
  <2>3. ways' \in SUBSET (Subdomains \cup Sidecar) BY <2>1, WayType DEF TypeOK
  <2>4. compose' \in SUBSET Sidecar BY <2>1 DEF Composed
  <2>5. meta' = m /\ cmd' = [cmd EXCEPT ![a].copy = m, ![a].step = "composed"] BY <2>1
  <2> HIDE DEF m
  <2>6. cmd' \in [Actors -> Command] BY <2>2, <2>5, <1>s, CommandCopy
  <2> QED BY <1>2, <2>2, <2>3, <2>4, <2>5, <2>6 DEF TypeOK, Configure, tunnels
<1>3. CASE Boot(a)
  <2> DEFINE c == [NoCommand EXCEPT
               !.op = "share", !.step = "asked",
               !.provider = IF cmd[a].copy.provider = "none" THEN Native
                            ELSE cmd[a].copy.provider,
               !.sub = IF cmd[a].copy.sub = "none" THEN Label ELSE cmd[a].copy.sub,
               !.copy = cmd[a].copy,
               !.before = clients \cup {s \in Sidecar : s \in compose},
               !.locked = TRUE]
  <2>1. meta' \in Meta /\ sidecars' \in [Sidecar -> {"none", "stopped", "running"}]
    BY <1>0, <1>3 DEF Boot, Recreated
  <2>2. CASE ~cmd[a].copy.share
    <3>1. cmd' \in [Actors -> Command] BY <1>3, <2>2, <1>s, CommandStep DEF Boot
    <3> QED BY <1>3, <2>1, <3>1 DEF Boot, TypeOK, history
  <2>3. CASE cmd[a].copy.share
    <3>1. cmd' = [cmd EXCEPT ![a] = c] BY <1>3, <2>3 DEF Boot
    <3>2. (IF cmd[a].copy.provider = "none" THEN Native ELSE cmd[a].copy.provider) \in Providers
      BY <1>0 DEF Meta, Providers
    <3>3. (IF cmd[a].copy.sub = "none" THEN Label ELSE cmd[a].copy.sub) \in Subdomains
      BY <1>0, SubdomainsAssumption DEF SubdomainsAssumption, Meta
    <3>4. clients \cup {s \in Sidecar : s \in compose} \in SUBSET (Subdomains \cup Sidecar)
      BY DEF TypeOK
    <3>5. c \in Command BY <1>0, <1>s, <3>2, <3>3, <3>4, NoCommandType DEF Command
    <3> HIDE DEF c
    <3>6. cmd' \in [Actors -> Command] BY <3>1, <3>5, CommandSet
    <3> QED BY <1>3, <2>1, <3>6 DEF Boot, TypeOK, history
  <2> QED BY <2>2, <2>3
<1>4. CASE FailRun(a)
  <2>1. cmd' \in [Actors -> Command] BY <1>4, <1>s, CommandStep DEF FailRun
  <2> QED BY <1>4, <2>1 DEF TypeOK, FailRun, project, tunnels, history
<1> QED BY <1>1, <1>2, <1>3, <1>4 DEF Run

LEMMA TypeLeave ==
  ASSUME TypeOK, NEW a \in Actors, Leave(a) \/ Kill(a)
  PROVE  TypeOK'
<1>1. cmd' \in [Actors -> Command] BY NoCommandType, CommandSet DEF Leave, Kill
<1> QED BY <1>1 DEF TypeOK, Leave, Kill, project, tunnels, history

LEMMA TypeLifecycle ==
  ASSUME TypeOK, StopProject \/ StartProject \/ RecreateProject \/ RemoveProject
  PROVE  TypeOK'
<1>1. Lifecycle BY DEF StopProject, StartProject, RecreateProject, RemoveProject
<1>2. begun' \in 0..Commands /\ overlap' \in BOOLEAN BY <1>1, CountType DEF Lifecycle
<1>3. /\ sidecars' \in [Sidecar -> {"none", "stopped", "running"}]
      /\ portal' \in {"none", "stopped", "running"}
  BY DEF TypeOK, StopProject, StartProject, RecreateProject, RemoveProject, Recreated
<1> QED BY <1>1, <1>2, <1>3 DEF TypeOK, Lifecycle

LEMMA TypeStep == TypeOK /\ [Next]_vars => TypeOK'
<1> SUFFICES ASSUME TypeOK, [Next]_vars PROVE TypeOK' OBVIOUS
<1>1. ASSUME NEW a \in Actors, Share(a) \/ Unshare(a) \/ Run(a) \/ Leave(a) \/ Kill(a)
      PROVE  TypeOK'
  BY <1>1, TypeShare, TypeUnshare, TypeRun, TypeLeave
<1>2. CASE StopProject \/ StartProject \/ RecreateProject \/ RemoveProject
  BY <1>2, TypeLifecycle
<1>3. CASE ClientEnds
  BY <1>3 DEF TypeOK, ClientEnds, project, history
<1>4. CASE UNCHANGED vars
  BY <1>4 DEF TypeOK, vars, project, tunnels, history
<1> QED BY <1>1, <1>2, <1>3, <1>4 DEF Next

\* Typing holds of every behaviour.
THEOREM TypeCorrect == Spec => []TypeOK
  BY TypeInit, TypeStep, PTL DEF Spec

----------------------------------------------------------------------------
\* No label is a sidecar's name.
LEMMA Apart ==
  ASSUME NEW s \in Subdomains
  PROVE  s # "none" /\ s # "tunnel" /\ s # "ngrok"
  BY SubdomainsAssumption DEF SubdomainsAssumption

LEMMA Ways ==
  ASSUME NEW p \in Providers, NEW s \in Subdomains
  PROVE  /\ p = Native => Way(p, s) = s
         /\ p = Docker => Way(p, s) = "tunnel"
         /\ p = "ngrok" => Way(p, s) = "ngrok"
  BY DEF Way, Service

LEMMA MetaFields ==
  ASSUME NEW m \in Meta
  PROVE  /\ m.share \in BOOLEAN /\ m.expose \in BOOLEAN
         /\ m.provider \in Providers \cup {"none"}
         /\ m.sub \in Subdomains \cup {"none"}
  BY DEF Meta

LEMMA OpenRecorded ==
  ASSUME TypeOK, OneWay, Founded(meta), Placed
  PROVE  Open \subseteq {Recorded(meta)}
<1> SUFFICES ASSUME NEW x \in Open PROVE x = Recorded(meta) OBVIOUS
<1>0. meta \in Meta BY DEF TypeOK
<1>1. CASE x \in clients
  <2>1. x \in Subdomains /\ x \in ways /\ meta.sub = x BY <1>1 DEF TypeOK, Placed
  <2>2. "ngrok" \notin ways /\ "tunnel" \notin ways BY <2>1, Apart DEF OneWay
  <2>3. meta.provider # "ngrok" /\ ~meta.expose /\ meta.provider # Docker
    BY <2>2 DEF Founded
  <2> QED BY <2>1, <2>3, Apart DEF Recorded
<1>2. CASE x = "tunnel" /\ sidecars["tunnel"] = "running"
  BY <1>2 DEF Placed, Founded, Recorded
<1>3. CASE x = "ngrok" /\ sidecars["ngrok"] = "running"
  BY <1>3 DEF Placed, Founded, Recorded
<1> QED BY <1>1, <1>2, <1>3 DEF Open, Sidecar

LEMMA InvInit == Init => IInv
<1> SUFFICES ASSUME Init PROVE IInv OBVIOUS
<1>1. TypeOK BY TypeInit
<1>2. \A a \in Actors : cmd[a].step = "idle" BY DEF Init, NoCommand
<1>3. Alone /\ \A a \in Actors : Opened(a) BY <1>2 DEF Alone, Busy, Opened
<1>4. Founded(meta) /\ Placed BY DEF Init, Founded, Placed, Unshared, Sidecar
<1>5. \A a \in Actors : InFlight(a) BY <1>2 DEF InFlight
<1> QED BY <1>1, <1>3, <1>4, <1>5 DEF IInv

\* History only grows.
LEMMA UndisturbedBefore ==
  ASSUME Undisturbed', ways \subseteq ways', overlap => overlap'
  PROVE  Undisturbed
  BY DEF Undisturbed, OneWay

\* What the step of one command has to keep.
LEMMA OneStep ==
  ASSUME IInv, TypeOK', NEW a \in Actors,
         \A b \in Actors \ {a} : cmd'[b] = cmd[b],
         overlap => overlap', ways \subseteq ways',
         ~overlap' => a \in Busy \/ Busy = {},
         ~overlap' => Opened(a)',
         Undisturbed' => Founded(meta)' /\ Placed' /\ InFlight(a)'
  PROVE  IInv'
<1>1. ASSUME ~overlap' PROVE \A b \in Actors \ {a} : cmd'[b].step = "idle"
  BY <1>1 DEF IInv, Alone, Busy
<1>2. ASSUME ~overlap' PROVE Alone' /\ \A b \in Actors : Opened(b)'
  <2>1. Alone' BY <1>1, <1>2 DEF Alone, Busy
  <2>2. \A b \in Actors \ {a} : Opened(b)' BY <1>1, <1>2 DEF Opened
  <2> QED BY <1>2, <2>1, <2>2
<1>3. ASSUME Undisturbed' PROVE \A b \in Actors : InFlight(b)'
  <2>1. \A b \in Actors \ {a} : InFlight(b)'
    BY <1>1, <1>3 DEF InFlight, Undisturbed
  <2> QED BY <1>3, <2>1
<1> QED BY <1>2, <1>3 DEF IInv

LEMMA GotoFields ==
  ASSUME TypeOK, NEW a \in Actors, NEW step, Goto(a, step)
  PROVE  /\ cmd'[a].step = step
         /\ cmd'[a].op = cmd[a].op /\ cmd'[a].copy = cmd[a].copy
         /\ cmd'[a].provider = cmd[a].provider /\ cmd'[a].sub = cmd[a].sub
         /\ cmd'[a].before = cmd[a].before
         /\ \A b \in Actors \ {a} : cmd'[b] = cmd[b]
<1>1. cmd[a] \in Command BY DEF TypeOK
<1>2. cmd'[a] = [cmd[a] EXCEPT !.step = step] BY DEF Goto, TypeOK
<1>3. \A b \in Actors \ {a} : cmd'[b] = cmd[b] BY DEF Goto, TypeOK
<1> QED BY <1>1, <1>2, <1>3 DEF Command

LEMMA CopyFields ==
  ASSUME TypeOK, NEW a \in Actors, NEW step, NEW m \in Meta,
         cmd' = [cmd EXCEPT ![a].copy = m, ![a].step = step]
  PROVE  /\ cmd'[a].step = step /\ cmd'[a].copy = m
         /\ cmd'[a].op = cmd[a].op
         /\ cmd'[a].provider = cmd[a].provider /\ cmd'[a].sub = cmd[a].sub
         /\ cmd'[a].before = cmd[a].before
         /\ \A b \in Actors \ {a} : cmd'[b] = cmd[b]
<1>1. cmd[a] \in Command BY DEF TypeOK
<1> DEFINE n == [cmd[a] EXCEPT !.copy = m]
<1>2. cmd'[a] = [n EXCEPT !.step = step] BY DEF TypeOK
<1>3. \A b \in Actors \ {a} : cmd'[b] = cmd[b] BY DEF TypeOK
<1>4. n \in Command BY <1>1 DEF Command
<1>5. /\ n.copy = m /\ n.op = cmd[a].op /\ n.provider = cmd[a].provider
      /\ n.sub = cmd[a].sub /\ n.before = cmd[a].before
  BY <1>1 DEF Command
<1> HIDE DEF n
<1> QED BY <1>2, <1>3, <1>4, <1>5 DEF Command

----------------------------------------------------------------------------
LEMMA InvBeginShare ==
  ASSUME IInv, TypeOK', NEW a \in Actors, BeginShare(a)
  PROVE  IInv'
<1>0. TypeOK BY DEF IInv
<1>1. PICK p \in Providers, s \in Subdomains : Ask(a, p, s) /\ ways' = ways \cup {Way(p, s)}
  BY <1>0, BeginShareAsk
<1> DEFINE c == [NoCommand EXCEPT !.op = "share", !.step = "asked", !.provider = p, !.sub = s,
                   !.copy = meta, !.before = Open, !.locked = cmd[a].locked]
<1>2. cmd'[a] = c /\ \A b \in Actors \ {a} : cmd'[b] = cmd[b]
  BY <1>0, <1>1 DEF Ask, TypeOK
<1>3. /\ c.op = "share" /\ c.step = "asked" /\ c.provider = p /\ c.sub = s
      /\ c.copy = meta /\ c.before = Open
  BY DEF NoCommand
<1> HIDE DEF c
<1>4. Open' = Open BY DEF BeginShare, tunnels, Open
<1>5. overlap' = (overlap \/ Busy # {}) BY DEF BeginShare, Count
<1>6. Opened(a)' BY <1>2, <1>3, <1>4 DEF Opened
<1>7. ASSUME Undisturbed' PROVE Founded(meta)' /\ Placed' /\ InFlight(a)'
  <2>1. Founded(meta) /\ Placed
    BY <1>1, <1>5, <1>7, UndisturbedBefore DEF IInv
  <2>2. Founded(meta)' BY <2>1, <1>1 DEF BeginShare, project, Founded
  <2>3. Placed' BY <2>1, <1>1 DEF BeginShare, project, tunnels, Placed
  <2>4. InFlight(a)' BY <1>1, <1>2, <1>3 DEF BeginShare, project, InFlight
  <2> QED BY <2>2, <2>3, <2>4
<1> QED BY <1>1, <1>2, <1>5, <1>6, <1>7, OneStep

\* Steps that only say where the command is.
LEMMA InvMarks ==
  ASSUME IInv, TypeOK', NEW a \in Actors,
         \/ RefuseShare(a) \/ FailLaunch(a) \/ Healthy(a) \/ TimeOut(a)
         \/ FailUnshare(a) \/ FailRun(a)
         \/ Equip(a) \/ CheckClient(a) \/ Authenticate(a)
  PROVE  IInv'
<1>0. TypeOK BY DEF IInv
<1>1. /\ UNCHANGED <<project, tunnels, history>>
      /\ Goto(a, cmd'[a].step)
  BY <1>0 DEF RefuseShare, FailLaunch, Healthy, TimeOut, FailUnshare, FailRun,
                 Equip, CheckClient, Authenticate, Goto, TypeOK
<1>2. /\ cmd'[a].op = cmd[a].op /\ cmd'[a].copy = cmd[a].copy
      /\ cmd'[a].provider = cmd[a].provider /\ cmd'[a].sub = cmd[a].sub
      /\ cmd'[a].before = cmd[a].before
      /\ \A b \in Actors \ {a} : cmd'[b] = cmd[b]
  BY <1>0, <1>1, GotoFields
<1>3. \/ /\ cmd[a].op = "share" /\ cmd'[a].step = "failed"
         /\ cmd[a].step \in {"asked", "saved", "equipped", "current", "trusted"}
      \/ /\ cmd[a].op = "share" /\ cmd[a].step \in {"saved", "equipped", "current"}
         /\ cmd'[a].step \in {"equipped", "current", "trusted"}
      \/ cmd[a].op = "share" /\ cmd[a].step = "launched" /\ cmd'[a].step \in {"shared", "unhealthy"}
      \/ cmd[a].op \in {"unshare", "run"} /\ cmd[a].step # "idle" /\ cmd'[a].step = "failed"
  <2>1. CASE RefuseShare(a) \/ FailLaunch(a)
    BY <1>0, <2>1, GotoFields DEF RefuseShare, FailLaunch, At
  <2>2. CASE Healthy(a) \/ TimeOut(a)
    BY <1>0, <2>2, GotoFields DEF Healthy, TimeOut, At
  <2>3. CASE FailUnshare(a) \/ FailRun(a)
    BY <1>0, <2>3, GotoFields DEF FailUnshare, FailRun, At
  <2>4. CASE Equip(a) \/ CheckClient(a) \/ Authenticate(a)
    BY <1>0, <2>4, GotoFields DEF Equip, CheckClient, Authenticate, At
  <2> QED BY <2>1, <2>2, <2>3, <2>4
<1>4. Open' = Open /\ a \in Busy BY <1>1, <1>3 DEF tunnels, Open, Busy
<1>5. ASSUME ~overlap' PROVE Opened(a)'
  <2>1. Opened(a) BY <1>1, <1>5 DEF history, IInv
  <2>2. Way(cmd'[a].provider, cmd'[a].sub) = Way(cmd[a].provider, cmd[a].sub) BY <1>2
  <2> QED BY <2>1, <2>2, <1>2, <1>3, <1>4 DEF Opened
<1>6. ASSUME Undisturbed' PROVE Founded(meta)' /\ Placed' /\ InFlight(a)'
  <2>1. Founded(meta) /\ Placed /\ InFlight(a)
    BY <1>1, <1>6 DEF history, Undisturbed, OneWay, IInv
  <2>2. Founded(meta)' BY <2>1, <1>1 DEF history, project, Founded
  <2>3. Placed' BY <2>1, <1>1 DEF history, project, tunnels, Placed
  <2>4. Way(cmd'[a].provider, cmd'[a].sub) = Way(cmd[a].provider, cmd[a].sub) BY <1>2
  <2>5. InFlight(a)' BY <2>1, <2>4, <1>1, <1>2, <1>3 DEF history, project, InFlight
  <2> QED BY <2>2, <2>3, <2>5
<1> QED BY <1>1, <1>2, <1>4, <1>5, <1>6, OneStep DEF history

LEMMA InvSaveShared ==
  ASSUME IInv, TypeOK', NEW a \in Actors, SaveShared(a)
  PROVE  IInv'
<1>0. TypeOK /\ cmd[a] \in Command BY DEF IInv, TypeOK
<1> DEFINE p == cmd[a].provider
           s == cmd[a].sub
           m == Shared(cmd[a].copy, p, s)
<1>1. p \in Providers /\ s \in Subdomains /\ cmd[a].copy \in Meta BY <1>0, CommandFields
<1>2. m \in Meta BY <1>1, SharedType
<1>3. meta' = m /\ cmd' = [cmd EXCEPT ![a].copy = m, ![a].step = "saved"] BY DEF SaveShared
<1>4. /\ m.sub = s
      /\ m.share = (IF p = Native THEN cmd[a].copy.share ELSE TRUE)
      /\ m.expose = (IF p = "ngrok" THEN TRUE ELSE cmd[a].copy.expose)
      /\ m.provider = (IF p = Native THEN cmd[a].copy.provider ELSE p)
  BY <1>1 DEF Shared, Meta
<1> HIDE DEF m
<1>5. /\ cmd'[a].step = "saved" /\ cmd'[a].copy = m /\ cmd'[a].op = cmd[a].op
      /\ cmd'[a].provider = p /\ cmd'[a].sub = s /\ cmd'[a].before = cmd[a].before
      /\ \A b \in Actors \ {a} : cmd'[b] = cmd[b]
  BY <1>0, <1>2, <1>3, CopyFields
<1>6. cmd[a].op = "share" /\ cmd[a].step = "asked" /\ a \in Busy
  BY DEF SaveShared, At, Busy
<1>7. UNCHANGED <<compose, portal, tunnels, history>> BY DEF SaveShared
<1>8. Open' = Open BY <1>7 DEF tunnels, Open
<1>9. ASSUME ~overlap' PROVE Opened(a)'
  BY <1>5, <1>6, <1>7, <1>8, <1>9 DEF Opened, history, IInv
<1>10. ASSUME Undisturbed' PROVE Founded(meta)' /\ Placed' /\ InFlight(a)'
  <2>1. Founded(meta) /\ Placed /\ InFlight(a) /\ OneWay
    BY <1>7, <1>10 DEF history, Undisturbed, OneWay, IInv
  <2>2. cmd[a].copy = meta /\ Way(p, s) \in ways
    BY <2>1, <1>6 DEF InFlight
  <2>3. \/ p = Native /\ s \in ways
        \/ p = Docker /\ "tunnel" \in ways /\ "ngrok" \notin ways
        \/ p = "ngrok" /\ "ngrok" \in ways /\ "tunnel" \notin ways
    BY <2>1, <2>2, <1>1, Ways DEF Providers, OneWay
  <2> HIDE DEF p, s
  <2>4. Founded(m)
    <3>1. CASE p = Native
      <4>1. m.share => m.provider # "none" /\ Way(m.provider, s) \in ways
        <5>1. SUFFICES ASSUME m.share
                       PROVE m.provider # "none" /\ Way(m.provider, s) \in ways
          OBVIOUS
        <5>2. meta.share /\ m.provider = meta.provider BY <1>4, <3>1, <5>1, <2>2
        <5>3. meta.provider \in Providers /\ meta.provider # "none"
          BY <5>2, <2>1, <1>0, MetaFields DEF Founded, TypeOK
        <5>4. CASE meta.provider = Native
          BY <5>2, <5>3, <5>4, <3>1, <2>2
        <5>5. CASE meta.provider # Native
          <6>1. Service[meta.provider] \in ways
            BY <2>1, <5>2, <5>5 DEF Founded, Way
          <6> QED BY <6>1, <5>2, <5>3, <5>5 DEF Way
        <5> QED BY <5>4, <5>5
      <4> QED BY <4>1, <3>1, <1>1, <1>4, <2>1, <2>2, Apart DEF Founded
    <3>2. CASE p = Docker
      <4>1. m.provider = Docker /\ m.sub = s /\ m.expose = meta.expose
        BY <3>2, <1>4, <2>2
      <4>2. ~meta.expose BY <2>1, <2>3, <3>2 DEF Founded
      <4> QED BY <4>1, <4>2, <2>2, <2>3, <3>2, <1>1, Apart DEF Founded
    <3>3. CASE p = "ngrok"
      BY <3>3, <1>4, <2>2, <2>3, <1>1, Apart DEF Founded
    <3> QED BY <3>1, <3>2, <3>3, <1>1 DEF Providers
  <2>5. Placed'
    <3>1. \A x \in clients : x \in ways /\ m.sub = x
      BY <2>1, <2>3, <1>0, <1>4, Apart DEF Placed, OneWay, TypeOK
    <3>2. "tunnel" \in compose \/ sidecars["tunnel"] # "none" => m.provider = Docker
      BY <2>1, <2>2, <2>3, <1>4 DEF Placed, Founded
    <3>3. "ngrok" \in compose \/ sidecars["ngrok"] # "none" => m.provider = "ngrok"
      BY <2>1, <2>2, <2>3, <1>4 DEF Placed, Founded
    <3> QED BY <3>1, <3>2, <3>3, <1>3, <1>7 DEF Placed, tunnels, history
  <2>6. InFlight(a)' BY <1>3, <1>4, <1>5, <1>6, <1>7, <2>2 DEF InFlight, history
  <2>7. Founded(meta)' BY <2>4, <1>3, <1>7 DEF Founded, history
  <2> QED BY <2>5, <2>6, <2>7
<1> QED BY <1>0, <1>5, <1>6, <1>7, <1>9, <1>10, OneStep DEF history

\* The rest of a start.
LEMMA InvLaunch ==
  ASSUME IInv, TypeOK', NEW a \in Actors,
         \/ Launch(a) \/ Regenerate(a) \/ UpSidecar(a) \/ FailUpSidecar(a)
         \/ CloseUnhealthy(a)
  PROVE  IInv'
<1>0. TypeOK /\ cmd[a] \in Command BY DEF IInv, TypeOK
<1> DEFINE p == cmd[a].provider
           s == cmd[a].sub
<1>1. p \in Providers /\ s \in Subdomains BY <1>0, CommandFields
<1>2. /\ cmd'[a].op = cmd[a].op /\ cmd'[a].copy = cmd[a].copy
      /\ cmd'[a].provider = p /\ cmd'[a].sub = s
      /\ cmd'[a].before = cmd[a].before
      /\ \A b \in Actors \ {a} : cmd'[b] = cmd[b]
  BY <1>0, GotoFields DEF Launch, Regenerate, UpSidecar, FailUpSidecar, CloseUnhealthy
<1>3. cmd[a].op = "share" /\ a \in Busy /\ UNCHANGED history
  BY DEF Launch, Regenerate, UpSidecar, FailUpSidecar, CloseUnhealthy, At, Busy
<1>4. ASSUME ~overlap' PROVE Opened(a) BY <1>3, <1>4 DEF IInv, history
<1>5. ASSUME Undisturbed'
      PROVE  Founded(meta) /\ Placed /\ InFlight(a) /\ OneWay
  BY <1>3, <1>5 DEF history, Undisturbed, OneWay, IInv
<1>6. CASE Launch(a)
  <2>1. /\ p = Native /\ cmd[a].step = "trusted" /\ cmd'[a].step = "launched"
        /\ clients' = clients \cup {s} /\ UNCHANGED <<project, sidecars>>
    BY <1>0, <1>6, GotoFields DEF Launch, At
  <2>2. Open' = Open \cup {Way(p, s)} BY <2>1, <1>1, Ways DEF Open
  <2>3. ASSUME ~overlap' PROVE Opened(a)'
    BY <1>2, <1>3, <1>4, <2>1, <2>2, <2>3 DEF Opened
  <2>4. ASSUME Undisturbed' PROVE Founded(meta)' /\ Placed' /\ InFlight(a)'
    <3>1. cmd[a].copy = meta /\ meta.sub = s /\ s \in ways
      BY <1>1, <1>3, <1>5, <2>1, <2>4, Ways DEF InFlight
    <3>2. Founded(meta)' BY <1>5, <2>4, <2>1, <1>3 DEF Founded, project, history
    <3>3. Placed' BY <1>5, <2>4, <2>1, <1>3, <3>1 DEF Placed, project, history
    <3>4. InFlight(a)'
      BY <1>1, <1>2, <1>3, <2>1, <3>1, Ways DEF InFlight, project, history
    <3> QED BY <3>2, <3>3, <3>4
  <2> QED BY <1>0, <1>2, <1>3, <2>3, <2>4, OneStep DEF history
<1>7. CASE Regenerate(a)
  <2>1. /\ p # Native /\ cmd[a].step = "saved" /\ cmd'[a].step = "composed"
        /\ UNCHANGED <<portal, tunnels>>
        /\ \/ meta' = cmd[a].copy /\ compose' = Composed(cmd[a].copy)
           \/ UNCHANGED <<meta, compose>>
    BY <1>0, <1>7, GotoFields DEF Regenerate, At
  <2>2. Open' = Open BY <2>1 DEF Open, tunnels
  <2>3. ASSUME ~overlap' PROVE Opened(a)'
    BY <1>2, <1>3, <1>4, <2>1, <2>2, <2>3 DEF Opened
  <2>4. ASSUME Undisturbed' PROVE Founded(meta)' /\ Placed' /\ InFlight(a)'
    <3>1. /\ cmd[a].copy = meta /\ meta.sub = s /\ Way(p, s) \in ways
          /\ meta.provider = p
      BY <1>3, <1>5, <2>1, <2>4 DEF InFlight
    <3>2. meta' = meta BY <2>1, <3>1
    <3>3. Founded(meta)' BY <1>5, <2>4, <3>2, <1>3 DEF Founded, history
    <3>4. /\ "tunnel" \in compose' => meta.provider = Docker
          /\ "ngrok" \in compose' => meta.provider = "ngrok"
      BY <1>5, <2>4, <2>1, <3>1 DEF Founded, Placed, Composed
    <3>5. Placed' BY <1>5, <2>4, <2>1, <1>3, <3>2, <3>4 DEF Placed, tunnels, history
    <3>6. InFlight(a)' BY <1>2, <1>3, <2>1, <3>1, <3>2 DEF InFlight, history
    <3> QED BY <3>3, <3>5, <3>6
  <2> QED BY <1>0, <1>2, <1>3, <2>3, <2>4, OneStep DEF history
<1>8. CASE UpSidecar(a) \/ FailUpSidecar(a)
  <2>1. /\ cmd[a].step = "composed" /\ cmd'[a].step \in {"launched", "shared", "failed"}
        /\ UNCHANGED <<project, clients>>
        /\ sidecars' \in [Sidecar -> {"none", "stopped", "running"}]
        /\ \A x \in Sidecar : sidecars'[x] # "none" => x \in compose \/ sidecars[x] # "none"
    BY <1>0, <1>8, GotoFields DEF UpSidecar, FailUpSidecar, At, TypeOK
  <2>2. \/ cmd'[a].step = "launched" /\ p = Docker /\ Open' \subseteq Open \cup {"tunnel"}
        \/ cmd'[a].step = "shared"
        \/ cmd'[a].step = "failed" /\ Open' \subseteq Open
    <3>1. CASE UpSidecar(a)
      BY <1>0, <3>1, GotoFields DEF UpSidecar, Open, TypeOK, Service
    <3>2. CASE FailUpSidecar(a)
      BY <1>0, <3>2, GotoFields DEF FailUpSidecar, Open, TypeOK
    <3> QED BY <1>8, <3>1, <3>2
  <2>3. ASSUME ~overlap' PROVE Opened(a)'
    BY <1>1, <1>2, <1>3, <1>4, <2>1, <2>2, <2>3, Ways DEF Opened
  <2>4. ASSUME Undisturbed' PROVE Founded(meta)' /\ Placed' /\ InFlight(a)'
    <3>1. Founded(meta)' BY <1>5, <2>4, <2>1, <1>3 DEF Founded, project, history
    <3>2. Placed' BY <1>5, <2>4, <2>1, <1>3 DEF Placed, project, history, Sidecar
    <3>3. Way(cmd'[a].provider, cmd'[a].sub) = Way(p, s) BY <1>2
    <3>4. InFlight(a)'
      BY <1>2, <1>3, <1>5, <2>4, <2>1, <3>3 DEF InFlight, project, history
    <3> QED BY <3>1, <3>2, <3>4
  <2> QED BY <1>0, <1>2, <1>3, <2>3, <2>4, OneStep DEF history
<1>9. CASE CloseUnhealthy(a)
  <2>1. /\ cmd[a].step = "unhealthy" /\ cmd'[a].step \in {"failed", "stranded"}
        /\ UNCHANGED project /\ clients' \subseteq clients
        /\ \A x \in Sidecar : sidecars'[x] # "none" => sidecars[x] # "none"
    BY <1>0, <1>9, GotoFields DEF CloseUnhealthy, At, TypeOK, tunnels
  <2>2. cmd'[a].step = "failed" => Open' \subseteq Open \ {Way(p, s)}
    <3>1. CASE p = Native /\ clients' = clients \ {s} /\ UNCHANGED sidecars
      BY <1>1, <3>1, Ways, Apart DEF Open, Sidecar
    <3>2. CASE p = Docker /\ sidecars' = [sidecars EXCEPT !["tunnel"] = "none"] /\ UNCHANGED clients
      BY <1>0, <1>1, <3>2, Ways, Apart DEF Open, Sidecar, TypeOK
    <3>3. CASE cmd'[a].step = "stranded" BY <3>3
    <3> QED BY <1>0, <1>9, <3>1, <3>2, <3>3, GotoFields DEF CloseUnhealthy
  <2>3. ASSUME ~overlap' PROVE Opened(a)'
    BY <1>2, <1>3, <1>4, <2>1, <2>2, <2>3 DEF Opened
  <2>4. ASSUME Undisturbed' PROVE Founded(meta)' /\ Placed' /\ InFlight(a)'
    <3>1. Founded(meta)' BY <1>5, <2>4, <2>1, <1>3 DEF Founded, project, history
    <3>2. Placed' BY <1>5, <2>4, <2>1, <1>3 DEF Placed, project, history, Sidecar
    <3>3. InFlight(a)' BY <1>2, <1>3, <2>1 DEF InFlight, project, history
    <3> QED BY <3>1, <3>2, <3>3
  <2> QED BY <1>0, <1>2, <1>3, <2>3, <2>4, OneStep DEF history
<1> QED BY <1>6, <1>7, <1>8, <1>9

LEMMA InvUnshare ==
  ASSUME IInv, TypeOK', NEW a \in Actors,
         BeginUnshare(a) \/ SaveUnshared(a) \/ RemoveSidecar(a) \/ StopClient(a)
  PROVE  IInv'
<1>0. TypeOK /\ cmd[a] \in Command BY DEF IInv, TypeOK
<1>1. CASE BeginUnshare(a)
  <2> DEFINE c == [NoCommand EXCEPT !.op = "unshare", !.step = "asked", !.copy = meta]
  <2>1. cmd'[a] = c /\ \A b \in Actors \ {a} : cmd'[b] = cmd[b]
    BY <1>0, <1>1 DEF BeginUnshare, TypeOK
  <2>2. c.op = "unshare" /\ c.step = "asked" /\ c.copy = meta BY DEF NoCommand
  <2> HIDE DEF c
  <2>3. overlap' = (overlap \/ Busy # {}) BY <1>1 DEF BeginUnshare, Count
  <2>4. UNCHANGED <<project, tunnels, ways>> BY <1>1 DEF BeginUnshare
  <2>5. Opened(a)' BY <2>1, <2>2 DEF Opened
  <2>6. ASSUME Undisturbed' PROVE Founded(meta)' /\ Placed' /\ InFlight(a)'
    <3>1. Founded(meta) /\ Placed BY <2>3, <2>4, <2>6, UndisturbedBefore DEF IInv
    <3> QED BY <3>1, <2>1, <2>2, <2>4 DEF Founded, Placed, InFlight, project, tunnels
  <2> QED BY <2>1, <2>3, <2>4, <2>5, <2>6, OneStep
<1>2. ASSUME SaveUnshared(a) \/ RemoveSidecar(a) \/ StopClient(a) PROVE IInv'
  <2>1. /\ cmd[a].op = "unshare" /\ cmd'[a].op = cmd[a].op /\ cmd'[a].copy = cmd[a].copy
        /\ cmd'[a].step \in {"saved", "stopped"} /\ a \in Busy /\ UNCHANGED history
        /\ \A b \in Actors \ {a} : cmd'[b] = cmd[b]
    BY <1>0, <1>2, GotoFields DEF SaveUnshared, RemoveSidecar, StopClient, At, Busy
  <2>2. Opened(a)' BY <2>1 DEF Opened
  <2>3. ASSUME Undisturbed' PROVE Founded(meta)' /\ Placed' /\ InFlight(a)'
    <3>0. Founded(meta) /\ Placed /\ InFlight(a) /\ OneWay /\ ways' = ways
      BY <2>1, <2>3 DEF history, Undisturbed, OneWay, IInv
    <3>1. Open \subseteq {Recorded(meta)} BY <1>0, <3>0, OpenRecorded
    <3>2. CASE SaveUnshared(a)
      <4>1. /\ cmd[a].copy = meta /\ Recorded(meta) \in Sidecar
            /\ cmd'[a].step = "saved" /\ UNCHANGED <<compose, tunnels>>
        BY <1>0, <3>0, <3>2, GotoFields DEF SaveUnshared, InFlight, At
      <4>2. /\ meta'.provider = meta.provider /\ meta'.sub = meta.sub
            /\ ~meta'.share
            /\ meta'.expose = (IF Recorded(meta) = "ngrok" THEN FALSE ELSE meta.expose)
        BY <1>0, <3>2, <4>1 DEF SaveUnshared, Meta, TypeOK
      <4>3. Recorded(meta)' = Recorded(meta)
        <5>1. CASE meta.provider = "ngrok" \/ meta.expose
          BY <5>1, <3>0, <4>2 DEF Recorded, Founded
        <5>2. CASE meta.provider # "ngrok" /\ ~meta.expose
          BY <5>2, <4>2 DEF Recorded
        <5> QED BY <5>1, <5>2
      <4>4. Founded(meta)' BY <3>0, <4>2 DEF Founded
      <4>5. Placed' BY <3>0, <4>1, <4>2 DEF Placed, tunnels
      <4>6. InFlight(a)' BY <2>1, <4>1, <4>3 DEF InFlight
      <4> QED BY <4>4, <4>5, <4>6
    <3>3. CASE RemoveSidecar(a)
      <4> DEFINE s == Recorded(cmd[a].copy)
      <4>1. s = Recorded(meta) /\ s \in Sidecar /\ cmd'[a].step = "stopped"
        BY <1>0, <2>1, <3>0, <3>3, GotoFields DEF RemoveSidecar, InFlight, At
      <4>2. sidecars' = [sidecars EXCEPT ![s] = "none"] /\ UNCHANGED <<project, clients>>
        BY <3>3 DEF RemoveSidecar
      <4> HIDE DEF s
      <4>3. Open' = {} BY <1>0, <3>1, <4>1, <4>2, Apart DEF Open, TypeOK, Sidecar
      <4>4. Founded(meta)' BY <3>0, <4>2 DEF Founded, project
      <4>5. Placed' BY <1>0, <3>0, <4>1, <4>2 DEF Placed, project, TypeOK, Sidecar
      <4>6. InFlight(a)' BY <2>1, <4>1, <4>3 DEF InFlight
      <4> QED BY <4>4, <4>5, <4>6
    <3>4. CASE StopClient(a)
      <4> DEFINE s == Recorded(cmd[a].copy)
      <4>1. s = Recorded(meta) /\ s \in clients /\ cmd'[a].step = "stopped"
        BY <1>0, <2>1, <3>0, <3>4, GotoFields DEF StopClient, InFlight, At
      <4>2. clients' = clients \ {s} /\ UNCHANGED <<project, sidecars>>
        BY <3>4 DEF StopClient
      <4> HIDE DEF s
      <4>3. Open' = {} BY <1>0, <3>1, <4>1, <4>2, Apart DEF Open, TypeOK, Sidecar
      <4>4. Founded(meta)' BY <3>0, <4>2 DEF Founded, project
      <4>5. Placed' BY <1>0, <3>0, <4>1, <4>2 DEF Placed, project
      <4>6. InFlight(a)' BY <2>1, <4>1, <4>3 DEF InFlight
      <4> QED BY <4>4, <4>5, <4>6
    <3> QED BY <1>2, <3>2, <3>3, <3>4
  <2> QED BY <2>1, <2>2, <2>3, OneStep DEF history
<1> QED BY <1>1, <1>2

LEMMA InvConfigure ==
  ASSUME IInv, TypeOK', NEW a \in Actors, Configure(a)
  PROVE  IInv'
<1>0. TypeOK /\ cmd[a] \in Command BY DEF IInv, TypeOK
<1>1. PICK share \in BOOLEAN, p \in Providers, s \in Subdomains :
        LET m == Configured(cmd[a].copy, share, p, s) IN
        /\ meta' = m
        /\ compose' = Composed(m)
        /\ ways' = IF share THEN ways \cup {Way(p, s)} ELSE ways
        /\ cmd' = [cmd EXCEPT ![a].copy = m, ![a].step = "composed"]
  BY DEF Configure
<1> DEFINE m == Configured(cmd[a].copy, share, p, s)
<1>2. cmd[a].copy \in Meta /\ m \in Meta BY <1>0, CommandFields, ConfiguredType
<1>3. /\ m.share = (share \/ cmd[a].copy.share)
      /\ m.provider = (IF share THEN p ELSE
                        IF cmd[a].copy.provider = "none" THEN Native
                        ELSE cmd[a].copy.provider)
      /\ m.expose = (cmd[a].copy.expose \/ (m.share /\ m.provider = "ngrok"))
      /\ m.sub = (IF share THEN s ELSE cmd[a].copy.sub)
  BY DEF Configured
<1>4. /\ meta' = m /\ compose' = Composed(m)
      /\ ways' = IF share THEN ways \cup {Way(p, s)} ELSE ways
      /\ cmd' = [cmd EXCEPT ![a].copy = m, ![a].step = "composed"]
  BY <1>1
<1> HIDE DEF m
<1>5. /\ cmd'[a].step = "composed" /\ cmd'[a].copy = m /\ cmd'[a].op = "run"
      /\ \A b \in Actors \ {a} : cmd'[b] = cmd[b]
      /\ cmd[a].op = "run" /\ cmd[a].step = "asked" /\ a \in Busy
      /\ UNCHANGED <<tunnels, overlap>>
  <2>1. cmd[a].op = "run" /\ cmd[a].step = "asked" /\ a \in Busy
    BY DEF Configure, At, Busy
  <2>2. UNCHANGED <<tunnels, overlap>> BY DEF Configure
  <2> QED BY <1>0, <1>2, <1>4, <2>1, <2>2, CopyFields
<1>6. Opened(a)' BY <1>5 DEF Opened
<1>7. ASSUME Undisturbed' PROVE Founded(meta)' /\ Placed' /\ InFlight(a)'
  <2>1. Founded(meta) /\ Placed /\ InFlight(a) /\ OneWay'
    BY <1>4, <1>5, <1>7, UndisturbedBefore DEF IInv, Undisturbed
  <2>2. cmd[a].copy = meta BY <2>1, <1>5 DEF InFlight
  <2>3. /\ m.provider = "ngrok" => "ngrok" \in ways'
        /\ m.provider = Docker => "tunnel" \in ways'
    BY <1>3, <1>4, <2>1, <2>2, Ways DEF Founded
  <2>4. m.expose => m.provider = "ngrok"
    <3>1. SUFFICES ASSUME meta.expose, share, p # "ngrok" PROVE FALSE
      BY <1>3, <2>1, <2>2 DEF Founded
    <3>2. "ngrok" \in ways' BY <1>4, <2>1, <3>1 DEF Founded
    <3>3. Way(p, s) \in ways' /\ Way(p, s) # "ngrok"
      BY <1>4, <3>1, Ways, Apart DEF Providers
    <3> QED BY <2>1, <3>2, <3>3 DEF OneWay
  <2>5. m.share => /\ m.provider # "none"
                   /\ Way(m.provider, IF m.sub = "none" THEN Label ELSE m.sub) \in ways'
    <3>1. CASE share
      BY <1>3, <1>4, <3>1, Apart DEF Providers
    <3>2. CASE ~share
      BY <1>3, <1>4, <3>2, <2>1, <2>2 DEF Founded
    <3> QED BY <3>1, <3>2
  <2>6. Founded(meta)' BY <1>4, <2>3, <2>4, <2>5 DEF Founded
  <2>7. \A x \in clients : x \in ways' /\ m.sub = x
    <3>1. SUFFICES ASSUME NEW x \in clients, share PROVE m.sub = x
      BY <1>3, <1>4, <2>1, <2>2 DEF Placed
    <3>2. x \in ways' /\ x \in Subdomains BY <1>0, <1>4, <2>1 DEF Placed, TypeOK
    <3>3. Way(p, s) = x BY <1>4, <2>1, <3>1, <3>2 DEF OneWay
    <3>4. p = Native BY <3>2, <3>3, Apart, Ways DEF Providers
    <3> QED BY <1>3, <3>1, <3>3, <3>4, Ways
  <2>8. sidecars["tunnel"] # "none" => m.provider = Docker
    <3>1. SUFFICES ASSUME meta.provider = Docker, share PROVE p = Docker
      BY <1>3, <2>1, <2>2 DEF Placed
    <3>2. "tunnel" \in ways' /\ Way(p, s) \in ways' BY <1>4, <2>1, <3>1 DEF Founded
    <3> QED BY <2>1, <3>2, Apart, Ways DEF OneWay, Providers
  <2>9. sidecars["ngrok"] # "none" => m.provider = "ngrok"
    <3>1. SUFFICES ASSUME meta.provider = "ngrok", share PROVE p = "ngrok"
      BY <1>3, <2>1, <2>2 DEF Placed
    <3>2. "ngrok" \in ways' /\ Way(p, s) \in ways' BY <1>4, <2>1, <3>1 DEF Founded
    <3> QED BY <2>1, <3>2, Apart, Ways DEF OneWay, Providers
  <2>10. /\ "tunnel" \in compose' => m.provider = Docker
         /\ "ngrok" \in compose' => m.provider = "ngrok"
    BY <1>4, <2>4 DEF Composed
  <2>11. Placed' BY <1>4, <1>5, <2>7, <2>8, <2>9, <2>10 DEF Placed, tunnels
  <2>12. InFlight(a)' BY <1>4, <1>5 DEF InFlight
  <2> QED BY <2>6, <2>11, <2>12
<1> QED BY <1>4, <1>5, <1>6, <1>7, OneStep

LEMMA InvRun ==
  ASSUME IInv, TypeOK', NEW a \in Actors, BeginRun(a) \/ Boot(a)
  PROVE  IInv'
<1>0. TypeOK /\ cmd[a] \in Command BY DEF IInv, TypeOK
<1>1. CASE BeginRun(a)
  <2> DEFINE c == [NoCommand EXCEPT !.op = "run", !.step = "asked", !.copy = meta,
                                    !.locked = TRUE]
  <2>1. cmd'[a] = c /\ \A b \in Actors \ {a} : cmd'[b] = cmd[b]
    BY <1>0, <1>1 DEF BeginRun, TypeOK
  <2>2. c.op = "run" /\ c.step = "asked" /\ c.copy = meta BY DEF NoCommand
  <2> HIDE DEF c
  <2>3. overlap' = (overlap \/ Busy # {}) BY <1>1 DEF BeginRun, Count
  <2>4. UNCHANGED <<project, tunnels, ways>> BY <1>1 DEF BeginRun
  <2>5. Opened(a)' BY <2>1, <2>2 DEF Opened
  <2>6. ASSUME Undisturbed' PROVE Founded(meta)' /\ Placed' /\ InFlight(a)'
    <3>1. Founded(meta) /\ Placed BY <2>3, <2>4, <2>6, UndisturbedBefore DEF IInv
    <3> QED BY <3>1, <2>1, <2>2, <2>4 DEF Founded, Placed, InFlight, project, tunnels
  <2> QED BY <2>1, <2>3, <2>4, <2>5, <2>6, OneStep
<1>2. CASE Boot(a)
  <2> DEFINE m == cmd[a].copy
  <2> DEFINE c == [NoCommand EXCEPT
               !.op = "share", !.step = "asked",
               !.provider = IF m.provider = "none" THEN Native ELSE m.provider,
               !.sub = IF m.sub = "none" THEN Label ELSE m.sub, !.copy = m,
               !.before = clients \cup {s \in Sidecar : s \in compose},
               !.locked = TRUE]
  <2>1. /\ meta' = m /\ sidecars' = Recreated
        /\ UNCHANGED <<compose, clients, history>>
        /\ cmd[a].op = "run" /\ cmd[a].step = "composed" /\ a \in Busy
    BY <1>2 DEF Boot, At, Busy
  <2>2. \/ /\ m.share
           /\ cmd' = [cmd EXCEPT ![a] = c]
        \/ Goto(a, "ran")
    BY <1>2 DEF Boot
  <2>3. \A b \in Actors \ {a} : cmd'[b] = cmd[b]
    BY <1>0, <2>2 DEF Goto, TypeOK
  <2>4. \/ /\ m.share
           /\ cmd'[a].op = "share" /\ cmd'[a].step = "asked" /\ cmd'[a].copy = m
           /\ cmd'[a].provider = (IF m.provider = "none" THEN Native ELSE m.provider)
           /\ cmd'[a].sub = (IF m.sub = "none" THEN Label ELSE m.sub)
           /\ cmd'[a].before = clients \cup {s \in Sidecar : s \in compose}
        \/ cmd'[a].op = "run" /\ cmd'[a].step = "ran"
    <3>1. CASE m.share /\ cmd' = [cmd EXCEPT ![a] = c]
      <4>1. cmd'[a] = c BY <1>0, <3>1 DEF TypeOK
      <4>2. /\ c.op = "share" /\ c.step = "asked" /\ c.copy = m
            /\ c.provider = (IF m.provider = "none" THEN Native ELSE m.provider)
            /\ c.sub = (IF m.sub = "none" THEN Label ELSE m.sub)
            /\ c.before = clients \cup {s \in Sidecar : s \in compose}
        BY DEF NoCommand
      <4> HIDE DEF c
      <4> QED BY <3>1, <4>1, <4>2
    <3>2. CASE Goto(a, "ran")
      BY <1>0, <2>1, <3>2, GotoFields
    <3> QED BY <2>2, <3>1, <3>2
  <2> HIDE DEF m, c
  <2>5. Open' = clients \cup {s \in Sidecar : s \in compose}
    BY <2>1 DEF Open, Recreated
  <2>6. Opened(a)' BY <2>4, <2>5 DEF Opened
  <2>7. ASSUME Undisturbed' PROVE Founded(meta)' /\ Placed' /\ InFlight(a)'
    <3>1. Founded(meta) /\ Placed /\ InFlight(a) /\ OneWay
      BY <2>1, <2>7 DEF history, Undisturbed, OneWay, IInv
    <3>2. m = meta BY <2>1, <3>1 DEF InFlight, m
    <3>3. Founded(meta)' BY <2>1, <3>1, <3>2 DEF Founded, history
    <3>4. Placed' BY <2>1, <3>1, <3>2 DEF Placed, Recreated, Sidecar, history
    <3>5. InFlight(a)'
      <4>1. CASE cmd'[a].op = "run" BY <2>4, <4>1 DEF InFlight
      <4>2. CASE cmd'[a].op = "share"
        <5>1. /\ cmd'[a].step = "asked" /\ cmd'[a].copy = meta' /\ meta.share
              /\ cmd'[a].provider = (IF meta.provider = "none" THEN Native ELSE meta.provider)
              /\ cmd'[a].sub = (IF meta.sub = "none" THEN Label ELSE meta.sub)
          BY <2>1, <2>4, <3>2, <4>2
        <5>2. meta.provider # "none" BY <3>1, <5>1 DEF Founded
        <5>3. Way(cmd'[a].provider, cmd'[a].sub) \in ways'
          BY <2>1, <3>1, <5>1, <5>2 DEF Founded, history
        <5> QED BY <4>2, <5>1, <5>3 DEF InFlight
      <4> QED BY <2>4, <4>1, <4>2
    <3> QED BY <3>3, <3>4, <3>5
  <2> QED BY <2>1, <2>3, <2>6, <2>7, OneStep DEF history
<1> QED BY <1>1, <1>2

LEMMA InvLeave ==
  ASSUME IInv, TypeOK', NEW a \in Actors, Leave(a) \/ Kill(a)
  PROVE  IInv'
<1>0. TypeOK BY DEF IInv
<1>1. /\ cmd'[a].step = "idle" /\ \A b \in Actors \ {a} : cmd'[b] = cmd[b]
      /\ UNCHANGED <<project, tunnels, history>> /\ a \in Busy
  BY <1>0 DEF Leave, Kill, NoCommand, TypeOK, Busy, Ended
<1>2. Opened(a)' BY <1>1 DEF Opened
<1>3. ASSUME Undisturbed' PROVE Founded(meta)' /\ Placed' /\ InFlight(a)'
  <2>1. Founded(meta) /\ Placed
    BY <1>1, <1>3 DEF history, Undisturbed, OneWay, IInv
  <2> QED BY <1>1, <2>1 DEF Founded, Placed, InFlight, project, tunnels, history
<1> QED BY <1>1, <1>2, <1>3, OneStep DEF history

\* What no command of ours does.
LEMMA InvOutside ==
  ASSUME IInv, TypeOK',
         \/ StopProject \/ StartProject \/ RecreateProject \/ RemoveProject
         \/ ClientEnds
  PROVE  IInv'
<1>0. TypeOK BY DEF IInv
<1>1. UNCHANGED <<meta, compose, cmd, ways>>
  BY DEF StopProject, StartProject, RecreateProject, RemoveProject, Lifecycle,
         ClientEnds, project, history
<1>2. /\ clients' \subseteq clients
      /\ overlap => overlap'
      /\ ~overlap' => Busy = {} \/ Open' \subseteq Open
  <2>1. CASE ClientEnds BY <2>1 DEF ClientEnds, history, Open
  <2>2. CASE Lifecycle BY <2>2 DEF Lifecycle, Count
  <2> QED BY <2>1, <2>2 DEF StopProject, StartProject, RecreateProject, RemoveProject
<1>3. \A x \in Sidecar : sidecars'[x] # "none" => x \in compose \/ sidecars[x] # "none"
  BY <1>0 DEF StopProject, StartProject, RecreateProject, RemoveProject, Recreated,
         ClientEnds, TypeOK
<1>4. ASSUME ~overlap' PROVE Alone' /\ \A a \in Actors : Opened(a)'
  <2>1. ~overlap /\ Alone /\ \A a \in Actors : Opened(a) BY <1>2, <1>4 DEF IInv
  <2>2. Alone' BY <2>1, <1>1 DEF Alone, Busy
  <2>3. ASSUME NEW a \in Actors PROVE Opened(a)'
    <3>1. CASE Busy = {} BY <3>1, <1>1 DEF Busy, Opened
    <3>2. CASE Open' \subseteq Open BY <3>2, <2>1, <1>1 DEF Opened
    <3> QED BY <1>2, <1>4, <3>1, <3>2
  <2> QED BY <2>2, <2>3
<1>5. ASSUME Undisturbed' PROVE Founded(meta)' /\ Placed' /\ \A a \in Actors : InFlight(a)'
  <2>1. Founded(meta) /\ Placed /\ \A a \in Actors : InFlight(a)
    BY <1>1, <1>2, <1>5, UndisturbedBefore DEF IInv
  <2>2. Founded(meta)' BY <2>1, <1>1 DEF Founded
  <2>3. Placed' BY <2>1, <1>1, <1>2, <1>3 DEF Placed, Sidecar
  <2>4. ASSUME NEW a \in Actors PROVE InFlight(a)'
    <3>1. ~overlap' BY <1>5 DEF Undisturbed
    <3>2. CASE Busy = {} BY <3>2, <1>1 DEF Busy, InFlight
    <3>3. CASE Open' \subseteq Open BY <3>3, <2>1, <1>1 DEF InFlight
    <3> QED BY <1>2, <3>1, <3>2, <3>3
  <2> QED BY <2>2, <2>3, <2>4
<1> QED BY <1>4, <1>5 DEF IInv

LEMMA InvStep == IInv /\ [Next]_vars => IInv'
<1> SUFFICES ASSUME IInv, [Next]_vars PROVE IInv' OBVIOUS
<1>0. TypeOK /\ TypeOK' BY TypeStep DEF IInv
<1>1. ASSUME NEW a \in Actors, Share(a) PROVE IInv'
  BY <1>0, <1>1, InvBeginShare, InvMarks, InvSaveShared, InvLaunch DEF Share
<1>2. ASSUME NEW a \in Actors, Unshare(a) PROVE IInv'
  BY <1>0, <1>2, InvUnshare, InvMarks DEF Unshare
<1>3. ASSUME NEW a \in Actors, Run(a) PROVE IInv'
  BY <1>0, <1>3, InvRun, InvConfigure, InvMarks DEF Run
<1>4. ASSUME NEW a \in Actors, Leave(a) \/ Kill(a) PROVE IInv'
  BY <1>0, <1>4, InvLeave
<1>5. CASE StopProject \/ StartProject \/ RecreateProject \/ RemoveProject \/ ClientEnds
  BY <1>0, <1>5, InvOutside
<1>6. CASE UNCHANGED vars
  <2>1. UNCHANGED <<meta, compose, clients, sidecars, cmd, ways, overlap>>
    BY <1>6 DEF vars, project, tunnels, history
  <2>2. Alone' <=> Alone BY <2>1 DEF Alone, Busy
  <2>3. \A a \in Actors : Opened(a)' <=> Opened(a) BY <2>1 DEF Opened, Open
  <2>4. \A a \in Actors : InFlight(a)' <=> InFlight(a) BY <2>1 DEF InFlight, Open, Recorded
  <2>5. (Founded(meta)' <=> Founded(meta)) /\ (Placed' <=> Placed)
    BY <2>1 DEF Founded, Placed
  <2>6. Undisturbed' <=> Undisturbed BY <2>1 DEF Undisturbed, OneWay
  <2> QED BY <1>0, <2>1, <2>2, <2>3, <2>4, <2>5, <2>6 DEF IInv
<1> QED BY <1>1, <1>2, <1>3, <1>4, <1>5, <1>6 DEF Next

LEMMA Invariant == Spec => []IInv
  BY InvInit, InvStep, PTL DEF Spec

\* Of a project that was shared in one way, by commands that did not overlap,
\* whatever is open is what metadata leads `ldm share stop` to (cmd_stop()),
\* whichever command failed or was killed on the way.
THEOREM TunnelsAreFound == Spec => []OpenIsOnRecord
<1>1. IInv => OpenIsOnRecord
  BY OpenRecorded DEF IInv, OpenIsOnRecord, Undisturbed
<1> QED BY <1>1, Invariant, PTL

\* And nothing is open after a stop that reports success.
THEOREM StopIsEffective == Spec => []StopEndsSharing
<1>1. IInv => StopEndsSharing
  BY DEF IInv, StopEndsSharing, InFlight, At
<1> QED BY <1>1, Invariant, PTL

\* A start that dies closes what it opened (cmd_start()), unless closing fails:
\* for any number of ways, as long as no two commands overlapped.
THEOREM DeadStartIsClosed == Spec => []FailedShareOpensNothing
<1>1. IInv => FailedShareOpensNothing
  BY DEF IInv, FailedShareOpensNothing, Opened, At
<1> QED BY <1>1, Invariant, PTL

-----------------------------------------------------------------------------
(* The inductive invariant                                                 *)

\* Who has an artifact in hand, from taking it to putting it in its place.
InHand == {"read", "staged", "cleared"}
AtWork == {"working"} \cup InHand
Holds(w, a) == thread[w].at \in InHand /\ thread[w].file = a
WorksOn(w, a) == thread[w].at \in AtWork /\ (a \in thread[w].batch \/ thread[w].file = a)

\* What the properties except.
Settled == Artifact \ (overlapped \cup lost)

\* Workers that copy nothing hold nothing; only timers mirror and only the
\* command ships, what it was given.
WorkersInOrder ==
  /\ \A w \in Worker :
       /\ thread[w].at \in {"unused", "waiting", "cancelled", "fired", "deploying",
                            "done", "failed"} => thread[w].batch = {}
       /\ thread[w].at = "staged" => thread[w].file \in Zips
  /\ \A t \in Timer : thread[t].at \notin {"shipping", "sent"}
  /\ thread[Deployer].at \notin {"waiting", "cancelled", "fired", "mirroring"}
  /\ thread[Deployer].batch \subseteq asked
  /\ thread[Deployer].file # NoArtifact => thread[Deployer].file \in asked
  /\ thread[Deployer].at = "unused" => asked = {}

\* What is not marked as overlapping has one worker.
OneAtATime ==
  \A a \in Artifact \ overlapped, v, w \in Worker :
    WorksOn(v, a) /\ WorksOn(w, a) => v = w

\* It is in the staging file what the worker has read, and nothing is in its
\* place before it is put there.
StagedIsRead ==
  \A w \in Worker, a \in Artifact \ overlapped :
    Holds(w, a) =>
      /\ thread[w].at # "read" => staged[FileOf(w, a)] = thread[w].copy
      /\ thread[w].at = "cleared" /\ a \in Zips => deployed[FileOf(w, a)] = Absent

\* Nothing is newer than the workspace.
NothingIsNewer ==
  /\ \A a \in Artifact : taken[a] <= version[a]
  /\ \A w \in Worker, a \in Artifact : Holds(w, a) => thread[w].copy <= version[a]

\* Before the observer starts nothing has happened.
NothingYet ==
  phase = "scheduling" =>
    /\ queue = {} /\ pending = {}
    /\ \A w \in Worker : thread[w].at = "unused"
    /\ \A a \in Artifact : version[a] = 0 /\ Watched(a) = 0

\* An artifact that was built is waiting, in work, or in its place; and who
\* holds an older build of it will not be the last.
BuildsAreFollowed ==
  phase = "watching" =>
    \A a \in Settled :
      Seen(a) =>
        /\ \/ a \in queue \cup pending
           \/ \E t \in Timer : thread[t].at \in AtWork /\ a \in thread[t].batch
           \/ \E w \in Worker : Holds(w, a) /\ FileOf(w, a) = FileOf(NoTimer, a)
           \/ Watched(a) = version[a]
        /\ \A w \in Worker :
             Holds(w, a) => a \in queue \cup pending \/ thread[w].copy = version[a]

\* The command has put an artifact into the project.
IsPlaced(a) ==
  /\ a \in asked \cap Settled
  /\ \/ /\ thread[Deployer].at \in AtWork
        /\ a \notin thread[Deployer].batch /\ a # thread[Deployer].file
     \/ thread[Deployer].at \in {"shipping", "sent", "deploying", "done"}

\* What it took is still there, or something newer, or is about to be.
PlacedIsThere ==
  /\ thread[Deployer].at \in InHand => thread[Deployer].copy = taken[thread[Deployer].file]
  /\ \A a \in Artifact : IsPlaced(a) =>
       /\ \/ deployed[FileOf(Deployer, a)] >= taken[a]
          \/ a \in Zips /\ \E t \in Timer : thread[t].at = "cleared" /\ thread[t].file = a
       /\ \A t \in Timer : Holds(t, a) => thread[t].copy >= taken[a]

\* What it has shipped has arrived.
ShippedIsThere ==
  /\ thread[Deployer].at = "sent" /\ thread[Deployer].file \in Settled =>
       partial = Absent \/ partial >= taken[thread[Deployer].file]
  /\ \A a \in asked \cap Settled :
       \/ /\ thread[Deployer].at \in {"shipping", "sent"}
          /\ a \notin thread[Deployer].batch \cup {thread[Deployer].file} \cup unplaced
       \/ Remote /\ thread[Deployer].at \in {"deploying", "done"}
       => node[FileOf(Deployer, a)] >= taken[a]

MonitorInv ==
  /\ MonitorTypeOK
  /\ WorkersInOrder
  /\ OneAtATime
  /\ StagedIsRead
  /\ NothingIsNewer
  /\ NothingYet
  /\ BuildsAreFollowed
  /\ PlacedIsThere
  /\ ShippedIsThere

-----------------------------------------------------------------------------
(* Files, workers and branches                                             *)

\* Which file a worker writes for an artifact.
LEMMA FilesOfWorkers ==
  /\ \A a \in Artifact, w \in Worker \cup {NoTimer} :
       FileOf(w, a) \in File /\ FileOf(w, a)[1] = a
  /\ \A a, b \in Artifact, v, w \in Worker \cup {NoTimer} :
       FileOf(v, a) = FileOf(w, b) => a = b
  /\ \A a \in Artifact, t \in Timer : FileOf(t, a) = FileOf(NoTimer, a)
  /\ \A a \in Zips, v, w \in Worker \cup {NoTimer} : FileOf(v, a) = FileOf(w, a)
  /\ \A a \in Jars : FileOf(Deployer, a) # FileOf(NoTimer, a)
<1>1. Jars \cap Zips = {} /\ MaxTimers \in Nat
  BY ArtifactsAssumption, BoundsAssumption DEF ArtifactsAssumption, BoundsAssumption
<1>2. Deployer \notin Timer /\ NoTimer # Deployer
  BY <1>1 DEF Deployer, Timer, NoTimer
<1>3. ASSUME NEW a \in Zips, NEW w
      PROVE  FileOf(w, a) = <<a, "client-extensions">>
  BY <1>1 DEF FileOf
<1>4. ASSUME NEW a \in Jars
      PROVE  /\ FileOf(Deployer, a) = <<a, "modules">>
             /\ \A w : w # Deployer => FileOf(w, a) = <<a, "deploy">>
  BY <1>1 DEF FileOf
<1>5. ASSUME NEW a \in Artifact, NEW w \in Worker \cup {NoTimer}
      PROVE  FileOf(w, a) \in File /\ FileOf(w, a)[1] = a
  <2>1. CASE a \in Zips
    BY <1>3, <2>1 DEF File
  <2>2. CASE a \in Jars /\ w = Deployer
    BY <1>4, <2>2 DEF File
  <2>3. CASE a \in Jars /\ w # Deployer
    BY <1>4, <2>3 DEF File
  <2> QED
    BY <2>1, <2>2, <2>3 DEF Artifact
<1>6. \A a \in Artifact, t \in Timer : FileOf(t, a) = FileOf(NoTimer, a)
  BY <1>2, <1>3, <1>4 DEF Artifact
<1>7. \A a \in Jars : FileOf(Deployer, a) # FileOf(NoTimer, a)
  <2> SUFFICES ASSUME NEW a \in Jars PROVE FileOf(Deployer, a) # FileOf(NoTimer, a)
    OBVIOUS
  <2>1. FileOf(Deployer, a) = <<a, "modules">> /\ FileOf(NoTimer, a) = <<a, "deploy">>
    BY <1>2, <1>4
  <2> QED
    BY <2>1
<1>8. \A a, b \in Artifact, v, w \in Worker \cup {NoTimer} :
        FileOf(v, a) = FileOf(w, b) => a = b
  BY <1>5
<1> QED
  BY <1>3, <1>5, <1>6, <1>7, <1>8

\* Who works on what is a timer or the command.
LEMMA WorkerKinds ==
  /\ Timer \subseteq Worker /\ Deployer \in Worker /\ Deployer \notin Timer
  /\ \A w \in Worker : w \in Timer \/ w = Deployer
  /\ NoTimer \notin Worker
  /\ NoArtifact \notin Artifact /\ Zips \subseteq Artifact
  /\ MaxChanges \in Nat
BY ArtifactsAssumption, BoundsAssumption
   DEF ArtifactsAssumption, BoundsAssumption, Worker, Deployer, Timer, NoTimer, Artifact

\* What a worker is.
Threads ==
  [at : ThreadSteps, batch : SUBSET Artifact, file : Artifact \cup {NoArtifact},
   copy : 0..MaxChanges, services : BOOLEAN]

\* MonitorTypeOK, in parts: what everybody works on ...
WorkTyped ==
  /\ version \in [Artifact -> 0..MaxChanges]
  /\ queue \subseteq Artifact /\ pending \subseteq Artifact
  /\ timer \in Timer \cup {NoTimer}
  /\ thread \in [Worker -> Threads]
  /\ \A w \in Worker :
       thread[w].file = NoArtifact
         <=> thread[w].at \notin {"read", "staged", "cleared", "sent"}
  /\ staged \in [File -> 0..MaxChanges] /\ deployed \in [File -> 0..MaxChanges]
  /\ node \in [File -> 0..MaxChanges]
  /\ asked \subseteq Artifact /\ unplaced \subseteq asked
  /\ taken \in [Artifact -> 0..MaxChanges]
  /\ partial \in 0..MaxChanges
  /\ overlapped \subseteq Artifact /\ lost \subseteq Artifact

\* ... and the observer.
ObserverTyped ==
  /\ phase \in {"scheduling", "watching", "stopped", "dead"}
  /\ \E i \in 0..Len(Targets) : todo = SubSeq(Targets, i + 1, Len(Targets))
  /\ polling \in BOOLEAN
  /\ watched \subseteq Branch

LEMMA TypesInParts == MonitorTypeOK <=> ObserverTyped /\ WorkTyped
BY DEF MonitorTypeOK, ObserverTyped, WorkTyped, Threads

\* What is left of the branches when the next one is scheduled.
LEMMA NextBranch ==
  ASSUME NEW i \in 0..Len(Targets), NEW rest, rest # << >>,
         rest = SubSeq(Targets, i + 1, Len(Targets))
  PROVE  /\ Head(rest) \in Branch
         /\ \E j \in 0..Len(Targets) : Tail(rest) = SubSeq(Targets, j + 1, Len(Targets))
<1>1. Targets \in Seq(Branch) /\ Len(Targets) \in Nat
  BY ArtifactsAssumption DEF ArtifactsAssumption
<1>2. rest \in Seq(Branch) /\ Len(rest) = Len(Targets) - i
      /\ \A k \in 1..(Len(Targets) - i) : rest[k] = Targets[i + k]
  BY <1>1, SubSeqProperties
<1>3. i + 1 \in 0..Len(Targets)
  BY <1>1, <1>2, EmptySeq
<1>4. Tail(rest) = SubSeq(Targets, i + 2, Len(Targets))
  BY <1>1, <1>2, <1>3
<1> QED
  BY <1>2, <1>3, <1>4

\* What ReadArtifact does with the artifact it picks.
ReadOne(w, a) ==
  /\ thread[w].at = "working"
  /\ thread' = [thread EXCEPT ![w].at = "read", ![w].batch = @ \ {a},
                              ![w].file = a, ![w].copy = version[a]]
  /\ taken' = IF w = Deployer THEN [taken EXCEPT ![a] = version[a]] ELSE taken
  /\ UNCHANGED <<setup, intake, files, asked, unplaced, node, partial, mishaps>>

\* What Send, FailSend and Mirror do with the artifact they pick.
SendOne(a) ==
  /\ thread[Deployer].at = "shipping"
  /\ deployed[FileOf(Deployer, a)] # Absent
  /\ partial' = deployed[FileOf(Deployer, a)]
  /\ thread' = [thread EXCEPT ![Deployer].at = "sent", ![Deployer].file = a,
                              ![Deployer].batch = @ \ {a}]
  /\ UNCHANGED <<setup, intake, files, asked, taken, unplaced, node, mishaps>>

FailOne(a) ==
  /\ thread[Deployer].at = "shipping"
  /\ thread' = [thread EXCEPT ![Deployer].batch = @ \ {a}]
  /\ unplaced' = unplaced \cup {a}
  /\ UNCHANGED <<setup, intake, files, asked, taken, node, partial, mishaps>>

MirrorOne(t, a) ==
  /\ thread[t].at = "mirroring"
  /\ thread' = [thread EXCEPT ![t].batch = @ \ {a}]
  /\ node' = [f \in File |-> IF f[1] = a THEN deployed[f] ELSE node[f]]
  /\ partial' = IF thread[Deployer].file = a THEN Absent ELSE partial
  /\ overlapped' = overlapped \cup
       {b \in {a} : \E w \in Worker \ {t} :
          thread[w].at # "mirroring" /\ a \in thread[w].batch \cup {thread[w].file}}
  /\ UNCHANGED <<setup, intake, files, asked, taken, unplaced, lost>>

-----------------------------------------------------------------------------
(* The observer                                                            *)

\* The observer is set up, starts, dies or is stopped.
LEMMA ObserverKeeps ==
  ASSUME MonitorInv, Schedule \/ FallBackToPolling \/ DieInSchedule \/ StartObserver \/ StopObserver
  PROVE  MonitorInv'
<1>1. ObserverTyped /\ WorkTyped
  BY TypesInParts DEF MonitorInv
<1>2. /\ UNCHANGED <<version, pending, timer, thread, staged, deployed, asked, taken, unplaced,
                  node, partial, overlapped, lost>>
      /\ \/ phase = "scheduling" /\ phase' # "watching" /\ queue' = queue
         \/ phase = "scheduling" /\ queue' = queue
         \/ phase' = "stopped" /\ queue' = {}
  BY DEF Schedule, FallBackToPolling, DieInSchedule, StartObserver, StopObserver,
     intake,
         files, shipped, mishaps
<1>3. ObserverTyped'
  <2>1. CASE Schedule \/ FallBackToPolling
    <3>1. PICK i \in 0..Len(Targets) : todo = SubSeq(Targets, i + 1, Len(Targets))
      BY <1>1 DEF ObserverTyped
    <3>2. Head(todo) \in Branch
          /\ \E j \in 0..Len(Targets) : Tail(todo) = SubSeq(Targets, j + 1, Len(Targets))
      BY <2>1, <3>1, NextBranch DEF Schedule, FallBackToPolling
    <3> QED
      BY <1>1, <2>1, <3>2 DEF Schedule, FallBackToPolling, ObserverTyped
  <2>2. CASE DieInSchedule \/ StartObserver \/ StopObserver
    BY <1>1, <2>2 DEF DieInSchedule, StartObserver, StopObserver, ObserverTyped
  <2> QED
    BY <2>1, <2>2
<1>4. WorkTyped'
  BY <1>1, <1>2 DEF WorkTyped, Threads
<1>5. WorkersInOrder'
  BY <1>1, <1>2 DEF MonitorInv, WorkersInOrder
<1>6. OneAtATime'
  BY <1>1, <1>2 DEF MonitorInv, OneAtATime, WorksOn, AtWork, InHand, WorkTyped
<1>7. StagedIsRead'
  BY <1>1, <1>2 DEF MonitorInv, StagedIsRead, Holds, InHand, WorkTyped
<1>8. NothingIsNewer'
  BY <1>1, <1>2, WorkerKinds DEF MonitorInv, NothingIsNewer, Holds, InHand, WorkTyped
<1>9. NothingYet'
  BY <1>1, <1>2 DEF MonitorInv, NothingYet, Watched, WorkTyped
<1>10. BuildsAreFollowed'
  BY <1>1, <1>2
     DEF MonitorInv, BuildsAreFollowed, NothingYet, Watched, Settled, Holds, InHand,
         AtWork, Seen, Visible, WorkTyped
<1>11. PlacedIsThere'
  BY <1>1, <1>2, WorkerKinds
     DEF MonitorInv, PlacedIsThere, IsPlaced, Settled, Holds, InHand, AtWork,
         WorkTyped
<1>12. ShippedIsThere'
  BY <1>1, <1>2, WorkerKinds DEF MonitorInv, ShippedIsThere, Settled, WorkTyped
<1> QED
  BY <1>3, <1>4, <1>5, <1>6, <1>7, <1>8, <1>9, <1>10, <1>11, <1>12, TypesInParts
     DEF MonitorInv, MonitorTypeOK, ObserverTyped, WorkTyped, Threads

\* A build: if the observer sees it, it is waiting.
LEMMA BuildKeeps ==
  ASSUME MonitorInv, NEW a \in Artifact, Build(a)
  PROVE  MonitorInv'
<1>1. ObserverTyped /\ WorkTyped
  BY TypesInParts DEF MonitorInv
<1>2. /\ UNCHANGED <<phase, todo, polling, watched>> /\ phase = "watching"
      /\ UNCHANGED <<pending, timer, thread, staged, deployed, asked, taken, unplaced, node,
                  partial, overlapped, lost>>
      /\ version' \in [Artifact -> 0..MaxChanges]
      /\ \A b \in Artifact : version[b] <= version'[b]
      /\ \A b \in Artifact : b # a => version'[b] = version[b]
      /\ queue \subseteq queue' /\ queue' \subseteq Artifact /\ (Seen(a) => a \in queue')
  <2>1. version[a] \in 0..MaxChanges /\ MaxChanges \in Nat
    BY <1>1, WorkerKinds DEF WorkTyped
  <2>2. /\ phase = "watching" /\ version[a] < MaxChanges
        /\ version' = [version EXCEPT ![a] = @ + 1]
        /\ queue' = IF Seen(a) THEN queue \cup {a} ELSE queue
        /\ UNCHANGED <<setup, pending, timer, thread, files, shipped, mishaps>>
    BY Zenon DEF Build
  <2>3. version[a] + 1 \in 0..MaxChanges
    BY <2>1, <2>2
  <2>4. /\ version' \in [Artifact -> 0..MaxChanges] /\ version'[a] = version[a] + 1
        /\ \A b \in Artifact : b # a => version'[b] = version[b]
    BY <1>1, <2>2, <2>3 DEF WorkTyped
  <2> QED
    BY <1>1, <2>1, <2>2, <2>4 DEF setup, files, shipped, mishaps, WorkTyped
<1>3. ObserverTyped'
  BY <1>1, <1>2 DEF ObserverTyped
<1>4. WorkTyped'
  BY <1>1, <1>2 DEF WorkTyped, Threads
<1>5. WorkersInOrder'
  BY <1>1, <1>2 DEF MonitorInv, WorkersInOrder
<1>6. OneAtATime'
  BY <1>1, <1>2 DEF MonitorInv, OneAtATime, WorksOn, AtWork, InHand, WorkTyped
<1>7. StagedIsRead'
  BY <1>1, <1>2 DEF MonitorInv, StagedIsRead, Holds, InHand, WorkTyped
<1>8. NothingIsNewer'
  <2>1. \A b \in Artifact : version[b] \in Int /\ version'[b] \in Int /\ taken[b] \in Int
    BY <1>1, <1>2, WorkerKinds DEF WorkTyped
  <2>2. \A b \in Artifact : taken'[b] <= version'[b]
    BY <1>2, <2>1 DEF MonitorInv, NothingIsNewer
  <2>3. ASSUME NEW w \in Worker, NEW b \in Artifact, Holds(w, b)' PROVE thread'[w].copy <= version'[b]
    <3>1. Holds(w, b) /\ thread'[w].copy = thread[w].copy
      BY <1>2, <2>3 DEF Holds
    <3>2. thread[w].copy <= version[b] /\ thread[w].copy \in Int
      BY <1>1, <3>1 DEF MonitorInv, NothingIsNewer, WorkTyped, Threads
    <3> QED
      BY <1>2, <2>1, <3>1, <3>2
  <2> QED
    BY <2>2, <2>3 DEF NothingIsNewer
<1>9. NothingYet'
  BY <1>1, <1>2 DEF MonitorInv, NothingYet, Watched, WorkTyped
<1>10. BuildsAreFollowed'
  BY <1>1, <1>2
     DEF MonitorInv, BuildsAreFollowed, Settled, Holds, InHand, AtWork, Watched, Seen,
         Visible, WorkTyped
<1>11. PlacedIsThere'
  BY <1>1, <1>2, WorkerKinds
     DEF MonitorInv, PlacedIsThere, IsPlaced, Settled, Holds, InHand, AtWork,
         WorkTyped
<1>12. ShippedIsThere'
  BY <1>1, <1>2, WorkerKinds DEF MonitorInv, ShippedIsThere, Settled, WorkTyped
<1> QED
  BY <1>3, <1>4, <1>5, <1>6, <1>7, <1>8, <1>9, <1>10, <1>11, <1>12, TypesInParts
     DEF MonitorInv, MonitorTypeOK, ObserverTyped, WorkTyped, Threads

\* An event: the timer that was waiting is cancelled, and another one is started.
LEMMA EventKeeps ==
  ASSUME MonitorInv, NEW a \in Artifact, HandleEvent(a)
  PROVE  MonitorInv'
<1>1. ObserverTyped /\ WorkTyped
  BY TypesInParts DEF MonitorInv
<1>2. /\ UNCHANGED <<phase, todo, polling, watched>>
      /\ UNCHANGED <<version, staged, deployed, asked, taken, unplaced, node, partial, overlapped,
                  lost>>
      /\ a \in queue /\ queue' = queue \ {a} /\ pending' = pending \cup {a}
      /\ timer' \in Timer
      /\ thread' \in [Worker -> Threads]
      /\ \A w \in Worker :
           /\ thread'[w].batch = thread[w].batch /\ thread'[w].file = thread[w].file
           /\ thread'[w].copy = thread[w].copy
           /\ thread'[w].at # thread[w].at =>
                /\ w \in Timer /\ thread[w].at \in {"waiting", "unused"}
                /\ thread'[w].at \in {"cancelled", "waiting"}
  <2>1. PICK t \in Timer : /\ thread[t].at = "unused" /\ timer' = t
                           /\ thread' = [Cancelled(timer) EXCEPT ![t].at = "waiting"]
    BY DEF HandleEvent
  <2>2. /\ Cancelled(timer) \in [Worker -> Threads]
        /\ \A w \in Worker :
             /\ Cancelled(timer)[w].batch = thread[w].batch /\ Cancelled(timer)[w].file = thread[w].file
             /\ Cancelled(timer)[w].copy = thread[w].copy
             /\ Cancelled(timer)[w].at # thread[w].at =>
                  w \in Timer /\ thread[w].at = "waiting" /\ Cancelled(timer)[w].at = "cancelled"
    BY <1>1, WorkerKinds DEF Cancelled, WorkTyped, Threads, ThreadSteps, NoTimer
  <2>3. Cancelled(timer)[t] = thread[t]
    BY <1>1, <2>1, WorkerKinds DEF Cancelled, WorkTyped, Threads
  <2>4. /\ thread' \in [Worker -> Threads]
        /\ thread'[t] = [thread[t] EXCEPT !.at = "waiting"]
        /\ \A w \in Worker : w # t => thread'[w] = Cancelled(timer)[w]
    BY <2>1, <2>2, <2>3, WorkerKinds DEF Threads, ThreadSteps
  <2>5. /\ thread'[t].at = "waiting" /\ thread'[t].batch = thread[t].batch
        /\ thread'[t].file = thread[t].file /\ thread'[t].copy = thread[t].copy
    BY <1>1, <2>4, WorkerKinds DEF WorkTyped, Threads
  <2> QED
    BY <2>1, <2>2, <2>4, <2>5 DEF HandleEvent, setup, files, shipped, mishaps
<1>3. ObserverTyped'
  BY <1>1, <1>2 DEF ObserverTyped
<1>4. WorkTyped'
  BY <1>1, <1>2, WorkerKinds DEF WorkTyped, Threads
<1>5. WorkersInOrder'
  BY <1>1, <1>2, WorkerKinds DEF MonitorInv, WorkersInOrder
<1>6. OneAtATime'
  BY <1>1, <1>2, <1>2 DEF MonitorInv, OneAtATime, WorksOn, AtWork, InHand, WorkTyped
<1>7. StagedIsRead'
  BY <1>1, <1>2 DEF MonitorInv, StagedIsRead, Holds, InHand, WorkTyped
<1>8. NothingIsNewer'
  BY <1>1, <1>2, WorkerKinds DEF MonitorInv, NothingIsNewer, Holds, InHand, WorkTyped
<1>9. NothingYet'
  BY <1>1, <1>2 DEF MonitorInv, NothingYet, Watched, WorkTyped
<1>10. BuildsAreFollowed'
  <2>1. \A w \in Worker : /\ thread'[w].at \in AtWork <=> thread[w].at \in AtWork
                        /\ thread'[w].at \in InHand <=> thread[w].at \in InHand
    BY <1>2 DEF AtWork, InHand
  <2>2. SUFFICES ASSUME phase = "watching", NEW b \in Settled, Seen(b)
        PROVE  /\ \/ b \in queue' \cup pending'
                  \/ \E t \in Timer : thread'[t].at \in AtWork /\ b \in thread'[t].batch
                  \/ \E w \in Worker : Holds(w, b)' /\ FileOf(w, b) = FileOf(NoTimer, b)
                  \/ Watched(b) = version[b]
               /\ \A w \in Worker : Holds(w, b)' =>
                    b \in queue' \cup pending' \/ thread'[w].copy = version[b]
    BY <1>2 DEF BuildsAreFollowed, Settled, Seen, Visible, Watched
  <2>3. \A w \in Worker : Holds(w, b)' <=> Holds(w, b)
    BY <1>2, <2>1 DEF Holds, InHand
  <2>4. queue \cup pending \subseteq queue' \cup pending'
    BY <1>2
  <2> QED
    BY <1>2, <2>1, <2>2, <2>3, <2>4, WorkerKinds
       DEF MonitorInv, BuildsAreFollowed, AtWork
<1>11. PlacedIsThere'
  BY <1>1, <1>2, WorkerKinds
     DEF MonitorInv, PlacedIsThere, IsPlaced, Settled, Holds, InHand, AtWork,
         WorkTyped
<1>12. ShippedIsThere'
  BY <1>1, <1>2, WorkerKinds DEF MonitorInv, ShippedIsThere, Settled, WorkTyped
<1> QED
  BY <1>3, <1>4, <1>5, <1>6, <1>7, <1>8, <1>9, <1>10, <1>11, <1>12, TypesInParts
     DEF MonitorInv, MonitorTypeOK, ObserverTyped, WorkTyped, Threads

-----------------------------------------------------------------------------
(* Workers that have nothing in hand                                       *)

\* Nothing happens.
LEMMA UnchangedKeeps ==
  ASSUME MonitorInv, UNCHANGED monitorVars
  PROVE  MonitorInv'
<1>1. ObserverTyped /\ WorkTyped
  BY TypesInParts DEF MonitorInv
<1>2. /\ UNCHANGED thread
      /\ UNCHANGED <<phase, todo, polling, watched, version, queue, pending, timer, staged,
                   deployed, asked, taken, unplaced, node, partial, overlapped, lost>>
  BY DEF monitorVars, setup, intake, files, shipped, mishaps
<1>3. ObserverTyped'
  BY <1>1, <1>2 DEF ObserverTyped
<1>4. WorkTyped'
  BY <1>1, <1>2 DEF WorkTyped, Threads
<1>5. WorkersInOrder'
  BY <1>1, <1>2 DEF MonitorInv, WorkersInOrder
<1>6. OneAtATime'
  BY <1>1, <1>2 DEF MonitorInv, OneAtATime, WorksOn, AtWork, InHand, WorkTyped
<1>7. StagedIsRead'
  BY <1>1, <1>2 DEF MonitorInv, StagedIsRead, Holds, InHand, WorkTyped
<1>8. NothingIsNewer'
  BY <1>1, <1>2, WorkerKinds DEF MonitorInv, NothingIsNewer, Holds, InHand, WorkTyped
<1>9. NothingYet'
  BY <1>1, <1>2 DEF MonitorInv, NothingYet, Watched, WorkTyped
<1>10. BuildsAreFollowed'
  BY <1>2
     DEF MonitorInv, BuildsAreFollowed, Settled, Holds, AtWork, InHand, Watched, Seen,
         Visible
<1>11. PlacedIsThere'
  BY <1>1, <1>2, WorkerKinds
     DEF MonitorInv, PlacedIsThere, IsPlaced, Settled, Holds, InHand, AtWork,
         WorkTyped
<1>12. ShippedIsThere'
  BY <1>1, <1>2, WorkerKinds DEF MonitorInv, ShippedIsThere, Settled, WorkTyped
<1> QED
  BY <1>3, <1>4, <1>5, <1>6, <1>7, <1>8, <1>9, <1>10, <1>11, <1>12, TypesInParts
     DEF MonitorInv, MonitorTypeOK, ObserverTyped, WorkTyped, Threads

\* A timer fires.
LEMMA FireKeeps ==
  ASSUME MonitorInv, NEW t \in Timer, Fire(t)
  PROVE  MonitorInv'
<1>1. ObserverTyped /\ WorkTyped
  BY TypesInParts DEF MonitorInv
<1>2. /\ thread[t].at = "waiting"
      /\ thread' \in [Worker -> Threads]
      /\ \A v \in Worker : v # t => thread'[v] = thread[v]
      /\ thread'[t].at = "fired"
      /\ thread'[t].batch = thread[t].batch /\ thread'[t].file = thread[t].file /\ thread'[t].copy = thread[t].copy
      /\ UNCHANGED <<phase, todo, polling, watched, version, queue, pending, timer, staged,
                   deployed, asked, taken, unplaced, node, partial, overlapped, lost>>
  BY <1>1, WorkerKinds
     DEF Fire, setup, intake, files, shipped, mishaps, WorkTyped, Threads, ThreadSteps
<1>3. ObserverTyped'
  BY <1>1, <1>2 DEF ObserverTyped
<1>4. WorkTyped'
  BY <1>1, <1>2 DEF WorkTyped, Threads
<1>5. WorkersInOrder'
  BY <1>1, <1>2, WorkerKinds DEF MonitorInv, WorkersInOrder
<1>6. OneAtATime'
  BY <1>1, <1>2 DEF MonitorInv, OneAtATime, WorksOn, AtWork, InHand, WorkTyped
<1>7. StagedIsRead'
  BY <1>1, <1>2 DEF MonitorInv, StagedIsRead, Holds, InHand, WorkTyped
<1>8. NothingIsNewer'
  BY <1>1, <1>2, WorkerKinds DEF MonitorInv, NothingIsNewer, Holds, InHand, WorkTyped
<1>9. NothingYet'
  BY <1>1, <1>2 DEF MonitorInv, NothingYet, Watched, WorkTyped
<1>10. BuildsAreFollowed'
  <2>1. SUFFICES ASSUME phase = "watching", NEW b \in Settled, Seen(b)
        PROVE  /\ \/ b \in queue \cup pending
                  \/ \E u \in Timer : thread'[u].at \in AtWork /\ b \in thread'[u].batch
                  \/ \E v \in Worker : Holds(v, b)' /\ FileOf(v, b) = FileOf(NoTimer, b)
                  \/ Watched(b) = version[b]
               /\ \A v \in Worker : Holds(v, b)' =>
                    b \in queue \cup pending \/ thread'[v].copy = version[b]
    BY <1>2 DEF BuildsAreFollowed, Settled, Seen, Visible, Watched
  <2>2. \A v \in Worker : Holds(v, b)' <=> Holds(v, b)
    BY <1>2 DEF Holds, InHand
  <2>3. \A v \in Worker : thread[v].at \in AtWork /\ b \in thread[v].batch
                     => thread'[v].at \in AtWork /\ b \in thread'[v].batch
    BY <1>2 DEF AtWork, InHand
  <2>4. \A v \in Worker : thread'[v].copy = thread[v].copy
    BY <1>2
  <2> QED
    BY <1>2, <2>1, <2>2, <2>3, <2>4, WorkerKinds DEF MonitorInv, BuildsAreFollowed
<1>11. PlacedIsThere'
  BY <1>1, <1>2, WorkerKinds
     DEF MonitorInv, PlacedIsThere, IsPlaced, Settled, Holds, InHand, AtWork,
         WorkTyped
<1>12. ShippedIsThere'
  BY <1>1, <1>2, WorkerKinds DEF MonitorInv, ShippedIsThere, Settled, WorkTyped
<1> QED
  BY <1>3, <1>4, <1>5, <1>6, <1>7, <1>8, <1>9, <1>10, <1>11, <1>12, TypesInParts
     DEF MonitorInv, MonitorTypeOK, ObserverTyped, WorkTyped, Threads

\* The project is brought up.
LEMMA DeployKeeps ==
  ASSUME MonitorInv, NEW w \in Worker, Deploy(w)
  PROVE  MonitorInv'
<1>1. ObserverTyped /\ WorkTyped
  BY TypesInParts DEF MonitorInv
<1>2. /\ thread[w].at = "deploying"
      /\ thread' \in [Worker -> Threads]
      /\ \A v \in Worker : v # w => thread'[v] = thread[v]
      /\ thread'[w].at \in {"done", "failed"}
      /\ thread'[w].batch = thread[w].batch /\ thread'[w].file = thread[w].file /\ thread'[w].copy = thread[w].copy
      /\ UNCHANGED <<phase, todo, polling, watched, version, queue, pending, timer, staged,
                   deployed, asked, taken, unplaced, node, partial, overlapped, lost>>
  BY <1>1, WorkerKinds
     DEF Deploy, setup, intake, files, shipped, mishaps, WorkTyped, Threads,
         ThreadSteps
<1>3. ObserverTyped'
  BY <1>1, <1>2 DEF ObserverTyped
<1>4. WorkTyped'
  BY <1>1, <1>2 DEF WorkTyped, Threads
<1>5. WorkersInOrder'
  BY <1>1, <1>2, WorkerKinds DEF MonitorInv, WorkersInOrder
<1>6. OneAtATime'
  BY <1>1, <1>2 DEF MonitorInv, OneAtATime, WorksOn, AtWork, InHand, WorkTyped
<1>7. StagedIsRead'
  BY <1>1, <1>2 DEF MonitorInv, StagedIsRead, Holds, InHand, WorkTyped
<1>8. NothingIsNewer'
  BY <1>1, <1>2, WorkerKinds DEF MonitorInv, NothingIsNewer, Holds, InHand, WorkTyped
<1>9. NothingYet'
  BY <1>1, <1>2 DEF MonitorInv, NothingYet, Watched, WorkTyped
<1>10. BuildsAreFollowed'
  <2>1. SUFFICES ASSUME phase = "watching", NEW b \in Settled, Seen(b)
        PROVE  /\ \/ b \in queue \cup pending
                  \/ \E u \in Timer : thread'[u].at \in AtWork /\ b \in thread'[u].batch
                  \/ \E v \in Worker : Holds(v, b)' /\ FileOf(v, b) = FileOf(NoTimer, b)
                  \/ Watched(b) = version[b]
               /\ \A v \in Worker : Holds(v, b)' =>
                    b \in queue \cup pending \/ thread'[v].copy = version[b]
    BY <1>2 DEF BuildsAreFollowed, Settled, Seen, Visible, Watched
  <2>2. \A v \in Worker : Holds(v, b)' <=> Holds(v, b)
    BY <1>2 DEF Holds, InHand
  <2>3. \A v \in Worker : thread[v].at \in AtWork /\ b \in thread[v].batch
                     => thread'[v].at \in AtWork /\ b \in thread'[v].batch
    BY <1>2 DEF AtWork, InHand
  <2>4. \A v \in Worker : thread'[v].copy = thread[v].copy
    BY <1>2
  <2> QED
    BY <1>2, <2>1, <2>2, <2>3, <2>4, WorkerKinds DEF MonitorInv, BuildsAreFollowed
<1>11. PlacedIsThere'
  BY <1>1, <1>2, WorkerKinds
     DEF MonitorInv, PlacedIsThere, IsPlaced, Settled, Holds, InHand, AtWork,
         WorkTyped
<1>12. ShippedIsThere'
  BY <1>1, <1>2, WorkerKinds DEF MonitorInv, ShippedIsThere, Settled, WorkTyped
<1> QED
  BY <1>3, <1>4, <1>5, <1>6, <1>7, <1>8, <1>9, <1>10, <1>11, <1>12, TypesInParts
     DEF MonitorInv, MonitorTypeOK, ObserverTyped, WorkTyped, Threads

\* A mirror ends or fails.
LEMMA MirrorEnds ==
  ASSUME MonitorInv, NEW t \in Timer, FailMirror(t) \/ FinishMirror(t)
  PROVE  MonitorInv'
<1>1. ObserverTyped /\ WorkTyped
  BY TypesInParts DEF MonitorInv
<1>2. /\ thread[t].at = "mirroring"
      /\ thread' \in [Worker -> Threads]
      /\ \A v \in Worker : v # t => thread'[v] = thread[v]
      /\ thread'[t].at = "deploying"
      /\ thread'[t].batch = {} /\ thread'[t].file = thread[t].file /\ thread'[t].copy = thread[t].copy
      /\ UNCHANGED <<phase, todo, polling, watched, version, queue, pending, timer, staged,
                   deployed, asked, taken, unplaced, node, partial, overlapped, lost>>
  BY <1>1, WorkerKinds
     DEF FailMirror, FinishMirror, setup, intake, files, shipped, mishaps, WorkTyped,
         Threads, ThreadSteps
<1>3. ObserverTyped'
  BY <1>1, <1>2 DEF ObserverTyped
<1>4. WorkTyped'
  BY <1>1, <1>2 DEF WorkTyped, Threads
<1>5. WorkersInOrder'
  BY <1>1, <1>2, WorkerKinds DEF MonitorInv, WorkersInOrder
<1>6. OneAtATime'
  BY <1>1, <1>2 DEF MonitorInv, OneAtATime, WorksOn, AtWork, InHand, WorkTyped
<1>7. StagedIsRead'
  BY <1>1, <1>2 DEF MonitorInv, StagedIsRead, Holds, InHand, WorkTyped
<1>8. NothingIsNewer'
  BY <1>1, <1>2, WorkerKinds DEF MonitorInv, NothingIsNewer, Holds, InHand, WorkTyped
<1>9. NothingYet'
  BY <1>1, <1>2 DEF MonitorInv, NothingYet, Watched, WorkTyped
<1>10. BuildsAreFollowed'
  <2>1. SUFFICES ASSUME phase = "watching", NEW b \in Settled, Seen(b)
        PROVE  /\ \/ b \in queue \cup pending
                  \/ \E u \in Timer : thread'[u].at \in AtWork /\ b \in thread'[u].batch
                  \/ \E v \in Worker : Holds(v, b)' /\ FileOf(v, b) = FileOf(NoTimer, b)
                  \/ Watched(b) = version[b]
               /\ \A v \in Worker : Holds(v, b)' =>
                    b \in queue \cup pending \/ thread'[v].copy = version[b]
    BY <1>2 DEF BuildsAreFollowed, Settled, Seen, Visible, Watched
  <2>2. \A v \in Worker : Holds(v, b)' <=> Holds(v, b)
    BY <1>2 DEF Holds, InHand
  <2>3. \A v \in Worker : thread[v].at \in AtWork /\ b \in thread[v].batch
                     => thread'[v].at \in AtWork /\ b \in thread'[v].batch
    BY <1>2 DEF AtWork, InHand
  <2>4. \A v \in Worker : thread'[v].copy = thread[v].copy
    BY <1>2
  <2> QED
    BY <1>2, <2>1, <2>2, <2>3, <2>4, WorkerKinds DEF MonitorInv, BuildsAreFollowed
<1>11. PlacedIsThere'
  BY <1>1, <1>2, WorkerKinds
     DEF MonitorInv, PlacedIsThere, IsPlaced, Settled, Holds, InHand, AtWork,
         WorkTyped
<1>12. ShippedIsThere'
  BY <1>1, <1>2, WorkerKinds DEF MonitorInv, ShippedIsThere, Settled, WorkTyped
<1> QED
  BY <1>3, <1>4, <1>5, <1>6, <1>7, <1>8, <1>9, <1>10, <1>11, <1>12, TypesInParts
     DEF MonitorInv, MonitorTypeOK, ObserverTyped, WorkTyped, Threads

\* The command has shipped all it could.
LEMMA DeliveredKeeps ==
  ASSUME MonitorInv, Delivered
  PROVE  MonitorInv'
<1>1. ObserverTyped /\ WorkTyped
  BY TypesInParts DEF MonitorInv
<1>2. /\ thread[Deployer].at = "shipping" /\ thread[Deployer].batch = {}
      /\ thread'[Deployer].at = "deploying" => unplaced = {}
      /\ thread' \in [Worker -> Threads]
      /\ \A v \in Worker : v # Deployer => thread'[v] = thread[v]
      /\ thread'[Deployer].at \in {"deploying", "failed"}
      /\ thread'[Deployer].batch = thread[Deployer].batch /\ thread'[Deployer].file = thread[Deployer].file /\ thread'[Deployer].copy = thread[Deployer].copy
      /\ UNCHANGED <<phase, todo, polling, watched, version, queue, pending, timer, staged,
                   deployed, asked, taken, unplaced, node, partial, overlapped, lost>>
  BY <1>1, WorkerKinds
     DEF Delivered, setup, intake, files, shipped, mishaps, WorkTyped, Threads,
         ThreadSteps
<1>3. ObserverTyped'
  BY <1>1, <1>2 DEF ObserverTyped
<1>4. WorkTyped'
  BY <1>1, <1>2 DEF WorkTyped, Threads
<1>5. WorkersInOrder'
  BY <1>1, <1>2, WorkerKinds DEF MonitorInv, WorkersInOrder
<1>6. OneAtATime'
  BY <1>1, <1>2 DEF MonitorInv, OneAtATime, WorksOn, AtWork, InHand, WorkTyped
<1>7. StagedIsRead'
  BY <1>1, <1>2 DEF MonitorInv, StagedIsRead, Holds, InHand, WorkTyped
<1>8. NothingIsNewer'
  BY <1>1, <1>2, WorkerKinds DEF MonitorInv, NothingIsNewer, Holds, InHand, WorkTyped
<1>9. NothingYet'
  BY <1>1, <1>2 DEF MonitorInv, NothingYet, Watched, WorkTyped
<1>10. BuildsAreFollowed'
  <2>1. SUFFICES ASSUME phase = "watching", NEW b \in Settled, Seen(b)
        PROVE  /\ \/ b \in queue \cup pending
                  \/ \E u \in Timer : thread'[u].at \in AtWork /\ b \in thread'[u].batch
                  \/ \E v \in Worker : Holds(v, b)' /\ FileOf(v, b) = FileOf(NoTimer, b)
                  \/ Watched(b) = version[b]
               /\ \A v \in Worker : Holds(v, b)' =>
                    b \in queue \cup pending \/ thread'[v].copy = version[b]
    BY <1>2 DEF BuildsAreFollowed, Settled, Seen, Visible, Watched
  <2>2. \A v \in Worker : Holds(v, b)' <=> Holds(v, b)
    BY <1>2 DEF Holds, InHand
  <2>3. \A v \in Worker : thread[v].at \in AtWork /\ b \in thread[v].batch
                     => thread'[v].at \in AtWork /\ b \in thread'[v].batch
    BY <1>2 DEF AtWork, InHand
  <2>4. \A v \in Worker : thread'[v].copy = thread[v].copy
    BY <1>2
  <2> QED
    BY <1>2, <2>1, <2>2, <2>3, <2>4, WorkerKinds DEF MonitorInv, BuildsAreFollowed
<1>11. PlacedIsThere'
  BY <1>1, <1>2, WorkerKinds
     DEF MonitorInv, PlacedIsThere, IsPlaced, Settled, Holds, InHand, AtWork,
         WorkTyped
<1>12. ShippedIsThere'
  BY <1>1, <1>2, WorkerKinds DEF MonitorInv, ShippedIsThere, Settled, WorkTyped
<1> QED
  BY <1>3, <1>4, <1>5, <1>6, <1>7, <1>8, <1>9, <1>10, <1>11, <1>12, TypesInParts
     DEF MonitorInv, MonitorTypeOK, ObserverTyped, WorkTyped, Threads

\* A batch is copied.
LEMMA FinishBatchKeeps ==
  ASSUME MonitorInv, NEW w \in Worker, FinishBatch(w)
  PROVE  MonitorInv'
<1>1. ObserverTyped /\ WorkTyped
  BY TypesInParts DEF MonitorInv
<1>2. /\ thread[w].at = "working" /\ thread[w].batch = {}
      /\ \/ w = Deployer /\ Remote /\ thread'[w].at = "shipping" /\ thread'[w].batch = asked
         \/ w # Deployer /\ thread'[w].at = "mirroring"
         \/ ~(Remote /\ w = Deployer) /\ thread'[w].at = "deploying" /\ thread'[w].batch = {}
      /\ thread' \in [Worker -> Threads]
      /\ \A v \in Worker : v # w => thread'[v] = thread[v]
      /\ thread'[w].file = thread[w].file /\ thread'[w].copy = thread[w].copy
      /\ UNCHANGED <<phase, todo, polling, watched, version, queue, pending, timer, staged,
                   deployed, asked, taken, unplaced, node, partial, overlapped, lost>>
  <2> DEFINE next == CASE Remote /\ w = Deployer -> "shipping"
                      [] Remote /\ w # Deployer /\ ~thread[w].services -> "mirroring"
                      [] OTHER -> "deploying"
             left == CASE Remote /\ w = Deployer -> asked
                       [] Remote /\ w # Deployer /\ ~thread[w].services -> Artifact
                       [] OTHER -> {}
  <2>1. next \in ThreadSteps /\ left \in SUBSET Artifact
    BY <1>1, WorkerKinds DEF WorkTyped, ThreadSteps
  <2>2. thread' = [thread EXCEPT ![w].at = next, ![w].batch = left]
    BY DEF FinishBatch
  <2>3. \/ w = Deployer /\ Remote /\ next = "shipping" /\ left = asked
        \/ w # Deployer /\ next = "mirroring"
        \/ ~(Remote /\ w = Deployer) /\ next = "deploying" /\ left = {}
    BY DEF next, left
  <2> HIDE DEF next, left
  <2>4. /\ thread' \in [Worker -> Threads]
        /\ thread'[w].at = next /\ thread'[w].batch = left
        /\ thread'[w].file = thread[w].file /\ thread'[w].copy = thread[w].copy
        /\ \A v \in Worker : v # w => thread'[v] = thread[v]
    BY <1>1, <2>1, <2>2 DEF WorkTyped, Threads
  <2> QED
    BY <2>3, <2>4 DEF FinishBatch, setup, intake, files, shipped, mishaps
<1>3. ObserverTyped'
  BY <1>1, <1>2 DEF ObserverTyped
<1>4. WorkTyped'
  BY <1>1, <1>2 DEF WorkTyped, Threads
<1>5. WorkersInOrder'
  BY <1>1, <1>2, WorkerKinds DEF MonitorInv, WorkersInOrder
<1>6. OneAtATime'
  BY <1>1, <1>2 DEF MonitorInv, OneAtATime, WorksOn, AtWork, InHand, WorkTyped
<1>7. StagedIsRead'
  BY <1>1, <1>2 DEF MonitorInv, StagedIsRead, Holds, InHand, WorkTyped
<1>8. NothingIsNewer'
  BY <1>1, <1>2, WorkerKinds DEF MonitorInv, NothingIsNewer, Holds, InHand, WorkTyped
<1>9. NothingYet'
  BY <1>1, <1>2 DEF MonitorInv, NothingYet, Watched, WorkTyped
<1>10. BuildsAreFollowed'
  <2>1. SUFFICES ASSUME phase = "watching", NEW b \in Settled, Seen(b)
        PROVE  /\ \/ b \in queue \cup pending
                  \/ \E u \in Timer : thread'[u].at \in AtWork /\ b \in thread'[u].batch
                  \/ \E v \in Worker : Holds(v, b)' /\ FileOf(v, b) = FileOf(NoTimer, b)
                  \/ Watched(b) = version[b]
               /\ \A v \in Worker : Holds(v, b)' =>
                    b \in queue \cup pending \/ thread'[v].copy = version[b]
    BY <1>2 DEF BuildsAreFollowed, Settled, Seen, Visible, Watched
  <2>2. \A v \in Worker : Holds(v, b)' <=> Holds(v, b)
    BY <1>2 DEF Holds, InHand
  <2>3. \A v \in Worker : thread[v].at \in AtWork /\ b \in thread[v].batch
                     => thread'[v].at \in AtWork /\ b \in thread'[v].batch
    BY <1>2 DEF AtWork, InHand
  <2>4. \A v \in Worker : thread'[v].copy = thread[v].copy
    BY <1>2
  <2> QED
    BY <1>2, <2>1, <2>2, <2>3, <2>4, WorkerKinds DEF MonitorInv, BuildsAreFollowed
<1>11. PlacedIsThere'
  BY <1>1, <1>2, WorkerKinds
     DEF MonitorInv, PlacedIsThere, IsPlaced, Settled, Holds, InHand, AtWork,
         WorkTyped
<1>12. ShippedIsThere'
  BY <1>1, <1>2, WorkerKinds DEF MonitorInv, ShippedIsThere, Settled, WorkTyped
<1> QED
  BY <1>3, <1>4, <1>5, <1>6, <1>7, <1>8, <1>9, <1>10, <1>11, <1>12, TypesInParts
     DEF MonitorInv, MonitorTypeOK, ObserverTyped, WorkTyped, Threads

-----------------------------------------------------------------------------
(* Workers that take something in hand                                     *)

\* A timer takes what is pending.
LEMMA TakePendingKeeps ==
  ASSUME MonitorInv, NEW t \in Timer, TakePending(t)
  PROVE  MonitorInv'
<1>1. ObserverTyped /\ WorkTyped
  BY TypesInParts DEF MonitorInv
<1>2. /\ thread[t].at = "fired"
      /\ thread'[t].at = IF pending = {} THEN "done" ELSE "working"
      /\ thread' \in [Worker -> Threads]
      /\ \A v \in Worker : v # t => thread'[v] = thread[v]
      /\ thread'[t].batch = pending /\ thread'[t].file = thread[t].file /\ thread'[t].copy = thread[t].copy
      /\ pending' = {} /\ timer' = NoTimer
      /\ overlapped' = overlapped \cup (pending \cap InWork)
      /\ UNCHANGED <<phase, todo, polling, watched, version, queue, staged, deployed, asked,
                   taken, unplaced, node, partial, lost>>
  <2> DEFINE next == IF pending = {} THEN "done" ELSE "working"
             up == pending \cap Containers # {}
  <2>1. thread' = [thread EXCEPT ![t].batch = pending, ![t].services = up, ![t].at = next]
    BY DEF TakePending
  <2>2. next \in ThreadSteps /\ up \in BOOLEAN /\ pending \in SUBSET Artifact
    BY <1>1 DEF ThreadSteps, WorkTyped
  <2>3. next = IF pending = {} THEN "done" ELSE "working"
    OBVIOUS
  <2> HIDE DEF next, up
  <2>4. /\ thread' \in [Worker -> Threads]
        /\ thread'[t].at = next /\ thread'[t].batch = pending
        /\ thread'[t].file = thread[t].file /\ thread'[t].copy = thread[t].copy
        /\ \A v \in Worker : v # t => thread'[v] = thread[v]
    BY <1>1, <2>1, <2>2, WorkerKinds DEF WorkTyped, Threads
  <2> QED
    BY <2>3, <2>4 DEF TakePending, setup, files, shipped
<1>3. ObserverTyped'
  BY <1>1, <1>2 DEF ObserverTyped
<1>4. WorkTyped'
  BY <1>1, <1>2, WorkerKinds DEF WorkTyped, Threads, NoTimer
<1>5. WorkersInOrder'
  BY <1>1, <1>2, WorkerKinds DEF MonitorInv, WorkersInOrder
<1>6. OneAtATime'
  <2>1. \A b \in Artifact \ overlapped', v \in Worker :
          b \in pending => b \notin thread[v].batch /\ thread[v].file # b
    BY <1>1, <1>2, WorkerKinds DEF InWork
  <2>2. ASSUME NEW b \in Artifact \ overlapped', NEW v \in Worker, NEW w \in Worker,
               v # t, WorksOn(v, b)', WorksOn(w, b)'
        PROVE  v = w
    <3>1. WorksOn(v, b) /\ b \notin overlapped
      BY <1>2, <2>2 DEF WorksOn, AtWork, InHand
    <3>2. CASE w = t
      <4>1. thread[t].file = NoArtifact
        BY <1>1, <1>2, WorkerKinds DEF WorkTyped
      <4> QED
        BY <1>2, <2>1, <2>2, <3>1, <3>2, <4>1, WorkerKinds DEF WorksOn
    <3>3. CASE w # t
      BY <1>2, <2>2, <3>1, <3>3 DEF WorksOn, AtWork, InHand, MonitorInv, OneAtATime
    <3> QED
      BY <3>2, <3>3
  <2> QED
    BY <2>2 DEF OneAtATime
<1>7. StagedIsRead'
  BY <1>1, <1>2 DEF MonitorInv, StagedIsRead, Holds, InHand, WorkTyped
<1>8. NothingIsNewer'
  BY <1>1, <1>2, WorkerKinds DEF MonitorInv, NothingIsNewer, Holds, InHand, WorkTyped
<1>9. NothingYet'
  BY <1>1, <1>2 DEF MonitorInv, NothingYet, Watched, InWork, WorkTyped
<1>10. BuildsAreFollowed'
  <2>1. SUFFICES ASSUME phase = "watching", NEW b \in Settled, b \notin overlapped', Seen(b)
        PROVE  /\ \/ b \in queue
                  \/ \E u \in Timer : thread'[u].at \in AtWork /\ b \in thread'[u].batch
                  \/ \E v \in Worker : Holds(v, b)' /\ FileOf(v, b) = FileOf(NoTimer, b)
                  \/ Watched(b) = version[b]
               /\ \A v \in Worker : Holds(v, b)' =>
                    b \in queue \/ thread'[v].copy = version[b]
    BY <1>2 DEF BuildsAreFollowed, Settled, Seen, Visible, Watched
  <2>2. \A v \in Worker : Holds(v, b)' <=> Holds(v, b)
    BY <1>2 DEF Holds, InHand
  <2>3. \A v \in Worker : thread[v].at \in AtWork /\ b \in thread[v].batch
                     => thread'[v].at \in AtWork /\ b \in thread'[v].batch
    BY <1>2 DEF AtWork, InHand
  <2>4. \A v \in Worker : thread'[v].copy = thread[v].copy
    BY <1>2
  <2>5. b \in pending =>
          thread'[t].at \in AtWork /\ b \in thread'[t].batch /\ \A v \in Worker : ~Holds(v, b)
    BY <1>1, <1>2, <2>1, WorkerKinds DEF AtWork, InWork, Holds, Settled
  <2> QED
    BY <1>2, <2>1, <2>2, <2>3, <2>4, <2>5, WorkerKinds
       DEF MonitorInv, BuildsAreFollowed
<1>11. PlacedIsThere'
  BY <1>1, <1>2, WorkerKinds
     DEF MonitorInv, PlacedIsThere, IsPlaced, Settled, Holds, InHand, AtWork,
         WorkTyped
<1>12. ShippedIsThere'
  BY <1>1, <1>2, WorkerKinds DEF MonitorInv, ShippedIsThere, Settled, WorkTyped
<1> QED
  BY <1>3, <1>4, <1>5, <1>6, <1>7, <1>8, <1>9, <1>10, <1>11, <1>12, TypesInParts
     DEF MonitorInv, MonitorTypeOK, ObserverTyped, WorkTyped, Threads

\* `ldm deploy` starts.
LEMMA StartDeployKeeps ==
  ASSUME MonitorInv, StartDeploy
  PROVE  MonitorInv'
<1>1. ObserverTyped /\ WorkTyped
  BY TypesInParts DEF MonitorInv
<1>2. /\ phase = "watching" /\ thread[Deployer].at = "unused"
      /\ asked' \subseteq Artifact
      /\ thread' \in [Worker -> Threads]
      /\ \A v \in Worker : v # Deployer => thread'[v] = thread[v]
      /\ thread'[Deployer].at = "working"
      /\ thread'[Deployer].batch = asked' /\ thread'[Deployer].file = thread[Deployer].file /\ thread'[Deployer].copy = thread[Deployer].copy
      /\ overlapped' = overlapped \cup (asked' \cap InWork)
      /\ UNCHANGED <<phase, todo, polling, watched, version, queue, pending, timer, staged,
                   deployed, taken, unplaced, node, partial, lost>>
  <2>1. PICK batch \in SUBSET Artifact :
          /\ thread' = [thread EXCEPT ![Deployer].at = "working", ![Deployer].batch = batch]
          /\ asked' = batch
          /\ overlapped' = overlapped \cup (batch \cap InWork)
    BY DEF StartDeploy
  <2>2. /\ thread' \in [Worker -> Threads]
        /\ thread'[Deployer].at = "working" /\ thread'[Deployer].batch = batch
        /\ thread'[Deployer].file = thread[Deployer].file
        /\ thread'[Deployer].copy = thread[Deployer].copy
        /\ \A v \in Worker : v # Deployer => thread'[v] = thread[v]
    <3>1. thread' = [thread EXCEPT ![Deployer].at = "working", ![Deployer].batch = batch]
      BY <2>1
    <3>2. "working" \in ThreadSteps
      BY DEF ThreadSteps
    <3> QED
      BY <1>1, <3>1, <3>2, WorkerKinds DEF WorkTyped, Threads
  <2> QED
    BY <2>1, <2>2 DEF StartDeploy, setup, intake, files
<1>3. ObserverTyped'
  BY <1>1, <1>2 DEF ObserverTyped
<1>4. WorkTyped'
  BY <1>1, <1>2, WorkerKinds DEF WorkTyped, Threads, MonitorInv, WorkersInOrder
<1>5. WorkersInOrder'
  BY <1>1, <1>2, WorkerKinds DEF MonitorInv, WorkersInOrder
<1>6. OneAtATime'
  <2>1. \A b \in Artifact \ overlapped', v \in Worker :
          b \in asked' => b \notin thread[v].batch /\ thread[v].file # b
    BY <1>1, <1>2, WorkerKinds DEF InWork
  <2>2. ASSUME NEW b \in Artifact \ overlapped', NEW v \in Worker, NEW w \in Worker,
               v # Deployer, WorksOn(v, b)', WorksOn(w, b)'
        PROVE  v = w
    <3>1. WorksOn(v, b) /\ b \notin overlapped
      BY <1>2, <2>2 DEF WorksOn, AtWork, InHand
    <3>2. CASE w = Deployer
      <4>1. thread[Deployer].file = NoArtifact
        BY <1>1, <1>2, WorkerKinds DEF WorkTyped
      <4> QED
        BY <1>2, <2>1, <2>2, <3>1, <3>2, <4>1, WorkerKinds DEF WorksOn
    <3>3. CASE w # Deployer
      BY <1>2, <2>2, <3>1, <3>3 DEF WorksOn, AtWork, InHand, MonitorInv, OneAtATime
    <3> QED
      BY <3>2, <3>3
  <2> QED
    BY <2>2 DEF OneAtATime
<1>7. StagedIsRead'
  BY <1>1, <1>2 DEF MonitorInv, StagedIsRead, Holds, InHand, WorkTyped
<1>8. NothingIsNewer'
  BY <1>1, <1>2, WorkerKinds DEF MonitorInv, NothingIsNewer, Holds, InHand, WorkTyped
<1>9. NothingYet'
  BY <1>1, <1>2 DEF MonitorInv, NothingYet, Watched, WorkTyped
<1>10. BuildsAreFollowed'
  <2>1. SUFFICES ASSUME phase = "watching", NEW b \in Settled, Seen(b)
        PROVE  /\ \/ b \in queue \cup pending
                  \/ \E u \in Timer : thread'[u].at \in AtWork /\ b \in thread'[u].batch
                  \/ \E v \in Worker : Holds(v, b)' /\ FileOf(v, b) = FileOf(NoTimer, b)
                  \/ Watched(b) = version[b]
               /\ \A v \in Worker : Holds(v, b)' =>
                    b \in queue \cup pending \/ thread'[v].copy = version[b]
    BY <1>2 DEF BuildsAreFollowed, Settled, Seen, Visible, Watched
  <2>2. \A v \in Worker : Holds(v, b)' <=> Holds(v, b)
    BY <1>2 DEF Holds, InHand
  <2>3. \A v \in Worker : thread[v].at \in AtWork /\ b \in thread[v].batch
                     => thread'[v].at \in AtWork /\ b \in thread'[v].batch
    BY <1>2 DEF AtWork, InHand
  <2>4. \A v \in Worker : thread'[v].copy = thread[v].copy
    BY <1>2
  <2> QED
    BY <1>2, <2>1, <2>2, <2>3, <2>4, WorkerKinds DEF MonitorInv, BuildsAreFollowed
<1>11. PlacedIsThere'
  BY <1>1, <1>2, WorkerKinds
     DEF MonitorInv, PlacedIsThere, IsPlaced, Settled, Holds, InHand, AtWork,
         WorkTyped
<1>12. ShippedIsThere'
  BY <1>1, <1>2, WorkerKinds DEF MonitorInv, ShippedIsThere, Settled, WorkTyped
<1> QED
  BY <1>3, <1>4, <1>5, <1>6, <1>7, <1>8, <1>9, <1>10, <1>11, <1>12, TypesInParts
     DEF MonitorInv, MonitorTypeOK, ObserverTyped, WorkTyped, Threads

\* A worker reads an artifact.
LEMMA ReadArtifactKeeps ==
  ASSUME MonitorInv, NEW w \in Worker, NEW a \in Artifact,
         a \in thread[w].batch, ReadOne(w, a)
  PROVE  MonitorInv'
<1>1. ObserverTyped /\ WorkTyped
  BY TypesInParts DEF MonitorInv
<1>2. /\ thread[w].at = "working"
      /\ thread' \in [Worker -> Threads]
      /\ \A v \in Worker : v # w => thread'[v] = thread[v]
      /\ thread'[w].at = "read"
      /\ thread'[w].batch = thread[w].batch \ {a} /\ thread'[w].file = a /\ thread'[w].copy = version[a]
      /\ taken' \in [Artifact -> 0..MaxChanges] /\ (w = Deployer => taken'[a] = version[a])
      /\ \A b \in Artifact : b # a \/ w # Deployer => taken'[b] = taken[b]
      /\ UNCHANGED <<phase, todo, polling, watched, version, queue, pending, timer, staged,
                   deployed, asked, unplaced, node, partial, overlapped, lost>>
  <2>1. version[a] \in 0..MaxChanges
    BY <1>1 DEF WorkTyped
  <2>2. /\ thread' \in [Worker -> Threads]
        /\ thread'[w].at = "read" /\ thread'[w].batch = thread[w].batch \ {a}
        /\ thread'[w].file = a /\ thread'[w].copy = version[a]
        /\ \A v \in Worker : v # w => thread'[v] = thread[v]
    BY <1>1, <2>1, WorkerKinds DEF ReadOne, WorkTyped, Threads, ThreadSteps
  <2>3. /\ taken' \in [Artifact -> 0..MaxChanges] /\ (w = Deployer => taken'[a] = version[a])
        /\ \A b \in Artifact : b # a \/ w # Deployer => taken'[b] = taken[b]
    BY <1>1, <2>1, WorkerKinds DEF ReadOne, WorkTyped
  <2> QED
    BY <2>2, <2>3 DEF ReadOne, setup, intake, files, mishaps
<1>3. ObserverTyped'
  BY <1>1, <1>2 DEF ObserverTyped
<1>4. WorkTyped'
  BY <1>1, <1>2, WorkerKinds DEF WorkTyped, Threads
<1>5. WorkersInOrder'
  BY <1>1, <1>2, WorkerKinds DEF MonitorInv, WorkersInOrder
<1>6. OneAtATime'
  BY <1>1, <1>2 DEF MonitorInv, OneAtATime, WorksOn, AtWork, InHand, WorkTyped
<1>7. StagedIsRead'
  BY <1>1, <1>2 DEF MonitorInv, StagedIsRead, Holds, InHand, WorkTyped
<1>8. NothingIsNewer'
  BY <1>1, <1>2, WorkerKinds DEF MonitorInv, NothingIsNewer, Holds, InHand, WorkTyped
<1>9. NothingYet'
  BY <1>1, <1>2 DEF MonitorInv, NothingYet, Watched, WorkTyped
<1>10. BuildsAreFollowed'
  <2>1. SUFFICES ASSUME phase = "watching", NEW b \in Settled, Seen(b)
        PROVE  /\ \/ b \in queue \cup pending
                  \/ \E u \in Timer : thread'[u].at \in AtWork /\ b \in thread'[u].batch
                  \/ \E v \in Worker : Holds(v, b)' /\ FileOf(v, b) = FileOf(NoTimer, b)
                  \/ Watched(b) = version[b]
               /\ \A v \in Worker : Holds(v, b)' =>
                    b \in queue \cup pending \/ thread'[v].copy = version[b]
    BY <1>2 DEF BuildsAreFollowed, Settled, Seen, Visible, Watched
  <2>2. \A v \in Worker : v # w => (Holds(v, b)' <=> Holds(v, b))
    BY <1>2 DEF Holds, InHand
  <2>3. \A v \in Worker : v # w =>
          /\ thread[v].at \in AtWork /\ b \in thread[v].batch
             => thread'[v].at \in AtWork /\ b \in thread'[v].batch
          /\ thread'[v].copy = thread[v].copy
    BY <1>2
  <2>4. ~Holds(w, b) /\ (Holds(w, b)' => b = a)
    BY <1>2 DEF Holds, InHand
  <2>5. thread'[w].at \in AtWork /\ (b \in thread[w].batch => b \in thread'[w].batch \/ b = a)
    BY <1>2 DEF AtWork, InHand
  <2>6. Holds(w, a)' /\ thread'[w].copy = version[a]
    BY <1>2 DEF Holds, InHand
  <2>7. w \in Timer => FileOf(w, b) = FileOf(NoTimer, b)
    BY FilesOfWorkers DEF Settled
  <2>8. \A v \in Worker : Holds(v, b)' => b \in queue \cup pending \/ thread'[v].copy = version[b]
    BY <2>1, <2>2, <2>3, <2>4, <2>6 DEF MonitorInv, BuildsAreFollowed
  <2>9. CASE w \in Timer /\ b \in thread[w].batch
    BY <2>1, <2>5, <2>6, <2>7, <2>8, <2>9
  <2>10. CASE w \notin Timer \/ b \notin thread[w].batch
    BY <1>2, <2>1, <2>2, <2>3, <2>4, <2>8, <2>10, WorkerKinds
       DEF MonitorInv, BuildsAreFollowed
  <2> QED
    BY <2>9, <2>10
<1>11. PlacedIsThere'
  <2>1. \A t \in Timer : t # w => thread'[t] = thread[t]
    BY <1>2, WorkerKinds
  <2>2. \A b \in Artifact : IsPlaced(b)' => IsPlaced(b) /\ (w = Deployer => b # a)
    <3>1. w = Deployer => thread[Deployer].file = NoArtifact
      BY <1>1, <1>2, WorkerKinds DEF WorkTyped
    <3>2. CASE w = Deployer
      BY <1>2, <3>1, <3>2, WorkerKinds DEF IsPlaced, Settled, AtWork, InHand
    <3>3. CASE w # Deployer
      BY <1>2, <3>3, WorkerKinds DEF IsPlaced, Settled, AtWork, InHand
    <3> QED
      BY <3>2, <3>3
  <2>3. \A b \in Artifact : IsPlaced(b)' => taken'[b] = taken[b]
    BY <1>2, <2>2
  <2>4. thread'[Deployer].at \in InHand => thread'[Deployer].copy = taken'[thread'[Deployer].file]
    <3>1. CASE w = Deployer
      BY <1>2, <3>1
    <3>2. CASE w # Deployer /\ thread[Deployer].at \in InHand
      <4>1. thread'[Deployer] = thread[Deployer] /\ thread[Deployer].file \in Artifact
        BY <1>1, <1>2, <3>2, WorkerKinds DEF WorkTyped, Threads, InHand
      <4> QED
        BY <1>2, <3>2, <4>1 DEF MonitorInv, PlacedIsThere
    <3> QED
      BY <1>2, <3>1, <3>2, WorkerKinds DEF InHand
  <2>5. ASSUME NEW b \in Artifact, IsPlaced(b)', NEW t \in Timer, Holds(t, b)'
        PROVE  thread'[t].copy >= taken'[b]
    <3>1. CASE t = w
      <4>1. b = a /\ taken[b] <= version[b] /\ taken[b] \in Int /\ version[b] \in Int
        BY <1>1, <1>2, <2>5, <3>1, WorkerKinds
           DEF Holds, MonitorInv, NothingIsNewer, WorkTyped
      <4> QED
        BY <1>2, <2>3, <2>5, <3>1, <4>1
    <3>2. CASE t # w
      BY <2>1, <2>2, <2>3, <2>5, <3>2 DEF Holds, InHand, MonitorInv, PlacedIsThere
    <3> QED
      BY <3>1, <3>2
  <2>6. ASSUME NEW b \in Artifact, IsPlaced(b)'
        PROVE  \/ deployed'[FileOf(Deployer, b)] >= taken'[b]
               \/ b \in Zips /\ \E t \in Timer : thread'[t].at = "cleared" /\ thread'[t].file = b
    BY <1>2, <2>1, <2>2, <2>3, <2>6 DEF MonitorInv, PlacedIsThere
  <2> QED
    BY <2>4, <2>5, <2>6 DEF PlacedIsThere
<1>12. ShippedIsThere'
  BY <1>1, <1>2, WorkerKinds DEF MonitorInv, ShippedIsThere, Settled, WorkTyped
<1> QED
  BY <1>3, <1>4, <1>5, <1>6, <1>7, <1>8, <1>9, <1>10, <1>11, <1>12, TypesInParts
     DEF MonitorInv, MonitorTypeOK, ObserverTyped, WorkTyped, Threads

-----------------------------------------------------------------------------
(* Workers that put down what they have in hand                            *)

\* A worker writes the staging file of what it has read.
LEMMA WriteStagingKeeps ==
  ASSUME MonitorInv, NEW w \in Worker, NEW a \in Artifact, a = thread[w].file,
         WriteStaging(w)
  PROVE  MonitorInv'
<1>1. ObserverTyped /\ WorkTyped
  BY TypesInParts DEF MonitorInv
<1>2. /\ thread[w].at = "read"
      /\ thread'[w].at = IF a \in Zips THEN "staged" ELSE "cleared"
      /\ thread' \in [Worker -> Threads]
      /\ \A v \in Worker : v # w => thread'[v] = thread[v]
      /\ thread'[w].batch = thread[w].batch /\ thread'[w].file = thread[w].file /\ thread'[w].copy = thread[w].copy
      /\ staged' \in [File -> 0..MaxChanges] /\ staged'[FileOf(w, a)] = thread[w].copy
      /\ \A f \in File : f # FileOf(w, a) => staged'[f] = staged[f]
      /\ UNCHANGED <<phase, todo, polling, watched, version, queue, pending, timer, deployed,
                   asked, taken, unplaced, node, partial, overlapped, lost>>
  <2> DEFINE next == IF a \in Zips THEN "staged" ELSE "cleared"
  <2>1. thread' = [thread EXCEPT ![w].at = next]
    BY DEF WriteStaging
  <2>2. next \in ThreadSteps /\ next = IF a \in Zips THEN "staged" ELSE "cleared"
    BY DEF ThreadSteps
  <2> HIDE DEF next
  <2>3. /\ thread' \in [Worker -> Threads]
        /\ thread'[w].at = next /\ thread'[w].batch = thread[w].batch
        /\ thread'[w].file = thread[w].file /\ thread'[w].copy = thread[w].copy
        /\ \A v \in Worker : v # w => thread'[v] = thread[v]
    BY <1>1, <2>1, <2>2 DEF WorkTyped, Threads
  <2>4. thread[w].copy \in 0..MaxChanges /\ FileOf(w, a) \in File
    BY <1>1, FilesOfWorkers DEF WorkTyped, Threads
  <2> QED
    BY <1>1, <2>2, <2>3, <2>4
       DEF WriteStaging, setup, intake, shipped, mishaps, WorkTyped
<1>3. ObserverTyped'
  BY <1>1, <1>2 DEF ObserverTyped
<1>4. WorkTyped'
  BY <1>1, <1>2, WorkerKinds DEF WorkTyped, Threads
<1>5. WorkersInOrder'
  BY <1>1, <1>2, WorkerKinds DEF MonitorInv, WorkersInOrder
<1>6. OneAtATime'
  BY <1>1, <1>2 DEF MonitorInv, OneAtATime, WorksOn, AtWork, InHand, WorkTyped
<1>7. StagedIsRead'
  <2>1. Holds(w, a)
    BY <1>2 DEF Holds, InHand
  <2>2. ASSUME NEW v \in Worker, NEW b \in Artifact \ overlapped, Holds(v, b)'
        PROVE  /\ thread'[v].at # "read" => staged'[FileOf(v, b)] = thread'[v].copy
               /\ thread'[v].at = "cleared" /\ b \in Zips => deployed[FileOf(v, b)] = Absent
    <3>1. Holds(v, b) /\ FileOf(v, b) \in File
      BY <1>2, <2>2, FilesOfWorkers DEF Holds, InHand
    <3>2. CASE v = w
      BY <1>2, <2>2, <3>2 DEF Holds
    <3>3. CASE v # w
      <4>1. b # a
        BY <2>1, <2>2, <3>1, <3>3
           DEF MonitorInv, OneAtATime, WorksOn, Holds, AtWork, InHand
      <4>2. FileOf(v, b) # FileOf(w, a)
        BY <4>1, FilesOfWorkers
      <4> QED
        BY <1>2, <2>2, <3>1, <3>3, <4>2 DEF MonitorInv, StagedIsRead
    <3> QED
      BY <3>2, <3>3
  <2> QED
    BY <1>2, <2>2 DEF StagedIsRead
<1>8. NothingIsNewer'
  BY <1>1, <1>2, WorkerKinds DEF MonitorInv, NothingIsNewer, Holds, InHand, WorkTyped
<1>9. NothingYet'
  BY <1>1, <1>2 DEF MonitorInv, NothingYet, Watched, WorkTyped
<1>10. BuildsAreFollowed'
  <2>1. SUFFICES ASSUME phase = "watching", NEW b \in Settled, Seen(b)
        PROVE  /\ \/ b \in queue \cup pending
                  \/ \E u \in Timer : thread'[u].at \in AtWork /\ b \in thread'[u].batch
                  \/ \E v \in Worker : Holds(v, b)' /\ FileOf(v, b) = FileOf(NoTimer, b)
                  \/ Watched(b) = version[b]
               /\ \A v \in Worker : Holds(v, b)' =>
                    b \in queue \cup pending \/ thread'[v].copy = version[b]
    BY <1>2 DEF BuildsAreFollowed, Settled, Seen, Visible, Watched
  <2>2. \A v \in Worker : Holds(v, b)' <=> Holds(v, b)
    BY <1>2 DEF Holds, InHand
  <2>3. \A v \in Worker : thread[v].at \in AtWork /\ b \in thread[v].batch
                     => thread'[v].at \in AtWork /\ b \in thread'[v].batch
    BY <1>2 DEF AtWork, InHand
  <2>4. \A v \in Worker : thread'[v].copy = thread[v].copy
    BY <1>2
  <2> QED
    BY <1>2, <2>1, <2>2, <2>3, <2>4, WorkerKinds DEF MonitorInv, BuildsAreFollowed
<1>11. PlacedIsThere'
  BY <1>1, <1>2, WorkerKinds
     DEF MonitorInv, PlacedIsThere, IsPlaced, Settled, Holds, InHand, AtWork,
         WorkTyped
<1>12. ShippedIsThere'
  BY <1>1, <1>2, WorkerKinds DEF MonitorInv, ShippedIsThere, Settled, WorkTyped
<1> QED
  BY <1>3, <1>4, <1>5, <1>6, <1>7, <1>8, <1>9, <1>10, <1>11, <1>12, TypesInParts
     DEF MonitorInv, MonitorTypeOK, ObserverTyped, WorkTyped, Threads

\* A worker removes the extension it replaces.
LEMMA RemoveDeployedKeeps ==
  ASSUME MonitorInv, NEW w \in Worker, NEW a \in Artifact, a = thread[w].file,
         RemoveDeployed(w)
  PROVE  MonitorInv'
<1>1. ObserverTyped /\ WorkTyped
  BY TypesInParts DEF MonitorInv
<1>2. /\ thread[w].at = "staged" /\ a \in Zips
      /\ thread' \in [Worker -> Threads]
      /\ \A v \in Worker : v # w => thread'[v] = thread[v]
      /\ thread'[w].at = "cleared"
      /\ thread'[w].batch = thread[w].batch /\ thread'[w].file = thread[w].file /\ thread'[w].copy = thread[w].copy
      /\ deployed' \in [File -> 0..MaxChanges] /\ deployed'[FileOf(w, a)] = Absent
      /\ \A f \in File : f # FileOf(w, a) => deployed'[f] = deployed[f]
      /\ UNCHANGED <<phase, todo, polling, watched, version, queue, pending, timer, staged,
                   asked, taken, unplaced, node, partial, overlapped, lost>>
  <2>1. thread' = [thread EXCEPT ![w].at = "cleared"] /\ thread[w].at = "staged"
    BY DEF RemoveDeployed
  <2>2. "cleared" \in ThreadSteps /\ a \in Zips
    BY <2>1 DEF ThreadSteps, MonitorInv, WorkersInOrder
  <2>3. /\ thread' \in [Worker -> Threads]
        /\ thread'[w].at = "cleared" /\ thread'[w].batch = thread[w].batch
        /\ thread'[w].file = thread[w].file /\ thread'[w].copy = thread[w].copy
        /\ \A v \in Worker : v # w => thread'[v] = thread[v]
    BY <1>1, <2>1, <2>2 DEF WorkTyped, Threads
  <2>4. Absent \in 0..MaxChanges /\ FileOf(w, a) \in File
    BY WorkerKinds, FilesOfWorkers DEF Absent
  <2> QED
    BY <1>1, <2>1, <2>2, <2>3, <2>4
       DEF RemoveDeployed, setup, intake, shipped, mishaps, WorkTyped
<1>3. ObserverTyped'
  BY <1>1, <1>2 DEF ObserverTyped
<1>4. WorkTyped'
  BY <1>1, <1>2, WorkerKinds DEF WorkTyped, Threads
<1>5. WorkersInOrder'
  BY <1>1, <1>2, WorkerKinds DEF MonitorInv, WorkersInOrder
<1>6. OneAtATime'
  BY <1>1, <1>2 DEF MonitorInv, OneAtATime, WorksOn, AtWork, InHand, WorkTyped
<1>7. StagedIsRead'
  <2>1. Holds(w, a)
    BY <1>2 DEF Holds, InHand
  <2>2. ASSUME NEW v \in Worker, NEW b \in Artifact \ overlapped, Holds(v, b)'
        PROVE  /\ thread'[v].at # "read" => staged[FileOf(v, b)] = thread'[v].copy
               /\ thread'[v].at = "cleared" /\ b \in Zips => deployed'[FileOf(v, b)] = Absent
    <3>1. Holds(v, b) /\ FileOf(v, b) \in File
      BY <1>2, <2>2, FilesOfWorkers DEF Holds, InHand
    <3>2. CASE v = w
      <4>1. b = a
        BY <1>2, <2>2, <3>2 DEF Holds
      <4> QED
        BY <1>2, <2>2, <3>1, <3>2, <4>1 DEF MonitorInv, StagedIsRead
    <3>3. CASE v # w
      BY <1>2, <2>2, <3>1, <3>3 DEF MonitorInv, StagedIsRead
    <3> QED
      BY <3>2, <3>3
  <2> QED
    BY <1>2, <2>2 DEF StagedIsRead
<1>8. NothingIsNewer'
  BY <1>1, <1>2, WorkerKinds DEF MonitorInv, NothingIsNewer, Holds, InHand, WorkTyped
<1>9. NothingYet'
  BY <1>1, <1>2, <1>2 DEF MonitorInv, NothingYet, Watched, WorkTyped
<1>10. BuildsAreFollowed'
  <2>1. SUFFICES ASSUME phase = "watching", NEW b \in Settled, Seen(b)
        PROVE  /\ \/ b \in queue \cup pending
                  \/ \E u \in Timer : thread'[u].at \in AtWork /\ b \in thread'[u].batch
                  \/ \E v \in Worker : Holds(v, b)' /\ FileOf(v, b) = FileOf(NoTimer, b)
                  \/ (b # a /\ Watched(b) = version[b])
               /\ \A v \in Worker : Holds(v, b)' =>
                    b \in queue \cup pending \/ thread'[v].copy = version[b]
    <3>1. \A b \in Artifact : b # a => Watched(b)' = Watched(b)
      BY <1>2, FilesOfWorkers, WorkerKinds DEF Watched
    <3> QED
      BY <1>2, <3>1 DEF BuildsAreFollowed, Settled, Seen, Visible
  <2>2. \A v \in Worker : Holds(v, b)' <=> Holds(v, b)
    BY <1>2 DEF Holds, InHand
  <2>3. \A v \in Worker : thread[v].at \in AtWork /\ b \in thread[v].batch
                     => thread'[v].at \in AtWork /\ b \in thread'[v].batch
    BY <1>2 DEF AtWork, InHand
  <2>4. \A v \in Worker : thread'[v].copy = thread[v].copy
    BY <1>2
  <2>5. b = a => Holds(w, b)' /\ FileOf(w, b) = FileOf(NoTimer, b)
    BY <1>2, FilesOfWorkers DEF Holds, InHand
  <2> QED
    BY <1>2, <2>1, <2>2, <2>3, <2>4, <2>5, WorkerKinds
       DEF MonitorInv, BuildsAreFollowed
<1>11. PlacedIsThere'
  <2>1. \A b \in Artifact : IsPlaced(b)' <=> IsPlaced(b)
    BY <1>2, WorkerKinds DEF IsPlaced, Settled, AtWork, InHand
  <2>2. thread'[Deployer].at \in InHand => thread'[Deployer].copy = taken[thread'[Deployer].file]
    BY <1>2, WorkerKinds DEF MonitorInv, PlacedIsThere, InHand
  <2>3. ASSUME NEW b \in Artifact, IsPlaced(b), NEW t \in Timer, Holds(t, b)'
        PROVE  thread'[t].copy >= taken[b]
    <3>1. Holds(t, b) /\ thread'[t].copy = thread[t].copy
      BY <1>2, <2>3, WorkerKinds DEF Holds, InHand
    <3> QED
      BY <2>3, <3>1 DEF MonitorInv, PlacedIsThere
  <2>4. ASSUME NEW b \in Artifact, IsPlaced(b)
        PROVE  \/ deployed'[FileOf(Deployer, b)] >= taken[b]
               \/ b \in Zips /\ \E t \in Timer : thread'[t].at = "cleared" /\ thread'[t].file = b
    <3>1. CASE b = a
      <4>1. w # Deployer
        BY <1>2, <2>4, <3>1, WorkerKinds DEF IsPlaced, AtWork, InHand
      <4> QED
        BY <1>2, <3>1, <4>1, WorkerKinds
    <3>2. CASE b # a
      <4>1. deployed'[FileOf(Deployer, b)] = deployed[FileOf(Deployer, b)]
        BY <1>2, <3>2, FilesOfWorkers, WorkerKinds
      <4>2. \A t \in Timer : thread[t].at = "cleared" => thread'[t] = thread[t]
        BY <1>2, WorkerKinds
      <4> QED
        BY <2>4, <4>1, <4>2 DEF MonitorInv, PlacedIsThere
    <3> QED
      BY <3>1, <3>2
  <2> QED
    BY <1>2, <2>1, <2>2, <2>3, <2>4 DEF PlacedIsThere
<1>12. ShippedIsThere'
  BY <1>1, <1>2, WorkerKinds DEF MonitorInv, ShippedIsThere, Settled, WorkTyped
<1> QED
  BY <1>3, <1>4, <1>5, <1>6, <1>7, <1>8, <1>9, <1>10, <1>11, <1>12, TypesInParts
     DEF MonitorInv, MonitorTypeOK, ObserverTyped, WorkTyped, Threads

\* A worker moves the staging file to its place.
LEMMA PlaceKeeps ==
  ASSUME MonitorInv, NEW w \in Worker, NEW a \in Artifact, a = thread[w].file, Place(w)
  PROVE  MonitorInv'
<1>1. ObserverTyped /\ WorkTyped
  BY TypesInParts DEF MonitorInv
<1>2. /\ thread[w].at = "cleared"
      /\ thread' \in [Worker -> Threads]
      /\ \A v \in Worker : v # w => thread'[v] = thread[v]
      /\ thread'[w].at = "working"
      /\ thread'[w].batch = thread[w].batch /\ thread'[w].file = NoArtifact /\ thread'[w].copy = Absent
      /\ deployed' \in [File -> 0..MaxChanges] /\ staged' \in [File -> 0..MaxChanges]
      /\ deployed'[FileOf(w, a)] = staged[FileOf(w, a)]
      /\ \A f \in File : f # FileOf(w, a) => staged'[f] = staged[f] /\ deployed'[f] = deployed[f]
      /\ UNCHANGED <<phase, todo, polling, watched, version, queue, pending, timer, asked,
                   taken, unplaced, node, partial, overlapped, lost>>
  <2>1. /\ thread' = [thread EXCEPT ![w].at = "working", ![w].file = NoArtifact, ![w].copy = Absent]
        /\ thread[w].at = "cleared"
        /\ deployed' = [deployed EXCEPT ![FileOf(w, a)] = staged[FileOf(w, a)]]
        /\ staged' = [staged EXCEPT ![FileOf(w, a)] = Absent]
    BY DEF Place
  <2>2. "working" \in ThreadSteps /\ Absent \in 0..MaxChanges /\ FileOf(w, a) \in File
    BY WorkerKinds, FilesOfWorkers DEF ThreadSteps, Absent
  <2>3. /\ thread' \in [Worker -> Threads]
        /\ thread'[w].at = "working" /\ thread'[w].batch = thread[w].batch
        /\ thread'[w].file = NoArtifact /\ thread'[w].copy = Absent
        /\ \A v \in Worker : v # w => thread'[v] = thread[v]
    BY <1>1, <2>1, <2>2 DEF WorkTyped, Threads
  <2> QED
    BY <1>1, <2>1, <2>2, <2>3 DEF Place, setup, intake, shipped, mishaps, WorkTyped
<1>3. ObserverTyped'
  BY <1>1, <1>2 DEF ObserverTyped
<1>4. WorkTyped'
  BY <1>1, <1>2, WorkerKinds DEF WorkTyped, Threads
<1>5. WorkersInOrder'
  BY <1>1, <1>2, WorkerKinds DEF MonitorInv, WorkersInOrder
<1>6. OneAtATime'
  BY <1>1, <1>2, WorkerKinds
     DEF MonitorInv, OneAtATime, WorksOn, AtWork, InHand, WorkTyped
<1>7. StagedIsRead'
  <2>1. Holds(w, a)
    BY <1>2 DEF Holds, InHand
  <2>2. ASSUME NEW v \in Worker, NEW b \in Artifact \ overlapped, Holds(v, b)'
        PROVE  /\ thread'[v].at # "read" => staged'[FileOf(v, b)] = thread'[v].copy
               /\ thread'[v].at = "cleared" /\ b \in Zips => deployed'[FileOf(v, b)] = Absent
    <3>1. v # w
      BY <1>2, <2>2 DEF Holds, InHand
    <3>2. Holds(v, b) /\ FileOf(v, b) \in File
      BY <1>2, <2>2, <3>1, FilesOfWorkers DEF Holds, InHand
    <3>3. b # a
      BY <2>1, <2>2, <3>1, <3>2
         DEF MonitorInv, OneAtATime, WorksOn, Holds, AtWork, InHand
    <3>4. FileOf(v, b) # FileOf(w, a)
      BY <3>3, FilesOfWorkers
    <3> QED
      BY <1>2, <2>2, <3>1, <3>2, <3>4 DEF MonitorInv, StagedIsRead
  <2> QED
    BY <1>2, <2>2 DEF StagedIsRead
<1>8. NothingIsNewer'
  BY <1>1, <1>2, WorkerKinds DEF MonitorInv, NothingIsNewer, Holds, InHand, WorkTyped
<1>9. NothingYet'
  BY <1>1, <1>2, <1>2 DEF MonitorInv, NothingYet, Watched, WorkTyped
<1>10. BuildsAreFollowed'
  <2>1. SUFFICES ASSUME phase = "watching", NEW b \in Settled, Seen(b)
        PROVE  /\ \/ b \in queue \cup pending
                  \/ \E u \in Timer : thread'[u].at \in AtWork /\ b \in thread'[u].batch
                  \/ \E v \in Worker : Holds(v, b)' /\ FileOf(v, b) = FileOf(NoTimer, b)
                  \/ Watched(b)' = version[b]
               /\ \A v \in Worker : Holds(v, b)' =>
                    b \in queue \cup pending \/ thread'[v].copy = version[b]
    BY <1>2 DEF BuildsAreFollowed, Settled, Seen, Visible
  <2>2. \A v \in Worker : Holds(v, b)' => v # w /\ Holds(v, b)
    BY <1>2 DEF Holds, InHand
  <2>3. \A v \in Worker : v # w /\ Holds(v, b) => Holds(v, b)'
    BY <1>2 DEF Holds, InHand
  <2>4. \A v \in Worker : thread[v].at \in AtWork /\ b \in thread[v].batch
                     => thread'[v].at \in AtWork /\ b \in thread'[v].batch
    BY <1>2 DEF AtWork, InHand
  <2>5. \A v \in Worker : v # w => thread'[v].copy = thread[v].copy
    BY <1>2
  <2>6. \A v \in Worker : Holds(v, b)' =>
          b \in queue \cup pending \/ thread'[v].copy = version[b]
    BY <2>1, <2>2, <2>5 DEF MonitorInv, BuildsAreFollowed
  <2>7. CASE b = a /\ FileOf(w, b) = FileOf(NoTimer, b)
    <3>1. Holds(w, b) /\ b \in Artifact \ overlapped
      BY <1>2, <2>7 DEF Holds, InHand, Settled
    <3>2. staged[FileOf(w, b)] = thread[w].copy
      BY <1>2, <3>1 DEF MonitorInv, StagedIsRead
    <3>3. b \in queue \cup pending \/ thread[w].copy = version[b]
      BY <2>1, <3>1 DEF MonitorInv, BuildsAreFollowed
    <3> QED
      BY <1>2, <2>6, <2>7, <3>2, <3>3 DEF Watched
  <2>8. CASE b # a \/ FileOf(w, b) # FileOf(NoTimer, b)
    <3>1. FileOf(NoTimer, b) # FileOf(w, a) /\ FileOf(NoTimer, b) \in File
      BY <2>8, FilesOfWorkers DEF Settled
    <3>2. Watched(b)' = Watched(b)
      BY <1>2, <3>1 DEF Watched
    <3>3. Holds(w, b) => FileOf(w, b) # FileOf(NoTimer, b)
      BY <1>2, <2>8 DEF Holds
    <3> QED
      BY <1>2, <2>1, <2>3, <2>4, <2>6, <3>2, <3>3, WorkerKinds
         DEF MonitorInv, BuildsAreFollowed
  <2> QED
    BY <2>7, <2>8
<1>11. PlacedIsThere'
  <2>1. Holds(w, a)
    BY <1>2 DEF Holds, InHand
  <2>2. ASSUME NEW b \in Artifact, b # a
        PROVE  /\ IsPlaced(b)' => IsPlaced(b)
               /\ deployed'[FileOf(Deployer, b)] = deployed[FileOf(Deployer, b)]
    BY <1>2, <2>2, FilesOfWorkers, WorkerKinds DEF IsPlaced, Settled, AtWork, InHand
  <2>3. ASSUME NEW t \in Timer, NEW b \in Artifact, Holds(t, b)'
        PROVE  t # w /\ Holds(t, b) /\ thread'[t] = thread[t]
    BY <1>2, <2>3, WorkerKinds DEF Holds, InHand
  <2>4. ASSUME NEW b \in Artifact, IsPlaced(b)', NEW t \in Timer, Holds(t, b)'
        PROVE  thread'[t].copy >= taken[b]
    <3>1. t # w /\ Holds(t, b) /\ thread'[t] = thread[t] /\ b \notin overlapped
      BY <1>2, <2>3, <2>4 DEF IsPlaced, Settled
    <3>2. b # a
      BY <2>1, <3>1, WorkerKinds
         DEF MonitorInv, OneAtATime, WorksOn, Holds, AtWork, InHand
    <3> QED
      BY <2>2, <2>4, <3>1, <3>2 DEF MonitorInv, PlacedIsThere
  <2>5. ASSUME NEW b \in Artifact, IsPlaced(b)'
        PROVE  \/ deployed'[FileOf(Deployer, b)] >= taken[b]
               \/ b \in Zips /\ \E t \in Timer : thread'[t].at = "cleared" /\ thread'[t].file = b
    <3>1. CASE b # a
      <4>1. \A t \in Timer : thread[t].file = b => thread'[t] = thread[t]
        BY <1>2, <3>1, WorkerKinds
      <4> QED
        BY <2>2, <2>5, <3>1, <4>1 DEF MonitorInv, PlacedIsThere
    <3>2. CASE b = a
      <4>1. a \in Artifact \ overlapped
        BY <1>2, <2>5, <3>2 DEF IsPlaced, Settled
      <4>2. deployed'[FileOf(w, a)] = thread[w].copy
        BY <1>2, <2>1, <4>1 DEF MonitorInv, StagedIsRead
      <4>3. thread[w].copy \in Int /\ taken[a] \in Int
        BY <1>1 DEF WorkTyped, Threads
      <4>4. CASE w = Deployer
        <5>1. thread[w].copy = taken[a]
          BY <1>2, <4>4 DEF MonitorInv, PlacedIsThere, InHand
        <5> QED
          BY <3>2, <4>2, <4>3, <4>4, <5>1
      <4>5. CASE w # Deployer
        <5>1. IsPlaced(a)
          BY <1>2, <2>5, <3>2, <4>5, WorkerKinds DEF IsPlaced, Settled, AtWork, InHand
        <5>2. w \in Timer /\ thread[w].copy >= taken[a]
          BY <2>1, <4>5, <5>1, WorkerKinds DEF MonitorInv, PlacedIsThere
        <5>3. CASE a \in Zips
          <6>1. FileOf(w, a) = FileOf(Deployer, a)
            BY <5>3, FilesOfWorkers, WorkerKinds
          <6> QED
            BY <3>2, <4>2, <5>2, <6>1
        <5>4. CASE a \notin Zips
          <6>1. FileOf(Deployer, a) # FileOf(w, a)
            BY <5>2, <5>4, FilesOfWorkers DEF Artifact
          <6>2. deployed[FileOf(Deployer, a)] >= taken[a]
            BY <5>1, <5>4 DEF MonitorInv, PlacedIsThere
          <6> QED
            BY <1>2, <3>2, <6>1, <6>2, FilesOfWorkers, WorkerKinds
        <5> QED
          BY <5>3, <5>4
      <4> QED
        BY <4>4, <4>5
    <3> QED
      BY <3>1, <3>2
  <2>6. thread'[Deployer].at \in InHand => thread'[Deployer].copy = taken[thread'[Deployer].file]
    BY <1>2, WorkerKinds DEF MonitorInv, PlacedIsThere, InHand
  <2> QED
    BY <1>2, <2>4, <2>5, <2>6 DEF PlacedIsThere
<1>12. ShippedIsThere'
  BY <1>1, <1>2, WorkerKinds DEF MonitorInv, ShippedIsThere, Settled, WorkTyped
<1> QED
  BY <1>3, <1>4, <1>5, <1>6, <1>7, <1>8, <1>9, <1>10, <1>11, <1>12, TypesInParts
     DEF MonitorInv, MonitorTypeOK, ObserverTyped, WorkTyped, Threads

\* A worker fails with what it has in hand; a staging file it leaves or removes is
\* its own.
LEMMA AbandonKeeps ==
  ASSUME MonitorInv, NEW w \in Worker, NEW a \in Artifact, a = thread[w].file,
         FailPlace(w) \/ FailCopy(w)
  PROVE  MonitorInv'
<1>1. ObserverTyped /\ WorkTyped
  BY TypesInParts DEF MonitorInv
<1>2. /\ thread[w].at \in {"cleared", "read"}
      /\ thread' \in [Worker -> Threads]
      /\ \A v \in Worker : v # w => thread'[v] = thread[v]
      /\ thread'[w].at = "failed" /\ thread'[w].batch = {} /\ thread'[w].file = NoArtifact
      /\ staged' \in [File -> 0..MaxChanges]
      /\ \A f \in File : f # FileOf(w, a) => staged'[f] = staged[f]
      /\ lost' = lost \cup thread[w].batch \cup {a}
      /\ UNCHANGED <<phase, todo, polling, watched, version, queue, pending, timer, deployed,
                   asked, taken, unplaced, node, partial, overlapped>>
  <2>1. /\ thread' = [thread EXCEPT ![w] = [Idle EXCEPT !.at = "failed"]]
        /\ lost' = lost \cup thread[w].batch \cup ({thread[w].file} \ {NoArtifact})
        /\ UNCHANGED <<setup, intake, shipped, overlapped, deployed>>
        /\ thread[w].at \in {"cleared", "read"}
        /\ staged' = staged \/ staged' = [staged EXCEPT ![FileOf(w, a)] = Absent]
    BY DEF FailPlace, FailCopy, Abandon, files
  <2>2. Absent \in 0..MaxChanges /\ FileOf(w, a) \in File
    BY WorkerKinds, FilesOfWorkers DEF Absent
  <2>3. [Idle EXCEPT !.at = "failed"] \in Threads
    BY <2>2 DEF Idle, Threads, ThreadSteps
  <2>4. /\ thread' \in [Worker -> Threads]
        /\ \A v \in Worker : v # w => thread'[v] = thread[v]
        /\ thread'[w].at = "failed" /\ thread'[w].batch = {} /\ thread'[w].file = NoArtifact
    BY <1>1, <2>1, <2>3 DEF WorkTyped, Idle
  <2>5. staged' \in [File -> 0..MaxChanges]
        /\ \A f \in File : f # FileOf(w, a) => staged'[f] = staged[f]
    BY <1>1, <2>1, <2>2 DEF WorkTyped
  <2> QED
    BY <2>1, <2>4, <2>5, WorkerKinds DEF setup, intake, shipped
<1>3. ObserverTyped'
  BY <1>1, <1>2 DEF ObserverTyped
<1>4. WorkTyped'
  BY <1>1, <1>2, WorkerKinds DEF WorkTyped, Threads
<1>5. WorkersInOrder'
  BY <1>1, <1>2, WorkerKinds DEF MonitorInv, WorkersInOrder
<1>6. OneAtATime'
  <2>1. \A v \in Worker, b \in Artifact : WorksOn(v, b)' => v # w /\ WorksOn(v, b)
    BY <1>2 DEF WorksOn, AtWork, InHand
  <2> QED
    BY <1>2, <2>1 DEF MonitorInv, OneAtATime
<1>7. StagedIsRead'
  <2>1. Holds(w, a)
    BY <1>2 DEF Holds, InHand
  <2>2. ASSUME NEW v \in Worker, NEW b \in Artifact \ overlapped, Holds(v, b)'
        PROVE  /\ thread'[v].at # "read" => staged'[FileOf(v, b)] = thread'[v].copy
               /\ thread'[v].at = "cleared" /\ b \in Zips => deployed[FileOf(v, b)] = Absent
    <3>1. v # w
      BY <1>2, <2>2 DEF Holds, InHand
    <3>2. Holds(v, b) /\ FileOf(v, b) \in File
      BY <1>2, <2>2, <3>1, FilesOfWorkers DEF Holds, InHand
    <3>3. b # a
      BY <2>1, <2>2, <3>1, <3>2
         DEF MonitorInv, OneAtATime, WorksOn, Holds, AtWork, InHand
    <3>4. FileOf(v, b) # FileOf(w, a)
      BY <3>3, FilesOfWorkers
    <3> QED
      BY <1>2, <2>2, <3>1, <3>2, <3>4 DEF MonitorInv, StagedIsRead
  <2> QED
    BY <1>2, <2>2 DEF StagedIsRead
<1>8. NothingIsNewer'
  BY <1>1, <1>2, WorkerKinds DEF MonitorInv, NothingIsNewer, Holds, InHand, WorkTyped
<1>9. NothingYet'
  BY <1>1, <1>2, <1>2 DEF MonitorInv, NothingYet, Watched, WorkTyped
<1>10. BuildsAreFollowed'
  <2>1. SUFFICES ASSUME phase = "watching", NEW b \in Settled, b \notin thread[w].batch, b # a,
                  Seen(b)
        PROVE  /\ \/ b \in queue \cup pending
                  \/ \E u \in Timer : thread'[u].at \in AtWork /\ b \in thread'[u].batch
                  \/ \E v \in Worker : Holds(v, b)' /\ FileOf(v, b) = FileOf(NoTimer, b)
                  \/ Watched(b) = version[b]
               /\ \A v \in Worker : Holds(v, b)' =>
                    b \in queue \cup pending \/ thread'[v].copy = version[b]
    BY <1>2 DEF BuildsAreFollowed, Settled, Seen, Visible, Watched
  <2>2. \A v \in Worker : Holds(v, b)' <=> Holds(v, b)
    BY <1>2, <2>1 DEF Holds, InHand, Settled
  <2>3. \A v \in Worker : thread[v].at \in AtWork /\ b \in thread[v].batch
                     => thread'[v].at \in AtWork /\ b \in thread'[v].batch
    BY <1>2, <2>1
  <2>4. \A v \in Worker : Holds(v, b) => thread'[v].copy = thread[v].copy
    BY <1>2, <2>1 DEF Holds
  <2> QED
    BY <1>2, <2>1, <2>2, <2>3, <2>4, WorkerKinds DEF MonitorInv, BuildsAreFollowed
<1>11. PlacedIsThere'
  <2>1. \A b \in Artifact : IsPlaced(b)' => IsPlaced(b) /\ b # a /\ w # Deployer
    BY <1>2, WorkerKinds DEF IsPlaced, Settled, AtWork, InHand
  <2>2. \A t \in Timer, b \in Artifact : b # a /\ Holds(t, b)' => Holds(t, b) /\ thread'[t] = thread[t]
    BY <1>2, WorkerKinds DEF Holds, InHand
  <2>3. \A t \in Timer, b \in Artifact : b # a /\ thread[t].file = b => thread'[t] = thread[t]
    BY <1>2, WorkerKinds
  <2>4. thread'[Deployer].at \in InHand => thread'[Deployer].copy = taken[thread'[Deployer].file]
    BY <1>2, WorkerKinds DEF MonitorInv, PlacedIsThere, InHand
  <2>5. ASSUME NEW b \in Artifact, IsPlaced(b)'
        PROVE  /\ \/ deployed[FileOf(Deployer, b)] >= taken[b]
                  \/ b \in Zips /\ \E t \in Timer : thread'[t].at = "cleared" /\ thread'[t].file = b
               /\ \A t \in Timer : Holds(t, b)' => thread'[t].copy >= taken[b]
    BY <2>1, <2>2, <2>3, <2>5 DEF MonitorInv, PlacedIsThere
  <2> QED
    BY <1>2, <2>4, <2>5 DEF PlacedIsThere
<1>12. ShippedIsThere'
  BY <1>1, <1>2, WorkerKinds DEF MonitorInv, ShippedIsThere, Settled, WorkTyped
<1> QED
  BY <1>3, <1>4, <1>5, <1>6, <1>7, <1>8, <1>9, <1>10, <1>11, <1>12, TypesInParts
     DEF MonitorInv, MonitorTypeOK, ObserverTyped, WorkTyped, Threads

-----------------------------------------------------------------------------
(* The node                                                                *)

\* The command sends a file that it has placed.
LEMMA SendKeeps ==
  ASSUME MonitorInv, NEW a \in Artifact, a \in thread[Deployer].batch, SendOne(a)
  PROVE  MonitorInv'
<1>1. ObserverTyped /\ WorkTyped
  BY TypesInParts DEF MonitorInv
<1>2. /\ thread[Deployer].at = "shipping"
      /\ thread' \in [Worker -> Threads]
      /\ \A v \in Worker : v # Deployer => thread'[v] = thread[v]
      /\ thread'[Deployer].at = "sent"
      /\ thread'[Deployer].batch = thread[Deployer].batch \ {a} /\ thread'[Deployer].file = a /\ thread'[Deployer].copy = thread[Deployer].copy
      /\ deployed[FileOf(Deployer, a)] # Absent
      /\ partial' = deployed[FileOf(Deployer, a)] /\ partial' \in 0..MaxChanges
      /\ UNCHANGED <<phase, todo, polling, watched, version, queue, pending, timer, staged,
                   deployed, asked, taken, unplaced, node, overlapped, lost>>
  <2>1. "sent" \in ThreadSteps /\ FileOf(Deployer, a) \in File
    BY WorkerKinds, FilesOfWorkers DEF ThreadSteps
  <2>2. /\ thread' \in [Worker -> Threads]
        /\ thread'[Deployer].at = "sent" /\ thread'[Deployer].file = a
        /\ thread'[Deployer].batch = thread[Deployer].batch \ {a}
        /\ thread'[Deployer].copy = thread[Deployer].copy
        /\ \A v \in Worker : v # Deployer => thread'[v] = thread[v]
    BY <1>1, <2>1, WorkerKinds DEF SendOne, WorkTyped, Threads
  <2> QED
    BY <1>1, <2>1, <2>2 DEF SendOne, setup, intake, files, mishaps, WorkTyped
<1>3. ObserverTyped'
  BY <1>1, <1>2 DEF ObserverTyped
<1>4. WorkTyped'
  BY <1>1, <1>2, WorkerKinds DEF WorkTyped, Threads
<1>5. WorkersInOrder'
  BY <1>1, <1>2, WorkerKinds DEF MonitorInv, WorkersInOrder
<1>6. OneAtATime'
  BY <1>1, <1>2 DEF MonitorInv, OneAtATime, WorksOn, AtWork, InHand, WorkTyped
<1>7. StagedIsRead'
  BY <1>1, <1>2 DEF MonitorInv, StagedIsRead, Holds, InHand, WorkTyped
<1>8. NothingIsNewer'
  BY <1>1, <1>2, WorkerKinds DEF MonitorInv, NothingIsNewer, Holds, InHand, WorkTyped
<1>9. NothingYet'
  BY <1>1, <1>2 DEF MonitorInv, NothingYet, Watched, WorkTyped
<1>10. BuildsAreFollowed'
  <2>1. SUFFICES ASSUME phase = "watching", NEW b \in Settled, Seen(b)
        PROVE  /\ \/ b \in queue \cup pending
                  \/ \E u \in Timer : thread'[u].at \in AtWork /\ b \in thread'[u].batch
                  \/ \E v \in Worker : Holds(v, b)' /\ FileOf(v, b) = FileOf(NoTimer, b)
                  \/ Watched(b) = version[b]
               /\ \A v \in Worker : Holds(v, b)' =>
                    b \in queue \cup pending \/ thread'[v].copy = version[b]
    BY <1>2 DEF BuildsAreFollowed, Settled, Seen, Visible, Watched
  <2>2. \A v \in Worker : Holds(v, b)' <=> Holds(v, b)
    BY <1>2 DEF Holds, InHand
  <2>3. \A v \in Worker : thread[v].at \in AtWork /\ b \in thread[v].batch
                     => thread'[v].at \in AtWork /\ b \in thread'[v].batch
    BY <1>2 DEF AtWork, InHand
  <2>4. \A v \in Worker : thread'[v].copy = thread[v].copy
    BY <1>2
  <2> QED
    BY <1>2, <2>1, <2>2, <2>3, <2>4, WorkerKinds DEF MonitorInv, BuildsAreFollowed
<1>11. PlacedIsThere'
  BY <1>1, <1>2, WorkerKinds
     DEF MonitorInv, PlacedIsThere, IsPlaced, Settled, Holds, InHand, AtWork,
         WorkTyped
<1>12. ShippedIsThere'
  <2>1. ASSUME a \in Settled
        PROVE  partial' = Absent \/ partial' >= taken[a]
    <3>1. IsPlaced(a)
      BY <1>2, <2>1 DEF IsPlaced, MonitorInv, WorkersInOrder
    <3>2. ASSUME NEW t \in Timer, thread[t].at = "cleared", thread[t].file = a, a \in Zips
          PROVE  FALSE
      <4>1. deployed[FileOf(t, a)] = Absent
        BY <2>1, <3>2, WorkerKinds
           DEF MonitorInv, StagedIsRead, Holds, InHand, Settled
      <4>2. FileOf(t, a) = FileOf(Deployer, a)
        BY <3>2, FilesOfWorkers, WorkerKinds
      <4> QED
        BY <1>2, <4>1, <4>2
    <3> QED
      BY <1>2, <3>1, <3>2 DEF MonitorInv, PlacedIsThere
  <2>2. ASSUME NEW b \in asked \cap Settled, b \notin thread[Deployer].batch, b \notin unplaced
        PROVE  node[FileOf(Deployer, b)] >= taken[b]
    <3>1. thread[Deployer].file = NoArtifact /\ b # NoArtifact
      BY <1>1, <1>2, WorkerKinds DEF WorkTyped
    <3> QED
      BY <1>2, <2>2, <3>1 DEF MonitorInv, ShippedIsThere
  <2> QED
    BY <1>2, <2>1, <2>2 DEF ShippedIsThere, Settled
<1> QED
  BY <1>3, <1>4, <1>5, <1>6, <1>7, <1>8, <1>9, <1>10, <1>11, <1>12, TypesInParts
     DEF MonitorInv, MonitorTypeOK, ObserverTyped, WorkTyped, Threads

\* The command moves what it has sent to its place.
LEMMA MoveOnNodeKeeps ==
  ASSUME MonitorInv, NEW a \in Artifact, a = thread[Deployer].file, MoveOnNode
  PROVE  MonitorInv'
<1>1. ObserverTyped /\ WorkTyped
  BY TypesInParts DEF MonitorInv
<1>2. /\ thread[Deployer].at = "sent" /\ partial # Absent /\ partial' = Absent
      /\ thread' \in [Worker -> Threads]
      /\ \A v \in Worker : v # Deployer => thread'[v] = thread[v]
      /\ thread'[Deployer].at = "shipping"
      /\ thread'[Deployer].batch = thread[Deployer].batch /\ thread'[Deployer].file = NoArtifact /\ thread'[Deployer].copy = thread[Deployer].copy
      /\ node' \in [File -> 0..MaxChanges] /\ node'[FileOf(Deployer, a)] = partial
      /\ \A f \in File : f # FileOf(Deployer, a) => node'[f] = node[f]
      /\ UNCHANGED <<phase, todo, polling, watched, version, queue, pending, timer, staged,
                   deployed, asked, taken, unplaced, overlapped, lost>>
  <2>1. "shipping" \in ThreadSteps /\ FileOf(Deployer, a) \in File
    BY WorkerKinds, FilesOfWorkers DEF ThreadSteps
  <2>2. /\ thread' \in [Worker -> Threads]
        /\ thread'[Deployer].at = "shipping" /\ thread'[Deployer].file = NoArtifact
        /\ thread'[Deployer].batch = thread[Deployer].batch
        /\ thread'[Deployer].copy = thread[Deployer].copy
        /\ \A v \in Worker : v # Deployer => thread'[v] = thread[v]
    BY <1>1, <2>1, WorkerKinds DEF MoveOnNode, WorkTyped, Threads
  <2> QED
    BY <1>1, <2>1, <2>2 DEF MoveOnNode, setup, intake, files, mishaps, WorkTyped
<1>3. ObserverTyped'
  BY <1>1, <1>2 DEF ObserverTyped
<1>4. WorkTyped'
  BY <1>1, <1>2, WorkerKinds DEF WorkTyped, Threads, Absent
<1>5. WorkersInOrder'
  BY <1>1, <1>2, WorkerKinds DEF MonitorInv, WorkersInOrder
<1>6. OneAtATime'
  BY <1>1, <1>2 DEF MonitorInv, OneAtATime, WorksOn, AtWork, InHand, WorkTyped
<1>7. StagedIsRead'
  BY <1>1, <1>2 DEF MonitorInv, StagedIsRead, Holds, InHand, WorkTyped
<1>8. NothingIsNewer'
  BY <1>1, <1>2, WorkerKinds DEF MonitorInv, NothingIsNewer, Holds, InHand, WorkTyped
<1>9. NothingYet'
  BY <1>1, <1>2 DEF MonitorInv, NothingYet, Watched, WorkTyped
<1>10. BuildsAreFollowed'
  <2>1. SUFFICES ASSUME phase = "watching", NEW b \in Settled, Seen(b)
        PROVE  /\ \/ b \in queue \cup pending
                  \/ \E u \in Timer : thread'[u].at \in AtWork /\ b \in thread'[u].batch
                  \/ \E v \in Worker : Holds(v, b)' /\ FileOf(v, b) = FileOf(NoTimer, b)
                  \/ Watched(b) = version[b]
               /\ \A v \in Worker : Holds(v, b)' =>
                    b \in queue \cup pending \/ thread'[v].copy = version[b]
    BY <1>2 DEF BuildsAreFollowed, Settled, Seen, Visible, Watched
  <2>2. \A v \in Worker : Holds(v, b)' <=> Holds(v, b)
    BY <1>2 DEF Holds, InHand
  <2>3. \A v \in Worker : thread[v].at \in AtWork /\ b \in thread[v].batch
                     => thread'[v].at \in AtWork /\ b \in thread'[v].batch
    BY <1>2 DEF AtWork, InHand
  <2>4. \A v \in Worker : thread'[v].copy = thread[v].copy
    BY <1>2
  <2> QED
    BY <1>2, <2>1, <2>2, <2>3, <2>4, WorkerKinds DEF MonitorInv, BuildsAreFollowed
<1>11. PlacedIsThere'
  BY <1>1, <1>2, WorkerKinds
     DEF MonitorInv, PlacedIsThere, IsPlaced, Settled, Holds, InHand, AtWork,
         WorkTyped
<1>12. ShippedIsThere'
  <2>1. ASSUME NEW b \in asked \cap Settled, b \notin thread[Deployer].batch, b \notin unplaced
        PROVE  node'[FileOf(Deployer, b)] >= taken[b]
    <3>1. CASE b = a
      BY <1>2, <2>1, <3>1 DEF MonitorInv, ShippedIsThere
    <3>2. CASE b # a
      <4>1. node[FileOf(Deployer, b)] >= taken[b]
        BY <1>2, <2>1, <3>2 DEF MonitorInv, ShippedIsThere
      <4>2. FileOf(Deployer, b) # FileOf(Deployer, a) /\ FileOf(Deployer, b) \in File
        BY <2>1, <3>2, FilesOfWorkers, WorkerKinds DEF Settled
      <4> QED
        BY <1>2, <4>1, <4>2
    <3> QED
      BY <3>1, <3>2
  <2> QED
    BY <1>2, <2>1 DEF ShippedIsThere, Settled
<1> QED
  BY <1>3, <1>4, <1>5, <1>6, <1>7, <1>8, <1>9, <1>10, <1>11, <1>12, TypesInParts
     DEF MonitorInv, MonitorTypeOK, ObserverTyped, WorkTyped, Threads

\* The command cannot send a file.
LEMMA FailSendKeeps ==
  ASSUME MonitorInv, NEW a \in Artifact, a \in thread[Deployer].batch, FailOne(a)
  PROVE  MonitorInv'
<1>1. ObserverTyped /\ WorkTyped
  BY TypesInParts DEF MonitorInv
<1>2. /\ thread[Deployer].at = "shipping"
      /\ thread' \in [Worker -> Threads]
      /\ \A v \in Worker : v # Deployer => thread'[v] = thread[v]
      /\ thread'[Deployer].batch = thread[Deployer].batch \ {a} /\ thread'[Deployer].file = thread[Deployer].file /\ thread'[Deployer].copy = thread[Deployer].copy
      /\ thread'[Deployer].at = thread[Deployer].at
      /\ unplaced' = unplaced \cup {a} /\ a \in asked
      /\ UNCHANGED <<phase, todo, polling, watched, version, queue, pending, timer, staged,
                   deployed, asked, taken, node, partial, overlapped, lost>>
  <2>1. /\ thread' \in [Worker -> Threads]
        /\ thread'[Deployer].at = thread[Deployer].at
        /\ thread'[Deployer].file = thread[Deployer].file
        /\ thread'[Deployer].batch = thread[Deployer].batch \ {a}
        /\ thread'[Deployer].copy = thread[Deployer].copy
        /\ \A v \in Worker : v # Deployer => thread'[v] = thread[v]
    BY <1>1, WorkerKinds DEF FailOne, WorkTyped, Threads
  <2> QED
    BY <2>1 DEF FailOne, setup, intake, files, mishaps, MonitorInv, WorkersInOrder
<1>3. ObserverTyped'
  BY <1>1, <1>2 DEF ObserverTyped
<1>4. WorkTyped'
  BY <1>1, <1>2, WorkerKinds DEF WorkTyped, Threads
<1>5. WorkersInOrder'
  BY <1>1, <1>2, WorkerKinds DEF MonitorInv, WorkersInOrder
<1>6. OneAtATime'
  BY <1>1, <1>2 DEF MonitorInv, OneAtATime, WorksOn, AtWork, InHand, WorkTyped
<1>7. StagedIsRead'
  BY <1>1, <1>2 DEF MonitorInv, StagedIsRead, Holds, InHand, WorkTyped
<1>8. NothingIsNewer'
  BY <1>1, <1>2, WorkerKinds DEF MonitorInv, NothingIsNewer, Holds, InHand, WorkTyped
<1>9. NothingYet'
  BY <1>1, <1>2 DEF MonitorInv, NothingYet, Watched, WorkTyped
<1>10. BuildsAreFollowed'
  <2>1. SUFFICES ASSUME phase = "watching", NEW b \in Settled, Seen(b)
        PROVE  /\ \/ b \in queue \cup pending
                  \/ \E u \in Timer : thread'[u].at \in AtWork /\ b \in thread'[u].batch
                  \/ \E v \in Worker : Holds(v, b)' /\ FileOf(v, b) = FileOf(NoTimer, b)
                  \/ Watched(b) = version[b]
               /\ \A v \in Worker : Holds(v, b)' =>
                    b \in queue \cup pending \/ thread'[v].copy = version[b]
    BY <1>2 DEF BuildsAreFollowed, Settled, Seen, Visible, Watched
  <2>2. \A v \in Worker : Holds(v, b)' <=> Holds(v, b)
    BY <1>2 DEF Holds, InHand
  <2>3. \A v \in Worker : thread[v].at \in AtWork /\ b \in thread[v].batch
                     => thread'[v].at \in AtWork /\ b \in thread'[v].batch
    BY <1>2 DEF AtWork, InHand
  <2>4. \A v \in Worker : thread'[v].copy = thread[v].copy
    BY <1>2
  <2> QED
    BY <1>2, <2>1, <2>2, <2>3, <2>4, WorkerKinds DEF MonitorInv, BuildsAreFollowed
<1>11. PlacedIsThere'
  BY <1>1, <1>2, WorkerKinds
     DEF MonitorInv, PlacedIsThere, IsPlaced, Settled, Holds, InHand, AtWork,
         WorkTyped
<1>12. ShippedIsThere'
  BY <1>1, <1>2, WorkerKinds DEF MonitorInv, ShippedIsThere, Settled, WorkTyped
<1> QED
  BY <1>3, <1>4, <1>5, <1>6, <1>7, <1>8, <1>9, <1>10, <1>11, <1>12, TypesInParts
     DEF MonitorInv, MonitorTypeOK, ObserverTyped, WorkTyped, Threads

\* The command cannot move what it has sent.
LEMMA FailMoveKeeps ==
  ASSUME MonitorInv, NEW a \in Artifact, a = thread[Deployer].file, FailMove
  PROVE  MonitorInv'
<1>1. ObserverTyped /\ WorkTyped
  BY TypesInParts DEF MonitorInv
<1>2. /\ thread[Deployer].at = "sent" /\ partial' = Absent
      /\ thread' \in [Worker -> Threads]
      /\ \A v \in Worker : v # Deployer => thread'[v] = thread[v]
      /\ thread'[Deployer].at = "shipping"
      /\ thread'[Deployer].batch = thread[Deployer].batch /\ thread'[Deployer].file = NoArtifact /\ thread'[Deployer].copy = thread[Deployer].copy
      /\ unplaced' = unplaced \cup {a} /\ a \in asked
      /\ UNCHANGED <<phase, todo, polling, watched, version, queue, pending, timer, staged,
                   deployed, asked, taken, node, overlapped, lost>>
  <2>1. "shipping" \in ThreadSteps
    BY DEF ThreadSteps
  <2>2. /\ thread' \in [Worker -> Threads]
        /\ thread'[Deployer].at = "shipping" /\ thread'[Deployer].file = NoArtifact
        /\ thread'[Deployer].batch = thread[Deployer].batch
        /\ thread'[Deployer].copy = thread[Deployer].copy
        /\ \A v \in Worker : v # Deployer => thread'[v] = thread[v]
    BY <1>1, <2>1, WorkerKinds DEF FailMove, WorkTyped, Threads
  <2> QED
    BY <2>2, WorkerKinds
       DEF FailMove, setup, intake, files, mishaps, MonitorInv, WorkersInOrder
<1>3. ObserverTyped'
  BY <1>1, <1>2 DEF ObserverTyped
<1>4. WorkTyped'
  BY <1>1, <1>2, WorkerKinds DEF WorkTyped, Threads, Absent
<1>5. WorkersInOrder'
  BY <1>1, <1>2, WorkerKinds DEF MonitorInv, WorkersInOrder
<1>6. OneAtATime'
  BY <1>1, <1>2 DEF MonitorInv, OneAtATime, WorksOn, AtWork, InHand, WorkTyped
<1>7. StagedIsRead'
  BY <1>1, <1>2 DEF MonitorInv, StagedIsRead, Holds, InHand, WorkTyped
<1>8. NothingIsNewer'
  BY <1>1, <1>2, WorkerKinds DEF MonitorInv, NothingIsNewer, Holds, InHand, WorkTyped
<1>9. NothingYet'
  BY <1>1, <1>2 DEF MonitorInv, NothingYet, Watched, WorkTyped
<1>10. BuildsAreFollowed'
  <2>1. SUFFICES ASSUME phase = "watching", NEW b \in Settled, Seen(b)
        PROVE  /\ \/ b \in queue \cup pending
                  \/ \E u \in Timer : thread'[u].at \in AtWork /\ b \in thread'[u].batch
                  \/ \E v \in Worker : Holds(v, b)' /\ FileOf(v, b) = FileOf(NoTimer, b)
                  \/ Watched(b) = version[b]
               /\ \A v \in Worker : Holds(v, b)' =>
                    b \in queue \cup pending \/ thread'[v].copy = version[b]
    BY <1>2 DEF BuildsAreFollowed, Settled, Seen, Visible, Watched
  <2>2. \A v \in Worker : Holds(v, b)' <=> Holds(v, b)
    BY <1>2 DEF Holds, InHand
  <2>3. \A v \in Worker : thread[v].at \in AtWork /\ b \in thread[v].batch
                     => thread'[v].at \in AtWork /\ b \in thread'[v].batch
    BY <1>2 DEF AtWork, InHand
  <2>4. \A v \in Worker : thread'[v].copy = thread[v].copy
    BY <1>2
  <2> QED
    BY <1>2, <2>1, <2>2, <2>3, <2>4, WorkerKinds DEF MonitorInv, BuildsAreFollowed
<1>11. PlacedIsThere'
  BY <1>1, <1>2, WorkerKinds
     DEF MonitorInv, PlacedIsThere, IsPlaced, Settled, Holds, InHand, AtWork,
         WorkTyped
<1>12. ShippedIsThere'
  BY <1>1, <1>2, WorkerKinds DEF MonitorInv, ShippedIsThere, Settled, WorkTyped
<1> QED
  BY <1>3, <1>4, <1>5, <1>6, <1>7, <1>8, <1>9, <1>10, <1>11, <1>12, TypesInParts
     DEF MonitorInv, MonitorTypeOK, ObserverTyped, WorkTyped, Threads

\* A timer mirrors the files of an artifact to the node.
LEMMA MirrorKeeps ==
  ASSUME MonitorInv, NEW t \in Timer, NEW a \in Artifact, a \in thread[t].batch,
         MirrorOne(t, a)
  PROVE  MonitorInv'
<1>1. ObserverTyped /\ WorkTyped
  BY TypesInParts DEF MonitorInv
<1>2. /\ thread[t].at = "mirroring"
      /\ thread' \in [Worker -> Threads]
      /\ \A v \in Worker : v # t => thread'[v] = thread[v]
      /\ thread'[t].batch = thread[t].batch \ {a} /\ thread'[t].file = thread[t].file /\ thread'[t].copy = thread[t].copy
      /\ thread'[t].at = thread[t].at
      /\ node' = [f \in File |-> IF f[1] = a THEN deployed[f] ELSE node[f]]
      /\ partial' = IF thread[Deployer].file = a THEN Absent ELSE partial
      /\ overlapped \subseteq overlapped' /\ overlapped' \subseteq overlapped \cup {a}
      /\ a \notin overlapped' => \A w \in Worker \ {t} :
           thread[w].at = "mirroring" \/ a \notin thread[w].batch \cup {thread[w].file}
      /\ UNCHANGED <<phase, todo, polling, watched, version, queue, pending, timer, staged,
                   deployed, asked, taken, unplaced, lost>>
  <2>1. /\ thread' \in [Worker -> Threads]
        /\ thread'[t].at = thread[t].at /\ thread'[t].file = thread[t].file
        /\ thread'[t].batch = thread[t].batch \ {a} /\ thread'[t].copy = thread[t].copy
        /\ \A v \in Worker : v # t => thread'[v] = thread[v]
    BY <1>1, WorkerKinds DEF MirrorOne, WorkTyped, Threads
  <2> QED
    BY <2>1 DEF MirrorOne, setup, intake, files
<1>3. ObserverTyped'
  BY <1>1, <1>2 DEF ObserverTyped
<1>4. WorkTyped'
  BY <1>1, <1>2, WorkerKinds DEF WorkTyped, Threads, Absent
<1>5. WorkersInOrder'
  BY <1>1, <1>2, WorkerKinds DEF MonitorInv, WorkersInOrder
<1>6. OneAtATime'
  BY <1>1, <1>2 DEF MonitorInv, OneAtATime, WorksOn, AtWork, InHand, WorkTyped
<1>7. StagedIsRead'
  BY <1>1, <1>2 DEF MonitorInv, StagedIsRead, Holds, InHand, WorkTyped
<1>8. NothingIsNewer'
  BY <1>1, <1>2, WorkerKinds DEF MonitorInv, NothingIsNewer, Holds, InHand, WorkTyped
<1>9. NothingYet'
  BY <1>1, <1>2 DEF MonitorInv, NothingYet, Watched, WorkTyped
<1>10. BuildsAreFollowed'
  <2>1. SUFFICES ASSUME phase = "watching", NEW b \in Settled, Seen(b)
        PROVE  /\ \/ b \in queue \cup pending
                  \/ \E u \in Timer : thread'[u].at \in AtWork /\ b \in thread'[u].batch
                  \/ \E v \in Worker : Holds(v, b)' /\ FileOf(v, b) = FileOf(NoTimer, b)
                  \/ Watched(b) = version[b]
               /\ \A v \in Worker : Holds(v, b)' =>
                    b \in queue \cup pending \/ thread'[v].copy = version[b]
    BY <1>2 DEF BuildsAreFollowed, Settled, Seen, Visible, Watched
  <2>2. \A v \in Worker : Holds(v, b)' <=> Holds(v, b)
    BY <1>2 DEF Holds, InHand
  <2>3. \A v \in Worker : thread[v].at \in AtWork /\ b \in thread[v].batch
                     => thread'[v].at \in AtWork /\ b \in thread'[v].batch
    BY <1>2 DEF AtWork, InHand
  <2>4. \A v \in Worker : thread'[v].copy = thread[v].copy
    BY <1>2
  <2> QED
    BY <1>2, <2>1, <2>2, <2>3, <2>4, WorkerKinds DEF MonitorInv, BuildsAreFollowed
<1>11. PlacedIsThere'
  BY <1>1, <1>2, WorkerKinds
     DEF MonitorInv, PlacedIsThere, IsPlaced, Settled, Holds, InHand, AtWork,
         WorkTyped
<1>12. ShippedIsThere'
  <2>1. ASSUME NEW b \in asked \cap Settled, IsPlaced(b), b \notin overlapped',
               node[FileOf(Deployer, b)] >= taken[b]
        PROVE  node'[FileOf(Deployer, b)] >= taken[b]
    <3>1. FileOf(Deployer, b) \in File /\ FileOf(Deployer, b)[1] = b
      BY <2>1, FilesOfWorkers, WorkerKinds DEF Settled
    <3>2. CASE b = a
      <4>1. ASSUME NEW u \in Timer, thread[u].at = "cleared", thread[u].file = a PROVE FALSE
        BY <1>2, <2>1, <3>2, <4>1, WorkerKinds
      <4>2. deployed[FileOf(Deployer, b)] >= taken[b]
        BY <2>1, <3>2, <4>1 DEF MonitorInv, PlacedIsThere, Settled
      <4> QED
        BY <1>2, <3>1, <3>2, <4>2
    <3>3. CASE b # a
      BY <1>2, <2>1, <3>1, <3>3
    <3> QED
      BY <3>2, <3>3
  <2>2. thread'[Deployer] = thread[Deployer]
    BY <1>2, WorkerKinds
  <2>3. ASSUME NEW b \in asked \cap Settled,
               \/ /\ thread[Deployer].at \in {"shipping", "sent"}
                  /\ b \notin thread[Deployer].batch \cup {thread[Deployer].file} \cup unplaced
               \/ Remote /\ thread[Deployer].at \in {"deploying", "done"}
        PROVE  IsPlaced(b) /\ node[FileOf(Deployer, b)] >= taken[b]
    BY <2>3 DEF MonitorInv, ShippedIsThere, IsPlaced, Settled
  <2>4. Settled' \subseteq Settled /\ \A b \in Settled' : b \notin overlapped'
    BY <1>2 DEF Settled
  <2>5. ASSUME thread[Deployer].at = "sent", thread[Deployer].file \in Settled'
        PROVE  partial' = Absent \/ partial' >= taken[thread[Deployer].file]
    BY <1>2, <2>4, <2>5 DEF MonitorInv, ShippedIsThere
  <2> QED
    BY <1>2, <2>1, <2>2, <2>3, <2>4, <2>5 DEF ShippedIsThere
<1> QED
  BY <1>3, <1>4, <1>5, <1>6, <1>7, <1>8, <1>9, <1>10, <1>11, <1>12, TypesInParts
     DEF MonitorInv, MonitorTypeOK, ObserverTyped, WorkTyped, Threads

-----------------------------------------------------------------------------
(* Every behaviour                                                         *)

\* Nothing has happened when the monitor starts.
LEMMA MonitorStarts == MonitorInit => MonitorInv
<1> SUFFICES ASSUME MonitorInit PROVE MonitorInv
  OBVIOUS
<1>1. Targets \in Seq(Branch) /\ Len(Targets) \in Nat /\ StartPolling \in BOOLEAN
  BY ArtifactsAssumption, BoundsAssumption DEF ArtifactsAssumption, BoundsAssumption
<1>2. ObserverTyped
  <2>1. SubSeq(Targets, 1, Len(Targets)) = Targets
    BY <1>1
  <2> QED
    BY <1>1, <2>1 DEF MonitorInit, ObserverTyped
<1>3. Absent \in 0..MaxChanges /\ Absent = 0
  BY WorkerKinds DEF Absent
<1>4. thread \in [Worker -> Threads]
      /\ \A w \in Worker : /\ thread[w].at = "unused" /\ thread[w].batch = {}
                          /\ thread[w].file = NoArtifact
  BY <1>3 DEF MonitorInit, Idle, Threads, ThreadSteps
<1>5. WorkTyped
  BY <1>3, <1>4 DEF MonitorInit, WorkTyped
<1>6. WorkersInOrder
  BY <1>4, WorkerKinds DEF MonitorInit, WorkersInOrder
<1>7. OneAtATime /\ StagedIsRead
  BY <1>4 DEF OneAtATime, StagedIsRead, WorksOn, Holds, AtWork, InHand
<1>8. NothingIsNewer
  BY <1>3, <1>4 DEF MonitorInit, NothingIsNewer, Holds, InHand
<1>9. NothingYet
  BY <1>3, <1>4, FilesOfWorkers DEF MonitorInit, NothingYet, Watched
<1>10. BuildsAreFollowed /\ PlacedIsThere /\ ShippedIsThere
  BY <1>4, WorkerKinds
     DEF MonitorInit, BuildsAreFollowed, PlacedIsThere, ShippedIsThere, IsPlaced,
         InHand
<1> QED
  BY <1>2, <1>5, <1>6, <1>7, <1>8, <1>9, <1>10, TypesInParts DEF MonitorInv

\* One action of the module after the other.
LEMMA MonitorSteps == MonitorInv /\ [MonitorNext]_monitorVars => MonitorInv'
<1> SUFFICES ASSUME MonitorInv, [MonitorNext]_monitorVars PROVE MonitorInv'
  OBVIOUS
<1>1. ASSUME NEW w \in Worker
      PROVE  /\ thread[w].batch \subseteq Artifact
             /\ thread[w].at \in {"read", "staged", "cleared", "sent"} => thread[w].file \in Artifact
  BY <1>1, TypesInParts DEF MonitorInv, WorkTyped, Threads
<1>2. CASE UNCHANGED monitorVars
  BY <1>2, UnchangedKeeps
<1>3. CASE Schedule \/ FallBackToPolling \/ DieInSchedule \/ StartObserver \/ StopObserver
  BY <1>3, ObserverKeeps
<1>4. CASE \E a \in Artifact : Build(a) \/ HandleEvent(a)
  BY <1>4, BuildKeeps, EventKeeps
<1>5. CASE \E t \in Timer : Fire(t) \/ TakePending(t)
  BY <1>5, FireKeeps, TakePendingKeeps
<1>6. ASSUME NEW w \in Worker, ReadArtifact(w) PROVE MonitorInv'
  <2>1. PICK a \in thread[w].batch : ReadOne(w, a)
    BY <1>6 DEF ReadArtifact, ReadOne
  <2> QED
    BY <1>1, <2>1, ReadArtifactKeeps
<1>7. ASSUME NEW w \in Worker, WriteStaging(w) PROVE MonitorInv'
  <2>1. thread[w].file \in Artifact
    BY <1>1, <1>7 DEF WriteStaging
  <2> QED
    BY <1>7, <2>1, WriteStagingKeeps
<1>8. ASSUME NEW w \in Worker, RemoveDeployed(w) PROVE MonitorInv'
  <2>1. thread[w].file \in Artifact
    BY <1>1, <1>8 DEF RemoveDeployed
  <2> QED
    BY <1>8, <2>1, RemoveDeployedKeeps
<1>9. ASSUME NEW w \in Worker, Place(w) PROVE MonitorInv'
  <2>1. thread[w].file \in Artifact
    BY <1>1, <1>9 DEF Place
  <2> QED
    BY <1>9, <2>1, PlaceKeeps
<1>10. ASSUME NEW w \in Worker, FailPlace(w) \/ FailCopy(w) PROVE MonitorInv'
  <2>1. thread[w].file \in Artifact
    BY <1>1, <1>10 DEF FailPlace, FailCopy
  <2> QED
    BY <1>10, <2>1, AbandonKeeps
<1>11. ASSUME NEW w \in Worker, FinishBatch(w) \/ Deploy(w) PROVE MonitorInv'
  BY <1>11, FinishBatchKeeps, DeployKeeps
<1>12. CASE StartDeploy \/ Delivered
  BY <1>12, StartDeployKeeps, DeliveredKeeps
<1>13. CASE Send \/ FailSend
  <2>1. PICK a \in thread[Deployer].batch : SendOne(a) \/ FailOne(a)
    BY <1>13 DEF Send, FailSend, SendOne, FailOne
  <2> QED
    BY <1>1, <2>1, WorkerKinds, SendKeeps, FailSendKeeps
<1>14. CASE MoveOnNode \/ FailMove
  <2>1. thread[Deployer].file \in Artifact
    BY <1>1, <1>14, WorkerKinds DEF MoveOnNode, FailMove
  <2> QED
    BY <1>14, <2>1, MoveOnNodeKeeps, FailMoveKeeps
<1>15. ASSUME NEW t \in Timer, Mirror(t) PROVE MonitorInv'
  <2>1. PICK a \in thread[t].batch : MirrorOne(t, a)
    BY <1>15 DEF Mirror, MirrorOne
  <2> QED
    BY <1>1, <2>1, WorkerKinds, MirrorKeeps
<1>16. CASE \E t \in Timer : FailMirror(t) \/ FinishMirror(t)
  BY <1>16, MirrorEnds
<1> QED
  BY <1>2, <1>3, <1>4, <1>5, <1>6, <1>7, <1>8, <1>9, <1>10, <1>11, <1>12, <1>13,
     <1>14, <1>15,
     <1>16 DEF MonitorNext

LEMMA MonitorInvariance == MonitorSpec => []MonitorInv
BY MonitorStarts, MonitorSteps, PTL DEF MonitorSpec

\* The observer's and the workers' state has the types of the code's.
THEOREM MonitorIsTyped == MonitorSpec => []MonitorTypeOK
<1>1. MonitorInv => MonitorTypeOK
  BY DEF MonitorInv
<1> QED
  BY <1>1, MonitorInvariance, PTL

\* What nobody else was at at the same time, and what was not abandoned, ends
\* up in the project as it was built last and on the node no older than the
\* command read it (WorkspaceEventHandler._process_pending, cmd_deploy).
THEOREM SyncedUnlessOverlappedHolds == MonitorSpec => []SyncedUnlessOverlapped
<1>1. MonitorInv => SyncedUnlessOverlapped
  <2> SUFFICES ASSUME MonitorInv PROVE SyncedUnlessOverlapped
    OBVIOUS
  <2>1. ASSUME Quiet, NEW a \in Artifact, Seen(a), a \notin overlapped \cup lost
        PROVE  Watched(a) = version[a]
    <3>1. \A w \in Worker : thread[w].at \notin AtWork /\ ~Holds(w, a)
      BY <2>1 DEF Quiet, AtWork, InHand, Holds
    <3>2. a \in Settled /\ phase = "watching" /\ queue = {} /\ pending = {}
      BY <2>1 DEF Settled, Quiet
    <3> QED
      BY <2>1, <3>1, <3>2, WorkerKinds DEF MonitorInv, BuildsAreFollowed
  <2>2. ASSUME Remote, thread[Deployer].at = "done", NEW a \in asked \ (overlapped \cup lost)
        PROVE  node[FileOf(Deployer, a)] >= taken[a]
    <3>1. a \in asked \cap Settled
      BY <2>2 DEF MonitorInv, MonitorTypeOK, Settled
    <3> QED
      BY <2>2, <3>1 DEF MonitorInv, ShippedIsThere
  <2> QED
    BY <2>1, <2>2 DEF SyncedUnlessOverlapped
<1> QED
  BY <1>1, MonitorInvariance, PTL
=============================================================================
