----------------------------- MODULE NodePower ------------------------------
(***************************************************************************)
(* Power control of the remote nodes (node_power.py): `wake` starts a node *)
(* and records until when it is wanted, `sleep` stops it, and `enforce`,   *)
(* which a workflow runs every hour, stops the nodes whose shutdown window *)
(* has come and that nobody has woken.                                     *)
(*                                                                         *)
(* The deadline is a tag on the instance; every machine also has a state   *)
(* file that caches it, read and written whole and without a lock.  A      *)
(* machine of the workflow starts every command without one.  Nothing      *)
(* keeps commands on different machines apart.                             *)
(*                                                                         *)
(* Time is counted in hours since Monday 00:00 in the schedule's timezone. *)
(***************************************************************************)
EXTENDS Naturals, FiniteSets

CONSTANTS
  Node, NoNode, \* nodes every machine's configuration has
  Instance,     \* those with an ec2_instance_id; the others are stopped by ssh
  Torn,         \* what a state file holds while it is being written
  Schedule,     \* "auto", "overnight", "weekend", "off"
  Proc,         \* machines, each running one command after the other
  Ephemeral,    \* machines of the workflow
  First, Last,  \* bounds of the clock
  Ttl,          \* durations `wake` is given
  MaxFaults     \* bound on failed calls and killed commands

ASSUME NodesAssumption ==
  NoNode \notin Node /\ Instance \subseteq Node /\ Ephemeral \subseteq Proc
ASSUME ScheduleAssumption ==
  Schedule \in [Node -> {"auto", "overnight", "weekend", "off"}]
ASSUME ClockAssumption ==
  /\ First \in Nat \ {0} /\ Last \in Nat /\ First <= Last
  /\ Ttl \subseteq Nat \ {0}
ASSUME BoundsAssumption == MaxFaults \in Nat

VARIABLES
  now,
  running,      \* nodes that are powered on
  tag,          \* ldm:wake-until of each instance, None when there is none
  file,         \* wake_until of each node in each machine's state file
  session,      \* the command each machine runs
  promised,     \* history: the deadline last recorded for each node
  overlapped,   \* history: two commands have run at once
  faults

vars == <<now, running, tag, file, session, promised, overlapped, faults>>

None == 0
Deadline == {None} \cup First..Last
NoState == [n \in Node |-> None]

\* `node` is the node a command is at, `left` those `enforce` has yet to look
\* at, `time` the hour it began, `state` the dict load_state() returned.
NoSession == [at |-> "idle", cmd |-> "none", node |-> NoNode, left |-> {},
              until |-> None, state |-> NoState, time |-> First]

CommandSteps ==
  {"idle", "power", "tag", "load", "save", "write", "check", "clear"}

Command == [at : CommandSteps, cmd : {"none", "wake", "sleep", "enforce"},
            node : Node \cup {NoNode}, left : SUBSET Node,
            until : Deadline, state : [Node -> Deadline], time : First..Last]

TypeOK ==
  /\ now \in First..Last
  /\ running \subseteq Node
  /\ tag \in [Node -> Deadline]
  /\ \A n \in Node \ Instance : tag[n] = None
  /\ file \in [Proc -> [Node -> Deadline] \cup {Torn}]
  /\ session \in [Proc -> Command]
  /\ \A p \in Proc : session[p].at \in {"power", "tag", "load", "clear"} =>
                      session[p].node # NoNode
  /\ promised \in [Node -> Deadline]
  /\ overlapped \in BOOLEAN
  /\ faults \in 0..MaxFaults

Init ==
  /\ now = First
  /\ running \in SUBSET Node
  /\ tag = [n \in Node |-> None]
  /\ file = [p \in Proc |-> NoState]
  /\ session = [p \in Proc |-> NoSession]
  /\ promised = [n \in Node |-> None]
  /\ overlapped = FALSE
  /\ faults = 0

-----------------------------------------------------------------------------
(* is_in_shutdown_window                                                   *)

Weekday(t) == (t \div 24) % 7
Hour(t) == t % 24

Overnight(t) == Hour(t) >= 19 \/ Hour(t) < 7

Weekend(t) ==
  \/ Weekday(t) = 4 /\ Hour(t) >= 19
  \/ Weekday(t) \in {5, 6}
  \/ Weekday(t) = 0 /\ Hour(t) < 7

InShutdownWindow(t, schedule) ==
  \/ schedule \in {"overnight", "auto"} /\ Overnight(t)
  \/ schedule \in {"weekend", "auto"} /\ Weekend(t)

-----------------------------------------------------------------------------
(* What a command's steps have in common                                   *)

Start(p, s) ==
  /\ session[p].at = "idle"
  /\ overlapped' = (overlapped \/ \E q \in Proc : session[q].at # "idle")
  /\ session' = [session EXCEPT ![p] = s]
  /\ file' = IF p \in Ephemeral
                THEN [file EXCEPT ![p] = NoState]
                ELSE file

At(p, cmds, step) == session[p].at = step /\ session[p].cmd \in cmds

Goto(p, step) == session' = [session EXCEPT ![p].at = step]

Exit(p) == session' = [session EXCEPT ![p] = NoSession]

\* A call to AWS or ssh fails.
Fault == faults < MaxFaults /\ faults' = faults + 1

\* load_state(): a missing or an unreadable file is an empty dict.
Loaded(p) == IF file[p] = Torn THEN NoState ELSE file[p]

-----------------------------------------------------------------------------
(* cmd_wake and cmd_sleep                                                  *)

StartWake(p, n, ttl) ==
  /\ now + ttl <= Last
  /\ Start(p, [NoSession EXCEPT !.at = "power", !.cmd = "wake",
                                !.node = n, !.until = now + ttl])
  /\ UNCHANGED <<now, running, tag, promised, faults>>

StartSleep(p, n) ==
  /\ Start(p, [NoSession EXCEPT !.at = "power", !.cmd = "sleep", !.node = n])
  /\ UNCHANGED <<now, running, tag, promised, faults>>

\* power_on_node; without an instance id it fails.
PowerOn(p) ==
  /\ At(p, {"wake"}, "power")
  /\ session[p].node \in Instance
  /\ running' = running \cup {session[p].node}
  /\ Goto(p, "tag")
  /\ UNCHANGED <<now, tag, file, promised, faults, overlapped>>

FailPowerOn(p) ==
  /\ At(p, {"wake"}, "power")
  /\ \/ session[p].node \notin Instance /\ UNCHANGED faults
     \/ Fault
  /\ Exit(p)
  /\ UNCHANGED <<now, running, tag, file, promised, overlapped>>

\* power_off_node.  A node that its user put to sleep is promised to nobody.
PowerOff(p) ==
  /\ At(p, {"sleep"}, "power")
  /\ running' = running \ {session[p].node}
  /\ promised' = [promised EXCEPT ![session[p].node] = None]
  /\ Goto(p, "tag")
  /\ UNCHANGED <<now, tag, file, faults, overlapped>>

FailPowerOff(p) ==
  /\ At(p, {"sleep"}, "power")
  /\ Fault /\ Exit(p)
  /\ UNCHANGED <<now, running, tag, file, promised, overlapped>>

\* write_wake_tag, with the deadline (wake) or without one (sleep).
WriteTag(p) ==
  /\ At(p, {"wake", "sleep"}, "tag")
  /\ session[p].node \in Instance
  /\ tag' = [tag EXCEPT ![session[p].node] = session[p].until]
  /\ promised' = [promised EXCEPT ![session[p].node] = session[p].until]
  /\ Goto(p, "load")
  /\ UNCHANGED <<now, running, file, faults, overlapped>>

\* A failure is a warning (wake) or not looked at (sleep).
FailWriteTag(p) ==
  /\ At(p, {"wake", "sleep"}, "tag")
  /\ \/ session[p].node \notin Instance /\ UNCHANGED faults
     \/ Fault
  /\ Goto(p, "load")
  /\ UNCHANGED <<now, running, tag, file, promised, overlapped>>

LoadState(p) ==
  /\ At(p, {"wake", "sleep"}, "load")
  /\ session' = [session EXCEPT
       ![p].at = "save",
       ![p].state = [Loaded(p) EXCEPT ![session[p].node] = session[p].until]]
  /\ UNCHANGED <<now, running, tag, file, promised, faults, overlapped>>

\* save_state: write_text truncates the file ...
TruncateState(p) ==
  /\ \/ session[p].at = "save"
     \/ At(p, {"enforce"}, "check") /\ session[p].left = {}
  /\ file' = [file EXCEPT ![p] = Torn]
  /\ Goto(p, "write")
  /\ UNCHANGED <<now, running, tag, promised, faults, overlapped>>

\* ... and writes the whole dict.
WriteState(p) ==
  /\ session[p].at = "write"
  /\ file' = [file EXCEPT ![p] = session[p].state]
  /\ Exit(p)
  /\ UNCHANGED <<now, running, tag, promised, faults, overlapped>>

-----------------------------------------------------------------------------
(* cmd_enforce                                                             *)

StartEnforce(p) ==
  /\ Start(p, [NoSession EXCEPT !.at = "check", !.cmd = "enforce",
                 !.left = Node, !.time = now,
                 !.state = IF p \in Ephemeral THEN NoState ELSE Loaded(p)])
  /\ UNCHANGED <<now, running, tag, promised, faults>>

\* Mutant: a deadline is still in force in the hour it ends.
InForceToTheEnd(until, t) == until # None /\ until >= t

InForce(until, t) == until # None /\ until > t

\* The tag is the record, the state file stands in for a missing one.
WakeUntil(p, n) == IF tag[n] # None THEN tag[n] ELSE session[p].state[n]

\* Mutant: the state file alone is consulted (before LDM-#1543).
MustStopByStateFile(p, n) ==
  /\ ~InForce(session[p].state[n], session[p].time)
  /\ InShutdownWindow(session[p].time, Schedule[n])

MustStop(p, n) ==
  /\ ~InForce(WakeUntil(p, n), session[p].time)
  /\ InShutdownWindow(session[p].time, Schedule[n])

\* The node is woken, or it is not the time.
LeaveNode(p) ==
  /\ At(p, {"enforce"}, "check")
  /\ \E n \in session[p].left :
       /\ ~MustStop(p, n)
       /\ session' = [session EXCEPT ![p].left = @ \ {n}]
  /\ UNCHANGED <<now, running, tag, file, promised, faults, overlapped>>

\* "unknown": the tag cannot be read, the node is left alone.
LeaveUnreadable(p) ==
  /\ At(p, {"enforce"}, "check")
  /\ Fault
  /\ \E n \in session[p].left \cap Instance :
       session' = [session EXCEPT ![p].left = @ \ {n}]
  /\ UNCHANGED <<now, running, tag, file, promised, overlapped>>

\* The tag has been read: the node is to go, and is noted down as gone.
Decide(p) ==
  /\ At(p, {"enforce"}, "check")
  /\ \E n \in session[p].left :
       /\ MustStop(p, n)
       /\ session' = [session EXCEPT ![p].at = "power", ![p].node = n,
                        ![p].state[n] = None, ![p].left = @ \ {n}]
  /\ UNCHANGED <<now, running, tag, file, promised, faults, overlapped>>

\* power_off_node; whether it worked is not looked at.
EnforceOff(p) ==
  /\ At(p, {"enforce"}, "power")
  /\ \/ running' = running \ {session[p].node} /\ UNCHANGED faults
     \/ Fault /\ UNCHANGED running
  /\ Goto(p, "clear")
  /\ UNCHANGED <<now, tag, file, promised, overlapped>>

EnforceClear(p) ==
  /\ At(p, {"enforce"}, "clear")
  /\ \/ tag' = [tag EXCEPT ![session[p].node] = None] /\ UNCHANGED faults
     \/ Fault /\ UNCHANGED tag
  /\ session' = [session EXCEPT ![p].at = "check", ![p].node = NoNode]
  /\ UNCHANGED <<now, running, file, promised, overlapped>>

-----------------------------------------------------------------------------

Tick ==
  /\ now < Last
  /\ now' = now + 1
  /\ UNCHANGED <<running, tag, file, session, promised, faults, overlapped>>

\* The workflow is cancelled, the terminal is closed.
Kill(p) ==
  /\ session[p].at # "idle"
  /\ Fault /\ Exit(p)
  /\ UNCHANGED <<now, running, tag, file, promised, overlapped>>

Work(p) ==
  \/ PowerOn(p) \/ FailPowerOn(p) \/ PowerOff(p) \/ FailPowerOff(p)
  \/ WriteTag(p) \/ FailWriteTag(p)
  \/ LoadState(p) \/ TruncateState(p) \/ WriteState(p)
  \/ LeaveNode(p) \/ LeaveUnreadable(p) \/ Decide(p)
  \/ EnforceOff(p) \/ EnforceClear(p)

Next ==
  \/ Tick
  \/ \E p \in Proc :
       \/ \E n \in Node : StartSleep(p, n)
       \/ \E n \in Node, ttl \in Ttl : StartWake(p, n, ttl)
       \/ StartEnforce(p)
       \/ PowerOn(p) \/ FailPowerOn(p) \/ PowerOff(p) \/ FailPowerOff(p)
       \/ WriteTag(p) \/ FailWriteTag(p)
       \/ LoadState(p) \/ TruncateState(p) \/ WriteState(p)
       \/ LeaveNode(p) \/ LeaveUnreadable(p) \/ Decide(p)
       \/ EnforceOff(p) \/ EnforceClear(p)
       \/ Kill(p)

\* Time passes, commands end, and the workflow starts `enforce` every hour:
\* an hour in which nothing else runs on its machine comes again and again.
Fairness ==
  /\ WF_vars(Tick)
  /\ \A p \in Proc : WF_vars(Work(p))
  /\ \A p \in Ephemeral : SF_vars(StartEnforce(p))

Spec == Init /\ [][Next]_vars /\ Fairness

-----------------------------------------------------------------------------
(* Properties                                                              *)

\* Where one command ends before the next begins, a node runs until the
\* deadline its user was promised, unless the user puts it to sleep, whatever
\* fails: "`--ttl <duration>`: Specifies the wake duration before
\* scheduled off-hours power enforcement".
WokenNodeStaysUp ==
  ~overlapped => \A n \in Node : now < promised[n] => n \in running

\* When the clock stops in a shutdown window, with every deadline over, the
\* nodes that have that window are stopped and stay stopped.
NodesGoDown ==
  \A n \in Node :
    InShutdownWindow(Last, Schedule[n]) => <>[](now = Last /\ n \notin running)
=============================================================================
