------------------------------ MODULE StackProofs ------------------------------
(***************************************************************************)
(* Proofs about module Stack, for any projects, actors and services: what  *)
(* an undisturbed writer of the registry changes, and that a deletion      *)
(* leaves no containers without their directory.                           *)
(***************************************************************************)
EXTENDS Stack, TLAPS

\* What each actor is about to write, and what quiet means for it.
Savers == [busy : BOOLEAN, names : SUBSET Projects, quiet : BOOLEAN, aim : SUBSET Projects]

SaversOK ==
  /\ dirs \in SUBSET Projects
  /\ registry \in File
  /\ saver \in [Actors -> Savers]

QuietIsAlone ==
  \A a \in Actors :
    saver[a].busy /\ saver[a].quiet => Others(a) = {} /\ saver[a].names = saver[a].aim

RInv == SaversOK /\ QuietIsAlone

\* What an action may do to the registry.
Write ==
  \/ \E a \in Actors : \E names \in SUBSET Projects :
       LoadTo(a, names, names) /\ UNCHANGED <<dirs, registry>>
  \/ Disturbed /\ dirs' \in SUBSET Projects /\ UNCHANGED registry
  \/ \E a \in Actors : AbandonSave(a) /\ UNCHANGED <<dirs, registry>>
  \/ \E a \in Actors : Save(a) /\ UNCHANGED dirs
  \/ UNCHANGED <<dirs, registry, saver>>

\* Every kind of write keeps the invariant.
LEMMA WritesKeepTheInvariant ==
  ASSUME RInv, Write
  PROVE  RInv'
<1> USE DEF RInv, SaversOK, QuietIsAlone, Savers, Others, File
<1>1. CASE \E a \in Actors : \E names \in SUBSET Projects :
             LoadTo(a, names, names) /\ UNCHANGED <<dirs, registry>>
  <2>1. PICK a \in Actors, names \in SUBSET Projects :
          LoadTo(a, names, names) /\ UNCHANGED <<dirs, registry>>
    BY <1>1
  <2>2. SaversOK'
    BY <2>1 DEF LoadTo
  <2>3. QuietIsAlone'
    BY <2>1 DEF LoadTo
  <2> QED BY <2>2, <2>3
<1>2. CASE Disturbed /\ dirs' \in SUBSET Projects /\ UNCHANGED registry
  <2>1. SaversOK'
    <3>1. ASSUME NEW b \in Actors
          PROVE  [saver[b] EXCEPT !.quiet = ~saver[b].busy] \in Savers
      OBVIOUS
    <3>2. saver' \in [Actors -> Savers]
      BY <1>2, <3>1 DEF Disturbed
    <3>3. dirs' \in SUBSET Projects /\ registry' \in File
      BY <1>2
    <3> QED BY <3>2, <3>3
  <2>2. QuietIsAlone'
    BY <1>2 DEF Disturbed
  <2> QED BY <2>1, <2>2
<1>3. CASE \E a \in Actors : AbandonSave(a) /\ UNCHANGED <<dirs, registry>>
  <2>1. PICK a \in Actors : AbandonSave(a) /\ UNCHANGED <<dirs, registry>>
    BY <1>3
  <2>2. SaversOK'
    BY <2>1 DEF AbandonSave, NoSave
  <2>3. QuietIsAlone'
    BY <2>1 DEF AbandonSave, NoSave
  <2> QED BY <2>2, <2>3
<1>4. CASE \E a \in Actors : Save(a) /\ UNCHANGED dirs
  <2>1. PICK a \in Actors : Save(a) /\ UNCHANGED dirs
    BY <1>4
  <2>2. SaversOK'
    <3>1. saver[a].names \in SUBSET Projects
      OBVIOUS
    <3>2. registry' \in File
      <4>1. \/ registry' = [torn |-> FALSE, names |-> saver[a].names]
            \/ registry' = [torn |-> TRUE, names |-> {}]
        BY <2>1 DEF Save
      <4>2. \A t \in BOOLEAN, n \in SUBSET Projects : [torn |-> t, names |-> n] \in File
        OBVIOUS
      <4>3. {} \in SUBSET Projects
        OBVIOUS
      <4> HIDE DEF File
      <4> QED BY <3>1, <4>1, <4>2, <4>3
    <3>3. saver' \in [Actors -> Savers]
      BY <2>1 DEF Save, NoSave
    <3> QED BY <2>1, <3>2, <3>3
  <2>3. QuietIsAlone'
    BY <2>1 DEF Save, NoSave
  <2> QED BY <2>2, <2>3
<1>5. CASE UNCHANGED <<dirs, registry, saver>>
  BY <1>5
<1> QED BY <1>1, <1>2, <1>3, <1>4, <1>5 DEF Write

\* Every action of the commands is one of these writes.
LEMMA StepsAreWrites ==
  ASSUME RInv, Next
  PROVE  Write
<1> USE DEF RInv, SaversOK, File
<1> USE DEF own, shared
<1>1. CASE World
  BY <1>1 DEF World, Recreate, Stop, WriteIndex, InfraDown, SwitchDatabase, ReadySearch, Write
<1>2. ASSUME NEW a \in Actors, BeginCommand(a)
      PROVE  Write
  <2>1. ASSUME NEW p \in Projects, NEW force \in BOOLEAN, BeginRun(a, p, force)
        PROVE  Write
    BY <2>1 DEF BeginRun, Write
  <2> QED
    BY <1>2, <2>1 DEF BeginCommand, BeginStart, BeginDown, BeginSetup, BeginList,
           BeginPrune, Write
<1>3. ASSUME NEW a \in Actors, Quit(a)
      PROVE  Write
  BY <1>3 DEF Quit, Write
<1>4. ASSUME NEW a \in Actors, Work(a)
      PROVE  Write
  <2>1. ASSUME NEW p \in Projects, Register(a, p)
        PROVE  Write
    <3>1. Read \cup {p} \in SUBSET Projects
      BY DEF Read
    <3> QED BY <2>1, <3>1 DEF Register, LoadToAdd, Write
  <2>2. ASSUME NEW p \in Projects, Unregister(a, p)
        PROVE  Write
    <3>1. Read \ {p} \in SUBSET Projects
      BY DEF Read
    <3> QED BY <2>2, <3>1 DEF Unregister, LoadToRemove, Write
  <2>3. CASE ListProjects(a)
    <3>1. Roots \in SUBSET Projects
      BY DEF Roots
    <3> QED BY <2>3, <3>1 DEF ListProjects, LoadToList, Write
  <2>4. CASE SaveRegistry(a)
    BY <2>4 DEF SaveRegistry, Write
  <2>5. ASSUME NEW p \in Projects, RemoveDirectory(a, p)
        PROVE  Write
    BY <2>5 DEF RemoveDirectory, Write
  <2>6. ASSUME NEW p \in Projects,
               \/ CreateDatabase(a, p) \/ Boot(a, p) \/ Start(a, p)
               \/ ComposeDown(a, p) \/ MissComposeFile(a, p) \/ Sweep(a, p)
               \/ SweepVolumes(a, p) \/ DropDatabase(a, p)
               \/ CheckRoom(a, p) \/ RemoveOrphan(a, p) \/ RemoveVolume(a, p)
        PROVE  UNCHANGED <<dirs, registry, saver>>
    BY <2>6 DEF CreateDatabase, Boot, Start, ComposeDown, MissComposeFile, Sweep,
                SweepVolumes, DropDatabase, CheckRoom, RemoveOrphan, RemoveVolume
  <2>7. CASE \/ UseSearch(a) \/ StartSearch(a) \/ CreateSearch(a) \/ SearchIsReady(a)
             \/ AssertUsable(a) \/ SearchIsNotReady(a) \/ Scan(a) \/ Diagnose(a)
             \/ RemoveSearch(a) \/ WipeSearch(a) \/ SetUpDatabase(a) \/ WaitForDatabase(a)
             \/ UpProxy(a) \/ Unlock(a) \/ LookBeforeCut(a) \/ CutProxy(a)
    BY <2>7 DEF UseSearch, StartSearch, CreateSearch, SearchIsReady, AssertUsable,
                SearchIsNotReady, Scan, Diagnose, RemoveSearch, WipeSearch, SetUpDatabase,
                WaitForDatabase, UpProxy, Unlock, LookBeforeCut, CutProxy, Write
  <2>8. CASE \/ FindOrphans(a) \/ LookForVolumes(a) \/ FindVolumes(a)
             \/ LookForLegacy(a) \/ FindLegacy(a)
    BY <2>8 DEF FindOrphans, LookForVolumes, FindVolumes, LookForLegacy, FindLegacy, Write
  <2> QED BY <1>4, <2>1, <2>2, <2>3, <2>4, <2>5, <2>6, <2>7, <2>8 DEF Work, Write
<1> QED BY <1>1, <1>2, <1>3, <1>4 DEF Next

\* The registry's invariant holds.
LEMMA RegistryInvariant == Spec => []RInv
<1>1. Init => RInv
  <2> SUFFICES ASSUME Init PROVE RInv
    OBVIOUS
  <2>1. PICK S \in SUBSET Projects :
          dirs = S /\ registry = [torn |-> FALSE, names |-> S]
    BY DEF Init
  <2>2. saver = [a \in Actors |-> NoSave]
    BY DEF Init
  <2>3. SaversOK
    BY <2>1, <2>2 DEF SaversOK, Savers, NoSave, File
  <2>4. QuietIsAlone
    BY <2>2 DEF QuietIsAlone, NoSave
  <2> QED BY <2>3, <2>4 DEF RInv
<1>2. RInv /\ [Next]_vars => RInv'
  <2> SUFFICES ASSUME RInv, [Next]_vars PROVE RInv'
    OBVIOUS
  <2>1. CASE Next
    BY <2>1, StepsAreWrites, WritesKeepTheInvariant
  <2>2. CASE UNCHANGED vars
    BY <2>2, WritesKeepTheInvariant DEF vars, Write
  <2> QED BY <2>1, <2>2
<1> QED BY <1>1, <1>2, PTL DEF Spec

(* QuietUpdateIsExact: however many commands there are, one that wrote the *)
(* registry without another in between left what it read with its own     *)
(* change, and the file is whole (register_project, unregister_project,    *)
(* find_dxp_roots).                                                        *)
THEOREM QuietUpdatesAreExact == Spec => QuietUpdateIsExact
<1>1. ASSUME RInv, [Next]_vars
      PROVE  [\A a \in Actors :
               saver[a].busy /\ ~saver'[a].busy /\ registry' # registry /\ saver[a].quiet
                 => ~registry'.torn /\ registry'.names = saver[a].aim]_vars
  <2> SUFFICES ASSUME NEW a \in Actors, saver[a].busy, ~saver'[a].busy,
                      registry' # registry, saver[a].quiet
               PROVE  ~registry'.torn /\ registry'.names = saver[a].aim
    OBVIOUS
  <2>1. Write
    BY <1>1, StepsAreWrites DEF vars, Write
  <2>2. PICK b \in Actors : Save(b) /\ UNCHANGED dirs
    BY <1>1, <2>1 DEF Write
  <2>3. a = b
    BY <1>1, <2>2 DEF RInv, SaversOK, Save, NoSave
  <2>4. Others(a) = {} /\ saver[a].names = saver[a].aim
    BY <1>1 DEF RInv, QuietIsAlone
  <2> QED BY <2>2, <2>3, <2>4 DEF Save
<1> QED BY <1>1, RegistryInvariant, PTL DEF QuietUpdateIsExact, Spec

-----------------------------------------------------------------------------
(* Deletions and locks                                                     *)

\* A command, whose depth does not matter here.
AnyCommand ==
  [op : Ops \cup {"none"}, on : SUBSET Projects, free : BOOLEAN, step : Steps,
   then : Steps, depth : Nat, found : SUBSET Projects, fresh : SUBSET Projects]

Shape ==
  /\ stack \in [Projects -> {"none", "stopped", "running"}]
  /\ holder \in [Projects -> Actors \cup {Nobody}]
  /\ cmd \in [Actors -> AnyCommand]

\* The steps of a deletion once the containers are gone, or given up.
Deleting == {"sweep", "sweep volumes", "drop", "unlock", "load", "save", "rmtree"}

Locked(step, h, a) ==
  step \in {"down", "sweep", "sweep only", "sweep volumes", "drop", "unlock"} => h = a

\* A run has its project's lock to the end, a deletion until it gives it up.
LocksAreHeld ==
  \A a \in Actors, p \in Projects :
    On(a, p) =>
      /\ cmd[a].op = "run" => holder[p] = a
      /\ cmd[a].op = "delete" /\ ~cmd[a].free => Locked(cmd[a].step, holder[p], a)

\* A deletion never looks for projects.
DeletionsGoOn ==
  \A a \in Actors :
    cmd[a].op = "delete" =>
      /\ cmd[a].step \in Deleting \cup {"down", "sweep only"}
      /\ cmd[a].step = "save" => cmd[a].then = "rmtree"

\* What is being deleted is gone, came back past the lock, or was left by a
\* sweep with no compose file.
DeletedIsGone ==
  \A a \in Actors, p \in Projects :
    On(a, p) /\ cmd[a].op = "delete" /\ cmd[a].step \in Deleting
      => stack[p] = "none" \/ p \in late \/ p \in stranded

\* What there is belongs to projects.
Known == vols \in SUBSET Projects /\ dirs \in SUBSET Projects

DInv == Shape /\ LocksAreHeld /\ DeletionsGoOn /\ DeletedIsGone /\ NoOrphanStack

\* To do nothing is a command, which works on no project.
LEMMA NoCommandIsOne ==
  /\ NoCommand \in AnyCommand
  /\ NoCommand.op = "none" /\ \A p \in Projects : NoCommand.on # {p}
BY BoundsAssumption DEF BoundsAssumption, NoCommand, AnyCommand, Ops, Steps

\* Going on to another step leaves commands.
LEMMA GotoIsACommand ==
  ASSUME Shape, NEW a \in Actors, NEW step \in Steps, Goto(a, step)
  PROVE  cmd' \in [Actors -> AnyCommand]
<1> DEFINE c == [cmd[a] EXCEPT !.step = step]
<1>1. c \in AnyCommand
  BY DEF Shape, AnyCommand
<1>2. cmd' = [cmd EXCEPT ![a] = c]
  BY DEF Goto
<1> HIDE DEF c
<1> QED BY <1>1, <1>2 DEF Shape

\* So does beginning one.
LEMMA BeginIsACommand ==
  ASSUME Shape, NEW a \in Actors, NEW op \in Ops, NEW S \in SUBSET Projects,
         NEW free \in BOOLEAN, NEW step \in Steps, Begin(a, op, S, free, step)
  PROVE  cmd' \in [Actors -> AnyCommand]
<1> DEFINE c == [NoCommand EXCEPT !.op = op, !.on = S, !.free = free, !.step = step]
<1>1. c \in AnyCommand
  BY BoundsAssumption DEF BoundsAssumption, NoCommand, AnyCommand, Steps
<1>2. cmd' = [cmd EXCEPT ![a] = c]
  BY DEF Begin
<1> HIDE DEF c
<1> QED BY <1>1, <1>2 DEF Shape

\* To take note of a project changes nothing that a command goes by.
LEMMA NoticedIsTheSame ==
  ASSUME Shape, NEW p \in Projects
  PROVE  /\ Noticed(p, cmd) \in [Actors -> AnyCommand]
         /\ \A b \in Actors :
              /\ Noticed(p, cmd)[b].op = cmd[b].op /\ Noticed(p, cmd)[b].on = cmd[b].on
              /\ Noticed(p, cmd)[b].free = cmd[b].free
              /\ Noticed(p, cmd)[b].step = cmd[b].step
              /\ Noticed(p, cmd)[b].then = cmd[b].then
<1> DEFINE new(b) == [cmd[b] EXCEPT !.fresh = IF cmd[b].step \in {"diagnose", "remove", "wipe"}
                                             THEN cmd[b].fresh \cup {p} ELSE cmd[b].fresh]
<1>1. ASSUME NEW b \in Actors
      PROVE  /\ new(b) \in AnyCommand
             /\ new(b).op = cmd[b].op /\ new(b).on = cmd[b].on /\ new(b).free = cmd[b].free
             /\ new(b).step = cmd[b].step /\ new(b).then = cmd[b].then
  BY DEF Shape, AnyCommand
<1>2. Noticed(p, cmd) = [b \in Actors |-> new(b)]
  BY DEF Noticed
<1> HIDE DEF new
<1> QED BY <1>1, <1>2

\* The steps of commands that delete no project, between their first and their last.
Walk ==
  \E a \in Actors, c \in AnyCommand :
    /\ cmd[a].op # "delete" /\ c.op = cmd[a].op
    /\ c.on = cmd[a].on \/ cmd[a].op = "prune"
    /\ cmd' = [cmd EXCEPT ![a] = c]
    /\ stack' \in [Projects -> {"none", "stopped", "running"}]
    /\ \A p \in Projects : stack'[p] \in {"none", stack[p]}
    /\ UNCHANGED <<holder, late, stranded, dirs>>

\* A command ends.
Exit ==
  \E a \in Actors : Leave(a) /\ UNCHANGED <<stack, late, stranded, dirs>>

\* A step that only goes on disturbs no deletion.
LEMMA WalkKeeps ==
  ASSUME DInv, Walk
  PROVE  DInv'
<1>1. PICK a \in Actors, c \in AnyCommand :
        /\ cmd[a].op # "delete" /\ c.op = cmd[a].op
        /\ c.on = cmd[a].on \/ cmd[a].op = "prune"
        /\ cmd' = [cmd EXCEPT ![a] = c]
        /\ stack' \in [Projects -> {"none", "stopped", "running"}]
        /\ \A p \in Projects : stack'[p] \in {"none", stack[p]}
        /\ UNCHANGED <<holder, late, stranded, dirs>>
  BY DEF Walk
<1> USE DEF DInv, Shape
<1>2. Shape'
  BY <1>1
<1>3. LocksAreHeld'
  BY <1>1 DEF LocksAreHeld, On, Locked
<1>4. DeletionsGoOn'
  BY <1>1 DEF DeletionsGoOn
<1>5. DeletedIsGone'
  BY <1>1 DEF DeletedIsGone, On
<1>6. NoOrphanStack'
  BY <1>1 DEF NoOrphanStack
<1> QED BY <1>2, <1>3, <1>4, <1>5, <1>6

\* Nor does a command that ends and releases its locks.
LEMMA ExitKeeps ==
  ASSUME DInv, Exit
  PROVE  DInv'
<1>1. PICK a \in Actors :
        /\ cmd' = [cmd EXCEPT ![a] = NoCommand]
        /\ holder' = [p \in Projects |-> IF holder[p] = a THEN Nobody ELSE holder[p]]
        /\ UNCHANGED <<stack, late, stranded, dirs>>
  BY DEF Exit, Leave, Release
<1> USE NoCommandIsOne DEF DInv, Shape
<1>2. Shape'
  BY <1>1
<1>3. LocksAreHeld'
  BY <1>1 DEF LocksAreHeld, On, Locked
<1>4. DeletionsGoOn'
  BY <1>1 DEF DeletionsGoOn
<1>5. DeletedIsGone'
  BY <1>1 DEF DeletedIsGone, On
<1>6. NoOrphanStack'
  BY <1>1 DEF NoOrphanStack
<1> QED BY <1>2, <1>3, <1>4, <1>5, <1>6

\* To bring a project up: whoever is past deleting it is exposed, or has its lock.
LEMMA BringUpKeeps ==
  ASSUME DInv, NEW p \in Projects, NEW locked \in BOOLEAN, BringUp(p, locked), p \in dirs,
         UNCHANGED dirs, cmd' \in [Actors -> AnyCommand], Shape',
         \A b \in Actors :
           \/ cmd'[b] = NoCommand
           \/ /\ cmd'[b].op = cmd[b].op /\ cmd'[b].on = cmd[b].on
              /\ cmd'[b].free = cmd[b].free /\ cmd'[b].step = cmd[b].step
              /\ cmd'[b].then = cmd[b].then,
         \A q \in Projects, b \in Actors :
           holder[q] = b => holder'[q] = b \/ cmd'[b] = NoCommand,
         \/ holder[p] = Nobody
         \/ ~locked
         \/ \E a \in Actors : cmd[a].op = "run" /\ holder[p] = a
  PROVE  DInv'
<1> USE NoCommandIsOne
<1>1. /\ stack' = [stack EXCEPT ![p] = "running"]
      /\ late \subseteq late' \cup {p} /\ stranded \subseteq stranded' \cup {p}
  BY DEF BringUp
<1>2. LocksAreHeld'
  <2> SUFFICES ASSUME NEW b \in Actors, NEW q \in Projects, cmd'[b].on = {q}
               PROVE  /\ cmd'[b].op = "run" => holder'[q] = b
                      /\ cmd'[b].op = "delete" /\ ~cmd'[b].free
                             => Locked(cmd'[b].step, holder'[q], b)
    BY DEF LocksAreHeld, On, Locked
  <2>1. CASE cmd'[b] = NoCommand
    BY <2>1
  <2>2. CASE cmd'[b] # NoCommand
    <3>1. /\ cmd[b].op = "run" => holder[q] = b
          /\ cmd[b].op = "delete" /\ ~cmd[b].free => Locked(cmd[b].step, holder[q], b)
          /\ holder[q] = b => holder'[q] = b
      BY <2>2 DEF DInv, LocksAreHeld, On
    <3> QED BY <2>2, <3>1 DEF Locked
  <2> QED BY <2>1, <2>2
<1>3. DeletionsGoOn'
  BY DEF DInv, DeletionsGoOn
<1>4. ASSUME NEW b \in Actors, On(b, p), cmd[b].op = "delete", cmd[b].step \in Deleting,
             p \notin late'
      PROVE  FALSE
  <2>1. ~Exposed(p) /\ (locked \/ holder[p] = Nobody)
    BY <1>4 DEF BringUp
  <2>2. ~cmd[b].free /\ cmd[b].step \in {"sweep", "sweep volumes", "drop", "unlock"}
    BY <1>4, <2>1 DEF Exposed, Deleting
  <2>3. holder[p] = b
    BY <1>4, <2>2 DEF DInv, LocksAreHeld, Locked
  <2> QED BY <1>4, <2>1, <2>3, NobodyAssumption DEF NobodyAssumption
<1>5. DeletedIsGone'
  BY <1>1, <1>4 DEF DInv, Shape, DeletedIsGone, On
<1>6. NoOrphanStack'
  BY <1>1 DEF DInv, Shape, NoOrphanStack
<1> QED BY <1>2, <1>3, <1>5, <1>6 DEF DInv

\* A command begins: its actor had none, so no lock either that it must keep.
LEMMA BeginKeeps ==
  ASSUME DInv, NEW a \in Actors, BeginCommand(a)
  PROVE  DInv'
<1> USE NoCommandIsOne, NobodyAssumption DEF NobodyAssumption, DInv, Shape
<1> USE DEF own
<1>1. ASSUME NEW p \in Projects, NEW force \in BOOLEAN, BeginRun(a, p, force)
      PROVE  DInv'
  <2>1. Shape'
    <3>1. Begin(a, "run", {p}, force, "load") /\ holder' = [holder EXCEPT ![p] = a]
          /\ UNCHANGED stack
      BY <1>1 DEF BeginRun
    <3>2. "run" \in Ops /\ "load" \in Steps /\ {p} \in SUBSET Projects
      BY DEF Ops, Steps
    <3>3. cmd' \in [Actors -> AnyCommand]
      BY <3>1, <3>2, BeginIsACommand
    <3> QED BY <3>1, <3>3
  <2>2. LocksAreHeld'
    <3>1. /\ cmd'[a].op = "run" /\ cmd'[a].on = {p}
          /\ \A b \in Actors \ {a} : cmd'[b] = cmd[b]
      BY <1>1 DEF BeginRun, Begin, NoCommand
    <3>2. /\ \A q \in Projects \ {p} : holder'[q] = holder[q]
          /\ holder[p] = Nobody /\ holder'[p] = a
      BY <1>1 DEF BeginRun, Free
    <3> SUFFICES ASSUME NEW b \in Actors, NEW q \in Projects, cmd'[b].on = {q}
                 PROVE  /\ cmd'[b].op = "run" => holder'[q] = b
                        /\ cmd'[b].op = "delete" /\ ~cmd'[b].free
                             => Locked(cmd'[b].step, holder'[q], b)
      BY DEF LocksAreHeld, On, Locked
    <3>7. cmd'[a].on = {q} => q = p
      BY <3>1
    <3>8. CASE b = a
      BY <3>1, <3>2, <3>7, <3>8 DEF Locked
    <3>9. CASE b # a
      <4>1. /\ cmd[b].op = "run" => holder[q] = b
            /\ cmd[b].op = "delete" /\ ~cmd[b].free => Locked(cmd[b].step, holder[q], b)
        BY <3>1, <3>9 DEF LocksAreHeld, On
      <4>2. holder[q] = b => holder'[q] = b
        BY <3>2
      <4> QED BY <3>1, <3>9, <4>1, <4>2 DEF Locked
    <3> QED BY <3>8, <3>9
  <2>3. DeletionsGoOn'
    BY <1>1 DEF BeginRun, Free, Begin, Count, NoCommand, DeletionsGoOn, Deleting
  <2>4. DeletedIsGone'
    BY <1>1 DEF BeginRun, Free, Begin, Count, NoCommand, DeletedIsGone, On, Deleting
  <2>5. NoOrphanStack'
    BY <1>1 DEF BeginRun, Free, Begin, Count, NoCommand, NoOrphanStack
  <2> QED BY <2>1, <2>2, <2>3, <2>4, <2>5
<1>2. ASSUME NEW p \in Projects, BeginStart(a, p)
      PROVE  DInv'
  <2>1. Shape'
    <3>1. Begin(a, "start", {p}, FALSE, "load") /\ UNCHANGED <<stack, holder>>
      BY <1>2 DEF BeginStart
    <3>2. "start" \in Ops /\ "load" \in Steps /\ {p} \in SUBSET Projects
      BY DEF Ops, Steps
    <3>3. cmd' \in [Actors -> AnyCommand]
      BY <3>1, <3>2, BeginIsACommand
    <3> QED BY <3>1, <3>3
  <2>2. LocksAreHeld'
    <3>1. /\ UNCHANGED holder /\ cmd'[a].op = "start"
          /\ \A b \in Actors \ {a} : cmd'[b] = cmd[b]
      BY <1>2 DEF BeginStart, Begin, NoCommand
    <3> SUFFICES ASSUME NEW b \in Actors, NEW q \in Projects, cmd'[b].on = {q}
                 PROVE  /\ cmd'[b].op = "run" => holder'[q] = b
                        /\ cmd'[b].op = "delete" /\ ~cmd'[b].free
                             => Locked(cmd'[b].step, holder'[q], b)
      BY DEF LocksAreHeld, On, Locked
    <3>8. CASE b = a
      BY <3>1, <3>8 DEF Locked
    <3>9. CASE b # a
      BY <3>1, <3>9 DEF LocksAreHeld, On, Locked
    <3> QED BY <3>8, <3>9
  <2>3. DeletionsGoOn'
    BY <1>2 DEF BeginStart, Begin, Count, NoCommand, DeletionsGoOn, Deleting
  <2>4. DeletedIsGone'
    BY <1>2 DEF BeginStart, Begin, Count, NoCommand, DeletedIsGone, On, Deleting
  <2>5. NoOrphanStack'
    BY <1>2 DEF BeginStart, Begin, Count, NoCommand, NoOrphanStack
  <2> QED BY <2>1, <2>2, <2>3, <2>4, <2>5
<1>3. ASSUME NEW p \in Projects, NEW op \in {"down", "clear", "delete"}, NEW all \in BOOLEAN,
             BeginDown(a, p, op, all)
      PROVE  DInv'
  <2>1. Shape'
    <3>1. /\ Begin(a, op, {p}, all, "down")
          /\ holder' = IF all THEN holder ELSE [holder EXCEPT ![p] = a]
          /\ UNCHANGED stack
      BY <1>3 DEF BeginDown
    <3>2. op \in Ops /\ "down" \in Steps /\ {p} \in SUBSET Projects
      BY DEF Ops, Steps
    <3>3. cmd' \in [Actors -> AnyCommand]
      BY <3>1, <3>2, BeginIsACommand
    <3> QED BY <3>1, <3>3
  <2>2. LocksAreHeld'
    <3>1. /\ cmd'[a].op # "run" /\ cmd'[a].on = {p} /\ cmd'[a].free = all
          /\ \A b \in Actors \ {a} : cmd'[b] = cmd[b]
      BY <1>3 DEF BeginDown, Begin, NoCommand
    <3>2. /\ \A q \in Projects \ {p} : holder'[q] = holder[q]
          /\ all => holder' = holder
          /\ ~all => holder[p] = Nobody /\ holder'[p] = a
      BY <1>3 DEF BeginDown, Free
    <3> SUFFICES ASSUME NEW b \in Actors, NEW q \in Projects, cmd'[b].on = {q}
                 PROVE  /\ cmd'[b].op = "run" => holder'[q] = b
                        /\ cmd'[b].op = "delete" /\ ~cmd'[b].free
                             => Locked(cmd'[b].step, holder'[q], b)
      BY DEF LocksAreHeld, On, Locked
    <3>7. cmd'[a].on = {q} => q = p
      BY <3>1
    <3>8. CASE b = a
      BY <3>1, <3>2, <3>7, <3>8 DEF Locked
    <3>9. CASE b # a
      <4>1. /\ cmd[b].op = "run" => holder[q] = b
            /\ cmd[b].op = "delete" /\ ~cmd[b].free => Locked(cmd[b].step, holder[q], b)
        BY <3>1, <3>9 DEF LocksAreHeld, On
      <4>2. holder[q] = b => holder'[q] = b
        BY <3>2
      <4> QED BY <3>1, <3>9, <4>1, <4>2 DEF Locked
    <3> QED BY <3>8, <3>9
  <2>3. DeletionsGoOn'
    BY <1>3 DEF BeginDown, Free, Begin, Count, NoCommand, DeletionsGoOn, Deleting
  <2>4. DeletedIsGone'
    BY <1>3 DEF BeginDown, Free, Begin, Count, NoCommand, DeletedIsGone, On, Deleting
  <2>5. NoOrphanStack'
    BY <1>3 DEF BeginDown, Free, Begin, Count, NoCommand, NoOrphanStack
  <2> QED BY <2>1, <2>2, <2>3, <2>4, <2>5
<1>4. ASSUME NEW force \in BOOLEAN, BeginSetup(a, force)
      PROVE  DInv'
  <2>1. Shape'
    BY <1>4 DEF BeginSetup, Begin, Count, NoCommand, AnyCommand, Ops, Steps
  <2>2. LocksAreHeld'
    <3>1. /\ UNCHANGED holder /\ cmd'[a].op = "setup"
          /\ \A b \in Actors \ {a} : cmd'[b] = cmd[b]
      BY <1>4 DEF BeginSetup, Begin, NoCommand
    <3> SUFFICES ASSUME NEW b \in Actors, NEW q \in Projects, cmd'[b].on = {q}
                 PROVE  /\ cmd'[b].op = "run" => holder'[q] = b
                        /\ cmd'[b].op = "delete" /\ ~cmd'[b].free
                             => Locked(cmd'[b].step, holder'[q], b)
      BY DEF LocksAreHeld, On, Locked
    <3>8. CASE b = a
      BY <3>1, <3>8 DEF Locked
    <3>9. CASE b # a
      BY <3>1, <3>9 DEF LocksAreHeld, On, Locked
    <3> QED BY <3>8, <3>9
  <2>3. DeletionsGoOn'
    BY <1>4 DEF BeginSetup, Begin, Count, NoCommand, DeletionsGoOn, Deleting
  <2>4. DeletedIsGone'
    BY <1>4 DEF BeginSetup, Begin, Count, NoCommand, DeletedIsGone, On, Deleting
  <2>5. NoOrphanStack'
    BY <1>4 DEF BeginSetup, Begin, Count, NoCommand, NoOrphanStack
  <2> QED BY <2>1, <2>2, <2>3, <2>4, <2>5
<1>5. CASE BeginList(a)
  <2>1. Shape'
    BY <1>5 DEF BeginList, Begin, Count, NoCommand, AnyCommand, Ops, Steps
  <2>2. LocksAreHeld'
    BY <1>5 DEF BeginList, Begin, Count, NoCommand, LocksAreHeld, On, Locked
  <2>3. DeletionsGoOn'
    BY <1>5 DEF BeginList, Begin, Count, NoCommand, DeletionsGoOn, Deleting
  <2>4. DeletedIsGone'
    BY <1>5 DEF BeginList, Begin, Count, NoCommand, DeletedIsGone, On, Deleting
  <2>5. NoOrphanStack'
    BY <1>5 DEF BeginList, Begin, Count, NoCommand, NoOrphanStack
  <2> QED BY <2>1, <2>2, <2>3, <2>4, <2>5
<1>6. ASSUME NEW quiet \in BOOLEAN, BeginPrune(a, quiet)
      PROVE  DInv'
  <2> DEFINE c == [NoCommand EXCEPT !.op = "prune", !.free = quiet, !.step = "list",
                                    !.then = "containers"]
  <2>1. c \in AnyCommand /\ c.op = "prune" /\ \A p \in Projects : c.on # {p}
    BY BoundsAssumption DEF BoundsAssumption, NoCommand, AnyCommand, Ops, Steps
  <2>2. cmd' = [cmd EXCEPT ![a] = c] /\ UNCHANGED <<stack, holder, late, stranded, dirs>>
    BY <1>6 DEF BeginPrune
  <2> HIDE DEF c
  <2>3. LocksAreHeld'
    BY <2>1, <2>2 DEF LocksAreHeld, On, Locked
  <2>4. DeletionsGoOn'
    BY <2>1, <2>2 DEF DeletionsGoOn
  <2>5. DeletedIsGone' /\ NoOrphanStack' /\ Shape'
    BY <2>1, <2>2 DEF DeletedIsGone, On, NoOrphanStack
  <2> QED BY <2>3, <2>4, <2>5
<1> QED BY <1>1, <1>2, <1>3, <1>4, <1>5, <1>6 DEF BeginCommand

\* A deletion that has given up its lock writes the registry, and goes on.
GoOn ==
  \E a \in Actors, c \in AnyCommand :
    /\ cmd[a].op = "delete" /\ cmd[a].step \in {"load", "save"}
    /\ c.op = cmd[a].op /\ c.on = cmd[a].on
    /\ c.step = "rmtree" \/ (c.step = "save" /\ c.then = "rmtree")
    /\ cmd' = [cmd EXCEPT ![a] = c]
    /\ UNCHANGED <<stack, holder, late, stranded, dirs>>

\* A deletion that goes on keeps what was promised of it.
LEMMA GoOnKeeps ==
  ASSUME DInv, GoOn
  PROVE  DInv'
<1>1. PICK a \in Actors, c \in AnyCommand :
        /\ cmd[a].op = "delete" /\ cmd[a].step \in {"load", "save"}
        /\ c.op = cmd[a].op /\ c.on = cmd[a].on
        /\ c.step = "rmtree" \/ (c.step = "save" /\ c.then = "rmtree")
        /\ cmd' = [cmd EXCEPT ![a] = c]
        /\ UNCHANGED <<stack, holder, late, stranded, dirs>>
  BY DEF GoOn
<1> USE DEF DInv, Shape
<1>2. Shape'
  BY <1>1
<1>3. LocksAreHeld'
  <2> SUFFICES ASSUME NEW b \in Actors, NEW q \in Projects, cmd'[b].on = {q}
               PROVE  /\ cmd'[b].op = "run" => holder'[q] = b
                      /\ cmd'[b].op = "delete" /\ ~cmd'[b].free
                             => Locked(cmd'[b].step, holder'[q], b)
    BY DEF LocksAreHeld, On, Locked
  <2>7. cmd'[a] = c /\ c.op = "delete" /\ c.step \in {"rmtree", "save"}
    BY <1>1
  <2>8. CASE b = a
    BY <2>7, <2>8 DEF Locked
  <2>9. CASE b # a
    BY <1>1, <2>9 DEF LocksAreHeld, On, Locked
  <2> QED BY <2>8, <2>9
<1>4. DeletionsGoOn'
  BY <1>1 DEF DeletionsGoOn, Deleting
<1>5. DeletedIsGone'
  BY <1>1 DEF DeletedIsGone, On, Deleting
<1>6. NoOrphanStack'
  BY <1>1 DEF NoOrphanStack
<1> QED BY <1>2, <1>3, <1>4, <1>5, <1>6

\* The next step of a command that takes a project down: it keeps its lock until
\* "unlock", and leaves containers only to what is said of them.
LEMMA NextStepKeeps ==
  ASSUME DInv, NEW a \in Actors, NEW step \in Steps, Goto(a, step),
         cmd[a].op # "run", UNCHANGED <<late, dirs>>, stranded \subseteq stranded',
         stack' \in [Projects -> {"none", "stopped", "running"}],
         \A q \in Projects : stack'[q] \in {"none", stack[q]},
         holder' \in [Projects -> Actors \cup {Nobody}],
         \A q \in Projects, b \in Actors \ {a} : holder[q] = b => holder'[q] = b,
         \A q \in Projects :
           On(a, q) /\ cmd[a].op = "delete" /\ ~cmd[a].free => Locked(step, holder'[q], a),
         cmd[a].op = "delete" =>
           step \in (Deleting \ {"save"}) \cup {"down", "sweep only"},
         \A q \in Projects :
           On(a, q) /\ cmd[a].op = "delete" /\ step \in Deleting =>
             stack'[q] = "none" \/ q \in late \/ q \in stranded'
  PROVE  DInv'
<1>1. Shape'
  <2>1. cmd' \in [Actors -> AnyCommand]
    BY GotoIsACommand DEF DInv
  <2> QED BY <2>1 DEF Shape
<1>2. /\ cmd'[a].op = cmd[a].op /\ cmd'[a].on = cmd[a].on /\ cmd'[a].free = cmd[a].free
      /\ cmd'[a].step = step
      /\ \A b \in Actors \ {a} : cmd'[b] = cmd[b]
  <2> DEFINE c == [cmd[a] EXCEPT !.step = step]
  <2>1. cmd[a] \in AnyCommand /\ cmd \in [Actors -> AnyCommand]
    BY DEF DInv, Shape
  <2>2. c.op = cmd[a].op /\ c.on = cmd[a].on /\ c.free = cmd[a].free /\ c.step = step
    BY <2>1 DEF AnyCommand
  <2>3. cmd' = [cmd EXCEPT ![a] = c]
    BY DEF Goto
  <2> HIDE DEF c
  <2> QED BY <2>1, <2>2, <2>3
<1>3. LocksAreHeld'
  <2> SUFFICES ASSUME NEW b \in Actors, NEW q \in Projects, cmd'[b].on = {q}
               PROVE  /\ cmd'[b].op = "run" => holder'[q] = b
                      /\ cmd'[b].op = "delete" /\ ~cmd'[b].free
                             => Locked(cmd'[b].step, holder'[q], b)
    BY DEF LocksAreHeld, On, Locked
  <2>1. CASE b = a
    BY <1>2, <2>1 DEF On
  <2>2. CASE b # a
    <3>1. /\ cmd[b].op = "run" => holder[q] = b
          /\ cmd[b].op = "delete" /\ ~cmd[b].free => Locked(cmd[b].step, holder[q], b)
      BY <1>2, <2>2 DEF DInv, LocksAreHeld, On
    <3> QED BY <1>2, <2>2, <3>1 DEF Locked
  <2> QED BY <2>1, <2>2
<1>4. DeletionsGoOn'
  BY <1>2 DEF DInv, DeletionsGoOn, Deleting
<1>5. DeletedIsGone'
  <2> SUFFICES ASSUME NEW b \in Actors, NEW q \in Projects, cmd'[b].on = {q},
                      cmd'[b].op = "delete", cmd'[b].step \in Deleting
               PROVE  stack'[q] = "none" \/ q \in late' \/ q \in stranded'
    BY DEF DeletedIsGone, On
  <2>1. CASE b = a
    BY <1>2, <2>1 DEF On
  <2>2. CASE b # a
    <3>1. stack[q] = "none" \/ q \in late \/ q \in stranded
      BY <1>2, <2>2 DEF DInv, DeletedIsGone, On
    <3> QED BY <3>1
  <2> QED BY <2>1, <2>2
<1>6. NoOrphanStack'
  BY DEF DInv, NoOrphanStack
<1> QED BY <1>1, <1>3, <1>4, <1>5, <1>6 DEF DInv

\* The steps of a deletion and of `ldm down`.
LEMMA DownKeeps ==
  ASSUME DInv, NEW a \in Actors,
         \/ \E p \in Projects :
              \/ ComposeDown(a, p) \/ MissComposeFile(a, p) \/ Sweep(a, p)
              \/ SweepVolumes(a, p) \/ DropDatabase(a, p)
              \/ Unregister(a, p) \/ RemoveDirectory(a, p)
         \/ Unlock(a) \/ (cmd[a].op = "delete" /\ SaveRegistry(a))
  PROVE  DInv'
<1> USE NoCommandIsOne, NobodyAssumption DEF NobodyAssumption, DInv, Shape
<1> USE DEF own
<1>0. DInv /\ holder \in [Projects -> Actors \cup {Nobody}]
  OBVIOUS
<1>1. ASSUME NEW p \in Projects, ComposeDown(a, p)
      PROVE  DInv'
  <2>1. /\ cmd[a].op \in {"down", "clear", "delete"} /\ cmd[a].step = "down" /\ On(a, p)
        /\ stack' = [stack EXCEPT ![p] = "none"] /\ Goto(a, "sweep")
        /\ UNCHANGED <<late, stranded, holder, dirs>>
    BY <1>1 DEF ComposeDown, At
  <2>2. \A q \in Projects :
          On(a, q) /\ cmd[a].op = "delete" /\ ~cmd[a].free => holder[q] = a
    BY <2>1 DEF LocksAreHeld, Locked
  <2>3. \A q \in Projects : On(a, q) => stack'[q] = "none"
    BY <2>1 DEF On
  <2>4. /\ stack' \in [Projects -> {"none", "stopped", "running"}]
        /\ \A q \in Projects : stack'[q] \in {"none", stack[q]}
    BY <2>1
  <2>5. "sweep" \in Steps /\ "sweep" \in Deleting \ {"save"} /\ cmd[a].op # "run"
    BY <2>1 DEF Steps, Deleting
  <2>6. \A q \in Projects :
          On(a, q) /\ cmd[a].op = "delete" /\ ~cmd[a].free => Locked("sweep", holder'[q], a)
    BY <2>1, <2>2 DEF Locked
  <2>7. holder' \in [Projects -> Actors \cup {Nobody}]
        /\ \A q \in Projects, b \in Actors \ {a} : holder[q] = b => holder'[q] = b
    BY <2>1
  <2> HIDE DEF DInv, Shape
  <2> QED BY <1>0, <2>1, <2>3, <2>4, <2>5, <2>6, <2>7, NextStepKeeps
<1>2. ASSUME NEW p \in Projects, DropDatabase(a, p)
      PROVE  DInv'
  <2>1. /\ cmd[a].op = "delete" /\ cmd[a].step = "drop" /\ On(a, p)
        /\ Goto(a, "unlock") /\ UNCHANGED <<stack, late, stranded, holder, dirs>>
    BY <1>2 DEF DropDatabase, At
  <2>2. \A q \in Projects : On(a, q) =>
          /\ ~cmd[a].free => holder[q] = a
          /\ stack[q] = "none" \/ q \in late \/ q \in stranded
    BY <2>1 DEF LocksAreHeld, Locked, DeletedIsGone, Deleting
  <2> QED BY <2>1, <2>2, NextStepKeeps DEF Locked, Steps, Deleting
<1>3. ASSUME NEW p \in Projects, Unregister(a, p)
      PROVE  DInv'
  <2>1. CASE p \in Read
    <3> DEFINE c == [cmd[a] EXCEPT !.step = "save", !.then = "rmtree"]
    <3>1. /\ c \in AnyCommand /\ c.op = cmd[a].op /\ c.on = cmd[a].on
          /\ c.step = "save" /\ c.then = "rmtree"
      BY DEF AnyCommand, Steps
    <3>2. /\ cmd[a].op = "delete" /\ cmd[a].step = "load"
          /\ cmd' = [cmd EXCEPT ![a] = c]
          /\ UNCHANGED <<stack, holder, late, stranded, dirs>>
      BY <1>3, <2>1 DEF Unregister, At, GotoSave
    <3> HIDE DEF c
    <3>3. GoOn
      BY <3>1, <3>2 DEF GoOn
    <3> QED BY <3>3, GoOnKeeps
  <2>2. CASE p \notin Read
    <3> DEFINE c == [cmd[a] EXCEPT !.step = "rmtree"]
    <3>1. c \in AnyCommand /\ c.op = cmd[a].op /\ c.on = cmd[a].on /\ c.step = "rmtree"
      BY DEF AnyCommand, Steps
    <3>2. /\ cmd[a].op = "delete" /\ cmd[a].step = "load"
          /\ cmd' = [cmd EXCEPT ![a] = c]
          /\ UNCHANGED <<stack, holder, late, stranded, dirs>>
      BY <1>3, <2>2 DEF Unregister, At, Goto
    <3> HIDE DEF c
    <3>3. GoOn
      BY <3>1, <3>2 DEF GoOn
    <3> QED BY <3>3, GoOnKeeps
  <2> QED BY <2>1, <2>2
<1>4. ASSUME NEW p \in Projects, RemoveDirectory(a, p)
      PROVE  DInv'
  <2>1. Shape'
    BY <1>4 DEF RemoveDirectory, At, Leave, Release, AnyCommand, Ops, Steps
  <2>2. LocksAreHeld'
    BY <1>4 DEF RemoveDirectory, At, Leave, Release, LocksAreHeld, On, Locked
  <2>3. DeletionsGoOn'
    BY <1>4 DEF RemoveDirectory, At, Leave, Release, DeletionsGoOn, Deleting
  <2>4. DeletedIsGone'
    BY <1>4 DEF RemoveDirectory, At, Leave, Release, DeletedIsGone, On, Deleting
  <2>5. NoOrphanStack'
    <3>1. stack[p] = "none" \/ p \in late \/ p \in stranded
      BY <1>4 DEF RemoveDirectory, At, DeletedIsGone, Deleting
    <3>2. dirs' = dirs \ {p} /\ UNCHANGED <<stack, late, stranded>>
      BY <1>4 DEF RemoveDirectory
    <3> QED BY <3>1, <3>2 DEF NoOrphanStack
  <2> QED BY <2>1, <2>2, <2>3, <2>4, <2>5
<1>5. CASE Unlock(a)
  <2>1. /\ cmd[a].op = "delete" /\ cmd[a].step = "unlock" /\ Goto(a, "load")
        /\ holder' = [q \in Projects |-> IF holder[q] = a THEN Nobody ELSE holder[q]]
        /\ UNCHANGED <<stack, late, stranded, dirs>>
    BY <1>5 DEF Unlock, At, Release
  <2>2. \A q \in Projects :
          On(a, q) => stack[q] = "none" \/ q \in late \/ q \in stranded
    BY <2>1 DEF DeletedIsGone, Deleting
  <2> QED BY <2>1, <2>2, NextStepKeeps DEF Locked, Steps, Deleting
<1>6. CASE cmd[a].op = "delete" /\ SaveRegistry(a)
  <2> DEFINE c == [cmd[a] EXCEPT !.step = "rmtree"]
  <2>1. c \in AnyCommand /\ c.op = cmd[a].op /\ c.on = cmd[a].on /\ c.step = "rmtree"
    BY DEF AnyCommand, Steps
  <2>2. /\ cmd[a].op = "delete" /\ cmd[a].step = "save"
        /\ cmd' = [cmd EXCEPT ![a] = c]
        /\ UNCHANGED <<stack, holder, late, stranded, dirs>>
    BY <1>6 DEF SaveRegistry, Goto, DeletionsGoOn
  <2> HIDE DEF c
  <2>3. GoOn
    BY <2>1, <2>2 DEF GoOn
  <2> QED BY <2>3, GoOnKeeps
<1>7. ASSUME NEW p \in Projects, Sweep(a, p)
      PROVE  DInv'
  <2>1. PICK S \in SweptUp(p) :
          stack' = [q \in Projects |-> IF q \in S THEN "none" ELSE stack[q]]
    BY <1>7 DEF Sweep
  <2>2. /\ UNCHANGED <<late, dirs>> /\ On(a, p)
        /\ cmd[a].op \in {"down", "clear", "delete"}
        /\ cmd[a].step \in {"sweep", "sweep only"}
        /\ stranded' = IF cmd[a].step = "sweep only" /\ stack'[p] # "none"
                       THEN stranded \cup {p} ELSE stranded
    BY <1>7 DEF Sweep, At
  <2>3. NoOrphanStack'
    BY <2>1, <2>2 DEF NoOrphanStack
  <2>4. CASE Clears(a)
    <3>1. Goto(a, "sweep volumes") /\ UNCHANGED holder
      BY <1>7, <2>4 DEF Sweep
    <3>2. \A q \in Projects : On(a, q) => q = p
      BY <2>2 DEF On
    <3>3. cmd[a].op = "delete" /\ ~cmd[a].free => holder[p] = a
      BY <2>2 DEF LocksAreHeld, Locked
    <3>4. ASSUME cmd[a].op = "delete"
          PROVE  stack'[p] = "none" \/ p \in late \/ p \in stranded'
      <4>1. CASE cmd[a].step = "sweep only"
        BY <2>2, <4>1
      <4>2. CASE cmd[a].step = "sweep"
        <5>1. stack[p] = "none" \/ p \in late \/ p \in stranded
          BY <2>2, <3>4, <4>2 DEF DeletedIsGone, Deleting
        <5> QED BY <2>1, <2>2, <5>1
      <4> QED BY <2>2, <4>1, <4>2
    <3>5. /\ stack' \in [Projects -> {"none", "stopped", "running"}]
          /\ \A q \in Projects : stack'[q] \in {"none", stack[q]}
          /\ stranded \subseteq stranded'
      BY <2>1, <2>2
    <3>6. /\ "sweep volumes" \in Steps /\ "sweep volumes" \in Deleting \ {"save"}
          /\ cmd[a].op # "run" /\ UNCHANGED <<late, dirs>>
      BY <2>2 DEF Steps, Deleting
    <3>7. \A q \in Projects :
            On(a, q) /\ cmd[a].op = "delete" /\ ~cmd[a].free
              => Locked("sweep volumes", holder'[q], a)
      BY <3>1, <3>2, <3>3 DEF Locked
    <3>8. \A q \in Projects :
            On(a, q) /\ cmd[a].op = "delete" =>
              stack'[q] = "none" \/ q \in late \/ q \in stranded'
      BY <3>2, <3>4
    <3> HIDE DEF DInv, Shape
    <3> QED BY <1>0, <3>1, <3>5, <3>6, <3>7, <3>8, NextStepKeeps
  <2>5. CASE ~Clears(a)
    <3>1. /\ cmd' = [cmd EXCEPT ![a] = NoCommand]
          /\ holder' = [q \in Projects |-> IF holder[q] = a THEN Nobody ELSE holder[q]]
      BY <1>7, <2>5 DEF Sweep, Leave, Release
    <3>2. Shape'
      BY <2>1, <3>1
    <3>3. LocksAreHeld'
      BY <2>1, <2>2, <3>1 DEF LocksAreHeld, On, Locked
    <3>4. DeletionsGoOn'
      BY <2>1, <2>2, <3>1 DEF DeletionsGoOn
    <3>5. DeletedIsGone'
      BY <2>1, <2>2, <3>1 DEF DeletedIsGone, On
    <3> QED BY <2>3, <3>2, <3>3, <3>4, <3>5
  <2> QED BY <2>4, <2>5
<1>8. ASSUME NEW p \in Projects, MissComposeFile(a, p)
      PROVE  DInv'
  <2>1. /\ cmd[a].op \in {"down", "clear", "delete"} /\ cmd[a].step = "down" /\ On(a, p)
        /\ Goto(a, "sweep only") /\ UNCHANGED <<stack, late, stranded, holder, dirs>>
    BY <1>8 DEF MissComposeFile, At
  <2>2. \A q \in Projects :
          On(a, q) /\ cmd[a].op = "delete" /\ ~cmd[a].free => holder[q] = a
    BY <2>1 DEF LocksAreHeld, Locked
  <2>3. /\ "sweep only" \in Steps /\ "sweep only" \notin Deleting /\ cmd[a].op # "run"
    BY <2>1 DEF Steps, Deleting
  <2> HIDE DEF DInv, Shape
  <2>4. /\ stack' \in [Projects -> {"none", "stopped", "running"}]
        /\ \A q \in Projects : stack'[q] \in {"none", stack[q]}
    BY <1>0, <2>1 DEF DInv, Shape
  <2> QED BY <1>0, <2>1, <2>2, <2>3, <2>4, NextStepKeeps DEF Locked
<1>9. ASSUME NEW p \in Projects, SweepVolumes(a, p)
      PROVE  DInv'
  <2>1. /\ UNCHANGED <<stack, late, stranded, dirs>> /\ cmd[a].step = "sweep volumes"
        /\ On(a, p)
    BY <1>9 DEF SweepVolumes, At
  <2>2. CASE cmd[a].op = "delete"
    <3>1. Goto(a, "drop") /\ UNCHANGED holder
      BY <1>9, <2>2 DEF SweepVolumes
    <3>2. \A q \in Projects : On(a, q) =>
            /\ ~cmd[a].free => holder[q] = a
            /\ stack[q] = "none" \/ q \in late \/ q \in stranded
      BY <2>1, <2>2 DEF LocksAreHeld, Locked, DeletedIsGone, Deleting
    <3> QED BY <2>1, <2>2, <3>1, <3>2, NextStepKeeps DEF Locked, Steps, Deleting
  <2>3. CASE cmd[a].op # "delete"
    BY <1>9, <2>1, <2>3, ExitKeeps DEF SweepVolumes, Exit
  <2> QED BY <2>2, <2>3
<1> QED BY <1>1, <1>2, <1>3, <1>4, <1>5, <1>6, <1>7, <1>8, <1>9

\* A step that changes nothing but its command is one of these.
LEMMA QuietWalk ==
  ASSUME DInv, NEW a \in Actors, NEW c, c \in AnyCommand, cmd[a].op # "delete",
         c.op = cmd[a].op, c.on = cmd[a].on \/ cmd[a].op = "prune",
         cmd' = [cmd EXCEPT ![a] = c], UNCHANGED <<stack, holder, late, stranded, dirs>>
  PROVE  Walk
BY DEF Walk, DInv, Shape

\* The same with a step's name alone.
LEMMA GotoIsAWalk ==
  ASSUME DInv, NEW a \in Actors, NEW step \in Steps, Goto(a, step), cmd[a].op # "delete",
         UNCHANGED <<stack, holder, late, stranded, dirs>>
  PROVE  Walk
<1> DEFINE c == [cmd[a] EXCEPT !.step = step]
<1>1. c \in AnyCommand /\ c.op = cmd[a].op /\ c.on = cmd[a].on
  BY DEF DInv, Shape, AnyCommand
<1>2. cmd' = [cmd EXCEPT ![a] = c]
  BY DEF Goto
<1> HIDE DEF c
<1> QED BY <1>1, <1>2, QuietWalk

\* And with what a prune picks.
LEMMA PickIsAWalk ==
  ASSUME DInv, NEW a \in Actors, NEW step \in Steps, NEW S \in SUBSET Projects,
         Pick(a, step, S), cmd[a].op = "prune",
         stack' \in [Projects -> {"none", "stopped", "running"}],
         \A p \in Projects : stack'[p] \in {"none", stack[p]},
         UNCHANGED <<holder, late, stranded, dirs>>
  PROVE  Walk
<1> DEFINE c == [cmd[a] EXCEPT !.step = step, !.on = S]
<1>1. c \in AnyCommand /\ c.op = cmd[a].op
  BY DEF DInv, Shape, AnyCommand
<1>2. cmd' = [cmd EXCEPT ![a] = c]
  BY DEF Pick
<1> HIDE DEF c
<1> QED BY <1>1, <1>2 DEF Walk

\* The steps of the other commands between their first and their last.
LEMMA StepsAreWalks ==
  ASSUME DInv, Known, NEW a \in Actors,
         \/ \E p \in Projects : Register(a, p) \/ CreateDatabase(a, p)
         \/ ListProjects(a) \/ (cmd[a].op # "delete" /\ SaveRegistry(a))
         \/ UseSearch(a) \/ StartSearch(a) \/ CreateSearch(a) \/ SearchIsReady(a)
         \/ SearchIsNotReady(a) \/ Scan(a) \/ Diagnose(a)
         \/ RemoveSearch(a) \/ WipeSearch(a) \/ SetUpDatabase(a) \/ WaitForDatabase(a)
         \/ (cmd[a].op = "run" /\ UpProxy(a))
         \/ LookBeforeCut(a) \/ CutProxy(a)
  PROVE  Walk
<1> USE DEF own, shared
<1>0. cmd[a] \in AnyCommand
  BY DEF DInv, Shape
<1>1. CASE \E p \in Projects : Register(a, p)
  <2>1. PICK t \in {"search", "start"} :
          cmd' = [cmd EXCEPT ![a] = [cmd[a] EXCEPT !.step = "save", !.then = t]]
    BY <1>1 DEF Register, GotoSave
  <2> DEFINE r == [cmd[a] EXCEPT !.step = "save", !.then = t]
  <2>2. r \in AnyCommand /\ r.op = cmd[a].op /\ r.on = cmd[a].on
    BY <1>0 DEF AnyCommand, Steps
  <2>3. cmd' = [cmd EXCEPT ![a] = r]
    BY <2>1
  <2>4. cmd[a].op # "delete" /\ UNCHANGED <<stack, holder, late, stranded, dirs>>
    BY <1>1 DEF Register, At
  <2> HIDE DEF r
  <2> QED BY <2>2, <2>3, <2>4, QuietWalk
<1>2. CASE ListProjects(a)
  <2>1. PICK s \in Steps :
          cmd' = [cmd EXCEPT ![a] =
                   [cmd[a] EXCEPT !.step = s, !.then = AfterList(a), !.found = Roots]]
    BY <1>0, <1>2 DEF ListProjects, AfterList, AnyCommand, Steps
  <2>2. AfterList(a) \in Steps
    BY <1>0 DEF AfterList, AnyCommand, Steps
  <2>3. Roots \in SUBSET Projects
    BY DEF Known, Roots
  <2> DEFINE r == [cmd[a] EXCEPT !.step = s, !.then = AfterList(a), !.found = Roots]
  <2>4. r \in AnyCommand /\ r.op = cmd[a].op /\ r.on = cmd[a].on
    BY <1>0, <2>2, <2>3 DEF AnyCommand
  <2>5. cmd' = [cmd EXCEPT ![a] = r]
    BY <2>1
  <2>6. cmd[a].op # "delete" /\ UNCHANGED <<stack, holder, late, stranded, dirs>>
    BY <1>2 DEF ListProjects, DInv, DeletionsGoOn, Deleting
  <2> HIDE DEF r
  <2> QED BY <2>4, <2>5, <2>6, QuietWalk
<1>3. CASE Scan(a)
  <2>1. PICK s \in Steps :
          cmd' = [cmd EXCEPT ![a] =
                   [cmd[a] EXCEPT !.step = s, !.fresh = Running \ cmd[a].found, !.found = {}]]
    BY <1>3 DEF Scan, AfterScan, Steps
  <2> DEFINE r == [cmd[a] EXCEPT !.step = s, !.fresh = Running \ cmd[a].found, !.found = {}]
  <2>2. r \in AnyCommand /\ r.op = cmd[a].op /\ r.on = cmd[a].on
    BY <1>0 DEF AnyCommand, Running
  <2>3. cmd' = [cmd EXCEPT ![a] = r]
    BY <2>1
  <2>4. cmd[a].op # "delete" /\ UNCHANGED <<stack, holder, late, stranded, dirs>>
    BY <1>3 DEF Scan, At
  <2> HIDE DEF r
  <2> QED BY <2>2, <2>3, <2>4, QuietWalk
<1>4. CASE WipeSearch(a)
  <2> DEFINE r == [cmd[a] EXCEPT !.step = "search", !.depth = cmd[a].depth + 1]
  <2>1. r \in AnyCommand /\ r.op = cmd[a].op /\ r.on = cmd[a].on
    <3>1. cmd[a].depth + 1 \in Nat
      BY <1>0 DEF AnyCommand
    <3> QED BY <1>0, <3>1 DEF AnyCommand, Steps
  <2>2. cmd' = [cmd EXCEPT ![a] = r]
    BY <1>4 DEF WipeSearch
  <2>3. cmd[a].op # "delete" /\ UNCHANGED <<stack, holder, late, stranded, dirs>>
    BY <1>4 DEF WipeSearch, At
  <2> HIDE DEF r
  <2> QED BY <2>1, <2>2, <2>3, QuietWalk
<1>5. CASE cmd[a].op # "delete" /\ SaveRegistry(a)
  BY <1>0, <1>5, GotoIsAWalk DEF SaveRegistry, AnyCommand
<1>6. CASE \E p \in Projects : CreateDatabase(a, p)
  <2>1. Goto(a, "boot") /\ cmd[a].op # "delete" /\ UNCHANGED <<stack, holder, late, stranded, dirs>>
    BY <1>6 DEF CreateDatabase, At
  <2> QED BY <2>1, GotoIsAWalk DEF Steps
<1>7. CASE \/ UseSearch(a) \/ StartSearch(a) \/ CreateSearch(a) \/ SearchIsReady(a)
           \/ SearchIsNotReady(a) \/ Diagnose(a) \/ RemoveSearch(a) \/ SetUpDatabase(a)
           \/ WaitForDatabase(a) \/ (cmd[a].op = "run" /\ UpProxy(a))
           \/ LookBeforeCut(a) \/ CutProxy(a)
  <2>1. cmd[a].op # "delete" /\ UNCHANGED <<stack, holder, late, stranded, dirs>>
    BY <1>7 DEF UseSearch, StartSearch, CreateSearch, SearchIsReady, SearchIsNotReady,
           Diagnose, RemoveSearch, SetUpDatabase, WaitForDatabase, UpProxy, LookBeforeCut,
           CutProxy, At
  <2>2. \E step \in Steps : Goto(a, step)
    BY <1>7 DEF UseSearch, StartSearch, CreateSearch, SearchIsReady, SearchIsNotReady,
           Diagnose, RemoveSearch, SetUpDatabase, WaitForDatabase, UpProxy, LookBeforeCut,
           CutProxy, At, Steps
  <2> QED BY <2>1, <2>2, GotoIsAWalk
<1> QED BY <1>1, <1>2, <1>3, <1>4, <1>5, <1>6, <1>7

\* A prune removes containers and volumes of projects, never their directories.
LEMMA PrunesAreWalks ==
  ASSUME DInv, Known, NEW a \in Actors,
         \/ \E p \in Projects : RemoveOrphan(a, p) \/ RemoveVolume(a, p)
         \/ FindOrphans(a) \/ LookForVolumes(a) \/ FindVolumes(a)
         \/ LookForLegacy(a) \/ FindLegacy(a)
  PROVE  Walk
<1> USE DEF own, shared
<1>0. cmd[a] \in AnyCommand /\ stack \in [Projects -> {"none", "stopped", "running"}]
  BY DEF DInv, Shape
<1>1. CASE \E p \in Projects : RemoveOrphan(a, p)
  <2>1. PICK p \in Projects : RemoveOrphan(a, p)
    BY <1>1
  <2>2. /\ stack' \in [Projects -> {"none", "stopped", "running"}]
        /\ \A q \in Projects : stack'[q] \in {"none", stack[q]}
    BY <1>0, <2>1 DEF RemoveOrphan
  <2>3. cmd[a].on \ {p} \in SUBSET Projects
    BY <1>0 DEF AnyCommand
  <2>4. cmd[a].op = "prune" /\ UNCHANGED <<holder, late, stranded, dirs>> /\ "rm" \in Steps
        /\ Pick(a, "rm", cmd[a].on \ {p})
    BY <2>1 DEF RemoveOrphan, At, Steps
  <2> QED BY <2>2, <2>3, <2>4, PickIsAWalk
<1>2. CASE \E p \in Projects : RemoveVolume(a, p)
  <2>1. PICK p \in Projects : RemoveVolume(a, p)
    BY <1>2
  <2>2. cmd[a].on \ {p} \in SUBSET Projects /\ cmd[a].step \in Steps
    BY <1>0 DEF AnyCommand
  <2>3. cmd[a].op = "prune" /\ UNCHANGED <<stack, holder, late, stranded, dirs>>
        /\ Pick(a, cmd[a].step, cmd[a].on \ {p})
    BY <2>1 DEF RemoveVolume, At
  <2> QED BY <1>0, <2>2, <2>3, PickIsAWalk
<1>3. CASE FindOrphans(a)
  <2>1. /\ cmd[a].op = "prune" /\ UNCHANGED <<stack, holder, late, stranded, dirs>>
        /\ \E S \in SUBSET Projects : Pick(a, "rm", S)
    BY <1>3 DEF FindOrphans, At
  <2> QED BY <1>0, <2>1, PickIsAWalk DEF Steps
<1>4. CASE FindVolumes(a)
  <2>1. LabelledVolumes \ cmd[a].found \in SUBSET Projects
    BY DEF Known, LabelledVolumes
  <2>2. /\ cmd[a].op = "prune" /\ UNCHANGED <<stack, holder, late, stranded, dirs>>
        /\ \E S \in SUBSET Projects : Pick(a, "volume rm", S)
    BY <1>4, <2>1 DEF FindVolumes, At
  <2> QED BY <1>0, <2>2, PickIsAWalk DEF Steps
<1>5. CASE FindLegacy(a)
  <2>1. (vols \ LabelledVolumes) \ cmd[a].found \in SUBSET Projects
    BY DEF Known
  <2>2. /\ cmd[a].op = "prune" /\ UNCHANGED <<stack, holder, late, stranded, dirs>>
        /\ \E S \in SUBSET Projects : Pick(a, "legacy rm", S)
    BY <1>5, <2>1 DEF FindLegacy, At
  <2> QED BY <1>0, <2>2, PickIsAWalk DEF Steps
<1>6. CASE LookForVolumes(a) \/ LookForLegacy(a)
  <2>1. PICK t \in {"volumes", "legacy"} :
          cmd' = [cmd EXCEPT ![a] = [cmd[a] EXCEPT !.step = "list", !.then = t, !.on = {}]]
    BY <1>6 DEF LookForVolumes, LookForLegacy
  <2> DEFINE r == [cmd[a] EXCEPT !.step = "list", !.then = t, !.on = {}]
  <2>2. r \in AnyCommand /\ r.op = cmd[a].op
    BY <1>0 DEF AnyCommand, Steps
  <2>3. cmd' = [cmd EXCEPT ![a] = r]
    BY <2>1
  <2>4. cmd[a].op = "prune" /\ UNCHANGED <<stack, holder, late, stranded, dirs>>
    BY <1>6 DEF LookForVolumes, LookForLegacy, At
  <2> HIDE DEF r
  <2> QED BY <2>2, <2>3, <2>4, QuietWalk
<1> QED BY <1>1, <1>2, <1>3, <1>4, <1>5, <1>6

\* A look at the disk or the cluster's health may end the run.
LEMMA ChecksKeep ==
  ASSUME DInv, NEW a \in Actors,
         AssertUsable(a) \/ \E p \in Projects : CheckRoom(a, p)
  PROVE  DInv'
<1> USE DEF own, shared
<1>1. /\ cmd[a].op # "delete" /\ UNCHANGED <<stack, late, stranded, dirs>>
      /\ \/ Leave(a)
         \/ UNCHANGED holder /\ \E step \in {"room", "db"} : Goto(a, step)
  BY DEF AssertUsable, InstallPlugins, CheckRoom, At
<1>2. CASE Leave(a)
  BY <1>1, <1>2, ExitKeeps DEF Exit
<1>3. CASE UNCHANGED holder /\ \E step \in {"room", "db"} : Goto(a, step)
  <2>1. Walk
    BY <1>1, <1>3, GotoIsAWalk DEF Steps
  <2> QED BY <2>1, WalkKeeps
<1> QED BY <1>1, <1>2, <1>3

\* What the commands know stays true in every step.
LEMMA KnownKeeps ==
  ASSUME Known, Next
  PROVE  Known'
<1> USE DEF Known, own, shared
<1>1. CASE World
  BY <1>1 DEF World, Recreate, Stop, WriteIndex, InfraDown, SwitchDatabase, ReadySearch
<1>2. ASSUME NEW a \in Actors, BeginCommand(a)
      PROVE  Known'
  BY <1>2 DEF BeginCommand, BeginRun, BeginStart, BeginDown, BeginSetup, BeginList, BeginPrune
<1>3. ASSUME NEW a \in Actors, Quit(a)
      PROVE  Known'
  BY <1>3 DEF Quit
<1>4. ASSUME NEW a \in Actors, Work(a)
      PROVE  Known'
  <2>1. CASE \E p \in Projects :
               \/ Register(a, p) \/ Unregister(a, p) \/ CreateDatabase(a, p)
               \/ Boot(a, p) \/ Start(a, p) \/ ComposeDown(a, p)
               \/ MissComposeFile(a, p) \/ Sweep(a, p) \/ SweepVolumes(a, p)
               \/ DropDatabase(a, p) \/ RemoveDirectory(a, p) \/ CheckRoom(a, p)
               \/ RemoveOrphan(a, p) \/ RemoveVolume(a, p)
    <3>1. PICK p \in Projects :
               \/ Register(a, p) \/ Unregister(a, p) \/ CreateDatabase(a, p)
               \/ Boot(a, p) \/ Start(a, p) \/ ComposeDown(a, p)
               \/ MissComposeFile(a, p) \/ Sweep(a, p) \/ SweepVolumes(a, p)
               \/ DropDatabase(a, p) \/ RemoveDirectory(a, p) \/ CheckRoom(a, p)
               \/ RemoveOrphan(a, p) \/ RemoveVolume(a, p)
      BY <2>1
    <3>2. /\ vols' \subseteq vols \cup {p}
          /\ dirs' \in {dirs, dirs \ {p}}
      BY <3>1 DEF Register, Unregister, CreateDatabase, Boot, Start, ComposeDown,
                  MissComposeFile, Sweep, SweepVolumes, DropDatabase, RemoveDirectory, CheckRoom, RemoveOrphan, RemoveVolume
    <3> QED BY <3>2
  <2>2. CASE ListProjects(a) \/ SaveRegistry(a) \/ Unlock(a)
    BY <2>2 DEF ListProjects, SaveRegistry, Unlock
  <2>3. CASE \/ UseSearch(a) \/ StartSearch(a) \/ CreateSearch(a) \/ SearchIsReady(a)
             \/ AssertUsable(a) \/ SearchIsNotReady(a) \/ Scan(a) \/ Diagnose(a)
             \/ RemoveSearch(a) \/ WipeSearch(a) \/ SetUpDatabase(a) \/ WaitForDatabase(a)
             \/ UpProxy(a) \/ LookBeforeCut(a) \/ CutProxy(a)
             \/ FindOrphans(a) \/ LookForVolumes(a) \/ FindVolumes(a)
             \/ LookForLegacy(a) \/ FindLegacy(a)
    BY <2>3 DEF UseSearch, StartSearch, CreateSearch, SearchIsReady, AssertUsable,
                SearchIsNotReady, Scan, Diagnose, RemoveSearch, WipeSearch, SetUpDatabase,
                WaitForDatabase, UpProxy, LookBeforeCut, CutProxy, FindOrphans,
                LookForVolumes, FindVolumes, LookForLegacy, FindLegacy
  <2> QED BY <1>4, <2>1, <2>2, <2>3 DEF Work
<1> QED BY <1>1, <1>2, <1>3, <1>4 DEF Next

\* Every step, of a command or of the world, is one of the kinds above.
LEMMA StepKeeps ==
  ASSUME DInv, Known, Next
  PROVE  DInv'
<1>1. ASSUME NEW p \in Projects, Recreate(p)
      PROVE  DInv'
  <2>1. Shape'
    BY <1>1, NoticedIsTheSame DEF DInv, Shape, Recreate, BringUp
  <2> QED
    BY <1>1, <2>1, NoticedIsTheSame, BringUpKeeps DEF DInv, Shape, Recreate
<1>2. ASSUME NEW p \in Projects, Stop(p)
      PROVE  DInv'
  BY <1>2 DEF DInv, Shape, LocksAreHeld, DeletionsGoOn, DeletedIsGone, NoOrphanStack, On, Stop
<1>3. ASSUME \/ \E p \in Projects : WriteIndex(p)
             \/ InfraDown \/ SwitchDatabase \/ ReadySearch
      PROVE  DInv'
  <2>1. UNCHANGED <<stack, holder, late, stranded, dirs, cmd>>
    BY <1>3 DEF WriteIndex, InfraDown, SwitchDatabase, ReadySearch, own
  <2> QED
    BY <2>1 DEF DInv, Shape, LocksAreHeld, DeletionsGoOn, DeletedIsGone, NoOrphanStack, On
<1>4. ASSUME NEW a \in Actors, Quit(a)
      PROVE  DInv'
  BY <1>4, ExitKeeps DEF Quit, Exit, own
<1>5. ASSUME NEW a \in Actors, NEW p \in Projects, Boot(a, p)
      PROVE  DInv'
  <2> DEFINE N == Noticed(p, cmd)
  <2>0. /\ N \in [Actors -> AnyCommand]
        /\ \A b \in Actors :
             /\ N[b].op = cmd[b].op /\ N[b].on = cmd[b].on /\ N[b].free = cmd[b].free
             /\ N[b].step = cmd[b].step /\ N[b].then = cmd[b].then
    BY NoticedIsTheSame DEF DInv
  <2>1. /\ cmd' = [N EXCEPT ![a] = NoCommand]
        /\ holder' = [q \in Projects |-> IF holder[q] = a THEN Nobody ELSE holder[q]]
        /\ BringUp(p, TRUE) /\ p \in dirs /\ UNCHANGED dirs
        /\ cmd[a].op = "run" /\ On(a, p)
    BY <1>5 DEF Boot, Release, At
  <2> HIDE DEF N
  <2>2. Shape'
    BY <2>0, <2>1, NoCommandIsOne DEF DInv, Shape, BringUp
  <2>3. holder[p] = a
    BY <2>1 DEF DInv, LocksAreHeld
  <2>4. \A b \in Actors :
          \/ cmd'[b] = NoCommand
          \/ /\ cmd'[b].op = cmd[b].op /\ cmd'[b].on = cmd[b].on
             /\ cmd'[b].free = cmd[b].free /\ cmd'[b].step = cmd[b].step
             /\ cmd'[b].then = cmd[b].then
    BY <2>1, <2>0
  <2>5. \A q \in Projects, b \in Actors :
          holder[q] = b => holder'[q] = b \/ cmd'[b] = NoCommand
    BY <2>1, <2>0
  <2>6. cmd' \in [Actors -> AnyCommand]
    BY <2>2 DEF Shape
  <2> QED
    BY <2>1, <2>2, <2>3, <2>4, <2>5, <2>6, BringUpKeeps
<1>6. ASSUME NEW a \in Actors, NEW p \in Projects, Start(a, p)
      PROVE  DInv'
  <2> DEFINE N == Noticed(p, cmd)
  <2>0. /\ N \in [Actors -> AnyCommand]
        /\ \A b \in Actors :
             /\ N[b].op = cmd[b].op /\ N[b].on = cmd[b].on /\ N[b].free = cmd[b].free
             /\ N[b].step = cmd[b].step /\ N[b].then = cmd[b].then
    BY NoticedIsTheSame DEF DInv
  <2>1. /\ cmd' = [N EXCEPT ![a] = NoCommand]
        /\ UNCHANGED holder /\ holder[p] = Nobody
        /\ BringUp(p, TRUE) /\ p \in dirs /\ UNCHANGED dirs
    BY <1>6 DEF Start, Free
  <2> HIDE DEF N
  <2>2. Shape'
    BY <2>0, <2>1, NoCommandIsOne DEF DInv, Shape, BringUp
  <2>3. \A b \in Actors :
          \/ cmd'[b] = NoCommand
          \/ /\ cmd'[b].op = cmd[b].op /\ cmd'[b].on = cmd[b].on
             /\ cmd'[b].free = cmd[b].free /\ cmd'[b].step = cmd[b].step
             /\ cmd'[b].then = cmd[b].then
    BY <2>1, <2>0
  <2>4. cmd' \in [Actors -> AnyCommand]
    BY <2>2 DEF Shape
  <2> QED
    BY <2>1, <2>2, <2>3, <2>4, BringUpKeeps
<1>7. ASSUME NEW a \in Actors, UpProxy(a), cmd[a].op # "run"
      PROVE  DInv'
  BY <1>7, ExitKeeps DEF UpProxy, Exit, own, At
<1>8. ASSUME NEW a \in Actors, Work(a)
      PROVE  DInv'
  <2>1. CASE \/ \E p \in Projects :
                  \/ ComposeDown(a, p) \/ MissComposeFile(a, p) \/ Sweep(a, p)
                  \/ SweepVolumes(a, p) \/ DropDatabase(a, p)
                  \/ Unregister(a, p) \/ RemoveDirectory(a, p)
             \/ Unlock(a) \/ (cmd[a].op = "delete" /\ SaveRegistry(a))
    BY <2>1, DownKeeps
  <2>2. CASE \/ \E p \in Projects : Register(a, p) \/ CreateDatabase(a, p)
             \/ ListProjects(a) \/ (cmd[a].op # "delete" /\ SaveRegistry(a))
             \/ UseSearch(a) \/ StartSearch(a) \/ CreateSearch(a) \/ SearchIsReady(a)
             \/ SearchIsNotReady(a) \/ Scan(a) \/ Diagnose(a)
             \/ RemoveSearch(a) \/ WipeSearch(a) \/ SetUpDatabase(a) \/ WaitForDatabase(a)
             \/ (cmd[a].op = "run" /\ UpProxy(a))
             \/ LookBeforeCut(a) \/ CutProxy(a)
    BY <2>2, StepsAreWalks, WalkKeeps
  <2>3. CASE \/ \E p \in Projects : RemoveOrphan(a, p) \/ RemoveVolume(a, p)
             \/ FindOrphans(a) \/ LookForVolumes(a) \/ FindVolumes(a)
             \/ LookForLegacy(a) \/ FindLegacy(a)
    BY <2>3, PrunesAreWalks, WalkKeeps
  <2>4. CASE AssertUsable(a) \/ \E p \in Projects : CheckRoom(a, p)
    BY <2>4, ChecksKeep
  <2> QED
    <3>1. CASE SaveRegistry(a)
      BY <3>1, <2>1, <2>2
    <3>2. CASE UpProxy(a)
      BY <3>2, <1>7, <2>2
    <3>3. CASE \E p \in Projects : Boot(a, p) \/ Start(a, p)
      BY <3>3, <1>5, <1>6
    <3>4. CASE \E p \in Projects :
                 \/ ComposeDown(a, p) \/ MissComposeFile(a, p) \/ Sweep(a, p)
                 \/ SweepVolumes(a, p) \/ DropDatabase(a, p)
                 \/ Unregister(a, p) \/ RemoveDirectory(a, p)
      BY <3>4, <2>1
    <3>5. CASE \E p \in Projects : Register(a, p) \/ CreateDatabase(a, p)
      BY <3>5, <2>2
    <3>6. CASE Unlock(a)
      BY <3>6, <2>1
    <3>7. CASE \/ ListProjects(a) \/ UseSearch(a) \/ StartSearch(a) \/ CreateSearch(a)
               \/ SearchIsReady(a) \/ SearchIsNotReady(a) \/ Scan(a) \/ Diagnose(a)
               \/ RemoveSearch(a) \/ WipeSearch(a) \/ SetUpDatabase(a)
               \/ WaitForDatabase(a) \/ LookBeforeCut(a) \/ CutProxy(a)
      BY <3>7, <2>2
    <3> QED
      BY <1>8, <2>3, <2>4, <3>1, <3>2, <3>3, <3>4, <3>5, <3>6, <3>7 DEF Work
<1> QED
  BY <1>1, <1>2, <1>3, <1>4, <1>8, BeginKeeps DEF Next, World

(* NoOrphanStack: however many projects and commands there are and wherever *)
(* they are killed, containers have their project's directory, came up past *)
(* the lock of its deletion, or were left by the sweep of one that had no   *)
(* compose file (cmd_down).                                                 *)
THEOREM NoStackIsOrphaned == Spec => []NoOrphanStack
<1>1. Init => DInv /\ Known
  <2> SUFFICES ASSUME Init PROVE DInv /\ Known
    OBVIOUS
  <2> USE NoCommandIsOne
  <2>1. Shape
    BY DEF Init, Shape
  <2>2. cmd = [a \in Actors |-> NoCommand]
    BY DEF Init
  <2>3. LocksAreHeld
    BY <2>2 DEF LocksAreHeld, On
  <2>4. DeletionsGoOn
    BY <2>2 DEF DeletionsGoOn
  <2>5. DeletedIsGone
    BY <2>2 DEF DeletedIsGone, On
  <2>6. NoOrphanStack
    BY DEF Init, NoOrphanStack
  <2>7. Known
    BY DEF Init, Known
  <2> QED BY <2>1, <2>3, <2>4, <2>5, <2>6, <2>7 DEF DInv
<1>2. DInv /\ Known /\ [Next]_vars => DInv' /\ Known'
  <2> SUFFICES ASSUME DInv, Known, [Next]_vars PROVE DInv' /\ Known'
    OBVIOUS
  <2>1. CASE Next
    BY <2>1, StepKeeps, KnownKeeps
  <2>2. CASE UNCHANGED vars
    BY <2>2 DEF vars, own, Known, DInv, Shape, LocksAreHeld, DeletionsGoOn, DeletedIsGone,
                NoOrphanStack, On
  <2> QED BY <2>1, <2>2
<1>3. DInv => NoOrphanStack
  BY DEF DInv
<1> QED BY <1>1, <1>2, <1>3, PTL DEF Spec

-----------------------------------------------------------------------------
(* What commands take: from whom they may, and what they knew before.      *)

Sparing == {"diagnose", "remove", "wipe"}
Pruning == {"rm", "volume rm", "legacy rm"}

\* What k has looked up still holds: a prune removes nothing of a project it
\* found, a repair missed only running projects it could not know of.
Careful(k, running) ==
  /\ k.then \notin Sparing \cup Pruning
  /\ k.op = "prune" /\ k.step \in Pruning => k.on \cap k.found = {}
  /\ k.step \in Sparing /\ ~k.free => running \subseteq k.fresh

CInv == Shape /\ \A a \in Actors : Careful(cmd[a], Running)

\* Nothing starts.
Calm ==
  /\ stack' \in [Projects -> {"none", "stopped", "running"}]
  /\ holder' \in [Projects -> Actors \cup {Nobody}]
  /\ Running' \subseteq Running

\* It is calm when nothing is started and no lock changes hands,
LEMMA SameStackIsCalm ==
  ASSUME CInv, UNCHANGED <<stack, holder>>
  PROVE  Calm
BY DEF CInv, Shape, Calm, Running

\* also when something is stopped or removed.
LEMMA LessStackIsCalm ==
  ASSUME CInv, UNCHANGED holder,
         stack' \in [Projects -> {"none", "stopped", "running"}],
         \A p \in Projects : stack'[p] \in {"none", "stopped", stack[p]}
  PROVE  Calm
BY DEF CInv, Shape, Calm, Running

\* Who does nothing is careful.
LEMMA NoCommandIsCareful == \A R \in SUBSET Projects : Careful(NoCommand, R)
BY DEF Careful, NoCommand, Sparing, Pruning

\* A step keeps all careful if its own command is careful afterwards:
LEMMA OneIsCareful ==
  ASSUME CInv, Calm, NEW a \in Actors, NEW c \in AnyCommand, cmd' = [cmd EXCEPT ![a] = c],
         Careful(c, Running)
  PROVE  CInv'
<1>1. Shape'
  BY DEF CInv, Shape, Calm
<1>2. \A b \in Actors : Careful(cmd'[b], Running')
  BY DEF CInv, Shape, Calm, Careful
<1> QED BY <1>1, <1>2 DEF CInv

\* Steps that neither take nor repair, and those from one part of a repair to the next.
LEMMA GotoIsCareful ==
  ASSUME CInv, Calm, NEW a \in Actors, NEW step \in Steps, Goto(a, step),
         step \notin Pruning, step \in Sparing => cmd[a].step \in Sparing
  PROVE  CInv'
<1> DEFINE c == [cmd[a] EXCEPT !.step = step]
<1>0. cmd[a] \in AnyCommand /\ Careful(cmd[a], Running)
  BY DEF CInv, Shape
<1>1. c \in AnyCommand
  BY <1>0 DEF AnyCommand
<1>2. Careful(c, Running)
  BY <1>0 DEF AnyCommand, Careful
<1>3. cmd' = [cmd EXCEPT ![a] = c]
  BY DEF Goto
<1> HIDE DEF c
<1> QED BY <1>1, <1>2, <1>3, OneIsCareful

\* when the command ends,
LEMMA LeaveIsCareful ==
  ASSUME CInv, NEW a \in Actors, Leave(a),
         stack' \in [Projects -> {"none", "stopped", "running"}],
         \A p \in Projects : stack'[p] \in {"none", "stopped", stack[p]}
  PROVE  CInv'
<1>1. Calm
  BY DEF CInv, Shape, Calm, Running, Leave, Release
<1>2. Careful(NoCommand, Running)
  BY NoCommandIsCareful DEF Running
<1> QED BY <1>1, <1>2, NoCommandIsOne, OneIsCareful DEF Leave

\* when `prune` picks none of what it found in use,
LEMMA PickIsCareful ==
  ASSUME CInv, Calm, NEW a \in Actors, NEW step \in Pruning, NEW S \in SUBSET Projects,
         Pick(a, step, S), S \cap cmd[a].found = {}
  PROVE  CInv'
<1> DEFINE c == [cmd[a] EXCEPT !.step = step, !.on = S]
<1>0. cmd[a] \in AnyCommand /\ Careful(cmd[a], Running)
  BY DEF CInv, Shape
<1>1. c \in AnyCommand
  BY <1>0 DEF AnyCommand, Pruning, Steps
<1>2. Careful(c, Running)
  BY <1>0 DEF AnyCommand, Careful, Pruning, Sparing
<1>3. cmd' = [cmd EXCEPT ![a] = c]
  BY DEF Pick
<1> HIDE DEF c
<1> QED BY <1>1, <1>2, <1>3, OneIsCareful

\* A project comes up: who has looked for running ones has taken note of it.
LEMMA BringUpIsCareful ==
  ASSUME CInv, NEW p \in Projects, NEW locked \in BOOLEAN, BringUp(p, locked),
         holder' \in [Projects -> Actors \cup {Nobody}],
         \/ cmd' = Noticed(p, cmd)
         \/ \E a \in Actors : cmd' = [Noticed(p, cmd) EXCEPT ![a] = NoCommand]
  PROVE  CInv'
<1> DEFINE N == Noticed(p, cmd)
<1>1. N \in [Actors -> AnyCommand]
  BY NoticedIsTheSame DEF CInv
<1>2. Running' \subseteq Running \cup {p} /\ Running' \in SUBSET Projects
  BY DEF CInv, Shape, BringUp, Running
<1>3. ASSUME NEW b \in Actors
      PROVE  Careful(N[b], Running')
  <2>1. cmd[b] \in AnyCommand /\ Careful(cmd[b], Running)
    BY DEF CInv, Shape
  <2>2. N[b] = [cmd[b] EXCEPT !.fresh = IF cmd[b].step \in {"diagnose", "remove", "wipe"}
                                        THEN cmd[b].fresh \cup {p} ELSE cmd[b].fresh]
    BY DEF Noticed
  <2> HIDE DEF N
  <2> QED BY <1>2, <2>1, <2>2 DEF AnyCommand, Careful, Sparing
<1>4. stack' \in [Projects -> {"none", "stopped", "running"}]
  BY DEF CInv, Shape, BringUp
<1> HIDE DEF N
<1>5. CASE cmd' = N
  <2>1. Shape'
    BY <1>1, <1>4, <1>5 DEF Shape
  <2> QED BY <1>3, <1>5, <2>1 DEF CInv
<1>6. CASE \E a \in Actors : cmd' = [N EXCEPT ![a] = NoCommand]
  <2>1. Shape'
    BY <1>1, <1>4, <1>6, NoCommandIsOne DEF Shape
  <2>2. Careful(NoCommand, Running')
    BY <1>2, NoCommandIsCareful
  <2> QED BY <1>1, <1>3, <1>6, <2>1, <2>2 DEF CInv
<1> QED BY <1>5, <1>6 DEF N

\* when the command begins.
LEMMA BeginIsCareful ==
  ASSUME CInv, NEW a \in Actors, BeginCommand(a)
  PROVE  CInv'
<1> USE DEF own, shared
<1>0. cmd[a] \in AnyCommand /\ Shape
  BY DEF CInv, Shape
<1>1. ASSUME NEW op \in Ops, NEW S \in SUBSET Projects, NEW free \in BOOLEAN,
             NEW step \in {"load", "down", "look", "list"}, Begin(a, op, S, free, step),
             UNCHANGED stack, holder' \in [Projects -> Actors \cup {Nobody}]
      PROVE  CInv'
  <2> DEFINE c == [NoCommand EXCEPT !.op = op, !.on = S, !.free = free, !.step = step]
  <2>1. c \in AnyCommand
    BY BoundsAssumption DEF BoundsAssumption, NoCommand, AnyCommand, Steps
  <2>2. Careful(c, Running)
    BY DEF Careful, NoCommand, Sparing, Pruning
  <2>3. cmd' = [cmd EXCEPT ![a] = c]
    BY <1>1 DEF Begin
  <2>4. Calm
    BY <1>0, <1>1 DEF Shape, Calm, Running
  <2> HIDE DEF c
  <2> QED BY <2>1, <2>2, <2>3, <2>4, OneIsCareful
<1>2. ASSUME NEW p \in Projects, NEW force \in BOOLEAN, BeginRun(a, p, force)
      PROVE  CInv'
  <2>1. holder' \in [Projects -> Actors \cup {Nobody}]
    BY <1>0, <1>2 DEF BeginRun, Shape
  <2> QED BY <1>1, <1>2, <2>1 DEF BeginRun, Ops
<1>3. ASSUME NEW p \in Projects, NEW op \in {"down", "clear", "delete"}, NEW all \in BOOLEAN,
             BeginDown(a, p, op, all)
      PROVE  CInv'
  <2>1. holder' \in [Projects -> Actors \cup {Nobody}]
    BY <1>0, <1>3 DEF BeginDown, Shape
  <2> QED BY <1>1, <1>3, <2>1 DEF BeginDown, Ops
<1>4. CASE \/ \E p \in Projects : BeginStart(a, p)
           \/ \E force \in BOOLEAN : BeginSetup(a, force)
           \/ BeginList(a)
  <2>1. UNCHANGED stack /\ holder' \in [Projects -> Actors \cup {Nobody}]
    BY <1>0, <1>4 DEF BeginStart, BeginSetup, BeginList, Shape
  <2> QED BY <1>1, <1>4, <2>1 DEF BeginStart, BeginSetup, BeginList, Ops
<1>5. CASE \E quiet \in BOOLEAN : BeginPrune(a, quiet)
  <2>1. PICK quiet \in BOOLEAN : BeginPrune(a, quiet)
    BY <1>5
  <2> DEFINE c == [NoCommand EXCEPT !.op = "prune", !.free = quiet, !.step = "list",
                                    !.then = "containers"]
  <2>2. c \in AnyCommand
    BY BoundsAssumption DEF BoundsAssumption, NoCommand, AnyCommand, Steps, Ops
  <2>3. Careful(c, Running)
    BY DEF Careful, NoCommand, Sparing, Pruning
  <2>4. cmd' = [cmd EXCEPT ![a] = c]
    BY <2>1 DEF BeginPrune
  <2>5. Calm
    BY <2>1, SameStackIsCalm DEF BeginPrune
  <2> HIDE DEF c
  <2> QED BY <2>2, <2>3, <2>4, <2>5, OneIsCareful
<1> QED BY <1>2, <1>3, <1>4, <1>5 DEF BeginCommand

\* The looks for projects, and what they end in.
LEMMA LooksAreCareful ==
  ASSUME CInv, Known, NEW a \in Actors,
         \/ ListProjects(a) \/ SaveRegistry(a) \/ Scan(a)
         \/ \E p \in Projects : Register(a, p) \/ Unregister(a, p)
         \/ LookForVolumes(a) \/ LookForLegacy(a)
  PROVE  CInv'
<1> USE DEF own, shared
<1>0. cmd[a] \in AnyCommand /\ Careful(cmd[a], Running) /\ Shape
  BY DEF CInv, Shape
<1>1. Calm
  BY SameStackIsCalm
     DEF ListProjects, SaveRegistry, Scan, Register, Unregister, LookForVolumes, LookForLegacy
<1>2. CASE ListProjects(a)
  <2> DEFINE t == AfterList(a)
             step == IF Current THEN t ELSE "save"
             c == [cmd[a] EXCEPT !.step = step, !.then = t, !.found = Roots]
  <2>1. t \in Steps /\ t \notin Sparing \cup Pruning
    BY <1>0 DEF AfterList, AnyCommand, Steps, Sparing, Pruning, Careful
  <2>2. cmd' = [cmd EXCEPT ![a] = c]
    BY <1>2 DEF ListProjects
  <2> HIDE DEF t
  <2>3. step \in Steps /\ step \notin Sparing \cup Pruning
    BY <2>1 DEF Steps, Sparing, Pruning
  <2>4. Roots \in SUBSET Projects
    BY DEF Known, Roots
  <2> HIDE DEF step
  <2>5. c \in AnyCommand
    BY <1>0, <2>1, <2>3, <2>4 DEF AnyCommand
  <2>6. Careful(c, Running)
    BY <1>0, <2>1, <2>3 DEF AnyCommand, Careful
  <2> HIDE DEF c
  <2> QED BY <1>1, <2>2, <2>5, <2>6, OneIsCareful
<1>3. CASE SaveRegistry(a)
  <2>1. Goto(a, cmd[a].then) /\ cmd[a].then \in Steps
    BY <1>0, <1>3 DEF SaveRegistry, AnyCommand
  <2>2. cmd[a].then \notin Pruning \cup Sparing
    BY <1>0 DEF Careful
  <2> QED BY <1>1, <2>1, <2>2, GotoIsCareful
<1>4. CASE Scan(a)
  <2> DEFINE c == [cmd[a] EXCEPT
                     !.step = IF cmd[a].op = "run" THEN "diagnose" ELSE "remove",
                     !.fresh = Running \ cmd[a].found, !.found = {}]
  <2>1. c \in AnyCommand
    BY <1>0 DEF AnyCommand, Running, Steps
  <2>2. cmd[a].op # "prune" /\ (cmd[a].free \/ Running \cap cmd[a].found = {})
    BY <1>4 DEF Scan, At
  <2>3. Careful(c, Running)
    BY <1>0, <2>2 DEF AnyCommand, Careful
  <2>4. cmd' = [cmd EXCEPT ![a] = c]
    BY <1>4 DEF Scan, AfterScan
  <2> HIDE DEF c
  <2> QED BY <1>1, <2>1, <2>3, <2>4, OneIsCareful
<1>5. ASSUME NEW t \in {"search", "start", "rmtree"}, GotoSave(a, t)
      PROVE  CInv'
  <2> DEFINE c == [cmd[a] EXCEPT !.step = "save", !.then = t]
  <2>1. c \in AnyCommand
    BY <1>0 DEF AnyCommand, Steps
  <2>2. Careful(c, Running)
    BY <1>0 DEF AnyCommand, Careful, Sparing, Pruning
  <2>3. cmd' = [cmd EXCEPT ![a] = c]
    BY <1>5 DEF GotoSave
  <2> HIDE DEF c
  <2> QED BY <1>1, <2>1, <2>2, <2>3, OneIsCareful
<1>6. CASE \E p \in Projects : Register(a, p) \/ Unregister(a, p)
  <2>1. \/ \E t \in {"search", "start", "rmtree"} : GotoSave(a, t)
        \/ Goto(a, "rmtree")
    BY <1>6 DEF Register, Unregister
  <2> QED BY <1>1, <1>5, <2>1, GotoIsCareful DEF Steps, Sparing, Pruning
<1>7. CASE LookForVolumes(a) \/ LookForLegacy(a)
  <2>1. PICK t \in {"volumes", "legacy"} :
          cmd' = [cmd EXCEPT ![a] = [cmd[a] EXCEPT !.step = "list", !.then = t, !.on = {}]]
    BY <1>7 DEF LookForVolumes, LookForLegacy
  <2> DEFINE c == [cmd[a] EXCEPT !.step = "list", !.then = t, !.on = {}]
  <2>2. c \in AnyCommand
    BY <1>0 DEF AnyCommand, Steps
  <2>3. Careful(c, Running)
    BY <1>0 DEF AnyCommand, Careful, Sparing, Pruning
  <2>4. cmd' = [cmd EXCEPT ![a] = c]
    BY <2>1
  <2> HIDE DEF c
  <2> QED BY <1>1, <2>2, <2>3, <2>4, OneIsCareful
<1> QED BY <1>2, <1>3, <1>4, <1>6, <1>7

\* A prune picks from what it did not find.
LEMMA PrunesAreCareful ==
  ASSUME CInv, Known, NEW a \in Actors,
         \/ \E p \in Projects : RemoveOrphan(a, p) \/ RemoveVolume(a, p)
         \/ FindOrphans(a) \/ FindVolumes(a) \/ FindLegacy(a)
  PROVE  CInv'
<1> USE DEF own, shared
<1>0. cmd[a] \in AnyCommand /\ Careful(cmd[a], Running) /\ Shape
  BY DEF CInv, Shape
<1>1. CASE \E p \in Projects : RemoveOrphan(a, p)
  <2>1. PICK p \in Projects : RemoveOrphan(a, p)
    BY <1>1
  <2>2. Calm
    <3>1. /\ stack' \in [Projects -> {"none", "stopped", "running"}]
          /\ \A q \in Projects : stack'[q] \in {"none", "stopped", stack[q]}
          /\ UNCHANGED holder
      BY <1>0, <2>1 DEF RemoveOrphan, Shape
    <3> QED BY <3>1, LessStackIsCalm
  <2>3. Pick(a, "rm", cmd[a].on \ {p}) /\ cmd[a].op = "prune" /\ cmd[a].step = "rm"
    BY <2>1 DEF RemoveOrphan, At
  <2>4. cmd[a].on \ {p} \in SUBSET Projects /\ (cmd[a].on \ {p}) \cap cmd[a].found = {}
    BY <1>0, <2>3 DEF AnyCommand, Careful, Pruning
  <2> QED BY <2>2, <2>3, <2>4, PickIsCareful DEF Pruning
<1>2. CASE \E p \in Projects : RemoveVolume(a, p)
  <2>1. PICK p \in Projects : RemoveVolume(a, p)
    BY <1>2
  <2>2. Calm
    BY <2>1, SameStackIsCalm DEF RemoveVolume
  <2>3. /\ Pick(a, cmd[a].step, cmd[a].on \ {p})
        /\ cmd[a].op = "prune" /\ cmd[a].step \in Pruning
    BY <2>1 DEF RemoveVolume, At, Pruning
  <2>4. cmd[a].on \ {p} \in SUBSET Projects /\ (cmd[a].on \ {p}) \cap cmd[a].found = {}
    BY <1>0, <2>3 DEF AnyCommand, Careful
  <2> QED BY <2>2, <2>3, <2>4, PickIsCareful
<1>3. CASE FindOrphans(a) \/ FindVolumes(a) \/ FindLegacy(a)
  <2>1. Calm
    BY <1>3, SameStackIsCalm DEF FindOrphans, FindVolumes, FindLegacy
  <2>2. \E step \in Pruning, S \in SUBSET Projects :
          Pick(a, step, S) /\ S \cap cmd[a].found = {}
    <3>1. CASE FindOrphans(a)
      <4> DEFINE S == {p \in Projects : stack[p] # "none"} \ cmd[a].found
      <4>1. Pick(a, "rm", S)
        BY <3>1 DEF FindOrphans
      <4>2. S \in SUBSET Projects /\ S \cap cmd[a].found = {}
        OBVIOUS
      <4> HIDE DEF S
      <4> QED BY <4>1, <4>2 DEF Pruning
    <3>2. CASE FindVolumes(a)
      <4> DEFINE S == IF cmd[a].free THEN {} ELSE LabelledVolumes \ cmd[a].found
      <4>1. Pick(a, "volume rm", S)
        BY <3>2 DEF FindVolumes
      <4>2. S \in SUBSET Projects /\ S \cap cmd[a].found = {}
        BY DEF Known, LabelledVolumes
      <4> HIDE DEF S
      <4> QED BY <4>1, <4>2 DEF Pruning
    <3>3. CASE FindLegacy(a)
      <4> DEFINE S == (vols \ LabelledVolumes) \ cmd[a].found
      <4>1. Pick(a, "legacy rm", S)
        BY <3>3 DEF FindLegacy
      <4>2. S \in SUBSET Projects /\ S \cap cmd[a].found = {}
        BY DEF Known
      <4> HIDE DEF S
      <4> QED BY <4>1, <4>2 DEF Pruning
    <3> QED BY <1>3, <3>1, <3>2, <3>3
  <2> QED BY <2>1, <2>2, PickIsCareful
<1> QED BY <1>1, <1>2, <1>3

\* Every step keeps every command careful.
LEMMA CareIsKept ==
  ASSUME CInv, Known, Next
  PROVE  CInv'
<1> USE DEF own, shared
<1>0. stack \in [Projects -> {"none", "stopped", "running"}]
      /\ holder \in [Projects -> Actors \cup {Nobody}]
  BY DEF CInv, Shape
<1>1. CASE World
  <2>1. CASE \E p \in Projects : Recreate(p)
    BY <1>0, <2>1, BringUpIsCareful DEF Recreate
  <2>2. CASE \/ \E p \in Projects : Stop(p) \/ WriteIndex(p)
             \/ InfraDown \/ SwitchDatabase \/ ReadySearch
    <3>1. UNCHANGED <<cmd, holder>>
      BY <2>2 DEF Stop, WriteIndex, InfraDown, SwitchDatabase, ReadySearch
    <3>2. /\ stack' \in [Projects -> {"none", "stopped", "running"}]
          /\ \A p \in Projects : stack'[p] \in {"none", "stopped", stack[p]}
      BY <1>0, <2>2 DEF Stop, WriteIndex, InfraDown, SwitchDatabase, ReadySearch
    <3>3. Shape' /\ Running' \subseteq Running
      BY <1>0, <3>1, <3>2 DEF CInv, Shape, Running
    <3> QED BY <3>1, <3>3 DEF CInv, Careful
  <2> QED BY <1>1, <2>1, <2>2 DEF World
<1>2. ASSUME NEW a \in Actors, BeginCommand(a)
      PROVE  CInv'
  BY <1>2, BeginIsCareful
<1>3. ASSUME NEW a \in Actors, Quit(a)
      PROVE  CInv'
  BY <1>0, <1>3, LeaveIsCareful DEF Quit
<1>4. ASSUME NEW a \in Actors, Work(a)
      PROVE  CInv'
  <2>1. CASE \/ ListProjects(a) \/ SaveRegistry(a) \/ Scan(a)
             \/ \E p \in Projects : Register(a, p) \/ Unregister(a, p)
             \/ LookForVolumes(a) \/ LookForLegacy(a)
    BY <2>1, LooksAreCareful
  <2>2. CASE \/ \E p \in Projects : RemoveOrphan(a, p) \/ RemoveVolume(a, p)
             \/ FindOrphans(a) \/ FindVolumes(a) \/ FindLegacy(a)
    BY <2>2, PrunesAreCareful
  <2>3. CASE \E p \in Projects : Boot(a, p) \/ Start(a, p)
    <3>1. holder' \in [Projects -> Actors \cup {Nobody}]
      BY <1>0, <2>3 DEF Boot, Start, Release
    <3> QED BY <2>3, <3>1, BringUpIsCareful DEF Boot, Start
  <2>4. CASE \E p \in Projects : \/ ComposeDown(a, p) \/ MissComposeFile(a, p)
                                \/ Sweep(a, p) \/ SweepVolumes(a, p)
    <3>1. PICK p \in Projects : \/ ComposeDown(a, p) \/ MissComposeFile(a, p)
                               \/ Sweep(a, p) \/ SweepVolumes(a, p)
      BY <2>4
    <3>2. /\ stack' \in [Projects -> {"none", "stopped", "running"}]
          /\ \A q \in Projects : stack'[q] \in {"none", "stopped", stack[q]}
      BY <1>0, <3>1 DEF ComposeDown, MissComposeFile, Sweep, SweepVolumes
    <3>3. \/ Leave(a)
          \/ /\ UNCHANGED holder
             /\ \E step \in {"sweep", "sweep only", "sweep volumes", "drop"} : Goto(a, step)
      BY <3>1 DEF ComposeDown, MissComposeFile, Sweep, SweepVolumes
    <3> QED
      BY <3>2, <3>3, LeaveIsCareful, LessStackIsCalm, GotoIsCareful
         DEF Steps, Sparing, Pruning
  <2>5. CASE \E p \in Projects : RemoveDirectory(a, p) \/ CheckRoom(a, p)
    <3>1. UNCHANGED stack
          /\ (Leave(a) \/ (UNCHANGED holder /\ Goto(a, "db")))
      BY <2>5 DEF RemoveDirectory, CheckRoom
    <3> QED
      BY <1>0, <3>1, LeaveIsCareful, SameStackIsCalm, GotoIsCareful DEF Steps, Sparing, Pruning
  <2>6. CASE AssertUsable(a) \/ UpProxy(a)
    <3>1. /\ UNCHANGED stack
          /\ \/ Leave(a)
             \/ UNCHANGED holder /\ \E step \in {"room", "schema", "boot"} : Goto(a, step)
      BY <2>6 DEF AssertUsable, InstallPlugins, UpProxy
    <3> QED
      BY <1>0, <3>1, LeaveIsCareful, SameStackIsCalm, GotoIsCareful DEF Steps, Sparing, Pruning
  <2>7. CASE Unlock(a)
    <3>1. Calm
      BY <1>0, <2>7 DEF Unlock, Release, Calm, Running
    <3> QED BY <2>7, <3>1, GotoIsCareful DEF Unlock, Steps, Sparing, Pruning
  <2>8. CASE Diagnose(a) \/ RemoveSearch(a)
    <3>1. /\ UNCHANGED <<stack, holder>> /\ cmd[a].step \in Sparing
          /\ \E step \in Sparing : Goto(a, step)
      BY <2>8 DEF Diagnose, RemoveSearch, At, Sparing
    <3> QED BY <3>1, SameStackIsCalm, GotoIsCareful DEF Steps, Sparing, Pruning
  <2>9. CASE WipeSearch(a)
    <3> DEFINE c == [cmd[a] EXCEPT !.step = "search", !.depth = cmd[a].depth + 1]
    <3>0. cmd[a] \in AnyCommand /\ Careful(cmd[a], Running)
      BY DEF CInv, Shape
    <3>1. c \in AnyCommand
      <4>1. cmd[a].depth + 1 \in Nat
        BY <3>0 DEF AnyCommand
      <4> QED BY <3>0, <4>1 DEF AnyCommand, Steps
    <3>2. Careful(c, Running)
      BY <3>0 DEF AnyCommand, Careful, Sparing, Pruning
    <3>3. cmd' = [cmd EXCEPT ![a] = c]
      BY <2>9 DEF WipeSearch
    <3>4. Calm
      BY <2>9, SameStackIsCalm DEF WipeSearch
    <3> HIDE DEF c
    <3> QED BY <3>1, <3>2, <3>3, <3>4, OneIsCareful
  <2>10. CASE \/ \E p \in Projects : CreateDatabase(a, p) \/ DropDatabase(a, p)
              \/ UseSearch(a) \/ StartSearch(a) \/ CreateSearch(a) \/ SearchIsReady(a)
              \/ SearchIsNotReady(a) \/ SetUpDatabase(a) \/ WaitForDatabase(a)
              \/ LookBeforeCut(a) \/ CutProxy(a)
    <3>1. UNCHANGED <<stack, holder>>
      BY <2>10 DEF CreateDatabase, DropDatabase, UseSearch, StartSearch, CreateSearch,
             SearchIsReady, SearchIsNotReady, SetUpDatabase, WaitForDatabase,
             LookBeforeCut, CutProxy
    <3>2. \E step \in {"boot", "unlock", "room", "db", "waiting", "usable", "list",
                       "db wait", "proxy"} : Goto(a, step)
      BY <2>10 DEF CreateDatabase, DropDatabase, UseSearch, StartSearch, CreateSearch,
             SearchIsReady, SearchIsNotReady, SetUpDatabase, WaitForDatabase,
             LookBeforeCut, CutProxy
    <3> QED BY <3>1, <3>2, SameStackIsCalm, GotoIsCareful DEF Steps, Sparing, Pruning
  <2> QED
    BY <1>4, <2>1, <2>2, <2>3, <2>4, <2>5, <2>6, <2>7, <2>8, <2>9, <2>10 DEF Work
<1> QED BY <1>1, <1>2, <1>3, <1>4 DEF Next

LEMMA EveryoneIsCareful == Spec => [](CInv /\ Known)
<1>1. Init => CInv /\ Known
  <2> SUFFICES ASSUME Init PROVE CInv /\ Known
    OBVIOUS
  <2>1. Shape
    BY NoCommandIsOne DEF Init, Shape
  <2>2. cmd = [a \in Actors |-> NoCommand] /\ Known
    BY DEF Init, Known
  <2>3. Running \in SUBSET Projects
    BY DEF Running
  <2> QED BY <2>1, <2>2, <2>3, NoCommandIsCareful DEF CInv
<1>2. CInv /\ Known /\ [Next]_vars => CInv' /\ Known'
  <2> SUFFICES ASSUME CInv, Known, [Next]_vars PROVE CInv' /\ Known'
    OBVIOUS
  <2>1. CASE UNCHANGED vars
    BY <2>1 DEF vars, own, Known, CInv, Shape, Careful, Running
  <2> QED BY <2>1, CareIsKept, KnownKeeps
<1> QED BY <1>1, <1>2, PTL DEF Spec

(* SharedServicesSpareTheRunning: whoever starts, stops or deletes whatever *)
(* in between, a command without --force takes the search index or the      *)
(* proxy from no running project that it could have known of                *)
(* (setup_global_search, setup_infrastructure).                             *)
THEOREM SharedServicesAreSpared == Spec => SharedServicesSpareTheRunning
<1>1. CInv =>
        \A a \in Actors :
          /\ cmd[a].step \in {"remove", "wipe"} /\ cmd'[a].step # cmd[a].step
          /\ index' # index \/ proxy' # proxy
          /\ ~cmd[a].free
          => Running \subseteq cmd[a].fresh
  BY DEF CInv, Careful, Sparing
<1> QED BY <1>1, EveryoneIsCareful, PTL DEF SharedServicesSpareTheRunning

\* Containers, volumes and databases are all there are still.
Kept ==
  /\ vols \subseteq vols' /\ schemas \subseteq schemas'
  /\ \A q \in Projects : stack[q] # "none" => stack'[q] # "none"

\* What may have been taken from q, and by whom.
Confined(q) ==
  /\ (q \in vols /\ q \notin vols') \/ (stack[q] # "none" /\ stack'[q] = "none")
       => \E a \in Actors :
            \/ /\ cmd[a].op \in {"down", "clear", "delete"}
               /\ On(a, q) \/ (kin = "dashed" /\ On(a, Older))
               /\ q \in vols /\ q \notin vols' => Clears(a)
            \/ cmd[a].op = "prune" /\ q \notin cmd[a].found
  /\ DatabaseOf(q) \in schemas /\ DatabaseOf(q) \notin schemas'
       => \E a \in Actors : On(a, q) \/ kin = "same database"

\* What is left alone is confined.
LEMMA KeptIsConfined ==
  ASSUME Kept, NEW q \in Projects
  PROVE  Confined(q)
BY DEF Kept, Confined

\* Only the steps that delete, sweep, drop or prune take anything.
LEMMA TakersAreFew ==
  ASSUME CInv, Next
  PROVE  \/ Kept
         \/ \E a \in Actors, p \in Projects :
              \/ ComposeDown(a, p) \/ Sweep(a, p) \/ SweepVolumes(a, p) \/ DropDatabase(a, p)
              \/ RemoveOrphan(a, p) \/ RemoveVolume(a, p)
<1> USE DEF own, shared
<1>0. stack \in [Projects -> {"none", "stopped", "running"}]
  BY DEF CInv, Shape
<1>1. UNCHANGED <<stack, vols, schemas>> => Kept
  BY DEF Kept
<1>2. CASE World
  <2>1. CASE \E p \in Projects : Recreate(p) \/ Stop(p)
    BY <1>0, <2>1 DEF Recreate, Stop, BringUp, Kept
  <2>2. CASE \/ \E p \in Projects : WriteIndex(p)
             \/ InfraDown \/ SwitchDatabase \/ ReadySearch
    BY <1>1, <2>2 DEF WriteIndex, InfraDown, SwitchDatabase, ReadySearch
  <2> QED BY <1>2, <2>1, <2>2 DEF World
<1>3. ASSUME NEW a \in Actors, BeginCommand(a) \/ Quit(a)
      PROVE  Kept
  BY <1>1, <1>3 DEF BeginCommand, BeginRun, BeginStart, BeginDown, BeginSetup, BeginList,
                    BeginPrune, Quit
<1>4. ASSUME NEW a \in Actors, Work(a),
             ~\E p \in Projects :
               \/ ComposeDown(a, p) \/ Sweep(a, p) \/ SweepVolumes(a, p) \/ DropDatabase(a, p)
               \/ RemoveOrphan(a, p) \/ RemoveVolume(a, p)
      PROVE  Kept
  <2>1. CASE \E p \in Projects : CreateDatabase(a, p) \/ Boot(a, p) \/ Start(a, p)
    BY <1>0, <2>1 DEF CreateDatabase, Boot, Start, BringUp, Kept
  <2>2. CASE \/ \E p \in Projects : \/ Register(a, p) \/ Unregister(a, p)
                                    \/ RemoveDirectory(a, p) \/ CheckRoom(a, p)
             \/ \E p \in Projects : MissComposeFile(a, p)
             \/ ListProjects(a) \/ SaveRegistry(a) \/ Unlock(a)
    BY <1>1, <2>2 DEF MissComposeFile, Register, Unregister, RemoveDirectory, CheckRoom, ListProjects,
                      SaveRegistry, Unlock
  <2>3. CASE \/ UseSearch(a) \/ StartSearch(a) \/ CreateSearch(a) \/ SearchIsReady(a)
             \/ AssertUsable(a) \/ SearchIsNotReady(a) \/ Scan(a) \/ Diagnose(a)
             \/ RemoveSearch(a) \/ WipeSearch(a) \/ SetUpDatabase(a) \/ WaitForDatabase(a)
             \/ UpProxy(a) \/ LookBeforeCut(a) \/ CutProxy(a)
             \/ FindOrphans(a) \/ LookForVolumes(a) \/ FindVolumes(a)
             \/ LookForLegacy(a) \/ FindLegacy(a)
    BY <1>1, <2>3
       DEF UseSearch, StartSearch, CreateSearch, SearchIsReady, AssertUsable,
           SearchIsNotReady, Scan, Diagnose, RemoveSearch, WipeSearch, SetUpDatabase,
           WaitForDatabase, UpProxy, LookBeforeCut, CutProxy, FindOrphans,
           LookForVolumes, FindVolumes, LookForLegacy, FindLegacy
  <2> QED BY <1>4, <2>1, <2>2, <2>3 DEF Work
<1> QED BY <1>2, <1>3, <1>4 DEF Next

\* Those steps take what their own command is about, or what shares with it.
LEMMA TakersAreConfined ==
  ASSUME CInv, NEW a \in Actors, NEW p \in Projects, NEW q \in Projects,
         \/ ComposeDown(a, p) \/ Sweep(a, p) \/ SweepVolumes(a, p) \/ DropDatabase(a, p)
         \/ RemoveOrphan(a, p) \/ RemoveVolume(a, p)
  PROVE  Confined(q)
<1>0. /\ stack \in [Projects -> {"none", "stopped", "running"}]
      /\ cmd[a] \in AnyCommand /\ Careful(cmd[a], Running)
  BY DEF CInv, Shape
<1>1. CASE ComposeDown(a, p)
  <2>1. /\ UNCHANGED schemas /\ cmd[a].op \in {"down", "clear", "delete"} /\ On(a, p)
        /\ vols \ {p} \subseteq vols' /\ (q # p => stack'[q] = stack[q])
        /\ ~Clears(a) => vols' = vols
    BY <1>0, <1>1 DEF ComposeDown, At
  <2> QED BY <2>1 DEF Confined
<1>2. CASE Sweep(a, p) \/ SweepVolumes(a, p)
  <2>1. /\ UNCHANGED schemas /\ cmd[a].op \in {"down", "clear", "delete"} /\ On(a, p)
        /\ \E S \in SweptUp(p) :
             vols \ S \subseteq vols' /\ (q \notin S => stack'[q] = stack[q])
        /\ ~Clears(a) => vols' = vols
    BY <1>0, <1>2 DEF Sweep, SweepVolumes, At, Clears
  <2>2. \A S \in SweptUp(p) : q \in S => q = p \/ (kin = "dashed" /\ p = Older)
    BY DEF SweptUp, Swept
  <2> QED BY <2>1, <2>2 DEF Confined
<1>3. CASE DropDatabase(a, p)
  <2>1. /\ UNCHANGED <<stack, vols>> /\ On(a, p)
        /\ schemas' = schemas \ {DatabaseOf(p)} \/ schemas' = schemas
    BY <1>3 DEF DropDatabase
  <2>2. DatabaseOf(q) = DatabaseOf(p) => q = p \/ kin = "same database"
    BY DEF DatabaseOf
  <2> QED BY <2>1, <2>2 DEF Confined
<1>4. CASE RemoveOrphan(a, p) \/ RemoveVolume(a, p)
  <2>1. /\ UNCHANGED schemas /\ cmd[a].op = "prune" /\ cmd[a].step \in Pruning
        /\ p \in cmd[a].on
        /\ vols \ {p} \subseteq vols' /\ (q # p => stack'[q] = stack[q])
    BY <1>0, <1>4 DEF RemoveOrphan, RemoveVolume, At, Pruning
  <2>2. p \notin cmd[a].found
    BY <1>0, <2>1 DEF Careful
  <2> QED BY <2>1, <2>2 DEF Confined
<1> QED BY <1>1, <1>2, <1>3, <1>4

(* DeletionIsConfined: with any number of projects and commands, at any     *)
(* crash, `ldm down` takes containers, volumes and databases of its own     *)
(* project only (or of one whose name is alike), and `ldm prune` nothing of *)
(* a project that it found when it looked (cmd_down, run_prune).            *)
THEOREM DeletionsAreConfined == Spec => DeletionIsConfined
<1>1. CInv /\ [Next]_vars =>
        \A q \in Projects :
          /\ (q \in vols /\ q \notin vols') \/ (stack[q] # "none" /\ stack'[q] = "none")
               => \E a \in Actors :
                    \/ /\ cmd[a].op \in {"down", "clear", "delete"}
                       /\ On(a, q) \/ (kin = "dashed" /\ On(a, Older))
                       /\ q \in vols /\ q \notin vols' => Clears(a)
                    \/ cmd[a].op = "prune" /\ q \notin cmd[a].found
          /\ DatabaseOf(q) \in schemas /\ DatabaseOf(q) \notin schemas'
               => \E a \in Actors : On(a, q) \/ kin = "same database"
  <2> SUFFICES ASSUME CInv, [Next]_vars, NEW q \in Projects PROVE Confined(q)
    BY DEF Confined
  <2>1. CASE UNCHANGED vars
    <3>1. Kept
      BY <2>1 DEF vars, own, Kept
    <3> QED BY <3>1, KeptIsConfined
  <2> QED BY <2>1, TakersAreFew, TakersAreConfined, KeptIsConfined
<1> QED BY <1>1, EveryoneIsCareful, PTL DEF Spec, DeletionIsConfined
=============================================================================
