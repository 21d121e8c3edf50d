---------------------------- MODULE ServingProofs ----------------------------
(***************************************************************************)
(* For any projects, people and numbers of commands: no initializer is     *)
(* lost, ready means served, a reindex is not lost, a portal that a run    *)
(* has started is patched; the file of a usual project holds together; and *)
(* the calculated heap is one a JVM accepts.                               *)
(***************************************************************************)
EXTENDS Serving, WellFoundedInduction, TLAPS

\* Records of three kinds, whatever is in their fields.
CommandFields == {"kind", "pc", "mem", "todo", "item", "asked", "noWait", "booted",
                  "unread", "served", "stale", "outcome"}

IsCommand(k) == k = [f \in CommandFields |-> k[f]]

IsBox(b) == b = [f \in {"state", "reindex", "jars", "loaded", "log"} |-> b[f]]

IsMeta(m) == m = [f \in {"reindex", "ports"} |-> m[f]]

\* What a command has in memory, step by step.
Remembers(k) ==
  /\ k.kind \in {"run", "wait"} /\ k.pc # "idle" => IsMeta(k.mem)
  /\ k.pc \in {"store", "check", "containers"} => k.kind = "run"
  /\ k.pc \in {"copy", "start", "rest"} => k.kind \in {"run", "recreate"}
  /\ k.pc \in {"poll", "reindex", "deploy", "deploying", "probe"} => k.kind \in {"run", "wait"}
  /\ k.pc = "ports" => IsMeta(k.item)

Shapes ==
  /\ c \in Configs
  /\ IsMeta(meta)
  /\ IsBox(box)
  /\ places = [i \in Initializers |-> places[i]]
  /\ cmd = [a \in Actors |-> cmd[a]]
  /\ \A a \in Actors : IsCommand(cmd[a]) /\ Remembers(cmd[a])

\* The memory that a run needs for its file and its wait.
Prepares == {"scan", "ports", "check", "containers", "copy", "start", "rest", "poll", "reindex"}

Moves == {"unpack", "withdraw", "clear", "move", "leave"}

\* Who waits has read nothing that was not there: whatever else is going on.
Waits(a) ==
  LET k == cmd[a] IN
  /\ k.pc # "idle" => k.outcome = "none"
  /\ k.pc = "poll" => /\ k.unread => k.served \/ k.stale
                      /\ box.state = "up" => k.served
  /\ k.pc \in {"reindex", "deploy", "deploying", "probe"} => k.served \/ k.stale
  /\ k.pc \in Moves /\ k.kind \in {"run", "wait"} => k.served \/ k.stale
  /\ k.outcome = "ready" => k.served \/ k.stale

\* The reindex, from the metadata through the file into the container.
Reindexes(a) ==
  LET k == cmd[a] IN
  /\ k.pc = "store" => (meta.reindex \/ k.asked => k.mem.reindex)
  /\ k.pc \in Prepares /\ k.kind = "run" => k.mem.reindex = meta.reindex
  /\ k.pc = "ports" => k.item.reindex = meta.reindex
  /\ k.pc \in {"check", "containers"} => file.reindex = k.mem.reindex
  /\ k.pc \in {"copy", "start"} /\ k.kind = "run" => box.reindex = k.mem.reindex
  /\ k.pc \in {"rest", "poll", "reindex"} /\ k.kind = "run" /\ k.booted /\ ~unserved => ~due
  /\ k.pc \in {"poll", "reindex", "deploy"} /\ k.kind = "wait" => ~k.booted

\* The patches, from the project into the running portal.
Patches(a) ==
  LET k == cmd[a] IN
  /\ k.pc = "copy" => k.todo \cup box.jars = c.patches
  /\ k.pc = "start" => box.jars = c.patches
  /\ k.pc \in {"rest", "poll", "reindex", "deploy"} /\ k.booted => box.loaded = c.patches

Staged == {i \in Initializers : "staged" \in places[i]}

\* What moves is at one end of its move.
Carries(a) ==
  LET k == cmd[a] IN
  /\ k.pc \in Moves => /\ k.item.what \in Initializers
                       /\ k.item.from # k.item.to
                       /\ k.todo \subseteq Staged \ {k.item.what}
  /\ k.pc \in {"unpack", "withdraw"} => k.item.from = "root"
  /\ k.pc \in {"withdraw", "clear", "move"} => k.item.from \in places[k.item.what]
  /\ k.pc = "leave" => k.item.to \in places[k.item.what]
  /\ k.pc = "deploying" => k.todo \subseteq Staged

InOrder(a) == Reindexes(a) /\ Patches(a) /\ Carries(a)

Alone == \A a, b \in Actors : Active(a) /\ Active(b) => a = b

Quiet ==
  /\ Alone
  /\ box.jars \subseteq c.patches
  /\ due => meta.reindex \/ unserved
  /\ \A a \in Actors : InOrder(a)

IInv ==
  /\ Shapes
  /\ \A a \in Actors : Waits(a)
  /\ ~overlapped => Quiet

----------------------------------------------------------------------------
(* Records                                                                 *)

LEMMA IdleFields ==
  /\ IsCommand(Idle)
  /\ Idle.kind = "none" /\ Idle.pc = "idle" /\ Idle.outcome = "none"
  /\ Idle.todo = {} /\ Idle.booted = FALSE /\ Idle.served = FALSE /\ Idle.stale = FALSE
  BY DEF Idle, IsCommand, CommandFields

LEMMA PcFields ==
  ASSUME NEW k, IsCommand(k), NEW pc
  PROVE  LET n == [k EXCEPT !.pc = pc] IN
         /\ IsCommand(n) /\ n.pc = pc
         /\ n.kind = k.kind /\ n.mem = k.mem /\ n.todo = k.todo /\ n.item = k.item
         /\ n.asked = k.asked /\ n.noWait = k.noWait /\ n.booted = k.booted
         /\ n.unread = k.unread /\ n.served = k.served /\ n.stale = k.stale
         /\ n.outcome = k.outcome
  BY DEF IsCommand, CommandFields

LEMMA CommandSet ==
  ASSUME Shapes, NEW a \in Actors, NEW r, IsCommand(r), Remembers(r),
         cmd' = [cmd EXCEPT ![a] = r]
  PROVE  /\ cmd' = [b \in Actors |-> cmd'[b]]
         /\ \A b \in Actors : IsCommand(cmd'[b]) /\ Remembers(cmd'[b])
         /\ cmd'[a] = r
         /\ \A b \in Actors \ {a} : cmd'[b] = cmd[b]
<1>1. /\ cmd = [b \in Actors |-> cmd[b]]
      /\ \A b \in Actors : IsCommand(cmd[b]) /\ Remembers(cmd[b])
  BY DEF Shapes
<1>2. cmd'[a] = r /\ \A b \in Actors \ {a} : cmd'[b] = cmd[b] BY <1>1
<1>3. cmd' = [b \in Actors |-> cmd'[b]] BY <1>1
<1> QED BY <1>1, <1>2, <1>3

LEMMA GotoFields ==
  ASSUME Shapes, NEW a \in Actors, NEW pc, Goto(a, pc)
  PROVE  LET k == cmd[a]
             n == cmd'[a]
         IN  /\ cmd' = [cmd EXCEPT ![a] = n]
             /\ IsCommand(n) /\ n.pc = pc
             /\ n.kind = k.kind /\ n.mem = k.mem /\ n.todo = k.todo /\ n.item = k.item
             /\ n.asked = k.asked /\ n.noWait = k.noWait /\ n.booted = k.booted
             /\ n.unread = k.unread /\ n.served = k.served /\ n.stale = k.stale
             /\ n.outcome = k.outcome
<1> DEFINE k == cmd[a]
           n == [k EXCEPT !.pc = pc]
<1>1. IsCommand(k) BY DEF Shapes
<1>2. cmd' = [cmd EXCEPT ![a] = n] BY DEF Goto
<1>3. cmd'[a] = n BY <1>2 DEF Shapes
<1>4. /\ IsCommand(n) /\ n.pc = pc
      /\ n.kind = k.kind /\ n.mem = k.mem /\ n.todo = k.todo /\ n.item = k.item
      /\ n.asked = k.asked /\ n.noWait = k.noWait /\ n.booted = k.booted
      /\ n.unread = k.unread /\ n.served = k.served /\ n.stale = k.stale
      /\ n.outcome = k.outcome
  BY <1>1, PcFields
<1> HIDE DEF n, k
<1> QED BY <1>2, <1>3, <1>4 DEF k

\* A step of one command: the others are as they were, and there are none as
\* long as no two overlapped.
LEMMA OneStep ==
  ASSUME IInv, NEW a \in Actors, NEW r, IsCommand(r), Remembers(r), cmd' = [cmd EXCEPT ![a] = r],
         c' = c, IsMeta(meta'), IsBox(box'), places' = [i \in Initializers |-> places'[i]],
         box'.state = "up" => box.state = "up",
         Waits(a)',
         \/ overlapped' = overlapped /\ Active(a)
         \/ overlapped' = (overlapped \/ \E b \in Actors : Active(b)),
         Quiet /\ ~overlapped' =>
           /\ box'.jars \subseteq c.patches
           /\ due' => meta'.reindex \/ unserved'
           /\ InOrder(a)'
  PROVE  IInv'
<1>1. /\ Shapes /\ \A b \in Actors : Waits(b)
      /\ ~overlapped => Quiet
  BY DEF IInv
<1>2. /\ cmd' = [b \in Actors |-> cmd'[b]]
      /\ \A b \in Actors : IsCommand(cmd'[b]) /\ Remembers(cmd'[b])
      /\ cmd'[a] = r
      /\ \A b \in Actors \ {a} : cmd'[b] = cmd[b]
  BY <1>1, CommandSet
<1>3. Shapes' BY <1>1, <1>2 DEF Shapes, IsMeta, IsBox, IsCommand, Remembers
<1>4. ASSUME NEW b \in Actors PROVE Waits(b)'
  <2>1. CASE b = a BY <2>1
  <2>2. CASE b # a
    <3>1. cmd'[b] = cmd[b] /\ Waits(b) BY <1>1, <1>2, <2>2
    <3> QED BY <3>1 DEF Waits
  <2> QED BY <2>1, <2>2
<1>5. ASSUME ~overlapped' PROVE Quiet'
  <2>0. ~overlapped
    <3>1. CASE overlapped' = overlapped BY <1>5, <3>1
    <3>2. CASE overlapped' = (overlapped \/ \E b \in Actors : Active(b)) BY <1>5, <3>2
    <3> QED BY <3>1, <3>2
  <2>1. ~overlapped /\ Quiet BY <1>1, <2>0
  <2>2. ASSUME NEW b \in Actors \ {a} PROVE cmd'[b].pc = "idle"
    <3>1. ~Active(b) BY <1>5, <2>1, <2>2 DEF Quiet, Alone
    <3> QED BY <3>1, <1>2 DEF Active, At
  <2>3. Alone' BY <2>2 DEF Alone, Active, At
  <2>4. ASSUME NEW b \in Actors \ {a} PROVE InOrder(b)'
    <3>1. cmd'[b].pc = "idle" BY <2>2
    <3>2. Reindexes(b)' BY <3>1 DEF Reindexes, Prepares
    <3>3. Patches(b)' BY <3>1 DEF Patches
    <3>4. Carries(b)' BY <3>1 DEF Carries, Moves
    <3> QED BY <3>2, <3>3, <3>4 DEF InOrder
  <2>5. /\ box'.jars \subseteq c'.patches
        /\ due' => meta'.reindex \/ unserved'
        /\ InOrder(a)'
    BY <1>5, <2>1
  <2> QED BY <2>3, <2>4, <2>5 DEF Quiet
<1> QED BY <1>3, <1>4, <1>5 DEF IInv

LEMMA EndFields ==
  ASSUME Shapes, NEW a \in Actors, NEW outcome, End(a, outcome)
  PROVE  LET n == cmd'[a]
         IN  /\ cmd' = [cmd EXCEPT ![a] = n]
             /\ IsCommand(n) /\ Remembers(n) /\ n.pc = "idle" /\ n.outcome = outcome
             /\ n.served = cmd[a].served /\ n.stale = cmd[a].stale
<1> DEFINE n == [Idle EXCEPT !.kind = cmd[a].kind, !.outcome = outcome,
                             !.served = cmd[a].served, !.stale = cmd[a].stale]
<1>1. IsCommand(n) /\ n.pc = "idle" /\ n.outcome = outcome
      /\ n.served = cmd[a].served /\ n.stale = cmd[a].stale
  BY DEF Idle, IsCommand, CommandFields
<1>2. cmd' = [cmd EXCEPT ![a] = n] BY DEF End
<1>3. cmd'[a] = n BY <1>2 DEF Shapes
<1>4. Remembers(n) BY <1>1 DEF Remembers
<1> QED BY <1>1, <1>2, <1>3, <1>4

\* A command that ends leaves nothing to be in order about.
LEMMA InvEnd ==
  ASSUME IInv, NEW a \in Actors, Active(a), NEW outcome, End(a, outcome),
         outcome = "ready" => cmd[a].served \/ cmd[a].stale,
         IsMeta(meta'),
         Quiet => (due' => meta'.reindex \/ unserved'),
         UNCHANGED <<c, box, places, overlapped>>
  PROVE  IInv'
<1>1. Shapes BY DEF IInv
<1>2. /\ cmd' = [cmd EXCEPT ![a] = cmd'[a]]
      /\ IsCommand(cmd'[a]) /\ Remembers(cmd'[a]) /\ cmd'[a].pc = "idle" /\ cmd'[a].outcome = outcome
      /\ cmd'[a].served = cmd[a].served /\ cmd'[a].stale = cmd[a].stale
  BY <1>1, EndFields
<1>3. Waits(a)' BY <1>2 DEF Waits, Moves
<1>4. InOrder(a)'
  <2>1. Reindexes(a)' BY <1>2 DEF Reindexes, Prepares
  <2>2. Patches(a)' BY <1>2 DEF Patches
  <2>3. Carries(a)' BY <1>2 DEF Carries, Moves
  <2> QED BY <2>1, <2>2, <2>3 DEF InOrder
<1>5. IsBox(box') /\ places' = [i \in Initializers |-> places'[i]] BY <1>1 DEF Shapes
<1>6. Quiet => box'.jars \subseteq c.patches BY DEF Quiet
<1> HIDE DEF IInv
<1> QED BY <1>2, <1>3, <1>4, <1>5, <1>6, OneStep
----------------------------------------------------------------------------
(* The beginning of commands                                               *)

LEMMA BeginFields ==
  ASSUME Shapes, NEW a \in Actors, NEW r, Begin(a, r)
  PROVE  /\ ~Active(a)
         /\ overlapped' = (overlapped \/ \E b \in Actors : Active(b))
         /\ cmd' = [cmd EXCEPT ![a] = r]
         /\ cmd'[a] = r
<1>1. cmd = [b \in Actors |-> cmd[b]] BY DEF Shapes
<1> QED BY <1>1 DEF Begin, Counted

\* A new command that has nothing of the project in hand.
LEMMA InvBegin ==
  ASSUME IInv, NEW a \in Actors, NEW r, IsCommand(r), Remembers(r), Begin(a, r),
         UNCHANGED <<c, meta, box, places, due, unserved>>,
         Waits(a)', Quiet => InOrder(a)'
  PROVE  IInv'
<1>1. Shapes BY DEF IInv
<1>2. /\ overlapped' = (overlapped \/ \E b \in Actors : Active(b))
      /\ cmd' = [cmd EXCEPT ![a] = r]
  BY <1>1, BeginFields
<1>3. /\ c' = c /\ IsMeta(meta') /\ IsBox(box')
      /\ places' = [i \in Initializers |-> places'[i]]
      /\ box' = box
  BY <1>1 DEF Shapes
<1>4. Quiet => /\ box'.jars \subseteq c.patches
               /\ due' => meta'.reindex \/ unserved'
  BY DEF Quiet
<1> HIDE DEF IInv
<1> QED BY <1>2, <1>3, <1>4, OneStep

LEMMA InvRun ==
  ASSUME IInv, NEW a \in Actors, Run(a)
  PROVE  IInv'
<1>1. PICK reindex \in BOOLEAN, noWait \in BOOLEAN :
        Begin(a, [Idle EXCEPT !.kind = "run", !.pc = "store", !.noWait = noWait,
                              !.asked = reindex, !.mem = [meta EXCEPT !.reindex = @ \/ reindex]])
  BY DEF Run
<1> DEFINE m == [meta EXCEPT !.reindex = meta.reindex \/ reindex]
           r == [Idle EXCEPT !.kind = "run", !.pc = "store", !.noWait = noWait,
                             !.asked = reindex, !.mem = m]
<1>2. Shapes BY DEF IInv
<1>3. IsMeta(m) /\ (meta.reindex \/ reindex => m.reindex)
  BY <1>2 DEF Shapes, IsMeta
<1>4. /\ IsCommand(r) /\ r.kind = "run" /\ r.pc = "store" /\ r.outcome = "none"
      /\ r.asked = reindex /\ r.mem = m
  <2> HIDE DEF m
  <2> QED BY DEF Idle, IsCommand, CommandFields
<1> HIDE DEF m
<1>5. Begin(a, r) BY <1>1 DEF m
<1> HIDE DEF r
<1>6. cmd'[a] = r BY <1>2, <1>4, <1>5, BeginFields
<1>7. Waits(a)' BY <1>4, <1>6 DEF Waits, Moves
<1>8. InOrder(a)'
  <2>1. Reindexes(a)' BY <1>3, <1>4, <1>6 DEF Reindexes, Prepares, Run
  <2>2. Patches(a)' BY <1>4, <1>6 DEF Patches
  <2>3. Carries(a)' BY <1>4, <1>6 DEF Carries, Moves
  <2> QED BY <2>1, <2>2, <2>3 DEF InOrder
<1>9. UNCHANGED <<c, meta, box, places, due, unserved>> BY DEF Run
<1>10. Remembers(r) BY <1>3, <1>4 DEF Remembers
<1> QED BY <1>10, <1>4, <1>5, <1>7, <1>8, <1>9, InvBegin

LEMMA InvLook ==
  ASSUME IInv, NEW a \in Actors, Look(a)
  PROVE  IInv'
<1> DEFINE r == [Idle EXCEPT !.kind = "look", !.pc = "scan"]
<1>1. Shapes BY DEF IInv
<1>2. IsCommand(r) /\ r.kind = "look" /\ r.pc = "scan" /\ r.outcome = "none"
  BY DEF Idle, IsCommand, CommandFields
<1>3. Begin(a, r) BY DEF Look
<1> HIDE DEF r
<1>4. cmd'[a] = r BY <1>1, <1>2, <1>3, BeginFields
<1>5. Waits(a)' BY <1>2, <1>4 DEF Waits, Moves
<1>6. Reindexes(a)' BY <1>2, <1>4 DEF Reindexes, Prepares
<1>7. Patches(a)' BY <1>2, <1>4 DEF Patches
<1>8. Carries(a)' BY <1>2, <1>4 DEF Carries, Moves
<1>9. UNCHANGED <<c, meta, box, places, due, unserved>> BY DEF Look
<1>10. Remembers(r) BY <1>2 DEF Remembers
<1> QED BY <1>10, <1>2, <1>3, <1>5, <1>6, <1>7, <1>8, <1>9, InvBegin DEF InOrder

LEMMA InvWait ==
  ASSUME IInv, NEW a \in Actors, Wait(a)
  PROVE  IInv'
<1> DEFINE w == [Idle EXCEPT !.kind = "wait", !.mem = meta]
           r == Listening(w)
<1>1. Shapes BY DEF IInv
<1>2. /\ IsCommand(w) /\ w.kind = "wait" /\ w.outcome = "none" /\ w.mem = meta
      /\ w.booted = FALSE
  BY DEF Idle, IsCommand, CommandFields
<1>3. Begin(a, r) BY DEF Wait
<1> HIDE DEF w
<1>4. /\ IsCommand(r) /\ r.kind = "wait" /\ r.pc = "poll" /\ r.outcome = "none"
      /\ r.mem = meta /\ r.booted = FALSE /\ r.unread = box.log
      /\ r.served = (box.state = "up") /\ r.stale = (box.log /\ box.state # "up")
  BY <1>2 DEF Listening, IsCommand, CommandFields
<1> HIDE DEF r
<1>5. cmd'[a] = r BY <1>1, <1>3, <1>4, BeginFields
<1>6. UNCHANGED <<c, meta, box, places, due, unserved>> BY DEF Wait
<1>7. Waits(a)' BY <1>4, <1>5, <1>6 DEF Waits, Moves
<1>8. Reindexes(a)' BY <1>1, <1>4, <1>5, <1>6 DEF Reindexes, Prepares, Shapes
<1>9. Patches(a)' BY <1>4, <1>5 DEF Patches
<1>10. Carries(a)' BY <1>4, <1>5 DEF Carries, Moves
<1>11. Remembers(r) BY <1>1, <1>4 DEF Remembers, Shapes
<1> QED BY <1>11, <1>3, <1>4, <1>6, <1>7, <1>8, <1>9, <1>10, InvBegin DEF InOrder

LEMMA InvSync ==
  ASSUME IInv, NEW a \in Actors, Sync(a)
  PROVE  IInv'
<1>1. Shapes BY DEF IInv
<1>2. PICK i \in c.initializers, to \in {"staged", "deployed"} :
        Begin(a, [Idle EXCEPT !.kind = "sync", !.pc = "unpack",
                              !.item = [what |-> i, from |-> "root", to |-> to]])
  BY DEF Sync
<1> DEFINE move == [what |-> i, from |-> "root", to |-> to]
           r == [Idle EXCEPT !.kind = "sync", !.pc = "unpack", !.item = move]
<1>3. i \in Initializers
  BY <1>1, ConfigsAssumption DEF Shapes, ConfigsAssumption
<1>4. move.what = i /\ move.from = "root" /\ move.to = to OBVIOUS
<1> HIDE DEF move
<1>5. /\ IsCommand(r) /\ r.kind = "sync" /\ r.pc = "unpack" /\ r.outcome = "none"
      /\ r.item = move /\ r.todo = {}
  BY DEF Idle, IsCommand, CommandFields
<1>6. Begin(a, r) BY <1>2 DEF move
<1> HIDE DEF r
<1>7. cmd'[a] = r BY <1>1, <1>5, <1>6, BeginFields
<1>8. Waits(a)' BY <1>5, <1>7 DEF Waits, Moves
<1>9. Reindexes(a)' BY <1>5, <1>7 DEF Reindexes, Prepares
<1>10. Patches(a)' BY <1>5, <1>7 DEF Patches
<1>11. Carries(a)' BY <1>3, <1>4, <1>5, <1>7 DEF Carries, Moves
<1>12. UNCHANGED <<c, meta, box, places, due, unserved>> BY DEF Sync
<1>13. Remembers(r) BY <1>5 DEF Remembers
<1> QED BY <1>13, <1>5, <1>6, <1>8, <1>9, <1>10, <1>11, <1>12, InvBegin DEF InOrder

LEMMA InvHoldBack ==
  ASSUME IInv, NEW a \in Actors, HoldBack(a)
  PROVE  IInv'
<1>1. Shapes BY DEF IInv
<1>2. PICK i \in Initializers :
        /\ "deployed" \in places[i]
        /\ Begin(a, [Idle EXCEPT !.kind = "restore", !.pc = "clear",
                                 !.item = [what |-> i, from |-> "deployed", to |-> "staged"]])
  BY DEF HoldBack
<1> DEFINE move == [what |-> i, from |-> "deployed", to |-> "staged"]
           r == [Idle EXCEPT !.kind = "restore", !.pc = "clear", !.item = move]
<1>3. move.what = i /\ move.from = "deployed" /\ move.to = "staged" OBVIOUS
<1> HIDE DEF move
<1>4. /\ IsCommand(r) /\ r.kind = "restore" /\ r.pc = "clear" /\ r.outcome = "none"
      /\ r.item = move /\ r.todo = {}
  BY DEF Idle, IsCommand, CommandFields
<1>5. Begin(a, r) BY <1>2 DEF move
<1> HIDE DEF r
<1>6. cmd'[a] = r BY <1>1, <1>4, <1>5, BeginFields
<1>7. UNCHANGED <<c, meta, box, places, due, unserved>> BY DEF HoldBack
<1>8. Waits(a)' BY <1>4, <1>6 DEF Waits, Moves
<1>9. Reindexes(a)' BY <1>4, <1>6 DEF Reindexes, Prepares
<1>10. Patches(a)' BY <1>4, <1>6 DEF Patches
<1>11. Carries(a)' BY <1>2, <1>3, <1>4, <1>6, <1>7 DEF Carries, Moves
<1>12. Remembers(r) BY <1>4 DEF Remembers
<1> QED BY <1>12, <1>4, <1>5, <1>7, <1>8, <1>9, <1>10, <1>11, InvBegin DEF InOrder

LEMMA InvRecreate ==
  ASSUME IInv, NEW a \in Actors, Recreate(a)
  PROVE  IInv'
<1> DEFINE r == [Idle EXCEPT !.kind = "recreate", !.pc = AfterCreation, !.todo = c.patches]
<1>1. Shapes BY DEF IInv
<1>2. /\ IsCommand(r) /\ r.kind = "recreate" /\ r.pc = AfterCreation /\ r.outcome = "none"
      /\ r.todo = c.patches /\ r.booted = FALSE
  BY DEF Idle, IsCommand, CommandFields
<1>3. Begin(a, r) /\ box' = NewBox(file.reindex) /\ UNCHANGED <<c, meta, places, due, unserved>>
  BY DEF Recreate
<1>4. r.pc \in {"copy", "start"} /\ (r.pc = "start" => c.patches = {})
  BY <1>2 DEF AfterCreation
<1> HIDE DEF r
<1>5. /\ overlapped' = (overlapped \/ \E b \in Actors : Active(b))
      /\ cmd' = [cmd EXCEPT ![a] = r]
      /\ cmd'[a] = r
  BY <1>1, <1>2, <1>3, <1>4, BeginFields
<1>6. IsBox(box') /\ box'.state = "created" /\ box'.jars = {}
  BY <1>3 DEF NewBox, NoBox, IsBox
<1>7. Waits(a)' BY <1>2, <1>4, <1>5 DEF Waits, Moves
<1>8. Reindexes(a)' BY <1>2, <1>4, <1>5 DEF Reindexes, Prepares
<1>9. Patches(a)' BY <1>2, <1>3, <1>4, <1>5, <1>6 DEF Patches
<1>10. Carries(a)' BY <1>2, <1>4, <1>5 DEF Carries, Moves
<1>11. /\ c' = c /\ IsMeta(meta') /\ places' = [i \in Initializers |-> places'[i]]
       /\ box'.state # "up"
  BY <1>1, <1>3, <1>6 DEF Shapes
<1>12. Quiet => /\ box'.jars \subseteq c.patches
                /\ due' => meta'.reindex \/ unserved'
  BY <1>3, <1>6 DEF Quiet
<1>13. Remembers(r) BY <1>2, <1>4 DEF Remembers
<1> HIDE DEF IInv
<1> QED BY <1>13, <1>2, <1>5, <1>6, <1>7, <1>8, <1>9, <1>10, <1>11, <1>12, OneStep DEF InOrder
----------------------------------------------------------------------------
(* The steps of a run                                                      *)

\* What is known of a command that takes a step.
LEMMA Before ==
  ASSUME IInv, NEW a \in Actors
  PROVE  /\ Shapes /\ Waits(a)
         /\ IsCommand(cmd[a]) /\ Remembers(cmd[a])
         /\ IsMeta(meta) /\ IsBox(box) /\ places = [i \in Initializers |-> places[i]]
         /\ ~overlapped => Quiet
         /\ Quiet => InOrder(a) /\ box.jars \subseteq c.patches
                     /\ (due => meta.reindex \/ unserved)
  BY DEF IInv, Shapes, Quiet

LEMMA InvStore ==
  ASSUME IInv, NEW a \in Actors, Store(a)
  PROVE  IInv'
<1> DEFINE k == cmd[a]
           r == [k EXCEPT !.pc = "scan", !.asked = FALSE]
<1>1. /\ Shapes /\ Waits(a) /\ IsCommand(k) /\ Remembers(k)
      /\ Quiet => Reindexes(a) /\ box.jars \subseteq c.patches
                  /\ (due => meta.reindex \/ unserved)
  BY Before DEF InOrder
<1>2. k.pc = "store" /\ Active(a) BY DEF Store, At, Active
<1>3. /\ cmd' = [cmd EXCEPT ![a] = r] /\ meta' = k.mem /\ due' = (due \/ k.asked)
      /\ UNCHANGED <<c, box, places, overlapped, unserved>>
  BY DEF Store
<1>4. /\ IsCommand(r) /\ r.pc = "scan" /\ r.kind = k.kind /\ r.mem = k.mem
      /\ r.outcome = k.outcome /\ r.served = k.served /\ r.stale = k.stale
  BY <1>1 DEF IsCommand, CommandFields
<1> HIDE DEF r
<1>5. IsMeta(k.mem) /\ Remembers(r) BY <1>1, <1>2, <1>4 DEF Remembers
<1>6. cmd'[a] = r BY <1>1, <1>3, <1>4, <1>5, CommandSet
<1>7. Waits(a)' BY <1>1, <1>2, <1>4, <1>6 DEF Waits, Moves
<1>8. ASSUME Quiet
      PROVE  /\ box'.jars \subseteq c.patches
             /\ due' => meta'.reindex \/ unserved'
             /\ InOrder(a)'
  <2>1. due' => meta'.reindex \/ unserved'
    <3>1. (meta.reindex \/ k.asked) => k.mem.reindex BY <1>1, <1>2, <1>8 DEF Reindexes
    <3> QED BY <3>1, <1>1, <1>3, <1>8
  <2>2. Reindexes(a)' BY <1>3, <1>4, <1>6 DEF Reindexes, Prepares
  <2>3. Patches(a)' BY <1>4, <1>6 DEF Patches
  <2>4. Carries(a)' BY <1>4, <1>6 DEF Carries, Moves
  <2> QED BY <1>1, <1>3, <1>8, <2>1, <2>2, <2>3, <2>4 DEF InOrder
<1>9. /\ c' = c /\ IsMeta(meta') /\ IsBox(box') /\ box' = box
      /\ places' = [i \in Initializers |-> places'[i]]
  BY <1>1, <1>3, <1>5 DEF Shapes
<1> HIDE DEF IInv
<1> QED BY <1>2, <1>3, <1>4, <1>5, <1>7, <1>8, <1>9, OneStep

LEMMA InvScan ==
  ASSUME IInv, NEW a \in Actors, Scan(a)
  PROVE  IInv'
<1> DEFINE k == cmd[a]
           ids == {e.id : e \in ServiceExts(c)}
           r == [k EXCEPT !.pc = "ports", !.item = meta, !.todo = ids]
<1>1. /\ Shapes /\ Waits(a) /\ IsCommand(k) /\ Remembers(k) /\ IsMeta(meta)
      /\ Quiet => Reindexes(a) /\ box.jars \subseteq c.patches
                  /\ (due => meta.reindex \/ unserved)
  BY Before DEF InOrder
<1>2. k.pc = "scan" /\ Active(a) BY DEF Scan, At, Active
<1>3. /\ cmd' = [cmd EXCEPT ![a] = r]
      /\ UNCHANGED <<c, meta, box, places, due, overlapped, unserved>>
  BY DEF Scan
<1> HIDE DEF ids
<1>4. /\ IsCommand(r) /\ r.pc = "ports" /\ r.kind = k.kind /\ r.mem = k.mem
      /\ r.item = meta /\ r.outcome = k.outcome /\ r.served = k.served /\ r.stale = k.stale
  BY <1>1 DEF IsCommand, CommandFields
<1> HIDE DEF r
<1>5. Remembers(r) BY <1>1, <1>2, <1>4 DEF Remembers
<1>6. cmd'[a] = r BY <1>1, <1>3, <1>4, <1>5, CommandSet
<1>7. Waits(a)' BY <1>1, <1>2, <1>4, <1>6 DEF Waits, Moves
<1>8. ASSUME Quiet PROVE InOrder(a)'
  <2>1. Reindexes(a)' BY <1>1, <1>2, <1>3, <1>4, <1>6, <1>8 DEF Reindexes, Prepares
  <2>2. Patches(a)' BY <1>4, <1>6 DEF Patches
  <2>3. Carries(a)' BY <1>4, <1>6 DEF Carries, Moves
  <2> QED BY <2>1, <2>2, <2>3 DEF InOrder
<1>9. /\ c' = c /\ IsMeta(meta') /\ IsBox(box') /\ box' = box
      /\ places' = [i \in Initializers |-> places'[i]]
  BY <1>1, <1>3 DEF Shapes
<1> HIDE DEF IInv
<1> QED BY <1>1, <1>2, <1>3, <1>4, <1>5, <1>7, <1>8, <1>9, OneStep

LEMMA WithPortFields ==
  ASSUME NEW m, IsMeta(m), NEW id, NEW p
  PROVE  IsMeta(WithPort(m, id, p)) /\ WithPort(m, id, p).reindex = m.reindex
  BY DEF WithPort, IsMeta

LEMMA InvFindPort ==
  ASSUME IInv, NEW a \in Actors, FindPort(a)
  PROVE  IInv'
<1> DEFINE k == cmd[a]
<1>1. /\ Shapes /\ Waits(a) /\ IsCommand(k) /\ Remembers(k) /\ IsMeta(meta)
      /\ Quiet => Reindexes(a) /\ box.jars \subseteq c.patches
                  /\ (due => meta.reindex \/ unserved)
  BY Before DEF InOrder
<1>2. k.pc = "ports" /\ Active(a) /\ IsMeta(k.item)
  BY <1>1 DEF FindPort, At, Active, Remembers
<1>3. UNCHANGED <<c, box, places, due, overlapped, unserved>> BY DEF FindPort
<1>4. CASE End(a, "failed") /\ UNCHANGED meta
  <2> HIDE DEF IInv
  <2> QED BY <1>1, <1>2, <1>3, <1>4, InvEnd
<1>5. ASSUME NEW id, NEW found, IsMeta(found), found.reindex = k.item.reindex,
             meta' \in {meta, found},
             cmd' = [cmd EXCEPT ![a] = [cmd[a] EXCEPT !.item = found, !.todo = k.todo \ {id}]]
      PROVE  IInv'
  <2> DEFINE rest == k.todo \ {id}
             r == [k EXCEPT !.item = found, !.todo = rest]
  <2> HIDE DEF rest
  <2>1. /\ IsCommand(r) /\ r.pc = k.pc /\ r.kind = k.kind /\ r.mem = k.mem
        /\ r.item = found /\ r.outcome = k.outcome /\ r.served = k.served /\ r.stale = k.stale
    BY <1>1 DEF IsCommand, CommandFields
  <2>2. cmd' = [cmd EXCEPT ![a] = r] BY <1>5 DEF rest
  <2> HIDE DEF r
  <2>3. Remembers(r) BY <1>1, <1>2, <1>5, <2>1 DEF Remembers
  <2>4. cmd'[a] = r BY <1>1, <2>1, <2>2, <2>3, CommandSet
  <2>5. Waits(a)' BY <1>1, <1>2, <2>1, <2>4 DEF Waits, Moves
  <2>6. IsMeta(meta') BY <1>1, <1>5
  <2>7. ASSUME Quiet
        PROVE  meta'.reindex = meta.reindex /\ InOrder(a)'
    <3>1. k.item.reindex = meta.reindex BY <1>1, <1>2, <2>7 DEF Reindexes
    <3>2. meta'.reindex = meta.reindex BY <1>5, <3>1
    <3>3. Reindexes(a)' BY <1>1, <1>2, <1>5, <2>1, <2>4, <2>7, <3>1, <3>2 DEF Reindexes, Prepares
    <3>4. Patches(a)' BY <1>2, <2>1, <2>4 DEF Patches
    <3>5. Carries(a)' BY <1>2, <2>1, <2>4 DEF Carries, Moves
    <3> QED BY <3>2, <3>3, <3>4, <3>5 DEF InOrder
  <2>8. IsBox(box') /\ places' = [i \in Initializers |-> places'[i]]
    BY <1>1, <1>3 DEF Shapes
  <2> HIDE DEF IInv
  <2> QED BY <1>1, <1>2, <1>3, <2>1, <2>2, <2>3, <2>5, <2>6, <2>7, <2>8, OneStep
<1>6. CASE ~(End(a, "failed") /\ UNCHANGED meta)
  <2>1. PICK e \in ServiceExts(c) :
          LET copy == k.item
              known == e.id \in DOMAIN copy.ports
              free == FreePorts(e, copy)
              found == IF known THEN copy
                       ELSE WithPort(copy, e.id, CHOOSE p \in free : \A q \in free : p <= q)
          IN  /\ cmd' = [cmd EXCEPT ![a] = [cmd[a] EXCEPT !.item = found, !.todo = k.todo \ {e.id}]]
              /\ meta' = IF known THEN meta ELSE found
    BY <1>6 DEF FindPort
  <2> DEFINE p == CHOOSE p \in FreePorts(e, k.item) : \A q \in FreePorts(e, k.item) : p <= q
             found == IF e.id \in DOMAIN k.item.ports THEN k.item ELSE WithPort(k.item, e.id, p)
  <2>2. /\ cmd' = [cmd EXCEPT ![a] = [cmd[a] EXCEPT !.item = found, !.todo = k.todo \ {e.id}]]
        /\ meta' \in {meta, found}
    BY <2>1
  <2> HIDE DEF p
  <2>3. IsMeta(found) /\ found.reindex = k.item.reindex BY <1>2, WithPortFields
  <2> HIDE DEF found
  <2> QED BY <1>5, <2>2, <2>3
<1> QED BY <1>4, <1>6

LEMMA InvGenerate ==
  ASSUME IInv, NEW a \in Actors, Generate(a)
  PROVE  IInv'
<1> DEFINE k == cmd[a]
           r == cmd'[a]
<1>1. /\ Shapes /\ Waits(a) /\ IsCommand(k) /\ Remembers(k) /\ IsMeta(meta)
      /\ Quiet => Reindexes(a) /\ box.jars \subseteq c.patches
                  /\ (due => meta.reindex \/ unserved)
  BY Before DEF InOrder
<1>2. k.pc = "ports" /\ Active(a) /\ k.kind = "run" BY DEF Generate, At, Active
<1>3. /\ Goto(a, "check") /\ file'.reindex = k.mem.reindex
      /\ UNCHANGED <<c, meta, box, places, due, overlapped, unserved>>
  BY DEF Generate
<1>4. /\ cmd' = [cmd EXCEPT ![a] = r]
      /\ IsCommand(r) /\ r.pc = "check" /\ r.kind = k.kind /\ r.mem = k.mem
      /\ r.outcome = k.outcome /\ r.served = k.served /\ r.stale = k.stale
  BY <1>1, <1>3, GotoFields
<1>5. Remembers(r) BY <1>1, <1>2, <1>4 DEF Remembers
<1>6. Waits(a)' BY <1>1, <1>2, <1>4 DEF Waits, Moves
<1>7. ASSUME Quiet PROVE InOrder(a)'
  <2>1. Reindexes(a)' BY <1>1, <1>2, <1>3, <1>4, <1>7 DEF Reindexes, Prepares
  <2>2. Patches(a)' BY <1>4 DEF Patches
  <2>3. Carries(a)' BY <1>4 DEF Carries, Moves
  <2> QED BY <2>1, <2>2, <2>3 DEF InOrder
<1>8. IsMeta(meta') /\ IsBox(box') /\ places' = [i \in Initializers |-> places'[i]]
  BY <1>1, <1>3 DEF Shapes
<1> HIDE DEF IInv
<1> QED BY <1>1, <1>2, <1>3, <1>4, <1>5, <1>6, <1>7, <1>8, OneStep

LEMMA InvCheck ==
  ASSUME IInv, NEW a \in Actors, Check(a)
  PROVE  IInv'
<1> DEFINE k == cmd[a]
           r == cmd'[a]
<1>1. /\ Shapes /\ Waits(a) /\ IsCommand(k) /\ Remembers(k) /\ IsMeta(meta)
      /\ Quiet => Reindexes(a) /\ box.jars \subseteq c.patches
                  /\ (due => meta.reindex \/ unserved)
  BY Before DEF InOrder
<1>2. k.pc = "check" /\ Active(a) /\ k.kind = "run" /\ IsMeta(k.mem)
  BY <1>1 DEF Check, At, Active, Remembers
<1>3. /\ meta' = k.mem
      /\ UNCHANGED <<c, file, box, places, due, overlapped, unserved>>
      /\ End(a, "done") \/ Goto(a, "containers")
  BY DEF Check
<1>4. Quiet => meta'.reindex = meta.reindex
  BY <1>1, <1>2, <1>3 DEF Reindexes, Prepares
<1>5. CASE End(a, "done")
  <2> HIDE DEF IInv
  <2> QED BY <1>1, <1>2, <1>3, <1>4, <1>5, InvEnd
<1>6. CASE Goto(a, "containers")
  <2>1. /\ cmd' = [cmd EXCEPT ![a] = r]
        /\ IsCommand(r) /\ r.pc = "containers" /\ r.kind = k.kind /\ r.mem = k.mem
        /\ r.outcome = k.outcome /\ r.served = k.served /\ r.stale = k.stale
    BY <1>1, <1>6, GotoFields
  <2>2. Remembers(r) BY <1>1, <1>2, <2>1 DEF Remembers
  <2>3. Waits(a)' BY <1>1, <1>2, <2>1 DEF Waits, Moves
  <2>4. ASSUME Quiet PROVE InOrder(a)'
    <3>1. Reindexes(a)' BY <1>1, <1>2, <1>3, <1>4, <2>1, <2>4 DEF Reindexes, Prepares
    <3>2. Patches(a)' BY <2>1 DEF Patches
    <3>3. Carries(a)' BY <2>1 DEF Carries, Moves
    <3> QED BY <3>1, <3>2, <3>3 DEF InOrder
  <2>5. IsMeta(meta') /\ IsBox(box') /\ places' = [i \in Initializers |-> places'[i]]
    BY <1>1, <1>2, <1>3 DEF Shapes
  <2> HIDE DEF IInv
  <2> QED BY <1>1, <1>2, <1>3, <1>4, <2>1, <2>2, <2>3, <2>4, <2>5, OneStep
<1> QED BY <1>3, <1>5, <1>6
----------------------------------------------------------------------------
(* The steps of its containers                                             *)

\* Steps that can only end the command.
LEMMA InvFails ==
  ASSUME IInv, NEW a \in Actors,
         \/ Looked(a) \/ CheckFails(a) \/ DatabaseFails(a) \/ CopyFails(a) \/ RestFails(a)
         \/ PollFails(a) \/ Killed(a)
  PROVE  IInv'
<1>1. Active(a) /\ UNCHANGED <<c, meta, box, places, due, overlapped, unserved>>
  BY DEF Looked, CheckFails, DatabaseFails, CopyFails, RestFails, PollFails, Killed, Active, At
<1>2. PICK outcome \in {"done", "failed", "stopped", "not ready", "killed"} : End(a, outcome)
  BY DEF Looked, CheckFails, DatabaseFails, CopyFails, RestFails, PollFails, Killed
<1>3. IsMeta(meta') /\ (Quiet => (due' => meta'.reindex \/ unserved'))
  BY <1>1, Before
<1> HIDE DEF IInv
<1> QED BY <1>1, <1>2, <1>3, InvEnd

LEMMA InvCreate ==
  ASSUME IInv, NEW a \in Actors, Create(a)
  PROVE  IInv'
<1> DEFINE k == cmd[a]
           r == [k EXCEPT !.pc = AfterCreation, !.todo = c.patches]
<1>1. /\ Shapes /\ Waits(a) /\ IsCommand(k) /\ Remembers(k) /\ IsMeta(meta) /\ IsBox(box)
      /\ Quiet => Reindexes(a) /\ box.jars \subseteq c.patches
                  /\ (due => meta.reindex \/ unserved)
  BY Before DEF InOrder
<1>2. k.pc = "containers" /\ Active(a) /\ k.kind = "run"
  BY <1>1 DEF Create, At, Active, Remembers
<1>3. /\ cmd' = [cmd EXCEPT ![a] = r]
      /\ UNCHANGED <<c, meta, places, due, overlapped, unserved>>
  BY DEF Create
<1>4. /\ IsCommand(r) /\ r.pc = AfterCreation /\ r.kind = k.kind /\ r.mem = k.mem
      /\ r.todo = c.patches /\ r.outcome = k.outcome /\ r.served = k.served /\ r.stale = k.stale
  BY <1>1 DEF IsCommand, CommandFields
<1> HIDE DEF r
<1>5. AfterCreation \in {"copy", "start"} /\ (AfterCreation = "start" => c.patches = {})
  BY DEF AfterCreation
<1>6. Remembers(r) BY <1>1, <1>2, <1>4, <1>5 DEF Remembers
<1>7. cmd'[a] = r BY <1>1, <1>3, <1>4, <1>6, CommandSet
<1>8. /\ IsBox(box') /\ (box'.state = "up" => box.state = "up")
      /\ box'.reindex = file.reindex
      /\ box.jars \subseteq c.patches => box'.jars \subseteq c.patches
  <2>1. CASE Outdated
    <3>1. box' = NewBox(file.reindex) BY <2>1 DEF Create
    <3> QED BY <3>1 DEF NewBox, NoBox, IsBox
  <2>2. CASE ~Outdated
    <3>1. box' = box BY <2>2 DEF Create
    <3> QED BY <1>1, <2>2, <3>1 DEF Outdated
  <2> QED BY <2>1, <2>2
<1>9. Waits(a)' BY <1>1, <1>2, <1>4, <1>5, <1>7 DEF Waits, Moves
<1>10. ASSUME Quiet PROVE InOrder(a)' /\ box'.jars \subseteq c.patches
  <2>1. Reindexes(a)' BY <1>1, <1>2, <1>3, <1>4, <1>5, <1>7, <1>8, <1>10 DEF Reindexes, Prepares
  <2>2. Patches(a)' BY <1>1, <1>3, <1>4, <1>5, <1>7, <1>8, <1>10 DEF Patches
  <2>3. Carries(a)' BY <1>4, <1>5, <1>7 DEF Carries, Moves
  <2> QED BY <1>1, <1>8, <1>10, <2>1, <2>2, <2>3 DEF InOrder
<1>11. IsMeta(meta') /\ places' = [i \in Initializers |-> places'[i]]
  BY <1>1, <1>3 DEF Shapes
<1> HIDE DEF IInv
<1> QED BY <1>1, <1>2, <1>3, <1>4, <1>6, <1>8, <1>9, <1>10, <1>11, OneStep

LEMMA InvCopy ==
  ASSUME IInv, NEW a \in Actors, Copy(a)
  PROVE  IInv'
<1> DEFINE k == cmd[a]
<1>1. /\ Shapes /\ Waits(a) /\ IsCommand(k) /\ Remembers(k) /\ IsMeta(meta) /\ IsBox(box)
      /\ Quiet => InOrder(a) /\ box.jars \subseteq c.patches
                  /\ (due => meta.reindex \/ unserved)
  BY Before
<1>2. k.pc = "copy" /\ Active(a) BY DEF Copy, At, Active
<1>3. PICK jar \in k.todo :
        /\ box' = [box EXCEPT !.jars = box.jars \cup {jar}]
        /\ cmd' = [cmd EXCEPT ![a] = [k EXCEPT !.todo = k.todo \ {jar}]]
  BY DEF Copy
<1> DEFINE rest == k.todo \ {jar}
           r == [k EXCEPT !.todo = rest]
<1>4. UNCHANGED <<c, meta, places, due, overlapped, unserved>> BY DEF Copy
<1> HIDE DEF rest
<1>5. /\ IsCommand(r) /\ r.pc = k.pc /\ r.kind = k.kind /\ r.mem = k.mem /\ r.todo = rest
      /\ r.outcome = k.outcome /\ r.served = k.served /\ r.stale = k.stale
  BY <1>1 DEF IsCommand, CommandFields
<1>6. cmd' = [cmd EXCEPT ![a] = r] BY <1>3 DEF rest
<1> HIDE DEF r
<1>7. Remembers(r) BY <1>1, <1>2, <1>5 DEF Remembers
<1>8. cmd'[a] = r BY <1>1, <1>5, <1>6, <1>7, CommandSet
<1>9. /\ IsBox(box') /\ box'.state = box.state /\ box'.reindex = box.reindex
      /\ box'.jars = box.jars \cup {jar}
  BY <1>1, <1>3 DEF IsBox
<1>10. Waits(a)' BY <1>1, <1>2, <1>5, <1>8 DEF Waits, Moves
<1>11. ASSUME Quiet PROVE InOrder(a)' /\ box'.jars \subseteq c.patches
  <2>1. Reindexes(a)'
    BY <1>1, <1>2, <1>4, <1>5, <1>8, <1>9, <1>11 DEF Reindexes, Prepares, InOrder
  <2>2. k.todo \cup box.jars = c.patches BY <1>1, <1>2, <1>11 DEF InOrder, Patches
  <2>3. rest \cup box'.jars = c.patches BY <2>2, <1>9 DEF rest
  <2>4. Patches(a)' BY <1>2, <1>4, <1>5, <1>8, <2>3 DEF Patches
  <2>5. Carries(a)' BY <1>2, <1>5, <1>8 DEF Carries, Moves
  <2> QED BY <2>1, <2>3, <2>4, <2>5 DEF InOrder
<1>12. IsMeta(meta') /\ places' = [i \in Initializers |-> places'[i]]
  BY <1>1, <1>4 DEF Shapes
<1> HIDE DEF IInv
<1> QED BY <1>1, <1>2, <1>4, <1>5, <1>6, <1>7, <1>9, <1>10, <1>11, <1>12, OneStep

LEMMA InvCopied ==
  ASSUME IInv, NEW a \in Actors, Copied(a)
  PROVE  IInv'
<1> DEFINE k == cmd[a]
           r == cmd'[a]
<1>1. /\ Shapes /\ Waits(a) /\ IsCommand(k) /\ Remembers(k) /\ IsMeta(meta) /\ IsBox(box)
      /\ Quiet => InOrder(a) /\ box.jars \subseteq c.patches
                  /\ (due => meta.reindex \/ unserved)
  BY Before
<1>2. k.pc = "copy" /\ Active(a) /\ k.todo = {} BY DEF Copied, At, Active
<1>3. /\ Goto(a, "start") /\ UNCHANGED <<c, meta, box, places, due, overlapped, unserved>>
  BY DEF Copied
<1>4. /\ cmd' = [cmd EXCEPT ![a] = r]
      /\ IsCommand(r) /\ r.pc = "start" /\ r.kind = k.kind /\ r.mem = k.mem
      /\ r.outcome = k.outcome /\ r.served = k.served /\ r.stale = k.stale
  BY <1>1, <1>3, GotoFields
<1>5. Remembers(r) BY <1>1, <1>2, <1>4 DEF Remembers
<1>6. Waits(a)' BY <1>1, <1>2, <1>4 DEF Waits, Moves
<1>7. ASSUME Quiet PROVE InOrder(a)'
  <2>1. Reindexes(a)' BY <1>1, <1>2, <1>3, <1>4, <1>7 DEF Reindexes, Prepares, InOrder
  <2>2. Patches(a)' BY <1>1, <1>2, <1>3, <1>4, <1>7 DEF Patches, InOrder
  <2>3. Carries(a)' BY <1>4 DEF Carries, Moves
  <2> QED BY <2>1, <2>2, <2>3 DEF InOrder
<1>8. IsMeta(meta') /\ IsBox(box') /\ places' = [i \in Initializers |-> places'[i]]
  BY <1>1, <1>3 DEF Shapes
<1> HIDE DEF IInv
<1> QED BY <1>1, <1>2, <1>3, <1>4, <1>5, <1>6, <1>7, <1>8, OneStep

LEMMA BootFields ==
  ASSUME IsBox(box), box.state # "absent"
  PROVE  LET b == Boot(box) IN
         /\ IsBox(b) /\ b.reindex = box.reindex /\ b.jars = box.jars
         /\ b.state = "up" => box.state = "up"
         /\ ~Running(box) => b.loaded = box.jars
         /\ Running(box) => b = box
  BY DEF Boot, IsBox, Running

LEMMA InvStart ==
  ASSUME IInv, NEW a \in Actors, Start(a)
  PROVE  IInv'
<1> DEFINE k == cmd[a]
           first == ~Running(box)
           r == [k EXCEPT !.pc = "rest", !.booted = first]
<1>1. /\ Shapes /\ Waits(a) /\ IsCommand(k) /\ Remembers(k) /\ IsMeta(meta) /\ IsBox(box)
      /\ Quiet => InOrder(a) /\ box.jars \subseteq c.patches
                  /\ (due => meta.reindex \/ unserved)
  BY Before
<1>2. /\ k.pc = "start" /\ Active(a) /\ box.state # "absent"
      /\ UNCHANGED <<c, meta, places, overlapped, unserved>>
  BY DEF Start, At, Active
<1>3. CASE End(a, "failed") /\ UNCHANGED <<box, due>>
  <2> HIDE DEF IInv
  <2> QED BY <1>1, <1>2, <1>3, InvEnd
<1>4. CASE ~(End(a, "failed") /\ UNCHANGED <<box, due>>)
  <2>1. /\ box' = Boot(box)
        /\ due' = (due /\ (Running(box) \/ ~box.reindex))
        /\ cmd' = [cmd EXCEPT ![a] = r]
    BY <1>4 DEF Start
  <2> HIDE DEF first
  <2>2. /\ IsCommand(r) /\ r.pc = "rest" /\ r.kind = k.kind /\ r.mem = k.mem
        /\ r.booted = first
        /\ r.outcome = k.outcome /\ r.served = k.served /\ r.stale = k.stale
    BY <1>1 DEF IsCommand, CommandFields
  <2> HIDE DEF r
  <2>3. Remembers(r) BY <1>1, <1>2, <2>2 DEF Remembers
  <2>4. cmd'[a] = r BY <1>1, <2>1, <2>2, <2>3, CommandSet
  <2>5. /\ IsBox(box') /\ box'.jars = box.jars
        /\ box'.state = "up" => box.state = "up"
        /\ first => box'.loaded = box.jars
    BY <1>1, <1>2, <2>1, BootFields DEF first
  <2>6. Waits(a)' BY <1>1, <1>2, <2>2, <2>4 DEF Waits, Moves
  <2>7. ASSUME Quiet
        PROVE  /\ box'.jars \subseteq c.patches
               /\ due' => meta'.reindex \/ unserved'
               /\ InOrder(a)'
    <3>1. /\ k.kind = "run" => k.mem.reindex = meta.reindex /\ box.reindex = k.mem.reindex
          /\ box.jars = c.patches
      BY <1>1, <1>2, <2>7 DEF InOrder, Reindexes, Patches, Prepares
    <3>2. due' => due BY <2>1
    <3>3. k.kind = "run" /\ first /\ ~unserved => ~due'
      BY <1>1, <2>1, <2>7, <3>1, <3>2 DEF first
    <3>4. Reindexes(a)' BY <1>2, <2>2, <2>4, <3>1, <3>3 DEF Reindexes, Prepares
    <3>5. Patches(a)' BY <1>2, <2>2, <2>4, <2>5, <3>1 DEF Patches
    <3>6. Carries(a)' BY <2>2, <2>4 DEF Carries, Moves
    <3> QED BY <1>1, <1>2, <2>5, <2>7, <3>2, <3>4, <3>5, <3>6 DEF InOrder
  <2>8. IsMeta(meta') /\ places' = [i \in Initializers |-> places'[i]]
    BY <1>1, <1>2 DEF Shapes
  <2> HIDE DEF IInv
  <2> QED BY <1>2, <2>1, <2>2, <2>3, <2>5, <2>6, <2>7, <2>8, OneStep
<1> QED BY <1>3, <1>4

LEMMA ListeningFields ==
  ASSUME NEW k, IsCommand(k)
  PROVE  LET n == Listening(k) IN
         /\ IsCommand(n) /\ n.pc = "poll" /\ n.kind = k.kind /\ n.mem = k.mem
         /\ n.booted = k.booted /\ n.outcome = k.outcome
         /\ n.unread => n.served \/ n.stale
         /\ box.state = "up" => n.served
<1> DEFINE up == box.state = "up"
           old == box.log /\ box.state # "up"
           n == [k EXCEPT !.pc = "poll", !.unread = box.log, !.served = up, !.stale = old]
<1>1. Listening(k) = n BY DEF Listening
<1>2. box.log => up \/ old OBVIOUS
<1> HIDE DEF up, old
<1>3. /\ IsCommand(n) /\ n.pc = "poll" /\ n.kind = k.kind /\ n.mem = k.mem
      /\ n.booted = k.booted /\ n.outcome = k.outcome
      /\ n.unread = box.log /\ n.served = up /\ n.stale = old
  BY DEF IsCommand, CommandFields
<1> HIDE DEF n
<1> QED BY <1>1, <1>2, <1>3 DEF up

LEMMA InvRest ==
  ASSUME IInv, NEW a \in Actors, Rest(a)
  PROVE  IInv'
<1> DEFINE k == cmd[a]
           r == Listening(k)
<1>1. /\ Shapes /\ Waits(a) /\ IsCommand(k) /\ Remembers(k) /\ IsMeta(meta) /\ IsBox(box)
      /\ Quiet => InOrder(a) /\ box.jars \subseteq c.patches
                  /\ (due => meta.reindex \/ unserved)
  BY Before
<1>2. /\ k.pc = "rest" /\ Active(a)
      /\ UNCHANGED <<c, meta, box, places, due, overlapped, unserved>>
  BY DEF Rest, At, Active
<1>3. CASE End(a, "failed") \/ End(a, "done")
  <2> HIDE DEF IInv
  <2> QED BY <1>1, <1>2, <1>3, InvEnd
<1>4. CASE ~(End(a, "failed") \/ End(a, "done"))
  <2>1. cmd' = [cmd EXCEPT ![a] = r] /\ k.kind # "recreate" BY <1>4 DEF Rest
  <2>2. k.kind = "run" BY <1>1, <1>2, <2>1 DEF Remembers
  <2>3. /\ IsCommand(r) /\ r.pc = "poll" /\ r.kind = k.kind /\ r.mem = k.mem
        /\ r.booted = k.booted /\ r.outcome = k.outcome
        /\ r.unread => r.served \/ r.stale
        /\ box.state = "up" => r.served
    BY <1>1, ListeningFields
  <2> HIDE DEF r
  <2>4. Remembers(r) BY <1>1, <1>2, <2>2, <2>3 DEF Remembers
  <2>5. cmd'[a] = r BY <1>1, <2>1, <2>3, <2>4, CommandSet
  <2>6. Waits(a)' BY <1>1, <1>2, <2>2, <2>3, <2>5 DEF Waits, Moves
  <2>7. ASSUME Quiet PROVE InOrder(a)'
    <3>1. Reindexes(a)'
      BY <1>1, <1>2, <2>2, <2>3, <2>5, <2>7 DEF Reindexes, Prepares, InOrder
    <3>2. Patches(a)' BY <1>1, <1>2, <2>3, <2>5, <2>7 DEF Patches, InOrder
    <3>3. Carries(a)' BY <2>3, <2>5 DEF Carries, Moves
    <3> QED BY <3>1, <3>2, <3>3 DEF InOrder
  <2>8. IsMeta(meta') /\ IsBox(box') /\ places' = [i \in Initializers |-> places'[i]]
    BY <1>1, <1>2 DEF Shapes
  <2> HIDE DEF IInv
  <2> QED BY <1>1, <1>2, <2>1, <2>3, <2>4, <2>6, <2>7, <2>8, OneStep
<1> QED BY <1>3, <1>4
----------------------------------------------------------------------------
(* The wait                                                                *)

LEMMA InvPoll ==
  ASSUME IInv, NEW a \in Actors, Poll(a)
  PROVE  IInv'
<1> DEFINE k == cmd[a]
           r == cmd'[a]
<1>1. /\ Shapes /\ Waits(a) /\ IsCommand(k) /\ Remembers(k) /\ IsMeta(meta) /\ IsBox(box)
      /\ Quiet => InOrder(a) /\ box.jars \subseteq c.patches
                  /\ (due => meta.reindex \/ unserved)
  BY Before
<1>2. /\ k.pc = "poll" /\ Active(a) /\ (box.state = "up" \/ k.unread)
      /\ UNCHANGED <<c, meta, box, places, due, overlapped, unserved>>
  BY DEF Poll, At, Active, SaysReady
<1>3. PICK pc \in {"reindex", "deploy"} : Goto(a, pc) BY DEF Poll
<1>4. /\ cmd' = [cmd EXCEPT ![a] = r]
      /\ IsCommand(r) /\ r.pc = pc /\ r.kind = k.kind /\ r.mem = k.mem /\ r.booted = k.booted
      /\ r.outcome = k.outcome /\ r.served = k.served /\ r.stale = k.stale
  BY <1>1, <1>3, GotoFields
<1>5. Remembers(r) BY <1>1, <1>2, <1>3, <1>4 DEF Remembers
<1>6. Waits(a)' BY <1>1, <1>2, <1>3, <1>4 DEF Waits, Moves
<1>7. ASSUME Quiet PROVE InOrder(a)'
  <2>1. Reindexes(a)'
    BY <1>1, <1>2, <1>3, <1>4, <1>7 DEF Reindexes, Prepares, InOrder
  <2>2. Patches(a)' BY <1>1, <1>2, <1>3, <1>4, <1>7 DEF Patches, InOrder
  <2>3. Carries(a)' BY <1>3, <1>4 DEF Carries, Moves
  <2> QED BY <2>1, <2>2, <2>3 DEF InOrder
<1>8. IsMeta(meta') /\ IsBox(box') /\ places' = [i \in Initializers |-> places'[i]]
  BY <1>1, <1>2 DEF Shapes
<1> HIDE DEF IInv
<1> QED BY <1>1, <1>2, <1>4, <1>5, <1>6, <1>7, <1>8, OneStep

LEMMA InvReindexed ==
  ASSUME IInv, NEW a \in Actors, Reindexed(a)
  PROVE  IInv'
<1> DEFINE k == cmd[a]
           copy == [k.mem EXCEPT !.reindex = FALSE]
           r == [k EXCEPT !.pc = "deploy", !.mem = copy]
<1>1. /\ Shapes /\ Waits(a) /\ IsCommand(k) /\ Remembers(k) /\ IsMeta(meta) /\ IsBox(box)
      /\ Quiet => InOrder(a) /\ box.jars \subseteq c.patches
                  /\ (due => meta.reindex \/ unserved)
  BY Before
<1>2. /\ k.pc = "reindex" /\ Active(a) /\ meta' = copy /\ cmd' = [cmd EXCEPT ![a] = r]
      /\ unserved' = (unserved \/ ~k.booted)
      /\ UNCHANGED <<c, box, places, due, overlapped>>
  BY DEF Reindexed, At, Active
<1>3. k.kind \in {"run", "wait"} /\ IsMeta(k.mem) BY <1>1, <1>2 DEF Remembers
<1>4. IsMeta(copy) /\ copy.reindex = FALSE BY <1>3 DEF IsMeta
<1> HIDE DEF copy
<1>5. /\ IsCommand(r) /\ r.pc = "deploy" /\ r.kind = k.kind /\ r.mem = copy
      /\ r.booted = k.booted
      /\ r.outcome = k.outcome /\ r.served = k.served /\ r.stale = k.stale
  BY <1>1 DEF IsCommand, CommandFields
<1> HIDE DEF r
<1>6. Remembers(r) BY <1>3, <1>4, <1>5 DEF Remembers
<1>7. cmd'[a] = r BY <1>1, <1>2, <1>5, <1>6, CommandSet
<1>8. Waits(a)' BY <1>1, <1>2, <1>5, <1>7 DEF Waits, Moves
<1>9. ASSUME Quiet
      PROVE  /\ due' => unserved'
             /\ InOrder(a)'
  <2>1. ASSUME due', ~unserved' PROVE FALSE
    <3>1. ~unserved /\ k.booted BY <1>2, <2>1
    <3>2. k.kind = "run" BY <1>1, <1>2, <1>3, <1>9, <3>1 DEF InOrder, Reindexes
    <3> QED BY <1>1, <1>2, <1>9, <2>1, <3>1, <3>2 DEF InOrder, Reindexes
  <2>2. Reindexes(a)'
    BY <1>1, <1>2, <1>3, <1>5, <1>7, <1>9 DEF Reindexes, Prepares, InOrder
  <2>3. Patches(a)' BY <1>1, <1>2, <1>5, <1>7, <1>9 DEF Patches, InOrder
  <2>4. Carries(a)' BY <1>5, <1>7 DEF Carries, Moves
  <2> QED BY <2>1, <2>2, <2>3, <2>4 DEF InOrder
<1>10. IsMeta(meta') /\ IsBox(box') /\ places' = [i \in Initializers |-> places'[i]]
  BY <1>1, <1>2, <1>4 DEF Shapes
<1> HIDE DEF IInv
<1> QED BY <1>1, <1>2, <1>5, <1>6, <1>8, <1>9, <1>10, OneStep

LEMMA InvPending ==
  ASSUME IInv, NEW a \in Actors, Pending(a)
  PROVE  IInv'
<1> DEFINE k == cmd[a]
           r == [k EXCEPT !.pc = "deploying", !.todo = Staged]
<1>1. /\ Shapes /\ Waits(a) /\ IsCommand(k) /\ Remembers(k) /\ IsMeta(meta) /\ IsBox(box)
      /\ Quiet => InOrder(a) /\ box.jars \subseteq c.patches
                  /\ (due => meta.reindex \/ unserved)
  BY Before
<1>2. /\ k.pc = "deploy" /\ Active(a) /\ cmd' = [cmd EXCEPT ![a] = r]
      /\ UNCHANGED <<c, meta, box, places, due, overlapped, unserved>>
  BY DEF Pending, At, Active, Staged
<1>3. /\ IsCommand(r) /\ r.pc = "deploying" /\ r.kind = k.kind /\ r.mem = k.mem
      /\ r.todo = Staged
      /\ r.outcome = k.outcome /\ r.served = k.served /\ r.stale = k.stale
  BY <1>1 DEF IsCommand, CommandFields
<1> HIDE DEF r
<1>4. Remembers(r) BY <1>1, <1>2, <1>3 DEF Remembers
<1>5. cmd'[a] = r BY <1>1, <1>2, <1>3, <1>4, CommandSet
<1>6. Waits(a)' BY <1>1, <1>2, <1>3, <1>5 DEF Waits, Moves
<1>7. ASSUME Quiet PROVE InOrder(a)'
  <2>1. Reindexes(a)' BY <1>3, <1>5 DEF Reindexes, Prepares
  <2>2. Patches(a)' BY <1>3, <1>5 DEF Patches
  <2>3. Staged' = Staged BY <1>2 DEF Staged
  <2>4. Carries(a)' BY <1>3, <1>5, <2>3 DEF Carries, Moves
  <2> QED BY <2>1, <2>2, <2>4 DEF InOrder
<1>8. IsMeta(meta') /\ IsBox(box') /\ places' = [i \in Initializers |-> places'[i]]
  BY <1>1, <1>2 DEF Shapes
<1> HIDE DEF IInv
<1> QED BY <1>1, <1>2, <1>3, <1>4, <1>6, <1>7, <1>8, OneStep

LEMMA InvDeploy ==
  ASSUME IInv, NEW a \in Actors, Deploy(a)
  PROVE  IInv'
<1> DEFINE k == cmd[a]
<1>1. /\ Shapes /\ Waits(a) /\ IsCommand(k) /\ Remembers(k) /\ IsMeta(meta) /\ IsBox(box)
      /\ Quiet => InOrder(a) /\ box.jars \subseteq c.patches
                  /\ (due => meta.reindex \/ unserved)
  BY Before
<1>2. /\ k.pc = "deploying" /\ Active(a)
      /\ UNCHANGED <<c, meta, box, places, due, overlapped, unserved>>
  BY DEF Deploy, At, Active
<1>3. PICK i \in k.todo :
        cmd' = [cmd EXCEPT ![a] = [k EXCEPT !.pc = "clear", !.todo = k.todo \ {i},
                                     !.item = [what |-> i, from |-> "staged", to |-> "deployed"]]]
  BY DEF Deploy
<1> DEFINE rest == k.todo \ {i}
           move == [what |-> i, from |-> "staged", to |-> "deployed"]
           r == [k EXCEPT !.pc = "clear", !.todo = rest, !.item = move]
<1>4. move.what = i /\ move.from = "staged" /\ move.to = "deployed" OBVIOUS
<1> HIDE DEF rest, move
<1>5. /\ IsCommand(r) /\ r.pc = "clear" /\ r.kind = k.kind /\ r.mem = k.mem
      /\ r.todo = rest /\ r.item = move
      /\ r.outcome = k.outcome /\ r.served = k.served /\ r.stale = k.stale
  BY <1>1 DEF IsCommand, CommandFields
<1>6. cmd' = [cmd EXCEPT ![a] = r] BY <1>3 DEF rest, move
<1> HIDE DEF r
<1>7. Remembers(r) BY <1>1, <1>2, <1>5 DEF Remembers
<1>8. cmd'[a] = r BY <1>1, <1>5, <1>6, <1>7, CommandSet
<1>9. Waits(a)' BY <1>1, <1>2, <1>5, <1>8 DEF Waits, Moves
<1>10. ASSUME Quiet PROVE InOrder(a)'
  <2>1. Reindexes(a)' BY <1>5, <1>8 DEF Reindexes, Prepares
  <2>2. Patches(a)' BY <1>5, <1>8 DEF Patches
  <2>3. k.todo \subseteq Staged /\ Staged' = Staged
    BY <1>1, <1>2, <1>10 DEF InOrder, Carries, Staged
  <2>4. i \in Initializers /\ "staged" \in places'[i] BY <1>2, <1>3, <2>3 DEF Staged
  <2>5. rest \subseteq Staged' \ {i} BY <2>3 DEF rest
  <2>6. Carries(a)' BY <1>4, <1>5, <1>8, <2>4, <2>5 DEF Carries, Moves
  <2> QED BY <2>1, <2>2, <2>6 DEF InOrder
<1>11. IsMeta(meta') /\ IsBox(box') /\ places' = [j \in Initializers |-> places'[j]]
  BY <1>1, <1>2 DEF Shapes
<1> HIDE DEF IInv
<1> QED BY <1>1, <1>2, <1>5, <1>6, <1>7, <1>9, <1>10, <1>11, OneStep

LEMMA InvDeployed ==
  ASSUME IInv, NEW a \in Actors, Deployed(a)
  PROVE  IInv'
<1> DEFINE k == cmd[a]
           r == cmd'[a]
<1>1. /\ Shapes /\ Waits(a) /\ IsCommand(k) /\ Remembers(k) /\ IsMeta(meta) /\ IsBox(box)
      /\ Quiet => InOrder(a) /\ box.jars \subseteq c.patches
                  /\ (due => meta.reindex \/ unserved)
  BY Before
<1>2. /\ k.pc = "deploying" /\ Active(a) /\ (k.served \/ k.stale)
      /\ UNCHANGED <<c, meta, box, places, due, overlapped, unserved>>
  BY <1>1 DEF Deployed, At, Active, Waits
<1>3. CASE End(a, "ready")
  <2> HIDE DEF IInv
  <2> QED BY <1>1, <1>2, <1>3, InvEnd
<1>4. CASE Goto(a, "probe")
  <2>1. /\ cmd' = [cmd EXCEPT ![a] = r]
        /\ IsCommand(r) /\ r.pc = "probe" /\ r.kind = k.kind /\ r.mem = k.mem
        /\ r.outcome = k.outcome /\ r.served = k.served /\ r.stale = k.stale
    BY <1>1, <1>4, GotoFields
  <2>2. Remembers(r) BY <1>1, <1>2, <2>1 DEF Remembers
  <2>3. Waits(a)' BY <1>1, <1>2, <2>1 DEF Waits, Moves
  <2>4. Reindexes(a)' BY <2>1 DEF Reindexes, Prepares
  <2>5. Patches(a)' BY <2>1 DEF Patches
  <2>6. Carries(a)' BY <2>1 DEF Carries, Moves
  <2>7. IsMeta(meta') /\ IsBox(box') /\ places' = [i \in Initializers |-> places'[i]]
    BY <1>1, <1>2 DEF Shapes
  <2> HIDE DEF IInv
  <2> QED BY <1>1, <1>2, <2>1, <2>2, <2>3, <2>4, <2>5, <2>6, <2>7, OneStep DEF InOrder
<1> QED BY <1>3, <1>4 DEF Deployed

LEMMA InvProbe ==
  ASSUME IInv, NEW a \in Actors, Probe(a)
  PROVE  IInv'
<1>1. /\ Shapes /\ Waits(a) /\ IsMeta(meta)
      /\ Quiet => (due => meta.reindex \/ unserved)
  BY Before
<1>2. /\ cmd[a].pc = "probe" /\ Active(a) /\ (cmd[a].served \/ cmd[a].stale)
      /\ UNCHANGED <<c, meta, box, places, due, overlapped, unserved>>
  BY <1>1 DEF Probe, At, Active, Waits
<1>3. PICK outcome \in {"ready", "not ready"} : End(a, outcome) BY DEF Probe
<1> HIDE DEF IInv
<1> QED BY <1>1, <1>2, <1>3, InvEnd
----------------------------------------------------------------------------
(* Moving                                                                  *)

\* A step of a move that goes on: one place of what moves changes.
LEMMA InvMoveOn ==
  ASSUME IInv, NEW a \in Actors, NEW pc \in Moves, cmd[a].pc \in Moves, Goto(a, pc),
         UNCHANGED <<c, meta, box, due, overlapped, unserved>>,
         places' = [i \in Initializers |-> places'[i]],
         Quiet => Carries(a)'
  PROVE  IInv'
<1> DEFINE k == cmd[a]
           r == cmd'[a]
<1>1. /\ Shapes /\ Waits(a) /\ IsCommand(k) /\ Remembers(k) /\ IsMeta(meta) /\ IsBox(box)
      /\ Quiet => box.jars \subseteq c.patches /\ (due => meta.reindex \/ unserved)
  BY Before
<1>2. Active(a) BY DEF Active, At, Moves
<1>3. /\ cmd' = [cmd EXCEPT ![a] = r]
      /\ IsCommand(r) /\ r.pc = pc /\ r.kind = k.kind /\ r.mem = k.mem
      /\ r.outcome = k.outcome /\ r.served = k.served /\ r.stale = k.stale
  BY <1>1, GotoFields
<1>4. Remembers(r) BY <1>1, <1>3 DEF Remembers, Moves
<1>5. Waits(a)' BY <1>1, <1>3 DEF Waits, Moves
<1>6. Reindexes(a)' BY <1>3 DEF Reindexes, Prepares, Moves
<1>7. Patches(a)' BY <1>3 DEF Patches, Moves
<1>8. IsMeta(meta') /\ IsBox(box') BY <1>1
<1> HIDE DEF IInv
<1> QED BY <1>1, <1>2, <1>3, <1>4, <1>5, <1>6, <1>7, <1>8, OneStep DEF InOrder

\* The last step of a move.
LEMMA InvMoved ==
  ASSUME IInv, NEW a \in Actors, cmd[a].pc \in Moves, Moved(a),
         UNCHANGED <<c, meta, box, due, overlapped, unserved>>,
         places' = [i \in Initializers |-> places'[i]],
         Quiet => cmd[a].todo \subseteq Staged'
  PROVE  IInv'
<1> DEFINE k == cmd[a]
           r == cmd'[a]
<1>1. /\ Shapes /\ Waits(a) /\ IsCommand(k) /\ Remembers(k) /\ IsMeta(meta) /\ IsBox(box)
      /\ Quiet => box.jars \subseteq c.patches /\ (due => meta.reindex \/ unserved)
  BY Before
<1>2. Active(a) BY DEF Active, At, Moves
<1>3. IsMeta(meta') /\ IsBox(box') BY <1>1
<1>4. CASE k.kind \in {"run", "wait"}
  <2> DEFINE n == [k EXCEPT !.pc = "deploying", !.item = Nothing]
  <2>1. cmd' = [cmd EXCEPT ![a] = n] BY <1>4 DEF Moved
  <2>2. /\ IsCommand(n) /\ n.pc = "deploying" /\ n.kind = k.kind /\ n.mem = k.mem
        /\ n.todo = k.todo
        /\ n.outcome = k.outcome /\ n.served = k.served /\ n.stale = k.stale
    BY <1>1 DEF IsCommand, CommandFields
  <2> HIDE DEF n
  <2>3. Remembers(n) BY <1>1, <1>4, <2>2 DEF Remembers, Moves
  <2>4. cmd'[a] = n BY <1>1, <2>1, <2>2, <2>3, CommandSet
  <2>5. Waits(a)' BY <1>1, <1>4, <2>2, <2>4 DEF Waits, Moves
  <2>6. Reindexes(a)' BY <2>2, <2>4 DEF Reindexes, Prepares
  <2>7. Patches(a)' BY <2>2, <2>4 DEF Patches
  <2>8. Quiet => Carries(a)' BY <2>2, <2>4 DEF Carries, Moves
  <2> HIDE DEF IInv
  <2> QED BY <1>1, <1>2, <1>3, <2>1, <2>2, <2>3, <2>5, <2>6, <2>7, <2>8, OneStep DEF InOrder
<1>5. CASE k.kind \notin {"run", "wait"}
  <2>1. End(a, "done") BY <1>5 DEF Moved
  <2>2. /\ cmd' = [cmd EXCEPT ![a] = r]
        /\ IsCommand(r) /\ Remembers(r) /\ r.pc = "idle" /\ r.outcome = "done"
    BY <1>1, <2>1, EndFields
  <2>3. Waits(a)' BY <2>2 DEF Waits, Moves
  <2>4. Reindexes(a)' BY <2>2 DEF Reindexes, Prepares
  <2>5. Patches(a)' BY <2>2 DEF Patches
  <2>6. Carries(a)' BY <2>2 DEF Carries, Moves
  <2> HIDE DEF IInv
  <2> QED BY <1>1, <1>2, <1>3, <2>2, <2>3, <2>4, <2>5, <2>6, OneStep DEF InOrder
<1> QED BY <1>4, <1>5

\* Where things are after one of them has gone from, or come to, a place.
LEMMA PlacesAfter ==
  ASSUME Shapes, NEW i, NEW set, places' = [places EXCEPT ![i] = set]
  PROVE  /\ places' = [j \in Initializers |-> places'[j]]
         /\ i \in Initializers => places'[i] = set
         /\ \A j \in Initializers : j # i => places'[j] = places[j]
<1>1. places = [j \in Initializers |-> places[j]] BY DEF Shapes
<1> QED BY <1>1

LEMMA InvUnpack ==
  ASSUME IInv, NEW a \in Actors, Unpack(a)
  PROVE  IInv'
<1> DEFINE k == cmd[a]
<1>1. Shapes /\ (Quiet => Carries(a)) BY Before DEF InOrder
<1>2. /\ k.pc = "unpack" /\ Goto(a, "withdraw")
      /\ places' = [places EXCEPT ![k.item.what] = places[k.item.what] \cup {"root"}]
      /\ UNCHANGED <<c, meta, box, due, overlapped, unserved>>
  BY DEF Unpack, At
<1>3. /\ places' = [j \in Initializers |-> places'[j]]
      /\ k.item.what \in Initializers => places'[k.item.what] = places[k.item.what] \cup {"root"}
      /\ \A j \in Initializers : j # k.item.what => places'[j] = places[j]
  BY <1>1, <1>2, PlacesAfter
<1>4. cmd'[a].pc = "withdraw" /\ cmd'[a].item = k.item /\ cmd'[a].todo = k.todo
  BY <1>1, <1>2, GotoFields
<1>5. Quiet => Carries(a)'
  BY <1>1, <1>2, <1>3, <1>4 DEF Carries, Moves, Staged
<1>6. "withdraw" \in Moves /\ k.pc \in Moves BY <1>2 DEF Moves
<1> HIDE DEF IInv
<1> QED BY <1>2, <1>3, <1>5, <1>6, InvMoveOn

LEMMA InvWithdraw ==
  ASSUME IInv, NEW a \in Actors, Withdraw(a)
  PROVE  IInv'
<1> DEFINE k == cmd[a]
<1>1. Shapes /\ (Quiet => Carries(a)) BY Before DEF InOrder
<1>2. /\ k.pc = "withdraw" /\ Goto(a, "clear")
      /\ places' = [places EXCEPT ![k.item.what] = places[k.item.what] \ {"deployed"}]
      /\ UNCHANGED <<c, meta, box, due, overlapped, unserved>>
  BY DEF Withdraw, At
<1>3. /\ places' = [j \in Initializers |-> places'[j]]
      /\ k.item.what \in Initializers => places'[k.item.what] = places[k.item.what] \ {"deployed"}
      /\ \A j \in Initializers : j # k.item.what => places'[j] = places[j]
  BY <1>1, <1>2, PlacesAfter
<1>4. cmd'[a].pc = "clear" /\ cmd'[a].item = k.item /\ cmd'[a].todo = k.todo
  BY <1>1, <1>2, GotoFields
<1>5. Quiet => Carries(a)'
  BY <1>1, <1>2, <1>3, <1>4 DEF Carries, Moves, Staged
<1>6. "clear" \in Moves /\ k.pc \in Moves BY <1>2 DEF Moves
<1> HIDE DEF IInv
<1> QED BY <1>2, <1>3, <1>5, <1>6, InvMoveOn

LEMMA InvClear ==
  ASSUME IInv, NEW a \in Actors, Clear(a)
  PROVE  IInv'
<1> DEFINE k == cmd[a]
<1>1. Shapes /\ (Quiet => Carries(a)) BY Before DEF InOrder
<1>2. /\ k.pc = "clear" /\ Goto(a, "move")
      /\ places' = [places EXCEPT ![k.item.what] = places[k.item.what] \ {k.item.to}]
      /\ UNCHANGED <<c, meta, box, due, overlapped, unserved>>
  BY DEF Clear, At
<1>3. /\ places' = [j \in Initializers |-> places'[j]]
      /\ k.item.what \in Initializers => places'[k.item.what] = places[k.item.what] \ {k.item.to}
      /\ \A j \in Initializers : j # k.item.what => places'[j] = places[j]
  BY <1>1, <1>2, PlacesAfter
<1>4. cmd'[a].pc = "move" /\ cmd'[a].item = k.item /\ cmd'[a].todo = k.todo
  BY <1>1, <1>2, GotoFields
<1>5. Quiet => Carries(a)'
  BY <1>1, <1>2, <1>3, <1>4 DEF Carries, Moves, Staged
<1>6. "move" \in Moves /\ k.pc \in Moves BY <1>2 DEF Moves
<1> HIDE DEF IInv
<1> QED BY <1>2, <1>3, <1>5, <1>6, InvMoveOn

LEMMA InvMove ==
  ASSUME IInv, NEW a \in Actors, Move(a)
  PROVE  IInv'
<1> DEFINE k == cmd[a]
<1>1. Shapes /\ (Quiet => Carries(a)) BY Before DEF InOrder
<1>2. /\ k.pc = "move" /\ k.pc \in Moves
      /\ UNCHANGED <<c, meta, box, due, overlapped, unserved>>
  BY DEF Move, At, Moves
<1>3. CASE k.item.from \in places[k.item.what]
  <2>1. /\ Goto(a, "leave")
        /\ places' = [places EXCEPT ![k.item.what] = places[k.item.what] \cup {k.item.to}]
    BY <1>3 DEF Move, Arrives
  <2>2. /\ places' = [j \in Initializers |-> places'[j]]
        /\ k.item.what \in Initializers => places'[k.item.what] = places[k.item.what] \cup {k.item.to}
        /\ \A j \in Initializers : j # k.item.what => places'[j] = places[j]
    BY <1>1, <2>1, PlacesAfter
  <2>3. cmd'[a].pc = "leave" /\ cmd'[a].item = k.item /\ cmd'[a].todo = k.todo
    BY <1>1, <2>1, GotoFields
  <2>4. Quiet => Carries(a)'
    BY <1>1, <1>2, <2>2, <2>3 DEF Carries, Moves, Staged
  <2>5. "leave" \in Moves BY DEF Moves
  <2> HIDE DEF IInv
  <2> QED BY <1>2, <2>1, <2>2, <2>4, <2>5, InvMoveOn
<1>4. CASE k.item.from \notin places[k.item.what]
  <2>1. Moved(a) /\ UNCHANGED places BY <1>4 DEF Move
  <2>2. places' = [j \in Initializers |-> places'[j]] BY <1>1, <2>1 DEF Shapes
  <2>3. Quiet => k.todo \subseteq Staged' BY <1>1, <1>2, <2>1 DEF Carries, Staged
  <2> HIDE DEF IInv
  <2> QED BY <1>2, <2>1, <2>2, <2>3, InvMoved
<1> QED BY <1>3, <1>4

LEMMA InvLeave ==
  ASSUME IInv, NEW a \in Actors, Leave(a)
  PROVE  IInv'
<1> DEFINE k == cmd[a]
<1>1. Shapes /\ (Quiet => Carries(a)) BY Before DEF InOrder
<1>2. /\ k.pc = "leave" /\ k.pc \in Moves /\ Moved(a)
      /\ places' = [places EXCEPT ![k.item.what] = places[k.item.what] \ {k.item.from}]
      /\ UNCHANGED <<c, meta, box, due, overlapped, unserved>>
  BY DEF Leave, At, Moves
<1>3. /\ places' = [j \in Initializers |-> places'[j]]
      /\ \A j \in Initializers : j # k.item.what => places'[j] = places[j]
  BY <1>1, <1>2, PlacesAfter
<1>4. Quiet => k.todo \subseteq Staged' BY <1>1, <1>2, <1>3 DEF Carries, Staged
<1> HIDE DEF IInv
<1> QED BY <1>2, <1>3, <1>4, InvMoved
----------------------------------------------------------------------------
(* The rest of the world                                                   *)

\* A command of one step: none is in flight, or it overlaps.
LEMMA InvCounted ==
  ASSUME IInv, Counted, UNCHANGED <<c, places, cmd, unserved>>,
         IsMeta(meta'), IsBox(box'), box'.state = "up" => box.state = "up",
         box'.jars = box.jars,
         Quiet => (due' => meta'.reindex \/ unserved)
  PROVE  IInv'
<1>1. /\ Shapes /\ \A a \in Actors : Waits(a)
      /\ ~overlapped => Quiet
  BY DEF IInv
<1>2. Shapes' BY <1>1 DEF Shapes
<1>3. ASSUME NEW a \in Actors PROVE Waits(a)'
  BY <1>1 DEF Waits
<1>4. ASSUME ~overlapped' PROVE Quiet'
  <2>1. ~overlapped /\ \A a \in Actors : ~Active(a) BY <1>4 DEF Counted
  <2>2. \A a \in Actors : cmd'[a].pc = "idle" BY <2>1 DEF Active, At
  <2>3. ASSUME NEW a \in Actors PROVE InOrder(a)'
    <3>1. cmd'[a].pc = "idle" BY <2>2
    <3>2. Reindexes(a)' BY <3>1 DEF Reindexes, Prepares
    <3>3. Patches(a)' BY <3>1 DEF Patches
    <3>4. Carries(a)' BY <3>1 DEF Carries, Moves
    <3> QED BY <3>2, <3>3, <3>4 DEF InOrder
  <2>4. Alone' BY <2>2 DEF Alone, Active, At
  <2>5. box'.jars \subseteq c'.patches /\ (due' => meta'.reindex \/ unserved')
    BY <1>1, <2>1 DEF Quiet
  <2> QED BY <2>3, <2>4, <2>5 DEF Quiet
<1> QED BY <1>2, <1>3, <1>4 DEF IInv

\* Nothing is done to the project's files.
LEMMA InvOutside ==
  ASSUME IInv, PortalIsUp \/ PortalDies \/ OthersTake
  PROVE  IInv'
<1>1. /\ Shapes /\ \A a \in Actors : Waits(a) /\ IsCommand(cmd[a]) /\ Remembers(cmd[a])
      /\ ~overlapped => Quiet
      /\ IsBox(box)
  BY DEF IInv, Shapes
<1>2. UNCHANGED <<c, meta, file, places, due, overlapped, unserved>>
  BY DEF PortalIsUp, PortalDies, OthersTake
<1>3. /\ IsBox(box') /\ box'.reindex = box.reindex /\ box'.jars = box.jars
      /\ box'.loaded = box.loaded
      /\ box'.state = "up" => box.state = "up" \/ PortalIsUp
  <2>1. CASE PortalIsUp BY <1>1, <2>1 DEF PortalIsUp, IsBox
  <2>2. CASE PortalDies BY <1>1, <2>2 DEF PortalDies, IsBox
  <2>3. CASE OthersTake BY <1>1, <2>3 DEF OthersTake
  <2> QED BY <2>1, <2>2, <2>3
<1>4. ASSUME NEW a \in Actors
      PROVE  /\ IsCommand(cmd'[a])
             /\ \A f \in CommandFields \ {"unread", "served"} : cmd'[a][f] = cmd[a][f]
             /\ \/ cmd'[a] = cmd[a] /\ ~(PortalIsUp /\ cmd[a].pc = "poll")
                \/ cmd[a].pc = "poll" /\ cmd'[a].unread /\ cmd'[a].served
  <2>1. CASE PortalIsUp /\ At(a, "poll")
    <3>1. cmd'[a] = [cmd[a] EXCEPT !.unread = TRUE, !.served = TRUE] BY <2>1 DEF PortalIsUp
    <3> QED BY <1>1, <2>1, <3>1 DEF IsCommand, CommandFields, At
  <2>2. CASE PortalIsUp /\ ~At(a, "poll")
    <3>1. cmd'[a] = cmd[a] BY <2>2 DEF PortalIsUp
    <3> QED BY <1>1, <2>2, <3>1 DEF At
  <2>3. CASE ~PortalIsUp
    <3>1. cmd'[a] = cmd[a] BY <2>3 DEF PortalDies, OthersTake
    <3> QED BY <1>1, <2>3, <3>1
  <2> QED BY <2>1, <2>2, <2>3
<1>5. ASSUME NEW a \in Actors
      PROVE  /\ cmd'[a].kind = cmd[a].kind /\ cmd'[a].pc = cmd[a].pc
             /\ cmd'[a].mem = cmd[a].mem /\ cmd'[a].todo = cmd[a].todo
             /\ cmd'[a].item = cmd[a].item /\ cmd'[a].asked = cmd[a].asked
             /\ cmd'[a].booted = cmd[a].booted /\ cmd'[a].stale = cmd[a].stale
             /\ cmd'[a].outcome = cmd[a].outcome
  BY <1>4 DEF CommandFields
<1>6. cmd' = [a \in Actors |-> cmd'[a]]
  BY <1>1 DEF PortalIsUp, PortalDies, OthersTake, Shapes
<1>7. ASSUME NEW a \in Actors PROVE Remembers(cmd'[a])
  BY <1>1, <1>5 DEF Remembers
<1>8. Shapes' BY <1>1, <1>2, <1>3, <1>4, <1>6, <1>7 DEF Shapes
<1>9. ASSUME NEW a \in Actors PROVE Waits(a)'
  <2>1. Waits(a) BY <1>1
  <2>2. CASE cmd'[a] = cmd[a] /\ ~(PortalIsUp /\ cmd[a].pc = "poll")
    BY <1>3, <2>1, <2>2 DEF Waits
  <2>3. CASE cmd[a].pc = "poll" /\ cmd'[a].unread /\ cmd'[a].served
    BY <1>5, <2>1, <2>3 DEF Waits, Moves
  <2> QED BY <1>4, <2>2, <2>3
<1>10. ASSUME ~overlapped' PROVE Quiet'
  <2>1. Quiet BY <1>1, <1>2, <1>10
  <2>2. Alone' BY <1>5, <2>1 DEF Quiet, Alone, Active, At
  <2>3. ASSUME NEW a \in Actors PROVE InOrder(a)'
    <3>1. InOrder(a) BY <2>1 DEF Quiet
    <3>2. Reindexes(a)' BY <1>2, <1>3, <1>5, <3>1 DEF InOrder, Reindexes
    <3>3. Patches(a)' BY <1>2, <1>3, <1>5, <3>1 DEF InOrder, Patches
    <3>4. Carries(a)' BY <1>2, <1>5, <3>1 DEF InOrder, Carries, Staged
    <3> QED BY <3>2, <3>3, <3>4 DEF InOrder
  <2> QED BY <1>2, <1>3, <2>1, <2>2, <2>3 DEF Quiet
<1> QED BY <1>8, <1>9, <1>10 DEF IInv

LEMMA InvWorld ==
  ASSUME IInv, World
  PROVE  IInv'
<1>1. Shapes /\ IsMeta(meta) /\ IsBox(box) BY DEF IInv, Shapes
<1>2. CASE Reindex
  <2>1. /\ Counted /\ UNCHANGED <<c, places, cmd, unserved, box>>
        /\ meta' = [meta EXCEPT !.reindex = TRUE]
    BY <1>2 DEF Reindex
  <2>2. IsMeta(meta') /\ meta'.reindex BY <1>1, <2>1 DEF IsMeta
  <2> HIDE DEF IInv
  <2> QED BY <1>1, <2>1, <2>2, InvCounted
<1>3. CASE Stop
  <2>1. /\ Counted /\ UNCHANGED <<c, meta, places, cmd, due, unserved>>
        /\ box' = IF Running(box) THEN [box EXCEPT !.state = "exited"] ELSE box
    BY <1>3 DEF Stop
  <2>2. /\ IsBox(box') /\ box'.jars = box.jars
        /\ box'.state = "up" => box.state = "up"
    BY <1>1, <2>1 DEF IsBox
  <2>3. Quiet => (due' => meta'.reindex \/ unserved) BY <2>1 DEF Quiet
  <2> HIDE DEF IInv
  <2> QED BY <1>1, <2>1, <2>2, <2>3, InvCounted
<1>4. CASE StartAgain
  <2>1. /\ Counted /\ UNCHANGED <<c, meta, places, cmd, unserved>>
        /\ box' = Boot(box) /\ box.state # "absent"
        /\ due' => due
    BY <1>4 DEF StartAgain
  <2>2. /\ IsBox(box') /\ box'.jars = box.jars
        /\ box'.state = "up" => box.state = "up"
    BY <1>1, <2>1, BootFields
  <2>3. Quiet => (due' => meta'.reindex \/ unserved) BY <2>1 DEF Quiet
  <2> HIDE DEF IInv
  <2> QED BY <1>1, <2>1, <2>2, <2>3, InvCounted
<1>5. CASE PortalIsUp \/ PortalDies \/ OthersTake
  <2> HIDE DEF IInv
  <2> QED BY <1>5, InvOutside
<1> QED BY <1>2, <1>3, <1>4, <1>5 DEF World

----------------------------------------------------------------------------
LEMMA InvInit == Init => IInv
<1> SUFFICES ASSUME Init PROVE IInv OBVIOUS
<1>1. /\ cmd = [a \in Actors |-> Idle]
      /\ IsCommand(Idle) /\ Idle.kind = "none" /\ Idle.pc = "idle" /\ Idle.outcome = "none"
  BY IdleFields DEF Init
<1>2. IsMeta(meta) /\ IsBox(box) /\ box.jars = {} BY DEF Init, IsMeta, IsBox, NoBox
<1>3. Shapes BY <1>1, <1>2 DEF Init, Shapes, Remembers
<1>4. ASSUME NEW a \in Actors PROVE Waits(a) /\ InOrder(a) /\ ~Active(a)
  <2>1. cmd[a] = Idle BY <1>1
  <2>2. Waits(a) BY <1>1, <2>1 DEF Waits, Moves
  <2>3. Reindexes(a) BY <1>1, <2>1 DEF Reindexes, Prepares
  <2>4. Patches(a) BY <1>1, <2>1 DEF Patches
  <2>5. Carries(a) BY <1>1, <2>1 DEF Carries, Moves
  <2>6. ~Active(a) BY <1>1, <2>1 DEF Active, At
  <2> QED BY <2>2, <2>3, <2>4, <2>5, <2>6 DEF InOrder
<1>5. Quiet BY <1>2, <1>4 DEF Quiet, Alone, Init
<1> QED BY <1>3, <1>4, <1>5 DEF IInv

LEMMA InvNext ==
  ASSUME IInv, [Next]_vars
  PROVE  IInv'
<1>1. CASE UNCHANGED vars
  BY <1>1 DEF vars, IInv, Shapes, Waits, Quiet, Alone, Active, At, InOrder, Reindexes,
              Patches, Carries, Staged
<1> HIDE DEF IInv
<1>2. ASSUME NEW a \in Actors, RunSteps(a) PROVE IInv'
  BY <1>2, InvRun, InvStore, InvLook, InvScan, InvFindPort, InvFails, InvGenerate, InvCheck
     DEF RunSteps
<1>3. ASSUME NEW a \in Actors, ContainerSteps(a) PROVE IInv'
  BY <1>3, InvCreate, InvFails, InvRecreate, InvCopy, InvCopied, InvStart, InvRest
     DEF ContainerSteps
<1>4. ASSUME NEW a \in Actors, WaitSteps(a) PROVE IInv'
  BY <1>4, InvWait, InvPoll, InvFails, InvReindexed, InvPending, InvDeploy, InvDeployed, InvProbe
     DEF WaitSteps
<1>5. ASSUME NEW a \in Actors, MoveSteps(a) PROVE IInv'
  BY <1>5, InvSync, InvUnpack, InvWithdraw, InvHoldBack, InvClear, InvMove, InvLeave
     DEF MoveSteps
<1>6. ASSUME NEW a \in Actors, Killed(a) PROVE IInv'
  BY <1>6, InvFails
<1>7. CASE World BY <1>7, InvWorld
<1> QED BY <1>1, <1>2, <1>3, <1>4, <1>5, <1>6, <1>7 DEF Next

\* What the steps of all commands keep.
LEMMA Invariance == Spec => []IInv
  BY InvInit, InvNext, PTL DEF Spec

----------------------------------------------------------------------------
\* Whoever says that the portal is ready has waited while it came up, or found
\* it up, or read the line of an earlier boot: for any commands, killed or
\* overlapping (readiness.py:875-951).
THEOREM ReadyMeansServedHolds == Spec => []ReadyMeansServed
<1>1. IInv => ReadyMeansServed BY DEF IInv, Waits, ReadyMeansServed
<1> QED BY <1>1, Invariance, PTL

\* A reindex that was asked for stays on record until a boot has done it,
\* whatever fails or is killed (readiness.py:956-1043, run.py:1925-1938).
THEOREM ReindexIsNotLostHolds == Spec => []ReindexIsNotLost
<1>1. IInv => ReindexIsNotLost BY DEF IInv, Quiet, ReindexIsNotLost
<1> QED BY <1>1, Invariance, PTL

\* A run that has started the portal waits for one with all patches, for any
\* jars (run.py:2797-3058).
THEOREM PatchesAreInHolds == Spec => []PatchesAreIn
<1>1. IInv => PatchesAreIn BY DEF IInv, Quiet, InOrder, Patches, PatchesAreIn
<1> QED BY <1>1, Invariance, PTL

\* No step of a move leaves an initializer nowhere.
LEMMA NowhereIsNoEnd ==
  ASSUME IInv, [Next]_vars, NEW i \in Initializers, places'[i] = {}
  PROVE  places[i] = {} \/ overlapped
<1>1. SUFFICES ASSUME ~overlapped, places' # places PROVE places[i] = {}
  OBVIOUS
<1>2. PICK a \in Actors : Unpack(a) \/ Withdraw(a) \/ Clear(a) \/ Move(a) \/ Leave(a)
  BY <1>1 DEF Next, RunSteps, ContainerSteps, WaitSteps, MoveSteps, World, vars,
     Run, Store, Look, Scan, FindPort, Looked, Generate, Check, CheckFails, Create, DatabaseFails,
     Recreate, Copy, CopyFails, Copied, Start, Rest, RestFails, Wait, Poll, PollFails, Reindexed,
     Pending, Deploy, Deployed, Probe, Sync, HoldBack, Killed, Reindex, Stop, StartAgain,
     PortalIsUp, PortalDies, OthersTake
<1> DEFINE move == cmd[a].item
<1>3. Shapes /\ Carries(a) BY <1>1 DEF IInv, Quiet, InOrder
<1>4. CASE Unpack(a)
  <2>1. places' = [places EXCEPT ![move.what] = places[move.what] \cup {"root"}]
    BY <1>4 DEF Unpack
  <2> QED BY <1>3, <2>1, PlacesAfter
<1>5. CASE Withdraw(a)
  <2>1. /\ places' = [places EXCEPT ![move.what] = places[move.what] \ {"deployed"}]
        /\ "root" \in places[move.what]
    BY <1>3, <1>5 DEF Withdraw, At, Carries
  <2> QED BY <1>3, <2>1, PlacesAfter
<1>6. CASE Clear(a)
  <2>1. /\ places' = [places EXCEPT ![move.what] = places[move.what] \ {move.to}]
        /\ move.from \in places[move.what] /\ move.from # move.to
    BY <1>3, <1>6 DEF Clear, At, Carries, Moves
  <2> QED BY <1>3, <2>1, PlacesAfter
<1>7. CASE Move(a)
  <2>1. places' = [places EXCEPT ![move.what] = places[move.what] \cup {move.to}]
    BY <1>1, <1>7 DEF Move, Arrives
  <2> QED BY <1>3, <2>1, PlacesAfter
<1>8. CASE Leave(a)
  <2>1. /\ places' = [places EXCEPT ![move.what] = places[move.what] \ {move.from}]
        /\ move.to \in places[move.what] /\ move.from # move.to
    BY <1>3, <1>8 DEF Leave, At, Carries, Moves
  <2> QED BY <1>3, <2>1, PlacesAfter
<1> QED BY <1>2, <1>4, <1>5, <1>6, <1>7, <1>8

\* A site initializer that has reached the project stays in it, wherever a
\* move is killed (site_initializers.py:190-277, hydration.py:143-226).
THEOREM InitializerSurvivesHolds == Spec => InitializerSurvives
<1>1. ASSUME IInv, [Next]_vars
      PROVE  [\A i \in Initializers : places'[i] = {} => places[i] = {} \/ overlapped]_vars
  BY <1>1, NowhereIsNoEnd
<1> QED BY <1>1, Invariance, PTL DEF Spec, InitializerSurvives

----------------------------------------------------------------------------
(* Natural numbers                                                         *)

\* Every set of them has a least one.
LEMMA LeastOf ==
  ASSUME NEW T \in SUBSET Nat, T # {}
  PROVE  \E x \in T : \A y \in T : x <= y
<1> DEFINE R == OpToRel(<, Nat)
<1>1. IsWellFoundedOn(R, Nat) BY Zenon, NatLessThanWellFounded
<1>2. \A x, y \in Nat : x < y => <<x, y>> \in R BY Zenon DEF OpToRel
<1> HIDE DEF R
<1>3. PICK x \in T : \A y \in T : <<y, x>> \notin R BY <1>1, WFMin, Zenon
<1>4. \A y \in T : ~(y < x) BY <1>2, <1>3
<1> QED BY <1>4

\* What has 0, and with each number the next one, has them all.
LEMMA AllNumbers ==
  ASSUME NEW T \in SUBSET Nat, 0 \in T, \A n \in T : n + 1 \in T
  PROVE  T = Nat
<1>1. SUFFICES ASSUME Nat \ T # {} PROVE FALSE OBVIOUS
<1>2. PICK x \in Nat \ T : \A y \in Nat \ T : x <= y BY <1>1, LeastOf
<1>3. x - 1 \in T BY <1>2
<1> QED BY <1>2, <1>3

----------------------------------------------------------------------------
(* What descriptors say                                                    *)

\* The function that DescribedBy chooses is there.
LEMMA Described ==
  ASSUME NEW s, Len(s) \in Nat
  PROVE  \E u : u = [n \in 0..Len(s) |-> IF n = 0 THEN NoMetadata
                                         ELSE MergeMetadata(u[n - 1], s[n])]
<1> DEFINE Upto(m, u) == u = [n \in 0..m |-> IF n = 0 THEN NoMetadata
                                             ELSE MergeMetadata(u[n - 1], s[n])]
           T == {m \in Nat : \E u : Upto(m, u)}
<1>1. 0 \in T
  <2>1. Upto(0, [n \in 0..0 |-> NoMetadata]) OBVIOUS
  <2> QED BY <2>1
<1>2. ASSUME NEW m \in T PROVE m + 1 \in T
  <2>1. PICK u : Upto(m, u) OBVIOUS
  <2> DEFINE v == [n \in 0..(m + 1) |-> IF n = m + 1 THEN MergeMetadata(u[m], s[m + 1]) ELSE u[n]]
  <2>2. ASSUME NEW n \in 0..(m + 1)
        PROVE  v[n] = IF n = 0 THEN NoMetadata ELSE MergeMetadata(v[n - 1], s[n])
    <3>1. CASE n = m + 1
      <4>1. v[n] = MergeMetadata(u[m], s[n]) BY <3>1
      <4>2. v[n - 1] = u[m] BY <3>1
      <4> HIDE DEF v
      <4> QED BY <4>1, <4>2, <3>1
    <3>2. CASE n # m + 1
      <4>1. n \in 0..m /\ v[n] = u[n] BY <3>2
      <4>2. n # 0 => v[n - 1] = u[n - 1] BY <3>2
      <4> HIDE DEF v
      <4> QED BY <4>1, <4>2, <2>1
    <3> QED BY <3>1, <3>2
  <2>3. v = [n \in 0..(m + 1) |-> v[n]] OBVIOUS
  <2> HIDE DEF v
  <2>4. Upto(m + 1, v) BY <2>2, <2>3
  <2>5. m \in Nat /\ m + 1 \in Nat OBVIOUS
  <2> HIDE DEF Upto, v
  <2> QED BY <2>4, <2>5, Zenon
<1>3. T = Nat
  <2> HIDE DEF T
  <2>1. T \in SUBSET Nat BY DEF T
  <2> QED BY <1>1, <1>2, <2>1, AllNumbers
<1> QED BY <1>3

LEMMA DescribedStepwise ==
  ASSUME NEW s, Len(s) \in Nat
  PROVE  \E u : /\ DescribedBy(s) = u[Len(s)]
                /\ u[0] = NoMetadata
                /\ \A n \in 1..Len(s) : u[n] = MergeMetadata(u[n - 1], s[n])
<1> DEFINE u == CHOOSE f : f = [n \in 0..Len(s) |-> IF n = 0 THEN NoMetadata
                                         ELSE MergeMetadata(f[n - 1], s[n])]
<1>1. u = [n \in 0..Len(s) |-> IF n = 0 THEN NoMetadata ELSE MergeMetadata(u[n - 1], s[n])]
  BY Described, Zenon
<1>2. DescribedBy(s) = u[Len(s)] BY Zenon DEF DescribedBy
<1> HIDE DEF u
<1>3. u[0] = NoMetadata BY <1>1
<1>4. \A n \in 1..Len(s) : u[n] = MergeMetadata(u[n - 1], s[n]) BY <1>1
<1> QED BY <1>2, <1>3, <1>4

\* What is known of an extension when descriptors up to the n-th were merged.
Heard(info, s, n) ==
  /\ info = [f \in {"type", "kind", "deploy", "ports", "balancer", "probe", "erc"} |-> info[f]]
  /\ \A i \in 1..n : s[i].file = "yaml" => info.type = s[i].type
  /\ (\A i \in 1..n : s[i].file # "yaml") => info.type = "unset"
  /\ \A i \in 1..n : s[i].file = "LCP.json" =>
       /\ info.kind = s[i].kind /\ info.deploy = s[i].deploy /\ info.ports = s[i].ports
       /\ info.balancer = s[i].balancer /\ info.probe = s[i].probe
  /\ (\A i \in 1..n : s[i].file # "LCP.json") =>
       /\ info.kind = "unset" /\ info.deploy = TRUE /\ info.ports = <<>>
       /\ info.balancer = 0 /\ info.probe = FALSE

\* Each kind of descriptor once.
Once(s) == \A i, j \in 1..Len(s) : s[i].file = s[j].file => i = j

LEMMA HeardNext ==
  ASSUME NEW s \in Seq(Descriptors), Once(s), NEW n \in Nat, n + 1 <= Len(s),
         NEW info, Heard(info, s, n)
  PROVE  Heard(MergeMetadata(info, s[n + 1]), s, n + 1)
<1> DEFINE d == s[n + 1]
           new == MergeMetadata(info, d)
<1>0. SUFFICES Heard(new, s, n + 1) OBVIOUS
<1>1. /\ d \in Descriptors
      /\ d.file \in {"yaml", "LCP.json", "config"} /\ d.ports \in Seq([port : Nat, external : BOOLEAN])
  <2>1. n + 1 \in 1..Len(s) OBVIOUS
  <2>2. d \in Descriptors BY <2>1
  <2> HIDE DEF d
  <2> QED BY <2>2 DEF Descriptors
<1>2. \A i \in 1..n : i \in 1..Len(s) /\ n + 1 \in 1..Len(s) /\ i # n + 1 OBVIOUS
<1>3. \A i \in 1..n : s[i].file # d.file BY <1>2 DEF Once
<1>4. \A i \in 1..(n + 1) : i \in 1..n \/ s[i] = d OBVIOUS
<1>5. 1..n \subseteq 1..(n + 1) /\ n + 1 \in 1..(n + 1) OBVIOUS
<1>6. info = [f \in {"type", "kind", "deploy", "ports", "balancer", "probe", "erc"} |-> info[f]]
  BY DEF Heard
<1>7. s[n + 1] = d OBVIOUS
<1> HIDE DEF d
<1>8. CASE d.file = "yaml"
  <2>1. new = MergeYaml(info, d) BY <1>8 DEF MergeMetadata
  <2>2. (\A i \in 1..n : s[i].file # "yaml") BY <1>3, <1>8
  <2>3. info.type = "unset" BY <2>2 DEF Heard
  <2>4. /\ new = [f \in {"type", "kind", "deploy", "ports", "balancer", "probe", "erc"} |-> new[f]]
        /\ new.type = d.type /\ new.kind = info.kind /\ new.deploy = info.deploy
        /\ new.ports = info.ports /\ new.balancer = info.balancer /\ new.probe = info.probe
    BY <1>6, <2>1, <2>3 DEF MergeYaml, Kept
  <2> HIDE DEF new
  <2>5. \A i \in 1..(n + 1) : s[i].file = "yaml" => new.type = s[i].type BY <1>4, <2>2, <2>4
  <2>6. ~ \A i \in 1..(n + 1) : s[i].file # "yaml" BY <1>5, <1>7, <1>8
  <2>7. \A i \in 1..(n + 1) : s[i].file = "LCP.json" =>
          /\ new.kind = s[i].kind /\ new.deploy = s[i].deploy /\ new.ports = s[i].ports
          /\ new.balancer = s[i].balancer /\ new.probe = s[i].probe
    BY <1>4, <1>8, <2>4 DEF Heard
  <2>8. (\A i \in 1..(n + 1) : s[i].file # "LCP.json") =>
          /\ new.kind = "unset" /\ new.deploy = TRUE /\ new.ports = <<>>
          /\ new.balancer = 0 /\ new.probe = FALSE
    BY <1>5, <2>4 DEF Heard
  <2> QED BY <2>4, <2>5, <2>6, <2>7, <2>8 DEF Heard
<1>9. CASE d.file = "LCP.json"
  <2>1. new = MergeLcp(info, d) BY <1>9 DEF MergeMetadata
  <2>2. (\A i \in 1..n : s[i].file # "LCP.json") BY <1>3, <1>9
  <2>3. info.kind = "unset" /\ info.ports = <<>> /\ info.balancer = 0 /\ info.probe = FALSE
    BY <2>2 DEF Heard
  <2>4. info.ports \o d.ports = d.ports BY <1>1, <2>3
  <2>5. d.balancer \in Nat /\ d.probe \in BOOLEAN BY <1>1 DEF Descriptors
  <2>6. /\ new = [f \in {"type", "kind", "deploy", "ports", "balancer", "probe", "erc"} |-> new[f]]
        /\ new.type = info.type /\ new.kind = d.kind /\ new.deploy = d.deploy
        /\ new.ports = d.ports /\ new.balancer = d.balancer /\ new.probe = d.probe
    BY <1>1, <1>6, <2>1, <2>3, <2>4, <2>5 DEF MergeLcp, Kept
  <2> HIDE DEF new
  <2>7. \A i \in 1..(n + 1) : s[i].file = "LCP.json" =>
          /\ new.kind = s[i].kind /\ new.deploy = s[i].deploy /\ new.ports = s[i].ports
          /\ new.balancer = s[i].balancer /\ new.probe = s[i].probe
    BY <1>4, <2>2, <2>6
  <2>8. ~ \A i \in 1..(n + 1) : s[i].file # "LCP.json" BY <1>5, <1>7, <1>9
  <2>9. \A i \in 1..(n + 1) : s[i].file = "yaml" => new.type = s[i].type
    BY <1>4, <1>9, <2>6 DEF Heard
  <2>10. (\A i \in 1..(n + 1) : s[i].file # "yaml") => new.type = "unset"
    BY <1>5, <2>6 DEF Heard
  <2> QED BY <2>6, <2>7, <2>8, <2>9, <2>10 DEF Heard
<1>10. CASE d.file = "config"
  <2>1. new = MergeConfig(info, d) BY <1>10 DEF MergeMetadata
  <2>2. /\ new = [f \in {"type", "kind", "deploy", "ports", "balancer", "probe", "erc"} |-> new[f]]
        /\ new.type = info.type /\ new.kind = info.kind /\ new.deploy = info.deploy
        /\ new.ports = info.ports /\ new.balancer = info.balancer /\ new.probe = info.probe
    BY <1>6, <2>1 DEF MergeConfig
  <2> HIDE DEF new
  <2>3. \A i \in 1..(n + 1) : s[i].file = "LCP.json" =>
          /\ new.kind = s[i].kind /\ new.deploy = s[i].deploy /\ new.ports = s[i].ports
          /\ new.balancer = s[i].balancer /\ new.probe = s[i].probe
    BY <1>4, <1>10, <2>2 DEF Heard
  <2>4. (\A i \in 1..(n + 1) : s[i].file # "LCP.json") =>
          /\ new.kind = "unset" /\ new.deploy = TRUE /\ new.ports = <<>>
          /\ new.balancer = 0 /\ new.probe = FALSE
    BY <1>5, <2>2 DEF Heard
  <2>5. \A i \in 1..(n + 1) : s[i].file = "yaml" => new.type = s[i].type
    BY <1>4, <1>10, <2>2 DEF Heard
  <2>6. (\A i \in 1..(n + 1) : s[i].file # "yaml") => new.type = "unset"
    BY <1>5, <2>2 DEF Heard
  <2> QED BY <2>2, <2>3, <2>4, <2>5, <2>6 DEF Heard
<1> QED BY <1>1, <1>8, <1>9, <1>10

\* Of descriptors that are there once each, the order does not matter.
LEMMA HeardAll ==
  ASSUME NEW s \in Seq(Descriptors), Once(s)
  PROVE  Heard(DescribedBy(s), s, Len(s))
<1>1. PICK u : /\ DescribedBy(s) = u[Len(s)]
               /\ u[0] = NoMetadata
               /\ \A n \in 1..Len(s) : u[n] = MergeMetadata(u[n - 1], s[n])
  BY DescribedStepwise
<1> DEFINE T == {n \in Nat : n <= Len(s) => Heard(u[n], s, n)}
<1>2. 0 \in T
  <2>1. Heard(NoMetadata, s, 0) BY DEF Heard, NoMetadata
  <2> QED BY <1>1, <2>1
<1>3. ASSUME NEW n \in T PROVE n + 1 \in T
  <2>1. SUFFICES ASSUME n + 1 <= Len(s) PROVE Heard(u[n + 1], s, n + 1) OBVIOUS
  <2>2. n \in Nat /\ n <= Len(s) /\ n + 1 \in 1..Len(s) BY <2>1
  <2>3. Heard(u[n], s, n) BY <2>2
  <2>4. u[n + 1] = MergeMetadata(u[n], s[n + 1]) BY <1>1, <2>2
  <2> HIDE DEF T
  <2> QED BY <2>1, <2>2, <2>3, <2>4, HeardNext
<1>4. T = Nat
  <2>1. T \in SUBSET Nat OBVIOUS
  <2> HIDE DEF T
  <2> QED BY <1>2, <1>3, <2>1, AllNumbers
<1>5. Len(s) \in T BY <1>4
<1> QED BY <1>1, <1>5

\* Two lists of the same descriptors.
Alike(s, t) ==
  /\ \A i \in 1..Len(s) : \E j \in 1..Len(t) : s[i] = t[j]
  /\ \A j \in 1..Len(t) : \E i \in 1..Len(s) : s[i] = t[j]

LEMMA SaidAlike ==
  ASSUME NEW s \in Seq(Descriptors), Once(s), NEW t \in Seq(Descriptors), Once(t), Alike(s, t)
  PROVE  LET a == DescribedBy(s)
             b == DescribedBy(t)
         IN  /\ a.type = b.type /\ a.kind = b.kind /\ a.deploy = b.deploy
             /\ [a EXCEPT !.erc = "unset"] = [b EXCEPT !.erc = "unset"]
<1> DEFINE a == DescribedBy(s)
           b == DescribedBy(t)
<1>1. Heard(a, s, Len(s)) /\ Heard(b, t, Len(t)) BY HeardAll
<1> HIDE DEF a, b
<1>2. a.type = b.type
  <2>1. CASE \E i \in 1..Len(s) : s[i].file = "yaml"
    <3>1. PICK i \in 1..Len(s) : s[i].file = "yaml" BY <2>1
    <3>2. PICK j \in 1..Len(t) : s[i] = t[j] BY DEF Alike
    <3> QED BY <1>1, <3>1, <3>2 DEF Heard
  <2>2. CASE \A i \in 1..Len(s) : s[i].file # "yaml"
    <3>1. \A j \in 1..Len(t) : t[j].file # "yaml" BY <2>2 DEF Alike
    <3> QED BY <1>1, <2>2, <3>1 DEF Heard
  <2> QED BY <2>1, <2>2
<1>3. /\ a.kind = b.kind /\ a.deploy = b.deploy /\ a.ports = b.ports
      /\ a.balancer = b.balancer /\ a.probe = b.probe
  <2>1. CASE \E i \in 1..Len(s) : s[i].file = "LCP.json"
    <3>1. PICK i \in 1..Len(s) : s[i].file = "LCP.json" BY <2>1
    <3>2. PICK j \in 1..Len(t) : s[i] = t[j] BY DEF Alike
    <3> QED BY <1>1, <3>1, <3>2 DEF Heard
  <2>2. CASE \A i \in 1..Len(s) : s[i].file # "LCP.json"
    <3>1. \A j \in 1..Len(t) : t[j].file # "LCP.json" BY <2>2 DEF Alike
    <3> QED BY <1>1, <2>2, <3>1 DEF Heard
  <2> QED BY <2>1, <2>2
<1>4. /\ a = [f \in {"type", "kind", "deploy", "ports", "balancer", "probe", "erc"} |-> a[f]]
      /\ b = [f \in {"type", "kind", "deploy", "ports", "balancer", "probe", "erc"} |-> b[f]]
  BY <1>1 DEF Heard
<1>5. [a EXCEPT !.erc = "unset"] = [b EXCEPT !.erc = "unset"] BY <1>2, <1>3, <1>4
<1> QED BY <1>2, <1>3, <1>5 DEF a, b

LEMMA FirstOf ==
  ASSUME NEW x \in Archives, Flat(x), NEW kind
  PROVE  \/ /\ First(x, kind) = <<>>
            /\ \A i \in 1..Len(x.files) : x.files[i].file # kind
         \/ \E i \in 1..Len(x.files) : /\ First(x, kind) = <<x.files[i]>>
                                       /\ x.files[i].file = kind
<1> DEFINE at == {i \in DOMAIN x.files : x.files[i].file = kind /\ x.files[i].top}
<1>1. x.files \in Seq(Descriptors) /\ DOMAIN x.files = 1..Len(x.files) BY DEF Archives
<1>2. \A i, j \in 1..Len(x.files) :
        x.files[i].top /\ (x.files[i].file = x.files[j].file => i = j)
  BY <1>1 DEF Flat
<1>3. CASE at = {}
  <2>1. First(x, kind) = <<>> BY <1>3 DEF First
  <2> QED BY <1>1, <1>2, <1>3, <2>1
<1>4. CASE at # {}
  <2>1. PICK i \in at : TRUE BY <1>4
  <2>2. \A j \in at : j = i BY <1>1, <1>2
  <2>3. at = {i} BY <2>1, <2>2
  <2>4. i \in 1..Len(x.files) /\ x.files[i].file = kind BY <1>1
  <2> HIDE DEF at
  <2>5. (CHOOSE k \in at : \A j \in at : k <= j) = i BY <2>3, <2>4
  <2>6. First(x, kind) = <<x.files[i]>> BY <1>4, <2>5 DEF First, at
  <2> QED BY <2>4, <2>6
<1> QED BY <1>3, <1>4

LEMMA FolderSaysTheSame ==
  ASSUME NEW x \in Archives, Flat(x)
  PROVE  LET a == FolderMetadata(x)
             b == ZipMetadata(x)
         IN  /\ a.type = b.type /\ a.kind = b.kind /\ a.deploy = b.deploy
             /\ [a EXCEPT !.erc = "unset"] = [b EXCEPT !.erc = "unset"]
<1> DEFINE s == x.files
           y == First(x, "yaml")
           l == First(x, "LCP.json")
           g == First(x, "config")
           t == y \o l \o g
<1>1. s \in Seq(Descriptors) BY DEF Archives
<1>2. Once(s) BY <1>1 DEF Flat, Once
<1>3. \/ y = <<>> /\ \A i \in 1..Len(s) : s[i].file # "yaml"
      \/ \E i \in 1..Len(s) : y = <<s[i]>> /\ s[i].file = "yaml"
  BY FirstOf
<1>4. \/ l = <<>> /\ \A i \in 1..Len(s) : s[i].file # "LCP.json"
      \/ \E i \in 1..Len(s) : l = <<s[i]>> /\ s[i].file = "LCP.json"
  BY FirstOf
<1>5. \/ g = <<>> /\ \A i \in 1..Len(s) : s[i].file # "config"
      \/ \E i \in 1..Len(s) : g = <<s[i]>> /\ s[i].file = "config"
  BY FirstOf
<1>6. \A i \in 1..Len(s) : s[i] \in Descriptors /\ s[i].file \in {"yaml", "LCP.json", "config"}
  <2>1. \A i \in 1..Len(s) : s[i] \in Descriptors BY <1>1
  <2> QED BY <2>1 DEF Descriptors
<1> HIDE DEF s, y, l, g
<1>7. y \in Seq(Descriptors) /\ l \in Seq(Descriptors) /\ g \in Seq(Descriptors)
  <2>1. \A d \in Descriptors : <<d>> \in Seq(Descriptors) OBVIOUS
  <2>2. <<>> \in Seq(Descriptors) OBVIOUS
  <2>3. y \in Seq(Descriptors) BY <1>3, <1>6, <2>1, <2>2, Zenon
  <2>4. l \in Seq(Descriptors) BY <1>4, <1>6, <2>1, <2>2, Zenon
  <2>5. g \in Seq(Descriptors) BY <1>5, <1>6, <2>1, <2>2, Zenon
  <2> QED BY <2>3, <2>4, <2>5
<1>8. t \in Seq(Descriptors) BY <1>7
<1>9. /\ Len(t) = Len(y) + Len(l) + Len(g)
      /\ \A i \in 1..Len(y) : t[i] = y[i]
      /\ \A i \in 1..Len(l) : t[Len(y) + i] = l[i]
      /\ \A i \in 1..Len(g) : t[Len(y) + Len(l) + i] = g[i]
  BY <1>7
<1> HIDE DEF t
<1>10. Len(y) \in {0, 1} /\ Len(l) \in {0, 1} /\ Len(g) \in {0, 1}
  BY <1>3, <1>4, <1>5
<1>11. \A i \in 1..Len(t) : \/ i = 1 /\ Len(y) = 1 /\ t[i] = y[1]
                            \/ i = Len(y) + 1 /\ Len(l) = 1 /\ t[i] = l[1]
                            \/ i = Len(y) + Len(l) + 1 /\ Len(g) = 1 /\ t[i] = g[1]
  BY <1>9, <1>10
<1>12. /\ Len(y) = 1 => y[1].file = "yaml" /\ \E i \in 1..Len(s) : y[1] = s[i]
       /\ Len(l) = 1 => l[1].file = "LCP.json" /\ \E i \in 1..Len(s) : l[1] = s[i]
       /\ Len(g) = 1 => g[1].file = "config" /\ \E i \in 1..Len(s) : g[1] = s[i]
  BY <1>3, <1>4, <1>5
<1>13. Once(t) BY <1>11, <1>12 DEF Once
<1>14. \A i \in 1..Len(t) : \E j \in 1..Len(s) : t[i] = s[j] BY <1>11, <1>12
<1>15. ASSUME NEW j \in 1..Len(s) PROVE \E i \in 1..Len(t) : t[i] = s[j]
  <2>1. CASE s[j].file = "yaml"
    <3>1. y = <<s[j]>> BY <1>2, <1>3, <2>1 DEF Once
    <3> QED BY <3>1, <1>9, <1>10
  <2>2. CASE s[j].file = "LCP.json"
    <3>1. l = <<s[j]>> BY <1>2, <1>4, <2>2 DEF Once
    <3> QED BY <3>1, <1>9, <1>10
  <2>3. CASE s[j].file = "config"
    <3>1. g = <<s[j]>> BY <1>2, <1>5, <2>3 DEF Once
    <3> QED BY <3>1, <1>9, <1>10
  <2> QED BY <1>6, <2>1, <2>2, <2>3
<1>16. Alike(t, s) BY <1>14, <1>15 DEF Alike
<1>17. LET a == DescribedBy(t)
           b == DescribedBy(s)
       IN  /\ a.type = b.type /\ a.kind = b.kind /\ a.deploy = b.deploy
           /\ [a EXCEPT !.erc = "unset"] = [b EXCEPT !.erc = "unset"]
  BY <1>1, <1>2, <1>8, <1>13, <1>16, SaidAlike
<1> QED BY <1>17, Zenon DEF FolderMetadata, ZipMetadata, s, t, y, l, g

\* The two scans make the same of every extension.
LEMMA ScansAgreeHolds ==
  ASSUME NEW e, e.built \in Archives, e.unpacked \in Archives
  PROVE  ScansAgree(e)
<1>1. SUFFICES ASSUME Flat(e.built)
               PROVE  /\ IsServiceZip(e.built) =>
                           [Metadata(e) EXCEPT !.erc = "unset"] = [PortMetadata(e) EXCEPT !.erc = "unset"]
                      /\ e.unpacked = NoContents => (IsService(e) <=> IsServiceZip(e.built))
  BY DEF ScansAgree
<1> DEFINE f == FolderMetadata(e.built)
           z == ZipMetadata(e.built)
<1>2. /\ f.type = z.type /\ f.kind = z.kind /\ f.deploy = z.deploy
      /\ [f EXCEPT !.erc = "unset"] = [z EXCEPT !.erc = "unset"]
  BY <1>1, FolderSaysTheSame
<1>3. e.built.docker \in {"none", "top"}
  <2>1. e.built.docker \in {"none", "top", "below"} BY DEF Archives
  <2> QED BY <1>1, <2>1 DEF Flat
<1> HIDE DEF f, z
<1>4. ASSUME IsServiceZip(e.built)
      PROVE  /\ [Metadata(e) EXCEPT !.erc = "unset"] = [PortMetadata(e) EXCEPT !.erc = "unset"]
             /\ IsService(e)
  <2>1. Folder(e) = e.built BY <1>4 DEF Folder
  <2>2. PortMetadata(e) = z BY <1>4 DEF PortMetadata, z
  <2>3. e.built.docker = "top" /\ z.kind # "Job" /\ z.deploy
    BY <1>3, <1>4 DEF IsServiceZip, z
  <2>4. CASE IsExtensionFolder(e.built)
    <3>1. Metadata(e) = f BY <2>1, <2>4 DEF Metadata, f
    <3>2. IsService(e) BY <1>2, <2>1, <2>3, <2>4, <3>1 DEF IsService
    <3> QED BY <1>2, <2>2, <3>1, <3>2
  <2>5. CASE ~IsExtensionFolder(e.built)
    <3>1. Metadata(e) = z BY <2>1, <2>5 DEF Metadata, z
    <3>2. IsService(e) BY <1>4, <2>1, <2>5 DEF IsService
    <3> QED BY <2>2, <3>1, <3>2
  <2> QED BY <2>4, <2>5
<1>5. ASSUME e.unpacked = NoContents, ~IsServiceZip(e.built) PROVE ~IsService(e)
  <2>1. Folder(e) = NoContents BY <1>5 DEF Folder
  <2>2. ~IsExtensionFolder(NoContents)
    <3>1. NoContents.files = <<>> BY DEF NoContents
    <3>2. First(NoContents, "yaml") = <<>> /\ First(NoContents, "LCP.json") = <<>>
          /\ First(NoContents, "config") = <<>>
      BY <3>1 DEF First
    <3> DEFINE none == (<<>> \o <<>>) \o <<>>
    <3>3. none \in Seq(Descriptors) /\ Len(none) = 0 OBVIOUS
    <3>4. FolderMetadata(NoContents) = DescribedBy(none) BY <3>2, Zenon DEF FolderMetadata
    <3> HIDE DEF none
    <3>5. Once(none) BY <3>3 DEF Once
    <3>6. Heard(DescribedBy(none), none, Len(none)) BY <3>3, <3>5, HeardAll
    <3>7. DescribedBy(none).type = "unset" BY <3>3, <3>6 DEF Heard
    <3> QED BY <3>1, <3>4, <3>7 DEF IsExtensionFolder
  <2> QED BY <1>5, <2>1, <2>2 DEF IsService
<1> QED BY <1>4, <1>5

----------------------------------------------------------------------------
(* Addresses                                                               *)

LEMMA DefaultIsKnown ==
  ASSUME Usual(c)
  PROVE  DefaultDomain(c) \in Known(c)
<1>1. c.ownDomains \in Seq(STRING) BY DEF Usual
<1>2. CASE c.ownDomains # <<>>
  <2>1. 1 \in DOMAIN c.ownDomains BY <1>1, <1>2
  <2>2. c.ownDomains[1] \in {c.ownDomains[i] : i \in DOMAIN c.ownDomains} BY <2>1
  <2> QED BY <1>2, <2>2, Zenon DEF Known, DefaultDomain
<1>3. CASE c.ownDomains = <<>>
  <2>1. 1 \in DOMAIN SeedDomains BY DEF SeedDomains
  <2>2. SeedDomains[1] \in {SeedDomains[i] : i \in DOMAIN SeedDomains} BY <2>1
  <2> QED BY <1>3, <2>2, Zenon DEF Known, DefaultDomain
<1> QED BY <1>2, <1>3

\* The portal and its sidecar work the address out alike.
LEMMA AddressesAgreeHolds ==
  ASSUME Usual(c)
  PROVE  AddressesAgree
<1> DEFINE known == Known(c)
           d == DefaultDomain(c)
           base(x) == IF x = HostOnSe /\ "se" \in known THEN "se" ELSE x
           share == ShareDomain(c, "unset")
           side == GatewayOf(c, Given(c.domainArg, RecordedDomain(c)))
<1>1. d \in known BY DefaultIsKnown
<1>2. /\ "unset" \notin known /\ "default" \notin known /\ HostOnSe \notin known
      /\ c.gatewayEnv # HostOnSe
  BY DEF Usual
<1>3. \A x : BaseOf(c, x) = base(x) BY Zenon DEF BaseOf
<1>4. share = base(Given(IF c.domainArg = "default" THEN d ELSE c.domainArg,
                         Given(c.globalDomain, d)))
  BY <1>3 DEF ShareDomain, Given
<1>5. RecordedDomain(c) = base(Given(IF c.domainArg = "default" THEN d ELSE c.domainArg,
                                     Given(c.domain, Given(c.globalDomain, d))))
  BY <1>3 DEF ShareDomain, RecordedDomain, Given
<1>6. \A x : GatewayOf(c, x) = IF x \in known THEN x ELSE d BY Zenon DEF GatewayOf
<1>7. DialledGateway(c) = Given(c.gatewayEnv, side)
  BY DEF DialledGateway, EnvFileGateway, SidecarGateway, Given
<1>8. c.announced = "unset" => PublicDomain(c) = base(Given(c.gatewayEnv, share))
  BY <1>3 DEF PublicDomain, Given
<1>9. HasTunnel(c) /\ ~c.tunnelCors => WebHost(c) = PublicDomain(c)
  BY DEF WebHost, HasTunnel, IsTunnel
<1>10. c.gatewayEnv = "unset" /\ ~c.tunnelCors => DialledGateway(c) \in ValidHosts(c)
  BY <1>1, <1>6, <1>7 DEF ValidHosts, Given
<1>11. ASSUME c.announced = "unset", PublicDomain(c) \in known, ~Misread
       PROVE  DialledGateway(c) = PublicDomain(c)
  <2>1. CASE c.gatewayEnv # "unset"
    BY <1>2, <1>7, <1>8, <1>11, <2>1 DEF Given
  <2>2. CASE c.gatewayEnv = "unset"
    <3>1. PublicDomain(c) = base(share) /\ DialledGateway(c) = side
      BY <1>7, <1>8, <1>11, <2>2 DEF Given
    <3>2. CASE c.domainArg = "unset"
      <4>1. c.domain = "unset" BY <1>11, <2>2, <3>2 DEF Misread
      <4>2. RecordedDomain(c) = share BY <1>4, <1>5, <3>2, <4>1 DEF Given
      <4>3. side = GatewayOf(c, share) BY <3>2, <4>2 DEF Given
      <4>4. base(share) = share BY <1>4 DEF HostOnSe
      <4> QED BY <1>6, <1>11, <3>1, <4>3, <4>4
    <3>3. CASE c.domainArg # "unset"
      <4>1. c.domainArg # HostOnSe BY <1>11, <2>2, <3>3 DEF Misread
      <4>2. side = GatewayOf(c, c.domainArg) BY <3>3 DEF Given
      <4>3. CASE c.domainArg = "default"
        <5>1. share = d BY <1>1, <1>2, <1>4, <4>3 DEF Given
        <5>2. base(share) = d BY <1>1, <1>2, <5>1
        <5>3. side = d BY <1>2, <1>6, <4>2, <4>3
        <5> QED BY <3>1, <5>2, <5>3
      <4>4. CASE c.domainArg # "default"
        <5>1. share = c.domainArg BY <1>4, <3>3, <4>1, <4>4 DEF Given
        <5>2. base(share) = c.domainArg BY <4>1, <5>1
        <5> QED BY <1>6, <1>11, <3>1, <4>2, <5>2
      <4> QED BY <4>3, <4>4
    <3> QED BY <3>2, <3>3
  <2> QED BY <2>1, <2>2
<1> HIDE DEF known
<1> QED BY <1>9, <1>10, <1>11 DEF AddressesAgree, known

----------------------------------------------------------------------------
(* Services                                                                *)

\* Names of different kinds are different.
LEMMA NamesDiffer ==
  /\ Portal \notin {KibanaName, NgrokName, TunnelName, KeycloakName, Database}
  /\ Database \notin {KibanaName, NgrokName, TunnelName, KeycloakName}
  /\ \A e : ExtName(e) \notin {Portal, KibanaName, NgrokName, TunnelName, KeycloakName}
  /\ \A e, k : CustomName(k) # ExtName(e)
  /\ \A k : CustomName(k) # Database
  /\ \A d, e : ExtName(d) = ExtName(e) => d.id = e.id
<1>1. \A x, y, z : <<x>> # <<y, z>> OBVIOUS
<1>2. \A x, y : <<x>> = <<y>> => x = y OBVIOUS
<1>3. \A x, y, z : <<x, y>> = <<x, z>> => y = z OBVIOUS
<1>4. Portal \notin {KibanaName, NgrokName, TunnelName, KeycloakName, Database}
  BY <1>1, <1>2 DEF Portal, KibanaName, NgrokName, TunnelName, KeycloakName, Database
<1>5. Database \notin {KibanaName, NgrokName, TunnelName, KeycloakName}
  BY <1>1, Zenon DEF KibanaName, NgrokName, TunnelName, KeycloakName, Database
<1>6. \A e : ExtName(e) \notin {Portal, KibanaName, NgrokName, TunnelName, KeycloakName}
  BY <1>1, Zenon DEF Portal, KibanaName, NgrokName, TunnelName, KeycloakName, ExtName
<1>7. \A e, k : CustomName(k) # ExtName(e) BY <1>1, Zenon DEF CustomName, ExtName
<1>8. \A k : CustomName(k) # Database BY <1>1, Zenon DEF CustomName, Database
<1>9. \A d, e : ExtName(d) = ExtName(e) => d.id = e.id BY <1>3, Zenon DEF ExtName
<1> QED BY <1>4, <1>5, <1>6, <1>7, <1>8, <1>9

\* What each service of a file is.
LEMMA GeneratedServices ==
  ASSUME Usual(c), NEW ports
  PROVE  LET g == Services(c, ports)
         IN  /\ Portal \in DOMAIN g /\ g[Portal] = PortalService(c)
             /\ OwnsDatabase(c) => Database \in DOMAIN g /\ g[Database] = DatabaseService(c)
             /\ \A e \in ServiceExts(c) :
                  ExtName(e) \in DOMAIN g /\ g[ExtName(e)] = ExtService(c, e, ports)
             /\ \A k \in Customs(c) : CustomName(k) \in DOMAIN g
             /\ \A s \in DOMAIN g :
                  \/ s = Portal
                  \/ s = Database /\ OwnsDatabase(c)
                  \/ \E e \in ServiceExts(c) : s = ExtName(e)
                  \/ \E k \in Customs(c) : g[s] = CustomService(k)
                  \/ g[s] \in {KibanaService, NgrokService, TunnelService(c)}
<1> DEFINE own == {Portal} \cup (IF OwnsDatabase(c) THEN {Database} ELSE {})
           exts == {ExtName(e) : e \in ServiceExts(c)}
           customs == {CustomName(k) : k \in Customs(c)}
           helpers == (IF c.kibana THEN {KibanaName} ELSE {})
                      \cup (IF c.expose /\ c.ngrokToken THEN {NgrokName} ELSE {})
                      \cup (IF HasTunnel(c) THEN {TunnelName} ELSE {})
           customOf(s) == CHOOSE k \in Customs(c) : CustomName(k) = s
           extOf(s) == CHOOSE e \in ServiceExts(c) : ExtName(e) = s
           of(s) == CASE s \in helpers /\ s = KibanaName -> KibanaService
                      [] s \in helpers /\ s = NgrokName -> NgrokService
                      [] s \in helpers /\ s = TunnelName -> TunnelService(c)
                      [] s \in customs \ helpers -> CustomService(customOf(s))
                      [] s \in exts \ (customs \cup helpers) -> ExtService(c, extOf(s), ports)
                      [] s = Portal /\ s \notin customs -> PortalService(c)
                      [] OTHER -> DatabaseService(c)
           g == Services(c, ports)
<1>1. g = [s \in own \cup exts \cup customs \cup helpers |-> of(s)] BY Zenon DEF Services
<1>2. DOMAIN g = own \cup exts \cup customs \cup helpers
      /\ \A s \in own \cup exts \cup customs \cup helpers : g[s] = of(s)
  <2> HIDE DEF g, of, own, exts, customs, helpers
  <2> QED BY <1>1
<1>3. helpers \subseteq {KibanaName, NgrokName, TunnelName}
  /\ KibanaName # NgrokName /\ KibanaName # TunnelName /\ NgrokName # TunnelName
  BY DEF KibanaName, NgrokName, TunnelName
<1>4. /\ Portal \notin helpers /\ Database \notin helpers /\ \A e : ExtName(e) \notin helpers
      /\ \A e, k : CustomName(k) # ExtName(e)
      /\ \A k : CustomName(k) # Database
      /\ \A e : ExtName(e) # Portal
      /\ Portal # Database
  <2> HIDE DEF helpers
  <2> QED BY <1>3, NamesDiffer
<1>5. \A k \in Customs(c) : CustomName(k) # Portal BY DEF Usual
<1>6. OwnsDatabase(c) => \A e \in ServiceExts(c) : ExtName(e) # Database BY DEF Usual
<1>7. \A d, e \in ServiceExts(c) : ExtName(d) = ExtName(e) => d = e
  BY NamesDiffer DEF Usual
<1> HIDE DEF g, helpers
<1>8. Portal \in DOMAIN g /\ g[Portal] = PortalService(c)
  <2>1. Portal \in own /\ Portal \notin customs /\ Portal \notin exts BY <1>4, <1>5
  <2> HIDE DEF own, customs, exts
  <2>2. of(Portal) = PortalService(c) BY <1>4, <2>1
  <2> QED BY <1>2, <2>1, <2>2
<1>9. ASSUME OwnsDatabase(c) PROVE Database \in DOMAIN g /\ g[Database] = DatabaseService(c)
  <2>1. Database \in own /\ Database \notin customs /\ Database \notin exts
    BY <1>4, <1>6, <1>9
  <2> HIDE DEF own, customs, exts
  <2>2. of(Database) = DatabaseService(c) BY <1>4, <2>1
  <2> QED BY <1>2, <2>1, <2>2
<1>10. ASSUME NEW e \in ServiceExts(c)
       PROVE  ExtName(e) \in DOMAIN g /\ g[ExtName(e)] = ExtService(c, e, ports)
  <2>1. ExtName(e) \in exts /\ ExtName(e) \notin customs /\ ExtName(e) \notin helpers
    BY <1>4
  <2>2. extOf(ExtName(e)) = e BY <1>7
  <2> HIDE DEF own, customs, exts, customOf, extOf
  <2>3. of(ExtName(e)) = ExtService(c, extOf(ExtName(e)), ports) BY <1>4, <2>1
  <2>4. of(ExtName(e)) = ExtService(c, e, ports) BY <2>2, <2>3, Zenon
  <2> HIDE DEF of
  <2> QED BY <1>2, <2>1, <2>4
<1>11. \A k \in Customs(c) : CustomName(k) \in DOMAIN g BY <1>2
<1>12. ASSUME NEW s \in DOMAIN g, s # Portal, ~(s = Database /\ OwnsDatabase(c)),
              \A e \in ServiceExts(c) : s # ExtName(e)
       PROVE  \/ \E k \in Customs(c) : g[s] = CustomService(k)
              \/ g[s] \in {KibanaService, NgrokService, TunnelService(c)}
  <2>1. s \in customs \cup helpers BY <1>2, <1>12
  <2>2. g[s] = of(s) BY <1>2
  <2>3. CASE s \in helpers
    <3>1. s \in {KibanaName, NgrokName, TunnelName} BY <1>3, <2>3
    <3> HIDE DEF own, customs, exts, customOf, extOf
    <3>2. of(s) \in {KibanaService, NgrokService, TunnelService(c)}
      BY <1>3, <1>4, <1>12, <2>3, <3>1
    <3> QED BY <2>2, <3>2
  <2>4. CASE s \notin helpers
    <3>1. s \in customs BY <2>1, <2>4
    <3>2. PICK k \in Customs(c) : CustomName(k) = s BY <3>1
    <3>3. customOf(s) \in Customs(c) BY <3>2, Zenon
    <3> HIDE DEF own, customs, exts, customOf, extOf
    <3>4. of(s) = CustomService(customOf(s)) BY <2>4, <3>1
    <3> HIDE DEF of
    <3> QED BY <2>2, <3>3, <3>4
  <2> QED BY <2>3, <2>4
<1> QED BY <1>8, <1>9, <1>10, <1>11, <1>12 DEF g

LEMMA ServiceFields ==
  ASSUME NEW n, NEW p, NEW m, NEW h, NEW w, NEW r
  PROVE  LET s == Service(n, p, m, h, w, r)
         IN  /\ s.needs = n /\ s.ports = p /\ s.mounts = m /\ s.answersOn = w
             /\ s.healthcheck = h
             /\ [s EXCEPT !.mounts = s.mounts \cup {}] = s
<1> DEFINE s == Service(n, p, m, h, w, r)
<1>1. s.needs = n /\ s.ports = p /\ s.mounts = m /\ s.answersOn = w /\ s.healthcheck = h
      /\ s = [f \in {"needs", "ports", "mounts", "healthcheck", "answersOn", "replicas"} |-> s[f]]
  BY DEF Service
<1> HIDE DEF s
<1>2. s.mounts \cup {} = s.mounts OBVIOUS
<1>3. [s EXCEPT !.mounts = s.mounts] = s BY <1>1
<1> QED BY <1>1, <1>2, <1>3 DEF s

LEMMA ExtServiceFields ==
  ASSUME NEW e, NEW ports
  PROVE  LET s == ExtService(c, e, ports)
         IN  /\ s.needs = WaitFor({Portal}, Healthy) /\ s.ports = ExtPorts(c, e, ports)
             /\ s.answersOn = ContainerPort(e)
<1> DEFINE n == WaitFor({Portal}, Healthy)
           p == ExtPorts(c, e, ports)
           w == ContainerPort(e)
           h == e.says.probe
<1>1. ExtService(c, e, ports) = Service(n, p, {}, h, w, e.scale) BY DEF ExtService
<1> HIDE DEF n, p, w, h
<1>2. LET s == ExtService(c, e, ports) IN s.needs = n /\ s.ports = p /\ s.answersOn = w
  BY <1>1, ServiceFields
<1> QED BY <1>2 DEF n, p, w

LEMMA PortalServiceIsOne ==
  LET s == PortalService(c) IN [s EXCEPT !.mounts = s.mounts \cup {}] = s
<1> DEFINE n == IF OwnsDatabase(c) THEN WaitFor({Database}, Healthy) ELSE <<>>
           p == PortalPorts(c)
           m == {"data"} \cup (IF c.scale = 1 /\ ~c.persistOsgi THEN {"state"} ELSE {})
           h == TRUE
<1>1. PortalService(c) = Service(n, p, m, h, 8080, c.scale) BY DEF PortalService
<1> HIDE DEF n, p, m, h
<1> DEFINE s == Service(n, p, m, h, 8080, c.scale)
           t == PortalService(c)
<1>2. [s EXCEPT !.mounts = s.mounts \cup {}] = s BY ServiceFields
<1>3. t = s BY <1>1
<1> HIDE DEF s, t
<1>4. [t EXCEPT !.mounts = t.mounts \cup {}] = t BY <1>2, <1>3
<1> QED BY <1>4 DEF t

\* An archetype adds at most Keycloak to a file that is not "clustered".
LEMMA MergedServices ==
  ASSUME c.archetype # "clustered", Portal # KeycloakName, NEW ports
  PROVE  LET g == Services(c, ports)
             new == ComposeFile(c, ports)
         IN  /\ new.volumes = UNION {g[s].mounts : s \in DOMAIN g}
             /\ DOMAIN g \subseteq DOMAIN new.services
             /\ \A s \in DOMAIN g : s # Portal /\ s # KeycloakName => new.services[s] = g[s]
             /\ Portal \in DOMAIN g /\ g[Portal] = PortalService(c) =>
                  new.services[Portal] = g[Portal]
             /\ \A s \in DOMAIN new.services :
                  \/ s \in DOMAIN g /\ (new.services[s] = g[s] \/ s = Portal)
                  \/ s = KeycloakName /\ new.services[s].needs = <<>> /\ new.services[s].mounts = {}
<1> DEFINE g == Services(c, ports)
           v == UNION {g[s].mounts : s \in DOMAIN g}
           o == Overlay(c.archetype)
           new == ComposeFile(c, ports)
<1>1. /\ o.volumes = {}
      /\ DOMAIN o.services \subseteq {KeycloakName}
      /\ \A s \in DOMAIN o.services : o.services[s].needs = <<>> /\ o.services[s].mounts = {}
  <2>1. CASE c.archetype = "keycloak-sso" BY <2>1 DEF Overlay, Service
  <2>2. CASE c.archetype # "keycloak-sso"
    <3>1. o = [services |-> <<>>, volumes |-> {}] BY <2>2 DEF Overlay
    <3> HIDE DEF o
    <3> QED BY <3>1
  <2> QED BY <2>1, <2>2
<1> HIDE DEF o, g
<1> DEFINE of(s) == CASE s \in DOMAIN o.services -> o.services[s]
                      [] s = Portal /\ s \notin DOMAIN o.services ->
                           [g[s] EXCEPT !.mounts = @ \cup o.volumes]
                      [] OTHER -> g[s]
<1>2. /\ new.services = [s \in DOMAIN g \cup DOMAIN o.services |-> of(s)]
      /\ new.volumes = v \cup o.volumes
  BY DEF ComposeFile, Merged, Generated, Volumes, o, g
<1> HIDE DEF v, new, of
<1>3. /\ DOMAIN new.services = DOMAIN g \cup DOMAIN o.services
      /\ \A s \in DOMAIN g \cup DOMAIN o.services : new.services[s] = of(s)
  BY <1>2
<1>4. new.volumes = v BY <1>1, <1>2
<1>5. \A s \in DOMAIN g : s # Portal /\ s # KeycloakName => new.services[s] = g[s]
  BY <1>1, <1>3 DEF of
<1>6. ASSUME Portal \in DOMAIN g, g[Portal] = PortalService(c)
      PROVE  new.services[Portal] = g[Portal]
  <2>1. Portal \notin DOMAIN o.services BY <1>1
  <2>2. of(Portal) = [g[Portal] EXCEPT !.mounts = g[Portal].mounts \cup {}]
    BY <1>1, <2>1 DEF of
  <2>3. [PortalService(c) EXCEPT !.mounts = PortalService(c).mounts \cup {}] = PortalService(c)
    BY PortalServiceIsOne
  <2> QED BY <1>3, <1>6, <2>2, <2>3
<1>7. ASSUME NEW s \in DOMAIN new.services
      PROVE  \/ s \in DOMAIN g /\ (new.services[s] = g[s] \/ s = Portal)
             \/ s = KeycloakName /\ new.services[s].needs = <<>> /\ new.services[s].mounts = {}
  <2>1. CASE s \in DOMAIN o.services
    <3>1. of(s) = o.services[s] BY <2>1 DEF of
    <3> QED BY <1>1, <1>3, <2>1, <3>1
  <2>2. CASE s \notin DOMAIN o.services
    <3>1. s \in DOMAIN g BY <1>3, <2>2
    <3>2. s # Portal => of(s) = g[s] BY <2>2 DEF of
    <3> QED BY <1>3, <3>1, <3>2
  <2> QED BY <2>1, <2>2
<1> QED BY <1>3, <1>4, <1>5, <1>6, <1>7 DEF g, new, v

\* The ports that different extensions have on record are different.
Apart(ports) == \A x, y \in DOMAIN ports : x # y => ports[x] # ports[y]

\* Whatever ports were found, if they are apart and there for each extension.
LEMMA FileIsSound ==
  ASSUME Usual(c), c.archetype # "clustered", NEW ports, Apart(ports),
         \A e \in ServiceExts(c) : e.id \in DOMAIN ports,
         file.services = ComposeFile(c, ports).services,
         file.volumes = ComposeFile(c, ports).volumes
  PROVE  WaitsAreMet /\ VolumesAreDeclared /\ PortalIsToldRight /\ PortsAreApart
<1> DEFINE g == Services(c, ports)
           f == file.services
<1>1. /\ file.volumes = UNION {g[s].mounts : s \in DOMAIN g}
      /\ DOMAIN g \subseteq DOMAIN f
      /\ \A s \in DOMAIN g : s # Portal /\ s # KeycloakName => f[s] = g[s]
      /\ Portal \in DOMAIN g /\ g[Portal] = PortalService(c) => f[Portal] = g[Portal]
      /\ \A s \in DOMAIN f :
           \/ s \in DOMAIN g /\ (f[s] = g[s] \/ s = Portal)
           \/ s = KeycloakName /\ f[s].needs = <<>> /\ f[s].mounts = {}
  BY NamesDiffer, MergedServices
<1>2. /\ Portal \in DOMAIN g /\ g[Portal] = PortalService(c)
      /\ OwnsDatabase(c) => Database \in DOMAIN g /\ g[Database] = DatabaseService(c)
      /\ \A e \in ServiceExts(c) :
           ExtName(e) \in DOMAIN g /\ g[ExtName(e)] = ExtService(c, e, ports)
      /\ \A k \in Customs(c) : CustomName(k) \in DOMAIN g
      /\ \A s \in DOMAIN g :
           \/ s = Portal
           \/ s = Database /\ OwnsDatabase(c)
           \/ \E e \in ServiceExts(c) : s = ExtName(e)
           \/ \E k \in Customs(c) : g[s] = CustomService(k)
           \/ g[s] \in {KibanaService, NgrokService, TunnelService(c)}
  BY GeneratedServices
<1> HIDE DEF g, f
<1>3. Portal \in DOMAIN f /\ f[Portal] = PortalService(c) BY <1>1, <1>2
<1>4. OwnsDatabase(c) => Database \in DOMAIN f /\ f[Database] = DatabaseService(c)
  BY <1>1, <1>2, NamesDiffer
<1>5. \A e \in ServiceExts(c) : ExtName(e) \in DOMAIN f /\ f[ExtName(e)] = ExtService(c, e, ports)
  BY <1>1, <1>2, NamesDiffer
<1>6. ASSUME NEW s \in DOMAIN f
      PROVE  \/ s = Portal
             \/ s = Database /\ OwnsDatabase(c)
             \/ \E e \in ServiceExts(c) : s = ExtName(e)
             \/ \E k \in Customs(c) : f[s] = CustomService(k)
             \/ f[s] \in {KibanaService, NgrokService, TunnelService(c)}
             \/ f[s].needs = <<>> /\ f[s].mounts = {}
  <2>1. CASE s \in DOMAIN g /\ (f[s] = g[s] \/ s = Portal) BY <1>2, <2>1
  <2>2. CASE f[s].needs = <<>> /\ f[s].mounts = {} BY <2>2
  <2> QED BY <1>1, <2>1, <2>2
<1>7. WaitsAreMet
  <2>1. SUFFICES ASSUME NEW s \in DOMAIN f, NEW d \in DOMAIN f[s].needs
                 PROVE  d \in DOMAIN f /\ (f[s].needs[d] = Healthy => f[d].healthcheck)
    BY DEF WaitsAreMet, f
  <2>2. f[Portal].healthcheck BY <1>3 DEF PortalService, Service
  <2>3. OwnsDatabase(c) => f[Database].healthcheck BY <1>4 DEF DatabaseService, Service
  <2>4. DOMAIN WaitFor({Portal}, Healthy) = {Portal}
    BY DEF WaitFor
  <2>5. CASE s = Portal
    <3>1. f[s].needs = IF OwnsDatabase(c) THEN WaitFor({Database}, Healthy) ELSE <<>>
      BY <1>3, <2>5 DEF PortalService, Service
    <3>2. OwnsDatabase(c) /\ d = Database BY <3>1 DEF WaitFor
    <3> QED BY <1>4, <2>3, <3>2
  <2>6. CASE s = Database /\ OwnsDatabase(c)
    <3>1. f[s].needs = <<>> BY <1>4, <2>6 DEF DatabaseService, Service
    <3> QED BY <3>1
  <2>7. ASSUME NEW e \in ServiceExts(c), s = ExtName(e)
        PROVE  d \in DOMAIN f /\ (f[s].needs[d] = Healthy => f[d].healthcheck)
    <3>1. f[s] = ExtService(c, e, ports) BY <1>5, <2>7
    <3>2. ExtService(c, e, ports).needs = WaitFor({Portal}, Healthy) BY ExtServiceFields
    <3>3. f[s].needs = WaitFor({Portal}, Healthy) BY <3>1, <3>2
    <3> QED BY <1>3, <2>2, <2>4, <3>3
  <2>8. ASSUME NEW k \in Customs(c), f[s] = CustomService(k)
        PROVE  d \in DOMAIN f /\ (f[s].needs[d] = Healthy => f[d].healthcheck)
    <3>1. f[s].needs = IF k.needs # {} THEN WaitFor({<<n>> : n \in k.needs}, Started)
                       ELSE WaitFor({Portal}, Healthy)
      BY <2>8 DEF CustomService, Service
    <3>2. CASE k.needs # {}
      <4>1. d \in {<<n>> : n \in k.needs} /\ f[s].needs[d] = Started BY <3>1, <3>2 DEF WaitFor
      <4>2. d \in {Portal} \cup {CustomName(y) : y \in Customs(c)} BY <4>1 DEF Usual
      <4>3. d \in DOMAIN f BY <1>1, <1>2, <1>3, <4>2
      <4> QED BY <4>1, <4>3 DEF Started, Healthy
    <3>3. CASE k.needs = {}
      <4>1. f[s].needs = WaitFor({Portal}, Healthy) BY <3>1, <3>3
      <4> QED BY <1>3, <2>2, <2>4, <4>1
    <3> QED BY <3>2, <3>3
  <2>9. CASE f[s] \in {KibanaService, NgrokService, TunnelService(c)}
    <3>1. f[s].needs = <<>> \/ f[s].needs = WaitFor({Portal}, Healthy)
      BY <2>9 DEF KibanaService, NgrokService, TunnelService, Service
    <3>2. f[s].needs = WaitFor({Portal}, Healthy) BY <3>1
    <3> QED BY <1>3, <2>2, <2>4, <3>2
  <2>10. CASE f[s].needs = <<>> BY <2>10
  <2> QED BY <1>6, <2>5, <2>6, <2>7, <2>8, <2>9, <2>10
<1>8. VolumesAreDeclared
  <2>1. SUFFICES ASSUME NEW s \in DOMAIN f PROVE f[s].mounts \subseteq file.volumes
    BY DEF VolumesAreDeclared, f
  <2>2. (s \in DOMAIN g /\ f[s] = g[s]) \/ f[s].mounts = {}
    BY <1>1, <1>2
  <2> QED BY <1>1, <2>2
<1>9. {DatabaseHost(c), SearchHost(c)} \subseteq Reachable(f)
  <2>1. /\ Elsewhere \in Reachable(f) /\ Portal \in Reachable(f)
        /\ OwnsDatabase(c) => Database \in Reachable(f)
    BY <1>3, <1>4 DEF Reachable
  <2>2. SearchMode(c) = "shared" => Global("search") \in Reachable(f)
    BY DEF Reachable, Provisioned
  <2>3. DatabaseOf(c).mode = "shared" => Global(SharedServer(c.engine)) \in Reachable(f)
    BY DEF Reachable, Provisioned
  <2>4. SearchHost(c) \in Reachable(f)
    BY <2>1, <2>2 DEF SearchHost, WritesSearchConfig
  <2>5. c.engine \in Engines /\ Accepted(c) BY DEF Usual
  <2>6. /\ DatabaseOf(c).mode \in {"isolated", "shared", "external", "embedded"}
        /\ DatabaseOf(c).mode = "shared" => DatabaseOf(c).engine = c.engine
    BY <2>5 DEF DatabaseOf, Accepted, Engines, Modes
  <2>7. \/ DatabaseHost(c) \in {Elsewhere, Portal}
        \/ /\ DatabaseOf(c).mode = "shared"
           /\ DatabaseHost(c) = Global(SharedServer(DatabaseOf(c).engine))
        \/ DatabaseOf(c).mode = "isolated" /\ DatabaseHost(c) = Database
    <3> HIDE DEF DatabaseOf
    <3> QED BY <2>6 DEF DatabaseHost
  <2>8. DatabaseHost(c) \in Reachable(f)
    BY <2>1, <2>3, <2>6, <2>7 DEF OwnsDatabase
  <2> QED BY <2>4, <2>8
<1>10. ASSUME NEW r \in Routes(c) PROVE r.host \in DOMAIN f /\ f[r.host].answersOn = r.port
  <2>1. PICK e \in ServiceExts(c) : r = [host |-> ExtName(e), port |-> ContainerPort(e)]
    BY DEF Routes
  <2>2. f[ExtName(e)].answersOn = ContainerPort(e) BY <1>5, ExtServiceFields
  <2> QED BY <1>5, <2>1, <2>2
<1>11. PortsAreApart
  <2>1. SUFFICES ASSUME NEW d \in ServiceExts(c), NEW e \in ServiceExts(c), d # e
                 PROVE  f[ExtName(d)].ports \cap f[ExtName(e)].ports = {}
    BY DEF PortsAreApart, Published, f
  <2>2. d.id # e.id BY <2>1 DEF Usual
  <2>3. ports[d.id] # ports[e.id] BY <2>2 DEF Apart
  <2>4. f[ExtName(d)].ports = ExtPorts(c, d, ports) /\ f[ExtName(e)].ports = ExtPorts(c, e, ports)
    BY <1>5, ExtServiceFields
  <2> QED BY <2>3, <2>4 DEF ExtPorts
<1> QED BY <1>7, <1>8, <1>9, <1>10, <1>11 DEF PortalIsToldRight, f

----------------------------------------------------------------------------
(* Ports                                                                   *)

\* What a command goes by: its copies have different ports for different
\* extensions, and those it has looked at are in the copy of its scan.
Recorded(k) ==
  /\ k.kind \in {"run", "wait"} /\ k.pc # "idle" => Apart(k.mem.ports)
  /\ k.pc = "ports" =>
       /\ Apart(k.item.ports)
       /\ \A e \in ServiceExts(c) : e.id \in k.todo \/ e.id \in DOMAIN k.item.ports

\* A file was made of such ports.
FromRecord ==
  \E ports : /\ Apart(ports)
             /\ \A e \in ServiceExts(c) : e.id \in DOMAIN ports
             /\ file.services = ComposeFile(c, ports).services
             /\ file.volumes = ComposeFile(c, ports).volumes

OnRecord ==
  /\ Apart(meta.ports)
  /\ \A a \in Actors : Recorded(cmd[a])
  /\ file # Nothing => FromRecord

LEMMA RecordedStays ==
  ASSUME NEW k, NEW r, Recorded(k), k.pc # "idle", r.pc # "ports",
         r.kind = k.kind, r.mem = k.mem
  PROVE  Recorded(r)
  BY DEF Recorded

\* A step of one command that leaves the file alone.
LEMMA OnRecordStep ==
  ASSUME Shapes, OnRecord, NEW a \in Actors, NEW r, cmd' = [cmd EXCEPT ![a] = r],
         Recorded(r), c' = c, file' = file, Apart(meta'.ports)
  PROVE  OnRecord'
<1>1. \A b \in Actors : cmd'[b] = r \/ cmd'[b] = cmd[b] BY DEF Shapes
<1>2. ASSUME NEW b \in Actors PROVE Recorded(cmd[b])'
  <2>1. Recorded(cmd'[b]) BY <1>1 DEF OnRecord
  <2> QED BY <2>1 DEF Recorded
<1>3. file' # Nothing => FromRecord' BY DEF OnRecord, FromRecord
<1> QED BY <1>2, <1>3 DEF OnRecord

LEMMA OnRecordGoto ==
  ASSUME Shapes, OnRecord, NEW a \in Actors, cmd[a].pc # "idle", NEW pc, pc # "ports",
         Goto(a, pc), c' = c, file' = file, Apart(meta'.ports)
  PROVE  OnRecord'
<1> DEFINE r == cmd'[a]
<1>1. cmd' = [cmd EXCEPT ![a] = r] /\ r.pc = pc /\ r.kind = cmd[a].kind /\ r.mem = cmd[a].mem
  BY GotoFields
<1>2. Recorded(cmd[a]) BY DEF OnRecord
<1> HIDE DEF r
<1>3. Recorded(r) BY <1>1, <1>2, RecordedStays
<1> QED BY <1>1, <1>3, OnRecordStep

LEMMA OnRecordEnd ==
  ASSUME Shapes, OnRecord, NEW a \in Actors, NEW outcome, End(a, outcome),
         c' = c, file' = file, Apart(meta'.ports)
  PROVE  OnRecord'
<1> DEFINE r == cmd'[a]
<1>1. cmd' = [cmd EXCEPT ![a] = r] /\ r.pc = "idle" BY EndFields
<1> HIDE DEF r
<1>2. Recorded(r) BY <1>1 DEF Recorded
<1> QED BY <1>1, <1>2, OnRecordStep

LEMMA OnRecordBegin ==
  ASSUME Shapes, OnRecord, NEW a \in Actors, NEW r, Begin(a, r), r.pc # "ports",
         r.kind \in {"run", "wait"} => Apart(r.mem.ports),
         UNCHANGED <<c, meta, file>>
  PROVE  OnRecord'
<1>1. cmd' = [cmd EXCEPT ![a] = r] BY BeginFields
<1>2. Recorded(r) BY DEF Recorded
<1>3. Apart(meta'.ports) BY DEF OnRecord
<1> QED BY <1>1, <1>2, <1>3, OnRecordStep

LEMMA OnRecordBegun ==
  ASSUME Shapes, OnRecord, NEW a \in Actors,
         Run(a) \/ Look(a) \/ Recreate(a) \/ Wait(a) \/ Sync(a) \/ HoldBack(a)
  PROVE  OnRecord'
<1>1. UNCHANGED <<c, meta, file>> BY DEF Run, Look, Recreate, Wait, Sync, HoldBack
<1>2. Apart(meta.ports) /\ IsMeta(meta) BY DEF OnRecord, Shapes
<1>3. IsCommand(Idle) BY IdleFields
<1>4. CASE Run(a)
  <2>1. PICK reindex \in BOOLEAN, noWait \in BOOLEAN :
          Begin(a, [Idle EXCEPT !.kind = "run", !.pc = "store", !.noWait = noWait,
                                !.asked = reindex, !.mem = [meta EXCEPT !.reindex = @ \/ reindex]])
    BY <1>4 DEF Run
  <2> DEFINE m == [meta EXCEPT !.reindex = meta.reindex \/ reindex]
             r == [Idle EXCEPT !.kind = "run", !.pc = "store", !.noWait = noWait,
                               !.asked = reindex, !.mem = m]
  <2>2. m.ports = meta.ports BY <1>2 DEF IsMeta
  <2>3. Begin(a, r) BY <2>1
  <2> HIDE DEF m
  <2>4. r.pc = "store" /\ r.mem = m BY <1>3 DEF IsCommand, CommandFields
  <2> HIDE DEF r
  <2>5. Apart(r.mem.ports) BY <1>2, <2>2, <2>4
  <2> QED BY <1>1, <2>3, <2>4, <2>5, OnRecordBegin
<1>5. CASE Look(a)
  <2> DEFINE r == [Idle EXCEPT !.kind = "look", !.pc = "scan"]
  <2>1. r.pc = "scan" /\ r.kind = "look" BY <1>3 DEF IsCommand, CommandFields
  <2>2. Begin(a, r) BY <1>5 DEF Look
  <2> HIDE DEF r
  <2> QED BY <1>1, <2>1, <2>2, OnRecordBegin
<1>6. CASE Recreate(a)
  <2> DEFINE r == [Idle EXCEPT !.kind = "recreate", !.pc = AfterCreation, !.todo = c.patches]
  <2>1. r.pc = AfterCreation /\ r.kind = "recreate" BY <1>3 DEF IsCommand, CommandFields
  <2>2. Begin(a, r) BY <1>6 DEF Recreate
  <2> HIDE DEF r
  <2>3. r.pc # "ports" BY <2>1 DEF AfterCreation
  <2> QED BY <1>1, <2>1, <2>2, <2>3, OnRecordBegin
<1>7. CASE Wait(a)
  <2> DEFINE w == [Idle EXCEPT !.kind = "wait", !.mem = meta]
             r == Listening(w)
  <2>1. IsCommand(w) /\ w.mem = meta BY <1>3 DEF IsCommand, CommandFields
  <2>2. Begin(a, r) BY <1>7 DEF Wait
  <2> HIDE DEF w
  <2>3. r.pc = "poll" /\ r.mem = meta BY <2>1, ListeningFields
  <2> HIDE DEF r
  <2>4. Apart(r.mem.ports) BY <1>2, <2>3
  <2> QED BY <1>1, <2>2, <2>3, <2>4, OnRecordBegin
<1>8. CASE Sync(a)
  <2>1. PICK i \in c.initializers, to \in {"staged", "deployed"} :
          Begin(a, [Idle EXCEPT !.kind = "sync", !.pc = "unpack",
                                !.item = [what |-> i, from |-> "root", to |-> to]])
    BY <1>8 DEF Sync
  <2> DEFINE move == [what |-> i, from |-> "root", to |-> to]
             r == [Idle EXCEPT !.kind = "sync", !.pc = "unpack", !.item = move]
  <2>2. Begin(a, r) BY <2>1
  <2> HIDE DEF move
  <2>3. r.pc = "unpack" /\ r.kind = "sync" BY <1>3 DEF IsCommand, CommandFields
  <2> HIDE DEF r
  <2> QED BY <1>1, <2>2, <2>3, OnRecordBegin
<1>9. CASE HoldBack(a)
  <2>1. PICK i \in Initializers :
          Begin(a, [Idle EXCEPT !.kind = "restore", !.pc = "clear",
                                !.item = [what |-> i, from |-> "deployed", to |-> "staged"]])
    BY <1>9 DEF HoldBack
  <2> DEFINE move == [what |-> i, from |-> "deployed", to |-> "staged"]
             r == [Idle EXCEPT !.kind = "restore", !.pc = "clear", !.item = move]
  <2>2. Begin(a, r) BY <2>1
  <2> HIDE DEF move
  <2>3. r.pc = "clear" /\ r.kind = "restore" BY <1>3 DEF IsCommand, CommandFields
  <2> HIDE DEF r
  <2> QED BY <1>1, <2>2, <2>3, OnRecordBegin
<1> QED BY <1>4, <1>5, <1>6, <1>7, <1>8, <1>9

\* Where the scan begins, every port is still to be looked at.
LEMMA OnRecordScan ==
  ASSUME Shapes, OnRecord, NEW a \in Actors, Scan(a)
  PROVE  OnRecord'
<1> DEFINE k == cmd[a]
           ids == {e.id : e \in ServiceExts(c)}
           r == [k EXCEPT !.pc = "ports", !.item = meta, !.todo = ids]
<1>1. IsCommand(k) /\ Recorded(k) /\ Apart(meta.ports) BY DEF OnRecord, Shapes
<1>2. k.pc = "scan" /\ cmd' = [cmd EXCEPT ![a] = r] /\ UNCHANGED <<c, meta, file>>
  BY DEF Scan, At
<1>3. \A e \in ServiceExts(c) : e.id \in ids OBVIOUS
<1> HIDE DEF ids
<1>4. /\ r.pc = "ports" /\ r.kind = k.kind /\ r.mem = k.mem
      /\ r.item = meta /\ r.todo = ids
  BY <1>1 DEF IsCommand, CommandFields
<1> HIDE DEF r, k
<1>5. Recorded(r) BY <1>1, <1>2, <1>3, <1>4 DEF Recorded
<1>6. Apart(meta'.ports) BY <1>1, <1>2
<1> QED BY <1>2, <1>5, <1>6, OnRecordStep

\* A port that is found is not the one of another extension.
LEMMA FoundIsApart ==
  ASSUME NEW m, IsMeta(m), Apart(m.ports), NEW e, FreePorts(e, m) # {}
  PROVE  LET free == FreePorts(e, m)
             p == CHOOSE p \in free : \A q \in free : p <= q
             found == WithPort(m, e.id, p)
         IN  /\ Apart(found.ports)
             /\ DOMAIN found.ports = DOMAIN m.ports \cup {e.id}
<1> DEFINE free == FreePorts(e, m)
           p == CHOOSE p \in free : \A q \in free : p <= q
           found == WithPort(m, e.id, p)
<1>1. free \in SUBSET Nat BY PortsAssumption DEF FreePorts, PortsAssumption
<1>2. free # {} OBVIOUS
<1> HIDE DEF free
<1>3. \E q \in free : \A r \in free : q <= r BY <1>1, <1>2, LeastOf
<1>4. p \in free BY <1>3, Zenon
<1> HIDE DEF p
<1>5. p \notin TakenPorts(m, e.id) BY <1>4 DEF free, FreePorts
<1>6. \A x \in DOMAIN m.ports \ {e.id} : m.ports[x] # p BY <1>5 DEF TakenPorts
<1> DEFINE ports == [x \in DOMAIN m.ports \cup {e.id} |-> IF x = e.id THEN p ELSE m.ports[x]]
<1>7. found.ports = ports
  <2> HIDE DEF ports
  <2>1. found = [m EXCEPT !.ports = ports] BY DEF WithPort, ports
  <2> QED BY <2>1 DEF IsMeta
<1>8. DOMAIN ports = DOMAIN m.ports \cup {e.id} OBVIOUS
<1>9. Apart(ports)
  <2>1. SUFFICES ASSUME NEW x \in DOMAIN ports, NEW y \in DOMAIN ports, x # y
                 PROVE  ports[x] # ports[y]
    BY DEF Apart
  <2> QED BY <1>6, <2>1 DEF Apart
<1> HIDE DEF found, ports
<1>10. Apart(found.ports) /\ DOMAIN found.ports = DOMAIN m.ports \cup {e.id}
  BY <1>7, <1>8, <1>9
<1> QED BY <1>10 DEF found, p, free

LEMMA OnRecordFindPort ==
  ASSUME Shapes, OnRecord, NEW a \in Actors, FindPort(a)
  PROVE  OnRecord'
<1> DEFINE k == cmd[a]
<1>1. /\ IsCommand(k) /\ Remembers(k) /\ Recorded(k) /\ Apart(meta.ports)
      /\ k.pc = "ports" /\ c' = c /\ file' = file
  BY DEF OnRecord, Shapes, FindPort, At
<1>2. IsMeta(k.item) /\ Apart(k.item.ports) BY <1>1 DEF Remembers, Recorded
<1>3. CASE End(a, "failed") /\ UNCHANGED meta
  <2>1. Apart(meta'.ports) BY <1>1, <1>3
  <2> QED BY <1>1, <1>3, <2>1, OnRecordEnd
<1>4. ASSUME NEW e \in ServiceExts(c), NEW found, Apart(found.ports),
             DOMAIN found.ports = DOMAIN k.item.ports \cup {e.id},
             meta' \in {meta, found},
             cmd' = [cmd EXCEPT ![a] = [k EXCEPT !.item = found, !.todo = @ \ {e.id}]]
      PROVE  OnRecord'
  <2> DEFINE rest == k.todo \ {e.id}
             r == [k EXCEPT !.item = found, !.todo = rest]
  <2>1. cmd' = [cmd EXCEPT ![a] = r] BY <1>4
  <2>2. \A x : x \in k.todo => x \in rest \/ x = e.id OBVIOUS
  <2> HIDE DEF rest
  <2>3. /\ r.pc = k.pc /\ r.kind = k.kind /\ r.mem = k.mem
        /\ r.item = found /\ r.todo = rest
    BY <1>1 DEF IsCommand, CommandFields
  <2> HIDE DEF r
  <2>4. \A d \in ServiceExts(c) : d.id \in rest \/ d.id \in DOMAIN found.ports
    BY <1>1, <1>4, <2>2 DEF Recorded
  <2>5. Recorded(r) BY <1>1, <1>4, <2>3, <2>4 DEF Recorded
  <2>6. Apart(meta'.ports) BY <1>1, <1>4
  <2> HIDE DEF k
  <2> QED BY <1>1, <2>1, <2>5, <2>6, OnRecordStep
<1>5. CASE ~(End(a, "failed") /\ UNCHANGED meta)
  <2>1. PICK e \in ServiceExts(c) :
          LET copy == k.item
              known == e.id \in DOMAIN copy.ports
              free == FreePorts(e, copy)
              found == IF known THEN copy
                       ELSE WithPort(copy, e.id, CHOOSE p \in free : \A q \in free : p <= q)
          IN  /\ known \/ free # {}
              /\ cmd' = [cmd EXCEPT ![a] = [k EXCEPT !.item = found, !.todo = @ \ {e.id}]]
              /\ meta' = IF known THEN meta ELSE found
    BY <1>5 DEF FindPort
  <2> DEFINE known == e.id \in DOMAIN k.item.ports
             free == FreePorts(e, k.item)
             new == WithPort(k.item, e.id, CHOOSE p \in free : \A q \in free : p <= q)
             found == IF known THEN k.item ELSE new
  <2>2. known \/ free # {} BY <2>1
  <2>3. free # {} => Apart(new.ports) /\ DOMAIN new.ports = DOMAIN k.item.ports \cup {e.id}
    BY <1>2, FoundIsApart
  <2>4. /\ cmd' = [cmd EXCEPT ![a] = [k EXCEPT !.item = found, !.todo = @ \ {e.id}]]
        /\ meta' \in {meta, found}
    BY <2>1
  <2> HIDE DEF new, free
  <2>5. Apart(found.ports) /\ DOMAIN found.ports = DOMAIN k.item.ports \cup {e.id}
    <3>1. CASE known
      <4>1. found = k.item BY <3>1
      <4>2. DOMAIN k.item.ports = DOMAIN k.item.ports \cup {e.id} BY <3>1
      <4> QED BY <1>2, <4>1, <4>2
    <3>2. CASE ~known
      <4>1. found = new BY <3>2
      <4> QED BY <2>2, <2>3, <3>2, <4>1
    <3> QED BY <3>1, <3>2
  <2> HIDE DEF found, k
  <2> QED BY <1>4, <2>4, <2>5
<1> QED BY <1>3, <1>5

\* What is written is made of the ports that the scan has found.
LEMMA OnRecordGenerate ==
  ASSUME Shapes, OnRecord, NEW a \in Actors, Generate(a)
  PROVE  OnRecord'
<1> DEFINE k == cmd[a]
           r == cmd'[a]
           ports == k.item.ports
<1>1. /\ Recorded(k) /\ Apart(meta.ports)
      /\ k.pc = "ports" /\ k.todo = {} /\ c' = c /\ meta' = meta /\ Goto(a, "check")
  BY DEF OnRecord, Generate, At
<1>2. /\ file'.services = ComposeFile(c, ports).services
      /\ file'.volumes = ComposeFile(c, ports).volumes
  BY DEF Generate
<1>3. Apart(ports) /\ \A e \in ServiceExts(c) : e.id \in DOMAIN ports
  BY <1>1 DEF Recorded
<1>4. cmd' = [cmd EXCEPT ![a] = r] /\ r.pc = "check" /\ r.kind = k.kind /\ r.mem = k.mem
  BY <1>1, GotoFields
<1>5. Recorded(r) BY <1>1, <1>4, RecordedStays
<1>6. \A b \in Actors : cmd'[b] = r \/ cmd'[b] = cmd[b] BY <1>4 DEF Shapes
<1> HIDE DEF r, ports
<1>7. ASSUME NEW b \in Actors PROVE Recorded(cmd[b])'
  <2>1. Recorded(cmd'[b]) BY <1>5, <1>6 DEF OnRecord
  <2> QED BY <1>1, <2>1 DEF Recorded
<1>8. FromRecord' BY <1>1, <1>2, <1>3 DEF FromRecord
<1>9. Apart(meta'.ports) BY <1>1
<1> QED BY <1>7, <1>8, <1>9 DEF OnRecord

\* Steps that write a whole copy of the metadata.
LEMMA OnRecordWritten ==
  ASSUME Shapes, OnRecord, NEW a \in Actors, Store(a) \/ Check(a) \/ Reindexed(a)
  PROVE  OnRecord'
<1> DEFINE k == cmd[a]
<1>1. /\ IsCommand(k) /\ Remembers(k) /\ Recorded(k)
      /\ k.pc \in {"store", "check", "reindex"} /\ c' = c /\ file' = file
  BY DEF OnRecord, Shapes, Store, Check, Reindexed, At
<1>2. IsMeta(k.mem) /\ Apart(k.mem.ports)
  BY <1>1 DEF Remembers, Recorded
<1>3. CASE Store(a)
  <2> DEFINE r == [k EXCEPT !.pc = "scan", !.asked = FALSE]
  <2>1. cmd' = [cmd EXCEPT ![a] = r] /\ meta' = k.mem BY <1>3 DEF Store
  <2>2. r.pc = "scan" /\ r.kind = k.kind /\ r.mem = k.mem
    BY <1>1 DEF IsCommand, CommandFields
  <2> HIDE DEF r, k
  <2>3. Recorded(r) BY <1>1, <2>2, RecordedStays
  <2>4. Apart(meta'.ports) BY <1>2, <2>1
  <2> QED BY <1>1, <2>1, <2>3, <2>4, OnRecordStep
<1>4. CASE Check(a)
  <2>1. meta' = k.mem /\ (End(a, "done") \/ Goto(a, "containers")) BY <1>4 DEF Check
  <2>2. Apart(meta'.ports) BY <1>2, <2>1
  <2> QED BY <1>1, <2>1, <2>2, OnRecordEnd, OnRecordGoto
<1>5. CASE Reindexed(a)
  <2> DEFINE m == [k.mem EXCEPT !.reindex = FALSE]
             r == [k EXCEPT !.pc = "deploy", !.mem = m]
  <2>1. cmd' = [cmd EXCEPT ![a] = r] /\ meta' = m BY <1>5 DEF Reindexed
  <2>2. m.ports = k.mem.ports BY <1>2 DEF IsMeta
  <2> HIDE DEF m
  <2>3. r.pc = "deploy" /\ r.mem = m BY <1>1 DEF IsCommand, CommandFields
  <2> HIDE DEF r
  <2>4. Apart(m.ports) BY <1>2, <2>2
  <2>5. Recorded(r) BY <2>3, <2>4 DEF Recorded
  <2>6. Apart(meta'.ports) BY <2>1, <2>4
  <2> HIDE DEF k
  <2> QED BY <1>1, <2>1, <2>5, <2>6, OnRecordStep
<1> QED BY <1>3, <1>4, <1>5

\* Steps that neither write metadata nor make a file.
LEMMA OnRecordElse ==
  ASSUME Shapes, OnRecord, NEW a \in Actors,
         \/ Looked(a) \/ CheckFails(a) \/ Create(a) \/ DatabaseFails(a) \/ Copy(a)
         \/ CopyFails(a) \/ Copied(a) \/ Start(a) \/ Rest(a) \/ RestFails(a) \/ Poll(a)
         \/ PollFails(a) \/ Pending(a) \/ Deploy(a) \/ Deployed(a) \/ Probe(a) \/ Unpack(a)
         \/ Withdraw(a) \/ Clear(a) \/ Move(a) \/ Leave(a) \/ Killed(a)
  PROVE  OnRecord'
<1> DEFINE k == cmd[a]
<1>1. c' = c /\ meta' = meta /\ file' = file /\ k.pc # "idle"
  BY DEF Looked, CheckFails, Create, DatabaseFails, Copy, CopyFails, Copied, Start, Rest,
         RestFails, Poll, PollFails, Pending, Deploy, Deployed, Probe, Unpack, Withdraw, Clear,
         Move, Leave, Killed, At, Active
<1>2. IsCommand(k) /\ Recorded(k) /\ Apart(meta'.ports) BY <1>1 DEF OnRecord, Shapes
<1>3. ASSUME NEW outcome, End(a, outcome) PROVE OnRecord'
  BY <1>1, <1>2, <1>3, OnRecordEnd
<1>4. ASSUME NEW pc, pc # "ports", Goto(a, pc) PROVE OnRecord'
  BY <1>1, <1>2, <1>4, OnRecordGoto
<1>5. ASSUME NEW r, r.pc # "ports", r.kind = k.kind, r.mem = k.mem,
             cmd' = [cmd EXCEPT ![a] = r]
      PROVE  OnRecord'
  <2>1. Recorded(r) BY <1>1, <1>2, <1>5, RecordedStays
  <2> QED BY <1>1, <1>2, <1>5, <2>1, OnRecordStep
<1>6. ASSUME NEW pc, pc # "ports", NEW todo, NEW item,
             cmd' = [cmd EXCEPT ![a] = [k EXCEPT !.pc = pc, !.todo = todo, !.item = item]]
      PROVE  OnRecord'
  <2> DEFINE r == [k EXCEPT !.pc = pc, !.todo = todo, !.item = item]
  <2>1. r.pc = pc /\ r.kind = k.kind /\ r.mem = k.mem BY <1>2 DEF IsCommand, CommandFields
  <2>2. cmd' = [cmd EXCEPT ![a] = r] BY <1>6
  <2> HIDE DEF r, k
  <2> QED BY <1>5, <1>6, <2>1, <2>2
<1>7. \A todo : [k EXCEPT !.todo = todo] = [k EXCEPT !.pc = k.pc, !.todo = todo, !.item = k.item]
  BY <1>2 DEF IsCommand, CommandFields
<1>8. \A pc, todo : [k EXCEPT !.pc = pc, !.todo = todo]
                    = [k EXCEPT !.pc = pc, !.todo = todo, !.item = k.item]
  BY <1>2 DEF IsCommand, CommandFields
<1>9. \A pc, item : [k EXCEPT !.pc = pc, !.item = item]
                    = [k EXCEPT !.pc = pc, !.todo = k.todo, !.item = item]
  BY <1>2 DEF IsCommand, CommandFields
<1>10. CASE Looked(a) \/ CheckFails(a) \/ DatabaseFails(a) \/ CopyFails(a) \/ RestFails(a)
            \/ PollFails(a) \/ Probe(a) \/ Killed(a)
  <2>1. \E outcome : End(a, outcome)
    BY <1>10, Zenon DEF Looked, CheckFails, DatabaseFails, CopyFails, RestFails, PollFails, Probe, Killed
  <2> QED BY <1>3, <2>1
<1>11. CASE Copied(a) \/ Poll(a) \/ Unpack(a) \/ Withdraw(a) \/ Clear(a)
  <2>1. \E pc : pc # "ports" /\ Goto(a, pc)
    <3>1. CASE Poll(a)
      <4> DEFINE pc == IF k.mem.reindex THEN "reindex" ELSE "deploy"
      <4>1. Goto(a, pc) BY <3>1 DEF Poll
      <4>2. pc # "ports" OBVIOUS
      <4> QED BY <4>1, <4>2, Zenon
    <3>2. CASE Copied(a) \/ Unpack(a) \/ Withdraw(a) \/ Clear(a)
      <4>1. Goto(a, "start") \/ Goto(a, "withdraw") \/ Goto(a, "clear") \/ Goto(a, "move")
        BY <3>2 DEF Copied, Unpack, Withdraw, Clear
      <4>2. "start" # "ports" /\ "withdraw" # "ports" /\ "clear" # "ports" /\ "move" # "ports"
        OBVIOUS
      <4> QED BY <4>1, <4>2, Zenon
    <3> QED BY <1>11, <3>1, <3>2
  <2> QED BY <1>4, <2>1
<1>12. CASE Deployed(a)
  <2>1. Goto(a, "probe") \/ End(a, "ready") BY <1>12 DEF Deployed
  <2> QED BY <1>3, <1>4, <2>1
<1>13. CASE Create(a)
  <2>1. cmd' = [cmd EXCEPT ![a] = [k EXCEPT !.pc = AfterCreation, !.todo = c.patches]]
    BY <1>13 DEF Create
  <2>2. AfterCreation # "ports" BY DEF AfterCreation
  <2> HIDE DEF k
  <2>3. cmd' = [cmd EXCEPT ![a] = [k EXCEPT !.pc = AfterCreation, !.todo = c.patches, !.item = k.item]]
    BY <1>8, <2>1
  <2> QED BY <1>6, <2>2, <2>3
<1>14. CASE Copy(a)
  <2>1. k.pc # "ports" BY <1>14 DEF Copy, At
  <2>2. PICK todo : cmd' = [cmd EXCEPT ![a] = [k EXCEPT !.todo = todo]] BY <1>14 DEF Copy
  <2> HIDE DEF k
  <2>3. cmd' = [cmd EXCEPT ![a] = [k EXCEPT !.pc = k.pc, !.todo = todo, !.item = k.item]]
    BY <1>7, <2>2
  <2> QED BY <1>6, <2>1, <2>3
<1>15. CASE Start(a)
  <2> DEFINE first == ~Running(box)
             r == [k EXCEPT !.pc = "rest", !.booted = first]
  <2>1. End(a, "failed") \/ cmd' = [cmd EXCEPT ![a] = r] BY <1>15 DEF Start
  <2> HIDE DEF first
  <2>2. r.pc = "rest" /\ r.kind = k.kind /\ r.mem = k.mem BY <1>2 DEF IsCommand, CommandFields
  <2> HIDE DEF r, k
  <2>3. CASE End(a, "failed") BY <1>3, <2>3
  <2>4. CASE cmd' = [cmd EXCEPT ![a] = r] BY <1>5, <2>2, <2>4
  <2> QED BY <2>1, <2>3, <2>4
<1>16. CASE Rest(a)
  <2> DEFINE r == Listening(k)
  <2>1. End(a, "done") \/ End(a, "failed") \/ cmd' = [cmd EXCEPT ![a] = r] BY <1>16 DEF Rest
  <2>2. r.pc = "poll" /\ r.kind = k.kind /\ r.mem = k.mem BY <1>2, ListeningFields
  <2> HIDE DEF r, k
  <2>3. CASE End(a, "done") \/ End(a, "failed") BY <1>3, <2>3
  <2>4. CASE cmd' = [cmd EXCEPT ![a] = r] BY <1>5, <2>2, <2>4
  <2> QED BY <2>1, <2>3, <2>4
<1>17. CASE Pending(a)
  <2> DEFINE todo == {i \in Initializers : "staged" \in places[i]}
  <2>1. cmd' = [cmd EXCEPT ![a] = [k EXCEPT !.pc = "deploying", !.todo = todo]]
    BY <1>17 DEF Pending
  <2> HIDE DEF k, todo
  <2>2. cmd' = [cmd EXCEPT ![a] = [k EXCEPT !.pc = "deploying", !.todo = todo, !.item = k.item]]
    BY <1>8, <2>1
  <2> QED BY <1>6, <2>2
<1>18. CASE Deploy(a)
  <2>1. PICK i \in k.todo :
          cmd' = [cmd EXCEPT ![a] = [k EXCEPT !.pc = "clear", !.todo = @ \ {i},
                    !.item = [what |-> i, from |-> "staged", to |-> "deployed"]]]
    BY <1>18 DEF Deploy
  <2> DEFINE todo == k.todo \ {i}
             item == [what |-> i, from |-> "staged", to |-> "deployed"]
  <2>2. cmd' = [cmd EXCEPT ![a] = [k EXCEPT !.pc = "clear", !.todo = todo, !.item = item]]
    BY <2>1
  <2> HIDE DEF k, todo, item
  <2> QED BY <1>6, <2>2
<1>19. CASE Move(a) \/ Leave(a)
  <2>1. Goto(a, "leave") \/ Moved(a) BY <1>19 DEF Move, Leave
  <2>2. Moved(a) => \/ End(a, "done")
                    \/ cmd' = [cmd EXCEPT ![a] = [k EXCEPT !.pc = "deploying", !.item = Nothing]]
    BY DEF Moved
  <2> HIDE DEF k
  <2>3. CASE Goto(a, "leave") BY <1>4, <2>3
  <2>4. CASE End(a, "done") BY <1>3, <2>4
  <2>5. CASE cmd' = [cmd EXCEPT ![a] = [k EXCEPT !.pc = "deploying", !.item = Nothing]]
    <3>1. cmd' = [cmd EXCEPT ![a] = [k EXCEPT !.pc = "deploying", !.todo = k.todo, !.item = Nothing]]
      BY <1>9, <2>5
    <3> QED BY <1>6, <3>1
  <2> QED BY <2>1, <2>2, <2>3, <2>4, <2>5
<1> QED BY <1>10, <1>11, <1>12, <1>13, <1>14, <1>15, <1>16, <1>17, <1>18, <1>19

LEMMA OnRecordWorld ==
  ASSUME Shapes, OnRecord, World
  PROVE  OnRecord'
<1>1. c' = c /\ file' = file
  BY DEF World, Reindex, Stop, StartAgain, PortalIsUp, PortalDies, OthersTake
<1>2. Apart(meta'.ports)
  <2>1. meta' = meta \/ meta' = [meta EXCEPT !.reindex = TRUE]
    BY DEF World, Reindex, Stop, StartAgain, PortalIsUp, PortalDies, OthersTake
  <2>2. IsMeta(meta) /\ Apart(meta.ports) BY DEF Shapes, OnRecord
  <2>3. CASE meta' = [meta EXCEPT !.reindex = TRUE]
    <3>1. meta'.ports = meta.ports BY <2>2, <2>3 DEF IsMeta
    <3> QED BY <2>2, <3>1
  <2> QED BY <2>1, <2>2, <2>3
<1>3. ASSUME NEW a \in Actors
      PROVE  /\ cmd'[a].kind = cmd[a].kind /\ cmd'[a].pc = cmd[a].pc
             /\ cmd'[a].mem = cmd[a].mem /\ cmd'[a].todo = cmd[a].todo
             /\ cmd'[a].item = cmd[a].item
  <2>1. IsCommand(cmd[a]) BY DEF Shapes
  <2>2. \/ cmd'[a] = cmd[a]
        \/ cmd'[a] = [cmd[a] EXCEPT !.unread = TRUE, !.served = TRUE]
    BY DEF World, Reindex, Stop, StartAgain, PortalIsUp, PortalDies, OthersTake
  <2>3. CASE cmd'[a] = [cmd[a] EXCEPT !.unread = TRUE, !.served = TRUE]
    BY <2>1, <2>3 DEF IsCommand, CommandFields
  <2> QED BY <2>2, <2>3
<1>4. ASSUME NEW a \in Actors PROVE Recorded(cmd[a])'
  <2>1. Recorded(cmd[a]) BY DEF OnRecord
  <2> QED BY <1>1, <1>3, <2>1 DEF Recorded
<1>5. file' # Nothing => FromRecord' BY <1>1 DEF OnRecord, FromRecord
<1> QED BY <1>2, <1>4, <1>5 DEF OnRecord

LEMMA OnRecordNext ==
  ASSUME Shapes, OnRecord, [Next]_vars
  PROVE  OnRecord'
<1>1. CASE UNCHANGED vars
  BY <1>1 DEF vars, OnRecord, Recorded, FromRecord
<1>2. ASSUME NEW a \in Actors,
             RunSteps(a) \/ ContainerSteps(a) \/ WaitSteps(a) \/ MoveSteps(a) \/ Killed(a)
      PROVE  OnRecord'
  <2>1. CASE RunSteps(a)
    BY <2>1, OnRecordBegun, OnRecordScan, OnRecordFindPort, OnRecordGenerate, OnRecordWritten,
       OnRecordElse DEF RunSteps
  <2>2. CASE ContainerSteps(a) BY <2>2, OnRecordBegun, OnRecordElse DEF ContainerSteps
  <2>3. CASE WaitSteps(a) BY <2>3, OnRecordBegun, OnRecordWritten, OnRecordElse DEF WaitSteps
  <2>4. CASE MoveSteps(a) BY <2>4, OnRecordBegun, OnRecordElse DEF MoveSteps
  <2>5. CASE Killed(a) BY <2>5, OnRecordElse
  <2> QED BY <1>2, <2>1, <2>2, <2>3, <2>4, <2>5
<1>3. CASE World BY <1>3, OnRecordWorld
<1> QED BY <1>1, <1>2, <1>3 DEF Next

LEMMA OnRecordInit == Init => OnRecord
<1> SUFFICES ASSUME Init PROVE OnRecord OBVIOUS
<1>1. Apart(meta.ports)
  <2>1. meta.ports = <<>> BY DEF Init
  <2> QED BY <2>1 DEF Apart
<1>2. ASSUME NEW a \in Actors PROVE Recorded(cmd[a])
  <2>1. cmd[a] = Idle BY DEF Init
  <2> QED BY <2>1, IdleFields DEF Recorded
<1> QED BY <1>1, <1>2 DEF Init, OnRecord

\* Every file that a run has written holds together, of any projects that are
\* usual ones: whatever ports were taken, by whom ever extensions were scanned
\* before, and whatever was killed (composer.py:560-777, metadata.py:329-369).
THEOREM FileHoldsTogetherHolds ==
  ASSUME \A k \in Configs : Usual(k)
  PROVE  Spec => []FileHoldsTogether
<1>1. ASSUME Shapes, OnRecord PROVE FileHoldsTogether
  <2>1. Usual(c) BY <1>1 DEF Shapes
  <2>2. SUFFICES ASSUME file # Nothing, c.archetype # "clustered"
                 PROVE  /\ WaitsAreMet /\ VolumesAreDeclared /\ PortalIsToldRight /\ PortsAreApart
                        /\ \A e \in c.exts : e.agree
                        /\ AddressesAgree
    BY DEF FileHoldsTogether
  <2>3. WaitsAreMet /\ VolumesAreDeclared /\ PortalIsToldRight /\ PortsAreApart
    BY <1>1, <2>1, <2>2, FileIsSound DEF OnRecord, FromRecord
  <2>4. ASSUME NEW e \in c.exts PROVE e.agree
    <3>1. /\ e.from.built \in Archives /\ e.from.unpacked \in Archives
          /\ e = Scanned(e.id, e.from, e.scale)
      BY <2>1, <2>4 DEF Usual
    <3>2. ScansAgree(e.from) BY <3>1, ScansAgreeHolds
    <3>3. Scanned(e.id, e.from, e.scale).agree = ScansAgree(e.from) BY DEF Scanned
    <3> QED BY <3>1, <3>2, <3>3
  <2> QED BY <2>1, <2>3, <2>4, AddressesAgreeHolds
<1>2. IInv => Shapes BY DEF IInv
<1>3. Spec => []OnRecord
  <2>1. IInv /\ OnRecord /\ [Next]_vars => OnRecord' BY <1>2, OnRecordNext
  <2> QED BY <2>1, OnRecordInit, Invariance, PTL DEF Spec
<1> QED BY <1>1, <1>2, <1>3, Invariance, PTL

----------------------------------------------------------------------------
\* Of any machine the calculated heap is one that a JVM accepts: its lower bound
\* and its new generation are below its upper bound, as those of the two fixed
\* profiles are (composer.py:389-486).  Single values that a user sets are not
\* compared with the calculated ones.
THEOREM CalculatedHeapIsOrdered ==
  ASSUME NEW mb \in Nat,
         NEW heap \in {CalculatedHeap(mb), LeanHeap, FallbackHeap}
  PROVE  heap.min <= heap.max /\ heap.new < heap.max
<1>1. CASE heap = LeanHeap \/ heap = FallbackHeap BY <1>1 DEF LeanHeap, FallbackHeap
<1>2. CASE heap = CalculatedHeap(mb)
  <2>1. CASE mb <= 4096
    BY <1>2, <2>1 DEF CalculatedHeap, Heap, Largest
  <2>2. CASE mb > 4096 /\ mb <= 8192
    BY <1>2, <2>2 DEF CalculatedHeap, Heap, Largest
  <2>3. CASE mb > 8192
    <3> DEFINE low == Smallest(Largest(2, mb \div 4096), 4)
               high == Smallest(Largest(4, mb \div 2048), IF mb < 24576 THEN 12 ELSE 32)
    <3>1. mb \div 4096 \in Nat /\ mb \div 2048 \in Nat OBVIOUS
    <3>2. low \in Nat /\ low <= 4 BY <3>1 DEF Smallest, Largest
    <3>3. high \in Nat /\ high >= 4 BY <3>1 DEF Smallest, Largest
    <3>4. heap = Heap(1024 * low, 1024 * high, IF mb <= 16384 THEN 768 ELSE 1024)
      BY <1>2, <2>3 DEF CalculatedHeap
    <3> HIDE DEF low, high
    <3>5. 1024 * low <= 1024 * high BY <3>2, <3>3
    <3>6. Largest(512, ((1024 * high) * 33) \div 100) < 1024 * high
      <4>1. ((1024 * high) * 33) \div 100 < 1024 * high BY <3>3
      <4> QED BY <3>3, <4>1 DEF Largest
    <3> QED BY <3>4, <3>5, <3>6 DEF Heap
  <2> QED BY <2>1, <2>2, <2>3
<1> QED BY <1>1, <1>2
=============================================================================
