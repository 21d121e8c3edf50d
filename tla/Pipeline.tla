------------------------------ MODULE Pipeline ------------------------------
(***************************************************************************)
(* The stage engine every multi-step LDM command is built on:              *)
(* ldm_core/pipelines/base.py, with the two places that turn its verdict   *)
(* into a process exit status (`die_if_the_pipeline_failed` there and      *)
(* `_exit_code_for_pipeline` in cli.py).                                   *)
(*                                                                         *)
(* Stages are numbered in the order of `self.stages`.  What a stage does   *)
(* to the machine is abstracted to `effect`: nothing, part of its work, or *)
(* all of it.  `execute` either returns, having done all of it, or raises, *)
(* having done any part; `rollback` either undoes what it finds or raises  *)
(* half-way.  The concrete effects of the stages of `ldm run` are in       *)
(* RunPipeline, which composes this engine.                                *)
(***************************************************************************)
EXTENDS Naturals, SequencesExt

CONSTANTS
  N,          \* number of stages of the pipeline
  ExitCodes   \* codes a stage may hand to UI.die / sys.exit

NoOpCode == 5           \* IDEMPOTENT_NO_OP_EXIT_CODE
InterruptCode == 130    \* cli.py, `except KeyboardInterrupt`
FailureCode == 4        \* what the callers exit with when run() is False

ASSUME NAssumption == N \in Nat \ {0}
ASSUME ExitCodesAssumption == ExitCodes \subseteq Nat \ {0, InterruptCode}

Stage == 1..N

SystemExit(c) == [type |-> "SystemExit", code |-> c]
KeyboardInterrupt == [type |-> "KeyboardInterrupt", code |-> InterruptCode]
Error == [type |-> "Exception", code |-> FailureCode]
NoException == [type |-> "none", code |-> 0]

Exceptions == {SystemExit(c) : c \in ExitCodes} \cup {KeyboardInterrupt, Error}

VARIABLES
  phase,      \* where run() is: its loop, its rollback walk, back in the caller
  at,         \* the stage the loop reaches next
  executed,   \* self.executed_stages
  stopped,    \* context.stopped
  errors,     \* context.errors
  inFlight,   \* the exception the handler is holding, or NoException
  pending,    \* the part of executed_stages the rollback walk has not visited
  undone,     \* stages whose rollback() returned, in the order of the walk
  botched,    \* stages whose rollback() raised
  effect,     \* what each stage has left on the machine
  verdict,    \* what run() gave its caller: True, False or an exception
  exitStatus  \* of the process

engineVars == <<phase, at, executed, stopped, errors, inFlight, pending,
                undone, botched, verdict, exitStatus>>
vars == <<engineVars, effect>>

Phases == {"execute", "rollback", "returned", "exited"}
Verdicts == {"none", "True", "False", "raise"}
Effects == {"absent", "partial", "present"}

TypeOK ==
  /\ phase \in Phases
  /\ at \in 1..(N + 1)
  /\ executed \in Seq(Stage)
  /\ stopped \in BOOLEAN
  /\ errors \in Seq(Exceptions)
  /\ inFlight \in Exceptions \cup {NoException}
  /\ pending \in Seq(Stage)
  /\ undone \in Seq(Stage)
  /\ botched \in SUBSET Stage
  /\ effect \in [Stage -> Effects]
  /\ verdict \in Verdicts
  /\ exitStatus \in Nat

Init ==
  /\ phase = "execute"
  /\ at = 1
  /\ executed = << >>
  /\ stopped = FALSE
  /\ errors = << >>
  /\ inFlight = NoException
  /\ pending = << >>
  /\ undone = << >>
  /\ botched = {}
  /\ effect = [s \in Stage |-> "absent"]
  /\ verdict = "none"
  /\ exitStatus = 0

-----------------------------------------------------------------------------
(* Pipeline.run                                                            *)

\* The loop is about to call execute() on stage `at`.
Executing == phase = "execute" /\ at <= N /\ ~stopped

\* stage.execute(context) returns; it may have set context.stopped on the way.
Advance(stop) ==
  /\ Executing
  /\ executed' = Append(executed, at)
  /\ at' = at + 1
  /\ stopped' = stop
  /\ UNCHANGED <<phase, errors, inFlight, pending, undone, botched, verdict,
                 exitStatus>>

\* The loop is exhausted, or finds context.stopped before the next stage.
Complete ==
  /\ phase = "execute"
  /\ at > N \/ stopped
  /\ phase' = "returned"
  /\ verdict' = "True"
  /\ UNCHANGED <<at, executed, stopped, errors, inFlight, pending, undone,
                 botched, exitStatus>>

\* execute() raises SystemExit(5): nothing failed, so nothing is rolled back
\* and nothing is recorded; the exception goes straight to the caller.
ReportNoOp ==
  /\ Executing
  /\ SystemExit(NoOpCode) \in Exceptions
  /\ phase' = "returned"
  /\ verdict' = "raise"
  /\ inFlight' = SystemExit(NoOpCode)
  /\ UNCHANGED <<at, executed, stopped, errors, pending, undone, botched,
                 exitStatus>>

\* Ctrl-C lands on a line of run() that its `try` does not cover (the test of
\* context.stopped, the logging around the loop): no handler of run() sees it.
InterruptLoop ==
  /\ phase = "execute"
  /\ phase' = "returned"
  /\ verdict' = "raise"
  /\ inFlight' = KeyboardInterrupt
  /\ UNCHANGED <<at, executed, stopped, errors, pending, undone, botched,
                 exitStatus>>

\* Mutant: only `except Exception` rolls back, as before LDM-#1630.
FailWithoutRollback(e) ==
  /\ Executing
  /\ e \in Exceptions \ {SystemExit(NoOpCode)}
  /\ inFlight' = e
  /\ \/ e = Error /\ phase' = "rollback" /\ pending' = executed
        /\ errors' = Append(errors, e) /\ UNCHANGED verdict
     \/ e # Error /\ phase' = "returned" /\ verdict' = "raise"
        /\ UNCHANGED <<errors, pending>>
  /\ UNCHANGED <<at, executed, stopped, undone, botched, exitStatus>>

\* Mutant: the stage is appended before it executes, so it rolls itself back.
FailRollingItselfBack(e) ==
  /\ Executing
  /\ e \in Exceptions \ {SystemExit(NoOpCode)}
  /\ errors' = Append(errors, e)
  /\ inFlight' = e
  /\ phase' = "rollback"
  /\ pending' = Append(executed, at)
  /\ UNCHANGED <<at, executed, stopped, undone, botched, verdict, exitStatus>>

\* execute() raises anything else: record it and start the rollback walk.
Fail(e) ==
  /\ Executing
  /\ e \in Exceptions \ {SystemExit(NoOpCode)}
  /\ errors' = Append(errors, e)
  /\ inFlight' = e
  /\ phase' = "rollback"
  /\ pending' = executed
  /\ UNCHANGED <<at, executed, stopped, undone, botched, verdict, exitStatus>>

-----------------------------------------------------------------------------
(* Pipeline._rollback: reversed(self.executed_stages)                      *)

RollingBack == phase = "rollback" /\ pending # << >>

\* Mutant: the walk is not reversed.
UndoStageInOrder ==
  /\ RollingBack
  /\ undone' = Append(undone, Head(pending))
  /\ pending' = Tail(pending)
  /\ UNCHANGED <<phase, at, executed, stopped, errors, inFlight, botched,
                 verdict, exitStatus>>

\* stage.rollback(context) returns.
UndoStage ==
  /\ RollingBack
  /\ undone' = Append(undone, Last(pending))
  /\ pending' = Front(pending)
  /\ UNCHANGED <<phase, at, executed, stopped, errors, inFlight, botched,
                 verdict, exitStatus>>

\* Mutant: the first rollback that raises ends the walk.
BotchUndoAndStop ==
  /\ RollingBack
  /\ botched' = botched \cup {Last(pending)}
  /\ pending' = << >>
  /\ UNCHANGED <<phase, at, executed, stopped, errors, inFlight, undone,
                 verdict, exitStatus>>

\* Mutant: a rollback that raises is tried again.
BotchUndoAndRetry ==
  /\ RollingBack
  /\ botched' = botched \cup {Last(pending)}
  /\ UNCHANGED <<phase, at, executed, stopped, errors, inFlight, pending,
                 undone, verdict, exitStatus>>

\* stage.rollback(context) raises an Exception or SystemExit: swallowed, and
\* the walk goes on to the stage before it.
BotchUndo ==
  /\ RollingBack
  /\ botched' = botched \cup {Last(pending)}
  /\ pending' = Front(pending)
  /\ UNCHANGED <<phase, at, executed, stopped, errors, inFlight, undone,
                 verdict, exitStatus>>

\* A second Ctrl-C: not caught by _rollback, so it abandons the walk and
\* replaces the exception that run() was going to re-raise.
AbandonRollback ==
  /\ phase = "rollback"
  /\ inFlight' = KeyboardInterrupt
  /\ verdict' = "raise"
  /\ phase' = "returned"
  /\ UNCHANGED <<at, executed, stopped, errors, pending, undone, botched,
                 exitStatus>>

\* The walk is over: `raise` for SystemExit and KeyboardInterrupt, False for
\* an ordinary exception.
FinishRollback ==
  /\ phase = "rollback"
  /\ pending = << >>
  /\ verdict' = IF inFlight.type = "Exception" THEN "False" ELSE "raise"
  /\ phase' = "returned"
  /\ UNCHANGED <<at, executed, stopped, errors, inFlight, pending, undone,
                 botched, exitStatus>>

\* The caller: an exception carries its own code to the top level, False is
\* exit 4, True is exit 0.
StatusOf(v, e) ==
  CASE v = "True"  -> 0
    [] v = "False" -> FailureCode
    [] OTHER       -> e.code

ExitProcess ==
  /\ phase = "returned"
  /\ exitStatus' = StatusOf(verdict, inFlight)
  /\ phase' = "exited"
  /\ UNCHANGED <<at, executed, stopped, errors, inFlight, pending, undone,
                 botched, verdict>>

-----------------------------------------------------------------------------
(* The engine with the effects its stages leave                            *)

ExecuteStage ==
  /\ \E stop \in BOOLEAN : Advance(stop)
  /\ effect' = [effect EXCEPT ![at] = "present"]

\* A raising stage has done none of its work or part of it.  All of it, too,
\* when Ctrl-C lands after execute() returned and before the append.
RaiseInStage ==
  \/ /\ \/ ReportNoOp
        \/ \E e \in Exceptions : Fail(e)
     /\ \E left \in {"absent", "partial"} :
          effect' = [effect EXCEPT ![at] = left]
  \/ /\ Fail(KeyboardInterrupt)
     /\ effect' = [effect EXCEPT ![at] = "present"]

RollbackStage ==
  /\ UndoStage
  /\ effect' = [effect EXCEPT ![Last(pending)] = "absent"]

\* rollback() raised, or Ctrl-C cut it short, at any point of its work.
FailRollbackOfStage ==
  /\ RollingBack
  /\ BotchUndo \/ AbandonRollback
  /\ \E left \in Effects : effect' = [effect EXCEPT ![Last(pending)] = left]

HandOver ==
  /\ \/ Complete
     \/ InterruptLoop
     \/ FinishRollback
     \/ (pending = << >> /\ AbandonRollback)
     \/ ExitProcess
  /\ UNCHANGED effect

Next ==
  \/ ExecuteStage
  \/ RaiseInStage
  \/ RollbackStage
  \/ FailRollbackOfStage
  \/ HandOver

\* One process runs straight through; nothing it waits for is modelled here.
Fairness == WF_vars(Next)

Spec == Init /\ [][Next]_vars /\ Fairness

-----------------------------------------------------------------------------
(* Properties                                                              *)

Interrupted == verdict = "raise" /\ inFlight = KeyboardInterrupt

\* The rollback walk visits executed stages only, each at most once and later
\* stages before the earlier ones they were built on; the stage that raised is
\* never rolled back (PipelineStage.rollback's second rule).
RollbackOrder ==
  /\ \A i, j \in DOMAIN undone : i < j => undone[j] < undone[i]
  /\ \A i \in DOMAIN undone : undone[i] < at /\ undone[i] \notin botched
  /\ \A i \in DOMAIN undone, k \in DOMAIN pending : pending[k] < undone[i]
  /\ undone # << >> => errors # << >>

\* When a failed command has exited, whatever is left on the machine was left
\* by the stage that failed or by a rollback that failed, never by a stage
\* that had executed -- unless a second Ctrl-C abandoned the walk.
NothingLeftBehind ==
  phase = "exited" /\ errors # << >> /\ pending = << >> =>
    \A s \in Stage : effect[s] # "absent" => s = at \/ s \in botched

\* The exit-code contract: 0 only when every stage ran to its end or a stage
\* asked to stop; 5 only when nothing was undone or recorded as an error; any
\* other code is the one the first failure carried, whatever the rollbacks
\* raised since, or 130 for an interrupt.
ExitCodeTellsTheTruth ==
  phase = "exited" =>
    /\ exitStatus = 0 =>
         /\ \A s \in 1..(at - 1) : effect[s] = "present"
         /\ at <= N => stopped
    /\ exitStatus = NoOpCode =>
         /\ undone = << >> /\ botched = {} /\ errors = << >>
         /\ \A s \in 1..(at - 1) : effect[s] = "present"
    /\ exitStatus \notin {0, NoOpCode} =>
         Interrupted \/ (errors # << >> /\ exitStatus = errors[1].code)

\* Once a stage has set context.stopped no later stage is executed, and once a
\* stage has failed none is: the loop never resumes after a rollback began.
StopIsFinal == [][stopped \/ phase # "execute" => executed' = executed]_vars

\* Every command ends: no combination of failures and interrupts leaves run()
\* or its rollback walk without a next step.
EveryCommandExits == <>(phase = "exited")

\* The pipeline is a saga: the steps standing are the stages whose rollback is
\* still owed, so no stage is skipped on the way down and none is executed
\* once the way down has begun.
TheSaga == INSTANCE Saga WITH
  mode   <- CASE phase = "execute"  -> "forward"
              [] phase = "rollback" -> "backward"
              [] OTHER              -> "closed",
  height <- IF errors = << >> THEN Len(executed) ELSE Len(pending)

ImplementsSaga == TheSaga!Spec
=============================================================================
