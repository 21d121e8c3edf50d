--------------------- MODULE PipelineAndPropertiesProofs ---------------------
(***************************************************************************)
(* Proofs about the stage engine, for any number of stages and any set of  *)
(* exit codes, and about a project's properties, for any layers, actors,   *)
(* properties and number of commands.  The two share no state.             *)
(***************************************************************************)
EXTENDS Pipeline, Properties, FiniteSetTheorems, SequenceTheorems,
        WellFoundedInduction, TLAPS

(***************************************************************************)
(* The stage engine.                                                       *)
(***************************************************************************)

\* What SubSeq, Front and Append do to a sequence, as far as the proofs below
\* need it.
LEMMA PrefixOfStages ==
  ASSUME NEW S, NEW s \in Seq(S), NEW n \in Nat, n <= Len(s)
  PROVE  /\ SubSeq(s, 1, n) \in Seq(S)
         /\ Len(SubSeq(s, 1, n)) = n
         /\ \A i \in 1..n : SubSeq(s, 1, n)[i] = s[i]
  OBVIOUS

LEMMA FrontOfStages ==
  ASSUME NEW S, NEW s \in Seq(S), s # << >>
  PROVE  /\ Front(s) \in Seq(S)
         /\ Len(Front(s)) = Len(s) - 1
         /\ \A i \in 1..(Len(s) - 1) : Front(s)[i] = s[i]
         /\ Last(s) \in S
         /\ Len(s) \in Nat /\ Len(s) >= 1
  <1>1. Len(s) \in Nat /\ Len(s) >= 1
    BY EmptySeq
  <1>2. Last(s) \in S
    BY <1>1, ElementOfSeq DEF Last
  <1>3. Len(s) - 1 \in Nat /\ Len(s) - 1 <= Len(s)
    BY <1>1
  <1> QED
    BY <1>1, <1>2, <1>3, PrefixOfStages DEF Front

LEMMA AppendOfStages ==
  ASSUME NEW S, NEW s \in Seq(S), NEW e \in S
  PROVE  /\ Append(s, e) \in Seq(S)
         /\ Len(Append(s, e)) = Len(s) + 1
         /\ Append(s, e) # << >>
         /\ \A i \in 1..Len(s) : Append(s, e)[i] = s[i]
         /\ Append(s, e)[Len(s) + 1] = e
  OBVIOUS

\* Every exception a stage raises is of one of the three kinds, and none of
\* them is the record that stands for "no exception".
LEMMA ExceptionKinds ==
  /\ KeyboardInterrupt \in Exceptions
  /\ Error \in Exceptions
  /\ \A e \in Exceptions : e.code \in Nat \ {0}
  /\ \A e \in Exceptions : e.code = NoOpCode => e = SystemExit(NoOpCode)
  /\ NoException.code \in Nat
  BY ExitCodesAssumption
     DEF Exceptions, SystemExit, KeyboardInterrupt, Error, NoException,
         InterruptCode, FailureCode, NoOpCode

-----------------------------------------------------------------------------
(* Type correctness                                                        *)

\* The engine starts well typed (Pipeline.run()).
LEMMA InitTypeOK == Init => TypeOK
  <1> SUFFICES ASSUME Init PROVE TypeOK
    OBVIOUS
  <1>1. at \in 1..(N + 1)
    BY NAssumption DEF Init, NAssumption
  <1>2. << >> \in Seq(Stage) /\ << >> \in Seq(Exceptions)
    BY EmptySeq
  <1> QED
    BY <1>1, <1>2 DEF Init, TypeOK, Phases, Verdicts, Effects

\* Each action keeps every variable in its type.
LEMMA StepTypeOK == TypeOK /\ [Next]_vars => TypeOK'
  <1> SUFFICES ASSUME TypeOK, [Next]_vars PROVE TypeOK'
    OBVIOUS
  <1> USE NAssumption DEF TypeOK, Stage, Phases, Verdicts, Effects
  <1>1. CASE ExecuteStage
    <2>1. at \in Stage /\ at \in Nat
      BY <1>1 DEF ExecuteStage, Advance, Executing
    <2>2. Append(executed, at) \in Seq(Stage)
      BY <2>1, AppendOfStages
    <2> QED
      BY <1>1, <2>1, <2>2 DEF ExecuteStage, Advance, Executing
  <1>2. CASE RaiseInStage
    <2>1. CASE ReportNoOp
      BY <1>2, <2>1 DEF RaiseInStage, ReportNoOp, Fail, Executing
    <2>2. ASSUME NEW e \in Exceptions, Fail(e)
          PROVE  TypeOK'
      <3>1. Append(errors, e) \in Seq(Exceptions)
        BY AppendOfStages
      <3>2. effect' \in [Stage -> Effects]
        BY <1>2 DEF RaiseInStage
      <3> QED
        BY <2>2, <3>1, <3>2 DEF Fail, Executing
    <2> QED
      BY <1>2, <2>1, <2>2, ExceptionKinds DEF RaiseInStage
  <1>3. CASE RollbackStage
    <2>1. /\ Front(pending) \in Seq(Stage)
          /\ Last(pending) \in Stage
      BY <1>3, FrontOfStages DEF RollbackStage, UndoStage, RollingBack
    <2>2. Append(undone, Last(pending)) \in Seq(Stage)
      BY <2>1, AppendOfStages
    <2> QED
      BY <1>3, <2>1, <2>2 DEF RollbackStage, UndoStage, RollingBack
  <1>4. CASE FailRollbackOfStage
    <2>1. /\ Front(pending) \in Seq(Stage)
          /\ Last(pending) \in Stage
      BY <1>4, FrontOfStages DEF FailRollbackOfStage, RollingBack
    <2>2. effect' \in [Stage -> Effects]
      BY <1>4 DEF FailRollbackOfStage
    <2>3. CASE BotchUndo
      BY <2>1, <2>2, <2>3 DEF BotchUndo, RollingBack
    <2>4. CASE AbandonRollback
      BY <2>2, <2>4, ExceptionKinds DEF AbandonRollback
    <2> QED
      BY <1>4, <2>3, <2>4 DEF FailRollbackOfStage
  <1>5. CASE HandOver
    <2>1. CASE ExitProcess
      <3>1. StatusOf(verdict, inFlight) \in Nat
        BY ExceptionKinds DEF StatusOf, FailureCode
      <3> QED
        BY <1>5, <2>1, <3>1 DEF HandOver, ExitProcess
    <2>2. CASE Complete
      BY <1>5, <2>2 DEF HandOver, Complete
    <2>3. CASE InterruptLoop
      BY <1>5, <2>3, ExceptionKinds DEF HandOver, InterruptLoop
    <2>4. CASE FinishRollback
      BY <1>5, <2>4 DEF HandOver, FinishRollback
    <2>5. CASE AbandonRollback
      BY <1>5, <2>5, ExceptionKinds DEF HandOver, AbandonRollback
    <2> QED
      BY <1>5, <2>1, <2>2, <2>3, <2>4, <2>5 DEF HandOver
  <1>6. CASE UNCHANGED vars
    BY <1>6 DEF vars, engineVars
  <1> QED
    BY <1>1, <1>2, <1>3, <1>4, <1>5, <1>6 DEF Next

\* The variables of the engine always have the types the code gives them.
THEOREM TypeCorrect == Spec => []TypeOK
  BY InitTypeOK, StepTypeOK, PTL DEF Spec

-----------------------------------------------------------------------------
(* The inductive invariant                                                 *)

\* executed_stages is the list of the stages before `at`, in order, and the
\* part of it the walk still owes is a prefix.
Lists ==
  /\ Len(executed) = at - 1
  /\ \A i \in 1..Len(executed) : executed[i] = i
  /\ Len(pending) <= Len(executed)
  /\ \A i \in 1..Len(pending) : pending[i] = i

\* What each phase says about the record of the failure.
FailureRecord ==
  /\ phase = "execute" => errors = << >> /\ inFlight = NoException
  /\ phase = "rollback" =>
       /\ errors # << >> /\ inFlight = errors[1]
       /\ errors[1] # SystemExit(NoOpCode)
  /\ errors = << >> => pending = << >> /\ undone = << >> /\ botched = {}
  /\ errors # << >> => at <= N /\ phase # "execute"

\* The stages visited by the walk lie between the ones still owed and the one
\* that failed, and each was visited once.
Visited ==
  /\ \A i \in 1..Len(undone) :
       undone[i] > Len(pending) /\ undone[i] < at /\ undone[i] \notin botched
  /\ \A i, j \in 1..Len(undone) : i < j => undone[j] < undone[i]
  /\ \A s \in botched : s > Len(pending) /\ s < at

\* What stands on the machine: the work of the executed stages until the walk
\* reaches them, and nothing above the stage that failed.
Standing ==
  /\ errors = << >> => \A s \in Stage : s < at => effect[s] = "present"
  /\ \A s \in Stage : s > at => effect[s] = "absent"
  /\ errors # << >> =>
       \A s \in Stage :
         s > Len(pending) /\ s < at /\ s \notin botched => effect[s] = "absent"

\* How the verdict and the exit status follow from the record.
Outcome ==
  /\ phase \in {"execute", "rollback"} => verdict = "none"
  /\ phase \in {"returned", "exited"} =>
       /\ verdict \in {"True", "False", "raise"}
       /\ verdict = "True" => errors = << >> /\ (at > N \/ stopped)
       /\ verdict = "False" =>
            errors # << >> /\ errors[1].code = FailureCode
       /\ verdict = "raise" =>
            \/ inFlight = KeyboardInterrupt
            \/ (errors = << >> /\ inFlight = SystemExit(NoOpCode))
            \/ (/\ errors # << >>
                /\ inFlight = errors[1]
                /\ errors[1] # SystemExit(NoOpCode))
  /\ phase = "exited" => exitStatus = StatusOf(verdict, inFlight)

IInv == TypeOK /\ Lists /\ FailureRecord /\ Visited /\ Standing /\ Outcome

LEMMA InitIInv == Init => IInv
  <1> SUFFICES ASSUME Init PROVE IInv
    OBVIOUS
  <1>1. TypeOK
    BY InitTypeOK
  <1>2. Lists /\ FailureRecord /\ Visited
    BY NAssumption, EmptySeq DEF Init, Lists, FailureRecord, Visited, NAssumption
  <1>3. Standing /\ Outcome
    BY NAssumption DEF Init, Standing, Outcome, Stage, NAssumption
  <1> QED
    BY <1>1, <1>2, <1>3 DEF IInv

\* execute() returns.
LEMMA ExecuteStageIInv == IInv /\ ExecuteStage => IInv'
  <1> SUFFICES ASSUME IInv, ExecuteStage PROVE IInv'
    OBVIOUS
  <1> USE NAssumption DEF NAssumption, IInv
  <1>1. TypeOK'
    BY StepTypeOK DEF Next
  <1>2. /\ phase = "execute" /\ at <= N /\ at \in Stage
        /\ executed' = Append(executed, at)
        /\ at' = at + 1
        /\ errors = << >> /\ pending = << >> /\ undone = << >> /\ botched = {}
        /\ UNCHANGED <<phase, errors, inFlight, pending, undone, botched,
                       verdict, exitStatus>>
    BY DEF ExecuteStage, Advance, Executing, TypeOK, FailureRecord, Stage
  <1>3. Lists'
    <2>1. /\ Len(executed') = at
          /\ \A i \in 1..Len(executed) : executed'[i] = executed[i]
          /\ executed'[Len(executed) + 1] = at
      BY <1>2, AppendOfStages DEF TypeOK, Lists
    <2>2. Len(pending') = 0
      BY <1>2
    <2> QED
      BY <1>2, <2>1, <2>2 DEF Lists, TypeOK
  <1>4. FailureRecord' /\ Visited'
    BY <1>2, EmptySeq DEF FailureRecord, Visited
  <1>5. Standing'
    BY <1>2 DEF Standing, ExecuteStage, TypeOK, Stage
  <1>6. Outcome'
    BY <1>2 DEF Outcome
  <1> QED
    BY <1>1, <1>3, <1>4, <1>5, <1>6

\* execute() raises.
LEMMA RaiseInStageIInv == IInv /\ RaiseInStage => IInv'
  <1> SUFFICES ASSUME IInv, RaiseInStage PROVE IInv'
    OBVIOUS
  <1> USE NAssumption DEF NAssumption, IInv
  <1>1. TypeOK'
    BY StepTypeOK DEF Next
  <1>2. /\ phase = "execute" /\ at <= N /\ at \in Stage
        /\ errors = << >> /\ pending = << >> /\ undone = << >> /\ botched = {}
        /\ \A s \in Stage : s # at => effect'[s] = effect[s]
    <2>1. Executing
      BY DEF RaiseInStage, Fail, ReportNoOp
    <2>2. \E left \in Effects : effect' = [effect EXCEPT ![at] = left]
      BY DEF RaiseInStage, Effects
    <2>3. \A s \in Stage : s # at => effect'[s] = effect[s]
      BY <2>2 DEF TypeOK
    <2> QED
      BY <2>1, <2>3 DEF Executing, TypeOK, FailureRecord, Stage
  <1>3. CASE ReportNoOp
    <2>1. Lists' /\ FailureRecord' /\ Visited'
      BY <1>2, <1>3, EmptySeq DEF ReportNoOp, Lists, FailureRecord, Visited
    <2>2. Standing' /\ Outcome'
      BY <1>2, <1>3 DEF ReportNoOp, Standing, Outcome, TypeOK, Stage
    <2> QED
      BY <1>1, <2>1, <2>2
  <1>4. ASSUME NEW e \in Exceptions, Fail(e)
        PROVE  IInv'
    <2>1. /\ errors' = Append(errors, e) /\ errors' # << >> /\ errors'[1] = e
          /\ e # SystemExit(NoOpCode)
          /\ inFlight' = e /\ phase' = "rollback" /\ pending' = executed
          /\ UNCHANGED <<at, executed, stopped, undone, botched, verdict,
                         exitStatus>>
      BY <1>2, <1>4 DEF Fail
    <2>2. Lists'
      BY <2>1 DEF Lists, TypeOK
    <2>3. FailureRecord' /\ Outcome'
      BY <1>2, <2>1 DEF FailureRecord, Outcome
    <2>4. Visited'
      BY <1>2, <2>1, EmptySeq DEF Visited
    <2>5. Standing'
      BY <1>2, <2>1 DEF Standing, Lists, TypeOK, Stage
    <2> QED
      BY <1>1, <2>2, <2>3, <2>4, <2>5
  <1> QED
    BY <1>3, <1>4, ExceptionKinds DEF RaiseInStage

\* rollback() of the last stage still owed returns.
LEMMA RollbackStageIInv == IInv /\ RollbackStage => IInv'
  <1> SUFFICES ASSUME IInv, RollbackStage PROVE IInv'
    OBVIOUS
  <1> USE NAssumption DEF NAssumption, IInv
  <1> DEFINE n == Len(pending)
  <1>1. TypeOK'
    BY StepTypeOK DEF Next
  <1>2. /\ phase = "rollback" /\ pending # << >> /\ errors # << >>
        /\ undone' = Append(undone, Last(pending))
        /\ pending' = Front(pending)
        /\ UNCHANGED <<phase, at, executed, stopped, errors, inFlight, botched,
                       verdict, exitStatus>>
    BY DEF RollbackStage, UndoStage, RollingBack, FailureRecord
  <1>3. /\ n \in Nat /\ n >= 1 /\ n < at /\ Last(pending) = n
        /\ n \in Stage
        /\ Len(pending') = n - 1
        /\ \A i \in 1..(n - 1) : pending'[i] = pending[i]
    <2>1. /\ n \in Nat /\ n >= 1
          /\ Len(Front(pending)) = n - 1
          /\ \A i \in 1..(n - 1) : Front(pending)[i] = pending[i]
      BY <1>2, FrontOfStages DEF TypeOK
    <2>2. n < at /\ n \in Stage /\ pending[n] = n
      BY <2>1 DEF TypeOK, Lists, Stage
    <2> QED
      BY <1>2, <2>1, <2>2 DEF Last
  <1>4. Lists'
    BY <1>2, <1>3 DEF Lists, TypeOK
  <1>5. FailureRecord' /\ Outcome'
    BY <1>2 DEF FailureRecord, Outcome
  <1>6. Visited'
    <2>1. /\ Len(undone) \in Nat
          /\ Len(undone') = Len(undone) + 1
          /\ \A i \in 1..Len(undone) : undone'[i] = undone[i]
          /\ undone'[Len(undone) + 1] = n
          /\ \A i \in 1..Len(undone) : undone[i] \in Nat
      BY <1>2, <1>3, AppendOfStages DEF TypeOK, Stage
    <2>2. \A i \in 1..Len(undone') :
            undone'[i] > n - 1 /\ undone'[i] < at /\ undone'[i] \notin botched
      <3> TAKE i \in 1..Len(undone')
      <3>1. CASE i = Len(undone) + 1
        BY <1>3, <2>1, <3>1 DEF Visited, TypeOK
      <3>2. CASE i \in 1..Len(undone)
        BY <1>3, <2>1, <3>2 DEF Visited, TypeOK
      <3> QED
        BY <2>1, <3>1, <3>2
    <2>3. \A i, j \in 1..Len(undone') : i < j => undone'[j] < undone'[i]
      <3> SUFFICES ASSUME NEW i \in 1..Len(undone'),
                          NEW j \in 1..Len(undone'), i < j
                   PROVE  undone'[j] < undone'[i]
        OBVIOUS
      <3>1. i \in 1..Len(undone) /\ undone'[i] = undone[i]
        BY <2>1
      <3>2. CASE j = Len(undone) + 1
        BY <1>3, <2>1, <3>1, <3>2 DEF Visited
      <3>3. CASE j \in 1..Len(undone)
        BY <2>1, <3>1, <3>3 DEF Visited
      <3> QED
        BY <2>1, <3>2, <3>3
    <2>4. \A s \in botched : s > n - 1 /\ s < at
      BY <1>3 DEF Visited, TypeOK, Stage
    <2> QED
      BY <1>2, <1>3, <2>2, <2>3, <2>4 DEF Visited
  <1>7. Standing'
    BY <1>2, <1>3 DEF Standing, RollbackStage, TypeOK, Stage
  <1> QED
    BY <1>1, <1>4, <1>5, <1>6, <1>7

\* rollback() of the last stage still owed raises.
LEMMA FailRollbackIInv == IInv /\ FailRollbackOfStage => IInv'
  <1> SUFFICES ASSUME IInv, FailRollbackOfStage PROVE IInv'
    OBVIOUS
  <1> USE NAssumption DEF NAssumption, IInv
  <1> DEFINE n == Len(pending)
  <1>1. TypeOK'
    BY StepTypeOK DEF Next
  <1>2. /\ phase = "rollback" /\ pending # << >> /\ errors # << >>
        /\ UNCHANGED <<at, executed, stopped, errors, undone, exitStatus>>
        /\ \A s \in Stage : s # Last(pending) => effect'[s] = effect[s]
    BY DEF FailRollbackOfStage, BotchUndo, AbandonRollback, RollingBack, FailureRecord,
           TypeOK
  <1>3. /\ n \in Nat /\ n >= 1 /\ n < at /\ Last(pending) = n /\ n \in Stage
        /\ Len(Front(pending)) = n - 1
        /\ \A i \in 1..(n - 1) : Front(pending)[i] = pending[i]
    <2>1. /\ n \in Nat /\ n >= 1
          /\ Len(Front(pending)) = n - 1
          /\ \A i \in 1..(n - 1) : Front(pending)[i] = pending[i]
      BY <1>2, FrontOfStages DEF TypeOK
    <2>2. n < at /\ n \in Stage /\ pending[n] = n
      BY <2>1 DEF TypeOK, Lists, Stage
    <2> QED
      BY <1>2, <2>1, <2>2 DEF Last
  <1>4. CASE BotchUndo
    <2>1. /\ pending' = Front(pending)
          /\ Len(pending') = n - 1
          /\ \A i \in 1..(n - 1) : pending'[i] = pending[i]
          /\ botched' = botched \cup {n}
          /\ UNCHANGED <<phase, inFlight, verdict>>
      BY <1>3, <1>4 DEF BotchUndo
    <2>2. Lists'
      <3>1. Len(pending') <= Len(executed')
        BY <1>2, <1>3, <2>1 DEF Lists, TypeOK
      <3>2. \A i \in 1..Len(pending') : pending'[i] = i
        BY <1>3, <2>1 DEF Lists
      <3> QED
        BY <1>2, <3>1, <3>2 DEF Lists
    <2>3. FailureRecord' /\ Outcome'
      BY <1>2, <2>1 DEF FailureRecord, Outcome
    <2>4. Visited'
      <3>1. \A i \in 1..Len(undone) : undone[i] \in Nat
        BY DEF TypeOK, Stage
      <3> QED
        BY <1>2, <1>3, <2>1, <3>1 DEF Visited, TypeOK, Stage
    <2>5. Standing'
      BY <1>2, <1>3, <2>1 DEF Standing, TypeOK, Stage
    <2> QED
      BY <1>1, <2>2, <2>3, <2>4, <2>5
  <1>5. CASE AbandonRollback
    <2>1. /\ inFlight' = KeyboardInterrupt /\ verdict' = "raise"
          /\ phase' = "returned"
          /\ UNCHANGED <<pending, botched>>
      BY <1>5 DEF AbandonRollback
    <2>2. Lists' /\ FailureRecord' /\ Visited'
      BY <1>2, <2>1 DEF Lists, FailureRecord, Visited
    <2>3. Standing'
      BY <1>2, <1>3, <2>1 DEF Standing, TypeOK, Stage
    <2>4. Outcome'
      BY <1>2, <2>1 DEF Outcome
    <2> QED
      BY <1>1, <2>2, <2>3, <2>4
  <1> QED
    BY <1>4, <1>5 DEF FailRollbackOfStage

\* run() gives control back, and the caller exits.
LEMMA HandOverIInv == IInv /\ HandOver => IInv'
  <1> SUFFICES ASSUME IInv, HandOver PROVE IInv'
    OBVIOUS
  <1> USE NAssumption DEF NAssumption, IInv
  <1>1. TypeOK'
    BY StepTypeOK DEF Next
  <1>2. /\ UNCHANGED <<at, executed, stopped, errors, pending, undone, botched,
                       effect>>
        /\ phase' \in {"returned", "exited"}
    BY DEF HandOver, Complete, InterruptLoop, FinishRollback, AbandonRollback,
           ExitProcess
  <1>3. Lists' /\ Visited' /\ Standing'
    BY <1>2 DEF Lists, Visited, Standing
  <1>9. FailureRecord'
    BY <1>2 DEF FailureRecord, HandOver, Complete, InterruptLoop, FinishRollback,
                AbandonRollback, ExitProcess
  <1>4. CASE Complete
    BY <1>1, <1>3, <1>9, <1>4 DEF Complete, Outcome, FailureRecord
  <1>5. CASE InterruptLoop
    BY <1>1, <1>3, <1>9, <1>5 DEF InterruptLoop, Outcome
  <1>6. CASE FinishRollback
    <2>1. errors # << >> /\ inFlight = errors[1] /\ errors[1] # SystemExit(NoOpCode)
      BY <1>6 DEF FinishRollback, FailureRecord
    <2>2. inFlight \in Exceptions
      BY <2>1, EmptySeq, ElementOfSeq DEF TypeOK
    <2>3. inFlight.type = "Exception" => inFlight.code = FailureCode
      BY <2>2 DEF Exceptions, SystemExit, KeyboardInterrupt, Error
    <2> QED
      BY <1>1, <1>3, <1>9, <1>6, <2>1, <2>3 DEF FinishRollback, Outcome
  <1>7. CASE AbandonRollback
    BY <1>1, <1>3, <1>9, <1>7 DEF AbandonRollback, Outcome
  <1>8. CASE ExitProcess
    BY <1>1, <1>3, <1>9, <1>8 DEF ExitProcess, Outcome
  <1> QED
    BY <1>4, <1>5, <1>6, <1>7, <1>8 DEF HandOver

\* The invariant holds in every state of every command.
THEOREM Invariance == Spec => []IInv
  <1>1. IInv /\ UNCHANGED vars => IInv'
    BY DEF IInv, TypeOK, Lists, FailureRecord, Visited, Standing, Outcome, vars,
           engineVars
  <1>2. IInv /\ [Next]_vars => IInv'
    BY <1>1, ExecuteStageIInv, RaiseInStageIInv, RollbackStageIInv,
       FailRollbackIInv, HandOverIInv DEF Next
  <1> QED
    BY <1>2, InitIInv, PTL DEF Spec

-----------------------------------------------------------------------------
(* What the invariant gives                                                *)

\* Rollback walks the executed stages, once each, from the last to the first.
THEOREM RollbackOrderHolds == Spec => []RollbackOrder
  <1>1. IInv => RollbackOrder
    <2> SUFFICES ASSUME IInv PROVE RollbackOrder
      OBVIOUS
    <2>1. /\ DOMAIN undone = 1..Len(undone)
          /\ DOMAIN pending = 1..Len(pending)
      BY DEF IInv, TypeOK
    <2>2. \A i \in DOMAIN undone, k \in DOMAIN pending : pending[k] < undone[i]
      <3>1. \A k \in DOMAIN pending : pending[k] = k /\ k <= Len(pending) /\ k \in Nat
        BY <2>1 DEF IInv, Lists
      <3>2. \A i \in DOMAIN undone : undone[i] > Len(pending) /\ undone[i] \in Nat
        <4>1. \A i \in DOMAIN undone : undone[i] \in Stage
          BY <2>1, ElementOfSeq DEF IInv, TypeOK
        <4> QED
          BY <2>1, <4>1 DEF IInv, Visited, Stage
      <3>3. Len(pending) \in Nat
        BY DEF IInv, TypeOK
      <3> QED
        BY <3>1, <3>2, <3>3
    <2> QED
      BY <2>1, <2>2 DEF IInv, Visited, FailureRecord, RollbackOrder
  <1> QED
    BY <1>1, Invariance, PTL

\* A failed command leaves behind only what its failing stage, or a rollback
\* that itself failed, left.
THEOREM NothingLeftBehindHolds == Spec => []NothingLeftBehind
  <1>1. IInv => NothingLeftBehind
    <2> SUFFICES ASSUME IInv, errors # << >>, pending = << >>,
                        NEW s \in Stage, effect[s] # "absent"
                 PROVE  s = at \/ s \in botched
      BY DEF NothingLeftBehind
    <2>1. ~(s > at)
      BY DEF IInv, Standing
    <2>2. s < at => s \in botched
      BY EmptySeq DEF IInv, Standing, Stage
    <2> QED
      BY <2>1, <2>2 DEF IInv, TypeOK, Stage
  <1> QED
    BY <1>1, Invariance, PTL

\* The exit status of the process says what happened to the stages.
THEOREM ExitCodeHolds == Spec => []ExitCodeTellsTheTruth
  <1>1. IInv => ExitCodeTellsTheTruth
    <2> SUFFICES ASSUME IInv, phase = "exited" PROVE ExitCodeTellsTheTruth
      BY DEF ExitCodeTellsTheTruth
    <2>1. /\ exitStatus = StatusOf(verdict, inFlight)
          /\ errors # << >> => errors[1] \in Exceptions
      BY ElementOfSeq, EmptySeq DEF IInv, TypeOK, Outcome
    <2>2. KeyboardInterrupt.code \notin {0, NoOpCode}
      BY DEF KeyboardInterrupt, InterruptCode, NoOpCode
    <2>3. SystemExit(NoOpCode).code = NoOpCode /\ NoOpCode # 0
          /\ FailureCode \notin {0, NoOpCode}
      BY DEF SystemExit, NoOpCode, FailureCode
    <2>7. \A s \in 1..(at - 1) : s \in Stage /\ s < at
      BY NAssumption DEF IInv, TypeOK, Stage, NAssumption
    <2>4. CASE verdict = "True"
      <3>1. /\ exitStatus = 0 /\ errors = << >>
            /\ at > N \/ stopped
        BY <2>1, <2>4 DEF IInv, Outcome, StatusOf
      <3>2. \A s \in 1..(at - 1) : effect[s] = "present"
        BY <2>7, <3>1 DEF IInv, Standing
      <3> QED
        BY <3>1, <3>2, <2>3, NAssumption
           DEF ExitCodeTellsTheTruth, IInv, TypeOK, NAssumption
    <2>5. CASE verdict = "False"
      BY <2>1, <2>3, <2>5 DEF IInv, Outcome, StatusOf, ExitCodeTellsTheTruth
    <2>6. CASE verdict = "raise"
      <3>1. exitStatus = inFlight.code
        BY <2>1, <2>6 DEF StatusOf
      <3>2. CASE inFlight = KeyboardInterrupt
        BY <2>2, <2>6, <3>1, <3>2 DEF ExitCodeTellsTheTruth, Interrupted
      <3>3. CASE errors = << >> /\ inFlight = SystemExit(NoOpCode)
        <4>1. \A s \in 1..(at - 1) : effect[s] = "present"
          BY <2>7, <3>3 DEF IInv, Standing
        <4> QED
          BY <2>3, <3>1, <3>3, <4>1 DEF ExitCodeTellsTheTruth, IInv, FailureRecord
      <3>4. CASE /\ errors # << >>
                 /\ inFlight = errors[1]
                 /\ errors[1] # SystemExit(NoOpCode)
        BY <2>1, <3>1, <3>4, ExceptionKinds DEF ExitCodeTellsTheTruth
      <3> QED
        BY <2>6, <3>2, <3>3, <3>4 DEF IInv, Outcome
    <2> QED
      BY <2>4, <2>5, <2>6 DEF IInv, Outcome
  <1> QED
    BY <1>1, Invariance, PTL

\* No stage executes after a stop or after a failure.
THEOREM StopIsFinalHolds == Spec => StopIsFinal
  <1>1. [Next]_vars => [stopped \/ phase # "execute" => executed' = executed]_vars
    BY DEF Next, ExecuteStage, RaiseInStage, RollbackStage, FailRollbackOfStage,
           HandOver, Advance, Executing, Fail, ReportNoOp, UndoStage, BotchUndo,
           AbandonRollback, Complete, InterruptLoop, FinishRollback, ExitProcess,
           vars, engineVars
  <1> QED
    BY <1>1, PTL DEF Spec, StopIsFinal

\* The pipeline implements the saga: its initial states are initial, and every
\* step is a step of the saga or leaves it alone.
THEOREM Refinement == Spec => ImplementsSaga
  <1> USE DEF TheSaga!Init, TheSaga!Next, TheSaga!vars, TheSaga!Apply,
              TheSaga!Close, TheSaga!Abort, TheSaga!Compensate, TheSaga!GiveUp
  <1>1. Init => TheSaga!Init
    BY EmptySeq DEF Init
  <1>2. IInv /\ IInv' /\ [Next]_vars => [TheSaga!Next]_(TheSaga!vars)
    <2> SUFFICES ASSUME IInv, IInv', [Next]_vars
                 PROVE  [TheSaga!Next]_(TheSaga!vars)
      OBVIOUS
    <2>a. at \in Nat /\ at' \in Nat /\ N \in Nat
      BY NAssumption DEF IInv, TypeOK, NAssumption
    <2>b. Len(pending) \in Nat /\ Len(pending') \in Nat
      BY DEF IInv, TypeOK
    <2>c. Len(executed) = at - 1 /\ Len(executed') = at' - 1
      BY DEF IInv, Lists
    <2>d. /\ phase = "execute" => errors = << >>
          /\ phase = "rollback" => errors # << >>
      BY DEF IInv, FailureRecord
    <2>0. /\ Len(executed) \in Nat /\ Len(executed) = at - 1
          /\ Len(executed') \in Nat /\ Len(executed') = at' - 1
          /\ Len(pending) \in Nat /\ Len(pending') \in Nat
          /\ at \in Nat /\ N \in Nat
          /\ phase = "execute" => errors = << >>
          /\ phase = "rollback" => errors # << >>
      <3>1. Len(executed) \in Nat /\ Len(executed') \in Nat
        BY DEF IInv, TypeOK
      <3> QED
        BY <2>a, <2>b, <2>c, <2>d, <3>1
    <2>1. CASE ExecuteStage
      BY <2>0, <2>1 DEF ExecuteStage, Advance, Executing
    <2>2. CASE RaiseInStage
      <3>1. CASE ReportNoOp
        BY <2>0, <3>1 DEF ReportNoOp, Executing
      <3>2. ASSUME NEW e \in Exceptions, Fail(e)
            PROVE  TheSaga!Abort
        <4>1. errors' # << >>
          BY <3>2, AppendOfStages DEF Fail, IInv, TypeOK
        <4> QED
          BY <2>0, <3>2, <4>1 DEF Fail, Executing
      <3> QED
        BY <2>2, <3>1, <3>2, ExceptionKinds DEF RaiseInStage
    <2>3. CASE RollbackStage \/ FailRollbackOfStage
      <3>1. ASSUME pending # << >>
            PROVE  Len(Front(pending)) = Len(pending) - 1 /\ Len(pending) > 0
        <4>1. pending \in Seq(Stage)
          BY DEF IInv, TypeOK
        <4> QED
          BY <3>1, <4>1, FrontOfStages
      <3> QED
        BY <2>0, <2>3, <3>1
           DEF RollbackStage, FailRollbackOfStage, UndoStage, BotchUndo,
               AbandonRollback, RollingBack
    <2>4. CASE HandOver
      BY <2>0, <2>4 DEF HandOver, Complete, InterruptLoop, FinishRollback,
                        AbandonRollback, ExitProcess
    <2>5. CASE UNCHANGED vars
      BY <2>5 DEF vars, engineVars
    <2> QED
      BY <2>1, <2>2, <2>3, <2>4, <2>5 DEF Next
  <1> QED
    BY <1>1, <1>2, Invariance, PTL DEF Spec, ImplementsSaga, TheSaga!Spec

(***************************************************************************)
(* The properties.                                                         *)
(***************************************************************************)

-----------------------------------------------------------------------------
(* Induction over numbers, and what FlattenSeq computes.                   *)

\* Numbers have a least one.
LEMMA LeastOf ==
  ASSUME NEW T \in SUBSET Nat, T # {}
  PROVE  \E x \in T : \A y \in T : x <= y
<1> DEFINE R == OpToRel(<, Nat)
<1>1. IsWellFoundedOn(R, Nat) BY Zenon, NatLessThanWellFounded
<1>2. \A x, y \in Nat : x < y => <<x, y>> \in R BY Zenon DEF OpToRel
<1> HIDE DEF R
<1>3. PICK x \in T : \A y \in T : <<y, x>> \notin R BY <1>1, WFMin, Zenon
<1>4. \A y \in T : ~(y < x) BY <1>2, <1>3
<1> QED BY <1>4

\* What has 0, and with each number the next one, has them all.
LEMMA AllNumbers ==
  ASSUME NEW T \in SUBSET Nat, 0 \in T, \A n \in T : n + 1 \in T
  PROVE  T = Nat
<1>1. SUFFICES ASSUME Nat \ T # {} PROVE FALSE OBVIOUS
<1>2. PICK x \in Nat \ T : \A y \in Nat \ T : x <= y BY <1>1, LeastOf
<1>3. x - 1 \in T BY <1>2
<1> QED BY <1>2, <1>3

\* The function that FlattenSeq chooses is there, for every first part.
LEMMA FlattenIsThere ==
  ASSUME NEW s, NEW m \in Nat
  PROVE  \E u : u = [i \in 1..m |-> IF i = 1 THEN s[i] ELSE u[i - 1] \o s[i]]
<1> DEFINE Upto(n, u) == u = [i \in 1..n |-> IF i = 1 THEN s[i] ELSE u[i - 1] \o s[i]]
           T == {n \in Nat : \E u : Upto(n, u)}
<1>1. 0 \in T
  <2>1. Upto(0, [i \in 1..0 |-> s[i]]) OBVIOUS
  <2> QED BY <2>1
<1>2. ASSUME NEW n \in T PROVE n + 1 \in T
  <2>1. PICK u : Upto(n, u) OBVIOUS
  <2> DEFINE next == IF n = 0 THEN s[1] ELSE u[n] \o s[n + 1]
             v == [i \in 1..(n + 1) |-> IF i = n + 1 THEN next ELSE u[i]]
  <2>2. ASSUME NEW i \in 1..(n + 1)
        PROVE  v[i] = IF i = 1 THEN s[i] ELSE v[i - 1] \o s[i]
    <3>1. CASE i = n + 1
      <4>1. v[i] = next BY <3>1
      <4>2. i # 1 => v[i - 1] = u[n] BY <3>1
      <4>3. i = 1 => next = s[i] BY <3>1
      <4>4. i # 1 => next = u[n] \o s[i]
        <5>1. i # 1 => n # 0 BY <3>1
        <5>2. s[n + 1] = s[i] BY <3>1
        <5> QED BY <5>1, <5>2, Zenon
      <4> HIDE DEF v, next
      <4> QED BY <4>1, <4>2, <4>3, <4>4
    <3>2. CASE i # n + 1
      <4>1. i \in 1..n /\ v[i] = u[i] BY <3>2
      <4>2. i # 1 => v[i - 1] = u[i - 1] BY <3>2
      <4> HIDE DEF v
      <4> QED BY <4>1, <4>2, <2>1
    <3> QED BY <3>1, <3>2
  <2>3. v = [i \in 1..(n + 1) |-> v[i]] OBVIOUS
  <2> HIDE DEF v
  <2>4. Upto(n + 1, v) BY <2>2, <2>3
  <2>5. n \in Nat /\ n + 1 \in Nat OBVIOUS
  <2> HIDE DEF Upto, v
  <2> QED BY <2>4, <2>5, Zenon
<1>3. T = Nat
  <2> HIDE DEF T
  <2>1. T \in SUBSET Nat BY DEF T
  <2> QED BY <1>1, <1>2, <2>1, AllNumbers
<1> QED BY <1>3

\* FlattenSeq concatenates step by step.
LEMMA FlattenStepwise ==
  ASSUME NEW S, NEW s \in Seq(Seq(S))
  PROVE  \E u : /\ FlattenSeq(s) = u[Len(s)]
                /\ u[0] = <<>>
                /\ \A i \in 1..Len(s) : u[i] = u[i - 1] \o s[i]
                /\ \A i \in 0..Len(s) : u[i] \in Seq(S)
<1>1. CASE Len(s) = 0
  <2>1. s = <<>> BY <1>1
  <2>2. FlattenSeq(s) = s BY <1>1 DEF FlattenSeq
  <2> DEFINE u == [i \in {0} |-> <<>>]
  <2>3. u[0] = <<>> /\ Len(s) = 0 BY <1>1
  <2>4. u[0] \in Seq(S) BY <2>3
  <2>5. FlattenSeq(s) = u[Len(s)] BY <2>1, <2>2, <2>3
  <2>6. \A i \in 0..Len(s) : u[i] \in Seq(S)
    <3> HIDE DEF u
    <3> QED BY <1>1, <2>4
  <2>7. \A i \in 1..Len(s) : u[i] = u[i - 1] \o s[i] BY <1>1
  <2> HIDE DEF u
  <2> QED BY <2>3, <2>5, <2>6, <2>7, Zenon
<1>2. CASE Len(s) # 0
  <2> DEFINE f == CHOOSE g : g = [i \in 1..Len(s) |-> IF i = 1 THEN s[i] ELSE g[i - 1] \o s[i]]
  <2>1. Len(s) \in Nat /\ Len(s) >= 1 BY <1>2
  <2>2. f = [i \in 1..Len(s) |-> IF i = 1 THEN s[i] ELSE f[i - 1] \o s[i]]
    BY <2>1, FlattenIsThere, Zenon
  <2>3. FlattenSeq(s) = f[Len(s)] BY <1>2, Zenon DEF FlattenSeq
  <2> HIDE DEF f
  <2> DEFINE u == [i \in 0..Len(s) |-> IF i = 0 THEN <<>> ELSE f[i]]
             T == {n \in Nat : n <= Len(s) => u[n] \in Seq(S)}
  <2>4. u[0] = <<>> /\ u[Len(s)] = f[Len(s)] BY <2>1
  <2>5. f[1] = s[1] BY <2>1, <2>2
  <2>6. s[1] \in Seq(S) BY <2>1
  <2>7. \A i \in 1..Len(s) : i # 1 => f[i] = f[i - 1] \o s[i] BY <2>2
  <2>8. ASSUME NEW i \in 1..Len(s) PROVE u[i] = u[i - 1] \o s[i]
    <3>1. CASE i = 1
      <4>1. u[i] = s[1] /\ u[i - 1] = <<>> BY <2>1, <2>5, <3>1
      <4>2. <<>> \o s[1] = s[1] BY <2>6
      <4> QED BY <3>1, <4>1, <4>2
    <3>2. CASE i # 1
      <4>1. u[i] = f[i] /\ u[i - 1] = f[i - 1] BY <3>2
      <4> HIDE DEF u
      <4> QED BY <2>7, <3>2, <4>1
    <3> QED BY <3>1, <3>2
  <2> HIDE DEF u
  <2>9. 0 \in T
    <3>1. <<>> \in Seq(S) OBVIOUS
    <3> QED BY <2>4, <3>1
  <2>10. ASSUME NEW n \in T PROVE n + 1 \in T
    <3>1. CASE n + 1 <= Len(s)
      <4>1. u[n] \in Seq(S) /\ n \in Nat BY <2>1, <3>1
      <4>2. s[n + 1] \in Seq(S) BY <2>1, <3>1, <4>1
      <4>3. u[n + 1] = u[n] \o s[n + 1]
        <5>1. n + 1 \in 1..Len(s) /\ (n + 1) - 1 = n BY <2>1, <3>1, <4>1
        <5>2. u[n + 1] = u[(n + 1) - 1] \o s[n + 1] BY <2>8, <5>1, Zenon
        <5> QED BY <5>1, <5>2, Zenon
      <4>4. u[n + 1] \in Seq(S) BY <4>1, <4>2, <4>3
      <4> QED BY <4>1, <4>4
    <3> QED BY <3>1
  <2>11. T = Nat
    <3> HIDE DEF T
    <3>1. T \in SUBSET Nat BY DEF T
    <3> QED BY <2>9, <2>10, <3>1, AllNumbers
  <2>12. \A i \in 0..Len(s) : u[i] \in Seq(S) BY <2>11
  <2> QED BY <2>3, <2>4, <2>8, <2>12
<1> QED BY <1>1, <1>2

-----------------------------------------------------------------------------
(* Texts: no property is on two lines.                                     *)

Once(ls) ==
  \A i, j \in DOMAIN ls : ls[i].key = ls[j].key /\ ls[i].key # Mark => i = j

Texts ==
  {ls \in Seq(Line) : /\ Once(ls)
                      /\ \A i \in DOMAIN ls : ls[i].key # Mark => ls[i].value \in Value}

\* No mark without its property.
Tidy(ls) == ~IsMark(ls, Len(ls))

\* The one line of a property is the one GetProperties() reads.
LEMMA LineOfProperty ==
  ASSUME NEW ls, Once(ls), NEW i \in DOMAIN ls, ls[i].key # Mark
  PROVE  /\ ls[i].key \in DOMAIN GetProperties(ls)
         /\ GetProperties(ls)[ls[i].key] = [value |-> ls[i].value, important |-> IsMark(ls, i - 1)]
<1> DEFINE k == ls[i].key
           found == CHOOSE j \in DOMAIN ls : ls[j].key = k
<1>1. found \in DOMAIN ls /\ ls[found].key = k OBVIOUS
<1>2. found = i BY <1>1 DEF Once
<1>3. k \in KeysOf(ls) BY DEF KeysOf
<1>4. DOMAIN GetProperties(ls) = KeysOf(ls) BY DEF GetProperties
<1>5. GetProperties(ls)[k] = [value |-> ls[found].value, important |-> IsMark(ls, found - 1)]
  BY <1>3 DEF GetProperties
<1> QED BY <1>2, <1>3, <1>4, <1>5

\* Each property has a line.
LEMMA PropertyHasLine ==
  ASSUME NEW ls, NEW k \in DOMAIN GetProperties(ls)
  PROVE  \E i \in DOMAIN ls : ls[i].key = k /\ k # Mark
  BY DEF GetProperties, KeysOf

\* A sequence and one line more.
LEMMA OneMore ==
  ASSUME NEW S, NEW out \in Seq(S), NEW x \in S
  PROVE  /\ out \o <<x>> \in Seq(S)
         /\ Len(out \o <<x>>) = Len(out) + 1
         /\ \A p \in 1..Len(out) : (out \o <<x>>)[p] = out[p]
         /\ (out \o <<x>>)[Len(out) + 1] = x
  OBVIOUS

\* Two short texts in a row.
LEMMA Pair ==
  ASSUME NEW S, NEW x \in S, NEW y \in S
  PROVE  <<x>> \o <<y>> = <<x, y>>
<1>1. <<x>> \in Seq(S) /\ Len(<<x>>) = 1 OBVIOUS
<1> DEFINE both == <<x>> \o <<y>>
<1>2. both \in Seq(S) /\ Len(both) = 2 /\ both[1] = x /\ both[2] = y
  BY <1>1, OneMore
<1>3. <<x, y>> \in Seq(S) OBVIOUS
<1> HIDE DEF both
<1>4. both = <<x, y>> BY <1>2, <1>3
<1> QED BY <1>4 DEF both

\* Two lines more at the end of a text.
LEMMA TwoMore ==
  ASSUME NEW S, NEW out \in Seq(S), NEW x \in S, NEW y \in S
  PROVE  /\ out \o <<x, y>> \in Seq(S)
         /\ Len(out \o <<x, y>>) = Len(out) + 2
         /\ \A p \in 1..Len(out) : (out \o <<x, y>>)[p] = out[p]
         /\ (out \o <<x, y>>)[Len(out) + 1] = x
         /\ (out \o <<x, y>>)[Len(out) + 2] = y
  OBVIOUS

-----------------------------------------------------------------------------
(* update_portal_ext()                                                     *)

\* What becomes of the lines up to the n-th: v is the new value of each
\* property, updated and important are sets of properties.
Rewritten(out, ls, v, updated, important, n) ==
  /\ out \in Seq(Line)
  /\ Once(out)
  /\ \A p \in DOMAIN out : out[p].key # Mark =>
       /\ out[p].value = v[out[p].key]
       /\ \E i \in 1..n :
            /\ ls[i].key = out[p].key
            /\ IsMark(out, p - 1) <=>
                 \/ ls[i].key \in important
                 \/ ls[i].key \notin updated /\ IsMark(ls, i - 1)
  /\ \A i \in 1..n : ls[i].key # Mark => \E p \in DOMAIN out : out[p].key = ls[i].key
  /\ IsMark(out, Len(out)) <=> IsMark(ls, n) /\ Marked(ls, n) \cap updated = {}

\* The line that follows decides what a mark marks, unless it is a mark too.
LEMMA MarkedByTheNext ==
  ASSUME NEW ls \in Seq(Line), NEW n \in Nat, n + 1 \in DOMAIN ls
  PROVE  /\ ls[n + 1].key # Mark => Marked(ls, n) = {ls[n + 1].key}
         /\ ls[n + 1].key = Mark => Marked(ls, n) = Marked(ls, n + 1)
<1>1. ASSUME ls[n + 1].key # Mark PROVE Marked(ls, n) = {ls[n + 1].key}
  <2>1. ASSUME NEW j \in DOMAIN ls, j > n, \A m \in n + 1..j - 1 : ls[m].key = Mark
        PROVE  j = n + 1
    BY <1>1, <2>1
  <2>2. \A m \in n + 1..(n + 1) - 1 : ls[m].key = Mark OBVIOUS
  <2> QED BY <1>1, <2>1, <2>2 DEF Marked
<1>2. ASSUME ls[n + 1].key = Mark PROVE Marked(ls, n) = Marked(ls, n + 1)
  <2>1. ASSUME NEW j \in DOMAIN ls, ls[j].key # Mark
        PROVE  (j > n /\ \A m \in n + 1..j - 1 : ls[m].key = Mark) <=>
               (j > n + 1 /\ \A m \in (n + 1) + 1..j - 1 : ls[m].key = Mark)
    BY <1>2, <2>1
  <2> QED BY <2>1 DEF Marked
<1> QED BY <1>1, <1>2

\* A property is written, with its mark or without.
LEMMA RewrittenProperty ==
  ASSUME NEW ls \in Texts, NEW v, NEW updated, NEW important, NEW n \in Nat, n + 1 \in DOMAIN ls,
         NEW out, Rewritten(out, ls, v, updated, important, n),
         ls[n + 1].key # Mark, v[ls[n + 1].key] \in Value
  PROVE  Rewritten(out \o Written(ls[n + 1].key, v[ls[n + 1].key], important),
                   ls, v, updated, important, n + 1)
<1> DEFINE k == ls[n + 1].key
           line == [key |-> k, value |-> v[k]]
           new == out \o Written(k, v[k], important)
           L == Len(new)
<1>1. k \in Key /\ k # Mark
  <2>1. ls[n + 1] \in Line BY DEF Texts
  <2> QED BY <2>1 DEF Line
<1>2. line \in Line /\ MarkLine \in Line BY <1>1 DEF Line, MarkLine
<1>3. out \in Seq(Line) /\ Len(out) \in Nat BY DEF Rewritten
<1>4. /\ new \in Seq(Line) /\ L \in Nat /\ L >= Len(out) + 1
      /\ \A p \in 1..Len(out) : new[p] = out[p]
      /\ new[L] = line
      /\ k \in important => L = Len(out) + 2 /\ new[Len(out) + 1] = MarkLine
      /\ k \notin important => L = Len(out) + 1
  <2>1. CASE k \in important
    <3>1. Written(k, v[k], important) = <<MarkLine>> \o <<line>> BY <2>1 DEF Written
    <3>2. <<MarkLine>> \o <<line>> = <<MarkLine, line>> BY <1>2, Pair
    <3> QED BY <1>2, <1>3, <2>1, <3>1, <3>2, TwoMore
  <2>2. CASE k \notin important
    <3>1. Written(k, v[k], important) = <<line>> BY <2>2 DEF Written
    <3> QED BY <1>2, <1>3, <2>2, <3>1, OneMore
  <2> QED BY <2>1, <2>2
<1>5. line.key = k /\ line.value = v[k] OBVIOUS
<1>6. MarkLine.key = Mark BY DEF MarkLine
<1> HIDE DEF k, line, new, L
<1>7. DOMAIN new = 1..L /\ DOMAIN out = 1..Len(out) BY <1>3, <1>4 DEF L
<1>8. \A p \in DOMAIN new : new[p].key # Mark => p \in DOMAIN out \/ p = L
  BY <1>4, <1>6, <1>7
<1>9. \A p \in DOMAIN out : out[p].key # k
  <2>1. SUFFICES ASSUME NEW p \in DOMAIN out, out[p].key = k PROVE FALSE OBVIOUS
  <2>2. PICK i \in 1..n : ls[i].key = k BY <1>1, <2>1 DEF Rewritten
  <2>3. i \in DOMAIN ls /\ n + 1 \in DOMAIN ls /\ Once(ls) BY DEF Texts
  <2>4. i = n + 1 BY <1>1, <2>2, <2>3 DEF Once, k
  <2> QED BY <2>4
<1>10. \A p \in DOMAIN new : p \in DOMAIN out => new[p] = out[p] BY <1>4, <1>7
<1>11. Once(new) BY <1>4, <1>5, <1>7, <1>8, <1>9, <1>10 DEF Once, Rewritten
<1>12. IsMark(new, L - 1) <=> (k \in important \/ (k \notin updated /\ IsMark(ls, n)))
  <2>1. CASE k \in important
    <3>1. L - 1 \in 1..L /\ new[L - 1] = MarkLine BY <1>3, <1>4, <2>1
    <3>2. IsMark(new, L - 1) BY <1>6, <1>7, <3>1 DEF IsMark
    <3> QED BY <2>1, <3>2, Zenon
  <2>2. CASE k \notin important
    <3>1. IsMark(new, L - 1) <=> IsMark(out, Len(out)) BY <1>4, <1>7, <2>2 DEF IsMark
    <3>2. Marked(ls, n) = {k} BY <1>1, MarkedByTheNext DEF k, Texts
    <3>3. IsMark(out, Len(out)) <=> IsMark(ls, n) /\ Marked(ls, n) \cap updated = {}
      BY DEF Rewritten
    <3> QED BY <2>2, <3>1, <3>2, <3>3
  <2> QED BY <2>1, <2>2
<1>13. ASSUME NEW p \in DOMAIN new, new[p].key # Mark
       PROVE  /\ new[p].value = v[new[p].key]
              /\ \E i \in 1..n + 1 :
                   /\ ls[i].key = new[p].key
                   /\ IsMark(new, p - 1) <=>
                        \/ ls[i].key \in important
                        \/ ls[i].key \notin updated /\ IsMark(ls, i - 1)
  <2>1. CASE p \in DOMAIN out
    <3>1. new[p] = out[p] BY <1>10, <2>1
    <3>2. IsMark(new, p - 1) <=> IsMark(out, p - 1) BY <1>3, <1>4, <1>7, <2>1 DEF IsMark
    <3>3. PICK i \in 1..n :
            /\ ls[i].key = out[p].key
            /\ IsMark(out, p - 1) <=>
                 \/ ls[i].key \in important
                 \/ ls[i].key \notin updated /\ IsMark(ls, i - 1)
      BY <1>13, <2>1, <3>1 DEF Rewritten
    <3>4. out[p].value = v[out[p].key] BY <1>13, <2>1, <3>1 DEF Rewritten
    <3>5. i \in 1..n + 1 OBVIOUS
    <3> QED BY <3>1, <3>2, <3>3, <3>4, <3>5
  <2>2. CASE p = L
    <3>1. new[p].key = k /\ new[p].value = v[k] BY <1>4, <1>5, <2>2
    <3>2. ls[n + 1].key = k /\ n + 1 \in 1..n + 1 /\ (n + 1) - 1 = n BY DEF k
    <3>3. IsMark(new, p - 1) <=> (k \in important \/ (k \notin updated /\ IsMark(ls, n)))
      BY <1>12, <2>2
    <3>4. \E i \in 1..n + 1 : i = n + 1 /\ i - 1 = n OBVIOUS
    <3>5. PICK i \in 1..n + 1 : i = n + 1 /\ i - 1 = n BY <3>4
    <3>6. /\ ls[i].key = new[p].key
          /\ IsMark(new, p - 1) <=>
               \/ ls[i].key \in important
               \/ ls[i].key \notin updated /\ IsMark(ls, i - 1)
      BY <3>1, <3>2, <3>3, <3>5, Zenon
    <3> QED BY <3>1, <3>6, Zenon
  <2> QED BY <1>8, <1>13, <2>1, <2>2
<1>14. ASSUME NEW i \in 1..n + 1, ls[i].key # Mark
       PROVE  \E p \in DOMAIN new : new[p].key = ls[i].key
  <2>1. CASE i = n + 1 BY <1>4, <1>5, <1>7, <2>1 DEF k
  <2>2. CASE i \in 1..n
    <3>1. PICK p \in DOMAIN out : out[p].key = ls[i].key BY <1>14, <2>2 DEF Rewritten
    <3>2. p \in DOMAIN new BY <1>4, <1>7
    <3> QED BY <1>10, <3>1, <3>2
  <2> QED BY <2>1, <2>2
<1>15. ~IsMark(new, L) /\ ~IsMark(ls, n + 1) BY <1>1, <1>4, <1>5 DEF IsMark, k
<1>16. Rewritten(new, ls, v, updated, important, n + 1)
  BY <1>4, <1>11, <1>13, <1>14, <1>15 DEF Rewritten, L
<1> QED BY <1>16 DEF new, k

\* A mark is kept, or is left out before a property that is updated.
LEMMA RewrittenMark ==
  ASSUME NEW ls \in Texts, NEW v, NEW updated, NEW important, NEW n \in Nat, n + 1 \in DOMAIN ls,
         NEW out, Rewritten(out, ls, v, updated, important, n), ls[n + 1].key = Mark
  PROVE  Rewritten(IF Marked(ls, n + 1) \cap updated = {} THEN out \o <<ls[n + 1]>> ELSE out,
                   ls, v, updated, important, n + 1)
<1>1. IsMark(ls, n + 1) /\ Marked(ls, n) = Marked(ls, n + 1)
  BY MarkedByTheNext DEF IsMark, Texts
<1>2. out \in Seq(Line) /\ Len(out) \in Nat /\ ls[n + 1] \in Line BY DEF Rewritten, Texts
<1>3. CASE Marked(ls, n + 1) \cap updated # {}
  <2>1. ~IsMark(out, Len(out)) BY <1>1, <1>3 DEF Rewritten
  <2>2. ASSUME NEW p \in DOMAIN out, out[p].key # Mark
        PROVE  \E i \in 1..n + 1 :
                   /\ ls[i].key = out[p].key
                   /\ IsMark(out, p - 1) <=>
                        \/ ls[i].key \in important
                        \/ ls[i].key \notin updated /\ IsMark(ls, i - 1)
    <3>1. \A i \in 1..n : i \in 1..n + 1 OBVIOUS
    <3> QED BY <2>2, <3>1 DEF Rewritten
  <2>3. \A i \in 1..n + 1 : ls[i].key # Mark => \E p \in DOMAIN out : out[p].key = ls[i].key
    <3>1. \A i \in 1..n + 1 : ls[i].key # Mark => i \in 1..n OBVIOUS
    <3> QED BY <3>1 DEF Rewritten
  <2>4. Rewritten(out, ls, v, updated, important, n + 1)
    BY <1>1, <1>3, <2>1, <2>2, <2>3 DEF Rewritten
  <2> QED BY <1>3, <2>4
<1>4. CASE Marked(ls, n + 1) \cap updated = {}
  <2> DEFINE new == out \o <<ls[n + 1]>>
             L == Len(out) + 1
  <2>1. /\ new \in Seq(Line) /\ Len(new) = L
        /\ \A p \in 1..Len(out) : new[p] = out[p]
        /\ new[L] = ls[n + 1]
    BY <1>2, OneMore
  <2> HIDE DEF new
  <2>2. DOMAIN new = 1..L /\ DOMAIN out = 1..Len(out) BY <1>2, <2>1
  <2>3. \A p \in DOMAIN new : new[p].key # Mark => p \in DOMAIN out /\ new[p] = out[p]
    BY <1>2, <2>1, <2>2
  <2>4. Once(new)
    <3>1. Once(out) BY DEF Rewritten
    <3> QED BY <2>3, <3>1 DEF Once
  <2>5. ASSUME NEW p \in DOMAIN new, new[p].key # Mark
        PROVE  /\ new[p].value = v[new[p].key]
               /\ \E i \in 1..n + 1 :
                    /\ ls[i].key = new[p].key
                    /\ IsMark(new, p - 1) <=>
                         \/ ls[i].key \in important
                         \/ ls[i].key \notin updated /\ IsMark(ls, i - 1)
    <3>1. p \in DOMAIN out /\ new[p] = out[p] BY <2>3, <2>5
    <3>2. IsMark(new, p - 1) <=> IsMark(out, p - 1) BY <1>2, <2>1, <2>2, <3>1 DEF IsMark
    <3>3. PICK i \in 1..n :
            /\ ls[i].key = out[p].key
            /\ IsMark(out, p - 1) <=>
                 \/ ls[i].key \in important
                 \/ ls[i].key \notin updated /\ IsMark(ls, i - 1)
      BY <2>5, <3>1 DEF Rewritten
    <3>4. out[p].value = v[out[p].key] BY <2>5, <3>1 DEF Rewritten
    <3>5. i \in 1..n + 1 OBVIOUS
    <3> QED BY <3>1, <3>2, <3>3, <3>4, <3>5
  <2>6. ASSUME NEW i \in 1..n + 1, ls[i].key # Mark
        PROVE  \E p \in DOMAIN new : new[p].key = ls[i].key
    <3>1. i \in 1..n BY <2>6
    <3>2. PICK p \in DOMAIN out : out[p].key = ls[i].key BY <2>6, <3>1 DEF Rewritten
    <3>3. p \in DOMAIN new /\ new[p] = out[p] BY <1>2, <2>1, <2>2
    <3> QED BY <3>2, <3>3
  <2>7. IsMark(new, Len(new)) BY <1>2, <2>1, <2>2 DEF IsMark
  <2>8. Rewritten(new, ls, v, updated, important, n + 1)
    BY <1>1, <1>4, <2>1, <2>4, <2>5, <2>6, <2>7 DEF Rewritten
  <2> QED BY <1>4, <2>8 DEF new
<1> QED BY <1>3, <1>4

-----------------------------------------------------------------------------
(* remove_portal_ext()                                                     *)

Gone(ls, k, i) == \/ ls[i].key = k
                  \/ IsMark(ls, i) /\ i < Len(ls) /\ ls[i + 1].key = k

\* What becomes of the lines up to the n-th.
Removed(out, ls, k, n) ==
  /\ out \in Seq(Line)
  /\ Once(out)
  /\ \A p \in DOMAIN out : out[p].key # Mark =>
       /\ out[p].key # k
       /\ \E i \in 1..n :
            /\ ls[i] = out[p]
            /\ ~LeavesAMark(ls, k) => (IsMark(out, p - 1) <=> IsMark(ls, i - 1))
  /\ \A i \in 1..n : ls[i].key \notin {Mark, k} => \E p \in DOMAIN out : out[p].key = ls[i].key
  /\ ~LeavesAMark(ls, k) =>
       (IsMark(out, Len(out)) <=> IsMark(ls, n) /\ ~(n < Len(ls) /\ ls[n + 1].key = k))

\* One line further, remove_portal_ext() still has what it is to keep.
LEMMA RemovedNext ==
  ASSUME NEW ls \in Texts, NEW k \in Key, NEW n \in Nat, n + 1 \in DOMAIN ls,
         NEW out, Removed(out, ls, k, n)
  PROVE  Removed(IF Gone(ls, k, n + 1) THEN out ELSE out \o <<ls[n + 1]>>, ls, k, n + 1)
<1>1. k # Mark BY KeysAssumption
<1>2. /\ out \in Seq(Line) /\ Len(out) \in Nat /\ ls[n + 1] \in Line
      /\ ls \in Seq(Line) /\ Len(ls) \in Nat /\ DOMAIN ls = 1..Len(ls) /\ n < Len(ls)
  BY DEF Removed, Texts
<1>3. (n + 1) - 1 = n /\ (n + 1) - 2 = n - 1 BY <1>2
<1>4. CASE Gone(ls, k, n + 1)
  <2>1. ASSUME ~LeavesAMark(ls, k)
        PROVE  /\ ~IsMark(out, Len(out))
               /\ ~(IsMark(ls, n + 1) /\ ~(n + 1 < Len(ls) /\ ls[(n + 1) + 1].key = k))
    <3>1. CASE ls[n + 1].key = k
      <4>1. ~IsMark(out, Len(out)) BY <1>2, <2>1, <3>1 DEF Removed
      <4>2. ~IsMark(ls, n + 1) BY <1>1, <3>1 DEF IsMark
      <4> QED BY <4>1, <4>2
    <3>2. CASE IsMark(ls, n + 1) /\ n + 1 < Len(ls) /\ ls[(n + 1) + 1].key = k
      <4>1. n + 2 \in DOMAIN ls /\ (n + 2) - 1 = n + 1 /\ (n + 2) - 2 = n /\ (n + 1) + 1 = n + 2
        BY <1>2, <3>2
      <4>2. ~IsMark(ls, n)
        <5>1. SUFFICES ASSUME IsMark(ls, n) PROVE FALSE OBVIOUS
        <5>2. IsMark(ls, (n + 2) - 1) /\ IsMark(ls, (n + 2) - 2) /\ ls[n + 2].key = k
          BY <3>2, <4>1, <5>1
        <5> QED BY <2>1, <4>1, <5>2, Zenon DEF LeavesAMark
      <4>3. ~IsMark(out, Len(out)) BY <2>1, <4>2 DEF Removed
      <4> QED BY <3>2, <4>3
    <3> QED BY <1>4, <3>1, <3>2 DEF Gone
  <2>2. ASSUME NEW p \in DOMAIN out, out[p].key # Mark
        PROVE  /\ out[p].key # k
               /\ \E i \in 1..n + 1 :
                    /\ ls[i] = out[p]
                    /\ ~LeavesAMark(ls, k) => (IsMark(out, p - 1) <=> IsMark(ls, i - 1))
    <3>1. \A i \in 1..n : i \in 1..n + 1 OBVIOUS
    <3> QED BY <2>2, <3>1 DEF Removed
  <2>3. \A i \in 1..n + 1 : ls[i].key \notin {Mark, k} => \E p \in DOMAIN out : out[p].key = ls[i].key
    <3>1. ls[n + 1].key \in {Mark, k} BY <1>4 DEF Gone, IsMark
    <3>2. \A i \in 1..n + 1 : ls[i].key \notin {Mark, k} => i \in 1..n BY <3>1
    <3> QED BY <3>2 DEF Removed
  <2>4. Removed(out, ls, k, n + 1) BY <2>1, <2>2, <2>3 DEF Removed
  <2> QED BY <1>4, <2>4
<1>5. CASE ~Gone(ls, k, n + 1)
  <2> DEFINE new == out \o <<ls[n + 1]>>
             L == Len(out) + 1
  <2>1. /\ new \in Seq(Line) /\ Len(new) = L
        /\ \A p \in 1..Len(out) : new[p] = out[p]
        /\ new[L] = ls[n + 1]
    BY <1>2, OneMore
  <2> HIDE DEF new
  <2>2. DOMAIN new = 1..L /\ DOMAIN out = 1..Len(out) BY <1>2, <2>1
  <2>3. \A p \in DOMAIN new : (p \in DOMAIN out /\ new[p] = out[p]) \/ p = L BY <1>2, <2>1, <2>2
  <2>4. ls[n + 1].key # k BY <1>5 DEF Gone
  <2>5. ls[n + 1].key # Mark => \A p \in DOMAIN out : out[p].key # ls[n + 1].key
    <3>1. SUFFICES ASSUME ls[n + 1].key # Mark, NEW p \in DOMAIN out, out[p].key = ls[n + 1].key
                   PROVE FALSE
      OBVIOUS
    <3>2. PICK i \in 1..n : ls[i] = out[p] BY <3>1 DEF Removed
    <3>3. i \in DOMAIN ls /\ n + 1 \in DOMAIN ls /\ Once(ls) BY DEF Texts
    <3>4. i = n + 1 BY <3>1, <3>2, <3>3 DEF Once
    <3> QED BY <3>4
  <2>6. Once(new)
    <3>1. Once(out) BY DEF Removed
    <3> QED BY <2>1, <2>3, <2>5, <3>1 DEF Once
  <2>7. ASSUME NEW p \in DOMAIN new, new[p].key # Mark
        PROVE  /\ new[p].key # k
               /\ \E i \in 1..n + 1 :
                    /\ ls[i] = new[p]
                    /\ ~LeavesAMark(ls, k) => (IsMark(new, p - 1) <=> IsMark(ls, i - 1))
    <3>1. CASE p \in DOMAIN out
      <4>1. new[p] = out[p] BY <1>2, <2>1, <2>2, <3>1
      <4>2. IsMark(new, p - 1) <=> IsMark(out, p - 1) BY <1>2, <2>1, <2>2, <3>1 DEF IsMark
      <4>3. PICK i \in 1..n :
              /\ ls[i] = out[p]
              /\ ~LeavesAMark(ls, k) => (IsMark(out, p - 1) <=> IsMark(ls, i - 1))
        BY <2>7, <3>1, <4>1 DEF Removed
      <4>4. out[p].key # k BY <2>7, <3>1, <4>1 DEF Removed
      <4>5. i \in 1..n + 1 OBVIOUS
      <4> QED BY <4>1, <4>2, <4>3, <4>4, <4>5
    <3>2. CASE p = L
      <4>1. new[p] = ls[n + 1] BY <2>1, <3>2
      <4>2. p - 1 = Len(out) BY <1>2, <3>2
      <4>3. IsMark(new, p - 1) <=> IsMark(out, Len(out))
        BY <1>2, <2>1, <2>2, <4>2 DEF IsMark
      <4>4. ~LeavesAMark(ls, k) => (IsMark(out, Len(out)) <=> IsMark(ls, n))
        BY <2>4 DEF Removed
      <4>5. PICK i \in 1..n + 1 : i = n + 1 /\ i - 1 = n OBVIOUS
      <4>6. ~LeavesAMark(ls, k) => (IsMark(new, p - 1) <=> IsMark(ls, i - 1))
        BY <4>3, <4>4, <4>5, Zenon
      <4>7. ls[i] = new[p] BY <4>1, <4>5
      <4> QED BY <2>4, <4>1, <4>6, <4>7
    <3> QED BY <2>3, <3>1, <3>2
  <2>8. ASSUME NEW i \in 1..n + 1, ls[i].key \notin {Mark, k}
        PROVE  \E p \in DOMAIN new : new[p].key = ls[i].key
    <3>1. CASE i = n + 1
      <4>1. L \in DOMAIN new BY <1>2, <2>2
      <4> QED BY <2>1, <3>1, <4>1
    <3>2. CASE i \in 1..n
      <4>1. PICK p \in DOMAIN out : out[p].key = ls[i].key BY <2>8, <3>2 DEF Removed
      <4>2. p \in DOMAIN new /\ new[p] = out[p] BY <1>2, <2>1, <2>2
      <4> QED BY <4>1, <4>2
    <3> QED BY <3>1, <3>2
  <2>9. IsMark(new, Len(new)) <=>
          IsMark(ls, n + 1) /\ ~(n + 1 < Len(ls) /\ ls[(n + 1) + 1].key = k)
    <3>1. IsMark(new, Len(new)) <=> IsMark(ls, n + 1) BY <1>2, <2>1, <2>2 DEF IsMark
    <3> QED BY <1>5, <3>1 DEF Gone
  <2>10. Removed(new, ls, k, n + 1) BY <2>1, <2>6, <2>7, <2>8, <2>9 DEF Removed
  <2> QED BY <1>5, <2>10 DEF new
<1> QED BY <1>4, <1>5

-----------------------------------------------------------------------------
(* Whole files.                                                            *)

\* What update_portal_ext() makes of one line.
Piece(ls, v, updated, important, i) ==
  IF ls[i].key # Mark THEN Written(ls[i].key, v[ls[i].key], important)
  ELSE IF Marked(ls, i) \cap updated = {} THEN <<ls[i]>> ELSE <<>>

\* What is written for a property are lines.
LEMMA WrittenLines ==
  ASSUME NEW k \in Key, NEW x \in Value, NEW important
  PROVE  Written(k, x, important) \in Seq(Line)
<1> DEFINE line == [key |-> k, value |-> x]
<1>1. line \in Line /\ MarkLine \in Line BY DEF Line, MarkLine
<1>2. (IF k \in important THEN <<MarkLine>> ELSE <<>>) \in Seq(Line) BY <1>1
<1>3. <<line>> \in Seq(Line) BY <1>1
<1> QED BY <1>2, <1>3 DEF Written

\* The pieces in a row are the whole text, rewritten.
LEMMA RewrittenAll ==
  ASSUME NEW ls \in Texts, NEW v, NEW updated, NEW important,
         \A i \in DOMAIN ls : ls[i].key # Mark => v[ls[i].key] \in Value
  PROVE  LET pieces == [i \in DOMAIN ls |-> Piece(ls, v, updated, important, i)]
         IN  Rewritten(FlattenSeq(pieces), ls, v, updated, important, Len(ls))
<1> DEFINE pieces == [i \in DOMAIN ls |-> Piece(ls, v, updated, important, i)]
<1>1. ls \in Seq(Line) /\ Len(ls) \in Nat /\ DOMAIN ls = 1..Len(ls) BY DEF Texts
<1>2. ASSUME NEW i \in DOMAIN ls PROVE Piece(ls, v, updated, important, i) \in Seq(Line)
  <2>1. ls[i] \in Line BY <1>1
  <2>2. ls[i].key # Mark => ls[i].key \in Key BY <2>1 DEF Line
  <2>3. <<>> \in Seq(Line) /\ <<ls[i]>> \in Seq(Line) BY <2>1
  <2> QED BY <2>2, <2>3, WrittenLines DEF Piece
<1>3. pieces \in Seq(Seq(Line)) /\ Len(pieces) = Len(ls)
  <2>1. pieces \in [1..Len(ls) -> Seq(Line)] BY <1>1, <1>2
  <2> HIDE DEF pieces
  <2> QED BY <1>1, <2>1
<1>4. \A i \in DOMAIN ls : pieces[i] = Piece(ls, v, updated, important, i) OBVIOUS
<1> HIDE DEF pieces
<1>5. PICK u : /\ FlattenSeq(pieces) = u[Len(pieces)]
               /\ u[0] = <<>>
               /\ \A i \in 1..Len(pieces) : u[i] = u[i - 1] \o pieces[i]
               /\ \A i \in 0..Len(pieces) : u[i] \in Seq(Line)
  BY <1>3, FlattenStepwise
<1> DEFINE T == {n \in Nat : n <= Len(ls) => Rewritten(u[n], ls, v, updated, important, n)}
<1>6. 0 \in T
  <2>1. Rewritten(<<>>, ls, v, updated, important, 0)
    BY <1>1 DEF Rewritten, Once, IsMark
  <2> QED BY <1>5, <2>1
<1>7. ASSUME NEW n \in T PROVE n + 1 \in T
  <2>1. SUFFICES ASSUME n + 1 <= Len(ls)
                 PROVE  Rewritten(u[n + 1], ls, v, updated, important, n + 1)
    OBVIOUS
  <2>2. n \in Nat /\ Rewritten(u[n], ls, v, updated, important, n) BY <1>1, <2>1
  <2>3. n + 1 \in DOMAIN ls /\ (n + 1) - 1 = n /\ n \in 0..Len(pieces) BY <1>1, <1>3, <2>1, <2>2
  <2>4. u[n + 1] = u[n] \o Piece(ls, v, updated, important, n + 1)
    <3>1. u[n + 1] = u[(n + 1) - 1] \o pieces[n + 1] BY <1>1, <1>3, <1>5, <2>3, Zenon
    <3> QED BY <1>4, <2>3, <3>1, Zenon
  <2>5. u[n] \in Seq(Line) BY <1>5, <2>3
  <2> HIDE DEF T
  <2>6. CASE ls[n + 1].key # Mark
    <3>1. Piece(ls, v, updated, important, n + 1) = Written(ls[n + 1].key, v[ls[n + 1].key], important)
      BY <2>6 DEF Piece
    <3> QED BY <2>2, <2>3, <2>4, <2>6, <3>1, RewrittenProperty
  <2>7. CASE ls[n + 1].key = Mark
    <3>1. Rewritten(IF Marked(ls, n + 1) \cap updated = {} THEN u[n] \o <<ls[n + 1]>> ELSE u[n],
                    ls, v, updated, important, n + 1)
      BY <2>2, <2>3, <2>7, RewrittenMark
    <3>2. u[n] \o <<>> = u[n] BY <2>5
    <3>3. u[n + 1] = IF Marked(ls, n + 1) \cap updated = {} THEN u[n] \o <<ls[n + 1]>> ELSE u[n]
      BY <2>4, <2>7, <3>2, Zenon DEF Piece
    <3> QED BY <3>1, <3>3
  <2> QED BY <2>6, <2>7
<1>8. T = Nat
  <2> HIDE DEF T
  <2>1. T \in SUBSET Nat BY DEF T
  <2> QED BY <1>6, <1>7, <2>1, AllNumbers
<1>9. Rewritten(u[Len(ls)], ls, v, updated, important, Len(ls)) BY <1>1, <1>8
<1>10. Rewritten(FlattenSeq(pieces), ls, v, updated, important, Len(ls)) BY <1>3, <1>5, <1>9
<1> QED BY <1>10 DEF pieces

\* remove_portal_ext() of a whole text.
LEMMA RemovedAll ==
  ASSUME NEW ls \in Texts, NEW k \in Key
  PROVE  Removed(RemovePortalExt(ls, k), ls, k, Len(ls))
<1> DEFINE pieces == [i \in DOMAIN ls |-> IF Gone(ls, k, i) THEN <<>> ELSE <<ls[i]>>]
<1>1. ls \in Seq(Line) /\ Len(ls) \in Nat /\ DOMAIN ls = 1..Len(ls) BY DEF Texts
<1>2. RemovePortalExt(ls, k) = FlattenSeq(pieces) BY DEF RemovePortalExt, Gone
<1>3. pieces \in Seq(Seq(Line)) /\ Len(pieces) = Len(ls)
  <2>1. ASSUME NEW i \in DOMAIN ls
        PROVE  (IF Gone(ls, k, i) THEN <<>> ELSE <<ls[i]>>) \in Seq(Line)
    <3>1. ls[i] \in Line BY <1>1
    <3>2. <<>> \in Seq(Line) /\ <<ls[i]>> \in Seq(Line) BY <3>1
    <3> QED BY <3>2
  <2>2. pieces \in [1..Len(ls) -> Seq(Line)] BY <1>1, <2>1
  <2> HIDE DEF pieces
  <2> QED BY <1>1, <2>2
<1>4. \A i \in DOMAIN ls : pieces[i] = IF Gone(ls, k, i) THEN <<>> ELSE <<ls[i]>> OBVIOUS
<1> HIDE DEF pieces
<1>5. PICK u : /\ FlattenSeq(pieces) = u[Len(pieces)]
               /\ u[0] = <<>>
               /\ \A i \in 1..Len(pieces) : u[i] = u[i - 1] \o pieces[i]
               /\ \A i \in 0..Len(pieces) : u[i] \in Seq(Line)
  BY <1>3, FlattenStepwise
<1> DEFINE T == {n \in Nat : n <= Len(ls) => Removed(u[n], ls, k, n)}
<1>6. 0 \in T
  <2>1. Removed(<<>>, ls, k, 0)
    BY <1>1 DEF Removed, Once, IsMark
  <2> QED BY <1>5, <2>1
<1>7. ASSUME NEW n \in T PROVE n + 1 \in T
  <2>1. SUFFICES ASSUME n + 1 <= Len(ls) PROVE Removed(u[n + 1], ls, k, n + 1) OBVIOUS
  <2>2. n \in Nat /\ Removed(u[n], ls, k, n) BY <1>1, <2>1
  <2>3. n + 1 \in DOMAIN ls /\ (n + 1) - 1 = n /\ n \in 0..Len(pieces) BY <1>1, <1>3, <2>1, <2>2
  <2>4. u[n + 1] = u[n] \o (IF Gone(ls, k, n + 1) THEN <<>> ELSE <<ls[n + 1]>>)
    <3>1. u[n + 1] = u[(n + 1) - 1] \o pieces[n + 1] BY <1>1, <1>3, <1>5, <2>3, Zenon
    <3> QED BY <1>4, <2>3, <3>1, Zenon
  <2>5. u[n] \in Seq(Line) BY <1>5, <2>3
  <2> HIDE DEF T
  <2>6. u[n] \o <<>> = u[n] BY <2>5
  <2>7. u[n + 1] = IF Gone(ls, k, n + 1) THEN u[n] ELSE u[n] \o <<ls[n + 1]>>
    BY <2>4, <2>6, Zenon
  <2>8. Removed(IF Gone(ls, k, n + 1) THEN u[n] ELSE u[n] \o <<ls[n + 1]>>, ls, k, n + 1)
    BY <2>2, <2>3, RemovedNext
  <2> QED BY <2>7, <2>8
<1>8. T = Nat
  <2> HIDE DEF T
  <2>1. T \in SUBSET Nat BY DEF T
  <2> QED BY <1>6, <1>7, <2>1, AllNumbers
<1>9. Removed(u[Len(ls)], ls, k, Len(ls)) BY <1>1, <1>8
<1> QED BY <1>2, <1>3, <1>5, <1>9

\* SetToSeq lists each element of a finite set once.
LEMMA Listed ==
  ASSUME NEW S, IsFiniteSet(S)
  PROVE  /\ SetToSeq(S) \in Seq(S)
         /\ \A x \in S : \E i \in DOMAIN SetToSeq(S) : SetToSeq(S)[i] = x
         /\ \A i, j \in DOMAIN SetToSeq(S) : SetToSeq(S)[i] = SetToSeq(S)[j] => i = j
<1> DEFINE n == Cardinality(S)
           q == SetToSeq(S)
<1>1. n \in Nat /\ ExistsBijection(1..n, S) BY FS_CardinalityType
<1>2. PICK f : f \in Bijection(1..n, S) BY <1>1 DEF ExistsBijection
<1>3. f \in [1..n -> S] /\ IsInjective(f) BY <1>2 DEF Bijection, Injection
<1>4. q \in [1..n -> S] /\ IsInjective(q) BY <1>3, Zenon DEF SetToSeq
<1>5. q \in Injection(1..n, S) BY <1>4 DEF Injection
<1>6. IsFiniteSet(1..n) /\ Cardinality(1..n) = n
  <2> HIDE DEF n
  <2>1. Cardinality(1..n) = IF 1 > n THEN 0 ELSE n - 1 + 1 BY <1>1, FS_Interval
  <2>2. IsFiniteSet(1..n) BY <1>1, FS_Interval
  <2> QED BY <1>1, <2>1, <2>2
<1> HIDE DEF q
<1>7. q \in Surjection(1..n, S) BY <1>5, <1>6, FS_Injection
<1>8. \A x \in S : \E i \in 1..n : q[i] = x BY <1>7, Zenon DEF Surjection
<1>9. DOMAIN q = 1..n BY <1>4
<1>10. q \in Seq(S)
  <2> HIDE DEF n
  <2> QED BY <1>1, <1>4
<1>11. \A i, j \in DOMAIN q : q[i] = q[j] => i = j BY <1>4, Zenon DEF IsInjective
<1> HIDE DEF n
<1> QED BY <1>8, <1>9, <1>10, <1>11 DEF q

\* A text has finitely many properties, and they are what the types say.
LEMMA TextHasProps ==
  ASSUME NEW ls \in Texts
  PROVE  IsProps(GetProperties(ls)) /\ DOMAIN GetProperties(ls) = KeysOf(ls)
<1> DEFINE props == GetProperties(ls)
           f == [i \in DOMAIN ls |-> ls[i].key]
           all == {ls[i].key : i \in DOMAIN ls}
<1>1. ls \in Seq(Line) /\ Len(ls) \in Nat /\ DOMAIN ls = 1..Len(ls) BY DEF Texts
<1>2. DOMAIN props = KeysOf(ls) BY DEF GetProperties
<1>3. IsFiniteSet(KeysOf(ls))
  <2>1. f \in Surjection(DOMAIN ls, all) BY DEF Surjection
  <2>2. IsFiniteSet(DOMAIN ls) BY <1>1, FS_Interval
  <2> HIDE DEF f
  <2>3. IsFiniteSet(all) BY <2>1, <2>2, FS_Surjection
  <2>4. KeysOf(ls) \in SUBSET all BY DEF KeysOf
  <2> HIDE DEF all
  <2> QED BY <2>3, <2>4, FS_Subset
<1>4. ASSUME NEW k \in DOMAIN props
      PROVE  k \in Key /\ props[k] \in [value : Value, important : BOOLEAN]
  <2>1. PICK i \in DOMAIN ls : ls[i].key = k /\ k # Mark BY <1>4, PropertyHasLine
  <2>2. props[k] = [value |-> ls[i].value, important |-> IsMark(ls, i - 1)]
    BY <2>1, LineOfProperty DEF Texts
  <2>3. ls[i].value \in Value BY <2>1 DEF Texts
  <2>4. ls[i] \in Line BY <1>1
  <2>5. IsMark(ls, i - 1) \in BOOLEAN BY DEF IsMark
  <2>6. k \in Key BY <2>1, <2>4 DEF Line
  <2> QED BY <2>2, <2>3, <2>5, <2>6
<1>5. props = [k \in DOMAIN props |-> props[k]] BY DEF GetProperties
<1> HIDE DEF props
<1>6. props \in [DOMAIN props -> [value : Value, important : BOOLEAN]] BY <1>4, <1>5
<1> QED BY <1>2, <1>3, <1>4, <1>6 DEF IsProps, props

\* What is removed is gone, and nothing else; no mark passes to another property
\* unless one is left.
LEMMA RemoveText ==
  ASSUME NEW ls \in Texts, NEW k \in Key
  PROVE  LET new == RemovePortalExt(ls, k)
             old == GetProperties(ls)
             props == GetProperties(new)
         IN  /\ new \in Texts
             /\ DOMAIN props = DOMAIN old \ {k}
             /\ \A x \in DOMAIN props : props[x].value = old[x].value
             /\ ~LeavesAMark(ls, k) /\ Tidy(ls) =>
                  /\ Tidy(new)
                  /\ \A x \in DOMAIN props : props[x] = old[x]
<1> DEFINE new == RemovePortalExt(ls, k)
           old == GetProperties(ls)
           props == GetProperties(new)
<1>1. ls \in Seq(Line) /\ Len(ls) \in Nat /\ DOMAIN ls = 1..Len(ls) BY DEF Texts
<1>2. Removed(new, ls, k, Len(ls)) BY RemovedAll
<1>3. Once(ls) BY DEF Texts
<1> HIDE DEF new
<1>4. Once(new) /\ new \in Seq(Line) BY <1>2 DEF Removed
<1>5. new \in Texts
  <2>1. ASSUME NEW p \in DOMAIN new, new[p].key # Mark PROVE new[p].value \in Value
    <3>1. PICK i \in 1..Len(ls) : ls[i] = new[p] BY <1>2, <2>1 DEF Removed
    <3> QED BY <1>1, <2>1, <3>1 DEF Texts
  <2> QED BY <1>4, <2>1 DEF Texts
<1>6. ASSUME NEW x \in DOMAIN props
      PROVE  /\ x \in DOMAIN old \ {k}
             /\ props[x].value = old[x].value
             /\ ~LeavesAMark(ls, k) => props[x] = old[x]
  <2>1. PICK p \in DOMAIN new : new[p].key = x /\ x # Mark BY <1>6, PropertyHasLine
  <2>2. PICK i \in 1..Len(ls) :
          /\ ls[i] = new[p]
          /\ ~LeavesAMark(ls, k) => (IsMark(new, p - 1) <=> IsMark(ls, i - 1))
    BY <1>2, <2>1 DEF Removed
  <2>3. x # k BY <1>2, <2>1 DEF Removed
  <2>4. props[x] = [value |-> new[p].value, important |-> IsMark(new, p - 1)]
    BY <1>4, <2>1, LineOfProperty
  <2>5. i \in DOMAIN ls /\ ls[i].key = x /\ ls[i].key # Mark BY <1>1, <2>1, <2>2
  <2>6. x \in DOMAIN old /\ old[x] = [value |-> ls[i].value, important |-> IsMark(ls, i - 1)]
    BY <1>3, <2>5, LineOfProperty
  <2>7. IsMark(new, p - 1) \in BOOLEAN /\ IsMark(ls, i - 1) \in BOOLEAN BY DEF IsMark
  <2>8. ~LeavesAMark(ls, k) => IsMark(new, p - 1) = IsMark(ls, i - 1) BY <2>2, <2>7
  <2> HIDE DEF props, old
  <2> QED BY <2>2, <2>3, <2>4, <2>6, <2>8
<1>7. ASSUME NEW x \in DOMAIN old, x # k PROVE x \in DOMAIN props
  <2>1. PICK i \in DOMAIN ls : ls[i].key = x /\ x # Mark BY <1>7, PropertyHasLine
  <2>2. i \in 1..Len(ls) /\ ls[i].key \notin {Mark, k} BY <1>1, <1>7, <2>1
  <2>3. PICK p \in DOMAIN new : new[p].key = x BY <1>2, <2>1, <2>2 DEF Removed
  <2> QED BY <1>4, <2>1, <2>3, LineOfProperty
<1>8. ~LeavesAMark(ls, k) /\ Tidy(ls) => Tidy(new)
  <2>1. ~LeavesAMark(ls, k) => (IsMark(new, Len(new)) => IsMark(ls, Len(ls)))
    BY <1>2 DEF Removed
  <2> QED BY <2>1 DEF Tidy
<1>9. DOMAIN props = DOMAIN old \ {k}
  <2> HIDE DEF props, old
  <2> QED BY <1>6, <1>7
<1> HIDE DEF props, old
<1>10. /\ new \in Texts
       /\ DOMAIN props = DOMAIN old \ {k}
       /\ \A x \in DOMAIN props : props[x].value = old[x].value
       /\ ~LeavesAMark(ls, k) /\ Tidy(ls) =>
            /\ Tidy(new)
            /\ \A x \in DOMAIN props : props[x] = old[x]
  BY <1>5, <1>6, <1>8, <1>9
<1> QED BY <1>10 DEF new, props, old

\* Lines for properties that had none: no mark among them but those written.
Appended(updates, fresh, important) ==
  LET new == SetToSeq(fresh)
  IN  FlattenSeq([i \in DOMAIN new |-> Written(new[i], updates[new[i]], important)])

\* The properties that were not there yet are appended once each, with their marks.
LEMMA AppendedText ==
  ASSUME NEW updates, NEW fresh, fresh \subseteq DOMAIN updates, fresh \subseteq Key,
         IsFiniteSet(fresh), \A k \in fresh : updates[k] \in Value, NEW important
  PROVE  LET out == Appended(updates, fresh, important)
         IN  /\ out \in Seq(Line) /\ Once(out) /\ Tidy(out)
             /\ \A p \in DOMAIN out : out[p].key # Mark =>
                  /\ out[p].key \in fresh
                  /\ out[p].value = updates[out[p].key]
                  /\ IsMark(out, p - 1) <=> out[p].key \in important
             /\ \A k \in fresh : \E p \in DOMAIN out : out[p].key = k
<1> DEFINE new == SetToSeq(fresh)
           ls == [i \in DOMAIN new |-> [key |-> new[i], value |-> updates[new[i]]]]
           written == [i \in DOMAIN new |-> Written(new[i], updates[new[i]], important)]
           out == FlattenSeq(written)
<1>1. /\ new \in Seq(fresh)
      /\ \A k \in fresh : \E i \in DOMAIN new : new[i] = k
      /\ \A i, j \in DOMAIN new : new[i] = new[j] => i = j
  BY Listed
<1> HIDE DEF new
<1>2. \A i \in DOMAIN new : new[i] \in fresh BY <1>1
<1>3. DOMAIN ls = DOMAIN new /\ \A i \in DOMAIN new : ls[i].key = new[i] /\ ls[i].value = updates[new[i]]
  OBVIOUS
<1>4. ls \in Seq(Line)
  <2>1. ASSUME NEW i \in DOMAIN new PROVE [key |-> new[i], value |-> updates[new[i]]] \in Line
    BY <1>2 DEF Line
  <2>2. DOMAIN new = 1..Len(new) /\ Len(new) \in Nat BY <1>1
  <2>3. ls \in [1..Len(new) -> Line] BY <2>1, <2>2
  <2> HIDE DEF ls
  <2> QED BY <2>2, <2>3
<1> HIDE DEF ls
<1>5. \A i \in DOMAIN ls : ls[i].key \in fresh /\ ls[i].key # Mark
  BY <1>2, <1>3, KeysAssumption
<1>6. ls \in Texts
  <2>1. Once(ls) BY <1>1, <1>3 DEF Once
  <2>2. \A i \in DOMAIN ls : ls[i].value \in Value BY <1>2, <1>3
  <2> QED BY <1>4, <2>1, <2>2 DEF Texts
<1>7. Rewritten(out, ls, updates, DOMAIN updates, important, Len(ls))
  <2> DEFINE pieces == [i \in DOMAIN ls |-> Piece(ls, updates, DOMAIN updates, important, i)]
  <2>1. ASSUME NEW i \in DOMAIN new
        PROVE  Piece(ls, updates, DOMAIN updates, important, i) = Written(new[i], updates[new[i]], important)
    <3>1. ls[i].key = new[i] /\ ls[i].key # Mark BY <1>3, <1>5
    <3> QED BY <3>1 DEF Piece
  <2>2. pieces = written BY <1>3, <2>1
  <2>3. \A i \in DOMAIN ls : updates[ls[i].key] \in Value BY <1>5
  <2>4. Rewritten(FlattenSeq(pieces), ls, updates, DOMAIN updates, important, Len(ls))
    BY <1>6, <2>3, RewrittenAll
  <2> HIDE DEF pieces, written
  <2> QED BY <2>2, <2>4
<1> HIDE DEF written, out
<1>8. DOMAIN ls = 1..Len(ls) /\ Len(ls) \in Nat BY <1>4
<1>9. ASSUME NEW p \in DOMAIN out, out[p].key # Mark
      PROVE  /\ out[p].key \in fresh
             /\ out[p].value = updates[out[p].key]
             /\ IsMark(out, p - 1) <=> out[p].key \in important
  <2>1. PICK i \in 1..Len(ls) :
          /\ ls[i].key = out[p].key
          /\ IsMark(out, p - 1) <=>
               \/ ls[i].key \in important
               \/ ls[i].key \notin DOMAIN updates /\ IsMark(ls, i - 1)
    BY <1>7, <1>9 DEF Rewritten
  <2>2. ls[i].key \in fresh /\ ls[i].key \in DOMAIN updates BY <1>5, <1>8
  <2>3. out[p].value = updates[out[p].key] BY <1>7, <1>9 DEF Rewritten
  <2> QED BY <2>1, <2>2, <2>3
<1>10. ASSUME NEW k \in fresh PROVE \E p \in DOMAIN out : out[p].key = k
  <2>1. PICK i \in DOMAIN new : new[i] = k BY <1>1
  <2>2. i \in 1..Len(ls) /\ ls[i].key = k /\ ls[i].key # Mark BY <1>3, <1>5, <1>8, <2>1
  <2> QED BY <1>7, <2>2 DEF Rewritten
<1>11. Tidy(out)
  <2>1. ~IsMark(ls, Len(ls)) BY <1>5 DEF IsMark
  <2> QED BY <1>7, <2>1 DEF Rewritten, Tidy
<1>12. out \in Seq(Line) /\ Once(out) BY <1>7 DEF Rewritten
<1>13. Appended(updates, fresh, important) = out BY DEF out, written, new, Appended
<1> QED BY <1>9, <1>10, <1>11, <1>12, <1>13

\* One text after another, with other properties.
LEMMA Joined ==
  ASSUME NEW a \in Seq(Line), NEW b \in Seq(Line)
  PROVE  LET ab == a \o b
         IN  /\ ab \in Seq(Line)
             /\ Len(a) \in Nat /\ Len(b) \in Nat /\ Len(ab) = Len(a) + Len(b)
             /\ DOMAIN a = 1..Len(a) /\ DOMAIN b = 1..Len(b) /\ DOMAIN ab = 1..Len(ab)
             /\ \A p \in DOMAIN a : ab[p] = a[p]
             /\ \A p \in DOMAIN b : ab[Len(a) + p] = b[p]
             /\ \A p \in DOMAIN ab : p \in DOMAIN a \/ p - Len(a) \in DOMAIN b
  OBVIOUS

\* What is updated has its new value, the other properties keep theirs; what is
\* important from now on is so, and of the rest what was and was not updated.
LEMMA UpdateText ==
  ASSUME NEW ls \in Texts, NEW updates, DOMAIN updates \subseteq Key,
         IsFiniteSet(DOMAIN updates), DOMAIN updates # {},
         \A k \in DOMAIN updates : updates[k] \in Value, NEW important
  PROVE  LET new == UpdatePortalExt(ls, updates, important)
             old == GetProperties(ls)
             props == GetProperties(new)
         IN  /\ new \in Texts
             /\ DOMAIN props = DOMAIN old \cup DOMAIN updates
             /\ \A k \in DOMAIN props :
                  props[k].value = IF k \in DOMAIN updates THEN updates[k] ELSE old[k].value
             /\ Tidy(ls) =>
                  /\ Tidy(new)
                  /\ \A k \in DOMAIN props :
                       props[k].important <=>
                         \/ k \in important
                         \/ k \notin DOMAIN updates /\ old[k].important
<1> DEFINE old == GetProperties(ls)
           v == [k \in KeysOf(ls) |-> IF k \in DOMAIN updates THEN updates[k] ELSE old[k].value]
           fresh == DOMAIN updates \ KeysOf(ls)
           pieces == [i \in DOMAIN ls |-> Piece(ls, v, DOMAIN updates, important, i)]
           a == FlattenSeq(pieces)
           b == Appended(updates, fresh, important)
           new == a \o b
           props == GetProperties(new)
<1>1. ls \in Seq(Line) /\ Len(ls) \in Nat /\ DOMAIN ls = 1..Len(ls) /\ Once(ls) BY DEF Texts
<1>2. DOMAIN old = KeysOf(ls) /\ IsProps(old) BY TextHasProps
<1>3. \A i \in DOMAIN ls : ls[i].key # Mark => ls[i].key \in KeysOf(ls) BY DEF KeysOf
<1>4. UpdatePortalExt(ls, updates, important) = new
  <2> DEFINE value(k) == IF k \in DOMAIN updates THEN updates[k] ELSE old[k].value
             piece(i) ==
               IF ls[i].key # Mark THEN Written(ls[i].key, value(ls[i].key), important)
               ELSE IF Marked(ls, i) \cap DOMAIN updates = {} THEN <<ls[i]>> ELSE <<>>
             given == [i \in DOMAIN ls |-> piece(i)]
  <2>1. UpdatePortalExt(ls, updates, important) = FlattenSeq(given) \o b
    BY Zenon DEF UpdatePortalExt, Appended
  <2>2. ASSUME NEW i \in DOMAIN ls PROVE piece(i) = Piece(ls, v, DOMAIN updates, important, i)
    <3>1. ls[i].key # Mark => v[ls[i].key] = value(ls[i].key) BY <1>3
    <3> HIDE DEF value, v
    <3> QED BY <3>1, Zenon DEF Piece
  <2> HIDE DEF piece
  <2>3. given = pieces BY <2>2
  <2> HIDE DEF given, pieces
  <2> QED BY <2>1, <2>3
<1>5. ASSUME NEW k \in KeysOf(ls) PROVE v[k] \in Value
  <2>1. old[k] \in [value : Value, important : BOOLEAN] BY <1>2 DEF IsProps
  <2>2. old[k].value \in Value BY <2>1
  <2> QED BY <2>2
<1>6. Rewritten(a, ls, v, DOMAIN updates, important, Len(ls))
  <2>1. \A i \in DOMAIN ls : ls[i].key # Mark => v[ls[i].key] \in Value BY <1>3, <1>5
  <2> HIDE DEF v
  <2> QED BY <2>1, RewrittenAll
<1>7. /\ b \in Seq(Line) /\ Once(b) /\ Tidy(b)
      /\ \A p \in DOMAIN b : b[p].key # Mark =>
           /\ b[p].key \in fresh
           /\ b[p].value = updates[b[p].key]
           /\ IsMark(b, p - 1) <=> b[p].key \in important
      /\ \A k \in fresh : \E p \in DOMAIN b : b[p].key = k
  <2>1. fresh \subseteq DOMAIN updates /\ fresh \subseteq Key OBVIOUS
  <2>2. IsFiniteSet(fresh) BY FS_Subset
  <2>3. \A k \in fresh : updates[k] \in Value OBVIOUS
  <2> HIDE DEF fresh
  <2> QED BY <2>1, <2>2, <2>3, AppendedText
<1>8. \A k \in KeysOf(ls) : v[k] = IF k \in DOMAIN updates THEN updates[k] ELSE old[k].value
  OBVIOUS
<1> HIDE DEF a, b, v, old, pieces
<1>9. a \in Seq(Line) /\ Once(a) BY <1>6 DEF Rewritten
<1>10. /\ new \in Seq(Line)
       /\ Len(a) \in Nat /\ Len(b) \in Nat /\ Len(new) = Len(a) + Len(b)
       /\ DOMAIN a = 1..Len(a) /\ DOMAIN b = 1..Len(b) /\ DOMAIN new = 1..Len(new)
       /\ \A p \in DOMAIN a : new[p] = a[p]
       /\ \A p \in DOMAIN b : new[Len(a) + p] = b[p]
       /\ \A p \in DOMAIN new : p \in DOMAIN a \/ p - Len(a) \in DOMAIN b
  BY <1>7, <1>9, Joined
<1> HIDE DEF new
\* A line of the first part.
<1>11. ASSUME NEW p \in DOMAIN a, a[p].key # Mark
       PROVE  /\ p \in DOMAIN new /\ new[p] = a[p]
              /\ a[p].key \in KeysOf(ls)
              /\ a[p].value = v[a[p].key]
              /\ IsMark(new, p - 1) <=>
                   \/ a[p].key \in important
                   \/ a[p].key \notin DOMAIN updates /\ old[a[p].key].important
  <2>1. PICK i \in 1..Len(ls) :
          /\ ls[i].key = a[p].key
          /\ IsMark(a, p - 1) <=>
               \/ ls[i].key \in important
               \/ ls[i].key \notin DOMAIN updates /\ IsMark(ls, i - 1)
    BY <1>6, <1>11 DEF Rewritten
  <2>2. a[p].value = v[a[p].key] BY <1>6, <1>11 DEF Rewritten
  <2>3. p \in DOMAIN new /\ new[p] = a[p] BY <1>10
  <2>4. IsMark(new, p - 1) <=> IsMark(a, p - 1) BY <1>10 DEF IsMark
  <2>5. i \in DOMAIN ls /\ ls[i].key # Mark BY <1>1, <1>11, <2>1
  <2>6. old[ls[i].key] = [value |-> ls[i].value, important |-> IsMark(ls, i - 1)]
    BY <1>1, <2>5, LineOfProperty DEF old
  <2>7. old[ls[i].key].important = IsMark(ls, i - 1) BY <2>6
  <2>8. a[p].key \in KeysOf(ls) BY <1>3, <2>1, <2>5
  <2> QED BY <2>1, <2>2, <2>3, <2>4, <2>7, <2>8
\* A line of the second.
<1>12. ASSUME NEW p \in DOMAIN new, new[p].key # Mark, p \notin DOMAIN a
       PROVE  /\ new[p].key \in fresh
              /\ new[p].value = updates[new[p].key]
              /\ Tidy(a) => (IsMark(new, p - 1) <=> new[p].key \in important)
              /\ p - Len(a) \in DOMAIN b /\ new[p] = b[p - Len(a)]
  <2> DEFINE q == p - Len(a)
  <2>1. q \in DOMAIN b /\ p = Len(a) + q BY <1>10, <1>12
  <2> HIDE DEF q
  <2>2. new[p] = b[q] BY <1>10, <2>1
  <2>3. /\ b[q].key \in fresh /\ b[q].value = updates[b[q].key]
        /\ IsMark(b, q - 1) <=> b[q].key \in important
    BY <1>7, <1>12, <2>1, <2>2
  <2>4. ASSUME Tidy(a) PROVE IsMark(new, p - 1) <=> IsMark(b, q - 1)
    <3>1. CASE q = 1
      <4>1. p - 1 = Len(a) /\ q - 1 \notin DOMAIN b BY <1>10, <2>1, <3>1
      <4>2. ~IsMark(b, q - 1) BY <4>1 DEF IsMark
      <4>3. ~IsMark(a, Len(a)) BY <2>4 DEF Tidy
      <4>4. ~IsMark(new, p - 1) BY <1>10, <4>1, <4>3 DEF IsMark
      <4> QED BY <4>2, <4>4
    <3>2. CASE q # 1
      <4>1. q - 1 \in DOMAIN b /\ p - 1 = Len(a) + (q - 1) /\ p - 1 \in DOMAIN new
        BY <1>10, <2>1, <3>2
      <4>2. new[p - 1] = b[q - 1] BY <1>10, <4>1
      <4> QED BY <4>1, <4>2 DEF IsMark
    <3> QED BY <3>1, <3>2
  <2> QED BY <2>1, <2>2, <2>3, <2>4 DEF q
<1>13. Once(new)
  <2>1. SUFFICES ASSUME NEW p \in DOMAIN new, NEW q \in DOMAIN new,
                        new[p].key = new[q].key, new[p].key # Mark
                 PROVE  p = q
    BY DEF Once
  <2>2. CASE p \in DOMAIN a /\ q \in DOMAIN a BY <1>9, <1>10, <2>1, <2>2 DEF Once
  <2>3. CASE p \notin DOMAIN a /\ q \notin DOMAIN a
    <3>1. /\ p - Len(a) \in DOMAIN b /\ new[p] = b[p - Len(a)]
          /\ q - Len(a) \in DOMAIN b /\ new[q] = b[q - Len(a)]
      BY <1>12, <2>1, <2>3
    <3>2. p - Len(a) = q - Len(a) BY <1>7, <2>1, <3>1 DEF Once
    <3> QED BY <1>10, <3>2
  <2>4. CASE p \in DOMAIN a /\ q \notin DOMAIN a
    <3>1. new[p].key \in KeysOf(ls) BY <1>10, <1>11, <2>1, <2>4
    <3>2. new[q].key \in fresh BY <1>12, <2>1, <2>4
    <3> QED BY <2>1, <3>1, <3>2
  <2>5. CASE p \notin DOMAIN a /\ q \in DOMAIN a
    <3>1. new[q].key \in KeysOf(ls) BY <1>10, <1>11, <2>1, <2>5
    <3>2. new[p].key \in fresh BY <1>12, <2>1, <2>5
    <3> QED BY <2>1, <3>1, <3>2
  <2> QED BY <2>2, <2>3, <2>4, <2>5
<1>14. ASSUME NEW p \in DOMAIN new, new[p].key # Mark
       PROVE  /\ new[p].key \in KeysOf(ls) \cup DOMAIN updates
              /\ new[p].value = IF new[p].key \in DOMAIN updates THEN updates[new[p].key]
                                ELSE old[new[p].key].value
              /\ Tidy(ls) => (IsMark(new, p - 1) <=>
                                \/ new[p].key \in important
                                \/ new[p].key \notin DOMAIN updates /\ old[new[p].key].important)
  <2>1. CASE p \in DOMAIN a
    <3>1. new[p] = a[p] /\ a[p].key # Mark BY <1>10, <1>14, <2>1
    <3> QED BY <1>8, <1>11, <2>1, <3>1
  <2>2. CASE p \notin DOMAIN a
    <3>1. /\ new[p].key \in fresh /\ new[p].value = updates[new[p].key]
          /\ Tidy(a) => (IsMark(new, p - 1) <=> new[p].key \in important)
      BY <1>12, <1>14, <2>2
    <3>2. Tidy(ls) => Tidy(a) BY <1>6 DEF Rewritten, Tidy
    <3> QED BY <3>1, <3>2
  <2> QED BY <2>1, <2>2
<1>15. new \in Texts
  <2>1. ASSUME NEW p \in DOMAIN new, new[p].key # Mark PROVE new[p].value \in Value
    <3>1. new[p].key \in KeysOf(ls) => v[new[p].key] \in Value BY <1>5
    <3> QED BY <1>8, <1>14, <2>1, <3>1
  <2> QED BY <1>10, <1>13, <2>1 DEF Texts
<1>16. ASSUME NEW k \in DOMAIN props
       PROVE  /\ k \in DOMAIN old \cup DOMAIN updates
              /\ props[k].value = IF k \in DOMAIN updates THEN updates[k] ELSE old[k].value
              /\ Tidy(ls) => (props[k].important <=>
                                \/ k \in important
                                \/ k \notin DOMAIN updates /\ old[k].important)
  <2>1. PICK p \in DOMAIN new : new[p].key = k /\ k # Mark BY <1>16, PropertyHasLine
  <2>2. props[k] = [value |-> new[p].value, important |-> IsMark(new, p - 1)]
    BY <1>13, <2>1, LineOfProperty
  <2>3. props[k].value = new[p].value /\ props[k].important = IsMark(new, p - 1) BY <2>2
  <2> HIDE DEF props
  <2> QED BY <1>2, <1>14, <2>1, <2>3
<1>17. ASSUME NEW k \in DOMAIN old \cup DOMAIN updates PROVE k \in DOMAIN props
  <2>1. \E p \in DOMAIN new : new[p].key = k /\ k # Mark
    <3>1. CASE k \in KeysOf(ls)
      <4>1. PICK i \in DOMAIN ls : ls[i].key = k /\ k # Mark BY <3>1 DEF KeysOf
      <4>2. PICK p \in DOMAIN a : a[p].key = k BY <1>1, <1>6, <4>1 DEF Rewritten
      <4> QED BY <1>10, <1>11, <4>1, <4>2
    <3>2. CASE k \notin KeysOf(ls)
      <4>1. k \in fresh /\ k # Mark BY <1>2, <3>2, KeysAssumption
      <4>2. PICK p \in DOMAIN b : b[p].key = k BY <1>7, <4>1
      <4>3. Len(a) + p \in DOMAIN new /\ new[Len(a) + p] = b[p] BY <1>10
      <4> QED BY <4>1, <4>2, <4>3
    <3> QED BY <3>1, <3>2
  <2> QED BY <1>13, <2>1, LineOfProperty
<1>18. Tidy(ls) => Tidy(new)
  <2>1. ASSUME Tidy(ls) PROVE ~IsMark(new, Len(new))
    <3>1. Tidy(a) BY <1>6, <2>1 DEF Rewritten, Tidy
    <3>2. CASE Len(b) = 0
      <4>1. Len(new) = Len(a) BY <1>10, <3>2
      <4> QED BY <1>10, <3>1, <4>1 DEF IsMark, Tidy
    <3>3. CASE Len(b) # 0
      <4>1. Len(b) \in DOMAIN b /\ Len(new) = Len(a) + Len(b) BY <1>10, <3>3
      <4>2. new[Len(new)] = b[Len(b)] BY <1>10, <4>1
      <4>3. b[Len(b)].key # Mark BY <1>7, <4>1 DEF Tidy, IsMark
      <4> QED BY <4>2, <4>3 DEF IsMark
    <3> QED BY <3>2, <3>3
  <2> QED BY <2>1 DEF Tidy
<1>19. DOMAIN props = DOMAIN old \cup DOMAIN updates
  <2> HIDE DEF props
  <2> QED BY <1>16, <1>17
<1> HIDE DEF props
<1>20. /\ new \in Texts
       /\ DOMAIN props = DOMAIN old \cup DOMAIN updates
       /\ \A k \in DOMAIN props :
            props[k].value = IF k \in DOMAIN updates THEN updates[k] ELSE old[k].value
       /\ Tidy(ls) =>
            /\ Tidy(new)
            /\ \A k \in DOMAIN props :
                 props[k].important <=> \/ k \in important
                                        \/ k \notin DOMAIN updates /\ old[k].important
  BY <1>15, <1>16, <1>18, <1>19
<1> QED BY <1>4, <1>20, Zenon DEF props, old

-----------------------------------------------------------------------------
(* The cascade.                                                            *)

IsLayers(ls) == \A l \in Shared : IsProps(ls[l])

IsHost(h) ==
  DOMAIN h \subseteq Key /\ IsFiniteSet(DOMAIN h) /\ \A k \in DOMAIN h : h[k] \in Value

\* A set of layers has a highest one.
LEMMA LargestOf ==
  ASSUME NEW S \in SUBSET (1..6), S # {}
  PROVE  Max(S) \in S /\ \A x \in S : x <= Max(S)
<1>1. \E x \in S : \A y \in S : x >= y
  <2>1. CASE 6 \in S BY <2>1
  <2>2. CASE 6 \notin S /\ 5 \in S BY <2>2
  <2>3. CASE 6 \notin S /\ 5 \notin S /\ 4 \in S BY <2>3
  <2>4. CASE 6 \notin S /\ 5 \notin S /\ 4 \notin S /\ 3 \in S BY <2>4
  <2>5. CASE 6 \notin S /\ 5 \notin S /\ 4 \notin S /\ 3 \notin S /\ 2 \in S BY <2>5
  <2>6. CASE S \subseteq {1}
    <3>1. \A y \in S : y = 1 BY <2>6
    <3>2. 1 \in S BY <3>1
    <3>3. \A y \in S : 1 >= y BY <3>1
    <3> QED BY <3>2, <3>3
  <2> QED BY <2>1, <2>2, <2>3, <2>4, <2>5, <2>6
<1>2. Max(S) \in S /\ \A y \in S : Max(S) >= y BY <1>1, Zenon DEF Max
<1> QED BY <1>2

\* The i-th layer has the last word on a property: the last that marks it
\* important, or the last of all if none does.
Wins(stack, k, i) ==
  /\ i \in Defining(stack, k)
  /\ stack[i][k].important \/ \A j \in Defining(stack, k) : ~stack[j][k].important
  /\ \A j \in Defining(stack, k) :
       stack[j][k].important \/ ~stack[i][k].important => j <= i

\* What _resolve_properties_cascade() picks is a layer's that wins, and no other wins.
LEMMA WinnerWins ==
  ASSUME NEW stack, DOMAIN stack \subseteq 1..6, NEW k,
         \A j \in Defining(stack, k) : stack[j][k].important \in BOOLEAN
  PROVE  /\ Defining(stack, k) # {} =>
              \E i \in Defining(stack, k) : Wins(stack, k, i) /\ Winner(stack, k) = stack[i][k]
         /\ \A i \in Defining(stack, k) : Wins(stack, k, i) => Winner(stack, k) = stack[i][k]
<1> DEFINE all == Defining(stack, k)
           important == {i \in all : stack[i][k].important}
           set == IF important # {} THEN important ELSE all
<1>1. Winner(stack, k) = stack[Max(set)][k] BY DEF Winner
<1>2. all \in SUBSET (1..6) BY DEF Defining
<1>3. ASSUME all # {} PROVE Max(set) \in all /\ Wins(stack, k, Max(set))
  <2>1. set \in SUBSET (1..6) /\ set # {} BY <1>2, <1>3
  <2>2. Max(set) \in set /\ \A x \in set : x <= Max(set) BY <2>1, LargestOf
  <2> HIDE DEF all
  <2>3. CASE important # {}
    <3>1. Max(set) \in all /\ stack[Max(set)][k].important BY <2>2, <2>3
    <3>2. \A j \in all : stack[j][k].important => j <= Max(set) BY <2>2, <2>3
    <3> HIDE DEF set, important
    <3> QED BY <3>1, <3>2 DEF Wins, all
  <2>4. CASE important = {}
    <3>1. set = all BY <2>4
    <3>2. \A j \in all : ~stack[j][k].important BY <2>4
    <3> HIDE DEF set, important
    <3> QED BY <2>2, <3>1, <3>2 DEF Wins, all
  <2> QED BY <2>3, <2>4
<1>4. ASSUME NEW i \in all, NEW j \in all, Wins(stack, k, i), Wins(stack, k, j) PROVE i = j
  <2>1. i \in 1..6 /\ j \in 1..6 BY <1>2
  <2>2. stack[i][k].important \in BOOLEAN /\ stack[j][k].important \in BOOLEAN OBVIOUS
  <2>3. stack[i][k].important <=> stack[j][k].important BY <1>4, <2>2 DEF Wins
  <2>4. i <= j /\ j <= i BY <1>4, <2>2, <2>3 DEF Wins
  <2> QED BY <2>1, <2>4
<1> HIDE DEF set
<1>5. ASSUME NEW i \in all, Wins(stack, k, i) PROVE Winner(stack, k) = stack[i][k]
  <2>1. Max(set) = i BY <1>3, <1>4, <1>5
  <2> QED BY <1>1, <2>1
<1> QED BY <1>1, <1>3, <1>5

\* The properties of LDM stand before the shipped ones.
LEMMA BaselineFields ==
  ASSUME NEW ls
  PROVE  /\ DOMAIN Baseline(ls) = DOMAIN ls["ldmp"] \cup DOMAIN Seed
         /\ \A k \in DOMAIN Baseline(ls) :
              Baseline(ls)[k] = IF k \in DOMAIN ls["ldmp"] THEN ls["ldmp"][k] ELSE Seed[k]
  BY DEF Baseline, Over

IsCustom(custom, ls, props) ==
  /\ DOMAIN custom = {k \in DOMAIN props :
                        k \in DOMAIN Baseline(ls) => props[k] # Baseline(ls)[k]}
  /\ \A k \in DOMAIN custom : custom[k] = props[k]

\* The fifth layer is what the file has that the baseline has not, or has otherwise.
LEMMA CustomFields ==
  ASSUME NEW ls, NEW props
  PROVE  IsCustom(ProjectCustom(ls, props), ls, props)
  BY DEF ProjectCustom, IsCustom

\* The five layers that are stacked.
LEMMA LayerFields ==
  ASSUME NEW ls, NEW props
  PROVE  LET stack == Layers(ls, props)
         IN  /\ DOMAIN stack = 1..5
             /\ stack[1] = Seed /\ stack[2] = ls["ldmp"] /\ stack[3] = ls["global"]
             /\ stack[4] = ls["local"] /\ stack[5] = ProjectCustom(ls, props)
  BY DEF Layers

\* Settings in layers are settings.
LEMMA LayersAreProps ==
  ASSUME NEW ls, IsLayers(ls), NEW props, IsProps(props)
  PROVE  \A i \in 1..5 : \A k \in DOMAIN Layers(ls, props)[i] :
           k \in Key /\ Layers(ls, props)[i][k] \in [value : Value, important : BOOLEAN]
<1>1. IsProps(Seed) /\ IsProps(ls["ldmp"]) /\ IsProps(ls["global"]) /\ IsProps(ls["local"])
  BY LayersAssumption DEF IsLayers, Shared
<1>2. \A k \in DOMAIN ProjectCustom(ls, props) :
        k \in Key /\ ProjectCustom(ls, props)[k] \in [value : Value, important : BOOLEAN]
  BY DEF ProjectCustom, IsProps
<1>3. ASSUME NEW p, IsProps(p), NEW k \in DOMAIN p
      PROVE  k \in Key /\ p[k] \in [value : Value, important : BOOLEAN]
  BY <1>3 DEF IsProps
<1> QED BY <1>1, <1>2, <1>3, LayerFields

IsResolved(win, stack, host) ==
  /\ win = [k \in DOMAIN win |-> win[k]]
  /\ DOMAIN win = DOMAIN host \cup AllKeys(stack)
  /\ \A k \in DOMAIN host : win[k] = [value |-> host[k], important |-> FALSE]
  /\ \A k \in AllKeys(stack) \ DOMAIN host : win[k] = Winner(stack, k)

\* What the cascade resolves, key by key.
LEMMA ResolvedFields ==
  ASSUME NEW ls, NEW props, NEW host
  PROVE  IsResolved(Resolved(ls, props, host), Layers(ls, props), host)
<1> DEFINE stack == Layers(ls, props)
           rest == [k \in AllKeys(stack) |-> Winner(stack, k)]
           win == Over(Plain(host), rest)
<1>1. DOMAIN Plain(host) = DOMAIN host /\ \A k \in DOMAIN host : Plain(host)[k] = [value |-> host[k], important |-> FALSE]
  BY DEF Plain
<1>2. DOMAIN rest = AllKeys(stack) /\ \A k \in AllKeys(stack) : rest[k] = Winner(stack, k) OBVIOUS
<1>3. Resolved(ls, props, host) = win BY DEF Resolved
<1> HIDE DEF rest
<1>4. /\ DOMAIN win = DOMAIN Plain(host) \cup DOMAIN rest
      /\ \A k \in DOMAIN win : win[k] = IF k \in DOMAIN Plain(host) THEN Plain(host)[k] ELSE rest[k]
      /\ win = [k \in DOMAIN win |-> win[k]]
  BY DEF Over
<1> HIDE DEF win, stack
<1>5. IsResolved(win, stack, host) BY <1>1, <1>2, <1>4 DEF IsResolved
<1> QED BY <1>3, <1>5 DEF stack

\* Each property of a layer or of the file is among those resolved.
LEMMA AllKeysFields ==
  ASSUME NEW ls, NEW props
  PROVE  LET stack == Layers(ls, props)
         IN  /\ \A k : k \in AllKeys(stack) <=> \E i \in 1..5 : k \in DOMAIN stack[i]
             /\ \A k : k \in AllKeys(stack) <=> Defining(stack, k) # {}
             /\ \A k : Defining(stack, k) = {i \in 1..5 : k \in DOMAIN stack[i]}
             /\ DOMAIN props \subseteq AllKeys(stack)
             /\ DOMAIN Baseline(ls) \subseteq AllKeys(stack)
<1> DEFINE stack == Layers(ls, props)
<1>1. DOMAIN stack = 1..5 BY LayerFields
<1>2. \A k : k \in AllKeys(stack) <=> \E i \in 1..5 : k \in DOMAIN stack[i]
  <2> HIDE DEF stack
  <2> QED BY <1>1 DEF AllKeys
<1>3. \A k : Defining(stack, k) = {i \in 1..5 : k \in DOMAIN stack[i]}
  <2> HIDE DEF stack
  <2> QED BY <1>1 DEF Defining
<1>4. \A k : k \in AllKeys(stack) <=> Defining(stack, k) # {} BY <1>2, <1>3
<1>5. DOMAIN Baseline(ls) \subseteq AllKeys(stack)
  <2>1. SUFFICES ASSUME NEW k \in DOMAIN Baseline(ls) PROVE k \in AllKeys(stack) OBVIOUS
  <2>2. k \in DOMAIN ls["ldmp"] \/ k \in DOMAIN Seed BY BaselineFields
  <2>3. stack[1] = Seed /\ stack[2] = ls["ldmp"] BY LayerFields
  <2> HIDE DEF stack
  <2> QED BY <1>2, <2>2, <2>3
<1>6. DOMAIN props \subseteq AllKeys(stack)
  <2>1. SUFFICES ASSUME NEW k \in DOMAIN props PROVE k \in AllKeys(stack) OBVIOUS
  <2>2. k \in DOMAIN ProjectCustom(ls, props) \/ k \in DOMAIN Baseline(ls)
    BY DEF ProjectCustom
  <2>3. stack[5] = ProjectCustom(ls, props) BY LayerFields
  <2> HIDE DEF stack
  <2> QED BY <1>2, <1>5, <2>2, <2>3
<1> QED BY <1>2, <1>3, <1>4, <1>5, <1>6

-----------------------------------------------------------------------------
(* The file a merge writes.                                                *)

\* The cascade would change nothing.
Settled(ls, f, host) == Changed(Resolved(ls, Props(f), host), Props(f)) = {}

\* What the cascade resolves to, resolves to itself.
LEMMA ResolvedAgain ==
  ASSUME NEW ls, IsLayers(ls), NEW props, IsProps(props), NEW host, IsHost(host)
  PROVE  LET win == Resolved(ls, props, host)
         IN  IsProps(win) => Resolved(ls, win, host) = win
<1> DEFINE win == Resolved(ls, props, host)
           stack == Layers(ls, props)
           again == Layers(ls, win)
           once == Resolved(ls, win, host)
           custom == ProjectCustom(ls, win)
<1>1. SUFFICES ASSUME IsProps(win) PROVE once = win OBVIOUS
<1>2. IsResolved(win, stack, host) BY ResolvedFields
<1>3. IsResolved(once, again, host) BY ResolvedFields
<1>4. /\ \A k : k \in AllKeys(stack) <=> Defining(stack, k) # {}
      /\ \A k : Defining(stack, k) = {i \in 1..5 : k \in DOMAIN stack[i]}
      /\ \A k : Defining(again, k) = {i \in 1..5 : k \in DOMAIN again[i]}
      /\ \A k : k \in AllKeys(again) <=> \E i \in 1..5 : k \in DOMAIN again[i]
      /\ \A k : k \in AllKeys(stack) <=> \E i \in 1..5 : k \in DOMAIN stack[i]
      /\ DOMAIN win \subseteq AllKeys(again) /\ DOMAIN Baseline(ls) \subseteq AllKeys(stack)
  BY AllKeysFields
<1>5. /\ DOMAIN stack = 1..5 /\ DOMAIN again = 1..5
      /\ \A i \in 1..4 : stack[i] = again[i]
      /\ stack[5] = ProjectCustom(ls, props) /\ again[5] = custom
  <2>1. \A i \in 1..4 : i = 1 \/ i = 2 \/ i = 3 \/ i = 4 OBVIOUS
  <2> QED BY <2>1, LayerFields
<1>6. IsCustom(custom, ls, win) BY CustomFields
<1>7. /\ \A i \in 1..5 : \A k \in DOMAIN stack[i] : stack[i][k] \in [value : Value, important : BOOLEAN]
      /\ \A i \in 1..5 : \A k \in DOMAIN again[i] : again[i][k] \in [value : Value, important : BOOLEAN]
  BY <1>1, LayersAreProps
<1>8. /\ \A k : \A j \in Defining(stack, k) : stack[j][k].important \in BOOLEAN
      /\ \A k : \A j \in Defining(again, k) : again[j][k].important \in BOOLEAN
  <2> HIDE DEF stack, again
  <2>1. ASSUME NEW s, NEW k, s \in [value : Value, important : BOOLEAN] PROVE s.important \in BOOLEAN
    BY <2>1
  <2> QED BY <1>4, <1>7, <2>1
<1>9. IsCustom(ProjectCustom(ls, props), ls, props) BY CustomFields
<1> HIDE DEF win, stack, again, once, custom
<1>10. ASSUME NEW k \in AllKeys(stack) \ DOMAIN host
       PROVE  once[k] = win[k]
  <2>1. PICK i \in Defining(stack, k) : Wins(stack, k, i) /\ Winner(stack, k) = stack[i][k]
    BY <1>4, <1>5, <1>8, <1>10, WinnerWins
  <2>2. win[k] = stack[i][k] /\ k \in DOMAIN win BY <1>2, <1>10, <2>1 DEF IsResolved
  <2>3. i \in 1..5 BY <1>4
  <2>4. once[k] = Winner(again, k) BY <1>3, <1>4, <1>10, <2>2 DEF IsResolved
  <2>5. \A j \in Defining(again, k) : j # 5 => j \in Defining(stack, k) /\ stack[j] = again[j]
    <3>1. SUFFICES ASSUME NEW j \in Defining(again, k), j # 5
                   PROVE  j \in Defining(stack, k) /\ stack[j] = again[j]
      OBVIOUS
    <3>2. j \in 1..5 /\ k \in DOMAIN again[j] BY <1>4
    <3>3. j \in 1..4 BY <3>1, <3>2
    <3> QED BY <1>4, <1>5, <3>2, <3>3
  <2>6. CASE k \in DOMAIN custom
    <3>1. 5 \in Defining(again, k) /\ again[5][k] = win[k] BY <1>4, <1>5, <1>6, <2>6 DEF IsCustom
    <3>2. \A j \in Defining(again, k) : j <= 5 BY <1>4
    <3>3. ~win[k].important => \A j \in Defining(again, k) : ~again[j][k].important
      <4>1. SUFFICES ASSUME ~win[k].important, NEW j \in Defining(again, k)
                     PROVE  ~again[j][k].important
        OBVIOUS
      <4>2. CASE j = 5 BY <3>1, <4>1, <4>2
      <4>3. CASE j # 5
        <5>1. ~stack[j][k].important BY <2>1, <2>2, <2>5, <4>1, <4>3 DEF Wins
        <5> QED BY <2>5, <4>3, <5>1
      <4> QED BY <4>2, <4>3
    <3>4. Wins(again, k, 5) BY <3>1, <3>2, <3>3 DEF Wins
    <3>5. Winner(again, k) = again[5][k] BY <1>5, <1>8, <3>1, <3>4, WinnerWins
    <3> QED BY <2>4, <3>1, <3>5
  <2>7. CASE k \notin DOMAIN custom
    <3>1. k \in DOMAIN Baseline(ls) /\ win[k] = Baseline(ls)[k] BY <1>6, <2>2, <2>7 DEF IsCustom
    <3>2. i # 5
      <4>1. SUFFICES ASSUME i = 5 PROVE FALSE OBVIOUS
      <4>2. k \in DOMAIN ProjectCustom(ls, props) BY <1>4, <1>5, <4>1
      <4>3. win[k] = props[k] BY <1>5, <1>9, <2>2, <4>1, <4>2 DEF IsCustom
      <4> QED BY <1>9, <3>1, <4>2, <4>3 DEF IsCustom
    <3>3. i \in 1..4 /\ k \in DOMAIN stack[i] BY <1>4, <2>3, <3>2
    <3>4. i \in Defining(again, k) /\ again[i] = stack[i] BY <1>4, <1>5, <3>3
    <3>5. 5 \notin Defining(again, k) BY <1>4, <1>5, <2>7
    <3>6. \A j \in Defining(again, k) : j \in Defining(stack, k) /\ stack[j] = again[j]
      BY <2>5, <3>5
    <3>7. Wins(again, k, i) BY <2>1, <3>4, <3>6 DEF Wins
    <3>8. Winner(again, k) = again[i][k] BY <1>5, <1>8, <3>4, <3>7, WinnerWins
    <3> QED BY <2>2, <2>4, <3>4, <3>8
  <2> QED BY <2>6, <2>7
<1>11. DOMAIN once = DOMAIN win
  <2>1. ASSUME NEW k \in AllKeys(again) PROVE k \in DOMAIN win
    <3>1. PICK i \in 1..5 : k \in DOMAIN again[i] BY <1>4
    <3>2. CASE i = 5 BY <1>5, <1>6, <3>1, <3>2 DEF IsCustom
    <3>3. CASE i # 5
      <4>1. i \in 1..4 BY <3>3
      <4>2. k \in AllKeys(stack) BY <1>4, <1>5, <3>1, <4>1
      <4> QED BY <1>2, <4>2 DEF IsResolved
    <3> QED BY <3>2, <3>3
  <2>2. DOMAIN host \subseteq DOMAIN win BY <1>2 DEF IsResolved
  <2> QED BY <1>3, <1>4, <2>1, <2>2 DEF IsResolved
<1>12. ASSUME NEW k \in DOMAIN win PROVE once[k] = win[k]
  <2>1. CASE k \in DOMAIN host BY <1>2, <1>3, <2>1 DEF IsResolved
  <2>2. CASE k \notin DOMAIN host
    <3>1. k \in AllKeys(stack) \ DOMAIN host BY <1>2, <1>12, <2>2 DEF IsResolved
    <3> QED BY <1>10, <3>1
  <2> QED BY <2>1, <2>2
<1> QED BY <1>2, <1>3, <1>11, <1>12 DEF IsResolved

\* What is resolved are properties, and important in some layer or in the file.
LEMMA ResolvedIsProps ==
  ASSUME NEW ls, IsLayers(ls), NEW props, IsProps(props), NEW host, IsHost(host)
  PROVE  LET win == Resolved(ls, props, host)
         IN  /\ IsProps(win)
             /\ DOMAIN props \subseteq DOMAIN win
             /\ \A k \in Important(win) :
                  \/ k \in Important(props) \cup Important(Seed)
                  \/ \E l \in Shared : k \in Important(ls[l])
<1> DEFINE win == Resolved(ls, props, host)
           stack == Layers(ls, props)
<1>1. IsResolved(win, stack, host) BY ResolvedFields
<1>2. /\ \A k : k \in AllKeys(stack) <=> \E i \in 1..5 : k \in DOMAIN stack[i]
      /\ \A k : k \in AllKeys(stack) <=> Defining(stack, k) # {}
      /\ \A k : Defining(stack, k) = {i \in 1..5 : k \in DOMAIN stack[i]}
      /\ DOMAIN props \subseteq AllKeys(stack)
  BY AllKeysFields
<1>3. /\ DOMAIN stack = 1..5
      /\ stack[1] = Seed /\ stack[2] = ls["ldmp"] /\ stack[3] = ls["global"]
      /\ stack[4] = ls["local"] /\ stack[5] = ProjectCustom(ls, props)
  BY LayerFields
<1>4. \A i \in 1..5 : \A k \in DOMAIN stack[i] :
        k \in Key /\ stack[i][k] \in [value : Value, important : BOOLEAN]
  BY LayersAreProps
<1>5. IsCustom(ProjectCustom(ls, props), ls, props) BY CustomFields
<1> HIDE DEF win, stack
<1>6. ASSUME NEW k \in AllKeys(stack) \ DOMAIN host
      PROVE  \E i \in 1..5 : k \in DOMAIN stack[i] /\ win[k] = stack[i][k]
  <2>1. \A j \in Defining(stack, k) : stack[j][k].important \in BOOLEAN
    <3>1. ASSUME NEW s, s \in [value : Value, important : BOOLEAN] PROVE s.important \in BOOLEAN
      BY <3>1
    <3> QED BY <1>2, <1>4, <3>1
  <2>2. PICK i \in Defining(stack, k) : Winner(stack, k) = stack[i][k]
    BY <1>2, <1>3, <1>6, <2>1, WinnerWins
  <2>3. i \in 1..5 /\ k \in DOMAIN stack[i] BY <1>2
  <2> QED BY <1>1, <1>6, <2>2, <2>3 DEF IsResolved
<1>7. ASSUME NEW k \in DOMAIN win
      PROVE  k \in Key /\ win[k] \in [value : Value, important : BOOLEAN]
  <2>1. CASE k \in DOMAIN host
    <3>1. win[k] = [value |-> host[k], important |-> FALSE] BY <1>1, <2>1 DEF IsResolved
    <3>2. k \in Key /\ host[k] \in Value BY <2>1 DEF IsHost
    <3> QED BY <3>1, <3>2
  <2>2. CASE k \notin DOMAIN host
    <3>1. k \in AllKeys(stack) \ DOMAIN host BY <1>1, <1>7, <2>2 DEF IsResolved
    <3> QED BY <1>4, <1>6, <3>1
  <2> QED BY <2>1, <2>2
<1>8. IsFiniteSet(DOMAIN win)
  <2>1. /\ IsFiniteSet(DOMAIN stack[1]) /\ IsFiniteSet(DOMAIN stack[2])
        /\ IsFiniteSet(DOMAIN stack[3]) /\ IsFiniteSet(DOMAIN stack[4])
    BY <1>3, LayersAssumption DEF IsLayers, IsProps, Shared
  <2>2. IsFiniteSet(DOMAIN stack[5])
    <3>1. DOMAIN stack[5] \in SUBSET DOMAIN props BY <1>3, <1>5 DEF IsCustom
    <3>2. IsFiniteSet(DOMAIN props) BY DEF IsProps
    <3> QED BY <3>1, <3>2, FS_Subset
  <2>3. IsFiniteSet(DOMAIN host) BY DEF IsHost
  <2>4. DOMAIN win = DOMAIN host \cup DOMAIN stack[1] \cup DOMAIN stack[2]
                       \cup DOMAIN stack[3] \cup DOMAIN stack[4] \cup DOMAIN stack[5]
    <3>1. \A i \in 1..5 : i = 1 \/ i = 2 \/ i = 3 \/ i = 4 \/ i = 5 OBVIOUS
    <3>2. 1 \in 1..5 /\ 2 \in 1..5 /\ 3 \in 1..5 /\ 4 \in 1..5 /\ 5 \in 1..5 OBVIOUS
    <3>3. AllKeys(stack) = DOMAIN stack[1] \cup DOMAIN stack[2] \cup DOMAIN stack[3]
                             \cup DOMAIN stack[4] \cup DOMAIN stack[5]
      BY <1>2, <3>1, <3>2
    <3> QED BY <1>1, <3>3 DEF IsResolved
  <2> QED BY <2>1, <2>2, <2>3, <2>4, FS_Union
<1>9. IsProps(win)
  <2>1. win = [k \in DOMAIN win |-> win[k]] BY <1>1 DEF IsResolved
  <2>2. win \in [DOMAIN win -> [value : Value, important : BOOLEAN]] BY <1>7, <2>1
  <2> QED BY <1>7, <1>8, <2>2 DEF IsProps
<1>10. ASSUME NEW k \in Important(win)
       PROVE  \/ k \in Important(props) \cup Important(Seed)
              \/ \E l \in Shared : k \in Important(ls[l])
  <2>1. k \in DOMAIN win /\ win[k].important BY DEF Important
  <2>2. k \notin DOMAIN host
    <3>1. SUFFICES ASSUME k \in DOMAIN host PROVE FALSE OBVIOUS
    <3>2. win[k] = [value |-> host[k], important |-> FALSE] BY <1>1, <3>1 DEF IsResolved
    <3> QED BY <2>1, <3>2
  <2>3. k \in AllKeys(stack) \ DOMAIN host BY <1>1, <2>1, <2>2 DEF IsResolved
  <2>4. PICK i \in 1..5 : k \in DOMAIN stack[i] /\ win[k] = stack[i][k] BY <1>6, <2>3
  <2>5. k \in Important(stack[i]) BY <2>1, <2>4 DEF Important
  <2>6. CASE i = 1 BY <1>3, <2>5, <2>6
  <2>7. CASE i = 5
    <3>1. k \in DOMAIN props /\ stack[5][k] = props[k] BY <1>3, <1>5, <2>4, <2>7 DEF IsCustom
    <3> QED BY <2>1, <2>4, <2>7, <3>1 DEF Important
  <2>8. CASE i = 2 BY <1>3, <2>5, <2>8 DEF Shared
  <2>9. CASE i = 3 BY <1>3, <2>5, <2>9 DEF Shared
  <2>10. CASE i = 4 BY <1>3, <2>5, <2>10 DEF Shared
  <2> QED BY <2>6, <2>7, <2>8, <2>9, <2>10
<1>11. DOMAIN props \subseteq DOMAIN win BY <1>1, <1>2 DEF IsResolved
<1> QED BY <1>9, <1>10, <1>11 DEF win

\* A file, or none.
Files == {Nothing} \cup Texts

\* A file that is not there has no lines; another has its own.
LEMMA FileLines ==
  ASSUME NEW f \in Files
  PROVE  /\ Lines(f) \in Texts
         /\ IsProps(Props(f))
         /\ f \in Texts => f # Nothing /\ Lines(f) = f
<1>1. <<>> \in Texts BY DEF Texts, Once
<1>2. Nothing \notin Texts BY NothingAssumption DEF Texts
<1>3. Lines(f) \in Texts BY <1>1 DEF Files, Lines
<1>4. IsProps(Props(f)) BY <1>3, TextHasProps DEF Props
<1>5. f \in Texts => f # Nothing /\ Lines(f) = f BY <1>2 DEF Lines
<1> QED BY <1>3, <1>4, <1>5

\* What an update of a file makes of it.
IsUpdate(new, f, updates, important) ==
  /\ new \in Files
  /\ f # Nothing => new # Nothing
  /\ DOMAIN Props(new) = DOMAIN Props(f) \cup DOMAIN updates
  /\ \A k \in DOMAIN Props(new) :
       Props(new)[k].value = IF k \in DOMAIN updates THEN updates[k]
                             ELSE Props(f)[k].value
  /\ Tidy(Lines(f)) =>
       /\ Tidy(Lines(new))
       /\ \A k \in DOMAIN Props(new) :
            Props(new)[k].important =>
              k \in important \/ k \in Important(Props(f))
       /\ DOMAIN updates # {} =>
            \A k \in DOMAIN Props(new) :
              Props(new)[k].important <=>
                \/ k \in important
                \/ k \notin DOMAIN updates /\ Props(f)[k].important

\* Updates of a file.
LEMMA UpdateFile ==
  ASSUME NEW f \in Files, NEW updates, IsHost(updates), NEW important
  PROVE  IsUpdate(Update(f, updates, important), f, updates, important)
<1> DEFINE new == Update(f, updates, important)
           text == UpdatePortalExt(Lines(f), updates, important)
<1>1. CASE DOMAIN updates = {}
  <2>1. new = f BY <1>1 DEF Update
  <2>2. \A k \in DOMAIN Props(f) : Props(f)[k].important => k \in Important(Props(f))
    BY DEF Important
  <2> HIDE DEF new
  <2>3. IsUpdate(new, f, updates, important) BY <1>1, <2>1, <2>2 DEF IsUpdate
  <2> QED BY <2>3 DEF new
<1>2. CASE DOMAIN updates # {}
  <2>1. new = text BY <1>2 DEF Update
  <2>2. Lines(f) \in Texts BY FileLines
  <2>3. /\ text \in Texts
        /\ DOMAIN GetProperties(text) = DOMAIN Props(f) \cup DOMAIN updates
        /\ \A k \in DOMAIN GetProperties(text) :
             GetProperties(text)[k].value = IF k \in DOMAIN updates THEN updates[k]
                                            ELSE Props(f)[k].value
        /\ Tidy(Lines(f)) =>
             /\ Tidy(text)
             /\ \A k \in DOMAIN GetProperties(text) :
                  GetProperties(text)[k].important <=>
                    \/ k \in important
                    \/ k \notin DOMAIN updates /\ Props(f)[k].important
    BY <1>2, <2>2, UpdateText DEF IsHost, Props
  <2> HIDE DEF text
  <2>4. new \in Files /\ Lines(new) = text /\ Props(new) = GetProperties(text) /\ new # Nothing
    <3>1. text \in Files BY <2>3 DEF Files
    <3>2. Lines(text) = text /\ text # Nothing BY <2>3, <3>1, FileLines
    <3> HIDE DEF new
    <3> QED BY <2>1, <3>1, <3>2 DEF Props
  <2>5. ASSUME Tidy(Lines(f)), NEW k \in DOMAIN Props(new), Props(new)[k].important
        PROVE  k \in important \/ k \in Important(Props(f))
    <3>1. k \in important \/ (k \notin DOMAIN updates /\ Props(f)[k].important)
      BY <2>3, <2>4, <2>5
    <3>2. k \in DOMAIN Props(f) \cup DOMAIN updates BY <2>3, <2>4
    <3> QED BY <3>1, <3>2 DEF Important
  <2> HIDE DEF new
  <2>6. IsUpdate(new, f, updates, important)
    BY <2>3, <2>4, <2>5, <1>2 DEF IsUpdate
  <2> QED BY <2>6 DEF new
<1> QED BY <1>1, <1>2

\* A file after remove_portal_ext(): the other properties, with their values.
LEMMA RemoveFromFile ==
  ASSUME NEW f \in Files, NEW k \in Key
  PROVE  LET new == RemovePortalExt(Lines(f), k)
         IN  /\ new \in Texts /\ new \in Files /\ new # Nothing
             /\ DOMAIN Props(new) = DOMAIN Props(f) \ {k}
             /\ \A x \in DOMAIN Props(new) : Props(new)[x].value = Props(f)[x].value
             /\ ~LeavesAMark(Lines(f), k) /\ Tidy(Lines(f)) =>
                  /\ Tidy(Lines(new))
                  /\ Important(Props(new)) \subseteq Important(Props(f))
<1> DEFINE new == RemovePortalExt(Lines(f), k)
<1>1. Lines(f) \in Texts BY FileLines
<1>2. /\ new \in Texts
      /\ DOMAIN GetProperties(new) = DOMAIN Props(f) \ {k}
      /\ \A x \in DOMAIN GetProperties(new) : GetProperties(new)[x].value = Props(f)[x].value
      /\ ~LeavesAMark(Lines(f), k) /\ Tidy(Lines(f)) =>
           /\ Tidy(new)
           /\ \A x \in DOMAIN GetProperties(new) : GetProperties(new)[x] = Props(f)[x]
  BY <1>1, RemoveText DEF Props
<1> HIDE DEF new
<1>3. new \in Files BY <1>2 DEF Files
<1>4. Lines(new) = new /\ new # Nothing BY <1>2, <1>3, FileLines
<1>5. Props(new) = GetProperties(new) BY <1>4 DEF Props
<1>6. ~LeavesAMark(Lines(f), k) /\ Tidy(Lines(f)) =>
        Important(Props(new)) \subseteq Important(Props(f))
  BY <1>2, <1>5 DEF Important
<1> QED BY <1>2, <1>3, <1>4, <1>5, <1>6 DEF new

\* The file a sync writes, from what it reads.
MergeOf(ls, f, host) ==
  LET win == Resolved(ls, Props(f), host)
      updates == Changed(win, Props(f))
  IN  Update(f, [k \in updates |-> win[k].value], Important(win))

\* A merge leaves what it agrees with, marks what a layer marks, and has nothing
\* left to do when it is done again.
LEMMA MergedFile ==
  ASSUME NEW ls, IsLayers(ls), NEW f \in Files, NEW host, IsHost(host)
  PROVE  LET new == MergeOf(ls, f, host)
             win == Resolved(ls, Props(f), host)
         IN  /\ new \in Files
             /\ f # Nothing => new # Nothing
             /\ \A k \in DOMAIN Props(f) :
                  /\ k \in DOMAIN Props(new)
                  /\ win[k] = Props(f)[k] => Props(new)[k].value = Props(f)[k].value
             /\ Tidy(Lines(f)) =>
                  /\ Tidy(Lines(new))
                  /\ \A k \in Important(Props(new)) :
                       \/ k \in Important(Props(f)) \cup Important(Seed)
                       \/ \E l \in Shared : k \in Important(ls[l])
                  /\ Settled(ls, new, host)
<1> DEFINE new == MergeOf(ls, f, host)
           win == Resolved(ls, Props(f), host)
           updates == Changed(win, Props(f))
           values == [k \in updates |-> win[k].value]
<1>1. IsProps(Props(f)) BY FileLines
<1>2. /\ IsProps(win)
      /\ DOMAIN Props(f) \subseteq DOMAIN win
      /\ \A k \in Important(win) :
           \/ k \in Important(Props(f)) \cup Important(Seed)
           \/ \E l \in Shared : k \in Important(ls[l])
  BY <1>1, ResolvedIsProps
<1>3. Resolved(ls, win, host) = win BY <1>1, <1>2, ResolvedAgain
<1> HIDE DEF win
<1>4. updates \in SUBSET DOMAIN win BY DEF Changed
<1>5. DOMAIN values = updates /\ \A k \in updates : values[k] = win[k].value OBVIOUS
<1>6. IsHost(values)
  <2>1. IsFiniteSet(updates) BY <1>2, <1>4, FS_Subset DEF IsProps
  <2>2. \A k \in updates : k \in Key /\ win[k].value \in Value
    <3>1. SUFFICES ASSUME NEW k \in updates PROVE k \in Key /\ win[k].value \in Value OBVIOUS
    <3>2. k \in Key /\ win[k] \in [value : Value, important : BOOLEAN] BY <1>2, <1>4 DEF IsProps
    <3> QED BY <3>2
  <2> HIDE DEF values, updates
  <2> QED BY <1>5, <2>1, <2>2 DEF IsHost
<1>7. new = Update(f, values, Important(win)) BY DEF MergeOf, win
<1>8. \A k \in DOMAIN win : k \notin updates => k \in DOMAIN Props(f) /\ Props(f)[k] = win[k]
  BY DEF Changed
<1>9. \A k \in DOMAIN Props(f) : win[k] = Props(f)[k] => k \notin updates BY DEF Changed
<1> HIDE DEF new, values, updates
<1>10. IsUpdate(new, f, values, Important(win)) BY <1>6, <1>7, UpdateFile
<1>11. \A k \in DOMAIN Props(f) :
         /\ k \in DOMAIN Props(new)
         /\ win[k] = Props(f)[k] => Props(new)[k].value = Props(f)[k].value
  BY <1>5, <1>9, <1>10 DEF IsUpdate
<1>12. ASSUME Tidy(Lines(f)), NEW k \in Important(Props(new))
       PROVE  \/ k \in Important(Props(f)) \cup Important(Seed)
              \/ \E l \in Shared : k \in Important(ls[l])
  <2>1. k \in DOMAIN Props(new) /\ Props(new)[k].important BY <1>12 DEF Important
  <2>2. k \in Important(win) \/ k \in Important(Props(f)) BY <1>10, <1>12, <2>1 DEF IsUpdate
  <2> QED BY <1>2, <2>2
<1>13. ASSUME Tidy(Lines(f)) PROVE Settled(ls, new, host)
  <2>1. CASE updates = {}
    <3>1. new = f BY <1>5, <1>7, <2>1 DEF Update
    <3> QED BY <2>1, <3>1 DEF Settled, updates, win
  <2>2. CASE updates # {}
    <3>1. IsProps(Props(new)) BY <1>10, FileLines DEF IsUpdate
    <3>2. DOMAIN Props(new) = DOMAIN win BY <1>2, <1>4, <1>5, <1>8, <1>10 DEF IsUpdate
    <3>3. ASSUME NEW k \in DOMAIN win PROVE Props(new)[k] = win[k]
      <4>1. /\ Props(new)[k] \in [value : Value, important : BOOLEAN]
            /\ win[k] \in [value : Value, important : BOOLEAN]
        BY <1>2, <3>1, <3>2, <3>3 DEF IsProps
      <4>2. Props(new)[k].value = win[k].value
        <5>1. CASE k \in updates BY <1>5, <1>10, <3>2, <5>1 DEF IsUpdate
        <5>2. CASE k \notin updates BY <1>5, <1>8, <1>10, <3>2, <5>2 DEF IsUpdate
        <5> QED BY <5>1, <5>2
      <4>3. k \in Important(win) <=> win[k].important BY <3>3 DEF Important
      <4>4. Props(new)[k].important <=> win[k].important
        <5>1. Props(new)[k].important <=>
                \/ k \in Important(win)
                \/ k \notin updates /\ Props(f)[k].important
          BY <1>5, <1>10, <1>13, <2>2, <3>2 DEF IsUpdate
        <5>2. k \notin updates => Props(f)[k] = win[k] BY <1>8
        <5> QED BY <4>3, <5>1, <5>2
      <4>5. ASSUME NEW x, NEW y,
                   x \in [value : Value, important : BOOLEAN],
                   y \in [value : Value, important : BOOLEAN],
                   x.value = y.value, x.important <=> y.important
            PROVE  x = y
        BY <4>5
      <4> QED BY <4>1, <4>2, <4>4, <4>5
    <3>4. Props(new) = win BY <1>2, <3>1, <3>2, <3>3 DEF IsProps
    <3>5. Changed(win, win) = {} BY DEF Changed
    <3> QED BY <1>3, <3>4, <3>5 DEF Settled
  <2> QED BY <2>1, <2>2
<1>14. /\ new \in Files
       /\ f # Nothing => new # Nothing
       /\ Tidy(Lines(f)) => Tidy(Lines(new))
  BY <1>10 DEF IsUpdate
<1> QED BY <1>11, <1>12, <1>13, <1>14 DEF new, win

\* A layer after five.
LEMMA SixthLayer ==
  ASSUME NEW S, NEW five \in [1..5 -> S], NEW x \in S
  PROVE  /\ five \o <<x>> \in Seq(S) /\ Len(five \o <<x>>) = 6
         /\ \A p \in 1..5 : (five \o <<x>>)[p] = five[p]
         /\ (five \o <<x>>)[6] = x
<1>1. five \in Seq(S) BY SeqDef
<1>2. DOMAIN five = 1..5 OBVIOUS
<1>3. DOMAIN five = 1..Len(five) /\ Len(five) \in Nat BY <1>1, LenProperties
<1>4. Len(five) = 5
  <2>1. Len(five) \in 1..Len(five) \/ Len(five) = 0 BY <1>3
  <2>2. 5 \in 1..Len(five) BY <1>2, <1>3
  <2>3. Len(five) <= 5 BY <1>2, <1>3, <2>1
  <2> QED BY <1>3, <2>2, <2>3
<1>5. /\ five \o <<x>> \in Seq(S) /\ Len(five \o <<x>>) = Len(five) + 1
      /\ \A p \in 1..Len(five) : (five \o <<x>>)[p] = five[p]
      /\ (five \o <<x>>)[Len(five) + 1] = x
  BY <1>1, OneMore
<1> QED BY <1>4, <1>5

\* The inspector's sixth layer changes nothing of a file that is settled, but
\* where the host's setting is beaten.
LEMMA InspectedAgrees ==
  ASSUME NEW ls, IsLayers(ls), NEW props, IsProps(props), NEW host, IsHost(host),
         Changed(Resolved(ls, props, host), props) = {}
  PROVE  LET shown == Inspected(ls, props, host)
         IN  \A k \in DOMAIN shown :
               \/ props[k] = shown[k]
               \/ k \in DOMAIN host /\ shown[k].important
<1> DEFINE win == Resolved(ls, props, host)
           stack == Layers(ls, props)
           more == stack \o <<Plain(host)>>
           shown == Inspected(ls, props, host)
<1>1. IsResolved(win, stack, host) BY ResolvedFields
<1>2. \A k \in DOMAIN win : k \in DOMAIN props /\ props[k] = win[k] BY DEF Changed
<1>3. DOMAIN shown = AllKeys(more) /\ \A k \in AllKeys(more) : shown[k] = Winner(more, k)
  BY DEF Inspected
<1>4. /\ \A k : k \in AllKeys(stack) <=> \E i \in 1..5 : k \in DOMAIN stack[i]
      /\ \A k : k \in AllKeys(stack) <=> Defining(stack, k) # {}
      /\ \A k : Defining(stack, k) = {i \in 1..5 : k \in DOMAIN stack[i]}
  BY AllKeysFields
<1>5. DOMAIN stack = 1..5 BY LayerFields
<1>6. \A i \in 1..5 : \A k \in DOMAIN stack[i] :
        k \in Key /\ stack[i][k] \in [value : Value, important : BOOLEAN]
  BY LayersAreProps
<1>7. DOMAIN more = 1..6 /\ more[6] = Plain(host) /\ \A i \in 1..5 : more[i] = stack[i]
  <2> DEFINE S == {stack[i] : i \in 1..5} \cup {Plain(host)}
  <2>1. stack = [i \in 1..5 |-> stack[i]] BY DEF Layers
  <2>2. \A i \in 1..5 : stack[i] \in S OBVIOUS
  <2>3. Plain(host) \in S OBVIOUS
  <2> HIDE DEF S, stack
  <2>4. stack \in [1..5 -> S] BY <2>1, <2>2
  <2>6. more \in Seq(S) /\ Len(more) = 6 BY <2>3, <2>4, SixthLayer
  <2>7. (\A p \in 1..5 : more[p] = stack[p]) /\ more[6] = Plain(host) BY <2>3, <2>4, SixthLayer
  <2> HIDE DEF more
  <2>8. DOMAIN more = 1..6 BY <2>6
  <2> QED BY <2>7, <2>8
<1>8. DOMAIN Plain(host) = DOMAIN host /\ \A k \in DOMAIN host : Plain(host)[k] = [value |-> host[k], important |-> FALSE]
  BY DEF Plain
<1> HIDE DEF win, stack, more, shown
<1>9. SUFFICES ASSUME NEW k \in DOMAIN shown
               PROVE  props[k] = shown[k] \/ (k \in DOMAIN host /\ shown[k].important)
  BY DEF shown
<1>10. Defining(more, k) = {i \in 1..6 : k \in DOMAIN more[i]} BY <1>7 DEF Defining
<1>11. Defining(more, k) # {} /\ shown[k] = Winner(more, k)
  BY <1>3, <1>9 DEF AllKeys, Defining
<1>12. \A i \in Defining(more, k) : i # 6 => i \in Defining(stack, k) /\ more[i] = stack[i]
  BY <1>4, <1>7, <1>10
<1>13. \A i \in Defining(more, k) : more[i][k].important \in BOOLEAN
  <2>1. SUFFICES ASSUME NEW i \in Defining(more, k) PROVE more[i][k].important \in BOOLEAN OBVIOUS
  <2>2. CASE i = 6
    <3>1. more[i][k] = [value |-> host[k], important |-> FALSE] BY <1>7, <1>8, <1>10, <2>2
    <3> QED BY <3>1
  <2>3. CASE i # 6
    <3>1. i \in 1..5 /\ k \in DOMAIN stack[i] /\ more[i] = stack[i] BY <1>4, <1>12, <2>3
    <3>2. stack[i][k] \in [value : Value, important : BOOLEAN] BY <1>6, <3>1
    <3> QED BY <3>1, <3>2
  <2> QED BY <2>2, <2>3
<1>14. PICK i \in Defining(more, k) : Wins(more, k, i) /\ Winner(more, k) = more[i][k]
  BY <1>7, <1>11, <1>13, WinnerWins
<1>15. CASE k \in DOMAIN host
  <2>1. 6 \in Defining(more, k) BY <1>7, <1>8, <1>10, <1>15
  <2>2. CASE i = 6
    <3>1. shown[k] = [value |-> host[k], important |-> FALSE] BY <1>7, <1>8, <1>11, <1>14, <1>15, <2>2
    <3>2. k \in DOMAIN win /\ win[k] = [value |-> host[k], important |-> FALSE]
      BY <1>1, <1>15 DEF IsResolved
    <3> QED BY <1>2, <3>1, <3>2
  <2>3. CASE i # 6
    <3>1. i \in 1..5 BY <1>10, <2>3
    <3>2. more[i][k].important BY <1>13, <1>14, <2>1, <3>1 DEF Wins
    <3> QED BY <1>11, <1>14, <1>15, <3>2
  <2> QED BY <2>2, <2>3
<1>16. CASE k \notin DOMAIN host
  <2>1. 6 \notin Defining(more, k) BY <1>7, <1>8, <1>10, <1>16
  <2>2. \A j : j \in Defining(more, k) <=> j \in Defining(stack, k) BY <1>4, <1>7, <1>10, <2>1
  <2>3. \A j \in Defining(stack, k) : more[j] = stack[j] BY <1>4, <1>7
  <2>4. Wins(stack, k, i) /\ i \in Defining(stack, k) BY <1>14, <2>2, <2>3 DEF Wins
  <2>5. \A j \in Defining(stack, k) : stack[j][k].important \in BOOLEAN BY <1>13, <2>2, <2>3
  <2>6. Winner(stack, k) = stack[i][k] BY <1>5, <2>4, <2>5, WinnerWins
  <2>7. k \in AllKeys(stack) BY <1>4, <2>4
  <2>8. k \in DOMAIN win /\ win[k] = Winner(stack, k) BY <1>1, <1>16, <2>7 DEF IsResolved
  <2> QED BY <1>2, <1>11, <1>14, <2>3, <2>4, <2>6, <2>8
<1> QED BY <1>15, <1>16

-----------------------------------------------------------------------------
(* The invariant.                                                          *)

Metas == [flag : BOOLEAN, db : Databases, login : Value \cup {"default", Nothing}]

IsInputs(r) ==
  /\ r = Inputs(r.layers, r.target, r.host)
  /\ IsLayers(r.layers) /\ IsHost(r.host)

Merging == {"hashed", "resolved", "diffed", "merging", "merged"}

IsRecord(c) ==
  c = [op |-> c.op, step |-> c.step, dry |-> c.dry, moved |-> c.moved,
       meta |-> c.meta, inputs |-> c.inputs, text |-> c.text]

IsCommand(c) ==
  /\ IsRecord(c)
  /\ c.dry \in BOOLEAN /\ c.moved \in BOOLEAN
  /\ c.step # "idle" => c.meta \in Metas
  /\ c.text \in Files
  /\ c.step \in Writing => c.text # Nothing
  /\ c.step \in Merging => IsInputs(c.inputs) /\ c.inputs.host = HostOf(c)
  /\ c.step = "considering" => c.op = "settings"
  /\ c.step = "setting" => c.op \in {"edit", "rebuild"}
  /\ c.step \in {"removing", "removed"} => c.op = "run"

IsReading(h) ==
  h = [props |-> h.props, updates |-> h.updates, sets |-> h.sets,
       drops |-> h.drops, crossed |-> h.crossed]

IsHeld(h) == IsReading(h) /\ IsProps(h.props) /\ h.crossed \in BOOLEAN

HonouredBy(f, w) == \A k \in DOMAIN w : k \in DOMAIN Props(f) /\ Props(f)[k].value = w[k]

\* What a command holds fits the step it is at: it has something to write, and
\* what it writes has what the user sets with it.
Fits(c, h) ==
  /\ c.step \in {"resolved", "diffed"} => DOMAIN h.sets = {}
  /\ c.step = "diffed" => h.updates # {} /\ h.updates \subseteq DOMAIN h.props
  /\ c.step \in Writing => HonouredBy(c.text, h.sets)

TextsTyped ==
  /\ layer = [l \in Shared |-> layer[l]] /\ IsLayers(layer)
  /\ file \in Files /\ aside \in Files /\ original \in Files
CommandsTyped ==
  /\ meta \in Metas
  /\ cmd = [a \in Actors |-> cmd[a]] /\ held = [a \in Actors |-> held[a]]
  /\ \A a \in Actors : IsCommand(cmd[a]) /\ IsHeld(held[a]) /\ Fits(cmd[a], held[a])

\* The types.
PropertiesTypeOK == TextsTyped /\ CommandsTyped

\* No mark is without its property, and every mark was asked for.
Asked(f, marks) == Tidy(Lines(f)) /\ Important(Props(f)) \subseteq marks
Marks(c, h, marks) == Important(h.props) \subseteq marks /\ Asked(c.text, marks)
MarksAreAsked ==
  ~orphaned =>
    /\ Asked(file, asked) /\ Asked(aside, asked) /\ Asked(original, asked)
    /\ Important(Seed) \subseteq asked
    /\ \A l \in Shared : Important(layer[l]) \subseteq asked
    /\ \A a \in Actors : Marks(cmd[a], held[a], asked)

\* A record of inputs agrees with a file: another merge would change nothing.
Agrees(r, f) == r = Inputs(r.layers, r.target, r.host) /\ Settled(r.layers, f, r.host)

\* A sync that nobody crossed has resolved, compared and merged what it hashed.
Faithful(c, h) ==
  ~h.crossed =>
    /\ c.step \in {"resolved", "diffed"} =>
         h.props = Resolved(c.inputs.layers, Props(c.text), c.inputs.host)
    /\ c.step = "diffed" => h.updates = Changed(h.props, Props(c.text))
    /\ c.step \in {"merging", "merged"} => Agrees(c.inputs, c.text)
RecordsAgree ==
  ~orphaned =>
    /\ \A a \in Actors : Faithful(cmd[a], held[a])
    /\ ~raced /\ manifest # Nothing => Agrees(manifest, manifest.target)

\* A reset that has moved the file; one of them at most.  The file has what was
\* wished for, and so has what any command will write of it; or the file will
\* have it again when a dry reset has put it back.
Past(c) == c.op = "reset" /\ c.step \notin {"idle", "read"}
Kept(h, w) == DOMAIN w \ (h.drops \cup DOMAIN h.sets)
Keeps(c, h, w) ==
  /\ c.step \in Writing =>
       \A k \in Kept(h, w) : k \in DOMAIN Props(c.text) /\ Props(c.text)[k].value = w[k]
  /\ c.step \in {"resolved", "diffed"} =>
       \A k \in Kept(h, w) : k \in DOMAIN h.props => h.props[k].value = w[k]
Calm == \A a \in Actors : Past(cmd[a]) => ~cmd[a].dry
WillReturn(c, f, w) ==
  IF c.moved THEN f # Nothing /\ HonouredBy(f, w) ELSE DOMAIN w = {}
WishesAreKept ==
  ~torn =>
    /\ \A a, b \in Actors : Past(cmd[a]) /\ Past(cmd[b]) => a = b
    /\ Calm => HonouredBy(file, wish) /\ \A a \in Actors : Keeps(cmd[a], held[a], wish)
    /\ \A a \in Actors :
         Past(cmd[a]) /\ cmd[a].dry /\ file = Nothing => WillReturn(cmd[a], aside, wish)

PropertiesIInv == PropertiesTypeOK /\ MarksAreAsked /\ RecordsAgree /\ WishesAreKept

-----------------------------------------------------------------------------
(* One command acts.                                                       *)

\* A command stays past the moving of the file, or before it.
Stays(c, d) ==
  /\ Past(d) => Past(c) /\ d.dry = c.dry /\ d.moved = c.moved
  /\ Past(c) /\ c.dry => Past(d)

\* The one command that changes, and what it holds.
Becomes(a, c, h) ==
  /\ cmd' = [cmd EXCEPT ![a] = c] /\ held' = [held EXCEPT ![a] = h]

\* The others are as before.
LEMMA TheOthers ==
  ASSUME PropertiesTypeOK, NEW a \in Actors, NEW c, NEW h, Becomes(a, c, h)
  PROVE  /\ cmd' = [x \in Actors |-> cmd'[x]] /\ held' = [x \in Actors |-> held'[x]]
         /\ cmd'[a] = c /\ held'[a] = h
         /\ \A x \in Actors : x # a => cmd'[x] = cmd[x] /\ held'[x] = held[x]
<1>1. cmd = [x \in Actors |-> cmd[x]] /\ held = [x \in Actors |-> held[x]]
  BY DEF PropertiesTypeOK, CommandsTyped
<1>2. cmd' = [cmd EXCEPT ![a] = c] /\ held' = [held EXCEPT ![a] = h] BY DEF Becomes
<1> QED BY <1>1, <1>2

\* The types of the commands, after one has acted.
LEMMA CommandsStayTyped ==
  ASSUME PropertiesTypeOK, NEW a \in Actors, NEW c, NEW h, Becomes(a, c, h),
         meta' \in Metas, IsCommand(c), IsHeld(h), Fits(c, h)
  PROVE  CommandsTyped'
<1>1. /\ cmd' = [x \in Actors |-> cmd'[x]] /\ held' = [x \in Actors |-> held'[x]]
      /\ cmd'[a] = c /\ held'[a] = h
      /\ \A x \in Actors : x # a => cmd'[x] = cmd[x] /\ held'[x] = held[x]
  BY TheOthers
<1>2. \A x \in Actors : IsCommand(cmd[x]) /\ IsHeld(held[x]) /\ Fits(cmd[x], held[x])
  BY DEF PropertiesTypeOK, CommandsTyped
<1>3. ASSUME NEW x \in Actors
      PROVE  IsCommand(cmd'[x]) /\ IsHeld(held'[x]) /\ Fits(cmd'[x], held'[x])
  <2>1. CASE x = a BY <1>1, <2>1
  <2>2. CASE x # a BY <1>1, <1>2, <2>2
  <2> QED BY <2>1, <2>2
<1> QED BY <1>1, <1>3 DEF CommandsTyped

\* A step of one command that leaves the texts alone.
Reading(a, c, h) ==
  /\ Becomes(a, c, h)
  /\ UNCHANGED <<layer, file, aside, original, manifest, wish, raced>>
  /\ meta' \in Metas /\ asked \subseteq asked'
  /\ orphaned => orphaned'
  /\ torn => torn'
  /\ IsCommand(c) /\ IsHeld(h) /\ Fits(c, h)
  /\ ~orphaned' => Faithful(c, h) /\ Marks(c, h, asked')
  /\ ~torn' => Stays(cmd[a], c)
  /\ ~torn' /\ Calm => Keeps(c, h, wish)

\* A step that only reads keeps the invariant, if what it read does.
LEMMA ReadingKeeps ==
  ASSUME PropertiesIInv, NEW a \in Actors, NEW c, NEW h, Reading(a, c, h)
  PROVE  PropertiesIInv'
<1>1. PropertiesTypeOK /\ MarksAreAsked /\ RecordsAgree /\ WishesAreKept BY DEF PropertiesIInv
<1>2. /\ Becomes(a, c, h)
      /\ layer' = layer /\ file' = file /\ aside' = aside /\ original' = original
      /\ manifest' = manifest /\ wish' = wish /\ raced' = raced
      /\ meta' \in Metas /\ asked \subseteq asked'
      /\ orphaned => orphaned'
      /\ torn => torn'
      /\ IsCommand(c) /\ IsHeld(h) /\ Fits(c, h)
  BY DEF Reading
<1>3. /\ cmd'[a] = c /\ held'[a] = h
      /\ \A x \in Actors : x # a => cmd'[x] = cmd[x] /\ held'[x] = held[x]
  BY <1>1, <1>2, TheOthers
<1>4. TextsTyped' BY <1>1, <1>2 DEF PropertiesTypeOK, TextsTyped
<1>5. CommandsTyped' BY <1>1, <1>2, CommandsStayTyped
<1>6. MarksAreAsked'
  <2>1. SUFFICES ASSUME ~orphaned' PROVE MarksAreAsked' BY DEF MarksAreAsked
  <2>2. /\ Asked(file, asked) /\ Asked(aside, asked) /\ Asked(original, asked)
        /\ Important(Seed) \subseteq asked
        /\ \A l \in Shared : Important(layer[l]) \subseteq asked
        /\ \A x \in Actors : Marks(cmd[x], held[x], asked)
    BY <1>1, <1>2, <2>1 DEF MarksAreAsked
  <2>3. Marks(c, h, asked') BY <2>1 DEF Reading
  <2>4. ASSUME NEW x \in Actors PROVE Marks(cmd'[x], held'[x], asked')
    <3>1. CASE x = a BY <1>3, <2>3, <3>1
    <3>2. CASE x # a
      <4>1. Marks(cmd[x], held[x], asked) BY <2>2
      <4>2. Marks(cmd[x], held[x], asked') BY <1>2, <4>1 DEF Marks, Asked
      <4> QED BY <1>3, <3>2, <4>2
    <3> QED BY <3>1, <3>2
  <2>5. Asked(file', asked') /\ Asked(aside', asked') /\ Asked(original', asked')
    BY <1>2, <2>2 DEF Asked
  <2>6. /\ Important(Seed) \subseteq asked'
        /\ \A l \in Shared : Important(layer'[l]) \subseteq asked'
    BY <1>2, <2>2
  <2> QED BY <2>4, <2>5, <2>6 DEF MarksAreAsked
<1>7. RecordsAgree'
  <2>1. SUFFICES ASSUME ~orphaned' PROVE RecordsAgree' BY DEF RecordsAgree
  <2>2. /\ \A x \in Actors : Faithful(cmd[x], held[x])
        /\ ~raced /\ manifest # Nothing => Agrees(manifest, manifest.target)
    BY <1>1, <1>2, <2>1 DEF RecordsAgree
  <2>3. Faithful(c, h) BY <2>1 DEF Reading
  <2>4. ASSUME NEW x \in Actors PROVE Faithful(cmd'[x], held'[x])
    <3>1. CASE x = a BY <1>3, <2>3, <3>1
    <3>2. CASE x # a BY <1>3, <2>2, <3>2
    <3> QED BY <3>1, <3>2
  <2> QED BY <1>2, <2>2, <2>4 DEF RecordsAgree
<1>8. WishesAreKept'
  <2>1. SUFFICES ASSUME ~torn' PROVE WishesAreKept' BY DEF WishesAreKept
  <2>2. /\ \A x, y \in Actors : Past(cmd[x]) /\ Past(cmd[y]) => x = y
        /\ Calm => HonouredBy(file, wish) /\ \A x \in Actors : Keeps(cmd[x], held[x], wish)
        /\ \A x \in Actors :
             Past(cmd[x]) /\ cmd[x].dry /\ file = Nothing => WillReturn(cmd[x], aside, wish)
    BY <1>1, <1>2, <2>1 DEF WishesAreKept
  <2>3. Stays(cmd[a], c) /\ (Calm => Keeps(c, h, wish)) BY <2>1 DEF Reading
  <2>4. \A x \in Actors : Stays(cmd[x], cmd'[x])
    <3>1. SUFFICES ASSUME NEW x \in Actors PROVE Stays(cmd[x], cmd'[x]) OBVIOUS
    <3>2. CASE x = a BY <1>3, <2>3, <3>2
    <3>3. CASE x # a BY <1>3, <3>3 DEF Stays
    <3> QED BY <3>2, <3>3
  <2>5. ASSUME NEW x \in Actors, NEW y \in Actors, Past(cmd'[x]), Past(cmd'[y]) PROVE x = y
    BY <2>2, <2>4, <2>5 DEF Stays
  <2>6. ASSUME Calm'
        PROVE  HonouredBy(file', wish') /\ \A x \in Actors : Keeps(cmd'[x], held'[x], wish')
    <3>1. Calm BY <2>4, <2>6 DEF Calm, Stays
    <3>2. ASSUME NEW x \in Actors PROVE Keeps(cmd'[x], held'[x], wish)
      <4>1. CASE x = a BY <1>3, <2>3, <3>1, <4>1
      <4>2. CASE x # a BY <1>3, <2>2, <3>1, <4>2
      <4> QED BY <4>1, <4>2
    <3> QED BY <1>2, <2>2, <3>1, <3>2
  <2>7. ASSUME NEW x \in Actors, Past(cmd'[x]), cmd'[x].dry, file' = Nothing
        PROVE  WillReturn(cmd'[x], aside', wish')
    <3>1. Past(cmd[x]) /\ cmd[x].dry /\ cmd'[x].moved = cmd[x].moved BY <2>4, <2>7 DEF Stays
    <3>2. WillReturn(cmd[x], aside, wish) BY <1>2, <2>2, <2>7, <3>1
    <3> QED BY <1>2, <3>1, <3>2 DEF WillReturn
  <2> QED BY <2>5, <2>6, <2>7 DEF WishesAreKept
<1> QED BY <1>4, <1>5, <1>6, <1>7, <1>8 DEF PropertiesIInv, PropertiesTypeOK

-----------------------------------------------------------------------------
(* Records, field by field.                                                *)

\* A command is its seven fields.
LEMMA SevenFields ==
  ASSUME NEW d, DOMAIN d = {"op", "step", "dry", "moved", "meta", "inputs", "text"},
         d = [f \in DOMAIN d |-> d[f]]
  PROVE  IsRecord(d)
  BY DEF IsRecord

\* A command at another step.
LEMMA WithStep ==
  ASSUME NEW c, IsRecord(c), NEW s
  PROVE  [c EXCEPT !.step = s] =
           [op |-> c.op, step |-> s, dry |-> c.dry, moved |-> c.moved,
            meta |-> c.meta, inputs |-> c.inputs, text |-> c.text]
<1> DEFINE d == [c EXCEPT !.step = s]
<1>1. DOMAIN c = {"op", "step", "dry", "moved", "meta", "inputs", "text"} BY DEF IsRecord
<1>2. DOMAIN d = DOMAIN c /\ d = [f \in DOMAIN d |-> d[f]] OBVIOUS
<1>3. d.op = c.op BY <1>1
<1>4. d.step = s BY <1>1
<1>5. d.dry = c.dry BY <1>1
<1>6. d.moved = c.moved BY <1>1
<1>7. d.meta = c.meta BY <1>1
<1>8. d.inputs = c.inputs BY <1>1
<1>9. d.text = c.text BY <1>1
<1> HIDE DEF d
<1>10. IsRecord(d) BY <1>1, <1>2, SevenFields
<1> QED BY <1>3, <1>4, <1>5, <1>6, <1>7, <1>8, <1>9, <1>10 DEF IsRecord, d

\* A command with other metadata.
LEMMA WithMeta ==
  ASSUME NEW c, IsRecord(c), NEW m
  PROVE  [c EXCEPT !.meta = m] =
           [op |-> c.op, step |-> c.step, dry |-> c.dry, moved |-> c.moved,
            meta |-> m, inputs |-> c.inputs, text |-> c.text]
<1> DEFINE d == [c EXCEPT !.meta = m]
<1>1. DOMAIN c = {"op", "step", "dry", "moved", "meta", "inputs", "text"} BY DEF IsRecord
<1>2. DOMAIN d = DOMAIN c /\ d = [f \in DOMAIN d |-> d[f]] OBVIOUS
<1>3. d.op = c.op BY <1>1
<1>4. d.step = c.step BY <1>1
<1>5. d.dry = c.dry BY <1>1
<1>6. d.moved = c.moved BY <1>1
<1>7. d.meta = m BY <1>1
<1>8. d.inputs = c.inputs BY <1>1
<1>9. d.text = c.text BY <1>1
<1> HIDE DEF d
<1>10. IsRecord(d) BY <1>1, <1>2, SevenFields
<1> QED BY <1>3, <1>4, <1>5, <1>6, <1>7, <1>8, <1>9, <1>10 DEF IsRecord, d

\* A command at another step, with other metadata.
LEMMA WithStepAndMeta ==
  ASSUME NEW c, IsRecord(c), NEW s, NEW m
  PROVE  [c EXCEPT !.step = s, !.meta = m] =
           [op |-> c.op, step |-> s, dry |-> c.dry, moved |-> c.moved,
            meta |-> m, inputs |-> c.inputs, text |-> c.text]
<1> DEFINE d == [c EXCEPT !.step = s, !.meta = m]
<1>1. DOMAIN c = {"op", "step", "dry", "moved", "meta", "inputs", "text"} BY DEF IsRecord
<1>2. DOMAIN d = DOMAIN c /\ d = [f \in DOMAIN d |-> d[f]] OBVIOUS
<1>3. d.op = c.op BY <1>1
<1>4. d.step = s BY <1>1
<1>5. d.dry = c.dry BY <1>1
<1>6. d.moved = c.moved BY <1>1
<1>7. d.meta = m BY <1>1
<1>8. d.inputs = c.inputs BY <1>1
<1>9. d.text = c.text BY <1>1
<1> HIDE DEF d
<1>10. IsRecord(d) BY <1>1, <1>2, SevenFields
<1> QED BY <1>3, <1>4, <1>5, <1>6, <1>7, <1>8, <1>9, <1>10 DEF IsRecord, d

\* A command that has hashed its inputs.
LEMMA WithInputs ==
  ASSUME NEW c, IsRecord(c), NEW s, NEW i
  PROVE  [c EXCEPT !.step = s, !.inputs = i] =
           [op |-> c.op, step |-> s, dry |-> c.dry, moved |-> c.moved,
            meta |-> c.meta, inputs |-> i, text |-> c.text]
<1> DEFINE d == [c EXCEPT !.step = s, !.inputs = i]
<1>1. DOMAIN c = {"op", "step", "dry", "moved", "meta", "inputs", "text"} BY DEF IsRecord
<1>2. DOMAIN d = DOMAIN c /\ d = [f \in DOMAIN d |-> d[f]] OBVIOUS
<1>3. d.op = c.op BY <1>1
<1>4. d.step = s BY <1>1
<1>5. d.dry = c.dry BY <1>1
<1>6. d.moved = c.moved BY <1>1
<1>7. d.meta = c.meta BY <1>1
<1>8. d.inputs = i BY <1>1
<1>9. d.text = c.text BY <1>1
<1> HIDE DEF d
<1>10. IsRecord(d) BY <1>1, <1>2, SevenFields
<1> QED BY <1>3, <1>4, <1>5, <1>6, <1>7, <1>8, <1>9, <1>10 DEF IsRecord, d

\* A command that has read a text or will write one.
LEMMA WithText ==
  ASSUME NEW c, IsRecord(c), NEW s, NEW t
  PROVE  [c EXCEPT !.step = s, !.text = t] =
           [op |-> c.op, step |-> s, dry |-> c.dry, moved |-> c.moved,
            meta |-> c.meta, inputs |-> c.inputs, text |-> t]
<1> DEFINE d == [c EXCEPT !.step = s, !.text = t]
<1>1. DOMAIN c = {"op", "step", "dry", "moved", "meta", "inputs", "text"} BY DEF IsRecord
<1>2. DOMAIN d = DOMAIN c /\ d = [f \in DOMAIN d |-> d[f]] OBVIOUS
<1>3. d.op = c.op BY <1>1
<1>4. d.step = s BY <1>1
<1>5. d.dry = c.dry BY <1>1
<1>6. d.moved = c.moved BY <1>1
<1>7. d.meta = c.meta BY <1>1
<1>8. d.inputs = c.inputs BY <1>1
<1>9. d.text = t BY <1>1
<1> HIDE DEF d
<1>10. IsRecord(d) BY <1>1, <1>2, SevenFields
<1> QED BY <1>3, <1>4, <1>5, <1>6, <1>7, <1>8, <1>9, <1>10 DEF IsRecord, d

\* A reset that has moved the file.
LEMMA WithMoved ==
  ASSUME NEW c, IsRecord(c), NEW s, NEW m
  PROVE  [c EXCEPT !.step = s, !.moved = m] =
           [op |-> c.op, step |-> s, dry |-> c.dry, moved |-> m,
            meta |-> c.meta, inputs |-> c.inputs, text |-> c.text]
<1> DEFINE d == [c EXCEPT !.step = s, !.moved = m]
<1>1. DOMAIN c = {"op", "step", "dry", "moved", "meta", "inputs", "text"} BY DEF IsRecord
<1>2. DOMAIN d = DOMAIN c /\ d = [f \in DOMAIN d |-> d[f]] OBVIOUS
<1>3. d.op = c.op BY <1>1
<1>4. d.step = s BY <1>1
<1>5. d.dry = c.dry BY <1>1
<1>6. d.moved = m BY <1>1
<1>7. d.meta = c.meta BY <1>1
<1>8. d.inputs = c.inputs BY <1>1
<1>9. d.text = c.text BY <1>1
<1> HIDE DEF d
<1>10. IsRecord(d) BY <1>1, <1>2, SevenFields
<1> QED BY <1>3, <1>4, <1>5, <1>6, <1>7, <1>8, <1>9, <1>10 DEF IsRecord, d

\* A command that goes on as another.
LEMMA WithOp ==
  ASSUME NEW c, IsRecord(c), NEW o, NEW s
  PROVE  [c EXCEPT !.op = o, !.step = s] =
           [op |-> o, step |-> s, dry |-> c.dry, moved |-> c.moved,
            meta |-> c.meta, inputs |-> c.inputs, text |-> c.text]
<1> DEFINE d == [c EXCEPT !.op = o, !.step = s]
<1>1. DOMAIN c = {"op", "step", "dry", "moved", "meta", "inputs", "text"} BY DEF IsRecord
<1>2. DOMAIN d = DOMAIN c /\ d = [f \in DOMAIN d |-> d[f]] OBVIOUS
<1>3. d.op = o BY <1>1
<1>4. d.step = s BY <1>1
<1>5. d.dry = c.dry BY <1>1
<1>6. d.moved = c.moved BY <1>1
<1>7. d.meta = c.meta BY <1>1
<1>8. d.inputs = c.inputs BY <1>1
<1>9. d.text = c.text BY <1>1
<1> HIDE DEF d
<1>10. IsRecord(d) BY <1>1, <1>2, SevenFields
<1> QED BY <1>3, <1>4, <1>5, <1>6, <1>7, <1>8, <1>9, <1>10 DEF IsRecord, d

\* A command with these fields.
HasFields(c, op, step, dry, moved, m, inputs, text) ==
  c = [op |-> op, step |-> step, dry |-> dry, moved |-> moved,
       meta |-> m, inputs |-> inputs, text |-> text]

\* A command that has recorded its inputs.
LEMMA WithRecord ==
  ASSUME NEW c, IsRecord(c), NEW s, NEW i, NEW t, NEW m
  PROVE  HasFields([c EXCEPT !.step = s, !.inputs = i, !.text = t, !.meta = m],
                   c.op, s, c.dry, c.moved, m, i, t)
<1> DEFINE d == [c EXCEPT !.step = s, !.inputs = i, !.text = t, !.meta = m]
<1>1. DOMAIN c = {"op", "step", "dry", "moved", "meta", "inputs", "text"} BY DEF IsRecord
<1>2. DOMAIN d = DOMAIN c /\ d = [f \in DOMAIN d |-> d[f]] OBVIOUS
<1>3. d.op = c.op BY <1>1
<1>4. d.step = s BY <1>1
<1>5. d.dry = c.dry BY <1>1
<1>6. d.moved = c.moved BY <1>1
<1>7. d.meta = m BY <1>1
<1>8. d.inputs = i BY <1>1
<1>9. d.text = t BY <1>1
<1> HIDE DEF d
<1>10. IsRecord(d) BY <1>1, <1>2, SevenFields
<1> QED BY <1>3, <1>4, <1>5, <1>6, <1>7, <1>8, <1>9, <1>10 DEF IsRecord, HasFields, d

\* What is held is its five fields.
LEMMA FiveFields ==
  ASSUME NEW d, DOMAIN d = {"props", "updates", "sets", "drops", "crossed"},
         d = [f \in DOMAIN d |-> d[f]]
  PROVE  IsReading(d)
  BY DEF IsReading

\* What is held has these fields.
HoldsFields(h, props, updates, sets, drops, crossed) ==
  h = [props |-> props, updates |-> updates, sets |-> sets, drops |-> drops,
       crossed |-> crossed]

\* What a sync holds that has resolved the layers.
LEMMA HeldResolved ==
  ASSUME NEW h, IsReading(h), NEW p, NEW g, NEW x
  PROVE  HoldsFields([h EXCEPT !.props = p, !.drops = g, !.crossed = x],
                     p, h.updates, h.sets, g, x)
<1> DEFINE d == [h EXCEPT !.props = p, !.drops = g, !.crossed = x]
<1>1. DOMAIN h = {"props", "updates", "sets", "drops", "crossed"} BY DEF IsReading
<1>2. DOMAIN d = DOMAIN h /\ d = [f \in DOMAIN d |-> d[f]] OBVIOUS
<1>3. d.props = p BY <1>1
<1>4. d.updates = h.updates BY <1>1
<1>5. d.sets = h.sets BY <1>1
<1>6. d.drops = g BY <1>1
<1>7. d.crossed = x BY <1>1
<1> HIDE DEF d
<1>8. IsReading(d) BY <1>1, <1>2, FiveFields
<1> QED BY <1>3, <1>4, <1>5, <1>6, <1>7, <1>8 DEF IsReading, HoldsFields, d

\* What it holds when it has compared the file.
LEMMA HeldDiff ==
  ASSUME NEW h, IsReading(h), NEW u, NEW x
  PROVE  [h EXCEPT !.updates = u, !.crossed = x] =
           [props |-> h.props, updates |-> u, sets |-> h.sets,
            drops |-> h.drops, crossed |-> x]
<1> DEFINE d == [h EXCEPT !.updates = u, !.crossed = x]
<1>1. DOMAIN h = {"props", "updates", "sets", "drops", "crossed"} BY DEF IsReading
<1>2. DOMAIN d = DOMAIN h /\ d = [f \in DOMAIN d |-> d[f]] OBVIOUS
<1>3. d.props = h.props BY <1>1
<1>4. d.updates = u BY <1>1
<1>5. d.sets = h.sets BY <1>1
<1>6. d.drops = h.drops BY <1>1
<1>7. d.crossed = x BY <1>1
<1> HIDE DEF d
<1>8. IsReading(d) BY <1>1, <1>2, FiveFields
<1> QED BY <1>3, <1>4, <1>5, <1>6, <1>7, <1>8 DEF IsReading, d

\* What it holds when it has read the file again.
LEMMA HeldCrossed ==
  ASSUME NEW h, IsReading(h), NEW x
  PROVE  [h EXCEPT !.crossed = x] =
           [props |-> h.props, updates |-> h.updates, sets |-> h.sets,
            drops |-> h.drops, crossed |-> x]
<1> DEFINE d == [h EXCEPT !.crossed = x]
<1>1. DOMAIN h = {"props", "updates", "sets", "drops", "crossed"} BY DEF IsReading
<1>2. DOMAIN d = DOMAIN h /\ d = [f \in DOMAIN d |-> d[f]] OBVIOUS
<1>3. d.props = h.props BY <1>1
<1>4. d.updates = h.updates BY <1>1
<1>5. d.sets = h.sets BY <1>1
<1>6. d.drops = h.drops BY <1>1
<1>7. d.crossed = x BY <1>1
<1> HIDE DEF d
<1>8. IsReading(d) BY <1>1, <1>2, FiveFields
<1> QED BY <1>3, <1>4, <1>5, <1>6, <1>7, <1>8 DEF IsReading, d

\* What is held by who sets a property.
LEMMA HeldSets ==
  ASSUME NEW h, IsReading(h), NEW s
  PROVE  [h EXCEPT !.sets = s] =
           [props |-> h.props, updates |-> h.updates, sets |-> s,
            drops |-> h.drops, crossed |-> h.crossed]
<1> DEFINE d == [h EXCEPT !.sets = s]
<1>1. DOMAIN h = {"props", "updates", "sets", "drops", "crossed"} BY DEF IsReading
<1>2. DOMAIN d = DOMAIN h /\ d = [f \in DOMAIN d |-> d[f]] OBVIOUS
<1>3. d.props = h.props BY <1>1
<1>4. d.updates = h.updates BY <1>1
<1>5. d.sets = s BY <1>1
<1>6. d.drops = h.drops BY <1>1
<1>7. d.crossed = h.crossed BY <1>1
<1> HIDE DEF d
<1>8. IsReading(d) BY <1>1, <1>2, FiveFields
<1> QED BY <1>3, <1>4, <1>5, <1>6, <1>7, <1>8 DEF IsReading, d

\* What is held by who takes properties out.
LEMMA HeldDrops ==
  ASSUME NEW h, IsReading(h), NEW g
  PROVE  [h EXCEPT !.drops = g] =
           [props |-> h.props, updates |-> h.updates, sets |-> h.sets,
            drops |-> g, crossed |-> h.crossed]
<1> DEFINE d == [h EXCEPT !.drops = g]
<1>1. DOMAIN h = {"props", "updates", "sets", "drops", "crossed"} BY DEF IsReading
<1>2. DOMAIN d = DOMAIN h /\ d = [f \in DOMAIN d |-> d[f]] OBVIOUS
<1>3. d.props = h.props BY <1>1
<1>4. d.updates = h.updates BY <1>1
<1>5. d.sets = h.sets BY <1>1
<1>6. d.drops = g BY <1>1
<1>7. d.crossed = h.crossed BY <1>1
<1> HIDE DEF d
<1>8. IsReading(d) BY <1>1, <1>2, FiveFields
<1> QED BY <1>3, <1>4, <1>5, <1>6, <1>7, <1>8 DEF IsReading, d

\* What the editor holds.
LEMMA HeldProps ==
  ASSUME NEW h, IsReading(h), NEW p
  PROVE  [h EXCEPT !.props = p] =
           [props |-> p, updates |-> h.updates, sets |-> h.sets,
            drops |-> h.drops, crossed |-> h.crossed]
<1> DEFINE d == [h EXCEPT !.props = p]
<1>1. DOMAIN h = {"props", "updates", "sets", "drops", "crossed"} BY DEF IsReading
<1>2. DOMAIN d = DOMAIN h /\ d = [f \in DOMAIN d |-> d[f]] OBVIOUS
<1>3. d.props = p BY <1>1
<1>4. d.updates = h.updates BY <1>1
<1>5. d.sets = h.sets BY <1>1
<1>6. d.drops = h.drops BY <1>1
<1>7. d.crossed = h.crossed BY <1>1
<1> HIDE DEF d
<1>8. IsReading(d) BY <1>1, <1>2, FiveFields
<1> QED BY <1>3, <1>4, <1>5, <1>6, <1>7, <1>8 DEF IsReading, d

\* A file that is not there has no mark and sets nothing.
LEMMA NothingSet == DOMAIN Props(Nothing) = {}
  BY DEF Props, GetProperties, Lines, KeysOf

\* Nor is any of its properties important.
LEMMA NoMarks == Tidy(Lines(Nothing)) /\ Important(Props(Nothing)) = {}
<1>1. Lines(Nothing) = <<>> BY DEF Lines
<1> QED BY <1>1, NothingSet DEF Tidy, IsMark, Important

\* No properties.
LEMMA NoProps == IsProps(<<>>) /\ Important(<<>>) = {} /\ DOMAIN <<>> = {}
<1>1. DOMAIN <<>> = {} OBVIOUS
<1> QED BY <1>1, FS_EmptySet DEF IsProps, Important

\* Who has read nothing.
LEMMA NothingHeld ==
  /\ NoRead = [props |-> <<>>, updates |-> {}, sets |-> <<>>, drops |-> {}, crossed |-> FALSE]
  /\ IsReading(NoRead) /\ IsHeld(NoRead)
  /\ NoRead.props = <<>> /\ NoRead.updates = {} /\ NoRead.sets = <<>>
  /\ NoRead.drops = {} /\ NoRead.crossed = FALSE
  BY NoProps DEF NoRead, IsReading, IsHeld

\* Who does nothing.
LEMMA NobodysCommand ==
  /\ IsRecord(NoCommand) /\ IsCommand(NoCommand)
  /\ NoCommand.op = "none" /\ NoCommand.step = "idle" /\ ~NoCommand.dry /\ ~NoCommand.moved
  /\ NoCommand.meta = Nothing /\ NoCommand.inputs = Nothing /\ NoCommand.text = Nothing
<1>1. Nothing \in Files BY DEF Files
<1> QED BY <1>1 DEF NoCommand, IsRecord, IsCommand, Writing, Merging

\* What a new command is.
LEMMA Begun ==
  ASSUME NEW a, NEW op, NEW dry
  PROVE  /\ Begin(a, op, dry) =
              [op |-> op, step |-> "read", dry |-> dry, moved |-> FALSE,
               meta |-> meta, inputs |-> Nothing, text |-> Nothing]
         /\ IsRecord(Begin(a, op, dry))
<1> DEFINE b == Begin(a, op, dry)
<1>1. DOMAIN b = {"op", "step", "dry", "moved", "meta", "inputs", "text"}
  BY DEF Begin, NoCommand
<1>2. b = [f \in DOMAIN b |-> b[f]] BY DEF Begin, NoCommand
<1>3. b.op = op BY DEF Begin, NoCommand
<1>4. b.step = "read" BY DEF Begin, NoCommand
<1>5. b.dry = dry BY DEF Begin, NoCommand
<1>6. b.moved = FALSE BY DEF Begin, NoCommand
<1>7. b.meta = meta BY DEF Begin, NoCommand
<1>8. b.inputs = Nothing BY DEF Begin, NoCommand
<1>9. b.text = Nothing BY DEF Begin, NoCommand
<1> HIDE DEF b
<1>10. IsRecord(b) BY <1>1, <1>2, SevenFields
<1> QED BY <1>3, <1>4, <1>5, <1>6, <1>7, <1>8, <1>9, <1>10 DEF IsRecord, b

\* A step after which a command has no file in hand.
Hot == Writing \cup Merging

Cooling(a, op, step, dry, moved, m, inputs, text, h) ==
  /\ Becomes(a, [op |-> op, step |-> step, dry |-> dry, moved |-> moved,
                 meta |-> m, inputs |-> inputs, text |-> text], h)
  /\ UNCHANGED <<layer, file, aside, original, manifest, wish, raced>>
  /\ meta' \in Metas /\ asked' = asked
  /\ orphaned => orphaned'
  /\ torn => torn'
  /\ step \notin Hot
  /\ dry \in BOOLEAN /\ moved \in BOOLEAN
  /\ step # "idle" => m \in Metas
  /\ step = "considering" => op = "settings"
  /\ step \in {"removing", "removed"} => op = "run"
  /\ text \in {Nothing, cmd[a].text}
  /\ h \in {NoRead, held[a]}

\* Such a step keeps the invariant, if a reset that moved the file still has.
LEMMA CoolingKeeps ==
  ASSUME PropertiesIInv, NEW a \in Actors,
         NEW op, NEW step, NEW dry, NEW moved, NEW m, NEW inputs, NEW text, NEW h,
         Cooling(a, op, step, dry, moved, m, inputs, text, h),
         ~torn' =>
           /\ op = "reset" /\ step \notin {"idle", "read"} =>
                Past(cmd[a]) /\ dry = cmd[a].dry /\ moved = cmd[a].moved
           /\ Past(cmd[a]) /\ cmd[a].dry => op = "reset" /\ step \notin {"idle", "read"}
  PROVE  PropertiesIInv'
<1> DEFINE c == [op |-> op, step |-> step, dry |-> dry, moved |-> moved,
                 meta |-> m, inputs |-> inputs, text |-> text]
<1>1. /\ c.op = op /\ c.step = step /\ c.dry = dry /\ c.moved = moved
      /\ c.meta = m /\ c.inputs = inputs /\ c.text = text /\ IsRecord(c)
  BY DEF IsRecord
<1>2. Becomes(a, c, h) BY DEF Cooling
<1> HIDE DEF c
<1>3. /\ UNCHANGED <<layer, file, aside, original, manifest, wish, raced>>
      /\ meta' \in Metas /\ asked' = asked
      /\ orphaned => orphaned'
      /\ torn => torn'
      /\ step \notin Hot
      /\ dry \in BOOLEAN /\ moved \in BOOLEAN
      /\ step # "idle" => m \in Metas
      /\ step = "considering" => op = "settings"
      /\ step \in {"removing", "removed"} => op = "run"
      /\ text \in {Nothing, cmd[a].text}
      /\ h \in {NoRead, held[a]}
  BY DEF Cooling
<1>4. /\ IsCommand(cmd[a]) /\ IsHeld(held[a])
  BY DEF PropertiesIInv, PropertiesTypeOK, CommandsTyped
<1>5. /\ c.step \notin Writing /\ c.step \notin Merging /\ c.step # "setting"
      /\ c.step \notin {"resolved", "diffed"} /\ c.step # "diffed"
      /\ c.step \notin {"merging", "merged"}
  BY <1>1, <1>3 DEF Hot, Writing, Merging
<1>6. IsCommand(c)
  <2>1. text \in Files BY <1>3, <1>4 DEF IsCommand, Files
  <2> QED BY <1>1, <1>3, <1>5, <2>1 DEF IsCommand
<1>7. IsHeld(h) BY <1>3, <1>4, NothingHeld
<1>8. Fits(c, h) /\ Faithful(c, h) /\ Keeps(c, h, wish) BY <1>5 DEF Fits, Faithful, Keeps
<1>9. ASSUME ~orphaned' PROVE Marks(c, h, asked')
  <2>1. Marks(cmd[a], held[a], asked) BY <1>3, <1>9 DEF PropertiesIInv, MarksAreAsked
  <2>2. Important(h.props) \subseteq asked BY <1>3, <2>1, NoProps, NothingHeld DEF Marks
  <2>3. Asked(Nothing, asked) BY NoMarks DEF Asked
  <2>4. Asked(text, asked) BY <1>3, <2>1, <2>3 DEF Marks
  <2> QED BY <1>1, <1>3, <2>2, <2>4 DEF Marks
<1>10. ASSUME ~torn' PROVE Stays(cmd[a], c) BY <1>1, <1>10 DEF Stays, Past
<1>11. Reading(a, c, h) BY <1>2, <1>3, <1>6, <1>7, <1>8, <1>9, <1>10 DEF Reading
<1> QED BY <1>11, ReadingKeeps

-----------------------------------------------------------------------------
(* The steps after which a command has no file in hand.                    *)

\* The command of who acts, and what it holds, are typed.
LEMMA WhoActs ==
  ASSUME PropertiesIInv, NEW a \in Actors
  PROVE  /\ IsRecord(cmd[a]) /\ IsCommand(cmd[a])
         /\ IsHeld(held[a]) /\ IsReading(held[a]) /\ Fits(cmd[a], held[a])
         /\ cmd[a].dry \in BOOLEAN /\ cmd[a].moved \in BOOLEAN
         /\ cmd[a].step # "idle" => cmd[a].meta \in Metas
         /\ cmd[a].step = "considering" => cmd[a].op = "settings"
         /\ meta \in Metas
         /\ held = [held EXCEPT ![a] = held[a]]
<1>1. held = [x \in Actors |-> held[x]] /\ meta \in Metas
  BY DEF PropertiesIInv, PropertiesTypeOK, CommandsTyped
<1>2. held = [held EXCEPT ![a] = held[a]] BY <1>1
<1>3. IsCommand(cmd[a]) /\ IsHeld(held[a]) /\ Fits(cmd[a], held[a])
  BY DEF PropertiesIInv, PropertiesTypeOK, CommandsTyped
<1> QED BY <1>1, <1>2, <1>3 DEF IsCommand, IsHeld

\* The texts and the history are as they were.
Still ==
  /\ UNCHANGED <<layer, file, aside, original, manifest, wish, asked, raced>>
  /\ meta' \in Metas
  /\ orphaned => orphaned'
  /\ torn => torn'

\* A command goes on, with nothing in hand.
LEMMA GoingKeeps ==
  ASSUME PropertiesIInv, NEW a \in Actors, NEW s, Goto(a, s), UNCHANGED held, Still,
         s \notin Hot \cup {"idle", "read", "considering", "removing", "removed"}, cmd[a].step # "idle",
         cmd[a].op = "reset" => Past(cmd[a])
  PROVE  PropertiesIInv'
<1> DEFINE c == cmd[a]
<1>1. /\ IsRecord(c) /\ c.dry \in BOOLEAN /\ c.moved \in BOOLEAN
      /\ c.meta \in Metas /\ held = [held EXCEPT ![a] = held[a]]
  BY WhoActs
<1>2. [c EXCEPT !.step = s] =
        [op |-> c.op, step |-> s, dry |-> c.dry, moved |-> c.moved,
         meta |-> c.meta, inputs |-> c.inputs, text |-> c.text]
  BY <1>1, WithStep
<1>3. cmd' = [cmd EXCEPT ![a] = [c EXCEPT !.step = s]] BY DEF Goto
<1> HIDE DEF c
<1>4. Becomes(a, [op |-> c.op, step |-> s, dry |-> c.dry, moved |-> c.moved,
                  meta |-> c.meta, inputs |-> c.inputs, text |-> c.text], held[a])
  BY <1>1, <1>2, <1>3 DEF Becomes
<1>5. Cooling(a, c.op, s, c.dry, c.moved, c.meta, c.inputs, c.text, held[a])
  BY <1>1, <1>4 DEF Cooling, Still, c
<1>6. /\ c.op = "reset" /\ s \notin {"idle", "read"} =>
           Past(cmd[a]) /\ c.dry = cmd[a].dry /\ c.moved = cmd[a].moved
      /\ Past(cmd[a]) /\ cmd[a].dry => c.op = "reset" /\ s \notin {"idle", "read"}
  BY DEF c, Past
<1> QED BY <1>5, <1>6, CoolingKeeps

\* A command ends; a dry reset that leaves the file away tears it.
LEMMA LeavingKeeps ==
  ASSUME PropertiesIInv, NEW a \in Actors, Leave(a), Still,
         Past(cmd[a]) /\ cmd[a].dry => torn'
  PROVE  PropertiesIInv'
<1> DEFINE n == NoCommand
<1>1. /\ IsRecord(n) /\ n.op = "none" /\ n.step = "idle" /\ n.dry = FALSE /\ n.moved = FALSE
      /\ n.meta = Nothing /\ n.inputs = Nothing /\ n.text = Nothing
  BY NobodysCommand
<1>2. cmd' = [cmd EXCEPT ![a] = n] /\ held' = [held EXCEPT ![a] = NoRead] BY DEF Leave
<1> HIDE DEF n
<1>3. Becomes(a, [op |-> "none", step |-> "idle", dry |-> FALSE, moved |-> FALSE,
                  meta |-> Nothing, inputs |-> Nothing, text |-> Nothing], NoRead)
  BY <1>1, <1>2 DEF Becomes, IsRecord
<1>4. "idle" \notin Hot BY DEF Hot, Writing, Merging
<1>5. Cooling(a, "none", "idle", FALSE, FALSE, Nothing, Nothing, Nothing, NoRead)
  BY <1>3, <1>4 DEF Cooling, Still
<1> QED BY <1>5, CoolingKeeps

\* A command begins, or another in its place.
LEMMA BeginningKeeps ==
  ASSUME PropertiesIInv, NEW a \in Actors, NEW c, IsRecord(c), Becomes(a, c, held[a]),
         c.dry \in BOOLEAN, c.moved = FALSE, c.meta \in Metas, c.text = Nothing,
         Still, ~Past(cmd[a]), c.step \notin Hot \cup {"idle", "removing", "removed"},
         c.step = "considering" => c.op = "settings", c.op = "reset" => c.step = "read"
  PROVE  PropertiesIInv'
<1>1. Becomes(a, [op |-> c.op, step |-> c.step, dry |-> c.dry, moved |-> c.moved,
                  meta |-> c.meta, inputs |-> c.inputs, text |-> c.text], held[a])
  BY DEF IsRecord
<1>2. Cooling(a, c.op, c.step, c.dry, c.moved, c.meta, c.inputs, c.text, held[a])
  BY <1>1 DEF Cooling, Still
<1> QED BY <1>2, CoolingKeeps

\* A fresh command, and what it is.
IsFresh(c, op, step, m) ==
  /\ IsRecord(c) /\ c.op = op /\ c.step = step /\ c.dry \in BOOLEAN /\ c.moved = FALSE
  /\ c.meta = m /\ c.inputs = Nothing /\ c.text = Nothing

\* A command that begins.
LEMMA BegunFresh ==
  ASSUME NEW a, NEW op, NEW dry \in BOOLEAN
  PROVE  IsFresh(Begin(a, op, dry), op, "read", meta)
<1> DEFINE b == Begin(a, op, dry)
<1>1. /\ IsRecord(b)
      /\ b = [op |-> op, step |-> "read", dry |-> dry, moved |-> FALSE,
              meta |-> meta, inputs |-> Nothing, text |-> Nothing]
  BY Begun
<1> HIDE DEF b
<1>2. /\ b.op = op /\ b.step = "read" /\ b.dry \in BOOLEAN /\ b.moved = FALSE
      /\ b.meta = meta /\ b.inputs = Nothing /\ b.text = Nothing
  BY <1>1
<1>3. IsFresh(b, op, "read", meta) BY <1>1, <1>2 DEF IsFresh
<1> QED BY <1>3 DEF b

\* A command that begins at another step.
LEMMA BegunAt ==
  ASSUME NEW a, NEW op, NEW s
  PROVE  IsFresh([Begin(a, op, FALSE) EXCEPT !.step = s], op, s, meta)
<1> DEFINE b == Begin(a, op, FALSE)
           d == [b EXCEPT !.step = s]
<1>1. IsFresh(b, op, "read", meta) BY BegunFresh
<1> HIDE DEF b
<1>2. d = [op |-> b.op, step |-> s, dry |-> b.dry, moved |-> b.moved,
           meta |-> b.meta, inputs |-> b.inputs, text |-> b.text]
  BY <1>1, WithStep DEF IsFresh
<1> HIDE DEF d
<1>3. IsFresh(d, op, s, meta) BY <1>1, <1>2 DEF IsFresh, IsRecord
<1> QED BY <1>3 DEF b, d

\* A command that begins with other metadata.
LEMMA BegunOn ==
  ASSUME NEW a, NEW op, NEW m
  PROVE  IsFresh([Begin(a, op, FALSE) EXCEPT !.meta = m], op, "read", m)
<1> DEFINE b == Begin(a, op, FALSE)
           d == [b EXCEPT !.meta = m]
<1>1. IsFresh(b, op, "read", meta) BY BegunFresh
<1> HIDE DEF b
<1>2. d = [op |-> b.op, step |-> b.step, dry |-> b.dry, moved |-> b.moved,
           meta |-> m, inputs |-> b.inputs, text |-> b.text]
  BY <1>1, WithMeta DEF IsFresh
<1> HIDE DEF d
<1>3. IsFresh(d, op, "read", m) BY <1>1, <1>2 DEF IsFresh, IsRecord
<1> QED BY <1>3 DEF b, d

\* Commands that do not move the file.
LEMMA NotPast ==
  ASSUME NEW c, c.step \in {"idle", "read"} \/ c.op # "reset"
  PROVE  ~Past(c)
  BY DEF Past

\* `ldm run` begins.
LEMMA RunKeeps ==
  ASSUME PropertiesIInv, NEW a \in Actors, NEW db \in Databases, Run(a, db)
  PROVE  PropertiesIInv'
<1> DEFINE c == [Begin(a, "run", FALSE) EXCEPT !.meta = meta']
<1>1. /\ cmd[a].step = "idle" /\ meta' = [meta EXCEPT !.db = db]
      /\ cmd' = [cmd EXCEPT ![a] = c]
      /\ UNCHANGED <<layer, file, aside, original, manifest, held, history>>
  BY DEF Run, Idle
<1>2. meta \in Metas /\ held = [held EXCEPT ![a] = held[a]] BY WhoActs
<1>3. meta' \in Metas BY <1>1, <1>2 DEF Metas
<1>4. IsFresh(c, "run", "read", meta') BY BegunOn
<1> HIDE DEF c
<1>5. Becomes(a, c, held[a]) BY <1>1, <1>2 DEF Becomes
<1>6. Still BY <1>1, <1>3 DEF Still, history
<1>7. ~Past(cmd[a]) BY <1>1, NotPast
<1> QED BY <1>3, <1>4, <1>5, <1>6, <1>7, BeginningKeeps DEF IsFresh, Hot, Writing, Merging

\* A rebuild or a reset begins.
LEMMA AskKeeps ==
  ASSUME PropertiesIInv, NEW a \in Actors, NEW op, NEW dry \in BOOLEAN, Ask(a, op, dry)
  PROVE  PropertiesIInv'
<1> DEFINE c == Begin(a, op, dry)
<1>1. /\ cmd[a].step = "idle"
      /\ cmd' = [cmd EXCEPT ![a] = c]
      /\ UNCHANGED <<files, held, history>>
  BY DEF Ask, Idle
<1>2. meta \in Metas /\ held = [held EXCEPT ![a] = held[a]] BY WhoActs
<1>3. meta \in Metas BY <1>2
<1>4. IsFresh(c, op, "read", meta) BY BegunFresh
<1> HIDE DEF c
<1>5. Becomes(a, c, held[a]) BY <1>1, <1>2 DEF Becomes
<1>6. Still BY <1>1, <1>3 DEF Still, files, history
<1>7. ~Past(cmd[a]) BY <1>1, NotPast
<1> QED BY <1>3, <1>4, <1>5, <1>6, <1>7, BeginningKeeps DEF IsFresh, Hot, Writing, Merging

\* The user is asked.
LEMMA ConsiderKeeps ==
  ASSUME PropertiesIInv, NEW a \in Actors, Consider(a)
  PROVE  PropertiesIInv'
<1> DEFINE c == [Begin(a, "settings", FALSE) EXCEPT !.step = "considering"]
<1>1. /\ cmd[a].step = "idle"
      /\ cmd' = [cmd EXCEPT ![a] = c]
      /\ UNCHANGED <<files, held, history>>
  BY DEF Consider, Idle
<1>2. meta \in Metas /\ held = [held EXCEPT ![a] = held[a]] BY WhoActs
<1>3. meta \in Metas BY <1>2
<1>4. IsFresh(c, "settings", "considering", meta) BY BegunAt
<1> HIDE DEF c
<1>5. Becomes(a, c, held[a]) BY <1>1, <1>2 DEF Becomes
<1>6. Still BY <1>1, <1>3 DEF Still, files, history
<1>7. ~Past(cmd[a]) BY <1>1, NotPast
<1> QED BY <1>3, <1>4, <1>5, <1>6, <1>7, BeginningKeeps DEF IsFresh, Hot, Writing, Merging

\* Another command begins with a copy of the metadata.
LEMMA BegunWith ==
  ASSUME PropertiesIInv, NEW a \in Actors, NEW op, cmd[a].step # "idle", ~Past(cmd[a]),
         op # "reset",
         meta' = cmd[a].meta,
         cmd' = [cmd EXCEPT ![a] = [Begin(a, op, FALSE) EXCEPT !.meta = meta']],
         UNCHANGED <<layer, file, aside, original, manifest, held, history, begun>>
  PROVE  PropertiesIInv'
<1> DEFINE c == [Begin(a, op, FALSE) EXCEPT !.meta = meta']
<1>1. cmd' = [cmd EXCEPT ![a] = c] OBVIOUS
<1>2. meta' \in Metas /\ held = [held EXCEPT ![a] = held[a]] BY WhoActs
<1>3. meta' \in Metas BY <1>2
<1>4. IsFresh(c, op, "read", meta') BY BegunOn
<1> HIDE DEF c
<1>5. Becomes(a, c, held[a]) BY <1>1, <1>2 DEF Becomes
<1>6. Still BY <1>3 DEF Still, history
<1> QED BY <1>3, <1>4, <1>5, <1>6, BeginningKeeps DEF IsFresh, Hot, Writing, Merging

\* `ldm ssl`, and a run after it.
LEMMA SslKeeps ==
  ASSUME PropertiesIInv, NEW a \in Actors, SslMode(a) \/ Restart(a)
  PROVE  PropertiesIInv'
<1>1. CASE SslMode(a)
  <2>1. cmd[a].step = "considering" BY <1>1 DEF SslMode
  <2>2. cmd[a].op = "settings" BY <2>1, WhoActs
  <2>3. ~Past(cmd[a]) BY <2>2, NotPast
  <2>4. /\ meta' = cmd[a].meta
        /\ cmd' = [cmd EXCEPT ![a] = [Begin(a, "ssl", FALSE) EXCEPT !.meta = meta']]
        /\ UNCHANGED <<layer, file, aside, original, manifest, held, history, begun>>
    BY <1>1 DEF SslMode
  <2> QED BY <2>1, <2>3, <2>4, BegunWith
<1>2. CASE Restart(a)
  <2>1. cmd[a].step = "synced" /\ cmd[a].op = "ssl" BY <1>2 DEF Restart, At
  <2>3. ~Past(cmd[a]) BY <2>1, NotPast
  <2>4. /\ meta' = cmd[a].meta
        /\ cmd' = [cmd EXCEPT ![a] = [Begin(a, "run", FALSE) EXCEPT !.meta = meta']]
        /\ UNCHANGED <<layer, file, aside, original, manifest, held, history, begun>>
    BY <1>2 DEF Restart
  <2> QED BY <2>1, <2>3, <2>4, BegunWith
<1> QED BY <1>1, <1>2

\* `ldm env` goes on into a run.
LEMMA SetEnvKeeps ==
  ASSUME PropertiesIInv, NEW a \in Actors, SetEnv(a)
  PROVE  PropertiesIInv'
<1> DEFINE c == cmd[a]
<1>1. /\ c.step = "considering" /\ meta' = c.meta
      /\ cmd' = [cmd EXCEPT ![a] = [c EXCEPT !.op = "run", !.step = "read"]]
      /\ UNCHANGED <<layer, file, aside, original, manifest, held, history, begun>>
  BY DEF SetEnv
<1>2. /\ IsRecord(c) /\ c.dry \in BOOLEAN /\ c.moved \in BOOLEAN
      /\ c.meta \in Metas /\ held = [held EXCEPT ![a] = held[a]] /\ c.op = "settings"
  BY <1>1, WhoActs
<1>3. ~Past(cmd[a]) BY <1>2, NotPast
<1> HIDE DEF c
<1>4. [c EXCEPT !.op = "run", !.step = "read"] =
        [op |-> "run", step |-> "read", dry |-> c.dry, moved |-> c.moved,
         meta |-> c.meta, inputs |-> c.inputs, text |-> c.text]
  <2>1. IsRecord(c) BY <1>2
  <2> QED BY <2>1, WithOp
<1>5. Becomes(a, [op |-> "run", step |-> "read", dry |-> c.dry, moved |-> c.moved,
                  meta |-> c.meta, inputs |-> c.inputs, text |-> c.text], held[a])
  BY <1>1, <1>2, <1>4 DEF Becomes
<1>6. "read" \notin Hot BY DEF Hot, Writing, Merging
<1>7. Cooling(a, "run", "read", c.dry, c.moved, c.meta, c.inputs, c.text, held[a])
  BY <1>1, <1>2, <1>5, <1>6 DEF Cooling, history, c
<1> QED BY <1>3, <1>7, CoolingKeeps

\* The settings are reverted, or the editor or another command is at its end.
LEMMA EndsKeep ==
  ASSUME PropertiesIInv, NEW a \in Actors,
         RevertSettings(a) \/ CloseEditor(a) \/ End(a) \/ Kill(a)
  PROVE  PropertiesIInv'
<1>1. meta \in Metas BY WhoActs
<1>2. CASE RevertSettings(a)
  <2>1. /\ cmd[a].step = "considering" /\ Leave(a)
        /\ UNCHANGED <<layer, file, aside, original, manifest, history, begun>>
    BY <1>2 DEF RevertSettings
  <2>2. PICK db \in Databases : meta' = [cmd[a].meta EXCEPT !.db = db] BY <1>2 DEF RevertSettings
  <2>3. cmd[a].meta \in Metas /\ cmd[a].op = "settings" BY <2>1, WhoActs
  <2>4. meta' \in Metas BY <2>2, <2>3 DEF Metas
  <2>5. Still BY <2>1, <2>4 DEF Still, history
  <2>6. ~Past(cmd[a]) BY <2>3, NotPast
  <2> QED BY <2>1, <2>5, <2>6, LeavingKeeps
<1>3. CASE CloseEditor(a)
  <2>1. cmd[a].op = "edit" /\ Leave(a) /\ UNCHANGED <<files, history, begun>>
    BY <1>3 DEF CloseEditor, At
  <2>2. Still BY <1>1, <2>1 DEF Still, files, history
  <2>3. ~Past(cmd[a]) BY <2>1, NotPast
  <2> QED BY <2>1, <2>2, <2>3, LeavingKeeps
<1>4. CASE End(a)
  <2>1. cmd[a].op # "reset" /\ Leave(a) /\ UNCHANGED <<files, history, begun>>
    BY <1>4 DEF End, At
  <2>2. Still BY <1>1, <2>1 DEF Still, files, history
  <2>3. ~Past(cmd[a]) BY <2>1, NotPast
  <2> QED BY <2>1, <2>2, <2>3, LeavingKeeps
<1>5. CASE Kill(a)
  <2>1. /\ cmd[a].step # "idle" /\ torn' = (torn \/ (a \in Resetting /\ cmd[a].dry))
        /\ Leave(a) /\ UNCHANGED <<files, wish, asked, raced, orphaned, begun>>
    BY <1>5 DEF Kill, Idle
  <2>2. Still BY <1>1, <2>1 DEF Still, files
  <2>3. Past(cmd[a]) /\ cmd[a].dry => torn' BY <2>1 DEF Past, Resetting, Idle
  <2> QED BY <2>1, <2>2, <2>3, LeavingKeeps
<1> QED BY <1>2, <1>3, <1>4, <1>5

\* The copy of the metadata is written.
LEMMA SaveKeeps ==
  ASSUME PropertiesIInv, NEW a \in Actors, Save(a)
  PROVE  PropertiesIInv'
<1>1. /\ cmd[a].step \in {"synced", "composed"} /\ meta' = cmd[a].meta
      /\ IF cmd[a].op = "reset" THEN Goto(a, "saved") /\ UNCHANGED held ELSE Leave(a)
      /\ UNCHANGED <<layer, file, aside, original, manifest, history, begun>>
  BY DEF Save, At
<1>2. cmd[a].step # "idle" /\ cmd[a].step # "read" BY <1>1
<1>3. meta' \in Metas BY <1>1, <1>2, WhoActs
<1>4. Still BY <1>1, <1>3 DEF Still, history
<1>5. CASE cmd[a].op = "reset"
  <2>1. Goto(a, "saved") /\ UNCHANGED held BY <1>1, <1>5
  <2>2. Past(cmd[a]) BY <1>2, <1>5 DEF Past
  <2>3. "saved" \notin Hot \cup {"idle", "read", "considering", "removing", "removed"} BY DEF Hot, Writing, Merging
  <2> QED BY <1>2, <1>4, <2>1, <2>2, <2>3, GoingKeeps
<1>6. CASE cmd[a].op # "reset"
  <2>1. Leave(a) BY <1>1, <1>6
  <2>2. ~Past(cmd[a]) BY <1>6, NotPast
  <2> QED BY <1>4, <2>1, <2>2, LeavingKeeps
<1> QED BY <1>5, <1>6

\* A sync is refused, or only said.
LEMMA RefusalsKeep ==
  ASSUME PropertiesIInv, NEW a \in Actors, Refuse(a) \/ Announce(a)
  PROVE  PropertiesIInv'
<1>1. /\ cmd[a].step = "hashed"
      /\ Goto(a, "dead") \/ Goto(a, "synced")
      /\ UNCHANGED <<files, held, history, begun>>
  BY DEF Refuse, Announce
<1>2. meta \in Metas BY WhoActs
<1>3. Still /\ UNCHANGED held BY <1>1, <1>2 DEF Still, files, history
<1>4. cmd[a].op = "reset" => Past(cmd[a]) BY <1>1 DEF Past
<1>5. /\ "dead" \notin Hot \cup {"idle", "read", "considering", "removing", "removed"}
      /\ "synced" \notin Hot \cup {"idle", "read", "considering", "removing", "removed"}
  BY DEF Hot, Writing, Merging
<1>6. cmd[a].step # "idle" BY <1>1
<1>7. CASE Goto(a, "dead") BY <1>3, <1>4, <1>5, <1>6, <1>7, GoingKeeps
<1>8. CASE Goto(a, "synced") BY <1>3, <1>4, <1>5, <1>6, <1>8, GoingKeeps
<1> QED BY <1>1, <1>7, <1>8

\* The login that is recorded is a property's value, or the default.
LEMMA LoginIsMeta ==
  ASSUME PropertiesIInv, NEW a \in Actors, cmd[a].step # "idle"
  PROVE  Login(cmd[a], file) \in Metas
<1> DEFINE m == cmd[a].meta
           login == IF LoginKey \in KeysOf(file) THEN GetProperties(file)[LoginKey].value ELSE "default"
<1>1. m \in Metas BY WhoActs
<1>2. CASE cmd[a].dry \/ file = Nothing BY <1>1, <1>2 DEF Login
<1>3. CASE ~(cmd[a].dry \/ file = Nothing)
  <2>1. file \in Texts BY <1>3 DEF PropertiesIInv, PropertiesTypeOK, TextsTyped, Files
  <2>2. IsProps(GetProperties(file)) BY <2>1, TextHasProps
  <2>3. DOMAIN GetProperties(file) = KeysOf(file) BY DEF GetProperties
  <2>4. LoginKey \in KeysOf(file) => GetProperties(file)[LoginKey].value \in Value
    <3>1. ASSUME NEW e, e \in [value : Value, important : BOOLEAN] PROVE e.value \in Value
      BY <3>1
    <3> QED BY <2>2, <2>3, <3>1 DEF IsProps
  <2>5. login \in Value \cup {"default", Nothing} BY <2>4
  <2> HIDE DEF login
  <2>6. Login(cmd[a], file) = [cmd[a].meta EXCEPT !.login = login] BY <1>3 DEF Login, login
  <2> QED BY <1>1, <2>5, <2>6 DEF Metas
<1> QED BY <1>2, <1>3

\* Who syncs has moved the file, if he resets it.
LEMMA WhoSyncs ==
  ASSUME NEW a \in Actors, Syncs(a)
  PROVE  cmd[a].step # "idle" /\ (cmd[a].op = "reset" => Past(cmd[a]))
  BY DEF Syncs, At, Past

\* A sync is skipped.
LEMMA BypassKeeps ==
  ASSUME PropertiesIInv, NEW a \in Actors, Bypass(a)
  PROVE  PropertiesIInv'
<1> DEFINE c == cmd[a]
           m == Login(cmd[a], file)
<1>1. /\ Syncs(a)
      /\ cmd' = [cmd EXCEPT ![a] = [c EXCEPT !.step = "synced", !.meta = m]]
      /\ UNCHANGED <<files, held, history, begun>>
  BY DEF Bypass
<1>2. c.step # "idle" /\ (c.op = "reset" => Past(c)) BY <1>1, WhoSyncs
<1>3. /\ IsRecord(c) /\ c.dry \in BOOLEAN /\ c.moved \in BOOLEAN
      /\ meta \in Metas /\ held = [held EXCEPT ![a] = held[a]]
  BY WhoActs
<1>4. m \in Metas BY <1>2, LoginIsMeta
<1> HIDE DEF m
<1>5. [c EXCEPT !.step = "synced", !.meta = m] =
        [op |-> c.op, step |-> "synced", dry |-> c.dry, moved |-> c.moved,
         meta |-> m, inputs |-> c.inputs, text |-> c.text]
  BY <1>3, WithStepAndMeta
<1> HIDE DEF c
<1>6. Becomes(a, [op |-> c.op, step |-> "synced", dry |-> c.dry, moved |-> c.moved,
                  meta |-> m, inputs |-> c.inputs, text |-> c.text], held[a])
  BY <1>1, <1>3, <1>5 DEF Becomes
<1>7. "synced" \notin Hot BY DEF Hot, Writing, Merging
<1>8. Cooling(a, c.op, "synced", c.dry, c.moved, m, c.inputs, c.text, held[a])
  BY <1>1, <1>3, <1>4, <1>6, <1>7 DEF Cooling, files, history, c
<1>9. /\ c.op = "reset" /\ "synced" \notin {"idle", "read"} =>
           Past(cmd[a]) /\ c.dry = cmd[a].dry /\ c.moved = cmd[a].moved
      /\ Past(cmd[a]) /\ cmd[a].dry => c.op = "reset" /\ "synced" \notin {"idle", "read"}
  BY <1>2 DEF c, Past
<1> QED BY <1>8, <1>9, CoolingKeeps

-----------------------------------------------------------------------------
(* The steps that read.                                                    *)

\* What metadata asks for is properties.
LEMMA MetasHosts ==
  ASSUME NEW m \in Metas
  PROVE  IsHost(HostUpdates(m)) /\ IsHost(Injected(m))
<1>1. IsHost(HostUpdates(m))
  <2>1. CASE m.flag
    <3>1. IsFiniteSet({FlagKey}) BY FS_Singleton
    <3> QED BY <2>1, <3>1, KeysAssumption DEF HostUpdates, IsHost
  <2>2. CASE ~m.flag
    <3>1. DOMAIN HostUpdates(m) = {} BY <2>2 DEF HostUpdates
    <3> QED BY <3>1, FS_EmptySet DEF IsHost
  <2> QED BY <2>1, <2>2
<1>2. IsHost(Injected(m))
  <2>1. CASE m.db = "hypersonic"
    <3>1. DOMAIN Injected(m) = {} BY <2>1 DEF Injected
    <3> QED BY <3>1, FS_EmptySet DEF IsHost
  <2>2. CASE m.db # "hypersonic"
    <3>1. IsFiniteSet({DriverKey}) BY FS_Singleton
    <3>2. m.db \in Value BY KeysAssumption DEF Metas
    <3> QED BY <2>2, <3>1, <3>2, KeysAssumption DEF Injected, IsHost
  <2> QED BY <2>1, <2>2
<1> QED BY <1>1, <1>2

\* One property, set.
LEMMA OneSet ==
  ASSUME NEW f \in Files, NEW k \in Key, NEW v \in Value, NEW important
  PROVE  LET new == UpdatePortalExt(Lines(f), [x \in {k} |-> v], important)
         IN  /\ IsUpdate(new, f, [x \in {k} |-> v], important)
             /\ new \in Files /\ new # Nothing
             /\ GetProperties(new) = Props(new)
<1> DEFINE u == [x \in {k} |-> v]
           new == UpdatePortalExt(Lines(f), u, important)
<1>1. DOMAIN u = {k} /\ u[k] = v OBVIOUS
<1>2. IsHost(u) BY <1>1, FS_Singleton DEF IsHost
<1>3. new = Update(f, u, important) BY <1>1 DEF Update
<1> HIDE DEF u
<1>4. IsUpdate(Update(f, u, important), f, u, important) BY <1>2, UpdateFile
<1> HIDE DEF new
<1>5. IsUpdate(new, f, u, important) BY <1>3, <1>4
<1>6. new \in Files /\ DOMAIN Props(new) = DOMAIN Props(f) \cup {k} BY <1>1, <1>5 DEF IsUpdate
<1>7. DOMAIN Props(Nothing) = {} BY DEF Props, GetProperties, Lines, KeysOf
<1>8. new # Nothing BY <1>6, <1>7
<1>9. Lines(new) = new BY <1>8 DEF Lines
<1>10. GetProperties(new) = Props(new) BY <1>9 DEF Props
<1> QED BY <1>5, <1>6, <1>8, <1>10 DEF new, u

\* What is known of the files, by who acts.
LEMMA TheFile ==
  ASSUME PropertiesIInv, NEW a \in Actors
  PROVE  /\ IsLayers(layer) /\ file \in Files /\ aside \in Files /\ original \in Files
         /\ IsProps(Props(file)) /\ Lines(file) \in Texts
         /\ ~orphaned =>
              /\ Asked(file, asked) /\ Asked(aside, asked) /\ Asked(original, asked)
              /\ Important(Seed) \subseteq asked
              /\ \A l \in Shared : Important(layer[l]) \subseteq asked
              /\ Marks(cmd[a], held[a], asked)
              /\ Faithful(cmd[a], held[a])
         /\ ~torn /\ Calm => HonouredBy(file, wish) /\ Keeps(cmd[a], held[a], wish)
<1>1. IsLayers(layer) /\ file \in Files /\ aside \in Files /\ original \in Files
  BY DEF PropertiesIInv, PropertiesTypeOK, TextsTyped
<1>2. IsProps(Props(file)) /\ Lines(file) \in Texts BY <1>1, FileLines
<1>3. ~orphaned =>
        /\ Asked(file, asked) /\ Asked(aside, asked) /\ Asked(original, asked)
        /\ Important(Seed) \subseteq asked
        /\ \A l \in Shared : Important(layer[l]) \subseteq asked
        /\ Marks(cmd[a], held[a], asked)
  BY DEF PropertiesIInv, MarksAreAsked
<1>4. ~orphaned => Faithful(cmd[a], held[a]) BY DEF PropertiesIInv, RecordsAgree
<1>5. ~torn /\ Calm => HonouredBy(file, wish) /\ Keeps(cmd[a], held[a], wish)
  BY DEF PropertiesIInv, WishesAreKept
<1> QED BY <1>1, <1>2, <1>3, <1>4, <1>5

\* What the user set, where nothing overrules it.
Upheld(ls, props, host, k) ==
  /\ k \in DOMAIN props /\ k \notin DOMAIN host
  /\ props[k].important \/
       \A p \in {Seed} \cup {ls[l] : l \in Shared} : k \in DOMAIN p => ~p[k].important
  /\ k \in DOMAIN Baseline(ls) /\ props[k] = Baseline(ls)[k] =>
       \A l \in {"global", "local"} : k \notin DOMAIN ls[l]

\* The cascade leaves it as it is.
LEMMA UpheldStays ==
  ASSUME NEW ls, IsLayers(ls), NEW props, IsProps(props), NEW host, NEW k,
         Upheld(ls, props, host, k)
  PROVE  Resolved(ls, props, host)[k] = props[k]
<1> DEFINE win == Resolved(ls, props, host)
           stack == Layers(ls, props)
           custom == ProjectCustom(ls, props)
           base == Baseline(ls)
<1>1. IsResolved(win, stack, host) BY ResolvedFields
<1>2. /\ \A x : Defining(stack, x) = {i \in 1..5 : x \in DOMAIN stack[i]}
      /\ DOMAIN props \subseteq AllKeys(stack)
  BY AllKeysFields
<1>3. /\ DOMAIN stack = 1..5
      /\ stack[1] = Seed /\ stack[2] = ls["ldmp"] /\ stack[3] = ls["global"]
      /\ stack[4] = ls["local"] /\ stack[5] = custom
  BY LayerFields
<1>4. \A i \in 1..5 : \A x \in DOMAIN stack[i] :
        x \in Key /\ stack[i][x] \in [value : Value, important : BOOLEAN]
  BY LayersAreProps
<1>5. IsCustom(custom, ls, props) BY CustomFields
<1>6. /\ DOMAIN base = DOMAIN ls["ldmp"] \cup DOMAIN Seed
      /\ \A x \in DOMAIN base : base[x] = IF x \in DOMAIN ls["ldmp"] THEN ls["ldmp"][x] ELSE Seed[x]
  BY BaselineFields
<1> HIDE DEF win, stack, custom, base
<1>7. k \in DOMAIN props /\ k \notin DOMAIN host BY DEF Upheld
<1>8. \A j \in Defining(stack, k) : stack[j][k].important \in BOOLEAN
  <2>1. ASSUME NEW s, s \in [value : Value, important : BOOLEAN] PROVE s.important \in BOOLEAN
    BY <2>1
  <2> QED BY <1>2, <1>4, <2>1
<1>9. props[k].important \/ \A j \in 1..4 : k \in DOMAIN stack[j] => ~stack[j][k].important
  <2>1. SUFFICES ASSUME ~props[k].important, NEW j \in 1..4, k \in DOMAIN stack[j]
                 PROVE  ~stack[j][k].important
    OBVIOUS
  <2>2. stack[j] \in {Seed} \cup {ls[l] : l \in Shared}
    <3>1. "ldmp" \in Shared /\ "global" \in Shared /\ "local" \in Shared BY DEF Shared
    <3>2. j = 1 \/ j = 2 \/ j = 3 \/ j = 4 OBVIOUS
    <3> QED BY <1>3, <3>1, <3>2
  <2> QED BY <2>1, <2>2 DEF Upheld
<1>10. \E i \in Defining(stack, k) : Wins(stack, k, i) /\ stack[i][k] = props[k]
  <2>1. CASE k \in DOMAIN custom
    <3>1. 5 \in Defining(stack, k) /\ stack[5][k] = props[k] BY <1>2, <1>3, <1>5, <2>1 DEF IsCustom
    <3>2. \A j \in Defining(stack, k) : j \in 1..5 /\ k \in DOMAIN stack[j] BY <1>2
    <3>3. props[k].important \/ \A j \in Defining(stack, k) : ~stack[j][k].important
      <4>1. SUFFICES ASSUME ~props[k].important, NEW j \in Defining(stack, k)
                     PROVE  ~stack[j][k].important
        OBVIOUS
      <4>2. j = 5 \/ j \in 1..4 BY <3>2
      <4> QED BY <1>9, <3>1, <3>2, <4>1, <4>2
    <3>4. Wins(stack, k, 5) BY <3>1, <3>2, <3>3 DEF Wins
    <3> QED BY <3>1, <3>4
  <2>2. CASE k \notin DOMAIN custom
    <3>1. k \in DOMAIN base /\ props[k] = base[k] BY <1>5, <1>7, <2>2 DEF IsCustom, base
    <3>2. k \notin DOMAIN stack[3] /\ k \notin DOMAIN stack[4] /\ k \notin DOMAIN stack[5]
      BY <1>3, <2>2, <3>1 DEF Upheld, base
    <3>3. \A j \in Defining(stack, k) : (j = 1 \/ j = 2) /\ k \in DOMAIN stack[j]
      BY <1>2, <3>2
    <3>4. PICK i \in {1, 2} : /\ k \in DOMAIN stack[i] /\ stack[i][k] = props[k]
                              /\ i = 1 => k \notin DOMAIN stack[2]
      <4>1. CASE k \in DOMAIN ls["ldmp"] BY <1>3, <1>6, <3>1, <4>1
      <4>2. CASE k \notin DOMAIN ls["ldmp"] BY <1>3, <1>6, <3>1, <4>2
      <4> QED BY <4>1, <4>2
    <3>5. i \in Defining(stack, k) BY <1>2, <3>4
    <3>6. \A j \in Defining(stack, k) : j <= i BY <3>3, <3>4
    <3>7. props[k].important \/ \A j \in Defining(stack, k) : ~stack[j][k].important
      BY <1>9, <3>3
    <3>8. Wins(stack, k, i) BY <3>4, <3>5, <3>6, <3>7 DEF Wins
    <3> QED BY <3>4, <3>5, <3>8
  <2> QED BY <2>1, <2>2
<1>11. Winner(stack, k) = props[k]
  <2>1. DOMAIN stack \subseteq 1..6 BY <1>3
  <2> QED BY <1>8, <1>10, <2>1, WinnerWins
<1>12. k \in AllKeys(stack) \ DOMAIN host BY <1>2, <1>7
<1>13. win[k] = props[k] BY <1>1, <1>11, <1>12 DEF IsResolved
<1> QED BY <1>13 DEF win

\* The layers and the file are read for their hashes.
LEMMA HashKeeps ==
  ASSUME PropertiesIInv, NEW a \in Actors, Hash(a)
  PROVE  PropertiesIInv'
<1> DEFINE o == cmd[a]
           i == Inputs(layer, file, HostOf(o))
           c == [op |-> o.op, step |-> "hashed", dry |-> o.dry, moved |-> o.moved,
                 meta |-> o.meta, inputs |-> i, text |-> o.text]
           h == held[a]
<1>1. /\ Syncs(a)
      /\ cmd' = [cmd EXCEPT ![a] = [o EXCEPT !.step = "hashed", !.inputs = i]]
      /\ UNCHANGED <<files, held, history, begun>>
  BY DEF Hash
<1>2. o.step # "idle" /\ (o.op = "reset" => Past(o)) BY <1>1, WhoSyncs
<1>3. /\ IsRecord(o) /\ IsCommand(o) /\ IsHeld(h) /\ o.dry \in BOOLEAN /\ o.moved \in BOOLEAN
      /\ o.meta \in Metas /\ meta \in Metas /\ held = [held EXCEPT ![a] = h]
  BY <1>2, WhoActs
<1>4. [o EXCEPT !.step = "hashed", !.inputs = i] = c
  <2>1. IsRecord(o) BY <1>3
  <2> HIDE DEF o, i
  <2> QED BY <2>1, WithInputs
<1>5. /\ IsRecord(c) /\ c.op = o.op /\ c.step = "hashed" /\ c.dry = o.dry /\ c.moved = o.moved
      /\ c.meta = o.meta /\ c.inputs = i /\ c.text = o.text
  BY DEF IsRecord
<1>6. i.layers = layer /\ i.target = file /\ i.host = HostUpdates(o.meta)
  BY DEF Inputs, HostOf
<1>7. IsInputs(i)
  <2>1. IsLayers(layer) BY TheFile
  <2>2. IsHost(HostUpdates(o.meta)) BY <1>3, MetasHosts
  <2> QED BY <1>6, <2>1, <2>2 DEF IsInputs, HostOf
<1> HIDE DEF c, h, i, o
<1>8. Becomes(a, c, h) BY <1>1, <1>3, <1>4 DEF Becomes
<1>9. IsCommand(c)
  <2>1. o.text \in Files BY <1>3 DEF IsCommand
  <2>2. c.inputs.host = HostOf(c) BY <1>5, <1>6 DEF HostOf
  <2>3. c.step \notin Writing BY <1>5 DEF Writing
  <2> QED BY <1>3, <1>5, <1>7, <2>1, <2>2, <2>3 DEF IsCommand
<1>10. Fits(c, h) /\ Faithful(c, h) /\ Keeps(c, h, wish)
  BY <1>5 DEF Fits, Faithful, Keeps, Writing
<1>11. ~orphaned' => Marks(c, h, asked')
  <2>1. ~orphaned => Marks(o, h, asked) BY TheFile DEF o, h
  <2> QED BY <1>1, <1>5, <2>1 DEF Marks, history
<1>12. Stays(cmd[a], c) BY <1>2, <1>5 DEF Stays, Past, o
<1>13. Reading(a, c, h)
  BY <1>1, <1>3, <1>8, <1>9, <1>10, <1>11, <1>12 DEF Reading, files, history
<1> QED BY <1>13, ReadingKeeps

\* What the user set beats the layers, where Beaten() says nothing else.
LEMMA WishesResolved ==
  ASSUME NEW c, IsLayers(layer), IsProps(Props(file)), HonouredBy(file, wish),
         NEW k \in DOMAIN wish, k \notin Beaten(c)
  PROVE  Result(c)[k].value = wish[k]
<1> DEFINE props == Props(file)
           host == HostOf(c)
<1>1. k \in DOMAIN props /\ props[k].value = wish[k] BY DEF HonouredBy
<1>2. Upheld(layer, props, host, k) BY <1>1 DEF Upheld, Beaten
<1>3. Resolved(layer, props, host)[k] = props[k] BY <1>2, UpheldStays
<1> QED BY <1>1, <1>3 DEF Result

\* The cascade is resolved.
LEMMA ResolveKeeps ==
  ASSUME PropertiesIInv, NEW a \in Actors, Resolve(a)
  PROVE  PropertiesIInv'
<1> DEFINE o == cmd[a]
           win == Result(o)
           gone == Beaten(o)
           crossed == layer # o.inputs.layers
           c == [op |-> o.op, step |-> "resolved", dry |-> o.dry, moved |-> o.moved,
                 meta |-> o.meta, inputs |-> o.inputs, text |-> file]
           h == [props |-> win, updates |-> {}, sets |-> <<>>, drops |-> gone,
                 crossed |-> crossed]
           n == NoRead
<1>1. /\ o.step = "hashed"
      /\ cmd' = [cmd EXCEPT ![a] = [o EXCEPT !.step = "resolved", !.text = file]]
      /\ held' = [held EXCEPT ![a] = [n EXCEPT !.props = win, !.drops = gone,
                                               !.crossed = crossed]]
      /\ UNCHANGED <<files, history, begun>>
  BY DEF Resolve
<1>2. /\ IsRecord(o) /\ IsCommand(o) /\ o.dry \in BOOLEAN /\ o.moved \in BOOLEAN
      /\ meta \in Metas
  BY WhoActs
<1>3. /\ o.meta \in Metas /\ IsInputs(o.inputs) /\ o.inputs.host = HostOf(o)
  BY <1>1, <1>2 DEF IsCommand, Merging
<1>4. [o EXCEPT !.step = "resolved", !.text = file] = c BY <1>2, WithText
<1>5. /\ IsRecord(c) /\ c.op = o.op /\ c.step = "resolved" /\ c.dry = o.dry /\ c.moved = o.moved
      /\ c.meta = o.meta /\ c.inputs = o.inputs /\ c.text = file
  BY DEF IsRecord
<1>6. IsReading(n) /\ n.updates = {} /\ n.sets = <<>> BY NothingHeld
<1> HIDE DEF n, win, gone, crossed
<1>7. [n EXCEPT !.props = win, !.drops = gone, !.crossed = crossed] = h
  <2> DEFINE d == [n EXCEPT !.props = win, !.drops = gone, !.crossed = crossed]
  <2>1. IsReading(n) BY <1>6
  <2>2. HoldsFields(d, win, n.updates, n.sets, gone, crossed) BY <2>1, HeldResolved
  <2> HIDE DEF d
  <2>3. d = h BY <1>6, <2>2 DEF HoldsFields
  <2> QED BY <2>3 DEF d
<1>8. /\ IsReading(h) /\ h.props = win /\ h.updates = {} /\ h.sets = <<>> /\ h.drops = gone
      /\ h.crossed = crossed
  BY DEF IsReading
<1> HIDE DEF c, h
<1>9. Becomes(a, c, h) BY <1>1, <1>4, <1>7 DEF Becomes
<1>10. /\ IsLayers(layer) /\ file \in Files /\ IsProps(Props(file)) /\ IsHost(HostOf(o))
  BY <1>3, TheFile, MetasHosts DEF HostOf
<1>11. /\ win = Resolved(layer, Props(file), HostOf(o))
       /\ IsProps(win)
       /\ \A k \in Important(win) :
            \/ k \in Important(Props(file)) \cup Important(Seed)
            \/ \E l \in Shared : k \in Important(layer[l])
  BY <1>10, ResolvedIsProps DEF win, Result
<1>12. IsCommand(c)
  <2>1. c.step \notin Writing BY <1>5 DEF Writing
  <2>2. c.inputs.host = HostOf(c) BY <1>3, <1>5 DEF HostOf
  <2> QED BY <1>2, <1>3, <1>5, <1>10, <2>1, <2>2 DEF IsCommand
<1>13. IsHeld(h) BY <1>8, <1>11 DEF IsHeld, crossed
<1>14. Fits(c, h) BY <1>5, <1>8, NoProps DEF Fits, Writing
<1>15. Faithful(c, h) BY <1>3, <1>5, <1>8, <1>11 DEF Faithful, crossed
<1>16. ~orphaned' => Marks(c, h, asked')
  <2>1. SUFFICES ASSUME ~orphaned PROVE Marks(c, h, asked) BY <1>1 DEF history, Marks, Asked
  <2>2. Asked(file, asked) /\ Important(Seed) \subseteq asked
        /\ \A l \in Shared : Important(layer[l]) \subseteq asked
    BY <2>1, TheFile
  <2>3. Important(win) \subseteq asked BY <1>11, <2>2 DEF Asked
  <2> QED BY <1>5, <1>8, <2>2, <2>3 DEF Marks
<1>17. Stays(cmd[a], c) BY <1>1, <1>5 DEF Stays, Past, o
<1>18. ASSUME ~torn', Calm PROVE Keeps(c, h, wish)
  <2>1. ~torn BY <1>1, <1>18 DEF history
  <2>2. HonouredBy(file, wish) BY <1>18, <2>1, TheFile
  <2>3. \A k \in DOMAIN wish : k \notin gone => win[k].value = wish[k]
    BY <1>10, <2>2, WishesResolved DEF gone, win
  <2> QED BY <1>5, <1>8, <2>3 DEF Keeps, Kept, Writing
<1>19. Reading(a, c, h)
  BY <1>1, <1>2, <1>9, <1>12, <1>13, <1>14, <1>15, <1>16, <1>17, <1>18
  DEF Reading, files, history
<1> QED BY <1>19, ReadingKeeps

\* The result is compared with the file.
LEMMA DiffKeeps ==
  ASSUME PropertiesIInv, NEW a \in Actors, Diff(a)
  PROVE  PropertiesIInv'
<1> DEFINE o == cmd[a]
           g == held[a]
           updates == Changed(g.props, Props(file))
           step == IF updates = {} THEN "merged" ELSE "diffed"
           crossed == g.crossed \/ file # o.text
           c == [op |-> o.op, step |-> step, dry |-> o.dry, moved |-> o.moved,
                 meta |-> o.meta, inputs |-> o.inputs, text |-> file]
           h == [props |-> g.props, updates |-> updates, sets |-> g.sets,
                 drops |-> g.drops, crossed |-> crossed]
<1>1. /\ o.step = "resolved"
      /\ cmd' = [cmd EXCEPT ![a] = [o EXCEPT !.step = step, !.text = file]]
      /\ held' = [held EXCEPT ![a] = [g EXCEPT !.updates = updates, !.crossed = crossed]]
      /\ UNCHANGED <<files, history, begun>>
  BY DEF Diff
<1>2. /\ IsRecord(o) /\ IsCommand(o) /\ IsReading(g) /\ IsHeld(g) /\ Fits(o, g)
      /\ o.dry \in BOOLEAN /\ o.moved \in BOOLEAN /\ meta \in Metas
  BY WhoActs
<1>3. /\ o.meta \in Metas /\ IsInputs(o.inputs) /\ o.inputs.host = HostOf(o)
  BY <1>1, <1>2 DEF IsCommand, Merging
<1>4. step \in {"merged", "diffed"} /\ (step = "merged" <=> updates = {}) OBVIOUS
<1>5. \A k \in updates : k \in DOMAIN g.props BY DEF Changed
<1> HIDE DEF step, updates, crossed
<1>6. [o EXCEPT !.step = step, !.text = file] = c BY <1>2, WithText
<1>7. [g EXCEPT !.updates = updates, !.crossed = crossed] = h BY <1>2, HeldDiff
<1>8. /\ IsRecord(c) /\ c.op = o.op /\ c.step = step /\ c.dry = o.dry /\ c.moved = o.moved
      /\ c.meta = o.meta /\ c.inputs = o.inputs /\ c.text = file
  BY DEF IsRecord
<1>9. /\ IsReading(h) /\ h.props = g.props /\ h.updates = updates /\ h.sets = g.sets
      /\ h.drops = g.drops /\ h.crossed = crossed
  BY DEF IsReading
<1> HIDE DEF c, h
<1>10. Becomes(a, c, h) BY <1>1, <1>6, <1>7 DEF Becomes
<1>11. file \in Files BY TheFile
<1>12. IsCommand(c)
  <2>1. c.step \notin Writing /\ c.step \in Merging BY <1>4, <1>8 DEF Writing, Merging
  <2>2. c.inputs.host = HostOf(c) BY <1>3, <1>8 DEF HostOf
  <2> QED BY <1>2, <1>3, <1>4, <1>8, <1>11, <2>1, <2>2 DEF IsCommand
<1>13. IsHeld(h) BY <1>2, <1>9 DEF IsHeld, crossed
<1>14. Fits(c, h)
  <2>1. DOMAIN g.sets = {} BY <1>1, <1>2 DEF Fits
  <2> QED BY <1>4, <1>5, <1>8, <1>9, <2>1 DEF Fits, Writing
<1>15. ~orphaned' => Faithful(c, h)
  <2>1. SUFFICES ASSUME ~orphaned, ~crossed
                 PROVE  Faithful(c, h)
    BY <1>1, <1>9 DEF history, Faithful
  <2>2. Faithful(o, g) /\ ~g.crossed /\ file = o.text BY <2>1, TheFile DEF crossed, o, g
  <2>3. g.props = Resolved(o.inputs.layers, Props(file), o.inputs.host)
    BY <1>1, <2>2 DEF Faithful
  <2>4. step = "merged" => Agrees(o.inputs, file)
    BY <1>3, <1>4, <2>3 DEF Agrees, Settled, IsInputs, updates
  <2> QED BY <1>4, <1>8, <1>9, <2>3, <2>4 DEF Faithful, updates
<1>16. ~orphaned' => Marks(c, h, asked')
  <2>1. SUFFICES ASSUME ~orphaned PROVE Marks(c, h, asked) BY <1>1 DEF history, Marks, Asked
  <2>2. Asked(file, asked) /\ Marks(o, g, asked) BY <2>1, TheFile DEF o, g
  <2> QED BY <1>8, <1>9, <2>2 DEF Marks
<1>17. Stays(cmd[a], c) BY <1>1, <1>4, <1>8 DEF Stays, Past, o
<1>18. ASSUME ~torn', Calm PROVE Keeps(c, h, wish)
  <2>1. ~torn BY <1>1, <1>18 DEF history
  <2>2. Keeps(o, g, wish) BY <1>18, <2>1, TheFile DEF o, g
  <2>3. \A k \in Kept(g, wish) : k \in DOMAIN g.props => g.props[k].value = wish[k]
    BY <1>1, <2>2 DEF Keeps
  <2>4. Kept(h, wish) = Kept(g, wish) BY <1>9 DEF Kept
  <2> QED BY <1>4, <1>8, <1>9, <2>3, <2>4 DEF Keeps, Writing
<1>19. Reading(a, c, h)
  BY <1>1, <1>2, <1>10, <1>12, <1>13, <1>14, <1>15, <1>16, <1>17, <1>18
  DEF Reading, files, history
<1> QED BY <1>19, ReadingKeeps

\* The text that is to be written, from the file as it is read again.
LEMMA RereadText ==
  ASSUME NEW f \in Files, NEW h, IsProps(h.props), h.updates # {},
         h.updates \subseteq DOMAIN h.props
  PROVE  LET values == [k \in h.updates |-> h.props[k].value]
             text == Update(f, values, Important(h.props))
         IN  /\ IsUpdate(text, f, values, Important(h.props))
             /\ DOMAIN values = h.updates /\ \A k \in h.updates : values[k] = h.props[k].value
             /\ text \in Files /\ text # Nothing
<1> DEFINE values == [k \in h.updates |-> h.props[k].value]
           text == Update(f, values, Important(h.props))
<1>1. DOMAIN values = h.updates /\ \A k \in h.updates : values[k] = h.props[k].value OBVIOUS
<1> HIDE DEF values
<1>2. IsHost(values)
  <2>1. IsFiniteSet(h.updates) BY FS_Subset DEF IsProps
  <2>2. ASSUME NEW k \in h.updates PROVE k \in Key /\ h.props[k].value \in Value
    <3>1. k \in Key /\ h.props[k] \in [value : Value, important : BOOLEAN] BY <2>2 DEF IsProps
    <3> QED BY <3>1
  <2> QED BY <1>1, <2>1, <2>2 DEF IsHost
<1>3. IsUpdate(text, f, values, Important(h.props)) BY <1>2, UpdateFile
<1> HIDE DEF text
<1>4. text \in Files /\ DOMAIN Props(text) = DOMAIN Props(f) \cup h.updates
  BY <1>1, <1>3 DEF IsUpdate
<1>5. text # Nothing BY <1>4, NothingSet
<1> QED BY <1>1, <1>3, <1>4, <1>5 DEF values, text

\* The file is read again and its text rewritten.
LEMMA RereadKeeps ==
  ASSUME PropertiesIInv, NEW a \in Actors, Reread(a)
  PROVE  PropertiesIInv'
<1> DEFINE o == cmd[a]
           g == held[a]
           values == [k \in g.updates |-> g.props[k].value]
           text == Update(file, values, Important(g.props))
           crossed == g.crossed \/ file # o.text
           c == [op |-> o.op, step |-> "merging", dry |-> o.dry, moved |-> o.moved,
                 meta |-> o.meta, inputs |-> o.inputs, text |-> text]
           h == [props |-> g.props, updates |-> g.updates, sets |-> g.sets,
                 drops |-> g.drops, crossed |-> crossed]
<1>1. /\ o.step = "diffed"
      /\ cmd' = [cmd EXCEPT ![a] = [o EXCEPT !.step = "merging", !.text = text]]
      /\ held' = [held EXCEPT ![a] = [g EXCEPT !.crossed = crossed]]
      /\ UNCHANGED <<files, history, begun>>
  BY DEF Reread
<1>2. /\ IsRecord(o) /\ IsCommand(o) /\ IsReading(g) /\ IsHeld(g) /\ Fits(o, g)
      /\ o.dry \in BOOLEAN /\ o.moved \in BOOLEAN /\ meta \in Metas
  BY WhoActs
<1>3. /\ o.meta \in Metas /\ IsInputs(o.inputs) /\ o.inputs.host = HostOf(o)
      /\ IsProps(g.props)
  BY <1>1, <1>2 DEF IsCommand, Merging, IsHeld
<1>4. /\ DOMAIN g.sets = {} /\ g.updates # {} /\ g.updates \subseteq DOMAIN g.props
  BY <1>1, <1>2 DEF Fits
<1>5. file \in Files BY TheFile
<1>6. /\ IsUpdate(text, file, values, Important(g.props))
      /\ DOMAIN values = g.updates /\ \A k \in g.updates : values[k] = g.props[k].value
      /\ text \in Files /\ text # Nothing
  BY <1>3, <1>4, <1>5, RereadText
<1> HIDE DEF text, crossed, values
<1>7. [o EXCEPT !.step = "merging", !.text = text] = c BY <1>2, WithText
<1>8. [g EXCEPT !.crossed = crossed] = h BY <1>2, HeldCrossed
<1>9. /\ IsRecord(c) /\ c.op = o.op /\ c.step = "merging" /\ c.dry = o.dry /\ c.moved = o.moved
      /\ c.meta = o.meta /\ c.inputs = o.inputs /\ c.text = text
  BY DEF IsRecord
<1>10. /\ IsReading(h) /\ h.props = g.props /\ h.updates = g.updates /\ h.sets = g.sets
       /\ h.drops = g.drops /\ h.crossed = crossed
  BY DEF IsReading
<1> HIDE DEF c, h
<1>11. Becomes(a, c, h) BY <1>1, <1>7, <1>8 DEF Becomes
<1>12. IsCommand(c)
  <2>1. c.inputs.host = HostOf(c) BY <1>3, <1>9 DEF HostOf
  <2> QED BY <1>2, <1>3, <1>6, <1>9, <2>1 DEF IsCommand
<1>13. IsHeld(h) BY <1>2, <1>10 DEF IsHeld, crossed
<1>14. Fits(c, h) BY <1>4, <1>9, <1>10 DEF Fits, HonouredBy
<1>15. ~orphaned' => Faithful(c, h)
  <2>1. SUFFICES ASSUME ~orphaned, ~crossed PROVE Faithful(c, h)
    BY <1>1, <1>10 DEF history, Faithful
  <2>2. Faithful(o, g) /\ ~g.crossed /\ file = o.text /\ Asked(file, asked)
    BY <2>1, TheFile DEF crossed, o, g
  <2> DEFINE ls == o.inputs.layers
             host == o.inputs.host
  <2>3. /\ g.props = Resolved(ls, Props(file), host)
        /\ g.updates = Changed(g.props, Props(file))
    BY <1>1, <2>2 DEF Faithful
  <2>4. text = MergeOf(ls, file, host) BY <2>3 DEF MergeOf, text, values
  <2>5. IsLayers(ls) /\ IsHost(host) BY <1>3 DEF IsInputs
  <2>6. Tidy(Lines(file)) BY <2>2 DEF Asked
  <2>7. Settled(ls, text, host) BY <1>5, <2>4, <2>5, <2>6, MergedFile
  <2>8. Agrees(o.inputs, text) BY <1>3, <2>7 DEF Agrees, IsInputs
  <2> QED BY <1>9, <2>8 DEF Faithful
<1>16. ~orphaned' => Marks(c, h, asked')
  <2>1. SUFFICES ASSUME ~orphaned PROVE Marks(c, h, asked) BY <1>1 DEF history, Marks, Asked
  <2>2. Asked(file, asked) /\ Marks(o, g, asked) BY <2>1, TheFile DEF o, g
  <2>3. Important(g.props) \subseteq asked BY <2>2 DEF Marks
  <2>4. Asked(text, asked) BY <1>6, <2>2, <2>3 DEF Asked, IsUpdate, Important
  <2> QED BY <1>9, <1>10, <2>3, <2>4 DEF Marks
<1>17. Stays(cmd[a], c) BY <1>1, <1>9 DEF Stays, Past, o
<1>18. ASSUME ~torn', Calm PROVE Keeps(c, h, wish)
  <2>1. ~torn BY <1>1, <1>18 DEF history
  <2>2. Keeps(o, g, wish) /\ HonouredBy(file, wish) BY <1>18, <2>1, TheFile DEF o, g
  <2>3. \A k \in Kept(g, wish) : k \in DOMAIN g.props => g.props[k].value = wish[k]
    BY <1>1, <2>2 DEF Keeps
  <2>4. Kept(h, wish) = Kept(g, wish) BY <1>10 DEF Kept
  <2>5. ASSUME NEW k \in Kept(g, wish)
        PROVE  k \in DOMAIN Props(text) /\ Props(text)[k].value = wish[k]
    <3>1. k \in DOMAIN Props(file) /\ Props(file)[k].value = wish[k]
      BY <2>2, <2>5 DEF HonouredBy, Kept
    <3>2. k \in DOMAIN Props(text) BY <1>6, <3>1 DEF IsUpdate
    <3>3. CASE k \in g.updates
      <4>1. g.props[k].value = wish[k] BY <1>4, <2>3, <2>5, <3>3
      <4> QED BY <1>6, <3>2, <3>3, <4>1 DEF IsUpdate
    <3>4. CASE k \notin g.updates BY <1>6, <3>1, <3>2, <3>4 DEF IsUpdate
    <3> QED BY <3>2, <3>3, <3>4
  <2> QED BY <1>9, <2>4, <2>5 DEF Keeps
<1>19. Reading(a, c, h)
  BY <1>1, <1>2, <1>11, <1>12, <1>13, <1>14, <1>15, <1>16, <1>17, <1>18
  DEF Reading, files, history
<1> QED BY <1>19, ReadingKeeps

\* What a command holds that will set or take out properties.
Holds(h, sets, drops) ==
  /\ IsReading(h)
  /\ h.props = <<>> /\ h.updates = {} /\ h.sets = sets /\ h.drops = drops
  /\ h.crossed = FALSE

\* Who holds that, and nothing else.
LEMMA NewHold ==
  ASSUME NEW s, NEW g
  PROVE  /\ Holds([NoRead EXCEPT !.sets = s], s, {})
         /\ Holds([NoRead EXCEPT !.drops = g], <<>>, g)
<1> DEFINE n == NoRead
<1>1. /\ IsReading(n) /\ n.props = <<>> /\ n.updates = {} /\ n.sets = <<>>
      /\ n.drops = {} /\ n.crossed = FALSE
  BY NothingHeld
<1> HIDE DEF n
<1>2. Holds([n EXCEPT !.sets = s], s, {})
  <2> DEFINE h == [props |-> n.props, updates |-> n.updates, sets |-> s,
                   drops |-> n.drops, crossed |-> n.crossed]
  <2>1. [n EXCEPT !.sets = s] = h BY <1>1, HeldSets
  <2>2. Holds(h, s, {}) BY <1>1 DEF Holds, IsReading
  <2> QED BY <2>1, <2>2
<1>3. Holds([n EXCEPT !.drops = g], <<>>, g)
  <2> DEFINE h == [props |-> n.props, updates |-> n.updates, sets |-> n.sets,
                   drops |-> g, crossed |-> n.crossed]
  <2>1. [n EXCEPT !.drops = g] = h BY <1>1, HeldDrops
  <2>2. Holds(h, <<>>, g) BY <1>1 DEF Holds, IsReading
  <2> QED BY <2>1, <2>2
<1> QED BY <1>2, <1>3 DEF n

\* A text that follows from the file as it is.
Follows(t, sets, drops) ==
  /\ t \in Files /\ t # Nothing
  /\ HonouredBy(t, sets)
  /\ HonouredBy(file, wish) =>
       \A k \in DOMAIN wish \ (drops \cup DOMAIN sets) :
         k \in DOMAIN Props(t) /\ Props(t)[k].value = wish[k]

\* A command that will write such a text keeps the invariant.
LEMMA WritingKeeps ==
  ASSUME PropertiesIInv, NEW a \in Actors, NEW op, NEW step \in Writing \ {"merging"},
         NEW dry \in BOOLEAN, NEW moved \in BOOLEAN, NEW m \in Metas, NEW inputs, NEW t,
         NEW h, NEW sets, NEW drops,
         Becomes(a, [op |-> op, step |-> step, dry |-> dry, moved |-> moved,
                     meta |-> m, inputs |-> inputs, text |-> t], h),
         Holds(h, sets, drops), Follows(t, sets, drops),
         UNCHANGED <<layer, file, aside, original, manifest, meta, wish, raced, torn>>,
         asked \subseteq asked', orphaned => orphaned',
         ~orphaned' => Asked(t, asked'),
         op # "reset", ~Past(cmd[a]),
         step = "setting" => op \in {"edit", "rebuild"}, step = "removing" => op = "run"
  PROVE  PropertiesIInv'
<1> DEFINE c == [op |-> op, step |-> step, dry |-> dry, moved |-> moved,
                 meta |-> m, inputs |-> inputs, text |-> t]
<1>1. /\ IsRecord(c) /\ c.op = op /\ c.step = step /\ c.dry = dry /\ c.moved = moved
      /\ c.meta = m /\ c.inputs = inputs /\ c.text = t
  BY DEF IsRecord
<1> HIDE DEF c
<1>2. Becomes(a, c, h) BY DEF c
<1>3. /\ IsReading(h) /\ h.props = <<>> /\ h.updates = {} /\ h.sets = sets /\ h.drops = drops
      /\ h.crossed = FALSE
  BY DEF Holds
<1>4. /\ c.step \in Writing /\ c.step \notin Merging /\ c.step # "considering"
      /\ c.step \notin {"resolved", "diffed"} /\ c.step # "diffed"
      /\ c.step \notin {"merging", "merged"}
  BY <1>1 DEF Writing, Merging
<1>5. t \in Files /\ t # Nothing BY DEF Follows
<1>6. IsCommand(c)
  <2>1. c.dry \in BOOLEAN /\ c.moved \in BOOLEAN /\ c.meta \in Metas BY <1>1
  <2>2. c.text \in Files /\ c.text # Nothing BY <1>1, <1>5
  <2>3. c.step = "setting" => c.op \in {"edit", "rebuild"} BY <1>1
  <2>4. c.step \in {"removing", "removed"} => c.op = "run" BY <1>1, <1>4 DEF Writing
  <2> QED BY <1>1, <1>4, <2>1, <2>2, <2>3, <2>4 DEF IsCommand
<1>7. IsHeld(h) BY <1>3, NoProps DEF IsHeld
<1>8. Fits(c, h) BY <1>1, <1>3, <1>4 DEF Fits, Follows
<1>9. Faithful(c, h) BY <1>4 DEF Faithful
<1>10. ~orphaned' => Marks(c, h, asked') BY <1>1, <1>3, NoProps DEF Marks
<1>11. Stays(cmd[a], c) BY <1>1 DEF Stays, Past
<1>12. ASSUME ~torn', Calm PROVE Keeps(c, h, wish)
  <2>1. HonouredBy(file, wish) BY <1>12, TheFile
  <2>2. \A k \in Kept(h, wish) : k \in DOMAIN Props(t) /\ Props(t)[k].value = wish[k]
    BY <1>3, <2>1 DEF Follows, Kept
  <2> QED BY <1>1, <1>4, <2>2 DEF Keeps
<1>13. meta \in Metas BY WhoActs
<1>14. Reading(a, c, h)
  BY <1>2, <1>6, <1>7, <1>8, <1>9, <1>10, <1>11, <1>12, <1>13 DEF Reading
<1> QED BY <1>14, ReadingKeeps

\* The file is read, and what was made of it is held.
LEMMA ReadsBecomes ==
  ASSUME NEW a, NEW op, NEW t, NEW h, Reads(a, op, t, h)
  PROVE  Becomes(a, [op |-> op, step |-> "setting", dry |-> FALSE, moved |-> FALSE,
                     meta |-> meta, inputs |-> Nothing, text |-> t], h)
<1> DEFINE b == Begin(a, op, FALSE)
<1>1. /\ IsRecord(b)
      /\ b = [op |-> op, step |-> "read", dry |-> FALSE, moved |-> FALSE,
              meta |-> meta, inputs |-> Nothing, text |-> Nothing]
  BY Begun
<1>2. /\ cmd' = [cmd EXCEPT ![a] = [b EXCEPT !.step = "setting", !.text = t]]
      /\ held' = [held EXCEPT ![a] = h]
  BY DEF Reads
<1> HIDE DEF b
<1>3. [b EXCEPT !.step = "setting", !.text = t] =
        [op |-> b.op, step |-> "setting", dry |-> b.dry, moved |-> b.moved,
         meta |-> b.meta, inputs |-> b.inputs, text |-> t]
  <2>1. IsRecord(b) BY <1>1
  <2> QED BY <2>1, WithText
<1>4. [b EXCEPT !.step = "setting", !.text = t] =
        [op |-> op, step |-> "setting", dry |-> FALSE, moved |-> FALSE,
         meta |-> meta, inputs |-> Nothing, text |-> t]
  BY <1>1, <1>3
<1> QED BY <1>2, <1>4 DEF Becomes

\* A property is to be set, with the marks that were asked for.
LEMMA SetInFileKeeps ==
  ASSUME PropertiesIInv, NEW a \in Actors, NEW op \in {"edit", "rebuild"},
         NEW k \in Key, NEW v \in Value, NEW important,
         ~orphaned => important \subseteq asked \cup {k},
         SetInFile(a, op, k, v, important), ~Past(cmd[a])
  PROVE  PropertiesIInv'
<1> DEFINE u == [x \in {k} |-> v]
           t == UpdatePortalExt(Lines(file), u, important)
           h == [NoRead EXCEPT !.sets = u]
<1>1. /\ Reads(a, op, t, h) /\ asked' = asked \cup (important \cap {k})
      /\ UNCHANGED <<files, wish, raced, torn, orphaned>>
  BY DEF SetInFile
<1>2. DOMAIN u = {k} /\ u[k] = v OBVIOUS
<1>3. file \in Files BY TheFile
<1>4. IsUpdate(t, file, u, important) /\ t \in Files /\ t # Nothing BY <1>3, OneSet
<1>5. Holds(h, u, {}) BY NewHold
<1>6. Becomes(a, [op |-> op, step |-> "setting", dry |-> FALSE, moved |-> FALSE,
                  meta |-> meta, inputs |-> Nothing, text |-> t], h)
  BY <1>1, ReadsBecomes
<1> HIDE DEF u, t, h
<1>7. Follows(t, u, {})
  <2>1. DOMAIN Props(t) = DOMAIN Props(file) \cup {k} BY <1>2, <1>4 DEF IsUpdate
  <2>2. \A x \in DOMAIN Props(t) :
          Props(t)[x].value = IF x = k THEN v ELSE Props(file)[x].value
    BY <1>2, <1>4 DEF IsUpdate
  <2> QED BY <1>2, <1>4, <2>1, <2>2 DEF Follows, HonouredBy
<1>8. ASSUME ~orphaned' PROVE Asked(t, asked')
  <2>1. Asked(file, asked) /\ ~orphaned BY <1>1, <1>8, TheFile
  <2>2. Tidy(Lines(t)) BY <1>4, <2>1 DEF Asked, IsUpdate
  <2>3. ASSUME NEW x \in Important(Props(t)) PROVE x \in asked'
    <3>1. x \in DOMAIN Props(t) /\ Props(t)[x].important BY <2>3 DEF Important
    <3>2. x \in important \/ x \in Important(Props(file))
      BY <1>4, <2>1, <3>1 DEF Asked, IsUpdate
    <3> QED BY <1>1, <2>1, <3>2 DEF Asked
  <2> QED BY <2>2, <2>3 DEF Asked
<1>9. meta \in Metas BY WhoActs
<1>10. "setting" \in Writing \ {"merging"} BY DEF Writing
<1>11. /\ UNCHANGED <<layer, file, aside, original, manifest, meta, wish, raced, torn>>
       /\ asked \subseteq asked' /\ (orphaned => orphaned')
  BY <1>1 DEF files
<1>12. op # "reset" OBVIOUS
<1> QED BY <1>5, <1>6, <1>7, <1>8, <1>9, <1>10, <1>11, <1>12, WritingKeeps

\* What a removal makes of the file.
LEMMA RemovalFollows ==
  ASSUME PropertiesIInv, NEW k \in Key, file # Nothing
  PROVE  LET t == RemovePortalExt(Lines(file), k)
         IN  /\ Follows(t, <<>>, {k})
             /\ ~orphaned /\ ~LeavesAMark(Lines(file), k) => Asked(t, asked)
<1> DEFINE t == RemovePortalExt(Lines(file), k)
<1>1. file \in Files BY DEF PropertiesIInv, PropertiesTypeOK, TextsTyped
<1>2. /\ t \in Files /\ t # Nothing
      /\ DOMAIN Props(t) = DOMAIN Props(file) \ {k}
      /\ \A x \in DOMAIN Props(t) : Props(t)[x].value = Props(file)[x].value
      /\ ~LeavesAMark(Lines(file), k) /\ Tidy(Lines(file)) =>
           /\ Tidy(Lines(t))
           /\ Important(Props(t)) \subseteq Important(Props(file))
  BY <1>1, RemoveFromFile
<1> HIDE DEF t
<1>3. Follows(t, <<>>, {k}) BY <1>2, NoProps DEF Follows, HonouredBy
<1>4. ~orphaned => Asked(file, asked) BY DEF PropertiesIInv, MarksAreAsked
<1>5. ~orphaned /\ ~LeavesAMark(Lines(file), k) => Asked(t, asked) BY <1>2, <1>4 DEF Asked
<1> QED BY <1>3, <1>5 DEF t

\* A property is to be taken out.
LEMMA TakeFromFileKeeps ==
  ASSUME PropertiesIInv, NEW a \in Actors, NEW op \in {"edit", "rebuild"},
         NEW k \in Key, TakeFromFile(a, op, k), ~Past(cmd[a])
  PROVE  PropertiesIInv'
<1> DEFINE t == RemovePortalExt(Lines(file), k)
           h == [NoRead EXCEPT !.drops = {k}]
<1>1. /\ file # Nothing
      /\ Reads(a, op, t, h) /\ orphaned' = (orphaned \/ LeavesAMark(Lines(file), k))
      /\ UNCHANGED <<files, wish, asked, raced, torn>>
  BY DEF TakeFromFile
<1>2. /\ Follows(t, <<>>, {k})
      /\ ~orphaned /\ ~LeavesAMark(Lines(file), k) => Asked(t, asked)
  BY <1>1, RemovalFollows
<1>3. Holds(h, <<>>, {k}) BY NewHold
<1>4. Becomes(a, [op |-> op, step |-> "setting", dry |-> FALSE, moved |-> FALSE,
                  meta |-> meta, inputs |-> Nothing, text |-> t], h)
  BY <1>1, ReadsBecomes
<1> HIDE DEF t, h
<1>5. ~orphaned' => Asked(t, asked') BY <1>1, <1>2 DEF Asked
<1>6. meta \in Metas BY WhoActs
<1>7. "setting" \in Writing \ {"merging"} BY DEF Writing
<1>8. /\ UNCHANGED <<layer, file, aside, original, manifest, meta, wish, raced, torn>>
      /\ asked \subseteq asked' /\ (orphaned => orphaned')
  BY <1>1 DEF files
<1>9. op # "reset" OBVIOUS
<1> QED BY <1>2, <1>3, <1>4, <1>5, <1>6, <1>7, <1>8, <1>9, WritingKeeps

\* A command that has read the file, and will not write what it read.
LEMMA LookingKeeps ==
  ASSUME PropertiesIInv, NEW a \in Actors, NEW op, NEW step,
         NEW dry \in BOOLEAN, NEW moved \in BOOLEAN, NEW m \in Metas, NEW inputs,
         NEW t \in Files, NEW h,
         Becomes(a, [op |-> op, step |-> step, dry |-> dry, moved |-> moved,
                     meta |-> m, inputs |-> inputs, text |-> t], h),
         IsHeld(h), Still, step \notin Hot \cup {"idle", "considering"},
         op # "reset", ~Past(cmd[a]), step \in {"removing", "removed"} => op = "run",
         ~orphaned' => Asked(t, asked') /\ Important(h.props) \subseteq asked'
  PROVE  PropertiesIInv'
<1> DEFINE c == [op |-> op, step |-> step, dry |-> dry, moved |-> moved,
                 meta |-> m, inputs |-> inputs, text |-> t]
<1>1. /\ IsRecord(c) /\ c.op = op /\ c.step = step /\ c.dry = dry /\ c.moved = moved
      /\ c.meta = m /\ c.inputs = inputs /\ c.text = t
  BY DEF IsRecord
<1> HIDE DEF c
<1>2. Becomes(a, c, h) BY DEF c
<1>3. /\ c.step \notin Writing /\ c.step \notin Merging /\ c.step # "considering"
      /\ c.step # "setting" /\ c.step \notin {"resolved", "diffed"} /\ c.step # "diffed"
      /\ c.step \notin {"merging", "merged"}
  BY <1>1 DEF Hot, Writing, Merging
<1>4. IsCommand(c) BY <1>1, <1>3 DEF IsCommand
<1>5. Fits(c, h) /\ Faithful(c, h) /\ Keeps(c, h, wish) BY <1>3 DEF Fits, Faithful, Keeps
<1>6. ~orphaned' => Marks(c, h, asked') BY <1>1 DEF Marks
<1>7. Stays(cmd[a], c) BY <1>1 DEF Stays, Past
<1>8. Reading(a, c, h) BY <1>2, <1>4, <1>5, <1>6, <1>7 DEF Reading, Still
<1> QED BY <1>8, ReadingKeeps

\* A key the user touches, and what he sets it to.
LEMMA TypedKeys ==
  ASSUME NEW k \in DOMAIN Typed
  PROVE  k \in Key /\ \A v \in Typed[k] : v \in Value
  BY KeysAssumption

\* The dashboard sets or deletes a property.
LEMMA PutKeeps ==
  ASSUME PropertiesIInv, NEW a \in Actors, NEW k \in DOMAIN Typed, NEW v \in Typed[k],
         NEW important \in SUBSET {k}, Put(a, k, v, important) \/ Delete(a, k)
  PROVE  PropertiesIInv'
<1>1. k \in Key /\ v \in Value BY TypedKeys
<1>2. cmd[a].step = "idle" BY DEF Put, Delete, Idle
<1>3. ~Past(cmd[a]) BY <1>2, NotPast
<1>4. CASE Put(a, k, v, important)
  <2>1. SetInFile(a, "rebuild", k, v, important) BY <1>4 DEF Put
  <2> QED BY <1>1, <1>3, <2>1, SetInFileKeeps
<1>5. CASE Delete(a, k)
  <2>1. TakeFromFile(a, "rebuild", k) BY <1>5 DEF Delete
  <2> QED BY <1>1, <1>3, <2>1, TakeFromFileKeeps
<1> QED BY <1>4, <1>5

\* The dashboard deletes a property.
LEMMA DeleteKeeps ==
  ASSUME PropertiesIInv, NEW a \in Actors, NEW k \in DOMAIN Typed, Delete(a, k)
  PROVE  PropertiesIInv'
<1>1. k \in Key BY TypedKeys
<1>2. cmd[a].step = "idle" /\ TakeFromFile(a, "rebuild", k) BY DEF Delete, Idle
<1>3. ~Past(cmd[a]) BY <1>2, NotPast
<1> QED BY <1>1, <1>2, <1>3, TakeFromFileKeeps

\* The editor sets a property.
LEMMA EditorSetKeeps ==
  ASSUME PropertiesIInv, NEW a \in Actors, NEW k \in DOMAIN Typed, NEW v \in Value,
         NEW important \in SUBSET {k}, EditorSet(a, k, v, important)
  PROVE  PropertiesIInv'
<1>1. k \in Key BY TypedKeys
<1>2. cmd[a].op = "edit" /\ SetInFile(a, "edit", k, v, important) BY DEF EditorSet, At
<1>3. ~Past(cmd[a]) BY <1>2, NotPast
<1> QED BY <1>1, <1>2, <1>3, SetInFileKeeps

\* The editor toggles the mark of a property.
LEMMA EditorToggleKeeps ==
  ASSUME PropertiesIInv, NEW a \in Actors, NEW k \in DOMAIN Typed, EditorToggle(a, k)
  PROVE  PropertiesIInv'
<1> DEFINE shown == held[a].props
           marked == Important(shown)
           important == IF k \in marked THEN marked \ {k} ELSE marked \cup {k}
<1>1. /\ cmd[a].op = "edit" /\ k \in DOMAIN shown
      /\ SetInFile(a, "edit", k, shown[k].value, important)
  BY DEF EditorToggle, At
<1>2. ~Past(cmd[a]) BY <1>1, NotPast
<1>3. IsProps(shown) BY WhoActs DEF IsHeld
<1> HIDE DEF shown
<1>4. k \in Key /\ shown[k].value \in Value
  <2>1. k \in Key /\ shown[k] \in [value : Value, important : BOOLEAN]
    BY <1>1, <1>3 DEF IsProps
  <2> QED BY <2>1
<1>5. ~orphaned => important \subseteq asked \cup {k}
  <2>1. ~orphaned => marked \subseteq asked BY TheFile DEF Marks, shown
  <2> QED BY <2>1
<1> HIDE DEF important
<1> QED BY <1>1, <1>2, <1>4, <1>5, SetInFileKeeps

\* The editor deletes a property.
LEMMA EditorDeleteKeeps ==
  ASSUME PropertiesIInv, NEW a \in Actors, NEW k \in DOMAIN Typed, EditorDelete(a, k)
  PROVE  PropertiesIInv'
<1>1. k \in Key BY TypedKeys
<1>2. cmd[a].op = "edit" /\ TakeFromFile(a, "edit", k) BY DEF EditorDelete, At
<1>3. ~Past(cmd[a]) BY <1>2, NotPast
<1> QED BY <1>1, <1>2, <1>3, TakeFromFileKeeps

\* The editor is opened, on an empty file if there is none.
LEMMA OpenEditorKeeps ==
  ASSUME PropertiesIInv, NEW a \in Actors, OpenEditor(a)
  PROVE  PropertiesIInv'
<1>1. cmd[a].step = "idle" /\ UNCHANGED <<files, history, begun>> BY DEF OpenEditor, Idle
<1>2. ~Past(cmd[a]) BY <1>1, NotPast
<1>3. meta \in Metas /\ held = [held EXCEPT ![a] = held[a]] BY WhoActs
<1>4. CASE file = Nothing
  <2>1. Reads(a, "edit", <<>>, NoRead) BY <1>4 DEF OpenEditor
  <2>2. Becomes(a, [op |-> "edit", step |-> "setting", dry |-> FALSE, moved |-> FALSE,
                    meta |-> meta, inputs |-> Nothing, text |-> <<>>], NoRead)
    BY <2>1, ReadsBecomes
  <2>3. Holds(NoRead, <<>>, {}) BY NothingHeld DEF Holds
  <2>4. <<>> \in Texts BY DEF Texts, Once
  <2>5. <<>> \in Files BY <2>4 DEF Files
  <2>6. <<>> # Nothing BY <2>4, <2>5, FileLines
  <2>7. Follows(<<>>, <<>>, {})
    <3>1. HonouredBy(file, wish) => DOMAIN wish = {} BY <1>4, NothingSet DEF HonouredBy
    <3> QED BY <2>5, <2>6, <3>1, NoProps DEF Follows, HonouredBy
  <2>8. Asked(<<>>, asked')
    <3>1. Lines(<<>>) = <<>> /\ Lines(Nothing) = <<>> BY DEF Lines
    <3>2. Props(<<>>) = Props(Nothing) BY <3>1 DEF Props
    <3> QED BY <3>1, <3>2, NoMarks DEF Asked
  <2>9. "setting" \in Writing \ {"merging"} BY DEF Writing
  <2>10. /\ UNCHANGED <<layer, file, aside, original, manifest, meta, wish, raced, torn>>
         /\ asked \subseteq asked' /\ (orphaned => orphaned')
    BY <1>1 DEF files, history
  <2> QED BY <1>2, <1>3, <2>2, <2>3, <2>7, <2>8, <2>9, <2>10, WritingKeeps
<1>5. CASE file # Nothing
  <2> DEFINE c == [Begin(a, "edit", FALSE) EXCEPT !.step = "listing"]
  <2>1. cmd' = [cmd EXCEPT ![a] = c] /\ UNCHANGED held BY <1>5 DEF OpenEditor
  <2>2. IsFresh(c, "edit", "listing", meta) BY BegunAt
  <2> HIDE DEF c
  <2>3. Becomes(a, c, held[a]) BY <1>3, <2>1 DEF Becomes
  <2>4. Still BY <1>1, <1>3 DEF Still, files, history
  <2>5. meta \in Metas BY <1>3
  <2> QED BY <1>2, <2>2, <2>3, <2>4, <2>5, BeginningKeeps DEF IsFresh, Hot, Writing, Merging
<1> QED BY <1>4, <1>5

\* The editor lists the properties.
LEMMA ListKeeps ==
  ASSUME PropertiesIInv, NEW a \in Actors, List(a)
  PROVE  PropertiesIInv'
<1> DEFINE o == cmd[a]
           n == NoRead
           p == Props(file)
           h == [props |-> p, updates |-> n.updates, sets |-> n.sets,
                 drops |-> n.drops, crossed |-> n.crossed]
<1>1. /\ o.op = "edit" /\ o.step = "listing"
      /\ cmd' = [cmd EXCEPT ![a] = [o EXCEPT !.step = "editing"]]
      /\ held' = [held EXCEPT ![a] = [n EXCEPT !.props = p]]
      /\ UNCHANGED <<files, history, begun>>
  BY DEF List, At, Goto
<1>2. /\ IsRecord(o) /\ IsCommand(o) /\ o.dry \in BOOLEAN /\ o.moved \in BOOLEAN
      /\ o.meta \in Metas /\ meta \in Metas
  BY <1>1, WhoActs
<1>3. IsReading(n) /\ n.crossed = FALSE BY NothingHeld
<1>4. [o EXCEPT !.step = "editing"] =
        [op |-> o.op, step |-> "editing", dry |-> o.dry, moved |-> o.moved,
         meta |-> o.meta, inputs |-> o.inputs, text |-> o.text]
  BY <1>2, WithStep
<1> HIDE DEF n, p
<1>5. [n EXCEPT !.props = p] = h BY <1>3, HeldProps
<1>6. IsReading(h) /\ h.props = p /\ h.crossed = FALSE BY <1>3 DEF IsReading
<1> HIDE DEF o, h
<1>7. Becomes(a, [op |-> o.op, step |-> "editing", dry |-> o.dry, moved |-> o.moved,
                  meta |-> o.meta, inputs |-> o.inputs, text |-> o.text], h)
  BY <1>1, <1>4, <1>5 DEF Becomes, o, n, p
<1>8. IsHeld(h) BY <1>6, TheFile DEF IsHeld, p
<1>9. o.text \in Files BY <1>2 DEF IsCommand
<1>10. ~Past(cmd[a]) BY <1>1, NotPast DEF o
<1>11. Still BY <1>1, <1>2 DEF Still, files, history
<1>12. ASSUME ~orphaned' PROVE Asked(o.text, asked') /\ Important(h.props) \subseteq asked'
  <2>1. Asked(file, asked) /\ Marks(cmd[a], held[a], asked) BY <1>1, <1>12, TheFile DEF history
  <2> QED BY <1>1, <1>6, <2>1 DEF Asked, Marks, history, o, p
<1>13. "editing" \notin Hot \cup {"idle", "considering"} BY DEF Hot, Writing, Merging
<1>14. o.op # "reset" BY <1>1
<1> QED BY <1>2, <1>7, <1>8, <1>9, <1>10, <1>11, <1>12, <1>13, <1>14, LookingKeeps

\* A run reads the file to take the seed's property out.
LEMMA ReadToRemoveKeeps ==
  ASSUME PropertiesIInv, NEW a \in Actors, ReadToRemove(a)
  PROVE  PropertiesIInv'
<1> DEFINE o == cmd[a]
           there == file # Nothing
           step == IF there THEN "removing" ELSE "removed"
           t == IF there THEN RemovePortalExt(Lines(file), DroppedKey) ELSE Nothing
           h == [NoRead EXCEPT !.drops = {DroppedKey}]
<1>1. /\ o.op = "run" /\ o.step = "synced"
      /\ cmd' = [cmd EXCEPT ![a] = [o EXCEPT !.step = step, !.text = t]]
      /\ held' = [held EXCEPT ![a] = h]
      /\ orphaned' = (orphaned \/ (there /\ LeavesAMark(Lines(file), DroppedKey)))
      /\ UNCHANGED <<files, wish, asked, raced, torn, begun>>
  BY DEF ReadToRemove, At
<1>2. /\ IsRecord(o) /\ o.dry \in BOOLEAN /\ o.moved \in BOOLEAN
      /\ o.meta \in Metas /\ meta \in Metas
  BY <1>1, WhoActs
<1>3. Holds(h, <<>>, {DroppedKey}) BY NewHold
<1>4. [o EXCEPT !.step = step, !.text = t] =
        [op |-> o.op, step |-> step, dry |-> o.dry, moved |-> o.moved,
         meta |-> o.meta, inputs |-> o.inputs, text |-> t]
  BY <1>2, WithText
<1> HIDE DEF o, h
<1>5. Becomes(a, [op |-> o.op, step |-> step, dry |-> o.dry, moved |-> o.moved,
                  meta |-> o.meta, inputs |-> o.inputs, text |-> t], h)
  BY <1>1, <1>4 DEF Becomes, o
<1>6. ~Past(cmd[a]) BY <1>1, NotPast DEF o
<1>7. DroppedKey \in Key BY KeysAssumption
<1>8. CASE there
  <2>1. step = "removing" /\ t = RemovePortalExt(Lines(file), DroppedKey) BY <1>8
  <2>2. /\ Follows(t, <<>>, {DroppedKey})
        /\ ~orphaned /\ ~LeavesAMark(Lines(file), DroppedKey) => Asked(t, asked)
    BY <1>7, <1>8, <2>1, RemovalFollows
  <2>3. ~orphaned' => Asked(t, asked') BY <1>1, <1>8, <2>2 DEF Asked
  <2>4. /\ UNCHANGED <<layer, file, aside, original, manifest, meta, wish, raced, torn>>
        /\ asked \subseteq asked' /\ (orphaned => orphaned')
    BY <1>1 DEF files
  <2>5. /\ step \in Writing \ {"merging"}
        /\ step = "setting" => o.op \in {"edit", "rebuild"}
        /\ step = "removing" => o.op = "run"
    BY <1>1, <2>1 DEF Writing, o
  <2>6. o.op # "reset" BY <1>1
  <2> HIDE DEF step, t
  <2> QED BY <1>2, <1>3, <1>5, <1>6, <2>2, <2>3, <2>4, <2>5, <2>6, WritingKeeps
<1>9. CASE ~there
  <2>1. step = "removed" /\ t = Nothing BY <1>9
  <2>2. t \in Files BY <2>1 DEF Files
  <2>3. IsHeld(h) /\ h.props = <<>> BY <1>3, NoProps DEF Holds, IsHeld
  <2>4. Still BY <1>1, <1>2 DEF Still, files
  <2>5. step \notin Hot \cup {"idle", "considering"} BY <2>1 DEF Hot, Writing, Merging
  <2>6. o.op = "run" BY <1>1 DEF o
  <2>7. ~orphaned' => Asked(t, asked') /\ Important(h.props) \subseteq asked'
    BY <2>1, <2>3, NoMarks, NoProps DEF Asked
  <2> HIDE DEF step, t
  <2> QED BY <1>2, <1>5, <1>6, <2>2, <2>3, <2>4, <2>5, <2>6, <2>7, LookingKeeps
<1> QED BY <1>8, <1>9

\* A run reads the file to inject what the database decides.
LEMMA ReadToInjectKeeps ==
  ASSUME PropertiesIInv, NEW a \in Actors, ReadToInject(a)
  PROVE  PropertiesIInv'
<1> DEFINE o == cmd[a]
           new == Injected(o.meta)
           step == IF DOMAIN new = {} THEN "composed" ELSE "injecting"
           t == Update(file, new, {})
           h == [NoRead EXCEPT !.drops = DOMAIN new]
<1>1. /\ o.step = "removed"
      /\ cmd' = [cmd EXCEPT ![a] = [o EXCEPT !.step = step, !.text = t]]
      /\ held' = [held EXCEPT ![a] = h]
      /\ UNCHANGED <<files, history, begun>>
  BY DEF ReadToInject
<1>2. /\ IsRecord(o) /\ o.dry \in BOOLEAN /\ o.moved \in BOOLEAN
      /\ o.meta \in Metas /\ meta \in Metas
  BY <1>1, WhoActs
<1>3. Holds(h, <<>>, DOMAIN new) BY NewHold
<1>4. IsHost(new) /\ file \in Files BY <1>2, TheFile, MetasHosts
<1>5. IsUpdate(t, file, new, {}) BY <1>4, UpdateFile
<1>6. (DOMAIN new = {} => step = "composed") /\ (DOMAIN new # {} => step = "injecting") OBVIOUS
<1> HIDE DEF new, step, t, h
<1>7. [o EXCEPT !.step = step, !.text = t] =
        [op |-> o.op, step |-> step, dry |-> o.dry, moved |-> o.moved,
         meta |-> o.meta, inputs |-> o.inputs, text |-> t]
  BY <1>2, WithText
<1> HIDE DEF o
<1>8. Becomes(a, [op |-> o.op, step |-> step, dry |-> o.dry, moved |-> o.moved,
                  meta |-> o.meta, inputs |-> o.inputs, text |-> t], h)
  BY <1>1, <1>7 DEF Becomes, o
<1>9. o.op # "reset" /\ ~Past(cmd[a])
  <2>1. cmd[a].op = "run" BY <1>1, WhoActs DEF IsCommand, o
  <2> QED BY <2>1, NotPast DEF o
<1>10. t \in Files /\ DOMAIN Props(t) = DOMAIN Props(file) \cup DOMAIN new BY <1>5 DEF IsUpdate
<1>11. ASSUME ~orphaned' PROVE Asked(t, asked')
  <2>1. Asked(file, asked) BY <1>1, <1>11, TheFile DEF history
  <2> QED BY <1>1, <1>5, <2>1 DEF Asked, IsUpdate, Important, history
<1>12. CASE DOMAIN new # {}
  <2>1. step = "injecting" BY <1>6, <1>12
  <2>2. t # Nothing BY <1>10, <1>12, NothingSet
  <2>3. Follows(t, <<>>, DOMAIN new)
    <3>1. \A x \in DOMAIN Props(t) : x \notin DOMAIN new => Props(t)[x].value = Props(file)[x].value
      BY <1>5 DEF IsUpdate
    <3> QED BY <1>10, <2>2, <3>1, NoProps DEF Follows, HonouredBy
  <2>4. /\ UNCHANGED <<layer, file, aside, original, manifest, meta, wish, raced, torn>>
        /\ asked \subseteq asked' /\ (orphaned => orphaned')
    BY <1>1 DEF files, history
  <2>5. step \in Writing \ {"merging"} /\ step # "setting" /\ step # "removing"
    BY <2>1 DEF Writing
  <2> QED BY <1>2, <1>3, <1>8, <1>9, <1>11, <2>3, <2>4, <2>5, WritingKeeps
<1>13. CASE DOMAIN new = {}
  <2>1. step = "composed" BY <1>6, <1>13
  <2>2. IsHeld(h) /\ h.props = <<>> BY <1>3, NoProps DEF Holds, IsHeld
  <2>3. Still BY <1>1, <1>2 DEF Still, files, history
  <2>4. step \notin Hot \cup {"idle", "considering"} BY <2>1 DEF Hot, Writing, Merging
  <2>5. ~orphaned' => Asked(t, asked') /\ Important(h.props) \subseteq asked'
    BY <1>11, <2>2, NoProps
  <2>6. t \in Files /\ (step \in {"removing", "removed"} => o.op = "run") BY <1>10, <2>1
  <2> QED BY <1>2, <1>8, <1>9, <2>2, <2>3, <2>4, <2>5, <2>6, LookingKeeps
<1> QED BY <1>12, <1>13

-----------------------------------------------------------------------------
(* The steps that write the file.                                          *)

\* The new text has what the user set, whatever the other commands hold.
LEMMA WriteBackKeeps ==
  ASSUME PropertiesIInv, NEW a \in Actors, NEW c, NEW h,
         cmd[a].step \in Writing, WriteBack(a), Becomes(a, c, h),
         IsCommand(c), IsHeld(h), Fits(c, h),
         c.step \notin Writing \cup {"resolved", "diffed"},
         ~orphaned => Faithful(c, h) /\ Marks(c, h, asked),
         Stays(cmd[a], c)
  PROVE  PropertiesIInv'
<1> DEFINE o == cmd[a]
           g == held[a]
           alone == \A b \in Actors \ {a} : ~Holding(b)
           new == IF alone THEN g.sets ELSE <<>>
<1>1. /\ file' = o.text
      /\ wish' = Over(new, Without(wish, g.drops \cup DOMAIN g.sets))
      /\ UNCHANGED <<layer, aside, original, manifest, meta, asked, raced, torn,
                     orphaned, begun>>
  BY DEF WriteBack
<1>2. PropertiesTypeOK /\ MarksAreAsked /\ RecordsAgree /\ WishesAreKept BY DEF PropertiesIInv
<1>3. /\ cmd'[a] = c /\ held'[a] = h
      /\ \A x \in Actors : x # a => cmd'[x] = cmd[x] /\ held'[x] = held[x]
  BY <1>2, TheOthers
<1>4. IsCommand(o) /\ Fits(o, g) /\ meta \in Metas BY WhoActs
<1>5. o.text \in Files /\ o.text # Nothing /\ HonouredBy(o.text, g.sets)
  BY <1>4 DEF IsCommand, Fits
<1>6. TextsTyped' BY <1>1, <1>2, <1>5 DEF PropertiesTypeOK, TextsTyped
<1>7. CommandsTyped'
  <2>1. meta' \in Metas BY <1>1, <1>4
  <2> QED BY <1>2, <2>1, CommandsStayTyped
<1>8. MarksAreAsked'
  <2>1. SUFFICES ASSUME ~orphaned PROVE MarksAreAsked' BY <1>1 DEF MarksAreAsked
  <2>2. /\ Asked(aside, asked) /\ Asked(original, asked)
        /\ Important(Seed) \subseteq asked
        /\ \A l \in Shared : Important(layer[l]) \subseteq asked
        /\ \A x \in Actors : Marks(cmd[x], held[x], asked)
    BY <1>2, <2>1 DEF MarksAreAsked
  <2>3. Asked(o.text, asked) BY <2>2 DEF Marks
  <2>4. Marks(c, h, asked) BY <2>1
  <2>5. ASSUME NEW x \in Actors PROVE Marks(cmd'[x], held'[x], asked)
    <3>1. CASE x = a BY <1>3, <2>4, <3>1
    <3>2. CASE x # a BY <1>3, <2>2, <3>2
    <3> QED BY <3>1, <3>2
  <2> QED BY <1>1, <2>2, <2>3, <2>5 DEF MarksAreAsked
<1>9. RecordsAgree'
  <2>1. SUFFICES ASSUME ~orphaned PROVE RecordsAgree' BY <1>1 DEF RecordsAgree
  <2>2. /\ \A x \in Actors : Faithful(cmd[x], held[x])
        /\ ~raced /\ manifest # Nothing => Agrees(manifest, manifest.target)
    BY <1>2, <2>1 DEF RecordsAgree
  <2>3. Faithful(c, h) BY <2>1
  <2>4. ASSUME NEW x \in Actors PROVE Faithful(cmd'[x], held'[x])
    <3>1. CASE x = a BY <1>3, <2>3, <3>1
    <3>2. CASE x # a BY <1>3, <2>2, <3>2
    <3> QED BY <3>1, <3>2
  <2> QED BY <1>1, <2>2, <2>4 DEF RecordsAgree
<1>10. WishesAreKept'
  <2>1. SUFFICES ASSUME ~torn PROVE WishesAreKept' BY <1>1 DEF WishesAreKept
  <2>2. /\ \A x, y \in Actors : Past(cmd[x]) /\ Past(cmd[y]) => x = y
        /\ Calm => HonouredBy(file, wish) /\ \A x \in Actors : Keeps(cmd[x], held[x], wish)
    BY <1>2, <2>1 DEF WishesAreKept
  <2>3. \A x \in Actors : Stays(cmd[x], cmd'[x])
    <3>1. SUFFICES ASSUME NEW x \in Actors PROVE Stays(cmd[x], cmd'[x]) OBVIOUS
    <3>2. CASE x = a BY <1>3, <3>2
    <3>3. CASE x # a BY <1>3, <3>3 DEF Stays
    <3> QED BY <3>2, <3>3
  <2>4. ASSUME NEW x \in Actors, NEW y \in Actors, Past(cmd'[x]), Past(cmd'[y]) PROVE x = y
    BY <2>2, <2>3, <2>4 DEF Stays
  <2>5. /\ DOMAIN wish' = DOMAIN new \cup Kept(g, wish)
        /\ \A k \in DOMAIN wish' : wish'[k] = IF k \in DOMAIN new THEN new[k] ELSE wish[k]
    <3> HIDE DEF new
    <3> QED BY <1>1 DEF Over, Without, Kept
  <2>6. (alone => new = g.sets) /\ (~alone => DOMAIN new = {}) BY NoProps
  <2> HIDE DEF new, alone
  <2>7. ASSUME Calm'
        PROVE  HonouredBy(file', wish') /\ \A x \in Actors : Keeps(cmd'[x], held'[x], wish')
    <3>1. Calm BY <2>3, <2>7 DEF Calm, Stays
    <3>2. \A k \in Kept(g, wish) : k \in DOMAIN Props(o.text) /\ Props(o.text)[k].value = wish[k]
      BY <2>2, <3>1 DEF Keeps
    <3>3. \A k \in DOMAIN new : k \in DOMAIN Props(o.text) /\ Props(o.text)[k].value = new[k]
      <4>1. CASE alone BY <1>5, <2>6, <4>1 DEF HonouredBy
      <4>2. CASE ~alone BY <2>6, <4>2
      <4> QED BY <4>1, <4>2
    <3>4. HonouredBy(o.text, wish') BY <2>5, <3>2, <3>3 DEF HonouredBy
    <3>5. ASSUME NEW x \in Actors PROVE Keeps(cmd'[x], held'[x], wish')
      <4>1. CASE x = a BY <1>3, <4>1 DEF Keeps
      <4>2. CASE x # a /\ Holding(x)
        <5>1. DOMAIN new = {} BY <2>6, <4>2 DEF alone
        <5>2. /\ Kept(held[x], wish') \subseteq Kept(held[x], wish)
              /\ \A k \in Kept(held[x], wish') : wish'[k] = wish[k]
          BY <2>5, <5>1 DEF Kept
        <5>3. Keeps(cmd[x], held[x], wish) BY <2>2, <3>1
        <5>4. Keeps(cmd[x], held[x], wish') BY <5>2, <5>3 DEF Keeps
        <5> QED BY <1>3, <4>2, <5>4
      <4>3. CASE x # a /\ ~Holding(x)
        <5>1. cmd[x].step \notin Writing /\ cmd[x].step \notin {"resolved", "diffed"}
          BY <4>3 DEF Holding
        <5> QED BY <1>3, <4>3, <5>1 DEF Keeps
      <4> QED BY <4>1, <4>2, <4>3
    <3> QED BY <1>1, <3>4, <3>5
  <2>8. file' # Nothing BY <1>1, <1>5
  <2> QED BY <2>4, <2>7, <2>8 DEF WishesAreKept
<1> QED BY <1>6, <1>7, <1>8, <1>9, <1>10 DEF PropertiesIInv, PropertiesTypeOK

\* A text is written, and its command goes on.
LEMMA WrittenKeeps ==
  ASSUME PropertiesIInv, NEW a \in Actors, NEW s,
         WriteBack(a), Goto(a, s), UNCHANGED held,
         \/ cmd[a].step = "merging" /\ s = "merged"
         \/ cmd[a].step = "removing" /\ s = "removed"
         \/ cmd[a].step = "injecting" /\ s = "composed"
  PROVE  PropertiesIInv'
<1> DEFINE o == cmd[a]
           h == held[a]
           c == [op |-> o.op, step |-> s, dry |-> o.dry, moved |-> o.moved,
                 meta |-> o.meta, inputs |-> o.inputs, text |-> o.text]
<1>1. /\ IsRecord(o) /\ IsCommand(o) /\ IsHeld(h) /\ o.dry \in BOOLEAN /\ o.moved \in BOOLEAN
      /\ held = [held EXCEPT ![a] = h]
  BY WhoActs
<1>2. cmd' = [cmd EXCEPT ![a] = [o EXCEPT !.step = s]] BY DEF Goto
<1>3. [o EXCEPT !.step = s] = c BY <1>1, WithStep
<1>4. /\ IsRecord(c) /\ c.op = o.op /\ c.step = s /\ c.dry = o.dry /\ c.moved = o.moved
      /\ c.meta = o.meta /\ c.inputs = o.inputs /\ c.text = o.text
  BY DEF IsRecord
<1> HIDE DEF c, h
<1>5. Becomes(a, c, h) BY <1>1, <1>2, <1>3 DEF Becomes, h
<1>6. o.step \in Writing /\ o.step # "idle" BY DEF Writing
<1>7. o.meta \in Metas /\ o.text \in Files BY <1>1, <1>6 DEF IsCommand
<1>8. s \notin Writing \cup {"resolved", "diffed", "setting", "considering", "hashed", "idle"}
  BY DEF Writing
<1>9. IsCommand(c)
  <2>1. c.step \in Merging => IsInputs(c.inputs) /\ c.inputs.host = HostOf(c)
    <3>1. CASE o.step = "merging"
      <4>1. IsInputs(o.inputs) /\ o.inputs.host = HostOf(o) BY <1>1, <3>1 DEF IsCommand, Merging
      <4> QED BY <1>4, <4>1 DEF HostOf
    <3>2. CASE o.step # "merging" BY <1>4, <3>2 DEF Merging
    <3> QED BY <3>1, <3>2
  <2>2. c.step \in {"removing", "removed"} => c.op = "run" BY <1>1, <1>4 DEF IsCommand
  <2> QED BY <1>1, <1>4, <1>7, <1>8, <2>1, <2>2 DEF IsCommand
<1>10. Fits(c, h) BY <1>4, <1>8 DEF Fits
<1>11. ~orphaned => Faithful(c, h) /\ Marks(c, h, asked)
  <2>1. SUFFICES ASSUME ~orphaned PROVE Faithful(c, h) /\ Marks(c, h, asked) OBVIOUS
  <2>2. Faithful(o, h) /\ Marks(o, h, asked) BY <2>1, TheFile DEF h
  <2>3. Marks(c, h, asked) BY <1>4, <2>2 DEF Marks
  <2>4. Faithful(c, h)
    <3>1. CASE o.step = "merging" BY <1>4, <2>2, <3>1 DEF Faithful
    <3>2. CASE o.step # "merging" BY <1>4, <3>2 DEF Faithful
    <3> QED BY <3>1, <3>2
  <2> QED BY <2>3, <2>4
<1>12. Stays(cmd[a], c) BY <1>4 DEF Stays, Past
<1>13. c.step \notin Writing \cup {"resolved", "diffed"} BY <1>4, <1>8
<1> QED BY <1>1, <1>5, <1>6, <1>9, <1>10, <1>11, <1>12, <1>13, WriteBackKeeps DEF h

\* A merge, a removal and an injection.
LEMMA MergeKeeps ==
  ASSUME PropertiesIInv, NEW a \in Actors, Merge(a) \/ TakeOut(a) \/ Inject(a)
  PROVE  PropertiesIInv'
<1>1. CASE Merge(a)
  <2>1. cmd[a].step = "merging" /\ WriteBack(a) /\ Goto(a, "merged") /\ UNCHANGED held
    BY <1>1 DEF Merge
  <2> QED BY <2>1, WrittenKeeps
<1>2. CASE TakeOut(a)
  <2>1. cmd[a].step = "removing" /\ WriteBack(a) /\ Goto(a, "removed") /\ UNCHANGED held
    BY <1>2 DEF TakeOut
  <2> QED BY <2>1, WrittenKeeps
<1>3. CASE Inject(a)
  <2>1. cmd[a].step = "injecting" /\ WriteBack(a) /\ Goto(a, "composed") /\ UNCHANGED held
    BY <1>3 DEF Inject
  <2> QED BY <2>1, WrittenKeeps
<1> QED BY <1>1, <1>2, <1>3

\* What the user set is written; then a rebuild begins, or the list is shown again.
LEMMA SetKeeps ==
  ASSUME PropertiesIInv, NEW a \in Actors, Set(a)
  PROVE  PropertiesIInv'
<1> DEFINE o == cmd[a]
           op == IF o.op = "edit" THEN "edit" ELSE "rebuild"
           s == IF o.op = "edit" THEN "listing" ELSE "read"
           c == IF o.op = "edit" THEN [Begin(a, "edit", FALSE) EXCEPT !.step = "listing"]
                ELSE Begin(a, "rebuild", FALSE)
           h == NoRead
<1>1. /\ o.step = "setting" /\ WriteBack(a)
      /\ cmd' = [cmd EXCEPT ![a] = c] /\ held' = [held EXCEPT ![a] = h]
  BY DEF Set
<1>2. IsCommand(o) /\ meta \in Metas BY WhoActs
<1>3. o.op \in {"edit", "rebuild"} BY <1>1, <1>2 DEF IsCommand
<1>4. /\ o.op = "edit" => op = "edit" /\ s = "listing"
      /\ o.op # "edit" => op = "rebuild" /\ s = "read"
  OBVIOUS
<1>5. IsFresh(c, op, s, meta)
  <2>1. CASE o.op = "edit" BY <2>1, BegunAt
  <2>2. CASE o.op # "edit" BY <2>2, BegunFresh
  <2> QED BY <2>1, <2>2
<1> HIDE DEF op, s, c, h
<1>6. /\ IsRecord(c) /\ c.op = op /\ c.step = s /\ c.dry \in BOOLEAN /\ c.moved = FALSE
      /\ c.meta = meta /\ c.inputs = Nothing /\ c.text = Nothing
  BY <1>5 DEF IsFresh
<1>7. Becomes(a, c, h) BY <1>1 DEF Becomes
<1>8. s \in {"listing", "read"} /\ op \in {"edit", "rebuild"} BY <1>4
<1>9. IsCommand(c)
  <2>1. Nothing \in Files BY DEF Files
  <2>2. c.step \notin Writing /\ c.step \notin Merging BY <1>6, <1>8 DEF Writing, Merging
  <2> QED BY <1>2, <1>6, <1>8, <2>1, <2>2 DEF IsCommand
<1>10. IsHeld(h) /\ h.props = <<>> BY NothingHeld DEF h
<1>11. /\ c.step \notin Writing \cup {"resolved", "diffed"} /\ c.step # "diffed"
       /\ c.step \notin {"merging", "merged"}
  BY <1>6, <1>8 DEF Writing
<1>12. Fits(c, h) /\ Faithful(c, h) BY <1>11 DEF Fits, Faithful
<1>13. Marks(c, h, asked) BY <1>6, <1>10, NoMarks, NoProps DEF Marks, Asked
<1>14. Stays(cmd[a], c) BY <1>1, <1>3, <1>6, <1>8 DEF Stays, Past, o
<1>15. cmd[a].step \in Writing BY <1>1 DEF Writing
<1> QED BY <1>1, <1>7, <1>9, <1>10, <1>11, <1>12, <1>13, <1>14, <1>15, WriteBackKeeps

\* The manifest records what was merged.
LEMMA RecordKeeps ==
  ASSUME PropertiesIInv, NEW a \in Actors, Record(a)
  PROVE  PropertiesIInv'
<1> DEFINE o == cmd[a]
           g == held[a]
           m == Login(o, file)
           c == [op |-> o.op, step |-> "synced", dry |-> o.dry, moved |-> o.moved,
                 meta |-> m, inputs |-> Nothing, text |-> Nothing]
           h == NoRead
<1>1. /\ o.step = "merged"
      /\ original' = IF original = Nothing THEN file ELSE original
      /\ manifest' = [o.inputs EXCEPT !.target = file]
      /\ raced' = (g.crossed \/ file # o.text)
      /\ cmd' = [cmd EXCEPT ![a] = [o EXCEPT !.step = "synced", !.inputs = Nothing,
                                             !.text = Nothing, !.meta = m]]
      /\ held' = [held EXCEPT ![a] = h]
      /\ UNCHANGED <<layer, file, aside, meta, wish, asked, torn, orphaned, begun>>
  BY DEF Record, Hashed
<1>2. PropertiesTypeOK /\ MarksAreAsked /\ RecordsAgree /\ WishesAreKept BY DEF PropertiesIInv
<1>3. /\ IsRecord(o) /\ IsCommand(o) /\ o.dry \in BOOLEAN /\ o.moved \in BOOLEAN
      /\ meta \in Metas
  BY WhoActs
<1>4. IsInputs(o.inputs) BY <1>1, <1>3 DEF IsCommand, Merging
<1>5. m \in Metas BY <1>1, LoginIsMeta
<1> HIDE DEF m
<1>6. [o EXCEPT !.step = "synced", !.inputs = Nothing, !.text = Nothing, !.meta = m] = c
  <2> DEFINE d == [o EXCEPT !.step = "synced", !.inputs = Nothing, !.text = Nothing, !.meta = m]
  <2>1. IsRecord(o) BY <1>3
  <2>2. HasFields(d, o.op, "synced", o.dry, o.moved, m, Nothing, Nothing) BY <2>1, WithRecord
  <2> HIDE DEF d
  <2>3. d = c BY <2>2 DEF HasFields
  <2> QED BY <2>3 DEF d
<1>7. /\ IsRecord(c) /\ c.op = o.op /\ c.step = "synced" /\ c.dry = o.dry /\ c.moved = o.moved
      /\ c.meta = m /\ c.inputs = Nothing /\ c.text = Nothing
  BY DEF IsRecord
<1> HIDE DEF c, h
<1>8. Becomes(a, c, h) BY <1>1, <1>6 DEF Becomes
<1>9. /\ cmd'[a] = c /\ held'[a] = h
      /\ \A x \in Actors : x # a => cmd'[x] = cmd[x] /\ held'[x] = held[x]
  BY <1>2, <1>8, TheOthers
<1>10. IsHeld(h) /\ h.props = <<>> BY NothingHeld DEF h
<1>11. /\ c.step \notin Writing /\ c.step \notin Merging /\ c.step # "diffed"
       /\ c.step \notin {"resolved", "diffed"} /\ c.step \notin {"merging", "merged"}
  BY <1>7 DEF Writing, Merging
<1>12. IsCommand(c)
  <2>1. Nothing \in Files BY DEF Files
  <2> QED BY <1>3, <1>5, <1>7, <1>11, <2>1 DEF IsCommand
<1>13. Fits(c, h) /\ Faithful(c, h) /\ Keeps(c, h, wish) BY <1>11 DEF Fits, Faithful, Keeps
<1>14. Marks(c, h, asked) BY <1>7, <1>10, NoMarks, NoProps DEF Marks, Asked
<1>15. TextsTyped'
  <2>1. original' \in Files BY <1>1, <1>2 DEF PropertiesTypeOK, TextsTyped
  <2> QED BY <1>1, <1>2, <2>1 DEF PropertiesTypeOK, TextsTyped
<1>16. CommandsTyped'
  <2>1. meta' \in Metas BY <1>1, <1>3
  <2> QED BY <1>2, <1>8, <1>10, <1>12, <1>13, <2>1, CommandsStayTyped
<1>17. MarksAreAsked'
  <2>1. SUFFICES ASSUME ~orphaned PROVE MarksAreAsked' BY <1>1 DEF MarksAreAsked
  <2>2. /\ Asked(file, asked) /\ Asked(aside, asked) /\ Asked(original, asked)
        /\ Important(Seed) \subseteq asked
        /\ \A l \in Shared : Important(layer[l]) \subseteq asked
        /\ \A x \in Actors : Marks(cmd[x], held[x], asked)
    BY <1>2, <2>1 DEF MarksAreAsked
  <2>3. Asked(original', asked) BY <1>1, <2>2
  <2>4. ASSUME NEW x \in Actors PROVE Marks(cmd'[x], held'[x], asked)
    <3>1. CASE x = a BY <1>9, <1>14, <3>1
    <3>2. CASE x # a BY <1>9, <2>2, <3>2
    <3> QED BY <3>1, <3>2
  <2> QED BY <1>1, <2>2, <2>3, <2>4 DEF MarksAreAsked
<1>18. RecordsAgree'
  <2>1. SUFFICES ASSUME ~orphaned PROVE RecordsAgree' BY <1>1 DEF RecordsAgree
  <2>2. \A x \in Actors : Faithful(cmd[x], held[x]) BY <1>2, <2>1 DEF RecordsAgree
  <2>3. ASSUME NEW x \in Actors PROVE Faithful(cmd'[x], held'[x])
    <3>1. CASE x = a BY <1>9, <1>13, <3>1
    <3>2. CASE x # a BY <1>9, <2>2, <3>2
    <3> QED BY <3>1, <3>2
  <2>4. manifest' = Inputs(o.inputs.layers, file, o.inputs.host)
    <3> DEFINE r == o.inputs
    <3>1. r = [layers |-> r.layers, target |-> r.target, host |-> r.host]
      BY <1>4 DEF IsInputs, Inputs
    <3> HIDE DEF r
    <3>2. [r EXCEPT !.target = file] = [layers |-> r.layers, target |-> file, host |-> r.host]
      BY <3>1
    <3> QED BY <1>1, <3>2 DEF Inputs, r
  <2>5. ASSUME ~raced' PROVE Agrees(manifest', manifest'.target)
    <3>1. ~g.crossed /\ file = o.text BY <1>1, <2>5
    <3>2. Agrees(o.inputs, file) BY <1>1, <2>2, <3>1 DEF Faithful
    <3>3. /\ manifest'.layers = o.inputs.layers /\ manifest'.target = file
          /\ manifest'.host = o.inputs.host
      BY <2>4 DEF Inputs
    <3> HIDE DEF o, g
    <3> QED BY <2>4, <3>2, <3>3 DEF Agrees
  <2> QED BY <2>3, <2>5 DEF RecordsAgree
<1>19. WishesAreKept'
  <2>1. SUFFICES ASSUME ~torn PROVE WishesAreKept' BY <1>1 DEF WishesAreKept
  <2>2. /\ \A x, y \in Actors : Past(cmd[x]) /\ Past(cmd[y]) => x = y
        /\ Calm => HonouredBy(file, wish) /\ \A x \in Actors : Keeps(cmd[x], held[x], wish)
        /\ \A x \in Actors :
             Past(cmd[x]) /\ cmd[x].dry /\ file = Nothing => WillReturn(cmd[x], aside, wish)
    BY <1>2, <2>1 DEF WishesAreKept
  <2>3. ASSUME NEW x \in Actors
        PROVE  /\ Past(cmd'[x]) <=> Past(cmd[x])
               /\ cmd'[x].dry = cmd[x].dry /\ cmd'[x].moved = cmd[x].moved
    <3>1. CASE x = a BY <1>1, <1>7, <1>9, <3>1 DEF Past
    <3>2. CASE x # a BY <1>9, <3>2
    <3> QED BY <3>1, <3>2
  <2>4. ASSUME Calm, NEW x \in Actors PROVE Keeps(cmd'[x], held'[x], wish)
    <3>1. CASE x = a BY <1>9, <1>13, <3>1
    <3>2. CASE x # a BY <1>9, <2>2, <2>4, <3>2
    <3> QED BY <3>1, <3>2
  <2>5. Calm' => Calm BY <2>3 DEF Calm
  <2>6. \A x, y \in Actors : Past(cmd'[x]) /\ Past(cmd'[y]) => x = y BY <2>2, <2>3
  <2>7. Calm' => HonouredBy(file', wish') /\ \A x \in Actors : Keeps(cmd'[x], held'[x], wish')
    BY <1>1, <2>2, <2>4, <2>5
  <2>8. \A x \in Actors :
          Past(cmd'[x]) /\ cmd'[x].dry /\ file' = Nothing => WillReturn(cmd'[x], aside', wish')
    BY <1>1, <2>2, <2>3 DEF WillReturn
  <2> QED BY <2>6, <2>7, <2>8 DEF WishesAreKept
<1> QED BY <1>15, <1>16, <1>17, <1>18, <1>19 DEF PropertiesIInv, PropertiesTypeOK

-----------------------------------------------------------------------------
(* A reset, and what the user does beside the commands.                    *)

\* A reset moves the file out of the way.
LEMMA MoveAsideKeeps ==
  ASSUME PropertiesIInv, NEW a \in Actors, MoveAside(a)
  PROVE  PropertiesIInv'
<1> DEFINE o == cmd[a]
           h == held[a]
           there == file # Nothing
           c == [op |-> o.op, step |-> "aside", dry |-> o.dry, moved |-> there,
                 meta |-> o.meta, inputs |-> o.inputs, text |-> o.text]
<1>1. /\ o.op = "reset" /\ o.step = "read"
      /\ file' = Nothing
      /\ aside' = IF there THEN file ELSE aside
      /\ cmd' = [cmd EXCEPT ![a] = [o EXCEPT !.step = "aside", !.moved = there]]
      /\ wish' = IF o.dry THEN wish ELSE <<>>
      /\ torn' = (torn \/ Resetting # {a})
      /\ UNCHANGED <<layer, original, manifest, meta, held, asked, raced, orphaned, begun>>
  BY DEF MoveAside, At
<1>2. PropertiesTypeOK /\ MarksAreAsked /\ RecordsAgree /\ WishesAreKept BY DEF PropertiesIInv
<1>3. /\ IsRecord(o) /\ IsCommand(o) /\ IsHeld(h) /\ Fits(o, h) /\ o.dry \in BOOLEAN
      /\ meta \in Metas /\ o.meta \in Metas /\ held = [held EXCEPT ![a] = h]
  BY <1>1, WhoActs
<1>4. there \in BOOLEAN OBVIOUS
<1> HIDE DEF there
<1>5. [o EXCEPT !.step = "aside", !.moved = there] = c BY <1>3, WithMoved
<1>6. /\ IsRecord(c) /\ c.op = o.op /\ c.step = "aside" /\ c.dry = o.dry /\ c.moved = there
      /\ c.meta = o.meta /\ c.inputs = o.inputs /\ c.text = o.text
  BY DEF IsRecord
<1> HIDE DEF c, h
<1>7. Becomes(a, c, h) BY <1>1, <1>3, <1>5 DEF Becomes
<1>8. /\ cmd'[a] = c /\ held'[a] = h
      /\ \A x \in Actors : x # a => cmd'[x] = cmd[x] /\ held'[x] = held[x]
  BY <1>2, <1>7, TheOthers
<1>9. /\ c.step \notin Writing /\ c.step \notin Merging /\ c.step # "diffed"
      /\ c.step \notin {"resolved", "diffed"} /\ c.step \notin {"merging", "merged"}
  BY <1>6 DEF Writing, Merging
<1>10. IsCommand(c)
  <2>1. o.text \in Files BY <1>3 DEF IsCommand
  <2> QED BY <1>3, <1>4, <1>6, <1>9, <2>1 DEF IsCommand
<1>11. Fits(c, h) /\ Faithful(c, h) BY <1>9 DEF Fits, Faithful
<1>12. TextsTyped'
  <2>1. Nothing \in Files /\ aside' \in Files
    BY <1>1, <1>2 DEF PropertiesTypeOK, TextsTyped, Files
  <2> QED BY <1>1, <1>2, <2>1 DEF PropertiesTypeOK, TextsTyped
<1>13. CommandsTyped'
  <2>1. meta' \in Metas BY <1>1, <1>3
  <2> QED BY <1>2, <1>3, <1>7, <1>10, <1>11, <2>1, CommandsStayTyped
<1>14. MarksAreAsked'
  <2>1. SUFFICES ASSUME ~orphaned PROVE MarksAreAsked' BY <1>1 DEF MarksAreAsked
  <2>2. /\ Asked(file, asked) /\ Asked(aside, asked) /\ Asked(original, asked)
        /\ Important(Seed) \subseteq asked
        /\ \A l \in Shared : Important(layer[l]) \subseteq asked
        /\ \A x \in Actors : Marks(cmd[x], held[x], asked)
    BY <1>2, <2>1 DEF MarksAreAsked
  <2>3. Asked(Nothing, asked) BY NoMarks DEF Asked
  <2>4. Asked(aside', asked) BY <1>1, <2>2
  <2>5. ASSUME NEW x \in Actors PROVE Marks(cmd'[x], held'[x], asked)
    <3>1. CASE x = a
      <4>1. Marks(o, h, asked) BY <2>2 DEF h
      <4> QED BY <1>6, <1>8, <3>1, <4>1 DEF Marks
    <3>2. CASE x # a BY <1>8, <2>2, <3>2
    <3> QED BY <3>1, <3>2
  <2> QED BY <1>1, <2>2, <2>3, <2>4, <2>5 DEF MarksAreAsked
<1>15. RecordsAgree'
  <2>1. SUFFICES ASSUME ~orphaned PROVE RecordsAgree' BY <1>1 DEF RecordsAgree
  <2>2. /\ \A x \in Actors : Faithful(cmd[x], held[x])
        /\ ~raced /\ manifest # Nothing => Agrees(manifest, manifest.target)
    BY <1>2, <2>1 DEF RecordsAgree
  <2>3. ASSUME NEW x \in Actors PROVE Faithful(cmd'[x], held'[x])
    <3>1. CASE x = a BY <1>8, <1>11, <3>1
    <3>2. CASE x # a BY <1>8, <2>2, <3>2
    <3> QED BY <3>1, <3>2
  <2> QED BY <1>1, <2>2, <2>3 DEF RecordsAgree
<1>16. WishesAreKept'
  <2>1. SUFFICES ASSUME ~torn, Resetting = {a} PROVE WishesAreKept' BY <1>1 DEF WishesAreKept
  <2>2. \A x \in Actors : ~Past(cmd[x])
    <3>1. ASSUME NEW x \in Actors, Past(cmd[x]) PROVE FALSE
      <4>1. x \in Resetting BY <3>1 DEF Past, Resetting, Idle
      <4>2. x = a BY <2>1, <4>1
      <4> QED BY <1>1, <3>1, <4>2 DEF Past
    <3> QED BY <3>1
  <2>3. Calm BY <2>2 DEF Calm
  <2>4. HonouredBy(file, wish) BY <1>2, <2>1, <2>3 DEF WishesAreKept
  <2>5. \A x \in Actors : Past(cmd'[x]) => x = a BY <1>8, <2>2
  <2>6. Past(cmd'[a]) /\ cmd'[a].dry = o.dry /\ cmd'[a].moved = there
    BY <1>1, <1>6, <1>8 DEF Past
  <2>7. ASSUME Calm'
        PROVE  HonouredBy(file', wish') /\ \A x \in Actors : Keeps(cmd'[x], held'[x], wish')
    <3>1. ~o.dry BY <2>6, <2>7 DEF Calm
    <3>2. DOMAIN wish' = {} BY <1>1, <3>1, NoProps
    <3> QED BY <3>2 DEF HonouredBy, Keeps, Kept
  <2>8. ASSUME o.dry PROVE WillReturn(cmd'[a], aside', wish')
    <3>1. wish' = wish BY <1>1, <2>8
    <3>2. CASE there
      <4>1. aside' = file BY <1>1, <3>2
      <4> QED BY <2>4, <2>6, <3>1, <3>2, <4>1 DEF WillReturn, there
    <3>3. CASE ~there
      <4>1. DOMAIN wish = {} BY <2>4, <3>3, NothingSet DEF HonouredBy, there
      <4> QED BY <2>6, <3>1, <3>3, <4>1 DEF WillReturn
    <3> QED BY <3>2, <3>3
  <2> QED BY <2>5, <2>6, <2>7, <2>8 DEF WishesAreKept
<1> QED BY <1>12, <1>13, <1>14, <1>15, <1>16 DEF PropertiesIInv, PropertiesTypeOK

\* Who resets ends; he may have put the file back, or deleted it.
LEMMA ResetEndsKeeps ==
  ASSUME PropertiesIInv, NEW a \in Actors, Leave(a), Past(cmd[a]),
         file' \in {file, aside}, aside' \in {aside, Nothing},
         UNCHANGED <<layer, original, manifest, meta, wish, asked, raced, orphaned, begun>>,
         torn => torn',
         ~torn' => /\ Calm => file' = file
                   /\ ~Calm => /\ \A b \in Actors : ~Holding(b)
                               /\ HonouredBy(file', wish)
  PROVE  PropertiesIInv'
<1> DEFINE c == NoCommand
           h == NoRead
<1>1. PropertiesTypeOK /\ MarksAreAsked /\ RecordsAgree /\ WishesAreKept BY DEF PropertiesIInv
<1>2. /\ IsRecord(c) /\ IsCommand(c) /\ c.op = "none" /\ c.step = "idle" /\ c.text = Nothing
      /\ IsHeld(h) /\ h.props = <<>>
  BY NobodysCommand, NothingHeld
<1>3. Becomes(a, c, h) BY DEF Leave, Becomes
<1> HIDE DEF c, h
<1>4. /\ cmd'[a] = c /\ held'[a] = h
      /\ \A x \in Actors : x # a => cmd'[x] = cmd[x] /\ held'[x] = held[x]
  BY <1>1, <1>3, TheOthers
<1>5. /\ c.step \notin Writing /\ c.step # "diffed"
      /\ c.step \notin {"resolved", "diffed"} /\ c.step \notin {"merging", "merged"}
  BY <1>2 DEF Writing
<1>6. Fits(c, h) /\ Faithful(c, h) /\ Keeps(c, h, wish) BY <1>5 DEF Fits, Faithful, Keeps
<1>7. Marks(c, h, asked) BY <1>2, NoMarks, NoProps DEF Marks, Asked
<1>8. TextsTyped'
  <2>1. file' \in Files /\ aside' \in Files
    BY <1>1 DEF PropertiesTypeOK, TextsTyped, Files
  <2> QED BY <1>1, <2>1 DEF PropertiesTypeOK, TextsTyped
<1>9. CommandsTyped'
  <2>1. meta' \in Metas BY WhoActs
  <2> QED BY <1>1, <1>2, <1>3, <1>6, <2>1, CommandsStayTyped
<1>10. MarksAreAsked'
  <2>1. SUFFICES ASSUME ~orphaned PROVE MarksAreAsked' BY DEF MarksAreAsked
  <2>2. /\ Asked(file, asked) /\ Asked(aside, asked) /\ Asked(original, asked)
        /\ Important(Seed) \subseteq asked
        /\ \A l \in Shared : Important(layer[l]) \subseteq asked
        /\ \A x \in Actors : Marks(cmd[x], held[x], asked)
    BY <1>1, <2>1 DEF MarksAreAsked
  <2>3. Asked(Nothing, asked) BY NoMarks DEF Asked
  <2>4. Asked(file', asked) /\ Asked(aside', asked) BY <2>2, <2>3
  <2>5. ASSUME NEW x \in Actors PROVE Marks(cmd'[x], held'[x], asked)
    <3>1. CASE x = a BY <1>4, <1>7, <3>1
    <3>2. CASE x # a BY <1>4, <2>2, <3>2
    <3> QED BY <3>1, <3>2
  <2> QED BY <2>2, <2>4, <2>5 DEF MarksAreAsked
<1>11. RecordsAgree'
  <2>1. SUFFICES ASSUME ~orphaned PROVE RecordsAgree' BY DEF RecordsAgree
  <2>2. /\ \A x \in Actors : Faithful(cmd[x], held[x])
        /\ ~raced /\ manifest # Nothing => Agrees(manifest, manifest.target)
    BY <1>1, <2>1 DEF RecordsAgree
  <2>3. ASSUME NEW x \in Actors PROVE Faithful(cmd'[x], held'[x])
    <3>1. CASE x = a BY <1>4, <1>6, <3>1
    <3>2. CASE x # a BY <1>4, <2>2, <3>2
    <3> QED BY <3>1, <3>2
  <2> QED BY <2>2, <2>3 DEF RecordsAgree
<1>12. WishesAreKept'
  <2>1. SUFFICES ASSUME ~torn' PROVE WishesAreKept' BY DEF WishesAreKept
  <2>2. ~torn BY <2>1
  <2>3. /\ \A x, y \in Actors : Past(cmd[x]) /\ Past(cmd[y]) => x = y
        /\ Calm => HonouredBy(file, wish) /\ \A x \in Actors : Keeps(cmd[x], held[x], wish)
    BY <1>1, <2>2 DEF WishesAreKept
  <2>4. \A x \in Actors : ~Past(cmd'[x])
    <3>1. ASSUME NEW x \in Actors PROVE ~Past(cmd'[x])
      <4>1. CASE x = a BY <1>2, <1>4, <4>1 DEF Past
      <4>2. CASE x # a BY <1>4, <2>3, <4>2
      <4> QED BY <4>1, <4>2
    <3> QED BY <3>1
  <2>5. HonouredBy(file', wish)
    <3>1. CASE Calm BY <2>1, <2>3, <3>1
    <3>2. CASE ~Calm BY <2>1, <3>2
    <3> QED BY <3>1, <3>2
  <2>6. ASSUME NEW x \in Actors PROVE Keeps(cmd'[x], held'[x], wish)
    <3>1. CASE x = a BY <1>4, <1>6, <3>1
    <3>2. CASE x # a /\ Calm BY <1>4, <2>3, <3>2
    <3>3. CASE x # a /\ ~Calm
      <4>1. cmd[x].step \notin Writing /\ cmd[x].step \notin {"resolved", "diffed"}
        BY <2>1, <3>3 DEF Holding
      <4> QED BY <1>4, <3>3, <4>1 DEF Keeps
    <3> QED BY <3>1, <3>2, <3>3
  <2> QED BY <2>4, <2>5, <2>6 DEF WishesAreKept
<1> QED BY <1>8, <1>9, <1>10, <1>11, <1>12 DEF PropertiesIInv, PropertiesTypeOK

\* A dry reset puts the file back.
LEMMA MoveBackKeeps ==
  ASSUME PropertiesIInv, NEW a \in Actors, MoveBack(a)
  PROVE  PropertiesIInv'
<1>1. /\ cmd[a].op = "reset" /\ cmd[a].dry /\ cmd[a].step \in {"synced", "dead"}
      /\ IF cmd[a].moved /\ aside # Nothing
         THEN file' = aside /\ aside' = Nothing
         ELSE UNCHANGED <<file, aside>>
      /\ torn' = (torn \/ file # Nothing \/ \E b \in Actors : Holding(b))
      /\ Leave(a)
      /\ UNCHANGED <<layer, original, manifest, meta, wish, asked, raced, orphaned, begun>>
  BY DEF MoveBack
<1>2. Past(cmd[a]) BY <1>1 DEF Past
<1>3. ~Calm BY <1>1, <1>2 DEF Calm
<1>4. file' \in {file, aside} /\ aside' \in {aside, Nothing} /\ (torn => torn') BY <1>1
<1>5. ASSUME ~torn' PROVE (\A b \in Actors : ~Holding(b)) /\ HonouredBy(file', wish)
  <2>1. ~torn /\ file = Nothing /\ \A b \in Actors : ~Holding(b) BY <1>1, <1>5
  <2>2. WillReturn(cmd[a], aside, wish)
    BY <1>1, <1>2, <2>1 DEF PropertiesIInv, WishesAreKept
  <2>3. CASE cmd[a].moved
    <3>1. aside # Nothing /\ HonouredBy(aside, wish) BY <2>2, <2>3 DEF WillReturn
    <3> QED BY <1>1, <2>1, <2>3, <3>1
  <2>4. CASE ~cmd[a].moved
    <3>1. DOMAIN wish = {} BY <2>2, <2>4 DEF WillReturn
    <3> QED BY <2>1, <3>1 DEF HonouredBy
  <2> QED BY <2>3, <2>4
<1> QED BY <1>1, <1>2, <1>3, <1>4, <1>5, ResetEndsKeeps

\* A reset deletes the file it had moved.
LEMMA UnlinkKeeps ==
  ASSUME PropertiesIInv, NEW a \in Actors, Unlink(a)
  PROVE  PropertiesIInv'
<1>1. /\ cmd[a].op = "reset" /\ ~cmd[a].dry /\ cmd[a].step \in {"saved", "dead"}
      /\ aside' = IF cmd[a].moved THEN Nothing ELSE aside
      /\ Leave(a)
      /\ UNCHANGED <<layer, file, original, manifest, meta, history, begun>>
  BY DEF Unlink
<1>2. Past(cmd[a]) BY <1>1 DEF Past
<1>3. UNCHANGED <<wish, asked, raced, torn, orphaned>> BY <1>1 DEF history
<1>4. ASSUME ~torn' PROVE Calm
  <2>1. ~torn BY <1>3, <1>4
  <2>2. \A x \in Actors : Past(cmd[x]) => x = a
    BY <1>2, <2>1 DEF PropertiesIInv, WishesAreKept
  <2> QED BY <1>1, <2>2 DEF Calm
<1>5. file' \in {file, aside} /\ aside' \in {aside, Nothing} /\ file' = file BY <1>1
<1>6. UNCHANGED <<layer, original, manifest, meta, wish, asked, raced, orphaned, begun>>
  BY <1>1, <1>3
<1>7. torn => torn' BY <1>3
<1>8. ~torn' => /\ Calm => file' = file
                /\ ~Calm => /\ \A b \in Actors : ~Holding(b)
                            /\ HonouredBy(file', wish)
  BY <1>4, <1>5
<1> QED BY <1>1, <1>2, <1>5, <1>6, <1>7, <1>8, ResetEndsKeeps

\* A step of no command, that leaves the wishes or drops them all.
LEMMA UserKeeps ==
  ASSUME PropertiesIInv, UNCHANGED <<aside, original, manifest, cmd, held, raced, torn, orphaned>>,
         layer' = [l \in Shared |-> layer'[l]], IsLayers(layer)', file' \in Files,
         meta' \in Metas, asked \subseteq asked',
         ~orphaned => /\ Asked(file', asked')
                      /\ \A l \in Shared : Important(layer'[l]) \subseteq asked',
         \/ file' = file /\ wish' = wish
         \/ file' # Nothing /\ DOMAIN wish' = {}
  PROVE  PropertiesIInv'
<1>1. PropertiesTypeOK /\ MarksAreAsked /\ RecordsAgree /\ WishesAreKept BY DEF PropertiesIInv
<1>2. TextsTyped' BY <1>1 DEF PropertiesTypeOK, TextsTyped
<1>3. CommandsTyped' BY <1>1 DEF PropertiesTypeOK, CommandsTyped
<1>4. MarksAreAsked'
  <2>1. SUFFICES ASSUME ~orphaned PROVE MarksAreAsked' BY DEF MarksAreAsked
  <2>2. /\ Asked(aside, asked) /\ Asked(original, asked)
        /\ Important(Seed) \subseteq asked
        /\ \A x \in Actors : Marks(cmd[x], held[x], asked)
    BY <1>1, <2>1 DEF MarksAreAsked
  <2>3. /\ Asked(aside, asked') /\ Asked(original, asked')
        /\ Important(Seed) \subseteq asked'
        /\ \A x \in Actors : Marks(cmd[x], held[x], asked')
    BY <2>2 DEF Asked, Marks
  <2> QED BY <2>1, <2>3 DEF MarksAreAsked
<1>5. RecordsAgree' BY <1>1 DEF RecordsAgree
<1>6. WishesAreKept'
  <2>1. CASE file' = file /\ wish' = wish BY <1>1, <2>1 DEF WishesAreKept, Calm
  <2>2. CASE file' # Nothing /\ DOMAIN wish' = {}
    <3>1. ~torn => \A x, y \in Actors : Past(cmd[x]) /\ Past(cmd[y]) => x = y
      BY <1>1 DEF WishesAreKept
    <3>2. HonouredBy(file', wish') BY <2>2 DEF HonouredBy
    <3>3. \A x \in Actors : Keeps(cmd[x], held[x], wish') BY <2>2 DEF Keeps, Kept
    <3> QED BY <2>2, <3>1, <3>2, <3>3 DEF WishesAreKept
  <2> QED BY <2>1, <2>2
<1> QED BY <1>2, <1>3, <1>4, <1>5, <1>6 DEF PropertiesIInv, PropertiesTypeOK

\* The file is reverted, a feature is set, a layer is edited, or a snapshot restored.
LEMMA UsersKeep ==
  ASSUME PropertiesIInv,
         \/ Revert
         \/ \E on \in BOOLEAN : Feature(on)
         \/ \E l \in {"global", "local"}, p \in LayerEdits : EditLayer(l, p)
         \/ \E f \in {file, original} : Restore(f)
         \/ UNCHANGED propertiesVars
  PROVE  PropertiesIInv'
<1>1. /\ layer = [l \in Shared |-> layer[l]] /\ IsLayers(layer) /\ meta \in Metas
      /\ file \in Files /\ original \in Files
  BY DEF PropertiesIInv, PropertiesTypeOK, TextsTyped, CommandsTyped
<1>2. ~orphaned => /\ Asked(file, asked) /\ Asked(original, asked)
                   /\ \A l \in Shared : Important(layer[l]) \subseteq asked
  BY DEF PropertiesIInv, MarksAreAsked
<1>3. CASE Revert
  <2>1. /\ original # Nothing /\ file' = original /\ wish' = <<>>
        /\ UNCHANGED <<layer, aside, original, manifest, meta, cmd, held, asked, raced, torn, orphaned>>
    BY <1>3 DEF Revert
  <2>2. DOMAIN wish' = {} BY <2>1, NoProps
  <2>3. ~orphaned => Asked(file', asked') BY <1>2, <2>1
  <2> QED BY <1>1, <1>2, <2>1, <2>2, <2>3, UserKeeps
<1>4. CASE \E on \in BOOLEAN : Feature(on)
  <2>1. PICK on \in BOOLEAN : Feature(on) BY <1>4
  <2>2. /\ meta' = [meta EXCEPT !.flag = on]
        /\ UNCHANGED <<layer, file, aside, original, manifest, cmd, held, history>>
    BY <2>1 DEF Feature
  <2>3. meta' \in Metas BY <1>1, <2>2 DEF Metas
  <2>4. UNCHANGED <<wish, asked, raced, torn, orphaned>> BY <2>2 DEF history
  <2>5. ~orphaned => Asked(file', asked') BY <1>2, <2>2, <2>4
  <2> QED BY <1>1, <1>2, <2>2, <2>3, <2>4, <2>5, UserKeeps
<1>5. CASE \E l \in {"global", "local"}, p \in LayerEdits : EditLayer(l, p)
  <2>1. PICK l \in {"global", "local"}, p \in LayerEdits : EditLayer(l, p) BY <1>5
  <2>2. /\ layer' = [layer EXCEPT ![l] = p] /\ asked' = asked \cup Important(p)
        /\ UNCHANGED <<file, aside, original, manifest, meta, cmd, held, wish, raced, torn, orphaned>>
    BY <2>1 DEF EditLayer
  <2>3. l \in Shared /\ IsProps(p) BY LayersAssumption DEF Shared
  <2>4. /\ layer' = [x \in Shared |-> layer'[x]]
        /\ \A x \in Shared : layer'[x] = IF x = l THEN p ELSE layer[x]
    BY <1>1, <2>2, <2>3
  <2>5. IsLayers(layer)' BY <1>1, <2>3, <2>4 DEF IsLayers
  <2>6. ~orphaned => \A x \in Shared : Important(layer'[x]) \subseteq asked' BY <1>2, <2>2, <2>4
  <2>7. ~orphaned => Asked(file', asked') BY <1>2, <2>2 DEF Asked
  <2>8. asked \subseteq asked' BY <2>2
  <2> QED BY <1>1, <2>2, <2>4, <2>5, <2>6, <2>7, <2>8, UserKeeps
<1>6. CASE \E f \in {file, original} : Restore(f)
  <2>1. PICK f \in {file, original} : Restore(f) BY <1>6
  <2>2. /\ f # Nothing /\ file' = f /\ wish' = <<>>
        /\ layer' = [layer EXCEPT !["ldmp"] = GetProperties(f)]
        /\ UNCHANGED <<aside, original, manifest, meta, cmd, held, asked, raced, torn, orphaned>>
    BY <2>1 DEF Restore
  <2>3. f \in Files /\ GetProperties(f) = Props(f) BY <1>1, <2>2 DEF Lines, Props
  <2>4. IsProps(Props(f)) BY <2>3, FileLines
  <2>5. "ldmp" \in Shared BY DEF Shared
  <2>6. /\ layer' = [x \in Shared |-> layer'[x]]
        /\ \A x \in Shared : layer'[x] = IF x = "ldmp" THEN Props(f) ELSE layer[x]
    BY <1>1, <2>2, <2>3, <2>5
  <2>7. IsLayers(layer)' BY <1>1, <2>4, <2>6 DEF IsLayers
  <2>8. ~orphaned => Asked(f, asked) BY <1>2
  <2>9. ~orphaned => \A x \in Shared : Important(layer'[x]) \subseteq asked'
    BY <1>2, <2>2, <2>6, <2>8 DEF Asked
  <2>10. ~orphaned => Asked(file', asked') BY <2>2, <2>8
  <2>11. DOMAIN wish' = {} BY <2>2, NoProps
  <2> QED BY <1>1, <2>2, <2>3, <2>6, <2>7, <2>9, <2>10, <2>11, UserKeeps
<1>7. CASE UNCHANGED propertiesVars
  <2>1. UNCHANGED <<layer, file, aside, original, manifest, meta, cmd, held, wish, asked, raced, torn, orphaned>>
    BY <1>7 DEF propertiesVars, files, history
  <2>2. ~orphaned => Asked(file', asked') BY <1>2, <2>1
  <2> QED BY <1>1, <1>2, <2>1, <2>2, UserKeeps
<1> QED BY <1>3, <1>4, <1>5, <1>6, <1>7

-----------------------------------------------------------------------------
(* The theorems.                                                           *)

\* With no file and no command, all of it holds.
LEMMA PropertiesInitially == PropertiesInit => PropertiesIInv
<1>1. SUFFICES ASSUME PropertiesInit PROVE PropertiesIInv OBVIOUS
<1>2. /\ layer \in [Shared -> {<<>>} \cup LayerEdits]
      /\ layer["ldmp"] = <<>> /\ layer["local"] = <<>>
      /\ file = Nothing /\ aside = Nothing /\ original = Nothing
      /\ manifest = Nothing
      /\ meta \in [flag : {FALSE}, db : Databases \ {"hypersonic"}, login : {Nothing}]
      /\ cmd = [a \in Actors |-> NoCommand]
      /\ held = [a \in Actors |-> NoRead]
      /\ wish = <<>>
      /\ asked = Important(Seed) \cup Important(layer["global"])
  BY <1>1 DEF PropertiesInit
<1> DEFINE c == NoCommand
           h == NoRead
<1>3. \A a \in Actors : cmd[a] = c /\ held[a] = h BY <1>2
<1>4. /\ IsCommand(c) /\ c.op = "none" /\ c.step = "idle" /\ ~c.dry
      /\ c.text = Nothing
  BY NobodysCommand
<1>5. IsHeld(h) /\ h.props = <<>> BY NothingHeld
<1>6. cmd = [a \in Actors |-> cmd[a]] /\ held = [a \in Actors |-> held[a]] BY <1>2
<1> HIDE DEF c, h
<1>7. IsProps(<<>>) /\ Important(<<>>) = {} /\ DOMAIN <<>> = {} BY NoProps
<1>8. TextsTyped
  <2>1. \A l \in Shared : layer[l] \in {<<>>} \cup LayerEdits BY <1>2
  <2>2. IsLayers(layer) BY <1>7, <2>1, LayersAssumption DEF IsLayers
  <2>3. layer = [l \in Shared |-> layer[l]] BY <1>2
  <2> QED BY <1>2, <2>2, <2>3 DEF TextsTyped, Files
<1>9. CommandsTyped
  <2>1. meta \in Metas BY <1>2 DEF Metas
  <2>2. Fits(c, h) BY <1>4 DEF Fits, Writing
  <2> QED BY <1>3, <1>4, <1>5, <1>6, <2>1, <2>2 DEF CommandsTyped
<1>10. MarksAreAsked
  <2>1. Asked(file, asked) /\ Asked(aside, asked) /\ Asked(original, asked)
    BY <1>2, NoMarks DEF Asked
  <2>2. \A l \in Shared : Important(layer[l]) \subseteq asked BY <1>2, <1>7 DEF Shared
  <2>3. Asked(c.text, asked) BY <1>4, NoMarks DEF Asked
  <2>4. Marks(c, h, asked) BY <1>5, <1>7, <2>3 DEF Marks
  <2> QED BY <1>2, <1>3, <2>1, <2>2, <2>4 DEF MarksAreAsked
<1>11. RecordsAgree
  <2>1. Faithful(c, h) BY <1>4 DEF Faithful
  <2> QED BY <1>2, <1>3, <2>1 DEF RecordsAgree
<1>12. WishesAreKept
  <2>1. \A a \in Actors : ~Past(cmd[a]) BY <1>3, <1>4 DEF Past
  <2>2. HonouredBy(file, wish) BY <1>2, <1>7 DEF HonouredBy
  <2>3. Keeps(c, h, wish) BY <1>4 DEF Keeps, Writing
  <2> QED BY <1>3, <2>1, <2>2, <2>3 DEF WishesAreKept
<1> QED BY <1>8, <1>9, <1>10, <1>11, <1>12 DEF PropertiesIInv, PropertiesTypeOK

\* A step of a sync.
LEMMA SyncKeeps ==
  ASSUME PropertiesIInv, NEW a \in Actors, Sync(a)
  PROVE  PropertiesIInv'
<1>1. CASE Bypass(a) BY <1>1, BypassKeeps
<1>2. CASE Hash(a) BY <1>2, HashKeeps
<1>3. CASE Refuse(a) \/ Announce(a) BY <1>3, RefusalsKeep
<1>4. CASE Resolve(a) BY <1>4, ResolveKeeps
<1>5. CASE Diff(a) BY <1>5, DiffKeeps
<1>6. CASE Reread(a) BY <1>6, RereadKeeps
<1>7. CASE Merge(a) BY <1>7, MergeKeeps
<1>8. CASE Record(a) BY <1>8, RecordKeeps
<1> QED BY <1>1, <1>2, <1>3, <1>4, <1>5, <1>6, <1>7, <1>8 DEF Sync

\* A step of a command that was begun.
LEMMA StepKeeps ==
  ASSUME PropertiesIInv, NEW a \in Actors, Step(a)
  PROVE  PropertiesIInv'
<1>1. CASE Sync(a) BY <1>1, SyncKeeps
<1>2. CASE Set(a) BY <1>2, SetKeeps
<1>3. CASE MoveAside(a) BY <1>3, MoveAsideKeeps
<1>4. CASE MoveBack(a) BY <1>4, MoveBackKeeps
<1>5. CASE Unlink(a) BY <1>5, UnlinkKeeps
<1>6. CASE ReadToRemove(a) BY <1>6, ReadToRemoveKeeps
<1>7. CASE TakeOut(a) \/ Inject(a) BY <1>7, MergeKeeps
<1>8. CASE ReadToInject(a) BY <1>8, ReadToInjectKeeps
<1>9. CASE Save(a) BY <1>9, SaveKeeps
<1>10. CASE End(a) \/ RevertSettings(a) BY <1>10, EndsKeep
<1>11. CASE SetEnv(a) BY <1>11, SetEnvKeeps
<1>12. CASE SslMode(a) \/ Restart(a) BY <1>12, SslKeeps
<1> QED
  BY <1>1, <1>2, <1>3, <1>4, <1>5, <1>6, <1>7, <1>8, <1>9, <1>10, <1>11, <1>12 DEF Step

\* A step of the editor.
LEMMA EditorKeeps ==
  ASSUME PropertiesIInv, NEW a \in Actors, Editor(a)
  PROVE  PropertiesIInv'
<1>1. CASE OpenEditor(a) BY <1>1, OpenEditorKeeps
<1>2. CASE List(a) BY <1>2, ListKeeps
<1>3. CASE CloseEditor(a) BY <1>3, EndsKeep
<1>4. ASSUME NEW k \in DOMAIN Typed, NEW v \in Value, NEW important \in SUBSET {k},
             EditorSet(a, k, v, important)
      PROVE  PropertiesIInv'
  BY <1>4, EditorSetKeeps
<1>5. ASSUME NEW k \in DOMAIN Typed, EditorToggle(a, k) PROVE PropertiesIInv'
  BY <1>5, EditorToggleKeeps
<1>6. ASSUME NEW k \in DOMAIN Typed, EditorDelete(a, k) PROVE PropertiesIInv'
  BY <1>6, EditorDeleteKeeps
<1> QED BY <1>1, <1>2, <1>3, <1>4, <1>5, <1>6 DEF Editor

\* Any step.
LEMMA NextKeeps ==
  ASSUME PropertiesIInv, [PropertiesNext]_propertiesVars
  PROVE  PropertiesIInv'
<1>1. ASSUME NEW a \in Actors, NEW db \in Databases, Run(a, db) PROVE PropertiesIInv'
  BY <1>1, RunKeeps
<1>2. ASSUME NEW a \in Actors, Consider(a) PROVE PropertiesIInv' BY <1>2, ConsiderKeeps
<1>3. ASSUME NEW a \in Actors, NEW op \in {"rebuild", "reset"}, NEW dry \in BOOLEAN,
             Ask(a, op, dry)
      PROVE  PropertiesIInv'
  BY <1>3, AskKeeps
<1>4. ASSUME NEW a \in Actors, NEW k \in DOMAIN Typed, NEW v \in Typed[k],
             NEW important \in SUBSET {k}, Put(a, k, v, important)
      PROVE  PropertiesIInv'
  BY <1>4, PutKeeps
<1>5. ASSUME NEW a \in Actors, NEW k \in DOMAIN Typed, Delete(a, k) PROVE PropertiesIInv'
  BY <1>5, DeleteKeeps
<1>6. ASSUME NEW a \in Actors, Step(a) PROVE PropertiesIInv' BY <1>6, StepKeeps
<1>7. ASSUME NEW a \in Actors, Editor(a) PROVE PropertiesIInv' BY <1>7, EditorKeeps
<1>8. ASSUME NEW a \in Actors, Kill(a) PROVE PropertiesIInv' BY <1>8, EndsKeep
<1>9. CASE \/ Revert
           \/ \E on \in BOOLEAN : Feature(on)
           \/ \E l \in {"global", "local"}, p \in LayerEdits : EditLayer(l, p)
           \/ \E f \in {file, original} : Restore(f)
           \/ UNCHANGED propertiesVars
  BY <1>9, UsersKeep
<1> QED
  BY <1>1, <1>2, <1>3, <1>4, <1>5, <1>6, <1>7, <1>8, <1>9 DEF PropertiesNext

\* The types, the marks, the records and the wishes hold together.
LEMMA PropertiesInvariant == PropertiesSpec => []PropertiesIInv
<1>1. PropertiesInit => PropertiesIInv BY PropertiesInitially
<1>2. PropertiesIInv /\ [PropertiesNext]_propertiesVars => PropertiesIInv' BY NextKeeps
<1> QED BY <1>1, <1>2, PTL DEF PropertiesSpec

\* The commands, the files and what was read of them have their types.
THEOREM PropertiesAreTyped == PropertiesSpec => []PropertiesTypeOK
<1>1. PropertiesIInv => PropertiesTypeOK BY DEF PropertiesIInv
<1> QED BY <1>1, PropertiesInvariant, PTL

\* A manifest that agrees is of properties that another merge would leave alone.
LEMMA UpToDateIsSettled ==
  ASSUME PropertiesIInv, Sound
  PROVE  Settled(layer, file, HostUpdates(meta))
<1> DEFINE host == HostUpdates(meta)
<1>1. manifest = Inputs(layer, file, host) /\ ~raced /\ ~orphaned BY DEF Sound, UpToDate
<1>2. /\ layer = [l \in Shared |-> layer[l]] /\ IsLayers(layer) /\ file \in Files
      /\ meta \in Metas
  BY DEF PropertiesIInv, PropertiesTypeOK, TextsTyped, CommandsTyped
<1>3. IsHost(host) BY <1>2, MetasHosts
<1> HIDE DEF host
<1>4. manifest.layers = layer /\ manifest.target = file /\ manifest.host = host
  BY <1>1 DEF Inputs
<1>5. manifest # Nothing
  <2> DEFINE Entries == UNION {[K -> [value : Value, important : BOOLEAN]] : K \in SUBSET Key}
             Hosts == UNION {[K -> Value] : K \in SUBSET Key}
  <2>1. layer \in [Shared -> Entries]
    <3>1. ASSUME NEW l \in Shared PROVE layer[l] \in Entries BY <1>2 DEF IsLayers, IsProps
    <3> HIDE DEF Entries
    <3> QED BY <1>2, <3>1
  <2>2. file \in {Nothing} \cup Seq(Line) BY <1>2 DEF Files, Texts
  <2>3. host \in Hosts
    <3>1. host = [k \in DOMAIN host |-> host[k]] BY DEF host, HostUpdates
    <3> QED BY <1>3, <3>1 DEF IsHost
  <2> HIDE DEF Entries, Hosts
  <2>4. [layers |-> layer, target |-> file, host |-> host] \in
          [layers : [Shared -> Entries], target : {Nothing} \cup Seq(Line), host : Hosts]
    BY <2>1, <2>2, <2>3
  <2>5. manifest \in Manifests BY <1>1, <2>4 DEF Inputs, Manifests, Entries, Hosts
  <2> QED BY <2>5, NothingAssumption
<1>6. Agrees(manifest, manifest.target) BY <1>1, <1>5 DEF PropertiesIInv, RecordsAgree
<1> QED BY <1>4, <1>6 DEF Agrees, host

\* What skipping the cascade is worth (_resolve_properties_cascade()).
THEOREM BypassesAreSound == PropertiesSpec => []BypassIsSound
<1>1. PropertiesIInv => BypassIsSound
  <2>1. SUFFICES ASSUME PropertiesIInv, Sound PROVE Settled(layer, file, HostUpdates(meta))
    BY DEF BypassIsSound, Settled
  <2> QED BY <2>1, UpToDateIsSettled
<1> QED BY <1>1, PropertiesInvariant, PTL

\* What the user set stays in the file over every command but a sync that a
\* layer rightly wins (Beaten); what he sets while another holds what it read is
\* not counted (_resolve_properties_cascade(), update_portal_ext(),
\* cmd_reset_properties()).
THEOREM EditsSurvive == PropertiesSpec => []EditSurvives
<1>1. PropertiesIInv => EditSurvives
  <2>1. SUFFICES ASSUME PropertiesIInv, ~torn, Resetting = {} PROVE HonouredBy(file, wish)
    BY DEF EditSurvives, HonouredBy
  <2>2. \A a \in Actors : ~Past(cmd[a]) BY <2>1 DEF Past, Resetting, Idle
  <2> QED BY <2>1, <2>2 DEF PropertiesIInv, WishesAreKept, Calm
<1> QED BY <1>1, PropertiesInvariant, PTL

\* The dashboard's inspector shows what is in the file (api_project_properties()).
THEOREM TheInspectorAgrees == PropertiesSpec => []InspectorAgrees
<1>1. PropertiesIInv => InspectorAgrees
  <2> DEFINE host == HostUpdates(meta)
             shown == Inspected(layer, Props(file), host)
  <2>1. SUFFICES ASSUME PropertiesIInv, Sound
                 PROVE  \A k \in DOMAIN shown :
                          \/ Props(file)[k] = shown[k]
                          \/ k \in DOMAIN host /\ shown[k].important
    BY DEF InspectorAgrees
  <2>2. Settled(layer, file, host) BY <2>1, UpToDateIsSettled
  <2>3. IsLayers(layer) /\ file \in Files /\ meta \in Metas
    BY <2>1 DEF PropertiesIInv, PropertiesTypeOK, TextsTyped, CommandsTyped
  <2>4. IsHost(host) /\ IsProps(Props(file)) BY <2>3, MetasHosts, FileLines
  <2>5. Changed(Resolved(layer, Props(file), host), Props(file)) = {} BY <2>2 DEF Settled
  <2> HIDE DEF host
  <2> QED BY <2>3, <2>4, <2>5, InspectedAgrees
<1> QED BY <1>1, PropertiesInvariant, PTL

\* A property is important only if somebody asked for it (update_portal_ext(),
\* remove_portal_ext()).
THEOREM MarksWereAsked == PropertiesSpec => []ImportanceIsAsked
<1>1. PropertiesIInv => ImportanceIsAsked
  BY DEF PropertiesIInv, MarksAreAsked, Asked, ImportanceIsAsked
<1> QED BY <1>1, PropertiesInvariant, PTL
=============================================================================
