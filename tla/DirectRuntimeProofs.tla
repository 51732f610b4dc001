------------------------ MODULE DirectRuntimeProofs ------------------------
(***************************************************************************)
(* Proofs about DirectRuntime, for any messages, conversations, runs and   *)
(* provider errors: the types, at most one active run per conversation,    *)
(* and that the executor never asks for an illegal transition of a run.    *)
(***************************************************************************)
EXTENDS DirectRuntime, TLAPS

USE DEF ActiveStates, TerminalStates, RunState, Errors

(***************************************************************************)
(* The lookups the actions are built from.                                 *)
(***************************************************************************)

\* The states a run can go to are run states, and each state has its row of
\* RUNTIME_TRANSITIONS.
LEMMA TransitionTable ==
  /\ RuntimeTransitions["created"] = {"dispatching", "cancel-requested", "failed", "interrupted"}
  /\ RuntimeTransitions["dispatching"] = {"running", "cancel-requested", "failed", "interrupted"}
  /\ RuntimeTransitions["running"]
       = {"streaming", "completed", "cancel-requested", "failed", "interrupted"}
  /\ RuntimeTransitions["streaming"] = {"completed", "cancel-requested", "failed", "interrupted"}
  /\ RuntimeTransitions["cancel-requested"] = {"cancelled", "interrupted"}
BY DEF RuntimeTransitions

\* A journal state is recovered to, and settled as, a journal state.
LEMMA JournalStates ==
  /\ \A s \in JournalState : RecoveredState(s) \in JournalState
  /\ \A r, e : SettledState(r, e) \in JournalState
BY DEF RecoveredState, SettledState, JournalState

\* handleFailure always ends the run.
LEMMA FailureEnds ==
  \A r, e : FailureTarget(r, e) \in {"failed", "cancelled", "interrupted"}
BY DEF FailureTarget

\* A run names the message it answers.
LEMMA RunOfMessage == \A r \in Run : r[1] \in Nonce
BY ConstantsAssumption

(***************************************************************************)
(* Types.                                                                  *)
(***************************************************************************)

\* The program starts with every variable in its type.
LEMMA InitTypeOK == Init => TypeOK
BY ConstantsAssumption DEF Init, TypeOK, NoRun, JournalState, EntryStatus

\* The user's commands keep the types.
LEMMA CommandTypeOK ==
  ASSUME TypeOK, Command
  PROVE  TypeOK'
<1> USE DEF TypeOK, JournalState, EntryStatus, journalVars, runVars, taskVars
<1>1. PICK n \in Nonce : Send(n) \/ Retry(n) \/ RetryRun(n)
  BY DEF Command
<1>2. CASE Send(n)
  <2>1. SessionOf[n] \in Session
    BY ConstantsAssumption
  <2> QED BY <1>2, <2>1 DEF Send, NextRun, Goto
<1>3. CASE Retry(n)
  BY <1>3 DEF Retry, NextRun, SetSendState, Goto
<1>4. CASE RetryRun(n)
  BY <1>4 DEF RetryRun, NextRun, Goto
<1> QED BY <1>1, <1>2, <1>3, <1>4

\* Starting a run keeps the types.
LEMMA StartTypeOK ==
  ASSUME TypeOK,
         \/ QueueSend \/ StartFails \/ FailUser \/ CreateRun \/ BeginDispatch
         \/ MarkDispatching \/ OpenRequest \/ NoProvider
  PROVE  TypeOK'
<1> USE DEF TypeOK, JournalState, EntryStatus, journalVars, runVars, taskVars,
            NoRun, SetSendState, Transition, Goto, EndTask
<1>1. CASE QueueSend        BY <1>1 DEF QueueSend
<1>2. CASE StartFails       BY <1>2, RunOfMessage DEF StartFails
<1>3. CASE FailUser         BY <1>3 DEF FailUser
<1>4. CASE CreateRun        BY <1>4 DEF CreateRun
<1>5. CASE BeginDispatch    BY <1>5 DEF BeginDispatch
<1>6. CASE MarkDispatching  BY <1>6, ZenonT(60) DEF MarkDispatching
<1>7. CASE OpenRequest      BY <1>7 DEF OpenRequest
<1>8. CASE NoProvider       BY <1>8 DEF NoProvider
<1> QED BY <1>1, <1>2, <1>3, <1>4, <1>5, <1>6, <1>7, <1>8

\* The provider's events, and a cancellation, keep the types.
LEMMA EventTypeOK ==
  ASSUME TypeOK, NEW r \in Run,
         Cancel(r) \/ ServiceAccepts(r) \/ Delta(r) \/ ProviderAnswers(r)
  PROVE  TypeOK'
<1> USE DEF TypeOK, JournalState, EntryStatus, journalVars, runVars, taskVars,
            Transition, Goto
<1>1. CASE Cancel(r)          BY <1>1 DEF Cancel
<1>2. CASE ServiceAccepts(r)  BY <1>2 DEF ServiceAccepts
<1>3. CASE Delta(r)           BY <1>3 DEF Delta
<1>4. CASE ProviderStarted(r) BY <1>4 DEF ProviderStarted
<1>5. CASE Complete(r)        BY <1>5 DEF Complete
<1>6. CASE Aborted(r)         BY <1>6 DEF Aborted
<1>7. ASSUME NEW e \in Errors, ProviderError(r, e)
      PROVE  TypeOK'
  BY <1>7 DEF ProviderError
<1> QED BY <1>1, <1>2, <1>3, <1>4, <1>5, <1>6, <1>7 DEF ProviderAnswers

\* What follows an event keeps the types.
LEMMA HandlerTypeOK ==
  ASSUME TypeOK,
         \/ AwaitEcho \/ Acknowledge \/ CreateAssistant \/ AttachAssistant \/ CompleteRun
         \/ FailRun \/ FailAssistant \/ Settle \/ SettleUser
  PROVE  TypeOK'
<1> USE DEF TypeOK, EntryStatus, journalVars, runVars, taskVars,
            NoRun, SetSendState, Transition, Goto, EndTask, Drop, FinalizeAssistant
<1>1. CASE AwaitEcho        BY <1>1 DEF AwaitEcho, JournalState
<1>2. CASE Acknowledge      BY <1>2 DEF Acknowledge, JournalState
<1>3. CASE CreateAssistant  BY <1>3 DEF CreateAssistant
<1>4. CASE AttachAssistant  BY <1>4 DEF AttachAssistant
<1>5. CASE CompleteRun      BY <1>5 DEF CompleteRun
<1>6. CASE FailRun          BY <1>6, FailureEnds DEF FailRun
<1>7. CASE FailAssistant    BY <1>7 DEF FailAssistant
<1>8. CASE Settle
  <2>1. CASE journal[cur[1]] = "acked"
    BY <1>8, <2>1 DEF Settle
  <2>2. CASE journal[cur[1]] # "acked"
    <3>1. journal' \in [Nonce -> JournalState]
      BY <1>8, <2>2, JournalStates DEF Settle
    <3>2. appErr' \in [Nonce -> BOOLEAN]
      <4> DEFINE interrupted == err = "shutdown"
      <4>1. interrupted \in BOOLEAN
        OBVIOUS
      <4>2. appErr' = [appErr EXCEPT ![cur[1]] = interrupted]
        BY <1>8, <2>2 DEF Settle
      <4> HIDE DEF interrupted
      <4> QED BY <4>1, <4>2
    <3> QED BY <1>8, <2>2, <3>1, <3>2 DEF Settle
  <2> QED BY <2>1, <2>2
<1>9. CASE SettleUser       BY <1>9 DEF SettleUser
<1> QED BY <1>1, <1>2, <1>3, <1>4, <1>5, <1>6, <1>7, <1>8, <1>9

\* Shutdown, crash and recovery keep the types.
LEMMA LifeTypeOK ==
  ASSUME TypeOK,
         \/ Shutdown \/ DrainEnds \/ (\E r \in Run : ForceRun(r)) \/ ForceAssistant
         \/ ForceDone \/ Crash \/ Boot \/ RecoverSends \/ RecoverRuns
  PROVE  TypeOK'
<1> USE DEF TypeOK, EntryStatus, journalVars, runVars, taskVars,
            NoRun, Transition, Goto, EndTask, FinalizeAssistant
<1>1. CASE Shutdown         BY <1>1 DEF Shutdown
<1>2. CASE DrainEnds        BY <1>2 DEF DrainEnds
<1>3. CASE \E r \in Run : ForceRun(r)
  BY <1>3 DEF ForceRun
<1>4. CASE ForceAssistant   BY <1>4 DEF ForceAssistant
<1>5. CASE ForceDone        BY <1>5 DEF ForceDone
<1>6. CASE Crash            BY <1>6 DEF Crash
<1>7. CASE Boot             BY <1>7 DEF Boot
<1>8. CASE RecoverSends     BY <1>8, JournalStates DEF RecoverSends
<1>9. CASE RecoverRuns      BY <1>9 DEF RecoverRuns
<1> QED BY <1>1, <1>2, <1>3, <1>4, <1>5, <1>6, <1>7, <1>8, <1>9

\* Every step keeps the types.
LEMMA NextTypeOK == TypeOK /\ [Next]_vars => TypeOK'
<1> SUFFICES ASSUME TypeOK, [Next]_vars
             PROVE  TypeOK'
  OBVIOUS
<1>1. CASE UNCHANGED vars
  BY <1>1 DEF TypeOK, vars, journalVars, runVars, taskVars
<1>2. CASE Next
  BY <1>2, CommandTypeOK, StartTypeOK, EventTypeOK, HandlerTypeOK, LifeTypeOK
  DEF Next, Step
<1> QED BY <1>1, <1>2

\* Every variable of the runtime keeps its type: the journal, the runs and the
\* entries only ever hold the states their tables allow.
THEOREM TypeCorrect == Spec => []TypeOK
<1>1. Init => TypeOK
  BY InitTypeOK
<1>2. TypeOK /\ [Next]_vars => TypeOK'
  BY NextTypeOK
<1> QED BY <1>1, <1>2, PTL DEF Spec

(***************************************************************************)
(* The transitions of runs.  Which steps change a run is the whole         *)
(* argument: each of the seven does it from a state that Inv pins down.    *)
(***************************************************************************)

\* handleFailure's target is legal from whatever state the failing run is in: a
\* pending cancellation is never turned into a failure, and nothing else is turned
\* into a cancellation.
LEMMA FailureIsLegal ==
  ASSUME TypeOK, DrivenRuns, TaskAt, pc = "fail", ~Terminal(cur)
  PROVE  FailureTarget(cur, err) \in RuntimeTransitions[run[cur]]
<1>1. cur \in Run /\ Driven(cur) /\ run[cur] \in ActiveStates
  BY DEF TypeOK, TaskAt, DrivenRuns, Terminal
<1>2. CASE run[cur] = "cancel-requested"
  <2>1. active[cur] = "user"
    BY <1>1, <1>2 DEF DrivenRuns
  <2>2. FailureTarget(cur, err) = "cancelled"
    BY <1>2, <2>1 DEF FailureTarget
  <2> QED BY <1>2, <2>2, TransitionTable
<1>3. CASE run[cur] # "cancel-requested"
  <2>1. active[cur] # "user"
    BY <1>1, <1>3 DEF DrivenRuns, Terminal
  <2>2. err # "abort"
    BY <2>1 DEF TaskAt
  <2>3. FailureTarget(cur, err) \in {"failed", "interrupted"}
    BY <1>3, <2>2 DEF FailureTarget, TaskAt
  <2>4. run[cur] \in {"created", "dispatching", "running", "streaming"}
    BY <1>1, <1>3
  <2> QED BY <2>3, <2>4, TransitionTable
<1> QED BY <1>2, <1>3

\* The loop of shutdown writes "cancelled" only over a requested cancellation.
LEMMA ForceIsLegal ==
  ASSUME TypeOK, DrivenRuns, NEW r \in Run, Driven(r), ~Terminal(r)
  PROVE  (IF UserCancelled(r) THEN "cancelled" ELSE "interrupted")
           \in RuntimeTransitions[run[r]]
<1>1. run[r] \in ActiveStates
  BY DEF TypeOK, DrivenRuns, Terminal
<1>2. UserCancelled(r) => run[r] = "cancel-requested"
  BY DEF DrivenRuns, UserCancelled
<1> QED BY <1>1, <1>2, TransitionTable

\* Everything but the steps below leaves the table of runs alone.
LEMMA WhoChangesRuns ==
  ASSUME [Next]_vars
  PROVE  \/ UNCHANGED run
         \/ CreateRun \/ BeginDispatch \/ CompleteRun \/ FailRun \/ RecoverRuns
         \/ \E r \in Run : Cancel(r) \/ ProviderStarted(r) \/ Delta(r) \/ ForceRun(r)
<1>1. CASE UNCHANGED vars
  BY <1>1 DEF vars, runVars
<1>2. CASE Command
  BY <1>2 DEF Command, Send, Retry, RetryRun, runVars
<1>3. CASE Step
  <2> USE DEF runVars
  <2>1. CASE QueueSend \/ StartFails \/ FailUser \/ MarkDispatching \/ OpenRequest \/ NoProvider
    BY <2>1 DEF QueueSend, StartFails, FailUser, MarkDispatching, OpenRequest, NoProvider
  <2>2. CASE AwaitEcho \/ Acknowledge \/ CreateAssistant \/ AttachAssistant
    BY <2>2 DEF AwaitEcho, Acknowledge, CreateAssistant, AttachAssistant
  <2>3. CASE FailAssistant \/ Settle \/ SettleUser \/ ForceAssistant \/ ForceDone \/ RecoverSends
    BY <2>3 DEF FailAssistant, Settle, SettleUser, ForceAssistant, ForceDone, RecoverSends
  <2> QED BY <1>3, <2>1, <2>2, <2>3 DEF Step
<1>4. ASSUME NEW r \in Run, ServiceAccepts(r) \/ Complete(r) \/ Aborted(r)
      PROVE  UNCHANGED run
  BY <1>4 DEF ServiceAccepts, Complete, Aborted, runVars
<1>5. ASSUME NEW r \in Run, NEW e \in Errors, ProviderError(r, e)
      PROVE  UNCHANGED run
  BY <1>5 DEF ProviderError, runVars
<1>6. CASE Shutdown \/ DrainEnds \/ Crash \/ Boot
  BY <1>6 DEF Shutdown, DrainEnds, Crash, Boot, runVars
<1> QED BY <1>1, <1>2, <1>3, <1>4, <1>5, <1>6 DEF Next, ProviderAnswers

\* One run changes its state to one that its row of the table allows.
LEMMA OneLegalChange ==
  ASSUME TypeOK, NEW r \in Run, NEW s, Transition(r, s),
         IF run[r] = "none" THEN s = "created" ELSE s \in RuntimeTransitions[run[r]]
  PROVE  LegalStep
BY DEF TypeOK, Transition, LegalStep

\* Every step moves each run along the table of run transitions.
LEMMA StepIsLegal ==
  ASSUME Inv, [Next]_vars
  PROVE  LegalStep
<1> USE DEF Inv
<1>1. CASE UNCHANGED run
  BY <1>1 DEF LegalStep
<1>2. CASE CreateRun
  <2>1. cur \in Run /\ run[cur] = "none"
    BY <1>2 DEF CreateRun, TypeOK, TaskAt
  <2> QED BY <1>2, <2>1, OneLegalChange DEF CreateRun
<1>3. CASE BeginDispatch
  <2>1. cur \in Run /\ run[cur] = "created"
    BY <1>3 DEF BeginDispatch, TypeOK, TaskAt
  <2> QED BY <1>3, <2>1, OneLegalChange, TransitionTable DEF BeginDispatch
<1>4. CASE CompleteRun
  <2>1. cur \in Run /\ run[cur] \in {"running", "streaming"}
    BY <1>4 DEF CompleteRun, TypeOK, TaskAt
  <2> QED BY <1>4, <2>1, OneLegalChange, TransitionTable DEF CompleteRun
<1>5. CASE FailRun
  <2>1. CASE Terminal(cur)
    BY <1>5, <2>1 DEF FailRun, LegalStep
  <2>2. CASE ~Terminal(cur)
    <3>1. cur \in Run /\ run[cur] # "none"
      BY <1>5 DEF FailRun, TypeOK, TaskAt, DrivenRuns
    <3>2. FailureTarget(cur, err) \in RuntimeTransitions[run[cur]]
      BY <1>5, <2>2, FailureIsLegal DEF FailRun
    <3> QED BY <1>5, <2>2, <3>1, <3>2, OneLegalChange DEF FailRun
  <2> QED BY <2>1, <2>2
<1>6. CASE RecoverRuns
  <2>1. \A r \in Run : run'[r] # run[r] => run[r] \in ActiveStates /\ run'[r] = "interrupted"
    BY <1>6 DEF RecoverRuns, Active, TypeOK
  <2> QED BY <2>1, TransitionTable DEF LegalStep
<1>7. ASSUME NEW r \in Run, Cancel(r)
      PROVE  LegalStep
  BY <1>7, OneLegalChange, TransitionTable DEF Cancel
<1>8. ASSUME NEW r \in Run, ProviderStarted(r)
      PROVE  LegalStep
  BY <1>8, OneLegalChange, TransitionTable DEF ProviderStarted
<1>9. ASSUME NEW r \in Run, Delta(r)
      PROVE  LegalStep
  BY <1>9, OneLegalChange, TransitionTable DEF Delta
<1>10. ASSUME NEW r \in Run, ForceRun(r)
       PROVE  LegalStep
  <2>1. run[r] # "none"
    BY <1>10 DEF ForceRun, DrivenRuns
  <2> QED BY <1>10, <2>1, ForceIsLegal, OneLegalChange DEF ForceRun
<1> QED
  BY <1>1, <1>2, <1>3, <1>4, <1>5, <1>6, <1>7, <1>8, <1>9, <1>10, WhoChangesRuns

\* A run becomes active only when it is created, and that only while its
\* conversation has no other.
LEMMA NextOneActiveRun ==
  ASSUME Inv, [Next]_vars
  PROVE  OneActiveRun'
<1> USE DEF Inv
<1>1. LegalStep
  BY StepIsLegal
<1>2. \A r \in Run : Active(r)' => Active(r) \/ run[r] = "none"
  <2> SUFFICES ASSUME NEW r \in Run, run'[r] \in ActiveStates
               PROVE  Active(r) \/ run[r] = "none"
    BY DEF Active
  <2>1. CASE run'[r] = run[r]
    BY <2>1 DEF Active
  <2>2. CASE run'[r] # run[r]
    <3>1. run[r] # "none" => run'[r] \in RuntimeTransitions[run[r]]
      BY <1>1, <2>2 DEF LegalStep
    <3>2. \A s \in TerminalStates : RuntimeTransitions[s] = {}
      BY DEF RuntimeTransitions
    <3> QED BY <3>1, <3>2 DEF TypeOK, Active
  <2> QED BY <2>1, <2>2
<1>3. CASE CreateRun
  <2>1. cur \in Run /\ \A r \in Run \ {cur} : run'[r] = run[r]
    BY <1>3 DEF CreateRun, Transition, TypeOK
  <2>2. \A r \in Run : SessionOf[r[1]] = SessionOf[cur[1]] => ~Active(r)
    BY <1>3 DEF CreateRun, Busy
  <2> QED BY <2>1, <2>2 DEF OneActiveRun, Active
<1>4. CASE ~CreateRun
  <2>1. \A r \in Run : run[r] = "none" => run'[r] \notin ActiveStates
    <3>1. CASE UNCHANGED run
      BY <3>1
    <3>2. CASE BeginDispatch \/ CompleteRun
      BY <3>2 DEF BeginDispatch, CompleteRun, Transition, TaskAt, TypeOK
    <3>3. CASE FailRun
      BY <3>3, FailureEnds DEF FailRun, Transition, TypeOK
    <3>4. CASE RecoverRuns
      BY <3>4 DEF RecoverRuns, Active, TypeOK
    <3>5. ASSUME NEW t \in Run, Cancel(t) \/ ProviderStarted(t) \/ Delta(t) \/ ForceRun(t)
          PROVE  \A r \in Run : run[r] = "none" => run'[r] \notin ActiveStates
      BY <3>5 DEF Cancel, ProviderStarted, Delta, ForceRun, Transition, TypeOK
    <3> QED BY <1>4, <3>1, <3>2, <3>3, <3>4, <3>5, WhoChangesRuns
  <2>2. \A r \in Run : Active(r)' => Active(r)
    BY <1>2, <2>1 DEF Active
  <2> QED BY <2>2 DEF OneActiveRun
<1> QED BY <1>3, <1>4

(***************************************************************************)
(* The executor's map and the running task.                                *)
(***************************************************************************)

\* The user's commands keep the executor's map and the place of the task.
LEMMA CommandTask ==
  ASSUME Inv, Command
  PROVE  DrivenRuns' /\ TaskAt'
<1>1. PICK n \in Nonce : Send(n) \/ Retry(n) \/ RetryRun(n)
  BY DEF Command
<1>2. UNCHANGED <<run, active>> /\ pc' \in {"queue", "start"} /\ run[cur'] = "none"
  BY <1>1 DEF Send, Retry, RetryRun, NextRun, Goto, runVars
<1> QED BY <1>2 DEF Inv, DrivenRuns, TaskAt, Driven, Terminal

\* So does the task up to its request.
LEMMA StartTask ==
  ASSUME Inv,
         \/ QueueSend \/ StartFails \/ FailUser \/ CreateRun \/ BeginDispatch
         \/ MarkDispatching \/ OpenRequest \/ NoProvider
  PROVE  DrivenRuns' /\ TaskAt'
<1> USE DEF Inv, DrivenRuns, TaskAt, Driven, Terminal, Goto, EndTask, runVars
<1>1. CASE StartFails \/ FailUser \/ OpenRequest
  BY <1>1 DEF StartFails, FailUser, OpenRequest
<1>2. CASE QueueSend
  BY <1>2 DEF QueueSend
<1>3. CASE CreateRun
  BY <1>3 DEF CreateRun, Transition, TypeOK
<1>4. CASE BeginDispatch
  BY <1>4 DEF BeginDispatch, Transition, TypeOK
<1>5. CASE MarkDispatching
  BY <1>5 DEF MarkDispatching
<1>6. CASE NoProvider
  BY <1>6 DEF NoProvider
<1> QED BY <1>1, <1>2, <1>3, <1>4, <1>5, <1>6

\* So do the cancellation and what the provider answers.
LEMMA EventTask ==
  ASSUME Inv, NEW r \in Run,
         Cancel(r) \/ ServiceAccepts(r) \/ Delta(r) \/ ProviderAnswers(r)
  PROVE  DrivenRuns' /\ TaskAt'
<1> USE DEF Inv, DrivenRuns, TaskAt, Driven, Terminal, Goto, EndTask, runVars, taskVars,
            Idle, Transition, TypeOK
<1>1. CASE Cancel(r)
  BY <1>1 DEF Cancel
<1>2. CASE ServiceAccepts(r)
  BY <1>2 DEF ServiceAccepts
<1>3. CASE Delta(r)
  BY <1>3 DEF Delta
<1>4. CASE ProviderStarted(r)
  BY <1>4 DEF ProviderStarted
<1>5. CASE Complete(r)
  BY <1>5 DEF Complete
<1>6. CASE Aborted(r)
  BY <1>6 DEF Aborted
<1>7. ASSUME NEW e \in Errors, ProviderError(r, e)
      PROVE  DrivenRuns' /\ TaskAt'
  BY <1>7 DEF ProviderError
<1> QED BY <1>1, <1>2, <1>3, <1>4, <1>5, <1>6, <1>7 DEF ProviderAnswers

\* So do the handlers of an answer and of a failure.
LEMMA HandlerTask ==
  ASSUME Inv,
         \/ AwaitEcho \/ Acknowledge \/ CreateAssistant \/ AttachAssistant \/ CompleteRun
         \/ FailRun \/ FailAssistant \/ Settle \/ SettleUser
  PROVE  DrivenRuns' /\ TaskAt'
<1> USE DEF Inv, DrivenRuns, TaskAt, Driven, Terminal, Goto, EndTask, runVars
<1>1. CASE AwaitEcho \/ Acknowledge \/ CreateAssistant \/ AttachAssistant \/ SettleUser
  BY <1>1 DEF AwaitEcho, Acknowledge, CreateAssistant, AttachAssistant, SettleUser
<1>2. CASE CompleteRun
  BY <1>2 DEF CompleteRun, Transition, Drop, TypeOK
<1>3. CASE FailRun
  <2>1. CASE Terminal(cur)
    BY <1>3, <2>1 DEF FailRun, Drop, TypeOK
  <2>2. CASE ~Terminal(cur)
    BY <1>3, <2>2, FailureEnds DEF FailRun, Transition, TypeOK
  <2> QED BY <2>1, <2>2
<1>4. CASE FailAssistant
  BY <1>4 DEF FailAssistant, Drop, TypeOK
<1>5. CASE Settle
  BY <1>5 DEF Settle
<1> QED BY <1>1, <1>2, <1>3, <1>4, <1>5

\* So do the shutdown, the crash and the recovery at the next start.
LEMMA LifeTask ==
  ASSUME Inv,
         \/ Shutdown \/ DrainEnds \/ (\E r \in Run : ForceRun(r)) \/ ForceAssistant
         \/ ForceDone \/ Crash \/ Boot \/ RecoverSends \/ RecoverRuns
  PROVE  DrivenRuns' /\ TaskAt'
<1> USE DEF Inv, DrivenRuns, TaskAt, Driven, Terminal, Goto, EndTask, runVars, taskVars
<1>1. CASE Shutdown
  BY <1>1 DEF Shutdown, Serving, Idle, TypeOK
<1>2. CASE DrainEnds \/ ForceAssistant \/ ForceDone \/ Boot \/ RecoverSends
  BY <1>2 DEF DrainEnds, ForceAssistant, ForceDone, Boot, RecoverSends
<1>3. CASE \E r \in Run : ForceRun(r)
  BY <1>3 DEF ForceRun, Transition, TypeOK
<1>4. CASE Crash
  BY <1>4 DEF Crash
<1>5. CASE RecoverRuns
  BY <1>5 DEF RecoverRuns, Active, TypeOK
<1> QED BY <1>1, <1>2, <1>3, <1>4, <1>5

\* Every step keeps the executor's map and the place of the task.
LEMMA NextTask ==
  ASSUME Inv, [Next]_vars
  PROVE  DrivenRuns' /\ TaskAt'
<1>1. CASE UNCHANGED vars
  BY <1>1 DEF vars, runVars, taskVars, Inv, DrivenRuns, TaskAt, Driven, Terminal
<1>2. CASE Next
  BY <1>2, CommandTask, StartTask, EventTask, HandlerTask, LifeTask DEF Next, Step
<1> QED BY <1>1, <1>2

(***************************************************************************)
(* The theorems.                                                           *)
(***************************************************************************)

\* The program starts in the invariant.
LEMMA InitInv == Init => Inv
<1> SUFFICES ASSUME Init
             PROVE  Inv
  OBVIOUS
<1>1. OneActiveRun
  BY DEF Init, OneActiveRun, Active
<1>2. DrivenRuns /\ TaskAt
  BY DEF Init, DrivenRuns, TaskAt, Driven
<1> QED BY <1>1, <1>2, InitTypeOK DEF Inv

\* Every step keeps the invariant.
LEMMA NextInv == Inv /\ [Next]_vars => Inv'
BY NextTypeOK, NextOneActiveRun, NextTask DEF Inv

\* Inv is inductive.
THEOREM InvHolds == Spec => []Inv
<1>1. Init => Inv
  BY InitInv
<1>2. Inv /\ [Next]_vars => Inv'
  BY NextInv
<1> QED BY <1>1, <1>2, PTL DEF Spec

\* A conversation never has two active runs, however many messages, retries,
\* regenerations, cancellations, crashes and restarts there are.
THEOREM AtMostOneActiveRun == Spec => []OneActiveRun
<1>1. Inv => OneActiveRun
  BY DEF Inv
<1> QED BY <1>1, InvHolds, PTL

\* Every change of a run that the executor, a cancellation, a shutdown or a recovery
\* asks for is one RUNTIME_TRANSITIONS allows.
THEOREM TransitionsAreLegal == Spec => LegalTransitions
<1>1. Inv /\ [Next]_vars => [LegalStep]_vars
  BY StepIsLegal
<1>2. Spec => [][LegalStep]_vars
  BY <1>1, InvHolds, PTL DEF Spec
<1> QED BY <1>2 DEF LegalTransitions

(***************************************************************************)
(* The records.  Each part below says what a task may rely on between two  *)
(* of its commits; all of them are kept together.                          *)
(***************************************************************************)

SameSession(r, t) == SessionOf[r[1]] = SessionOf[t[1]]

\* In which life of the process a task runs.
LifeOfTask ==
  /\ app = "down" => pc = "idle"
  /\ app = "recovering" <=> pc \in {"recoverSends", "recoverRuns"}
  /\ pc \in {"queue", "start", "failUser", "dispatch", "mark", "provide"} => app = "up"
  /\ pc \in {"force", "forceAssistant"} => app = "draining"

\* The executor's map follows the table, except between the commit that ends a run and the
\* end of its task, and in the loop of shutdown.
MapOfTable ==
  /\ \A r \in Run :
       /\ Driven(r) => app \in {"up", "draining", "stopped"}
       /\ app \in {"up", "draining"} /\ Active(r) => Driven(r)
       /\ app \in {"up", "draining"} /\ Driven(r) /\ pc \notin {"force", "forceAssistant"}
            => Active(r) \/ (pc = "failAssistant" /\ r = cur)
       /\ app = "stopped" => ~Active(r)
       /\ Driven(r) /\ Terminal(r)
            => run[r] \in {"cancelled", "interrupted"} \/ (pc = "failAssistant" /\ r = cur)
       /\ \A t \in Run : Driven(r) /\ Driven(t) /\ SameSession(r, t) => r = t
  /\ pc \in {"echo", "ack", "assistant", "attach", "complete", "failAssistant"} => Driven(cur)
  /\ pc \in {"failAssistant", "settle", "settleUser"} =>
       run[cur] \in {"failed", "cancelled", "interrupted"}
  /\ pc \in {"queue", "start", "failUser", "settle", "settleUser"} =>
       \A r \in Run : SameSession(r, cur) => ~Driven(r)

\* The journal of the message a task is about.
JournalAt ==
  /\ pc = "queue" => journal[cur[1]] = "prepared"
  /\ pc \in {"start", "dispatch", "mark"} => journal[cur[1]] \in {"queued", "acked"}
  /\ pc = "failUser" => journal[cur[1]] = "failed-before-acceptance"
  /\ pc = "echo" => journal[cur[1]] = "dispatching"
  /\ pc = "ack" => journal[cur[1]] = "accepted-awaiting-echo"
  /\ pc = "settle" => /\ journal[cur[1]] \in {"dispatching", "acked"}
                      /\ requestId[cur] => journal[cur[1]] = "acked"
  /\ pc = "settleUser" => journal[cur[1]] = SettledState(cur, err)
  /\ pc = "recoverRuns" => \A n \in Nonce : journal[n] \notin InFlight

\* What the journal says of a message while one of its runs is driven, and after a run
\* of it has been answered.
JournalOfRuns ==
  \A r \in Run :
    /\ Driven(r) => \/ journal[r[1]] \in {"dispatching", "acked"}
                    \/ r = cur /\ pc \in {"dispatch", "mark", "ack"}
    /\ Driven(r) /\ requestId[r] => \/ journal[r[1]] = "acked"
                                    \/ r = cur /\ pc \in {"echo", "ack"}
    /\ run[r] \in {"running", "streaming"} => requestId[r]
    /\ run[r] \in {"none", "created", "dispatching"} => ~requestId[r]
    /\ run[r] = "completed" => journal[r[1]] = "acked" \/ r[1] \in reopened
    /\ run[r] # "none" => journal[r[1]] # "absent"

\* An undecided message is at work: its run is active, or its task is about to say more.
UndecidedAt ==
  app \in {"up", "draining"} => \A n \in Nonce :
    /\ journal[n] = "prepared" => n = cur[1] /\ pc = "queue"
    /\ journal[n] = "queued" => n = cur[1] /\ pc \in {"start", "dispatch", "mark"}
    /\ journal[n] = "accepted-awaiting-echo" => n = cur[1] /\ pc = "ack"
    /\ journal[n] = "dispatching" => \/ \E r \in Run : r[1] = n /\ Active(r)
                                     \/ n = cur[1] /\ pc \in {"failAssistant", "settle"}
                                     \/ pc \in {"force", "forceAssistant"}

\* The answer of a run that is at work has not ended.
AnswerAt ==
  /\ \A r \in Run :
       /\ run[r] \in {"none", "created", "dispatching"} => assistant[r] = "none"
       /\ Driven(r) /\ Active(r) => \/ assistant[r] \in {"none", "streaming"}
                                    \/ r = cur /\ pc = "complete"
  /\ pc \in {"echo", "ack", "assistant"} => run[cur] = "running" /\ assistant[cur] = "none"
  /\ pc \in {"failAssistant", "forceAssistant"} =>
       Terminal(cur) /\ assistant[cur] \in {"none", "streaming"}

Records ==
  /\ Inv
  /\ LifeOfTask /\ MapOfTable
  /\ JournalAt /\ JournalOfRuns /\ UndecidedAt
  /\ EntryFollowsJournal
  /\ AnswerAt

\* The service does not have the run's prompt and will not get it, as far as its provider
\* tells.
Unsent(r) == request[r] \in {"none", "rejected", "misreported"}

\* What has become of the requests: a message that may be sent again is with nobody, and an
\* undecided one only in the run that is driven.
RequestAt ==
  /\ \A r \in Run : run[r] = "none" => request[r] = "none"
  /\ \A r \in Run : r[1] \notin reopened =>
       /\ journal[r[1]] \in {"absent", "prepared", "queued",
            "failed-before-acceptance"} => Unsent(r)
       /\ journal[r[1]] \in {"dispatching", "accepted-awaiting-echo"} /\ app \notin {"down",
            "recovering"}
            => Unsent(r) \/ Driven(r) \/ (r = cur /\ pc = "settle")
  /\ pc \in {"dispatch", "mark", "provide"} => request[cur] = "none"
  /\ pc \in {"echo", "ack"} => request[cur] = "accepted"
  /\ pc = "fail" => err # "none"
  /\ pc = "fail" /\ err \in {"retryable", "other"} /\ ~requestId[cur]
       => journal[cur[1]] = "acked" \/ Unsent(cur)
  /\ pc \in {"failAssistant", "settle"} /\ run[cur] = "failed" /\ err # "refused"
       => journal[cur[1]] = "acked" \/ Unsent(cur)

\* Tasks run in the life they belong to.
LEMMA LifeKept ==
  ASSUME Records, [Next]_vars
  PROVE  LifeOfTask'
<1> USE DEF Records, Inv, TypeOK, Goto, EndTask, Idle, Serving, journalVars, runVars, taskVars,
      LifeOfTask, MapOfTable, Driven
<1>1. CASE UNCHANGED vars
  BY <1>1 DEF vars
<1>2. ASSUME NEW n \in Nonce, Send(n)
      PROVE  LifeOfTask'
  BY <1>2 DEF Send, NextRun, Busy
<1>3. ASSUME NEW n \in Nonce, Retry(n)
      PROVE  LifeOfTask'
  BY <1>3 DEF Retry, NextRun, Busy, SetSendState
<1>4. ASSUME NEW n \in Nonce, RetryRun(n)
      PROVE  LifeOfTask'
  BY <1>4 DEF RetryRun, NextRun, Busy
<1>5. CASE QueueSend
  BY <1>5 DEF QueueSend, SetSendState
<1>6. CASE StartFails
  BY <1>6 DEF StartFails, SetSendState
<1>7. CASE FailUser
  BY <1>7 DEF FailUser
<1>8. CASE CreateRun
  BY <1>8 DEF CreateRun, Busy
<1>9. CASE BeginDispatch
  BY <1>9 DEF BeginDispatch
<1>10. CASE MarkDispatching
  BY <1>10 DEF MarkDispatching, SetSendState
<1>11. CASE OpenRequest
  BY <1>11 DEF OpenRequest
<1>12. CASE NoProvider
  BY <1>12 DEF NoProvider
<1>13. ASSUME NEW r \in Run, Cancel(r)
      PROVE  LifeOfTask'
  BY <1>13 DEF Cancel
<1>14. ASSUME NEW r \in Run, ServiceAccepts(r)
      PROVE  LifeOfTask'
  BY <1>14 DEF ServiceAccepts
<1>15. ASSUME NEW r \in Run, Delta(r)
      PROVE  LifeOfTask'
  BY <1>15 DEF Delta
<1>16. ASSUME NEW r \in Run, ProviderStarted(r)
      PROVE  LifeOfTask'
  BY <1>16 DEF ProviderStarted
<1>17. ASSUME NEW r \in Run, Complete(r)
      PROVE  LifeOfTask'
  BY <1>17 DEF Complete
<1>18. ASSUME NEW r \in Run, Aborted(r)
      PROVE  LifeOfTask'
  BY <1>18 DEF Aborted
<1>19. ASSUME NEW r \in Run, NEW e \in Errors, ProviderError(r, e)
      PROVE  LifeOfTask'
  BY <1>19 DEF ProviderError
<1>20. CASE AwaitEcho
  BY <1>20 DEF AwaitEcho, SetSendState
<1>21. CASE Acknowledge
  BY <1>21 DEF Acknowledge
<1>22. CASE CreateAssistant
  BY <1>22 DEF CreateAssistant
<1>23. CASE AttachAssistant
  BY <1>23 DEF AttachAssistant
<1>24. CASE CompleteRun
  BY <1>24 DEF CompleteRun, Drop
<1>25. CASE FailRun
  BY <1>25 DEF FailRun, Drop
<1>26. CASE FailAssistant
  BY <1>26 DEF FailAssistant, FinalizeAssistant, Drop
<1>27. CASE Settle
  BY <1>27 DEF Settle, SetSendState
<1>28. CASE SettleUser
  BY <1>28 DEF SettleUser
<1>29. ASSUME NEW r \in Run, ForceRun(r)
      PROVE  LifeOfTask'
  BY <1>29 DEF ForceRun
<1>30. CASE ForceAssistant
  BY <1>30 DEF ForceAssistant, FinalizeAssistant
<1>31. CASE ForceDone
  BY <1>31 DEF ForceDone
<1>32. CASE Shutdown
  BY <1>32 DEF Shutdown
<1>33. CASE DrainEnds
  BY <1>33 DEF DrainEnds
<1>34. CASE Crash
  BY <1>34 DEF Crash
<1>35. CASE Boot
  BY <1>35 DEF Boot
<1>36. CASE RecoverSends
  BY <1>36 DEF RecoverSends, RecoveredState
<1>37. CASE RecoverRuns
  BY <1>37 DEF RecoverRuns
<1> HIDE DEF Records, Inv, TypeOK, Goto, EndTask, Idle, Serving, journalVars, runVars,
           taskVars, LifeOfTask, MapOfTable, Driven
<1> QED BY <1>1, <1>2, <1>3, <1>4, <1>5, <1>6, <1>7, <1>8, <1>9, <1>10, <1>11, <1>12, <1>13,
     <1>14, <1>15, <1>16, <1>17, <1>18, <1>19, <1>20, <1>21, <1>22, <1>23, <1>24, <1>25, <1>26,
     <1>27, <1>28, <1>29, <1>30, <1>31, <1>32, <1>33, <1>34, <1>35, <1>36, <1>37
  DEF Next, Step, Command, ProviderAnswers

\* The map follows the table.
LEMMA MapKept ==
  ASSUME Records, [Next]_vars
  PROVE  MapOfTable'
<1> USE DEF Records, Inv, TypeOK, Goto, EndTask, Idle, Serving, journalVars, runVars, taskVars,
           LifeOfTask, MapOfTable, DrivenRuns, TaskAt, Transition, Driven, Active, Terminal,
             SameSession
<1>1. CASE UNCHANGED vars
  BY <1>1 DEF vars
<1>2. ASSUME NEW n \in Nonce, Send(n)
      PROVE  MapOfTable'
  BY <1>2 DEF Send, NextRun, Busy
<1>3. ASSUME NEW n \in Nonce, Retry(n)
      PROVE  MapOfTable'
  BY <1>3 DEF Retry, NextRun, Busy, SetSendState
<1>4. ASSUME NEW n \in Nonce, RetryRun(n)
      PROVE  MapOfTable'
  BY <1>4 DEF RetryRun, NextRun, Busy
<1>5. CASE QueueSend
  BY <1>5 DEF QueueSend, SetSendState
<1>6. CASE StartFails
  BY <1>6 DEF StartFails, SetSendState
<1>7. CASE FailUser
  BY <1>7 DEF FailUser
<1>8. CASE CreateRun
  BY <1>8 DEF CreateRun, Busy
<1>9. CASE BeginDispatch
  BY <1>9 DEF BeginDispatch
<1>10. CASE MarkDispatching
  BY <1>10 DEF MarkDispatching, SetSendState
<1>11. CASE OpenRequest
  BY <1>11 DEF OpenRequest
<1>12. CASE NoProvider
  BY <1>12 DEF NoProvider
<1>13. ASSUME NEW r \in Run, Cancel(r)
      PROVE  MapOfTable'
  BY <1>13 DEF Cancel
<1>14. ASSUME NEW r \in Run, ServiceAccepts(r)
      PROVE  MapOfTable'
  BY <1>14 DEF ServiceAccepts
<1>15. ASSUME NEW r \in Run, Delta(r)
      PROVE  MapOfTable'
  BY <1>15 DEF Delta
<1>16. ASSUME NEW r \in Run, ProviderStarted(r)
      PROVE  MapOfTable'
  BY <1>16 DEF ProviderStarted
<1>17. ASSUME NEW r \in Run, Complete(r)
      PROVE  MapOfTable'
  BY <1>17 DEF Complete
<1>18. ASSUME NEW r \in Run, Aborted(r)
      PROVE  MapOfTable'
  BY <1>18 DEF Aborted
<1>19. ASSUME NEW r \in Run, NEW e \in Errors, ProviderError(r, e)
      PROVE  MapOfTable'
  BY <1>19 DEF ProviderError
<1>20. CASE AwaitEcho
  BY <1>20 DEF AwaitEcho, SetSendState
<1>21. CASE Acknowledge
  BY <1>21 DEF Acknowledge
<1>22. CASE CreateAssistant
  BY <1>22 DEF CreateAssistant
<1>23. CASE AttachAssistant
  BY <1>23 DEF AttachAssistant
<1>24. CASE CompleteRun
  BY <1>24 DEF CompleteRun, Drop
<1>25. CASE FailRun
  BY <1>25, FailureEnds DEF FailRun, Drop
<1>26. CASE FailAssistant
  BY <1>26 DEF FailAssistant, FinalizeAssistant, Drop
<1>27. CASE Settle
  BY <1>27 DEF Settle, SetSendState
<1>28. CASE SettleUser
  BY <1>28 DEF SettleUser
<1>29. ASSUME NEW r \in Run, ForceRun(r)
      PROVE  MapOfTable'
  BY <1>29 DEF ForceRun
<1>30. CASE ForceAssistant
  BY <1>30 DEF ForceAssistant, FinalizeAssistant
<1>31. CASE ForceDone
  BY <1>31 DEF ForceDone
<1>32. CASE Shutdown
  BY <1>32 DEF Shutdown
<1>33. CASE DrainEnds
  BY <1>33 DEF DrainEnds
<1>34. CASE Crash
  BY <1>34 DEF Crash
<1>35. CASE Boot
  BY <1>35 DEF Boot
<1>36. CASE RecoverSends
  BY <1>36 DEF RecoverSends, RecoveredState
<1>37. CASE RecoverRuns
  BY <1>37 DEF RecoverRuns
<1> HIDE DEF Records, Inv, TypeOK, Goto, EndTask, Idle, Serving, journalVars, runVars,
           taskVars, LifeOfTask, MapOfTable, DrivenRuns, TaskAt, Transition, Driven, Active,
           Terminal, SameSession
<1> QED BY <1>1, <1>2, <1>3, <1>4, <1>5, <1>6, <1>7, <1>8, <1>9, <1>10, <1>11, <1>12, <1>13,
     <1>14, <1>15, <1>16, <1>17, <1>18, <1>19, <1>20, <1>21, <1>22, <1>23, <1>24, <1>25, <1>26,
     <1>27, <1>28, <1>29, <1>30, <1>31, <1>32, <1>33, <1>34, <1>35, <1>36, <1>37
  DEF Next, Step, Command, ProviderAnswers

\* A task meets the journal it left behind.
LEMMA JournalAtKept ==
  ASSUME Records, [Next]_vars
  PROVE  JournalAt'
<1> USE DEF Records, Inv, TypeOK, Goto, EndTask, Idle, Serving, journalVars, runVars, taskVars,
           LifeOfTask, MapOfTable, DrivenRuns, TaskAt, Transition, Driven, Active, Terminal,
             SameSession,
           JournalAt, JournalOfRuns, JournalState, InFlight, SettledState
<1>1. CASE UNCHANGED vars
  BY <1>1 DEF vars
<1>2. ASSUME NEW n \in Nonce, Send(n)
      PROVE  JournalAt'
  BY <1>2 DEF Send, NextRun, Busy
<1>3. ASSUME NEW n \in Nonce, Retry(n)
      PROVE  JournalAt'
  BY <1>3 DEF Retry, NextRun, Busy, SetSendState
<1>4. ASSUME NEW n \in Nonce, RetryRun(n)
      PROVE  JournalAt'
  BY <1>4 DEF RetryRun, NextRun, Busy
<1>5. CASE QueueSend
  BY <1>5, RunOfMessage DEF QueueSend, SetSendState
<1>6. CASE StartFails
  BY <1>6, RunOfMessage DEF StartFails, SetSendState
<1>7. CASE FailUser
  BY <1>7 DEF FailUser
<1>8. CASE CreateRun
  BY <1>8 DEF CreateRun, Busy
<1>9. CASE BeginDispatch
  BY <1>9 DEF BeginDispatch
<1>10. CASE MarkDispatching
  BY <1>10 DEF MarkDispatching, SetSendState
<1>11. CASE OpenRequest
  BY <1>11 DEF OpenRequest
<1>12. CASE NoProvider
  BY <1>12 DEF NoProvider
<1>13. ASSUME NEW r \in Run, Cancel(r)
      PROVE  JournalAt'
  BY <1>13 DEF Cancel
<1>14. ASSUME NEW r \in Run, ServiceAccepts(r)
      PROVE  JournalAt'
  BY <1>14 DEF ServiceAccepts
<1>15. ASSUME NEW r \in Run, Delta(r)
      PROVE  JournalAt'
  BY <1>15 DEF Delta
<1>16. ASSUME NEW r \in Run, ProviderStarted(r)
      PROVE  JournalAt'
  BY <1>16 DEF ProviderStarted
<1>17. ASSUME NEW r \in Run, Complete(r)
      PROVE  JournalAt'
  BY <1>17 DEF Complete
<1>18. ASSUME NEW r \in Run, Aborted(r)
      PROVE  JournalAt'
  BY <1>18 DEF Aborted
<1>19. ASSUME NEW r \in Run, NEW e \in Errors, ProviderError(r, e)
      PROVE  JournalAt'
  BY <1>19 DEF ProviderError
<1>20. CASE AwaitEcho
  BY <1>20, RunOfMessage DEF AwaitEcho, SetSendState
<1>21. CASE Acknowledge
  BY <1>21 DEF Acknowledge
<1>22. CASE CreateAssistant
  BY <1>22 DEF CreateAssistant
<1>23. CASE AttachAssistant
  BY <1>23 DEF AttachAssistant
<1>24. CASE CompleteRun
  BY <1>24 DEF CompleteRun, Drop
<1>25. CASE FailRun
  BY <1>25, FailureEnds DEF FailRun, Drop
<1>26. CASE FailAssistant
  BY <1>26 DEF FailAssistant, FinalizeAssistant, Drop
<1>27. CASE Settle
  BY <1>27, RunOfMessage DEF Settle, SetSendState
<1>28. CASE SettleUser
  BY <1>28 DEF SettleUser
<1>29. ASSUME NEW r \in Run, ForceRun(r)
      PROVE  JournalAt'
  BY <1>29 DEF ForceRun
<1>30. CASE ForceAssistant
  BY <1>30 DEF ForceAssistant, FinalizeAssistant
<1>31. CASE ForceDone
  BY <1>31 DEF ForceDone
<1>32. CASE Shutdown
  BY <1>32 DEF Shutdown
<1>33. CASE DrainEnds
  BY <1>33 DEF DrainEnds
<1>34. CASE Crash
  BY <1>34 DEF Crash
<1>35. CASE Boot
  BY <1>35 DEF Boot
<1>36. CASE RecoverSends
  BY <1>36 DEF RecoverSends, RecoveredState
<1>37. CASE RecoverRuns
  BY <1>37 DEF RecoverRuns
<1> HIDE DEF Records, Inv, TypeOK, Goto, EndTask, Idle, Serving, journalVars, runVars,
           taskVars, LifeOfTask, MapOfTable, DrivenRuns, TaskAt, Transition, Driven, Active,
           Terminal, SameSession, JournalAt, JournalOfRuns, JournalState, InFlight, SettledState
<1> QED BY <1>1, <1>2, <1>3, <1>4, <1>5, <1>6, <1>7, <1>8, <1>9, <1>10, <1>11, <1>12, <1>13,
     <1>14, <1>15, <1>16, <1>17, <1>18, <1>19, <1>20, <1>21, <1>22, <1>23, <1>24, <1>25, <1>26,
     <1>27, <1>28, <1>29, <1>30, <1>31, <1>32, <1>33, <1>34, <1>35, <1>36, <1>37
  DEF Next, Step, Command, ProviderAnswers

\* While a run is driven, the journal of its message changes by its own task only.
LEMMA JournalOfRunsKept ==
  ASSUME Records, [Next]_vars
  PROVE  JournalOfRuns'
<1> USE DEF Records, Inv, TypeOK, Goto, EndTask, Idle, Serving, journalVars, runVars, taskVars,
           LifeOfTask, MapOfTable, DrivenRuns, TaskAt, Transition, Driven, Active, Terminal,
             SameSession,
           JournalAt, JournalOfRuns, JournalState, SettledState
<1>1. CASE UNCHANGED vars
  BY <1>1 DEF vars
<1>2. ASSUME NEW n \in Nonce, Send(n)
      PROVE  JournalOfRuns'
  BY <1>2 DEF Send, NextRun, Busy
<1>3. ASSUME NEW n \in Nonce, Retry(n)
      PROVE  JournalOfRuns'
  BY <1>3 DEF Retry, NextRun, Busy, SetSendState
<1>4. ASSUME NEW n \in Nonce, RetryRun(n)
      PROVE  JournalOfRuns'
  BY <1>4 DEF RetryRun, NextRun, Busy
<1>5. CASE QueueSend
  BY <1>5 DEF QueueSend, SetSendState
<1>6. CASE StartFails
  BY <1>6 DEF StartFails, SetSendState
<1>7. CASE FailUser
  BY <1>7 DEF FailUser
<1>8. CASE CreateRun
  BY <1>8 DEF CreateRun, Busy
<1>9. CASE BeginDispatch
  BY <1>9 DEF BeginDispatch
<1>10. CASE MarkDispatching
  BY <1>10, RunOfMessage DEF MarkDispatching, SetSendState
<1>11. CASE OpenRequest
  BY <1>11 DEF OpenRequest
<1>12. CASE NoProvider
  BY <1>12 DEF NoProvider
<1>13. ASSUME NEW r \in Run, Cancel(r)
      PROVE  JournalOfRuns'
  BY <1>13 DEF Cancel
<1>14. ASSUME NEW r \in Run, ServiceAccepts(r)
      PROVE  JournalOfRuns'
  BY <1>14 DEF ServiceAccepts
<1>15. ASSUME NEW r \in Run, Delta(r)
      PROVE  JournalOfRuns'
  BY <1>15 DEF Delta
<1>16. ASSUME NEW r \in Run, ProviderStarted(r)
      PROVE  JournalOfRuns'
  BY <1>16 DEF ProviderStarted
<1>17. ASSUME NEW r \in Run, Complete(r)
      PROVE  JournalOfRuns'
  BY <1>17 DEF Complete
<1>18. ASSUME NEW r \in Run, Aborted(r)
      PROVE  JournalOfRuns'
  BY <1>18 DEF Aborted
<1>19. ASSUME NEW r \in Run, NEW e \in Errors, ProviderError(r, e)
      PROVE  JournalOfRuns'
  BY <1>19 DEF ProviderError
<1>20. CASE AwaitEcho
  BY <1>20 DEF AwaitEcho, SetSendState
<1>21. CASE Acknowledge
  BY <1>21, RunOfMessage DEF Acknowledge
<1>22. CASE CreateAssistant
  BY <1>22 DEF CreateAssistant
<1>23. CASE AttachAssistant
  BY <1>23 DEF AttachAssistant
<1>24. CASE CompleteRun
  BY <1>24 DEF CompleteRun, Drop
<1>25. CASE FailRun
  BY <1>25, FailureEnds DEF FailRun, Drop
<1>26. CASE FailAssistant
  BY <1>26 DEF FailAssistant, FinalizeAssistant, Drop
<1>27. CASE Settle
  BY <1>27, RunOfMessage DEF Settle, SetSendState
<1>28. CASE SettleUser
  BY <1>28 DEF SettleUser
<1>29. ASSUME NEW r \in Run, ForceRun(r)
      PROVE  JournalOfRuns'
  BY <1>29 DEF ForceRun
<1>30. CASE ForceAssistant
  BY <1>30 DEF ForceAssistant, FinalizeAssistant
<1>31. CASE ForceDone
  BY <1>31 DEF ForceDone
<1>32. CASE Shutdown
  BY <1>32 DEF Shutdown
<1>33. CASE DrainEnds
  BY <1>33 DEF DrainEnds
<1>34. CASE Crash
  BY <1>34 DEF Crash
<1>35. CASE Boot
  BY <1>35 DEF Boot
<1>36. CASE RecoverSends
  <2>1. \A r \in Run : ~Driven(r)
    BY <1>36 DEF RecoverSends
  <2>2. \A n \in Nonce : /\ journal[n] = "acked" => journal'[n] = "acked"
                         /\ journal[n] # "absent" => journal'[n] # "absent"
    BY <1>36 DEF RecoverSends, RecoveredState
  <2>3. UNCHANGED <<run, requestId, active, reopened>>
    BY <1>36 DEF RecoverSends
  <2> QED BY <2>1, <2>2, <2>3, RunOfMessage
<1>37. CASE RecoverRuns
  BY <1>37 DEF RecoverRuns
<1> HIDE DEF Records, Inv, TypeOK, Goto, EndTask, Idle, Serving, journalVars, runVars,
           taskVars, LifeOfTask, MapOfTable, DrivenRuns, TaskAt, Transition, Driven, Active,
           Terminal, SameSession, JournalAt, JournalOfRuns, JournalState, SettledState
<1> QED BY <1>1, <1>2, <1>3, <1>4, <1>5, <1>6, <1>7, <1>8, <1>9, <1>10, <1>11, <1>12, <1>13,
     <1>14, <1>15, <1>16, <1>17, <1>18, <1>19, <1>20, <1>21, <1>22, <1>23, <1>24, <1>25, <1>26,
     <1>27, <1>28, <1>29, <1>30, <1>31, <1>32, <1>33, <1>34, <1>35, <1>36, <1>37
  DEF Next, Step, Command, ProviderAnswers

\* What is undecided is at work.
LEMMA UndecidedKept ==
  ASSUME Records, [Next]_vars
  PROVE  UndecidedAt'
<1> USE DEF Records, Inv, TypeOK, Goto, EndTask, Idle, Serving, journalVars, runVars, taskVars,
           LifeOfTask, MapOfTable, DrivenRuns, TaskAt, Transition, Driven, Active, Terminal,
             SameSession,
           JournalAt, JournalOfRuns, UndecidedAt, JournalState, InFlight, SettledState
<1>1. CASE UNCHANGED vars
  BY <1>1 DEF vars
<1>2. ASSUME NEW n \in Nonce, Send(n)
      PROVE  UndecidedAt'
  BY <1>2 DEF Send, NextRun, Busy
<1>3. ASSUME NEW n \in Nonce, Retry(n)
      PROVE  UndecidedAt'
  BY <1>3 DEF Retry, NextRun, Busy, SetSendState
<1>4. ASSUME NEW n \in Nonce, RetryRun(n)
      PROVE  UndecidedAt'
  BY <1>4 DEF RetryRun, NextRun, Busy
<1>5. CASE QueueSend
  BY <1>5 DEF QueueSend, SetSendState
<1>6. CASE StartFails
  BY <1>6 DEF StartFails, SetSendState
<1>7. CASE FailUser
  BY <1>7 DEF FailUser
<1>8. CASE CreateRun
  BY <1>8 DEF CreateRun, Busy
<1>9. CASE BeginDispatch
  BY <1>9 DEF BeginDispatch
<1>10. CASE MarkDispatching
  BY <1>10 DEF MarkDispatching, SetSendState
<1>11. CASE OpenRequest
  BY <1>11 DEF OpenRequest
<1>12. CASE NoProvider
  BY <1>12 DEF NoProvider
<1>13. ASSUME NEW r \in Run, Cancel(r)
      PROVE  UndecidedAt'
  BY <1>13 DEF Cancel
<1>14. ASSUME NEW r \in Run, ServiceAccepts(r)
      PROVE  UndecidedAt'
  BY <1>14 DEF ServiceAccepts
<1>15. ASSUME NEW r \in Run, Delta(r)
      PROVE  UndecidedAt'
  BY <1>15 DEF Delta
<1>16. ASSUME NEW r \in Run, ProviderStarted(r)
      PROVE  UndecidedAt'
  BY <1>16 DEF ProviderStarted
<1>17. ASSUME NEW r \in Run, Complete(r)
      PROVE  UndecidedAt'
  BY <1>17 DEF Complete
<1>18. ASSUME NEW r \in Run, Aborted(r)
      PROVE  UndecidedAt'
  BY <1>18 DEF Aborted
<1>19. ASSUME NEW r \in Run, NEW e \in Errors, ProviderError(r, e)
      PROVE  UndecidedAt'
  BY <1>19 DEF ProviderError
<1>20. CASE AwaitEcho
  BY <1>20 DEF AwaitEcho, SetSendState
<1>21. CASE Acknowledge
  BY <1>21 DEF Acknowledge
<1>22. CASE CreateAssistant
  BY <1>22 DEF CreateAssistant
<1>23. CASE AttachAssistant
  BY <1>23 DEF AttachAssistant
<1>24. CASE CompleteRun
  BY <1>24 DEF CompleteRun, Drop
<1>25. CASE FailRun
  BY <1>25, FailureEnds DEF FailRun, Drop
<1>26. CASE FailAssistant
  BY <1>26 DEF FailAssistant, FinalizeAssistant, Drop
<1>27. CASE Settle
  BY <1>27 DEF Settle, SetSendState
<1>28. CASE SettleUser
  BY <1>28 DEF SettleUser
<1>29. ASSUME NEW r \in Run, ForceRun(r)
      PROVE  UndecidedAt'
  BY <1>29 DEF ForceRun
<1>30. CASE ForceAssistant
  BY <1>30 DEF ForceAssistant, FinalizeAssistant
<1>31. CASE ForceDone
  BY <1>31 DEF ForceDone
<1>32. CASE Shutdown
  BY <1>32 DEF Shutdown
<1>33. CASE DrainEnds
  BY <1>33 DEF DrainEnds
<1>34. CASE Crash
  BY <1>34 DEF Crash
<1>35. CASE Boot
  BY <1>35 DEF Boot
<1>36. CASE RecoverSends
  BY <1>36 DEF RecoverSends, RecoveredState
<1>37. CASE RecoverRuns
  BY <1>37 DEF RecoverRuns
<1> HIDE DEF Records, Inv, TypeOK, Goto, EndTask, Idle, Serving, journalVars, runVars,
           taskVars, LifeOfTask, MapOfTable, DrivenRuns, TaskAt, Transition, Driven, Active,
           Terminal, SameSession, JournalAt, JournalOfRuns, UndecidedAt, JournalState,
           InFlight, SettledState
<1> QED BY <1>1, <1>2, <1>3, <1>4, <1>5, <1>6, <1>7, <1>8, <1>9, <1>10, <1>11, <1>12, <1>13,
     <1>14, <1>15, <1>16, <1>17, <1>18, <1>19, <1>20, <1>21, <1>22, <1>23, <1>24, <1>25, <1>26,
     <1>27, <1>28, <1>29, <1>30, <1>31, <1>32, <1>33, <1>34, <1>35, <1>36, <1>37
  DEF Next, Step, Command, ProviderAnswers

\* The entry's commit follows the journal's.
LEMMA EntryKept ==
  ASSUME Records, [Next]_vars
  PROVE  EntryFollowsJournal'
<1> USE DEF Records, Inv, TypeOK, Goto, EndTask, Idle, Serving, journalVars, runVars, taskVars,
           LifeOfTask, MapOfTable, DrivenRuns, TaskAt, Transition, Driven, Active, Terminal,
             SameSession,
           JournalAt, JournalOfRuns, EntryFollowsJournal, JournalState, SettledState, EntryStatus
<1>1. CASE UNCHANGED vars
  BY <1>1 DEF vars
<1>2. ASSUME NEW n \in Nonce, Send(n)
      PROVE  EntryFollowsJournal'
  BY <1>2 DEF Send, NextRun, Busy
<1>3. ASSUME NEW n \in Nonce, Retry(n)
      PROVE  EntryFollowsJournal'
  BY <1>3 DEF Retry, NextRun, Busy, SetSendState
<1>4. ASSUME NEW n \in Nonce, RetryRun(n)
      PROVE  EntryFollowsJournal'
  BY <1>4 DEF RetryRun, NextRun, Busy
<1>5. CASE QueueSend
  BY <1>5 DEF QueueSend, SetSendState
<1>6. CASE StartFails
  BY <1>6 DEF StartFails, SetSendState
<1>7. CASE FailUser
  BY <1>7 DEF FailUser
<1>8. CASE CreateRun
  BY <1>8 DEF CreateRun, Busy
<1>9. CASE BeginDispatch
  BY <1>9 DEF BeginDispatch
<1>10. CASE MarkDispatching
  BY <1>10 DEF MarkDispatching, SetSendState
<1>11. CASE OpenRequest
  BY <1>11 DEF OpenRequest
<1>12. CASE NoProvider
  BY <1>12 DEF NoProvider
<1>13. ASSUME NEW r \in Run, Cancel(r)
      PROVE  EntryFollowsJournal'
  BY <1>13 DEF Cancel
<1>14. ASSUME NEW r \in Run, ServiceAccepts(r)
      PROVE  EntryFollowsJournal'
  BY <1>14 DEF ServiceAccepts
<1>15. ASSUME NEW r \in Run, Delta(r)
      PROVE  EntryFollowsJournal'
  BY <1>15 DEF Delta
<1>16. ASSUME NEW r \in Run, ProviderStarted(r)
      PROVE  EntryFollowsJournal'
  BY <1>16 DEF ProviderStarted
<1>17. ASSUME NEW r \in Run, Complete(r)
      PROVE  EntryFollowsJournal'
  BY <1>17 DEF Complete
<1>18. ASSUME NEW r \in Run, Aborted(r)
      PROVE  EntryFollowsJournal'
  BY <1>18 DEF Aborted
<1>19. ASSUME NEW r \in Run, NEW e \in Errors, ProviderError(r, e)
      PROVE  EntryFollowsJournal'
  BY <1>19 DEF ProviderError
<1>20. CASE AwaitEcho
  BY <1>20 DEF AwaitEcho, SetSendState
<1>21. CASE Acknowledge
  BY <1>21 DEF Acknowledge
<1>22. CASE CreateAssistant
  BY <1>22 DEF CreateAssistant
<1>23. CASE AttachAssistant
  BY <1>23 DEF AttachAssistant
<1>24. CASE CompleteRun
  BY <1>24 DEF CompleteRun, Drop
<1>25. CASE FailRun
  BY <1>25, FailureEnds DEF FailRun, Drop
<1>26. CASE FailAssistant
  BY <1>26 DEF FailAssistant, FinalizeAssistant, Drop
<1>27. CASE Settle
  BY <1>27 DEF Settle, SetSendState
<1>28. CASE SettleUser
  BY <1>28 DEF SettleUser
<1>29. ASSUME NEW r \in Run, ForceRun(r)
      PROVE  EntryFollowsJournal'
  BY <1>29 DEF ForceRun
<1>30. CASE ForceAssistant
  BY <1>30 DEF ForceAssistant, FinalizeAssistant
<1>31. CASE ForceDone
  BY <1>31 DEF ForceDone
<1>32. CASE Shutdown
  BY <1>32 DEF Shutdown
<1>33. CASE DrainEnds
  BY <1>33 DEF DrainEnds
<1>34. CASE Crash
  BY <1>34 DEF Crash
<1>35. CASE Boot
  BY <1>35 DEF Boot
<1>36. CASE RecoverSends
  BY <1>36 DEF RecoverSends, RecoveredState
<1>37. CASE RecoverRuns
  BY <1>37 DEF RecoverRuns
<1> HIDE DEF Records, Inv, TypeOK, Goto, EndTask, Idle, Serving, journalVars, runVars,
           taskVars, LifeOfTask, MapOfTable, DrivenRuns, TaskAt, Transition, Driven, Active,
           Terminal, SameSession, JournalAt, JournalOfRuns, EntryFollowsJournal, JournalState,
           SettledState, EntryStatus
<1> QED BY <1>1, <1>2, <1>3, <1>4, <1>5, <1>6, <1>7, <1>8, <1>9, <1>10, <1>11, <1>12, <1>13,
     <1>14, <1>15, <1>16, <1>17, <1>18, <1>19, <1>20, <1>21, <1>22, <1>23, <1>24, <1>25, <1>26,
     <1>27, <1>28, <1>29, <1>30, <1>31, <1>32, <1>33, <1>34, <1>35, <1>36, <1>37
  DEF Next, Step, Command, ProviderAnswers

\* The answer ends with its run.
LEMMA AnswerKept ==
  ASSUME Records, [Next]_vars
  PROVE  AnswerAt'
<1> USE DEF Records, Inv, TypeOK, Goto, EndTask, Idle, Serving, journalVars, runVars, taskVars,
           LifeOfTask, MapOfTable, DrivenRuns, TaskAt, Transition, Driven, Active, Terminal,
             SameSession,
           AnswerAt, EntryStatus
<1>1. CASE UNCHANGED vars
  BY <1>1 DEF vars
<1>2. ASSUME NEW n \in Nonce, Send(n)
      PROVE  AnswerAt'
  BY <1>2 DEF Send, NextRun, Busy
<1>3. ASSUME NEW n \in Nonce, Retry(n)
      PROVE  AnswerAt'
  BY <1>3 DEF Retry, NextRun, Busy, SetSendState
<1>4. ASSUME NEW n \in Nonce, RetryRun(n)
      PROVE  AnswerAt'
  BY <1>4 DEF RetryRun, NextRun, Busy
<1>5. CASE QueueSend
  BY <1>5 DEF QueueSend, SetSendState
<1>6. CASE StartFails
  BY <1>6 DEF StartFails, SetSendState
<1>7. CASE FailUser
  BY <1>7 DEF FailUser
<1>8. CASE CreateRun
  BY <1>8 DEF CreateRun, Busy
<1>9. CASE BeginDispatch
  BY <1>9 DEF BeginDispatch
<1>10. CASE MarkDispatching
  BY <1>10 DEF MarkDispatching, SetSendState
<1>11. CASE OpenRequest
  BY <1>11 DEF OpenRequest
<1>12. CASE NoProvider
  BY <1>12 DEF NoProvider
<1>13. ASSUME NEW r \in Run, Cancel(r)
      PROVE  AnswerAt'
  BY <1>13 DEF Cancel
<1>14. ASSUME NEW r \in Run, ServiceAccepts(r)
      PROVE  AnswerAt'
  BY <1>14 DEF ServiceAccepts
<1>15. ASSUME NEW r \in Run, Delta(r)
      PROVE  AnswerAt'
  BY <1>15 DEF Delta
<1>16. ASSUME NEW r \in Run, ProviderStarted(r)
      PROVE  AnswerAt'
  BY <1>16 DEF ProviderStarted
<1>17. ASSUME NEW r \in Run, Complete(r)
      PROVE  AnswerAt'
  BY <1>17 DEF Complete
<1>18. ASSUME NEW r \in Run, Aborted(r)
      PROVE  AnswerAt'
  BY <1>18 DEF Aborted
<1>19. ASSUME NEW r \in Run, NEW e \in Errors, ProviderError(r, e)
      PROVE  AnswerAt'
  BY <1>19 DEF ProviderError
<1>20. CASE AwaitEcho
  BY <1>20 DEF AwaitEcho, SetSendState
<1>21. CASE Acknowledge
  BY <1>21 DEF Acknowledge
<1>22. CASE CreateAssistant
  BY <1>22 DEF CreateAssistant
<1>23. CASE AttachAssistant
  BY <1>23 DEF AttachAssistant
<1>24. CASE CompleteRun
  BY <1>24 DEF CompleteRun, Drop
<1>25. CASE FailRun
  BY <1>25, FailureEnds DEF FailRun, Drop
<1>26. CASE FailAssistant
  BY <1>26 DEF FailAssistant, FinalizeAssistant, Drop
<1>27. CASE Settle
  BY <1>27 DEF Settle, SetSendState
<1>28. CASE SettleUser
  BY <1>28 DEF SettleUser
<1>29. ASSUME NEW r \in Run, ForceRun(r)
      PROVE  AnswerAt'
  BY <1>29 DEF ForceRun
<1>30. CASE ForceAssistant
  BY <1>30 DEF ForceAssistant, FinalizeAssistant
<1>31. CASE ForceDone
  BY <1>31 DEF ForceDone
<1>32. CASE Shutdown
  BY <1>32 DEF Shutdown
<1>33. CASE DrainEnds
  BY <1>33 DEF DrainEnds
<1>34. CASE Crash
  BY <1>34 DEF Crash
<1>35. CASE Boot
  BY <1>35 DEF Boot
<1>36. CASE RecoverSends
  BY <1>36 DEF RecoverSends, RecoveredState
<1>37. CASE RecoverRuns
  BY <1>37 DEF RecoverRuns
<1> HIDE DEF Records, Inv, TypeOK, Goto, EndTask, Idle, Serving, journalVars, runVars,
           taskVars, LifeOfTask, MapOfTable, DrivenRuns, TaskAt, Transition, Driven, Active,
           Terminal, SameSession, AnswerAt, EntryStatus
<1> QED BY <1>1, <1>2, <1>3, <1>4, <1>5, <1>6, <1>7, <1>8, <1>9, <1>10, <1>11, <1>12, <1>13,
     <1>14, <1>15, <1>16, <1>17, <1>18, <1>19, <1>20, <1>21, <1>22, <1>23, <1>24, <1>25, <1>26,
     <1>27, <1>28, <1>29, <1>30, <1>31, <1>32, <1>33, <1>34, <1>35, <1>36, <1>37
  DEF Next, Step, Command, ProviderAnswers

\* At the start there is no record to contradict another.
LEMMA InitRecords == Init => Records
<1> SUFFICES ASSUME Init
             PROVE  Records
  OBVIOUS
<1> USE DEF Init, Driven, Active, Terminal
<1>1. LifeOfTask /\ MapOfTable
  BY DEF LifeOfTask, MapOfTable
<1>2. JournalAt /\ JournalOfRuns /\ UndecidedAt
  BY DEF JournalAt, JournalOfRuns, UndecidedAt
<1>3. EntryFollowsJournal /\ AnswerAt
  BY DEF EntryFollowsJournal, AnswerAt
<1> QED BY <1>1, <1>2, <1>3, InitInv DEF Records

\* Every step keeps the records in agreement.
LEMMA NextRecords == Records /\ [Next]_vars => Records'
<1> SUFFICES ASSUME Records, [Next]_vars
             PROVE  Records'
  OBVIOUS
<1>1. Inv'
  BY NextInv DEF Records
<1>2. LifeOfTask' /\ MapOfTable' /\ JournalAt' /\ JournalOfRuns' /\ UndecidedAt'
  BY LifeKept, MapKept, JournalAtKept, JournalOfRunsKept, UndecidedKept
<1>3. EntryFollowsJournal' /\ AnswerAt'
  BY EntryKept, AnswerKept
<1> QED BY <1>1, <1>2, <1>3 DEF Records

\* The strengthened agreement of the records always holds.
LEMMA RecordsHold == Spec => []Records
<1>1. Init => Records
  BY InitRecords
<1>2. Records /\ [Next]_vars => Records'
  BY NextRecords
<1> QED BY <1>1, <1>2, PTL DEF Spec

\* Between tasks of a serving process a run is active if and only if the executor drives it,
\* and a shutdown leaves none active.
THEOREM MapFollowsTable == Spec => []ExecutorFollowsTable
<1>1. Records => ExecutorFollowsTable
  BY DEF Records, MapOfTable, ExecutorFollowsTable, Idle
<1> QED BY <1>1, RecordsHold, PTL

\* Journal, run and transcript entry agree, though a crash may fall between any two of their
\* commits.
THEOREM RecordsTellOneStory == Spec => []RecordsAgree
<1>1. Records => RecordsAgree
  <2> SUFFICES ASSUME Records
               PROVE  JournalFollowsRun
    BY DEF RecordsAgree, Records
  <2> SUFFICES ASSUME pc = "idle", app \in {"up", "draining"}, NEW n \in Nonce
               PROVE  /\ journal[n] \in InFlight => /\ journal[n] = "dispatching"
                                                    /\ \E r \in Run : r[1] = n /\ Active(r)
                      /\ \A r \in Run : r[1] = n /\ run[r] \in {"running", "streaming", "completed"}
                                          => journal[n] = "acked" \/ n \in reopened
    BY DEF JournalFollowsRun, Idle
  <2>1. journal[n] \in InFlight => /\ journal[n] = "dispatching"
                                   /\ \E r \in Run : r[1] = n /\ Active(r)
    BY DEF Records, UndecidedAt, InFlight
  <2>2. ASSUME NEW r \in Run, r[1] = n, run[r] \in {"running", "streaming", "completed"}
        PROVE  journal[n] = "acked" \/ n \in reopened
    <3>1. CASE run[r] = "completed"
      BY <2>2, <3>1 DEF Records, JournalOfRuns
    <3>2. CASE run[r] \in {"running", "streaming"}
      <4>1. Driven(r)
        BY <3>2 DEF Records, MapOfTable, Active
      <4>2. requestId[r]
        BY <3>2 DEF Records, JournalOfRuns
      <4> QED BY <2>2, <4>1, <4>2 DEF Records, JournalOfRuns
    <3> QED BY <2>2, <3>1, <3>2
  <2> QED BY <2>1, <2>2
<1> QED BY <1>1, RecordsHold, PTL

\* Everything but the steps below leaves the answers alone.
LEMMA WhoChangesAnswers ==
  ASSUME [Next]_vars
  PROVE  \/ UNCHANGED assistant
         \/ CreateAssistant \/ FailAssistant \/ ForceAssistant \/ RecoverRuns
         \/ \E r \in Run : Complete(r)
<1> USE DEF runVars
<1>1. CASE UNCHANGED vars
  BY <1>1 DEF vars
<1>2. CASE Command
  BY <1>2 DEF Command, Send, Retry, RetryRun
<1>3. CASE QueueSend \/ StartFails \/ FailUser \/ CreateRun \/ BeginDispatch \/ MarkDispatching
  BY <1>3 DEF QueueSend, StartFails, FailUser, CreateRun, BeginDispatch, MarkDispatching
<1>4. CASE OpenRequest \/ NoProvider \/ AwaitEcho \/ Acknowledge \/ AttachAssistant \/ CompleteRun
  BY <1>4 DEF OpenRequest, NoProvider, AwaitEcho, Acknowledge, AttachAssistant, CompleteRun
<1>5. CASE FailRun \/ Settle \/ SettleUser \/ ForceDone \/ RecoverSends
  BY <1>5 DEF FailRun, Settle, SettleUser, ForceDone, RecoverSends
<1>6. CASE Shutdown \/ DrainEnds \/ Crash \/ Boot
  BY <1>6 DEF Shutdown, DrainEnds, Crash, Boot
<1>7. ASSUME NEW r \in Run, Cancel(r) \/ ServiceAccepts(r) \/ Delta(r) \/ ProviderStarted(r)
      PROVE  UNCHANGED assistant
  BY <1>7 DEF Cancel, ServiceAccepts, Delta, ProviderStarted
<1>8. ASSUME NEW r \in Run, NEW e \in Errors, Aborted(r) \/ ForceRun(r) \/ ProviderError(r, e)
      PROVE  UNCHANGED assistant
  BY <1>8 DEF Aborted, ForceRun, ProviderError
<1> QED BY <1>1, <1>2, <1>3, <1>4, <1>5, <1>6, <1>7, <1>8 DEF Next, Step, ProviderAnswers

\* Only Complete, CreateAssistant, the failure of a run, the loop of shutdown and the recovery
\* write to an answer, and each finds it open.
LEMMA StepKeepsEnded ==
  ASSUME Records, [Next]_vars, NEW r \in Run
  PROVE  /\ run[r] \in TerminalStates => run'[r] = run[r]
         /\ assistant[r] \in {"completed", "failed", "cancelled"} => assistant'[r] = assistant[r]
<1> USE DEF Records, Inv, TypeOK
<1>1. ASSUME run[r] \in TerminalStates
      PROVE  run'[r] = run[r]
  <2>1. LegalStep
    BY StepIsLegal
  <2>2. RuntimeTransitions[run[r]] = {}
    BY <1>1 DEF RuntimeTransitions
  <2> QED BY <1>1, <2>1, <2>2 DEF LegalStep
<1>2. ASSUME assistant[r] \in {"completed", "failed", "cancelled"}
      PROVE  assistant'[r] = assistant[r]
  <2> USE DEF AnswerAt, EntryStatus
  <2>1. CASE UNCHANGED assistant
    BY <2>1
  <2>2. CASE CreateAssistant
    BY <1>2, <2>2 DEF CreateAssistant
  <2>3. ASSUME NEW t \in Run, Complete(t)
        PROVE  assistant'[r] = assistant[r]
    BY <1>2, <2>3 DEF Complete, Driven, Active, Idle
  <2>4. CASE FailAssistant \/ ForceAssistant
    BY <1>2, <2>4 DEF FailAssistant, ForceAssistant, FinalizeAssistant
  <2>5. CASE RecoverRuns
    BY <1>2, <2>5 DEF RecoverRuns
  <2> QED BY <2>1, <2>2, <2>3, <2>4, <2>5, WhoChangesAnswers
<1> QED BY <1>1, <1>2

\* A run that has ended, and its finished answer, are never written again.
THEOREM EndedIsFinal == Spec => EndedStaysEnded
<1> DEFINE Final == \A r \in Run :
              /\ run[r] \in TerminalStates => run'[r] = run[r]
              /\ assistant[r] \in {"completed", "failed", "cancelled"}
                   => assistant'[r] = assistant[r]
<1>1. Records /\ [Next]_vars => [Final]_vars
  BY StepKeepsEnded
<1>2. Spec => [][Final]_vars
  BY <1>1, RecordsHold, PTL DEF Spec
<1> QED BY <1>2 DEF EndedStaysEnded

(***************************************************************************)
(* The requests: what each task may rely on, whatever error the provider   *)
(* raises and whenever it does.                                            *)
(***************************************************************************)

\* A request is with the service only while its run is driven or its message is undecided.
LEMMA RequestKept ==
  ASSUME Records, RequestAt, [Next]_vars
  PROVE  RequestAt'
<1> USE DEF Records, Inv, TypeOK, Goto, EndTask, Idle, Serving, journalVars, runVars, taskVars,
           LifeOfTask, MapOfTable, DrivenRuns, TaskAt, Transition, Driven, Active, Terminal,
             SameSession,
           JournalAt, JournalOfRuns, UndecidedAt, RequestAt, Unsent, JournalState, InFlight
<1>1. CASE UNCHANGED vars
  BY <1>1 DEF vars
<1>2. ASSUME NEW n \in Nonce, Send(n)
      PROVE  RequestAt'
  BY <1>2, RunOfMessage DEF Send, NextRun, Busy
<1>3. ASSUME NEW n \in Nonce, Retry(n)
      PROVE  RequestAt'
  BY <1>3, RunOfMessage DEF Retry, NextRun, Busy, SetSendState
<1>4. ASSUME NEW n \in Nonce, RetryRun(n)
      PROVE  RequestAt'
  BY <1>4, RunOfMessage DEF RetryRun, NextRun, Busy
<1>5. CASE QueueSend
  BY <1>5 DEF QueueSend, SetSendState
<1>6. CASE StartFails
  BY <1>6 DEF StartFails, SetSendState
<1>7. CASE FailUser
  BY <1>7 DEF FailUser
<1>8. CASE CreateRun
  BY <1>8 DEF CreateRun, Busy
<1>9. CASE BeginDispatch
  BY <1>9 DEF BeginDispatch
<1>10. CASE MarkDispatching
  <2>1. CASE journal[cur[1]] = "acked"
    BY <1>10, <2>1 DEF MarkDispatching
  <2>2. CASE journal[cur[1]] = "queued"
    <3>1. journal' = [journal EXCEPT ![cur[1]] = "dispatching"]
      BY <1>10, <2>2 DEF MarkDispatching, SetSendState
    <3> QED BY <1>10, <2>2, <3>1, RunOfMessage DEF MarkDispatching
  <2> QED BY <1>10, <2>1, <2>2 DEF MarkDispatching
<1>11. CASE OpenRequest
  BY <1>11 DEF OpenRequest
<1>12. CASE NoProvider
  BY <1>12 DEF NoProvider
<1>13. ASSUME NEW r \in Run, Cancel(r)
      PROVE  RequestAt'
  BY <1>13 DEF Cancel
<1>14. ASSUME NEW r \in Run, ServiceAccepts(r)
      PROVE  RequestAt'
  BY <1>14 DEF ServiceAccepts
<1>15. ASSUME NEW r \in Run, Delta(r)
      PROVE  RequestAt'
  BY <1>15 DEF Delta
<1>16. ASSUME NEW r \in Run, ProviderStarted(r)
      PROVE  RequestAt'
  BY <1>16 DEF ProviderStarted
<1>17. ASSUME NEW r \in Run, Complete(r)
      PROVE  RequestAt'
  BY <1>17 DEF Complete
<1>18. ASSUME NEW r \in Run, Aborted(r)
      PROVE  RequestAt'
  BY <1>18 DEF Aborted
<1>19. ASSUME NEW r \in Run, NEW e \in Errors, ProviderError(r, e)
      PROVE  RequestAt'
  <2>1. \A t \in Run :
          /\ Unsent(t) => Unsent(t)'
          /\ request[t] = "none" => request'[t] = "none"
    BY <1>19 DEF ProviderError, Misreports
  <2>2. e \in {"retryable", "other"} /\ ~requestId[r] => journal[r[1]] = "acked" \/ Unsent(r)'
    <3>1. ASSUME e \in {"retryable", "other"}, ~requestId[r], journal[r[1]] # "acked"
          PROVE  request'[r] \in {"none", "rejected", "misreported"}
      <4>1. CASE request[r] = "accepted"
        <5>1. Misreports(r, e)
          BY <3>1, <4>1 DEF Misreports
        <5> QED BY <1>19, <4>1, <5>1 DEF ProviderError
      <4>2. CASE request[r] = "sent"
        BY <1>19, <3>1, <4>2 DEF ProviderError
      <4>3. CASE request[r] \in {"none", "rejected", "misreported"}
        BY <1>19, <4>3 DEF ProviderError, Misreports
      <4> QED BY <4>1, <4>2, <4>3
    <3> QED BY <3>1
  <2> QED BY <1>19, <2>1, <2>2 DEF ProviderError
<1>20. CASE AwaitEcho
  BY <1>20 DEF AwaitEcho, SetSendState
<1>21. CASE Acknowledge
  BY <1>21 DEF Acknowledge
<1>22. CASE CreateAssistant
  BY <1>22 DEF CreateAssistant
<1>23. CASE AttachAssistant
  BY <1>23 DEF AttachAssistant
<1>24. CASE CompleteRun
  BY <1>24 DEF CompleteRun, Drop
<1>25. CASE FailRun
  <2>1. CASE Terminal(cur)
    BY <1>25, <2>1 DEF FailRun, Drop
  <2>2. CASE ~Terminal(cur)
    <3>1. FailureTarget(cur, err) = "failed" /\ err # "refused"
            => journal[cur[1]] = "acked" \/ Unsent(cur)
      BY <1>25, <2>2, RunOfMessage DEF FailRun, FailureTarget
    <3>2. /\ pc' = "failAssistant"
          /\ run' = [run EXCEPT ![cur] = FailureTarget(cur, err)]
          /\ UNCHANGED <<journal, request, reopened, app, active, cur, err>>
      BY <1>25, <2>2 DEF FailRun
    <3> QED BY <1>25, <3>1, <3>2, FailureEnds DEF FailRun
  <2> QED BY <2>1, <2>2
<1>26. CASE FailAssistant
  BY <1>26 DEF FailAssistant, FinalizeAssistant, Drop
<1>27. CASE Settle
  <2>1. CASE journal[cur[1]] = "acked"
    BY <1>27, <2>1 DEF Settle
  <2>2. CASE journal[cur[1]] # "acked"
    <3>1. journal' = [journal EXCEPT ![cur[1]] = SettledState(cur, err)]
      BY <1>27, <2>2 DEF Settle, SetSendState
    <3>2. SettledState(cur, err) \in {"cancelled", "refused", "interrupted-unknown",
            "failed-before-acceptance"}
      BY DEF SettledState
    <3>3. SettledState(cur, err) = "failed-before-acceptance" => Unsent(cur)
      BY <1>27, <2>2 DEF Settle, SettledState
    <3>4. \A r \in Run : SameSession(r, cur) => ~Driven(r)
      BY <1>27 DEF Settle
    <3> QED BY <1>27, <2>2, <3>1, <3>2, <3>3, <3>4, RunOfMessage DEF Settle
  <2> QED BY <2>1, <2>2
<1>28. CASE SettleUser
  BY <1>28 DEF SettleUser
<1>29. ASSUME NEW r \in Run, ForceRun(r)
      PROVE  RequestAt'
  BY <1>29 DEF ForceRun
<1>30. CASE ForceAssistant
  BY <1>30 DEF ForceAssistant, FinalizeAssistant
<1>31. CASE ForceDone
  BY <1>31 DEF ForceDone
<1>32. CASE Shutdown
  BY <1>32 DEF Shutdown
<1>33. CASE DrainEnds
  BY <1>33 DEF DrainEnds
<1>34. CASE Crash
  BY <1>34 DEF Crash
<1>35. CASE Boot
  BY <1>35 DEF Boot
<1>36. CASE RecoverSends
  <2>1. \A n \in Nonce :
          /\ journal'[n] \notin {"prepared", "queued", "dispatching", "accepted-awaiting-echo"}
          /\ journal'[n] \in {"absent", "failed-before-acceptance"}
               => journal[n] \in {"absent", "prepared", "queued", "failed-before-acceptance"}
    BY <1>36 DEF RecoverSends, RecoveredState
  <2> QED BY <1>36, <2>1, RunOfMessage DEF RecoverSends
<1>37. CASE RecoverRuns
  BY <1>37, RunOfMessage DEF RecoverRuns
<1> HIDE DEF Records, Inv, TypeOK, Goto, EndTask, Idle, Serving, journalVars, runVars,
           taskVars, LifeOfTask, MapOfTable, DrivenRuns, TaskAt, Transition, Driven, Active,
           Terminal, SameSession, JournalAt, JournalOfRuns, UndecidedAt, RequestAt, Unsent,
           JournalState, InFlight
<1> QED BY <1>1, <1>2, <1>3, <1>4, <1>5, <1>6, <1>7, <1>8, <1>9, <1>10, <1>11, <1>12, <1>13,
     <1>14, <1>15, <1>16, <1>17, <1>18, <1>19, <1>20, <1>21, <1>22, <1>23, <1>24, <1>25, <1>26,
     <1>27, <1>28, <1>29, <1>30, <1>31, <1>32, <1>33, <1>34, <1>35, <1>36, <1>37
  DEF Next, Step, Command, ProviderAnswers

\* What has become of the task's request is known at every place.
LEMMA RequestsHold == Spec => [](Records /\ RequestAt)
<1>1. Init => Records /\ RequestAt
  <2>1. Init => RequestAt
    BY DEF Init, RequestAt, Unsent
  <2> QED BY <2>1, InitRecords
<1>2. (Records /\ RequestAt) /\ [Next]_vars => (Records /\ RequestAt)'
  BY NextRecords, RequestKept
<1> QED BY <1>1, <1>2, PTL DEF Spec

\* A message that may be sent again is not with the service and never will be, whatever error
\* its provider raises and whenever, except where that error misreports a request that was
\* taken, or a failed regeneration undid the acknowledgement.
THEOREM RetryReachesNobodyTwice == Spec => []RetryIsSafe
<1>1. Records /\ RequestAt => RetryIsSafe
  BY DEF RequestAt, RetryIsSafe, Unsent
<1> QED BY <1>1, RequestsHold, PTL

(***************************************************************************)
(* The promise of SendPromise, when in addition a regeneration finds its   *)
(* provider: then no acknowledgement is undone, and each step of the       *)
(* runtime is a step of the promise or changes nothing that it reports.    *)
(***************************************************************************)

\* How the journal of a message may move: a send begins, a failed one is sent again, and a
\* message that is being sent is decided; acknowledged only by Acknowledge.
JournalMoves ==
  \A n \in Nonce :
    \/ journal'[n] = journal[n]
    \/ journal[n] = "absent" /\ journal'[n] = "prepared"
    \/ journal[n] = "failed-before-acceptance" /\ journal'[n] = "queued"
    \/ /\ journal[n] \in InFlight /\ journal'[n] # "absent"
       /\ journal'[n] = "acked" => pc = "ack" /\ n = cur[1]


\* Every step moves the journal so.
LEMMA Moves ==
  ASSUME Records, RegenerateMayFail = FALSE, [Next]_vars
  PROVE  JournalMoves
<1> USE DEF Records, Inv, TypeOK, journalVars, runVars, taskVars, JournalAt, JournalMoves, InFlight,
      JournalState
<1>1. CASE UNCHANGED vars
  BY <1>1 DEF vars
<1>2. ASSUME NEW n \in Nonce, Send(n)
      PROVE  JournalMoves
  BY <1>2 DEF Send, NextRun, Busy
<1>3. ASSUME NEW n \in Nonce, Retry(n)
      PROVE  JournalMoves
  BY <1>3 DEF Retry, NextRun, Busy, SetSendState
<1>4. ASSUME NEW n \in Nonce, RetryRun(n)
      PROVE  JournalMoves
  BY <1>4 DEF RetryRun, NextRun, Busy
<1>5. CASE QueueSend
  BY <1>5 DEF QueueSend, SetSendState
<1>6. CASE StartFails
  BY <1>6, RunOfMessage DEF StartFails, SetSendState
<1>7. CASE FailUser
  BY <1>7 DEF FailUser
<1>8. CASE CreateRun
  BY <1>8 DEF CreateRun, Busy
<1>9. CASE BeginDispatch
  BY <1>9 DEF BeginDispatch
<1>10. CASE MarkDispatching
  BY <1>10 DEF MarkDispatching, SetSendState
<1>11. CASE OpenRequest
  BY <1>11 DEF OpenRequest
<1>12. CASE NoProvider
  BY <1>12 DEF NoProvider
<1>13. ASSUME NEW r \in Run, Cancel(r)
      PROVE  JournalMoves
  BY <1>13 DEF Cancel
<1>14. ASSUME NEW r \in Run, ServiceAccepts(r)
      PROVE  JournalMoves
  BY <1>14 DEF ServiceAccepts
<1>15. ASSUME NEW r \in Run, Delta(r)
      PROVE  JournalMoves
  BY <1>15 DEF Delta
<1>16. ASSUME NEW r \in Run, ProviderStarted(r)
      PROVE  JournalMoves
  BY <1>16 DEF ProviderStarted
<1>17. ASSUME NEW r \in Run, Complete(r)
      PROVE  JournalMoves
  BY <1>17 DEF Complete
<1>18. ASSUME NEW r \in Run, Aborted(r)
      PROVE  JournalMoves
  BY <1>18 DEF Aborted
<1>19. ASSUME NEW r \in Run, NEW e \in Errors, ProviderError(r, e)
      PROVE  JournalMoves
  BY <1>19 DEF ProviderError
<1>20. CASE AwaitEcho
  BY <1>20 DEF AwaitEcho, SetSendState
<1>21. CASE Acknowledge
  BY <1>21 DEF Acknowledge
<1>22. CASE CreateAssistant
  BY <1>22 DEF CreateAssistant
<1>23. CASE AttachAssistant
  BY <1>23 DEF AttachAssistant
<1>24. CASE CompleteRun
  BY <1>24 DEF CompleteRun, Drop
<1>25. CASE FailRun
  BY <1>25 DEF FailRun, Drop
<1>26. CASE FailAssistant
  BY <1>26 DEF FailAssistant, FinalizeAssistant, Drop
<1>27. CASE Settle
  <2>1. SettledState(cur, err) \notin {"absent", "acked"}
    BY DEF SettledState
  <2> QED BY <1>27, <2>1 DEF Settle, SetSendState
<1>28. CASE SettleUser
  BY <1>28 DEF SettleUser
<1>29. ASSUME NEW r \in Run, ForceRun(r)
      PROVE  JournalMoves
  BY <1>29 DEF ForceRun
<1>30. CASE ForceAssistant
  BY <1>30 DEF ForceAssistant, FinalizeAssistant
<1>31. CASE ForceDone
  BY <1>31 DEF ForceDone
<1>32. CASE Shutdown
  BY <1>32 DEF Shutdown
<1>33. CASE DrainEnds
  BY <1>33 DEF DrainEnds
<1>34. CASE Crash
  BY <1>34 DEF Crash
<1>35. CASE Boot
  BY <1>35 DEF Boot
<1>36. CASE RecoverSends
  BY <1>36 DEF RecoverSends, RecoveredState
<1>37. CASE RecoverRuns
  BY <1>37 DEF RecoverRuns
<1> HIDE DEF Records, Inv, TypeOK, journalVars, runVars, taskVars, JournalAt, JournalMoves,
           InFlight, JournalState
<1> QED BY <1>1, <1>2, <1>3, <1>4, <1>5, <1>6, <1>7, <1>8, <1>9, <1>10, <1>11, <1>12, <1>13,
     <1>14, <1>15, <1>16, <1>17, <1>18, <1>19, <1>20, <1>21, <1>22, <1>23, <1>24, <1>25, <1>26,
     <1>27, <1>28, <1>29, <1>30, <1>31, <1>32, <1>33, <1>34, <1>35, <1>36, <1>37
  DEF Next, Step, Command, ProviderAnswers

\* How the request of a run may move: the service takes it or turns it down, or its provider
\* misreports it.
RequestMoves ==
  \A r \in Run :
    \/ request'[r] = request[r]
    \/ request[r] = "none" /\ request'[r] = "sent"
    \/ request[r] = "sent" /\ request'[r] = "rejected"
    \/ request[r] = "sent" /\ request'[r] = "accepted" /\ ServiceAccepts(r)
    \/ /\ request[r] = "accepted" /\ request'[r] = "misreported"
       /\ \E e \in Errors : ProviderError(r, e) /\ Misreports(r, e)


\* Every step moves the requests so.
LEMMA Requests ==
  ASSUME Records, RequestAt, [Next]_vars
  PROVE  RequestMoves
<1> USE DEF RequestAt, Records, Inv, TypeOK, journalVars, runVars, taskVars, RequestMoves
<1>1. CASE UNCHANGED vars
  BY <1>1 DEF vars
<1>2. ASSUME NEW n \in Nonce, Send(n)
      PROVE  RequestMoves
  BY <1>2 DEF Send, NextRun, Busy
<1>3. ASSUME NEW n \in Nonce, Retry(n)
      PROVE  RequestMoves
  BY <1>3 DEF Retry, NextRun, Busy, SetSendState
<1>4. ASSUME NEW n \in Nonce, RetryRun(n)
      PROVE  RequestMoves
  BY <1>4 DEF RetryRun, NextRun, Busy
<1>5. CASE QueueSend
  BY <1>5 DEF QueueSend, SetSendState
<1>6. CASE StartFails
  BY <1>6 DEF StartFails, SetSendState
<1>7. CASE FailUser
  BY <1>7 DEF FailUser
<1>8. CASE CreateRun
  BY <1>8 DEF CreateRun, Busy
<1>9. CASE BeginDispatch
  BY <1>9 DEF BeginDispatch
<1>10. CASE MarkDispatching
  BY <1>10 DEF MarkDispatching, SetSendState
<1>11. CASE OpenRequest
  BY <1>11 DEF OpenRequest
<1>12. CASE NoProvider
  BY <1>12 DEF NoProvider
<1>13. ASSUME NEW r \in Run, Cancel(r)
      PROVE  RequestMoves
  BY <1>13 DEF Cancel
<1>14. ASSUME NEW r \in Run, ServiceAccepts(r)
      PROVE  RequestMoves
  BY <1>14 DEF ServiceAccepts
<1>15. ASSUME NEW r \in Run, Delta(r)
      PROVE  RequestMoves
  BY <1>15 DEF Delta
<1>16. ASSUME NEW r \in Run, ProviderStarted(r)
      PROVE  RequestMoves
  BY <1>16 DEF ProviderStarted
<1>17. ASSUME NEW r \in Run, Complete(r)
      PROVE  RequestMoves
  BY <1>17 DEF Complete
<1>18. ASSUME NEW r \in Run, Aborted(r)
      PROVE  RequestMoves
  BY <1>18 DEF Aborted
<1>19. ASSUME NEW r \in Run, NEW e \in Errors, ProviderError(r, e)
      PROVE  RequestMoves
  <2>1. /\ \A t \in Run : t # r => request'[t] = request[t]
        /\ \/ request'[r] = request[r]
           \/ request[r] = "sent" /\ request'[r] = "rejected"
           \/ request[r] = "accepted" /\ request'[r] = "misreported" /\ Misreports(r, e)
    BY <1>19 DEF ProviderError, Misreports
  <2> QED BY <1>19, <2>1
<1>20. CASE AwaitEcho
  BY <1>20 DEF AwaitEcho, SetSendState
<1>21. CASE Acknowledge
  BY <1>21 DEF Acknowledge
<1>22. CASE CreateAssistant
  BY <1>22 DEF CreateAssistant
<1>23. CASE AttachAssistant
  BY <1>23 DEF AttachAssistant
<1>24. CASE CompleteRun
  BY <1>24 DEF CompleteRun, Drop
<1>25. CASE FailRun
  BY <1>25 DEF FailRun, Drop
<1>26. CASE FailAssistant
  BY <1>26 DEF FailAssistant, FinalizeAssistant, Drop
<1>27. CASE Settle
  BY <1>27 DEF Settle, SetSendState
<1>28. CASE SettleUser
  BY <1>28 DEF SettleUser
<1>29. ASSUME NEW r \in Run, ForceRun(r)
      PROVE  RequestMoves
  BY <1>29 DEF ForceRun
<1>30. CASE ForceAssistant
  BY <1>30 DEF ForceAssistant, FinalizeAssistant
<1>31. CASE ForceDone
  BY <1>31 DEF ForceDone
<1>32. CASE Shutdown
  BY <1>32 DEF Shutdown
<1>33. CASE DrainEnds
  BY <1>33 DEF DrainEnds
<1>34. CASE Crash
  BY <1>34 DEF Crash
<1>35. CASE Boot
  BY <1>35 DEF Boot
<1>36. CASE RecoverSends
  BY <1>36 DEF RecoverSends, RecoveredState
<1>37. CASE RecoverRuns
  BY <1>37 DEF RecoverRuns
<1> HIDE DEF RequestAt, Records, Inv, TypeOK, journalVars, runVars, taskVars, RequestMoves
<1> QED BY <1>1, <1>2, <1>3, <1>4, <1>5, <1>6, <1>7, <1>8, <1>9, <1>10, <1>11, <1>12, <1>13,
     <1>14, <1>15, <1>16, <1>17, <1>18, <1>19, <1>20, <1>21, <1>22, <1>23, <1>24, <1>25, <1>26,
     <1>27, <1>28, <1>29, <1>30, <1>31, <1>32, <1>33, <1>34, <1>35, <1>36, <1>37
  DEF Next, Step, Command, ProviderAnswers

\* Only a regeneration that fails to start undoes an acknowledgement.
LEMMA WhoReopens ==
  ASSUME Records, reopened = {}, RegenerateMayFail = FALSE, [Next]_vars
  PROVE  reopened' = {}
<1> USE DEF Records, Inv, TypeOK, journalVars, runVars, taskVars, JournalAt
<1>1. CASE UNCHANGED vars
  BY <1>1 DEF vars
<1>2. ASSUME NEW n \in Nonce, Send(n)
      PROVE  reopened' = {}
  BY <1>2 DEF Send, NextRun, Busy
<1>3. ASSUME NEW n \in Nonce, Retry(n)
      PROVE  reopened' = {}
  BY <1>3 DEF Retry, NextRun, Busy, SetSendState
<1>4. ASSUME NEW n \in Nonce, RetryRun(n)
      PROVE  reopened' = {}
  BY <1>4 DEF RetryRun, NextRun, Busy
<1>5. CASE QueueSend
  BY <1>5 DEF QueueSend, SetSendState
<1>6. CASE StartFails
  BY <1>6 DEF StartFails, SetSendState
<1>7. CASE FailUser
  BY <1>7 DEF FailUser
<1>8. CASE CreateRun
  BY <1>8 DEF CreateRun, Busy
<1>9. CASE BeginDispatch
  BY <1>9 DEF BeginDispatch
<1>10. CASE MarkDispatching
  BY <1>10 DEF MarkDispatching, SetSendState
<1>11. CASE OpenRequest
  BY <1>11 DEF OpenRequest
<1>12. CASE NoProvider
  BY <1>12 DEF NoProvider
<1>13. ASSUME NEW r \in Run, Cancel(r)
      PROVE  reopened' = {}
  BY <1>13 DEF Cancel
<1>14. ASSUME NEW r \in Run, ServiceAccepts(r)
      PROVE  reopened' = {}
  BY <1>14 DEF ServiceAccepts
<1>15. ASSUME NEW r \in Run, Delta(r)
      PROVE  reopened' = {}
  BY <1>15 DEF Delta
<1>16. ASSUME NEW r \in Run, ProviderStarted(r)
      PROVE  reopened' = {}
  BY <1>16 DEF ProviderStarted
<1>17. ASSUME NEW r \in Run, Complete(r)
      PROVE  reopened' = {}
  BY <1>17 DEF Complete
<1>18. ASSUME NEW r \in Run, Aborted(r)
      PROVE  reopened' = {}
  BY <1>18 DEF Aborted
<1>19. ASSUME NEW r \in Run, NEW e \in Errors, ProviderError(r, e)
      PROVE  reopened' = {}
  BY <1>19 DEF ProviderError
<1>20. CASE AwaitEcho
  BY <1>20 DEF AwaitEcho, SetSendState
<1>21. CASE Acknowledge
  BY <1>21 DEF Acknowledge
<1>22. CASE CreateAssistant
  BY <1>22 DEF CreateAssistant
<1>23. CASE AttachAssistant
  BY <1>23 DEF AttachAssistant
<1>24. CASE CompleteRun
  BY <1>24 DEF CompleteRun, Drop
<1>25. CASE FailRun
  BY <1>25 DEF FailRun, Drop
<1>26. CASE FailAssistant
  BY <1>26 DEF FailAssistant, FinalizeAssistant, Drop
<1>27. CASE Settle
  BY <1>27 DEF Settle, SetSendState
<1>28. CASE SettleUser
  BY <1>28 DEF SettleUser
<1>29. ASSUME NEW r \in Run, ForceRun(r)
      PROVE  reopened' = {}
  BY <1>29 DEF ForceRun
<1>30. CASE ForceAssistant
  BY <1>30 DEF ForceAssistant, FinalizeAssistant
<1>31. CASE ForceDone
  BY <1>31 DEF ForceDone
<1>32. CASE Shutdown
  BY <1>32 DEF Shutdown
<1>33. CASE DrainEnds
  BY <1>33 DEF DrainEnds
<1>34. CASE Crash
  BY <1>34 DEF Crash
<1>35. CASE Boot
  BY <1>35 DEF Boot
<1>36. CASE RecoverSends
  BY <1>36 DEF RecoverSends, RecoveredState
<1>37. CASE RecoverRuns
  BY <1>37 DEF RecoverRuns
<1> HIDE DEF Records, Inv, TypeOK, journalVars, runVars, taskVars, JournalAt
<1> QED BY <1>1, <1>2, <1>3, <1>4, <1>5, <1>6, <1>7, <1>8, <1>9, <1>10, <1>11, <1>12, <1>13,
     <1>14, <1>15, <1>16, <1>17, <1>18, <1>19, <1>20, <1>21, <1>22, <1>23, <1>24, <1>25, <1>26,
     <1>27, <1>28, <1>29, <1>30, <1>31, <1>32, <1>33, <1>34, <1>35, <1>36, <1>37
  DEF Next, Step, Command, ProviderAnswers

\* What the refinement rests on.
Promised == Records /\ RequestAt /\ reopened = {}

\* What the refinement rests on always holds.
LEMMA PromisedHolds ==
  ASSUME RegenerateMayFail = FALSE
  PROVE  Spec => []Promised
<1>1. Init => Promised
  <2>1. Init => RequestAt /\ reopened = {}
    BY DEF Init, RequestAt, Unsent
  <2> QED BY <2>1, InitRecords DEF Promised
<1>2. Promised /\ [Next]_vars => Promised'
  <2> SUFFICES ASSUME Promised, [Next]_vars
               PROVE  Promised'
    OBVIOUS
  <2>1. Records' /\ RequestAt'
    BY NextRecords, RequestKept DEF Promised
  <2>2. reopened' = {}
    BY WhoReopens DEF Promised
  <2> QED BY <2>1, <2>2 DEF Promised
<1> QED BY <1>1, <1>2, PTL DEF Spec

\* A message counts as taken when the service accepts a request for it, and no longer when
\* its provider misreports that request.
LEMMA PromisedStep ==
  ASSUME Promised, Promised', [Next]_vars, RegenerateMayFail = FALSE
  PROVE  [Promise!Next]_(Promise!vars)
<1> DEFINE msg   == [n \in Nonce |-> ReportOf(journal[n])]
           taken == {n \in Nonce : \E r \in Run : r[1] = n /\ request[r] = "accepted"}
<1>1. JournalMoves /\ RequestMoves
  BY Moves, Requests DEF Promised
<1>2. CASE \E r \in Run : ServiceAccepts(r)
  <2>1. PICK r \in Run : ServiceAccepts(r)
    BY <1>2
  <2>2. /\ request[r] = "sent"
        /\ request' = [request EXCEPT ![r] = "accepted"]
        /\ UNCHANGED journal
    BY <2>1 DEF ServiceAccepts, journalVars
  <2>3. taken' = taken \cup {r[1]}
    BY <2>2, RunOfMessage DEF Promised, Records, Inv, TypeOK
  <2>4. UNCHANGED msg
    BY <2>2
  <2>5. ReportOf(journal[r[1]]) \notin {"unsent", "failed"}
    <3>1. journal[r[1]] \notin {"absent", "failed-before-acceptance"}
      BY <2>2 DEF Promised, RequestAt, Unsent
    <3>2. journal[r[1]] \in JournalState
      BY RunOfMessage DEF Promised, Records, Inv, TypeOK
    <3> QED BY <3>1, <3>2 DEF ReportOf, JournalState, InFlight
  <2>6. r[1] \in Nonce /\ msg[r[1]] \notin {"unsent", "failed"}
    BY <2>5, RunOfMessage
  <2>7. Promise!Take(r[1])
    BY <2>3, <2>4, <2>6 DEF Promise!Take
  <2> QED BY <2>6, <2>7 DEF Promise!Next
<1>3. CASE \E r \in Run, e \in Errors : ProviderError(r, e) /\ Misreports(r, e)
  <2>1. PICK r \in Run, e \in Errors : ProviderError(r, e) /\ Misreports(r, e)
    BY <1>3
  <2>2. /\ request[r] = "accepted" /\ journal[r[1]] # "acked"
        /\ request' = [request EXCEPT ![r] = "misreported"]
        /\ pc = "idle" /\ Driven(r)
        /\ UNCHANGED journal
    BY <2>1 DEF ProviderError, Misreports, Idle, Driven, journalVars
  <2>3. journal[r[1]] = "dispatching"
    BY <2>2 DEF Promised, Records, JournalOfRuns
  <2>4. \A t \in Run : t[1] = r[1] /\ request[t] = "accepted" => t = r
    <3>1. app \in {"up", "draining", "stopped"}
      BY <2>2 DEF Promised, Records, MapOfTable
    <3>2. ASSUME NEW t \in Run, t[1] = r[1], request[t] = "accepted"
          PROVE  Driven(t)
      BY <2>2, <2>3, <3>1, <3>2 DEF Promised, RequestAt, Unsent
    <3> QED BY <2>2, <3>2 DEF Promised, Records, MapOfTable, SameSession
  <2>5. taken' = taken \ {r[1]}
    BY <2>2, <2>4 DEF Promised, Records, Inv, TypeOK
  <2>6. UNCHANGED msg
    BY <2>2
  <2>7. r[1] \in Nonce /\ r[1] \in taken /\ msg[r[1]] = "sending"
    BY <2>2, <2>3, RunOfMessage DEF ReportOf, InFlight
  <2>8. Promise!Deny(r[1])
    BY <2>5, <2>6, <2>7 DEF Promise!Deny
  <2> QED BY <2>7, <2>8 DEF Promise!Next
<1>4. CASE /\ ~ \E r \in Run : ServiceAccepts(r)
           /\ ~ \E r \in Run, e \in Errors : ProviderError(r, e) /\ Misreports(r, e)
  <2>1. taken' = taken
    BY <1>1, <1>4 DEF RequestMoves
  <2>2. msg' \in [Nonce -> Promise!Decision \cup {"unsent", "sending"}]
    <3>1. \A n \in Nonce : journal'[n] \in JournalState
      BY DEF Promised, Records, Inv, TypeOK
    <3>2. \A n \in Nonce : ReportOf(journal'[n]) \in Promise!Decision \cup {"unsent", "sending"}
      BY <3>1 DEF ReportOf, JournalState, InFlight, Promise!Decision
    <3> QED BY <3>2
  <2>3. ASSUME NEW n \in Nonce, msg'[n] # msg[n]
        PROVE  Promise!MayBecome(n, msg'[n])
    <3>1. msg[n] = ReportOf(journal[n]) /\ msg'[n] = ReportOf(journal'[n])
      OBVIOUS
    <3>2. journal'[n] # journal[n]
      BY <2>3, <3>1
    <3>3. CASE journal[n] = "absent" /\ journal'[n] = "prepared"
      BY <3>1, <3>3 DEF ReportOf, InFlight, Promise!MayBecome
    <3>4. CASE journal[n] = "failed-before-acceptance" /\ journal'[n] = "queued"
      BY <3>1, <3>4 DEF ReportOf, InFlight, Promise!MayBecome
    <3>5. CASE /\ journal[n] \in InFlight /\ journal'[n] # "absent"
               /\ journal'[n] = "acked" => pc = "ack" /\ n = cur[1]
      <4>1. msg[n] = "sending"
        BY <3>1, <3>5 DEF ReportOf, InFlight
      <4>2. journal'[n] \in JournalState \ {"absent"}
        BY <3>5 DEF Promised, Records, Inv, TypeOK
      <4>3. msg'[n] \in Promise!Decision
        BY <2>3, <3>1, <4>1, <4>2 DEF ReportOf, JournalState, InFlight, Promise!Decision
      <4>4. msg'[n] = "delivered" => n \in taken
        <5>1. msg'[n] = "delivered" => journal'[n] = "acked"
          BY <3>1, <4>2 DEF ReportOf, JournalState, InFlight
        <5>2. pc = "ack" => cur \in Run /\ request[cur] = "accepted"
          BY DEF Promised, Records, Inv, TypeOK, RequestAt
        <5> QED BY <3>5, <5>1, <5>2
      <4>5. msg'[n] = "failed" => n \notin taken
        <5>1. msg'[n] = "failed" => journal'[n] = "failed-before-acceptance"
          BY <3>1, <4>2 DEF ReportOf, JournalState, InFlight
        <5>2. journal'[n] = "failed-before-acceptance" => n \notin taken'
          BY DEF Promised, RequestAt, Unsent
        <5> QED BY <2>1, <5>1, <5>2
      <4> QED BY <4>1, <4>3, <4>4, <4>5 DEF Promise!MayBecome
    <3> QED BY <1>1, <3>2, <3>3, <3>4, <3>5 DEF JournalMoves
  <2>4. Promise!Report
    BY <2>1, <2>2, <2>3 DEF Promise!Report
  <2> QED BY <2>4 DEF Promise!Next
<1> QED BY <1>2, <1>3, <1>4

\* The runtime implements the promise: a message is decided once, one reported as failed was
\* not and will not be taken by the model service unless its provider denied it, only such a
\* message is sent again, and a delivered one was taken; through every cancellation, shutdown,
\* crash and restart.
THEOREM RuntimeKeepsPromise ==
  ASSUME RegenerateMayFail = FALSE
  PROVE  Spec => KeepsPromise
<1>1. Init => Promise!Init
  <2> SUFFICES ASSUME Init
               PROVE  Promise!Init
    OBVIOUS
  <2>1. \A n \in Nonce : ReportOf(journal[n]) = "unsent"
    <3>1. ReportOf("absent") = "unsent"
      BY DEF ReportOf, InFlight
    <3> QED BY <3>1 DEF Init
  <2>2. [n \in Nonce |-> ReportOf(journal[n])] = [n \in Nonce |-> "unsent"]
    BY <2>1
  <2>3. {n \in Nonce : \E r \in Run : r[1] = n /\ request[r] = "accepted"} = {}
    BY DEF Init
  <2> QED BY <2>2, <2>3 DEF Promise!Init
<1>2. Promised /\ Promised' /\ [Next]_vars => [Promise!Next]_(Promise!vars)
  BY PromisedStep
<1> QED BY <1>1, <1>2, PromisedHolds, PTL DEF Spec, KeepsPromise, Promise!Spec
=============================================================================
