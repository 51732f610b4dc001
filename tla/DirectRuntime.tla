--------------------------- MODULE DirectRuntime ---------------------------
(***************************************************************************)
(* A Direct (one Bot) conversation: the send journal, the transcript, the  *)
(* runtime runs and the in-memory executor that drives one provider        *)
(* request per run (send-worker.ts, runtime-executor.ts, database.ts).     *)
(*                                                                         *)
(* The Electron main process runs one JavaScript task at a time, but each  *)
(* repository call of a task commits on its own, so the process can die    *)
(* between two commits of one handler.  pc names the next commit of the    *)
(* running task: while pc # "idle" only that commit or a Crash may happen. *)
(* cur is the run the task is about and err the error it is handling.      *)
(*                                                                         *)
(* Left out: message bodies, prompts, events to the renderer, delta        *)
(* flushing, the stale timer, tool rounds (they keep a run in "running" or *)
(* "streaming"), Room runs and SQLite errors.                              *)
(***************************************************************************)
EXTENDS Naturals, FiniteSets

CONSTANTS
  Nonce,              \* client nonces: one per user message
  NoNonce,            \* "no message yet"
  Session,            \* Direct conversations
  SessionOf,          \* the conversation each message is sent in
  Run,                \* bound: the runs a behaviour may have, <<message, attempt>>
                      \* (the code has no limit)
  RegenerateMayFail   \* can executor.start throw before the run exists when
                      \* an answer is regenerated (its provider instance is
                      \* gone, say)?

Errors == {"transport", "refused", "retryable", "other"}

ASSUME ConstantsAssumption ==
  /\ NoNonce \notin Nonce
  /\ SessionOf \in [Nonce -> Session]
  /\ Run \subseteq Nonce \X (Nat \ {0})
  /\ RegenerateMayFail \in BOOLEAN

NoRun == <<NoNonce, 0>>

JournalState == {"absent", "prepared", "queued", "dispatching",
                 "accepted-awaiting-echo", "acked", "failed-before-acceptance",
                 "cancelled", "refused", "interrupted-unknown"}
ActiveStates   == {"created", "dispatching", "running", "streaming", "cancel-requested"}
TerminalStates == {"completed", "failed", "cancelled", "interrupted"}
RunState       == ActiveStates \cup TerminalStates \cup {"none"}
EntryStatus    == {"none", "pending", "streaming", "completed", "failed", "cancelled"}

RuntimeTransitions ==
  [s \in RunState |->
     CASE s = "created"          -> {"dispatching", "cancel-requested", "failed", "interrupted"}
       [] s = "dispatching"      -> {"running", "cancel-requested", "failed", "interrupted"}
       [] s = "running"          -> {"streaming", "completed", "cancel-requested", "failed", "interrupted"}
       [] s = "streaming"        -> {"completed", "cancel-requested", "failed", "interrupted"}
       [] s = "cancel-requested" -> {"cancelled", "interrupted"}
       [] OTHER                  -> {}]

VARIABLES
  \* SQLite: survives a crash
  journal,    \* send_journal.state per message ("absent": no row)
  appErr,     \* is send_journal.last_error_code APP_INTERRUPTED?
  user,       \* status of the user's transcript entry
  latest,     \* newest user message of each conversation
  run,        \* runtime_runs.state ("none": no row)
  requestId,  \* does the run have a provider_request_id?
  assistant,  \* status of the assistant entry made for the run
  attached,   \* is it recorded as the run's assistant_entry_id?
  \* main process memory
  app,        \* life of the process
  pc, cur, err,
  active,     \* RuntimeExecutor.active: each entry's abortReason
  \* the model service
  request,    \* what became of the run's request; "misreported": the service, or
              \* a gateway in front of it, took it, and the error the provider
              \* raises says that it did not
  \* history
  reopened    \* messages whose acknowledgement was undone

journalVars == <<journal, appErr, user, latest>>
runVars     == <<run, requestId, assistant, attached>>
taskVars    == <<pc, cur, err>>
vars == <<journalVars, runVars, app, taskVars, active, request, reopened>>

TypeOK ==
  /\ journal \in [Nonce -> JournalState]
  /\ appErr \in [Nonce -> BOOLEAN]
  /\ user \in [Nonce -> EntryStatus]
  /\ latest \in [Session -> Nonce \cup {NoNonce}]
  /\ run \in [Run -> RunState]
  /\ requestId \in [Run -> BOOLEAN]
  /\ assistant \in [Run -> EntryStatus]
  /\ attached \in [Run -> BOOLEAN]
  /\ app \in {"down", "recovering", "up", "draining", "stopped"}
  /\ pc \in {"idle", "recoverSends", "recoverRuns", "queue", "start", "failUser",
             "dispatch", "mark", "provide", "echo", "ack", "assistant", "attach",
             "complete", "fail", "failAssistant", "settle", "settleUser",
             "force", "forceAssistant"}
  /\ cur \in Run \cup {NoRun}
  /\ (pc \notin {"idle", "recoverSends", "recoverRuns", "force"}) => cur \in Run
  /\ err \in Errors \cup {"none", "abort", "shutdown"}
  /\ active \in [Run -> {"absent", "none", "user", "app-shutdown"}]
  /\ request \in [Run -> {"none", "sent", "accepted", "rejected", "misreported"}]
  /\ reopened \subseteq Nonce

Init ==
  /\ journal = [n \in Nonce |-> "absent"]
  /\ appErr = [n \in Nonce |-> FALSE]
  /\ user = [n \in Nonce |-> "none"]
  /\ latest = [s \in Session |-> NoNonce]
  /\ run = [r \in Run |-> "none"]
  /\ requestId = [r \in Run |-> FALSE]
  /\ assistant = [r \in Run |-> "none"]
  /\ attached = [r \in Run |-> FALSE]
  /\ app = "down"
  /\ pc = "idle" /\ cur = NoRun /\ err = "none"
  /\ active = [r \in Run |-> "absent"]
  /\ request = [r \in Run |-> "none"]
  /\ reopened = {}

----------------------------------------------------------------------------
(* Reads the handlers make.                                                *)

Active(r)   == run[r] \in ActiveStates
Terminal(r) == run[r] \in TerminalStates

\* Mutant: a run being cancelled no longer counts as active.
BusyUnlessCancelling(s) ==
  \E r \in Run : SessionOf[r[1]] = s /\ Active(r) /\ run[r] # "cancel-requested"

\* getActiveRuntimeRun
Busy(s) == \E r \in Run : SessionOf[r[1]] = s /\ Active(r)

\* createRuntimeRun: attempt_no = MAX(attempt_no) + 1 over the message's runs
NextRun(n, r) ==
  /\ r[1] = n /\ run[r] = "none"
  /\ \A t \in Run : t[1] = n /\ t[2] < r[2] => run[t] # "none"

\* setSendState writes last_error_code too
SetSendState(n, s, interrupted) ==
  /\ journal' = [journal EXCEPT ![n] = s]
  /\ appErr' = [appErr EXCEPT ![n] = interrupted]

Transition(r, s) == run' = [run EXCEPT ![r] = s]

Idle    == pc = "idle"
Serving == Idle /\ app = "up"

Goto(label) == pc' = label
EndTask == pc' = "idle" /\ cur' = NoRun /\ err' = "none"

Driven(r) == active[r] # "absent"

\* Mutant: dispatch's finally block forgets the active map.
KeepEntry(r) == UNCHANGED active

Drop(r) == active' = [active EXCEPT ![r] = "absent"]

----------------------------------------------------------------------------
(* The user's commands.                                                    *)

\* send, first commit: prepareMessage.  A nonce already in the journal is a
\* duplicate and changes nothing.
Send(n) ==
  /\ Serving
  /\ journal[n] = "absent"
  /\ ~Busy(SessionOf[n])
  /\ \E r \in Run : NextRun(n, r) /\ cur' = r
  /\ journal' = [journal EXCEPT ![n] = "prepared"]
  /\ user' = [user EXCEPT ![n] = "pending"]
  /\ latest' = [latest EXCEPT ![SessionOf[n]] = n]
  /\ Goto("queue")
  /\ UNCHANGED <<appErr, runVars, app, err, active, request, reopened>>

QueueSend ==
  /\ pc = "queue"
  /\ SetSendState(cur[1], "queued", FALSE)
  /\ Goto("start")
  /\ UNCHANGED <<user, latest, runVars, app, cur, err, active, request, reopened>>

\* retry: send the same message again, allowed when it never was accepted
Retry(n) ==
  /\ Serving
  /\ journal[n] = "failed-before-acceptance"
  /\ ~Busy(SessionOf[n])
  /\ \E r \in Run : NextRun(n, r) /\ cur' = r
  /\ SetSendState(n, "queued", FALSE)
  /\ user' = [user EXCEPT ![n] = "pending"]
  /\ Goto("start")
  /\ UNCHANGED <<latest, runVars, app, err, active, request, reopened>>

\* retryRun: regenerate the answer to the newest, acknowledged message.  Any
\* ended run of the message can be named, not only its last attempt.
RetryRun(n) ==
  /\ Serving
  /\ \E r \in Run : r[1] = n /\ run[r] \in {"failed", "cancelled", "interrupted"}
  /\ ~Busy(SessionOf[n])
  /\ journal[n] = "acked"
  /\ latest[SessionOf[n]] = n
  /\ \E r \in Run : NextRun(n, r) /\ cur' = r
  /\ Goto("start")
  /\ UNCHANGED <<journalVars, runVars, app, err, active, request, reopened>>

\* Mutant: the cancellation is written to the database but the executor's entry does
\* not learn of it.
CancelOnDisk(r) ==
  /\ Idle /\ app # "down"
  /\ run[r] \in ActiveStates \ {"cancel-requested"}
  /\ active[r] # "app-shutdown"
  /\ Transition(r, "cancel-requested")
  /\ UNCHANGED <<journalVars, requestId, assistant, attached, app, taskVars, active,
                 request, reopened>>

\* cancel / cancelRun.  A run the shutdown already aborted keeps its reason and
\* its state.
Cancel(r) ==
  /\ Idle /\ app # "down"
  /\ run[r] \in ActiveStates \ {"cancel-requested"}
  /\ active[r] # "app-shutdown"
  /\ active' = IF Driven(r) THEN [active EXCEPT ![r] = "user"] ELSE active
  /\ Transition(r, "cancel-requested")
  /\ UNCHANGED <<journalVars, requestId, assistant, attached, app, taskVars,
                 request, reopened>>

----------------------------------------------------------------------------
(* startDirect and the synchronous part of RuntimeExecutor.start: from the *)
(* command to the provider's first pending read, in one task.              *)

\* executor.start throws before the run exists; failBeforeRun.  It does not look
\* at the journal first, so a regenerated message loses its acknowledgement.
StartFails ==
  /\ pc = "start"
  /\ (journal[cur[1]] = "acked") => RegenerateMayFail
  /\ SetSendState(cur[1], "failed-before-acceptance", FALSE)
  /\ reopened' = IF journal[cur[1]] = "acked" THEN reopened \cup {cur[1]} ELSE reopened
  /\ Goto("failUser")
  /\ UNCHANGED <<user, latest, runVars, app, cur, err, active, request>>

FailUser ==
  /\ pc = "failUser"
  /\ user' = [user EXCEPT ![cur[1]] = "failed"]
  /\ EndTask
  /\ UNCHANGED <<journal, appErr, latest, runVars, app, active,
                 request, reopened>>

\* createRuntimeRun, then the entry in the executor's active map
CreateRun ==
  /\ pc = "start"
  /\ ~Busy(SessionOf[cur[1]])
  /\ Transition(cur, "created")
  /\ active' = [active EXCEPT ![cur] = "none"]
  /\ Goto("dispatch")
  /\ UNCHANGED <<journalVars, requestId, assistant, attached, app, cur, err, request,
                 reopened>>

BeginDispatch ==
  /\ pc = "dispatch"
  /\ Transition(cur, "dispatching")
  /\ Goto("mark")
  /\ UNCHANGED <<journalVars, requestId, assistant, attached, app, cur, err, active,
                 request, reopened>>

\* onDispatchStart: markDirectDispatching
MarkDispatching ==
  /\ pc = "mark"
  /\ IF journal[cur[1]] \in {"acked", "dispatching"}
       THEN UNCHANGED <<journal, appErr>>
       ELSE SetSendState(cur[1], "dispatching", FALSE)
  /\ Goto("provide")
  /\ UNCHANGED <<user, latest, runVars, app, cur, err, active, request, reopened>>

\* createProvider and provider.run(...).next(): the request leaves
OpenRequest ==
  /\ pc = "provide"
  /\ request' = [request EXCEPT ![cur] = "sent"]
  /\ EndTask
  /\ UNCHANGED <<journalVars, runVars, app, active, reopened>>

\* createProvider throws, or the provider does before it sends anything
NoProvider ==
  /\ pc = "provide"
  /\ err' = "other"
  /\ Goto("fail")
  /\ UNCHANGED <<journalVars, runVars, app, cur, active, request, reopened>>

----------------------------------------------------------------------------
(* The model service and the provider's events.  An event and its handler  *)
(* run in one task.                                                        *)

\* The service takes a request: also one whose client has given up or died.
ServiceAccepts(r) ==
  /\ request[r] = "sent"
  /\ request' = [request EXCEPT ![r] = "accepted"]
  /\ UNCHANGED <<journalVars, runVars, app, taskVars, active, reopened>>

\* "started": the run is running; acknowledgeDirect unless already acknowledged
ProviderStarted(r) ==
  /\ Idle
  /\ active[r] = "none"
  /\ run[r] = "dispatching"
  /\ request[r] = "accepted"
  /\ Transition(r, "running")
  /\ requestId' = [requestId EXCEPT ![r] = TRUE]
  /\ cur' = r
  /\ Goto(IF journal[r[1]] = "acked" THEN "assistant" ELSE "echo")
  /\ UNCHANGED <<journalVars, assistant, attached, app, err, active, request, reopened>>

AwaitEcho ==
  /\ pc = "echo"
  /\ SetSendState(cur[1], "accepted-awaiting-echo", FALSE)
  /\ Goto("ack")
  /\ UNCHANGED <<user, latest, runVars, app, cur, err, active, request, reopened>>

\* acknowledgeUserMessage: one transaction over both tables
Acknowledge ==
  /\ pc = "ack"
  /\ journal' = [journal EXCEPT ![cur[1]] = "acked"]
  /\ user' = [user EXCEPT ![cur[1]] = "completed"]
  /\ Goto("assistant")
  /\ UNCHANGED <<appErr, latest, runVars, app, cur, err, active, request, reopened>>

CreateAssistant ==
  /\ pc = "assistant"
  /\ assistant' = [assistant EXCEPT ![cur] = "streaming"]
  /\ Goto("attach")
  /\ UNCHANGED <<journalVars, run, requestId, attached, app, cur, err, active,
                 request, reopened>>

AttachAssistant ==
  /\ pc = "attach"
  /\ attached' = [attached EXCEPT ![cur] = TRUE]
  /\ EndTask
  /\ UNCHANGED <<journalVars, run, requestId, assistant, app, active,
                 request, reopened>>

\* the first delta; later ones change only the body
Delta(r) ==
  /\ Idle
  /\ active[r] = "none"
  /\ run[r] = "running"
  /\ Transition(r, "streaming")
  /\ UNCHANGED <<journalVars, requestId, assistant, attached, app, taskVars, active,
                 request, reopened>>

\* "completed": finalizeAssistant, then the run
Complete(r) ==
  /\ Idle
  /\ active[r] = "none"
  /\ run[r] \in {"running", "streaming"}
  /\ assistant' = [assistant EXCEPT ![r] = "completed"]
  /\ cur' = r
  /\ Goto("complete")
  /\ UNCHANGED <<journalVars, run, requestId, attached, app, err, active, request,
                 reopened>>

CompleteRun ==
  /\ pc = "complete"
  /\ Transition(cur, "completed")
  /\ Drop(cur)
  /\ EndTask
  /\ UNCHANGED <<journalVars, requestId, assistant, attached, app,
                 request, reopened>>

\* Does this error, before "started", let a message the service took count as not
\* accepted?  For handleFailure and settleDirect only a lost connection and a final
\* refusal leave that open; a status of 500 or more (a gateway's 502 or 504, say) and
\* an output that ends early come after acceptance too.
Misreports(r, e) ==
  /\ request[r] = "accepted" /\ ~requestId[r] /\ journal[r[1]] # "acked"
  /\ e \in {"retryable", "other"}

\* A provider may fail at any time and with any error.  Unless the connection is
\* lost, an error before the service took the request means that it never will.
ProviderError(r, e) ==
  /\ Idle
  /\ active[r] \in {"none", "user"}
  /\ request' = [request EXCEPT ![r] = IF @ = "sent" /\ e # "transport" THEN "rejected"
                                       ELSE IF Misreports(r, e) THEN "misreported"
                                       ELSE @]
  /\ cur' = r /\ err' = e
  /\ Goto("fail")
  /\ UNCHANGED <<journalVars, runVars, app, active, reopened>>

\* AbortError.  A shutdown rejects the pending read itself; a user's abort waits
\* for the provider to answer, with its AbortError or with an event that the
\* loop then throws away.
Aborted(r) ==
  /\ Idle
  /\ active[r] \in {"user", "app-shutdown"}
  /\ cur' = r
  /\ err' = IF active[r] = "app-shutdown" THEN "shutdown" ELSE "abort"
  /\ Goto("fail")
  /\ UNCHANGED <<journalVars, runVars, app, active, request, reopened>>

----------------------------------------------------------------------------
(* handleFailure and settleDirect.                                         *)

\* Mutant: the pending cancellation is not looked at.
FailureByErrorOnly(r, e) ==
  IF active[r] = "app-shutdown" THEN "interrupted"
  ELSE IF e \in {"abort", "shutdown"} THEN "cancelled"
  ELSE IF requestId[r] \/ e # "transport" THEN "failed" ELSE "interrupted"

FailureTarget(r, e) ==
  IF active[r] = "app-shutdown" THEN "interrupted"
  ELSE IF e \in {"abort", "shutdown"} \/ run[r] = "cancel-requested" THEN "cancelled"
  ELSE IF requestId[r] THEN "failed"
  ELSE IF e = "transport" THEN "interrupted"
  ELSE "failed"

\* Mutant: a late failure is recorded over the state the shutdown wrote.
FailRunAgain ==
  /\ pc = "fail"
  /\ Transition(cur, FailureTarget(cur, err))
  /\ Goto("failAssistant")
  /\ UNCHANGED <<journalVars, requestId, assistant, attached, active, err, app, cur,
                 request, reopened>>

\* A run that the shutdown already ended is left alone (and its abort then has
\* no APP_INTERRUPTED code); it is only dropped from the active map.
FailRun ==
  /\ pc = "fail"
  /\ IF Terminal(cur)
       THEN /\ Drop(cur)
            /\ err' = IF err = "shutdown" THEN "abort" ELSE err
            /\ Goto("settle")
            /\ UNCHANGED run
       ELSE /\ Transition(cur, FailureTarget(cur, err))
            /\ Goto("failAssistant")
            /\ UNCHANGED <<active, err>>
  /\ UNCHANGED <<journalVars, requestId, assistant, attached, app, cur, request,
                 reopened>>

FinalizeAssistant(r) ==
  assistant' = IF assistant[r] = "none" THEN assistant
               ELSE [assistant EXCEPT ![r] = IF run[r] = "cancelled" THEN "cancelled"
                                             ELSE "failed"]

FailAssistant ==
  /\ pc = "failAssistant"
  /\ FinalizeAssistant(cur)
  /\ Drop(cur)
  /\ Goto("settle")
  /\ UNCHANGED <<journalVars, run, requestId, attached, app, cur, err, request,
                 reopened>>

\* Mutants: a lost connection counts as a definite failure; a cancelled send is left
\* undecided.
SettledAsKnown(r, e) ==
  IF run[r] = "cancelled" THEN "cancelled"
  ELSE IF e = "refused" THEN "refused" ELSE "failed-before-acceptance"

SettledUnlessCancelled(r, e) ==
  IF run[r] = "cancelled" THEN "dispatching"
  ELSE IF run[r] = "interrupted" THEN "interrupted-unknown"
  ELSE "failed-before-acceptance"

SettledState(r, e) ==
  IF run[r] = "cancelled" THEN "cancelled"
  ELSE IF e = "refused" THEN "refused"
  ELSE IF run[r] = "interrupted" THEN "interrupted-unknown"
  ELSE "failed-before-acceptance"

\* Mutant: settleDirect without its check of the journal.
SettleAlways ==
  /\ pc = "settle"
  /\ SetSendState(cur[1], SettledState(cur, err), err = "shutdown")
  /\ Goto("settleUser")
  /\ UNCHANGED <<cur, err, user, latest, runVars, app, active, request, reopened>>

\* settleDirect: an acknowledged message is not touched
Settle ==
  /\ pc = "settle"
  /\ IF journal[cur[1]] = "acked"
       THEN /\ EndTask
            /\ UNCHANGED <<journal, appErr>>
       ELSE /\ SetSendState(cur[1], SettledState(cur, err), err = "shutdown")
            /\ Goto("settleUser")
            /\ UNCHANGED <<cur, err>>
  /\ UNCHANGED <<user, latest, runVars, app, active, request, reopened>>

SettleUser ==
  /\ pc = "settleUser"
  /\ user' = [user EXCEPT ![cur[1]] = IF run[cur] = "cancelled" THEN "cancelled"
                                      ELSE "failed"]
  /\ EndTask
  /\ UNCHANGED <<journal, appErr, latest, runVars, app, active, request,
                 reopened>>

----------------------------------------------------------------------------
(* Shutdown, crash and restart.                                            *)

\* shutdown, up to the wait: no new work, every live run is aborted
Shutdown ==
  /\ Serving
  /\ app' = "draining"
  /\ active' = [r \in Run |-> IF active[r] = "none" THEN "app-shutdown" ELSE active[r]]
  /\ UNCHANGED <<journalVars, runVars, taskVars, request, reopened>>

\* every dispatch has settled, or SHUTDOWN_DRAIN_MS have passed
DrainEnds ==
  /\ Idle
  /\ app = "draining"
  /\ Goto("force")
  /\ UNCHANGED <<journalVars, runVars, app, cur, err, active, request, reopened>>

UserCancelled(r) == active[r] = "user" \/ run[r] = "cancel-requested"

\* the loop over the runs that are still in the active map
ForceRun(r) ==
  /\ pc = "force"
  /\ Driven(r) /\ ~Terminal(r)
  /\ Transition(r, IF UserCancelled(r) THEN "cancelled" ELSE "interrupted")
  /\ cur' = r
  /\ Goto("forceAssistant")
  /\ UNCHANGED <<journalVars, requestId, assistant, attached, app, err, active,
                 request, reopened>>

ForceAssistant ==
  /\ pc = "forceAssistant"
  /\ FinalizeAssistant(cur)
  /\ Goto("force")
  /\ UNCHANGED <<journalVars, run, requestId, attached, app, cur, err, active,
                 request, reopened>>

ForceDone ==
  /\ pc = "force"
  /\ \A r \in Run : Driven(r) => Terminal(r)
  /\ app' = "stopped"
  /\ EndTask
  /\ UNCHANGED <<journalVars, runVars, active, request, reopened>>

\* The process goes away, by the final quit or in the middle of any task.
Crash ==
  /\ app # "down"
  /\ app' = "down"
  /\ EndTask
  /\ active' = [r \in Run |-> "absent"]
  /\ UNCHANGED <<journalVars, runVars, request, reopened>>

Boot ==
  /\ app = "down"
  /\ app' = "recovering"
  /\ Goto("recoverSends")
  /\ UNCHANGED <<journalVars, runVars, cur, err, active, request, reopened>>

\* Mutant: an undecided dispatch is declared failed.
RecoverAsFailed(s) ==
  IF s \in {"prepared", "queued", "dispatching"} THEN "failed-before-acceptance"
  ELSE IF s = "accepted-awaiting-echo" THEN "interrupted-unknown" ELSE s

\* recoverInterruptedSends: one transaction
RecoveredState(s) ==
  IF s \in {"dispatching", "accepted-awaiting-echo"} THEN "interrupted-unknown"
  ELSE IF s \in {"prepared", "queued"} THEN "failed-before-acceptance"
  ELSE s

RecoverSends ==
  /\ pc = "recoverSends"
  /\ journal' = [n \in Nonce |-> RecoveredState(journal[n])]
  /\ appErr' = [n \in Nonce |-> appErr[n] \/ RecoveredState(journal[n]) # journal[n]]
  /\ user' = [n \in Nonce |-> IF user[n] = "pending" /\ appErr'[n] THEN "failed"
                              ELSE user[n]]
  /\ Goto("recoverRuns")
  /\ UNCHANGED <<latest, runVars, app, cur, err, active, request, reopened>>

\* recoverInterruptedRuntimeRuns: one transaction
RecoverRuns ==
  /\ pc = "recoverRuns"
  /\ run' = [r \in Run |-> IF Active(r) THEN "interrupted" ELSE run[r]]
  /\ assistant' = [r \in Run |-> IF Active(r) /\ attached[r] /\ assistant[r] = "streaming"
                                   THEN "failed" ELSE assistant[r]]
  /\ app' = "up"
  /\ EndTask
  /\ UNCHANGED <<journalVars, requestId, attached, active, request, reopened>>

----------------------------------------------------------------------------

\* the next commit of the task that is running
Step ==
  \/ QueueSend \/ StartFails \/ FailUser
  \/ CreateRun \/ BeginDispatch \/ MarkDispatching \/ OpenRequest \/ NoProvider
  \/ AwaitEcho \/ Acknowledge \/ CreateAssistant \/ AttachAssistant
  \/ CompleteRun
  \/ FailRun \/ FailAssistant \/ Settle \/ SettleUser
  \/ \E r \in Run : ForceRun(r)
  \/ ForceAssistant \/ ForceDone
  \/ RecoverSends \/ RecoverRuns

Command ==
  \E n \in Nonce : Send(n) \/ Retry(n) \/ RetryRun(n)

\* an answer of the provider other than more output
ProviderAnswers(r) ==
  \/ ProviderStarted(r) \/ Complete(r) \/ Aborted(r)
  \/ \E e \in Errors : ProviderError(r, e)

Next ==
  \/ Step
  \/ Command
  \/ \E r \in Run : Cancel(r) \/ ServiceAccepts(r) \/ Delta(r) \/ ProviderAnswers(r)
  \/ Shutdown \/ DrainEnds \/ Crash \/ Boot

Spec == Init /\ [][Next]_vars

\* A task runs to its end and the drain timer fires; nobody is obliged to answer,
\* cancel or restart.
StepFairness ==
  /\ WF_vars(Step)
  /\ WF_vars(DrainEnds)

\* A pending read ends: with an event, an error, or the AbortError of a cancellation
\* (ProviderRun!RunSettles; of codex app-server only once the run is stopped).  The event
\* loop serves it between other tasks, however many those are (strong fairness).
ProviderFairness == \A r \in Run : SF_vars(ProviderAnswers(r))

FairSpec == Spec /\ StepFairness

----------------------------------------------------------------------------
(* Safety.                                                                 *)

InFlight == {"prepared", "queued", "dispatching", "accepted-awaiting-echo"}

\* A conversation never has two active runs: the check of prepareMessage,
\* queueRetry, assertRuntimeRetryEligible and createRuntimeRun holds through every
\* cancel, shutdown, crash and restart (the unique index of runtime_runs is never
\* what refuses a run).
OneActiveRun ==
  \A r, t \in Run :
    Active(r) /\ Active(t) /\ SessionOf[r[1]] = SessionOf[t[1]] => r = t

\* Between tasks of a serving process the table of active runs and the executor's
\* active map agree: no run is active that nobody drives (its conversation would
\* stay busy until a restart), and none is driven after it ended.  Once the shutdown
\* is over no run is active, whatever was being cancelled or answered when it began.
ExecutorFollowsTable ==
  Idle => \A r \in Run :
    /\ app \in {"up", "draining"} => (Driven(r) <=> Active(r))
    /\ app = "stopped" => ~Active(r)

\* A message that may go out again under its nonce (retry) is not with the service
\* and never will be: every earlier request of it was turned away.  The exceptions
\* are two: a message whose acknowledgement a failed regeneration undid, and a
\* request whose provider reported it as not taken when it was (FailedWasNotTaken).
RetryIsSafe ==
  \A n \in Nonce \ reopened :
    journal[n] \in {"failed-before-acceptance", "queued"} =>
      \A r \in Run : r[1] = n => request[r] \notin {"sent", "accepted"}

\* Between tasks, the journal says no less than the run: while a message is not
\* acknowledged its run has produced nothing, an undecided message has an active
\* run, and a message is acknowledged before its answer starts.
JournalFollowsRun ==
  Idle /\ app \in {"up", "draining"} =>
    \A n \in Nonce :
      /\ journal[n] \in InFlight => /\ journal[n] = "dispatching"
                                    /\ \E r \in Run : r[1] = n /\ Active(r)
      /\ \A r \in Run : r[1] = n /\ run[r] \in {"running", "streaming", "completed"}
                         => journal[n] = "acked" \/ n \in reopened

\* What the user's transcript entry says of a message never contradicts the journal.
\* (It may lag behind: "pending" is left over when the process dies between the
\* journal's commit and the entry's.)
EntryFollowsJournal ==
  \A n \in Nonce :
    /\ user[n] = "completed" => journal[n] = "acked" \/ n \in reopened
    /\ journal[n] = "acked" => user[n] = "completed"
    /\ user[n] = "cancelled" => journal[n] = "cancelled"

\* The journal, the run and the transcript entry of a message tell one story, although
\* each is written in a commit of its own.
RecordsAgree == JournalFollowsRun /\ EntryFollowsJournal

LegalStep ==
  \A r \in Run :
    run'[r] # run[r] => IF run[r] = "none" THEN run'[r] = "created"
                        ELSE run'[r] \in RuntimeTransitions[run[r]]

\* The abort reason in memory and the run's state agree, so a cancelled run ends
\* "cancelled" and an interrupted one does not: no transition of the executor is
\* ever refused by RUNTIME_TRANSITIONS.
LegalTransitions == [][LegalStep]_vars

\* An ended run and its finished answer stay as they are: no late event of a
\* provider changes them, whatever was cancelled, drained or recovered meanwhile.
EndedStaysEnded ==
  [][\A r \in Run :
       /\ run[r] \in TerminalStates => run'[r] = run[r]
       /\ assistant[r] \in {"completed", "failed", "cancelled"}
            => assistant'[r] = assistant[r]]_vars

----------------------------------------------------------------------------
(* The inductive invariant behind OneActiveRun and LegalTransitions.       *)

\* What the executor's map says of a run and what the table says.
DrivenRuns ==
  \A r \in Run :
    /\ Driven(r) => run[r] # "none"
    /\ active[r] = "user" => run[r] = "cancel-requested" \/ Terminal(r)
    /\ Driven(r) /\ run[r] = "cancel-requested" => active[r] = "user"

\* What the running task may rely on about its run.
TaskAt ==
  /\ pc \in {"queue", "start"} => run[cur] = "none"
  /\ pc = "dispatch" => run[cur] = "created"
  /\ pc = "complete" => run[cur] \in {"running", "streaming"}
  /\ pc \in {"dispatch", "mark", "provide", "fail"} => Driven(cur)
  /\ pc = "fail" /\ err = "abort" => active[cur] = "user"
  /\ pc = "fail" /\ err = "shutdown" => active[cur] = "app-shutdown"

\* A task's run is in the state the task's last commit or read left it in, and the
\* executor's map knows of every cancellation the database does: the facts that make
\* each transition of the executor one the database accepts.
Inv ==
  /\ TypeOK
  /\ OneActiveRun
  /\ DrivenRuns
  /\ TaskAt

----------------------------------------------------------------------------
(* Claims of the repository that the code does not keep.                   *)

\* "This message may have been accepted and cannot be resent": once a message is
\* acknowledged it stays so.  (The send-worker's own guards say it three times.)
AcknowledgedForGood ==
  [][\A n \in Nonce : journal[n] = "acked" => journal'[n] = "acked"]_vars

\* "The message was not sent", with a button "safe retry": a message reported as failed
\* before acceptance was taken by nobody.  (One that was acknowledged first is the
\* matter of AcknowledgedForGood.)
FailedWasNotTaken ==
  \A n \in Nonce \ reopened :
    journal[n] = "failed-before-acceptance" =>
      \A r \in Run : r[1] = n => request[r] \notin {"accepted", "misreported"}

\* Recovery leaves no answer streaming: once the application serves, a streaming
\* answer belongs to an active run.
NoOrphanAnswer ==
  Idle /\ app = "up" => \A r \in Run : assistant[r] = "streaming" => Active(r)

----------------------------------------------------------------------------
(* Liveness.                                                               *)

\* If providers answer, a message that is being sent is decided (acknowledged,
\* failed, refused, cancelled or unknown), unless the process dies and stays down.
MessagesSettle ==
  ProviderFairness =>
    \A n \in Nonce :
      journal[n] \in InFlight ~> (journal[n] \notin InFlight \/ app = "down")

\* If providers answer, a run that was started or cancelled ends, so its
\* conversation is not busy for ever, unless the process dies and stays down.
RunsEnd ==
  ProviderFairness =>
    \A r \in Run : Active(r) ~> (Terminal(r) \/ app = "down")

\* A shutdown completes whatever the providers do.
ShutdownCompletes ==
  app = "draining" ~> app \in {"stopped", "down"}

\* Whatever was begun comes to an end: sends, runs and the shutdown.
EverythingEnds == MessagesSettle /\ RunsEnd /\ ShutdownCompletes

----------------------------------------------------------------------------
(* The abstract view: what is reported of a message, and which messages    *)
(* the service took and has not been reported to have turned down.         *)

ReportOf(s) ==
  CASE s = "absent" -> "unsent"
    [] s \in InFlight -> "sending"
    [] s = "acked" -> "delivered"
    [] s = "failed-before-acceptance" -> "failed"
    [] s = "refused" -> "refused"
    [] s = "cancelled" -> "stopped"
    [] s = "interrupted-unknown" -> "unknown"

Promise == INSTANCE SendPromise WITH
  msg   <- [n \in Nonce |-> ReportOf(journal[n])],
  taken <- {n \in Nonce : \E r \in Run : r[1] = n /\ request[r] = "accepted"}

\* Every behaviour of the runtime is one of SendPromise: in particular a message
\* reported as safe to send again was not taken and will not be, or was denied by
\* its own provider.
KeepsPromise == Promise!Spec
=============================================================================
