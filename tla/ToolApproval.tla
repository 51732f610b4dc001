---------------------------- MODULE ToolApproval ----------------------------
(***************************************************************************)
(* One-time approval of a model's tool calls (workspace-tool-coordinator,  *)
(* workspace-tool-executor, the tool journal of database.ts).              *)
(*                                                                         *)
(* A run that asks for a tool waits in requestAndWait.  The user allows or *)
(* denies the call, an expiry timer runs out, or the run is aborted; an    *)
(* allowed call is executed across several awaits, between which all of    *)
(* these may happen.  The process may die anywhere; recovery settles the   *)
(* journal.                                                                *)
(*                                                                         *)
(* Left out: scopes, versions (an approval's version changes exactly when  *)
(* its state does), arguments and results, the four rounds a run may take, *)
(* what the tools read.                                                    *)
(***************************************************************************)
EXTENDS Naturals, FiniteSets

CONSTANTS
  Call,     \* the tool calls that may be made
  Run,      \* the runs they are made in
  RunOf,    \* the run of each call
  MaxCalls  \* bound: the tool calls of a behaviour

ASSUME CallsHaveRuns == RunOf \in [Call -> Run] /\ MaxCalls \in Nat

VARIABLES
  \* SQLite
  invocation,  \* tool_invocations.state ("none": no row)
  approval,    \* approval_requests.state
  run,         \* "live": the run's state is "running" or "streaming"
  \* main process memory
  app,         \* "up", "down", or the recovery step to do next
  waiter,      \* WorkspaceToolCoordinator.waiters: calls with a waiter
  signal,      \* runs whose abort signal has fired
  exec,        \* where WorkspaceToolExecutor.execute is in the call
  dispatchNext,\* the call whose approval was just committed, if any
  outcome,     \* what requestAndWait gave its run
  due,         \* calls whose approval is past its expires_at
  \* history
  consented,   \* calls the user allowed in time
  effects      \* how often the tool of a call was run

vars == <<invocation, approval, run, app, waiter, signal, exec, dispatchNext,
          outcome, due, consented, effects>>
journal == <<invocation, approval>>

Open     == {"awaiting-approval", "approved", "dispatching", "running"}
Terminal == {"succeeded", "failed", "denied", "expired", "cancelled",
             "failed-before-execution", "interrupted-unknown"}

TypeOK ==
  /\ invocation \in [Call -> {"none"} \cup Open \cup Terminal]
  /\ approval \in [Call -> {"none", "pending", "allowed", "denied", "expired", "cancelled"}]
  /\ run \in [Run -> {"new", "live", "ended"}]
  /\ app \in {"up", "down", "recoverRuns", "recoverTools"}
  /\ waiter \subseteq Call
  /\ signal \subseteq Run
  /\ exec \in [Call -> {"none", "checking", "running"}]
  /\ dispatchNext \subseteq Call /\ Cardinality(dispatchNext) <= 1
  /\ outcome \in [Call -> {"none", "waiting", "denied", "expired", "result", "error",
                           "aborted", "rejected", "lost"}]
  /\ due \subseteq Call
  /\ consented \subseteq Call
  /\ effects \in [Call -> 0..2]

Init ==
  /\ invocation = [c \in Call |-> "none"]
  /\ approval = [c \in Call |-> "none"]
  /\ run = [r \in Run |-> "new"]
  /\ app = "up"
  /\ waiter = {} /\ signal = {} /\ dispatchNext = {}
  /\ exec = [c \in Call |-> "none"]
  /\ outcome = [c \in Call |-> "none"]
  /\ due = {} /\ consented = {}
  /\ effects = [c \in Call |-> 0]

----------------------------------------------------------------------------

Idle == app = "up" /\ dispatchNext = {}

\* Both rows of a call change in one transaction.
Journal(c, i, a) ==
  /\ invocation' = [invocation EXCEPT ![c] = i]
  /\ approval' = [approval EXCEPT ![c] = a]

\* The waiter's promise settles; later resolve or reject calls change nothing.
Release(c, answer) ==
  /\ waiter' = waiter \ {c}
  /\ outcome' = IF c \in waiter THEN [outcome EXCEPT ![c] = answer] ELSE outcome

----------------------------------------------------------------------------
(* The run asks and waits.                                                 *)

\* The provider has started to answer.
RunStarts(r) ==
  /\ Idle
  /\ run[r] = "new"
  /\ run' = [run EXCEPT ![r] = "live"]
  /\ UNCHANGED <<journal, app, waiter, signal, exec, dispatchNext, outcome, due,
                 consented, effects>>

\* requestAndWait, prepareToolInvocation: a run asks for one tool at a time, while
\* it is running.
Request(c) ==
  /\ Idle
  /\ invocation[c] = "none"
  /\ Cardinality({d \in Call : invocation[d] # "none"}) < MaxCalls
  /\ run[RunOf[c]] = "live"
  /\ \A d \in Call : RunOf[d] = RunOf[c] => outcome[d] # "waiting"
  /\ Journal(c, "awaiting-approval", "pending")
  /\ waiter' = waiter \cup {c}
  /\ outcome' = [outcome EXCEPT ![c] = "waiting"]
  /\ UNCHANGED <<run, app, signal, exec, dispatchNext, due, consented, effects>>

\* Five minutes pass.
Expires(c) ==
  /\ approval[c] = "pending" \/ c \in waiter
  /\ c \notin due
  /\ due' = due \cup {c}
  /\ UNCHANGED <<journal, run, app, waiter, signal, exec, dispatchNext, outcome,
                 consented, effects>>

\* The run ends by itself: completed, or failed for a reason of its own.
RunEnds(r) ==
  /\ Idle
  /\ run[r] = "live"
  /\ \A c \in Call : RunOf[c] = r => outcome[c] # "waiting"
  /\ run' = [run EXCEPT ![r] = "ended"]
  /\ UNCHANGED <<journal, app, waiter, signal, exec, dispatchNext, outcome, due,
                 consented, effects>>

\* Mutant: an approval that was given is kept when its call is cancelled.
CancelledPendingOnly(c) ==
  /\ invocation[c] \in Open
  /\ Journal(c, "cancelled", IF approval[c] = "pending" THEN "cancelled" ELSE approval[c])

\* cancelToolInvocation: the approval goes with the invocation
Cancelled(c) ==
  /\ invocation[c] \in Open
  /\ Journal(c, "cancelled",
             IF approval[c] \in {"pending", "allowed"} THEN "cancelled" ELSE approval[c])

\* The run is cancelled, runs into its deadline, or the application quits: the
\* abort listener of the waiting call cancels it, also while it executes.
Abort(r) ==
  /\ Idle
  /\ run[r] = "live"
  /\ signal' = signal \cup {r}
  /\ run' = [run EXCEPT ![r] = "ended"]
  /\ \/ \E c \in waiter :
          /\ RunOf[c] = r
          /\ IF invocation[c] \in Open THEN Cancelled(c) ELSE UNCHANGED journal
          /\ Release(c, "aborted")
     \/ /\ \A c \in waiter : RunOf[c] # r
        /\ UNCHANGED <<journal, waiter, outcome>>
  /\ UNCHANGED <<app, exec, dispatchNext, due, consented, effects>>

----------------------------------------------------------------------------
(* The user and the timer.                                                 *)

\* resolveToolApproval notices that the approval is past its expiry.
Expired(c) ==
  /\ approval[c] = "pending" /\ c \in due
  /\ Journal(c, "expired", "expired")

\* Mutant: allow-once does not look at the expiry.
AllowLate(c) ==
  /\ Idle
  /\ c \in waiter
  /\ approval[c] = "pending"
  /\ Journal(c, "approved", "allowed")
  /\ dispatchNext' = {c}
  /\ consented' = IF c \in due THEN consented ELSE consented \cup {c}
  /\ UNCHANGED <<run, app, waiter, signal, exec, outcome, due, effects>>

\* resolve with allow-once, up to the first commit.  An expired approval is settled,
\* and its waiter left to the timer.
Allow(c) ==
  /\ Idle
  /\ c \in waiter
  /\ approval[c] = "pending"
  /\ IF c \in due
       THEN /\ Expired(c)
            /\ UNCHANGED <<dispatchNext, consented>>
       ELSE /\ Journal(c, "approved", "allowed")
            /\ dispatchNext' = {c}
            /\ consented' = consented \cup {c}
  /\ UNCHANGED <<run, app, waiter, signal, exec, outcome, due, effects>>

\* resolve with deny; it needs no waiter
Deny(c) ==
  /\ Idle
  /\ approval[c] = "pending"
  /\ IF c \in due
       THEN Expired(c) /\ UNCHANGED <<waiter, outcome>>
       ELSE Journal(c, "denied", "denied") /\ Release(c, "denied")
  /\ UNCHANGED <<run, app, signal, exec, dispatchNext, due, consented, effects>>

\* expire, when the timer of a waiter fires.  The approval may have been settled by
\* then, also by being allowed: the run is told that it was resolved twice, and
\* fails.
TimerFires(c) ==
  /\ Idle
  /\ c \in waiter /\ c \in due
  /\ IF approval[c] = "pending"
       THEN /\ Expired(c)
            /\ Release(c, "expired")
            /\ UNCHANGED run
       ELSE /\ Release(c, "rejected")
            /\ run' = [run EXCEPT ![RunOf[c]] = "ended"]
            /\ UNCHANGED journal
  /\ UNCHANGED <<app, signal, exec, dispatchNext, due, consented, effects>>

----------------------------------------------------------------------------
(* WorkspaceToolExecutor.execute, between its awaits.                      *)

\* the second commit of an approval
Dispatch ==
  /\ app = "up"
  /\ \E c \in dispatchNext :
       /\ invocation[c] = "approved" /\ approval[c] = "allowed"
       /\ invocation' = [invocation EXCEPT ![c] = "dispatching"]
       /\ exec' = [exec EXCEPT ![c] = "checking"]
  /\ dispatchNext' = {}
  /\ UNCHANGED <<approval, run, app, waiter, signal, outcome, due, consented, effects>>

Aborted(c) == RunOf[c] \in signal

\* Mutant: the executor does not remember that the tool was started.
StartToolAgain(c) ==
  /\ Idle
  /\ exec[c] = "checking"
  /\ ~Aborted(c)
  /\ invocation' = [invocation EXCEPT ![c] = "running"]
  /\ effects' = [effects EXCEPT ![c] = @ + 1]
  /\ UNCHANGED <<approval, run, app, waiter, signal, exec, dispatchNext, outcome, due,
                 consented>>

\* the target was resolved; the tool starts
StartTool(c) ==
  /\ Idle
  /\ exec[c] = "checking"
  /\ ~Aborted(c)
  /\ invocation' = [invocation EXCEPT ![c] = "running"]
  /\ exec' = [exec EXCEPT ![c] = "running"]
  /\ effects' = [effects EXCEPT ![c] = @ + 1]
  /\ UNCHANGED <<approval, run, app, waiter, signal, dispatchNext, outcome, due, consented>>

\* Mutant: a result that arrives after an abort is still recorded.
SucceedAnyway(c) ==
  /\ Idle
  /\ exec[c] = "running"
  /\ invocation' = [invocation EXCEPT ![c] = "succeeded"]
  /\ Release(c, "result")
  /\ exec' = [exec EXCEPT ![c] = "none"]
  /\ UNCHANGED <<approval, run, app, signal, dispatchNext, due, consented, effects>>

\* completeToolInvocation
Completed(c) ==
  /\ invocation[c] = "running"
  /\ invocation' = [invocation EXCEPT ![c] = "succeeded"]

\* the tool returned and its run was not aborted
Succeed(c) ==
  /\ Idle
  /\ exec[c] = "running"
  /\ ~Aborted(c)
  /\ Completed(c)
  /\ Release(c, "result")
  /\ exec' = [exec EXCEPT ![c] = "none"]
  /\ UNCHANGED <<approval, run, app, signal, dispatchNext, due, consented, effects>>

\* failToolInvocation
Failed(s) == IF s = "dispatching" THEN "failed-before-execution" ELSE "failed"

\* The target check or the tool throws.  After an abort every error counts as the
\* cancellation, which the abort listener has recorded already.
Throws(c) ==
  IF Aborted(c)
    THEN IF invocation[c] \in Open THEN Cancelled(c) ELSE UNCHANGED journal
    ELSE /\ invocation' = [invocation EXCEPT ![c] = Failed(invocation[c])]
         /\ UNCHANGED approval

\* The error answers the waiting run, unless the abort has.
Fail(c) ==
  /\ Idle
  /\ exec[c] # "none"
  /\ Throws(c)
  /\ Release(c, "error")
  /\ exec' = [exec EXCEPT ![c] = "none"]
  /\ UNCHANGED <<run, app, signal, dispatchNext, due, consented, effects>>

----------------------------------------------------------------------------
(* Crash and restart.                                                      *)

Crash ==
  /\ app # "down"
  /\ app' = "down"
  /\ waiter' = {} /\ signal' = {} /\ dispatchNext' = {}
  /\ exec' = [c \in Call |-> "none"]
  /\ outcome' = [c \in Call |-> IF outcome[c] = "waiting" THEN "lost" ELSE outcome[c]]
  /\ UNCHANGED <<journal, run, due, consented, effects>>

Boot ==
  /\ app = "down"
  /\ app' = "recoverRuns"
  /\ UNCHANGED <<journal, run, waiter, signal, exec, dispatchNext, outcome, due,
                 consented, effects>>

RecoverRuns ==
  /\ app = "recoverRuns"
  /\ run' = [r \in Run |-> IF run[r] = "live" THEN "ended" ELSE run[r]]
  /\ app' = "recoverTools"
  /\ UNCHANGED <<journal, waiter, signal, exec, dispatchNext, outcome, due, consented,
                 effects>>

\* Mutant: only a call that is running is settled.
RecoverRunningOnly(c) ==
  CASE invocation[c] = "awaiting-approval" /\ (c \in due \/ run[RunOf[c]] = "ended") -> "expired"
    [] invocation[c] = "approved" -> "expired"
    [] invocation[c] = "running" -> "interrupted-unknown"
    [] OTHER -> invocation[c]

\* What recovery makes of a call: nobody waits for a pending one whose run is over,
\* an approval that was not used is void, and what was under way is unknown.
RecoveredCall(c) ==
  CASE invocation[c] = "awaiting-approval" /\ (c \in due \/ run[RunOf[c]] = "ended") -> "expired"
    [] invocation[c] = "approved" -> "expired"
    [] invocation[c] \in {"dispatching", "running"} -> "interrupted-unknown"
    [] OTHER -> invocation[c]

\* recoverToolInvocations: one transaction
RecoverTools ==
  /\ app = "recoverTools"
  /\ invocation' = [c \in Call |-> RecoveredCall(c)]
  /\ approval' = [c \in Call |-> IF RecoveredCall(c) = "expired" THEN "expired"
                                 ELSE approval[c]]
  /\ app' = "up"
  /\ UNCHANGED <<run, waiter, signal, exec, dispatchNext, outcome, due, consented, effects>>

----------------------------------------------------------------------------

Execute(c) == StartTool(c) \/ Succeed(c) \/ Fail(c)

Next ==
  \/ \E c \in Call : \/ Request(c) \/ Expires(c) \/ Allow(c) \/ Deny(c) \/ TimerFires(c)
                     \/ Execute(c)
  \/ \E r \in Run : RunStarts(r) \/ RunEnds(r) \/ Abort(r)
  \/ Dispatch \/ Crash \/ Boot \/ RecoverRuns \/ RecoverTools

Spec == Init /\ [][Next]_vars

\* Time passes and due timers fire; a task runs to its end; every tool bounds its
\* own time (MAX_SEARCH_DURATION_MS, network and MCP timeouts).
FairSpec ==
  /\ Spec
  /\ WF_vars(Dispatch \/ RecoverRuns \/ RecoverTools)
  /\ \A c \in Call : /\ WF_vars(Expires(c))
                     /\ SF_vars(TimerFires(c))
                     /\ SF_vars(Succeed(c) \/ Fail(c))

----------------------------------------------------------------------------

\* The two rows of a call tell one story.
RowsAgree ==
  \A c \in Call :
    /\ approval[c] = "none"      <=> invocation[c] = "none"
    /\ approval[c] = "pending"   <=> invocation[c] = "awaiting-approval"
    /\ approval[c] = "denied"    <=> invocation[c] = "denied"
    /\ approval[c] = "expired"   <=> invocation[c] = "expired"
    /\ approval[c] = "cancelled" <=> invocation[c] = "cancelled"

\* An approval the user can still give belongs to a run that waits for it.
PendingIsAwaited ==
  app = "up" => \A c \in Call : approval[c] = "pending" => c \in waiter

\* What the run is told of a call agrees with the journal.
AnswerMatchesJournal ==
  \A c \in Call :
    /\ outcome[c] = "result"  => invocation[c] = "succeeded"
    /\ outcome[c] = "denied"  => invocation[c] = "denied"
    /\ outcome[c] = "expired" => invocation[c] = "expired"
    /\ outcome[c] = "error"   => invocation[c] \in {"failed", "failed-before-execution"}
    /\ outcome[c] = "aborted" => invocation[c] \in {"cancelled", "expired"}

\* Whoever settles a call, be it user, timer, abort, executor or recovery, its two rows tell
\* one story and the run is told the same; and no abort, timer or restart leaves an approval
\* pending that no run waits for (allowing it would fail as "detached").
JournalAgrees == RowsAgree /\ PendingIsAwaited /\ AnswerMatchesJournal

\* A tool runs at most once per call, and only with a consent given in time, across
\* double clicks, timers, aborts, crashes and recovery.
ConsentedOnce ==
  \A c \in Call : effects[c] <= (IF c \in consented THEN 1 ELSE 0)

\* A settled call stays as it was settled: neither a late result, a late timer nor a
\* restart rewrites it.
SettledForGood ==
  [][\A c \in Call : invocation[c] \in Terminal =>
       UNCHANGED <<invocation[c], approval[c]>>]_vars

\* A run that waits for a tool is released and a call that was dispatched is settled,
\* whatever the user and the tool do, unless the process stays down.
CallsEnd ==
  \A c \in Call :
    (outcome[c] = "waiting" \/ invocation[c] \in {"dispatching", "running"})
      ~> (outcome[c] # "waiting" /\ (invocation[c] \in Terminal \/ app = "down"))

(* A claim of the repository that the code does not keep. *)

\* "executes only after allow-once, returns the result to the same model run": the
\* result of a call that succeeded reaches the run that asked for it.
ResultReachesRun ==
  \A c \in Call : invocation[c] = "succeeded" => outcome[c] = "result"
=============================================================================
