--------------------------- MODULE RoutineService ---------------------------
(***************************************************************************)
(* Routines: prompts sent to a Bot on a schedule (routine-service.ts, the  *)
(* routine tables of database.ts).                                         *)
(*                                                                         *)
(* A tick settles the runs that have ended, turns due slots into runs and  *)
(* sends the prompts of pending runs, each with its own commits; the       *)
(* process may die between any two of them.  The user edits, runs and      *)
(* deletes routines and deletes Bots between ticks.                        *)
(*                                                                         *)
(* Time is counted in slots: the clock reads c while slot c is past and    *)
(* slot c + 1 is not; that it reads the very millisecond of a slot is left *)
(* out.  Left out too: versions of a routine (an edit that carries an old  *)
(* one changes nothing), notifications, and a routine's message that the   *)
(* user sends again from the conversation.                                 *)
(***************************************************************************)
EXTENDS Naturals, FiniteSets, FiniteSetsExt

CONSTANTS
  Routines,    \* bound: number of routines, listed in the order of their creation
  Bot,
  BotOf,       \* the Bot of each routine
  Schedules,   \* records [once, slots]
  Horizon,     \* bound: the last slot the clock reaches
  Manual,      \* bound: the routines the user runs by hand, each once
  MissedAfter, \* a slot this old is missed (MISSED_AFTER_MS)
  UserTurns,   \* bound: how often the user talks to a Bot
  Deletable    \* the Bots that may be deleted

Routine == 1..Routines
Slot == 1..Horizon

ASSUME RoutineAssumptions ==
  /\ Routines \in Nat /\ Horizon \in Nat /\ MissedAfter \in Nat /\ UserTurns \in Nat
  /\ BotOf \in [Routine -> Bot]
  /\ Manual \subseteq Routine /\ Deletable \subseteq Bot
  /\ Schedules \subseteq [once : BOOLEAN, slots : SUBSET Slot]

\* A run is known by its trigger_key: routine and slot; a manual run has slot 0.
Key == Routine \X (0..Horizon)
Later == Horizon + 1   \* the next slot is beyond the horizon
Never == 0             \* next_run_at is NULL

VARIABLES
  \* SQLite
  routine,   \* "absent", "off", "on" or "gone"
  schedule,
  next,      \* next_run_at
  run,       \* routine_runs.state
  message,   \* runs whose message is in the transcript
  runtime,   \* state of the runtime run of each run's message
  deleted,   \* Bots that were deleted
  \* the user's own turns
  userTurn,  \* Bots that are busy with one
  userTurns, \* how many there were
  \* main process
  clock,
  app,       \* "up", "closing" (sends are refused) or "down"
  at,        \* where the tick is
  todo,      \* the runs its loop has still to see
  pos,       \* the routine its loop has come to
  job,       \* the run it sends
  \* history
  since,     \* the first slot a routine owes since it was last switched on or edited
  turns      \* how often the model was asked for a run

disk == <<routine, schedule, next, run, message, runtime, deleted>>
tick == <<at, todo, pos, job>>
vars == <<disk, userTurn, userTurns, clock, app, tick, since, turns>>

Pending == {"queued", "waiting", "running"}
Done == {"completed", "failed", "cancelled", "missed"}
RuntimeEnded == {"completed", "failed", "cancelled"}   \* interrupted counts as failed

TypeOK ==
  /\ routine \in [Routine -> {"absent", "off", "on", "gone"}]
  /\ schedule \in [Routine -> Schedules]
  /\ next \in [Routine -> Never..Later]
  /\ run \in [Key -> {"none"} \cup Pending \cup Done]
  /\ message \subseteq Key
  /\ runtime \in [Key -> {"none", "active", "gone"} \cup RuntimeEnded]
  /\ deleted \subseteq Deletable
  /\ userTurn \subseteq Bot /\ userTurns \in 0..UserTurns
  /\ clock \in 0..Horizon
  /\ app \in {"up", "closing", "down"}
  /\ at \in {"idle", "reconcile", "advance", "dispatch", "start", "attach"}
  /\ todo \subseteq Key
  /\ pos \in 1..Routines + 1
  /\ job \subseteq Key /\ Cardinality(job) <= 1
  /\ since \in [Routine -> Never..Later]
  /\ turns \in [Key -> 0..2]

Init ==
  /\ routine = [r \in Routine |-> "absent"]
  /\ schedule \in [Routine -> Schedules]
  /\ next = [r \in Routine |-> Never]
  /\ run = [k \in Key |-> "none"]
  /\ message = {} /\ deleted = {}
  /\ runtime = [k \in Key |-> "none"]
  /\ userTurn = {} /\ userTurns = 0
  /\ clock = 0
  /\ app = "up"
  /\ at = "idle" /\ todo = {} /\ pos = 1 /\ job = {}
  /\ since = [r \in Routine |-> Never]
  /\ turns = [k \in Key |-> 0]

BotOfKey(k) == BotOf[k[1]]

\* Mutant: only routines keep a Bot busy.
BusyWithRoutine(b) == \E k \in Key : BotOfKey(k) = b /\ runtime[k] = "active"

\* getActiveRuntimeRun of the Bot's conversation
Busy(b) == b \in userTurn \/ \E k \in Key : BotOfKey(k) = b /\ runtime[k] = "active"
HasPending(r) == \E k \in Key : k[1] = r /\ run[k] \in Pending
Idle == app # "down" /\ at = "idle"
Exists(r) == routine[r] \in {"off", "on"}

\* nextRun: once, interval and cron
NextRun(s, after) ==
  LET ahead == {t \in s.slots : t > after} IN
  IF ahead # {} THEN Min(ahead) ELSE IF s.once THEN Never ELSE Later

----------------------------------------------------------------------------
(* The world: time, the user's own turns, Bots.                            *)

TimePasses ==
  /\ at = "idle" /\ clock < Horizon
  /\ clock' = clock + 1
  /\ UNCHANGED <<disk, userTurn, userTurns, app, tick, since, turns>>

UserSends(b) ==
  /\ Idle /\ app = "up"
  /\ b \notin deleted /\ ~Busy(b) /\ userTurns < UserTurns
  /\ userTurn' = userTurn \cup {b} /\ userTurns' = userTurns + 1
  /\ UNCHANGED <<disk, clock, app, tick, since, turns>>

UserTurnEnds(b) ==
  /\ at \in {"idle", "dispatch"}
  /\ b \in userTurn
  /\ userTurn' = userTurn \ {b}
  /\ UNCHANGED <<disk, userTurns, clock, app, tick, since, turns>>

\* The runtime run of a routine's message ends, also between two awaits of a tick.
RuntimeEnds(k) ==
  /\ app # "down" /\ at \in {"idle", "dispatch"}
  /\ runtime[k] = "active"
  /\ \E e \in RuntimeEnded : runtime' = [runtime EXCEPT ![k] = e]
  /\ UNCHANGED <<routine, schedule, next, run, message, deleted, userTurn, userTurns, clock,
                 app, tick, since, turns>>

\* The Bot's row stays, marked as deleted, so its routines stay too; its sessions and
\* with them their runtime runs are deleted, and routine_runs.runtime_run_id is set to NULL.
DeleteBot(b) ==
  /\ Idle
  /\ b \in Deletable \ deleted /\ ~Busy(b)
  /\ deleted' = deleted \cup {b}
  /\ runtime' = [k \in Key |-> IF BotOfKey(k) = b /\ runtime[k] # "none" THEN "gone"
                               ELSE runtime[k]]
  /\ message' = {k \in message : BotOfKey(k) # b}
  /\ UNCHANGED <<routine, schedule, next, run, userTurn, userTurns, clock, app, tick,
                 since, turns>>

----------------------------------------------------------------------------
(* What the user does with routines.                                       *)

\* A schedule that is switched on owes its slots from the next one on; one without a
\* next slot is refused.
Owes(r, s, on) ==
  LET n == IF on THEN NextRun(s, clock) ELSE Never IN
  /\ on => n # Never
  /\ schedule' = [schedule EXCEPT ![r] = s]
  /\ next' = [next EXCEPT ![r] = n]
  /\ since' = [since EXCEPT ![r] = n]

Create(r) ==
  /\ Idle
  /\ routine[r] = "absent" /\ BotOf[r] \notin deleted
  /\ \A q \in 1..r - 1 : routine[q] # "absent"
  /\ \E on \in BOOLEAN :
       /\ Owes(r, schedule[r], on)
       /\ routine' = [routine EXCEPT ![r] = IF on THEN "on" ELSE "off"]
  /\ UNCHANGED <<run, message, runtime, deleted, userTurn, userTurns, clock, app, tick, turns>>

SetEnabled(r) ==
  /\ Idle
  /\ Exists(r)
  /\ \E on \in BOOLEAN :
       /\ Owes(r, schedule[r], on)
       /\ routine' = [routine EXCEPT ![r] = IF on THEN "on" ELSE "off"]
  /\ UNCHANGED <<run, message, runtime, deleted, userTurn, userTurns, clock, app, tick, turns>>

\* update: an edit starts the schedule anew from now, also when only the name or the
\* prompt is edited: a slot that is due and not yet ticked is dropped.
Update(r) ==
  /\ Idle
  /\ Exists(r)
  /\ \E s \in Schedules : Owes(r, s, routine[r] = "on")
  /\ UNCHANGED <<routine, run, message, runtime, deleted, userTurn, userTurns, clock, app, tick,
                 turns>>

\* deleteRoutine: its runs go with it.  What they leave in the conversation is not
\* looked at again, unless it is still busy.
Delete(r) ==
  /\ Idle
  /\ Exists(r) /\ ~HasPending(r)
  /\ routine' = [routine EXCEPT ![r] = "gone"]
  /\ next' = [next EXCEPT ![r] = Never]
  /\ since' = [since EXCEPT ![r] = Never]
  /\ run' = [k \in Key |-> IF k[1] = r THEN "none" ELSE run[k]]
  /\ message' = {k \in message : k[1] # r}
  /\ runtime' = [k \in Key |-> IF k[1] = r /\ runtime[k] # "active" THEN "none" ELSE runtime[k]]
  /\ turns' = [k \in Key |-> IF k[1] = r THEN 0 ELSE turns[k]]
  /\ UNCHANGED <<schedule, deleted, userTurn, userTurns, clock, app, tick>>

\* createRoutineRun: the row, which a manual or a due run begins with
CreateRun(k, state) == run' = [run EXCEPT ![k] = state]

RunNow(r) ==
  /\ Idle
  /\ r \in Manual
  /\ Exists(r) /\ ~HasPending(r) /\ run[<<r, 0>>] = "none"
  /\ CreateRun(<<r, 0>>, "queued")
  /\ at' = "dispatch" /\ todo' = {<<r, 0>>}
  /\ UNCHANGED <<routine, schedule, next, message, runtime, deleted, userTurn, userTurns, clock,
                 app, pos, job, since, turns>>

----------------------------------------------------------------------------
(* The tick.                                                               *)

Abandon == at' = "idle" /\ todo' = {} /\ pos' = 1 /\ job' = {}

TickBegins ==
  /\ Idle
  /\ at' = "reconcile"
  /\ todo' = {k \in Key : run[k] = "running" /\ runtime[k] # "gone"}
  /\ UNCHANGED <<disk, userTurn, userTurns, clock, app, pos, job, since, turns>>

\* Mutants: a run takes over the state of its runtime run; it is settled whether that
\* has ended or not; a cancelled one is overlooked.
SettledRaw(k) == runtime[k]
SettledUnlessCancelled(k) == IF runtime[k] \in {"completed", "failed"} THEN runtime[k] ELSE run[k]
SettledNow(k) == IF runtime[k] \in RuntimeEnded THEN runtime[k] ELSE "failed"

\* What reconcile makes of a run.
Settled(k) == IF runtime[k] \in RuntimeEnded THEN runtime[k] ELSE run[k]

Reconcile(k) ==
  /\ at = "reconcile" /\ k \in todo
  /\ run' = [run EXCEPT ![k] = Settled(k)]
  /\ todo' = todo \ {k}
  /\ UNCHANGED <<routine, schedule, next, message, runtime, deleted, userTurn, userTurns, clock,
                 app, at, pos, job, since, turns>>

Reconciled ==
  /\ at = "reconcile" /\ todo = {}
  /\ at' = "advance" /\ pos' = 1
  /\ UNCHANGED <<disk, userTurn, userTurns, clock, app, todo, job, since, turns>>

Due(r) == routine[r] = "on" /\ next[r] \in 1..clock
Missed(r) == clock - next[r] > MissedAfter

\* routine_one_active_run and UNIQUE(trigger_key)
Conflict(r) ==
  \/ ~Missed(r) /\ HasPending(r)
  \/ run[<<r, next[r]>>] # "none"

Following(r) == NextRun(schedule[r], next[r])

\* advanceRoutineAndCreateRun: one transaction; a conflict throws out of the tick
Advance ==
  /\ at = "advance" /\ pos \in Routine
  /\ \/ /\ ~Due(pos)
        /\ pos' = pos + 1
        /\ UNCHANGED <<routine, next, run, at, todo, job>>
     \/ /\ Due(pos) /\ ~Conflict(pos)
        /\ CreateRun(<<pos, next[pos]>>, IF Missed(pos) THEN "missed" ELSE "queued")
        /\ next' = [next EXCEPT ![pos] = Following(pos)]
        /\ routine' = [routine EXCEPT ![pos] = IF schedule[pos].once THEN "off" ELSE @]
        /\ pos' = pos + 1
        /\ UNCHANGED <<at, todo, job>>
     \/ /\ Due(pos) /\ Conflict(pos)
        /\ Abandon
        /\ UNCHANGED <<routine, next, run>>
  /\ UNCHANGED <<schedule, message, runtime, deleted, userTurn, userTurns, clock, app, since, turns>>

Advanced ==
  /\ at = "advance" /\ pos = Routines + 1
  /\ at' = "dispatch" /\ pos' = 1
  /\ todo' = {k \in Key : run[k] \in {"queued", "waiting"}}
  /\ UNCHANGED <<disk, userTurn, userTurns, clock, app, job, since, turns>>

\* listPendingRoutineRuns: by time, then by id; ids are random, but stay, so that one
\* order stands for all.  When a manual run was begun is not kept: it may come anywhere.
Before(q, k) == q[2] < k[2] \/ (q[2] = k[2] /\ q[1] < k[1])
IsFirst(k) ==
  /\ k \in todo
  /\ k[2] # 0 => ~\E q \in todo : q[2] # 0 /\ Before(q, k)

Handled(k) == todo' = todo \ {k} /\ at' = "dispatch" /\ job' = {}

\* the session of a deleted Bot is not found, outside of dispatch's try: the runs
\* behind it are not reached
NoSession(k) ==
  /\ at = "dispatch" /\ IsFirst(k)
  /\ BotOfKey(k) \in deleted
  /\ Abandon
  /\ UNCHANGED <<disk, userTurn, userTurns, clock, app, since, turns>>

\* Mutant: a message that is already in the transcript is sent again.
SendAgain(k) ==
  /\ app = "up"
  /\ message' = message \cup {k}
  /\ at' = "start" /\ job' = {k}
  /\ UNCHANGED <<run, todo>>

\* send, up to the commit of prepareMessage: refused during shutdown; a message that
\* is in the transcript already is a duplicate, whose runtime run is taken over.
Prepare(k) ==
  \/ /\ app = "closing" \/ (k \in message /\ runtime[k] = "none")
     /\ run' = [run EXCEPT ![k] = "failed"]
     /\ Handled(k)
     /\ UNCHANGED message
  \/ /\ app = "up" /\ k \in message /\ runtime[k] # "none"
     /\ run' = [run EXCEPT ![k] = "running"]
     /\ Handled(k)
     /\ UNCHANGED message
  \/ /\ app = "up" /\ k \notin message
     /\ message' = message \cup {k}
     /\ at' = "start" /\ job' = {k}
     /\ UNCHANGED <<run, todo>>

Dispatch(k) ==
  /\ at = "dispatch" /\ IsFirst(k)
  /\ BotOfKey(k) \notin deleted
  /\ \/ /\ Busy(BotOfKey(k))
        /\ run' = [run EXCEPT ![k] = "waiting"]
        /\ Handled(k)
        /\ UNCHANGED message
     \/ ~Busy(BotOfKey(k)) /\ Prepare(k)
  /\ UNCHANGED <<routine, schedule, next, runtime, deleted, userTurn, userTurns, clock, app, pos,
                 since, turns>>

\* send: createRuntimeRun, or an error before it, which fails the run
StartRun(k) ==
  /\ at = "start" /\ k \in job
  /\ \/ /\ runtime' = [runtime EXCEPT ![k] = "active"]
        /\ turns' = [turns EXCEPT ![k] = @ + 1]
        /\ at' = "attach"
        /\ UNCHANGED <<run, todo, job>>
     \/ /\ run' = [run EXCEPT ![k] = "failed"]
        /\ Handled(k)
        /\ UNCHANGED <<runtime, turns>>
  /\ UNCHANGED <<routine, schedule, next, message, deleted, userTurn, userTurns, clock, app, pos,
                 since>>

\* attachRoutineRuntime
Attach(k) ==
  /\ at = "attach" /\ k \in job
  /\ run' = [run EXCEPT ![k] = "running"]
  /\ Handled(k)
  /\ UNCHANGED <<routine, schedule, next, message, runtime, deleted, userTurn, userTurns, clock,
                 app, pos, since, turns>>

Dispatched ==
  /\ at = "dispatch" /\ todo = {}
  /\ Abandon
  /\ UNCHANGED <<disk, userTurn, userTurns, clock, app, since, turns>>

----------------------------------------------------------------------------
(* Shutdown, crash, restart.                                               *)

\* finishClose: sends are refused, and ticks go on until the run-down is over
BeginShutdown ==
  /\ Idle /\ app = "up"
  /\ app' = "closing"
  /\ UNCHANGED <<disk, userTurn, userTurns, clock, tick, since, turns>>

\* the process ends, by itself or not
Stop ==
  /\ app # "down"
  /\ app' = "down"
  /\ Abandon
  /\ userTurn' = {}
  /\ UNCHANGED <<disk, userTurns, clock, since, turns>>

\* recoverInterruptedRuntimeRuns
Boot ==
  /\ app = "down"
  /\ app' = "up"
  /\ runtime' = [k \in Key |-> IF runtime[k] = "active" THEN "failed" ELSE runtime[k]]
  /\ UNCHANGED <<routine, schedule, next, run, message, deleted, userTurn, userTurns, clock, tick,
                 since, turns>>

----------------------------------------------------------------------------

TickStep ==
  \/ TickBegins \/ Reconciled \/ Advance \/ Advanced \/ Dispatched
  \/ \E k \in Key : Reconcile(k) \/ NoSession(k) \/ Dispatch(k) \/ StartRun(k) \/ Attach(k)

User ==
  \/ \E r \in Routine : Create(r) \/ SetEnabled(r) \/ Update(r) \/ Delete(r) \/ RunNow(r)
  \/ \E b \in Bot : UserSends(b) \/ DeleteBot(b)

Next ==
  \/ TickStep \/ User \/ TimePasses
  \/ \E b \in Bot : UserTurnEnds(b)
  \/ \E k \in Key : RuntimeEnds(k)
  \/ BeginShutdown \/ Stop \/ Boot

Spec == Init /\ [][Next]_vars

\* The interval timer ticks (TICK_MS), a tick runs to its end, and every turn ends:
\* strongly fair, because a tick and a turn's events take turns on the event loop.
\* A shutdown ends (SHUTDOWN_DRAIN_MS).
FairSpec ==
  /\ Spec
  /\ WF_vars(TickStep)
  /\ WF_vars(app = "closing" /\ Stop)
  /\ \A b \in Bot : SF_vars(UserTurnEnds(b))
  /\ \A k \in Key : SF_vars(RuntimeEnds(k))

----------------------------------------------------------------------------

\* The model is asked at most once for a run, wherever a crash cuts the tick: the run
\* is found again under its nonce.
FiredOnce == \A k \in Key : turns[k] <= 1

\* Every slot that a routine owes since it was last switched on or edited has its run,
\* or is still due: the tick catches up after a pause and loses none.
NoSlotLost ==
  \A r \in Routine : routine[r] = "on" =>
    \A s \in schedule[r].slots : since[r] <= s /\ s < next[r] => run[<<r, s>>] # "none"

\* No slot is lost and none is sent twice.
SlotsFireOnce == FiredOnce /\ NoSlotLost

\* A run that is over has no model at work, and says what became of it.
RunTellsRuntime ==
  \A k \in Key :
    /\ run[k] \in Done => runtime[k] # "active"
    /\ run[k] = "completed" => runtime[k] \in {"completed", "gone"}
    /\ run[k] = "cancelled" => runtime[k] \in {"cancelled", "gone"}
    /\ run[k] = "running" => runtime[k] # "none"

\* A Bot does one thing at a time: no routine starts while the user's turn or another
\* routine occupies its conversation.
OneTurnPerBot ==
  \A b \in Bot :
    Cardinality({k \in Key : BotOfKey(k) = b /\ runtime[k] = "active"})
      + (IF b \in userTurn THEN 1 ELSE 0) <= 1

\* A run that was sent is settled, unless the process stops or the Bot is deleted
\* before the next tick (then it stays "running" for good).
RunsSettle ==
  \A k \in Key :
    run[k] = "running" ~> (run[k] # "running" \/ BotOfKey(k) \in deleted \/ app = "down")

(* Claims of the repository that the code does not keep.                   *)

\* "keeps an interval run waiting while the Bot is busy and runs it after the active
\* turn completes": a run that waits is sent, or gives up, unless its own Bot is
\* deleted or the process stops.
WaitingRunStarts ==
  \A k \in Key :
    run[k] = "waiting" ~> (run[k] # "waiting" \/ BotOfKey(k) \in deleted \/ app = "down")

\* The same, of one tick: a tick that ends without having sent anything leaves no run
\* whose Bot is free.  A slot that is due while the routine's earlier run still waits
\* ends the tick, and so every tick until the slot is old enough to be missed.
TickReachesRuns ==
  [][at = "advance" /\ at' = "idle" /\ app' # "down" =>
       \A k \in Key : run[k] \in {"queued", "waiting"} =>
         Busy(BotOfKey(k)) \/ BotOfKey(k) \in deleted]_vars
=============================================================================
