------------------------------ MODULE RoomRun ------------------------------
(***************************************************************************)
(* One Room: its messages, the turns they give its Bots, the handoffs from *)
(* Bot to Bot, and the runtime run of each turn (room-coordinator.ts, the  *)
(* room tables of database.ts, the Room's part of runtime-executor.ts).    *)
(*                                                                         *)
(* A batch is the work that one message starts.  Handlers run to their     *)
(* next await; each SQLite commit of a handler is a step here, so that the *)
(* process may die between any two of them, and no other handler comes     *)
(* between (variable at).                                                  *)
(*                                                                         *)
(* Turns are numbered in the order of their positions; a turn keeps the    *)
(* record of its last attempt, the earlier ones never change again.  Only  *)
(* the latest batch is kept: an older one admits no operation but reading. *)
(* Left out: rejected handoffs, which leave a log entry only, a repeated   *)
(* command (it finds its batch and changes nothing), context references,   *)
(* and the deletion of the Room.                                           *)
(***************************************************************************)
EXTENDS Naturals, FiniteSets, FiniteSetsExt

CONSTANTS
  Bots,        \* bound: number of Bots; the Room lists its members in this order
  Founders,    \* the memberships it may begin with
  Task,        \* digests of handoff tasks
  NoTask,
  MaxTurns, MaxHops, MaxTargets,   \* the policy of a batch
  Route,       \* bound: routings that may wait at once
  Batches, Retries, Crashes, Edits   \* bounds: messages, resumed batches, crashes, edits of the Room

ASSUME RoomAssumptions ==
  /\ Bots \in Nat /\ Founders \subseteq SUBSET (1..Bots)
  /\ MaxTurns \in Nat \ {0} /\ MaxHops \in Nat /\ MaxTargets \in Nat
  /\ Batches \in Nat /\ Retries \in Nat /\ Crashes \in Nat /\ Edits \in Nat
  /\ NoTask \notin Task

Bot == 1..Bots
Turn == 1..(MaxTurns + 1)   \* one more than a batch may have
Try == 1..(Retries + 1)
None == 0

VARIABLES
  \* SQLite
  room,     \* [members, version, archived]
  batch,    \* the latest batch: [state, winding, version]
  turn,     \* its turns
  orphan,   \* a runtime run was created and not yet attached to its turn
  \* main process
  app,      \* "up", "closing" (the runs drain), "draining" (the batches drain), "down"
  at,       \* where a handler is; "idle": every handler awaits something
  mem,      \* [inFlight, only, armed, abort, phase, back]
  routing,  \* the membership version a waiting routing has seen
  \* environment
  expired,  \* the batch's deadline has passed
  used      \* [batches, retries, crashes, edits] so far

vars == <<room, batch, turn, orphan, app, at, mem, routing, expired, used>>

ActiveRun == {"created", "started", "cancelling"}
Ended == {"completed", "failed", "cancelled", "interrupted"}
Active == {"queued", "running"}
BatchEnded == {"completed", "partial", "cancelled", "interrupted"}

TurnRecord ==
  [bot : Bot \cup {None}, from : {None} \cup Turn, fromTry : {None} \cup Try, hop : 0..MaxHops,
   task : Task \cup {NoTask}, handoff : {"none", "queued", "dispatching", "accepted", "failed", "cancelled"},
   try : {None} \cup Try, state : {"none"} \cup Active \cup Ended, cut : BOOLEAN,
   run : {"none"} \cup ActiveRun \cup Ended]

Memory ==
  [inFlight : BOOLEAN, only : SUBSET (Turn \X Try), armed : BOOLEAN,
   abort : {"none", "user", "deadline", "shutdown"},
   phase : {"read", "emitted", "continuation", "decided"}, back : {"idle", "end"}]

Place ==
  {"idle", "begin", "pick", "dispatch", "launch", "attach", "accept", "complete", "reject", "settle",
   "settleHandoff", "end", "stop", "cancel", "cancelQueued", "rooms", "runs"}

TypeOK ==
  /\ room \in [members : SUBSET Bot, version : Nat, archived : BOOLEAN]
  /\ batch \in [state : {"none"} \cup Active \cup BatchEnded, winding : BOOLEAN, version : Nat]
  /\ turn \in [Turn -> TurnRecord]
  /\ orphan \in BOOLEAN
  /\ app \in {"up", "closing", "draining", "down"}
  /\ at \in Place
  /\ mem \in Memory
  /\ routing \in [Route -> Nat]
  /\ expired \in BOOLEAN
  /\ used \in [batches : 0..Batches, retries : 0..Retries, crashes : 0..Crashes, edits : 0..Edits]

NoTurn ==
  [bot |-> None, from |-> None, fromTry |-> None, hop |-> 0, task |-> NoTask, handoff |-> "none",
   try |-> None, state |-> "none", cut |-> FALSE, run |-> "none"]

Fresh(b) == [NoTurn EXCEPT !.bot = b, !.try = 1, !.state = "queued"]

Forgotten ==
  [inFlight |-> FALSE, only |-> {}, armed |-> FALSE, abort |-> "none", phase |-> "read", back |-> "idle"]

Init ==
  /\ room \in [members : Founders, version : {1}, archived : {FALSE}]
  /\ batch = [state |-> "none", winding |-> FALSE, version |-> 0]
  /\ turn = [i \in Turn |-> NoTurn]
  /\ orphan = FALSE
  /\ app = "up" /\ at = "idle" /\ mem = Forgotten
  /\ routing = [r \in Route |-> None]
  /\ expired = FALSE
  /\ used = [batches |-> 0, retries |-> 0, crashes |-> 0, edits |-> 0]

Used == {i \in Turn : turn[i].state # "none"}
Queued == {i \in Turn : turn[i].state = "queued"}
Running == {i \in Turn : turn[i].state = "running"}
OpenHandoff == {i \in Turn : turn[i].handoff \in {"queued", "dispatching"}}
Targets(i) == {turn[j].bot : j \in {k \in Turn : turn[k].from = i}}
RunActive(i) == turn[i].run \in ActiveRun

\* getActiveRoomBatch, getActiveRuntimeRun
Busy == batch.state \in Active \/ orphan \/ \E i \in Turn : RunActive(i)
Idle == at = "idle" /\ app # "down"
HardStop == batch.winding \/ expired

----------------------------------------------------------------------------
(* The Room's members and its archive change only while no batch runs.     *)

\* Bound: edits are explored while a message or a retry can still follow, and not
\* together with crashes.
EditsLeft ==
  /\ used.edits < Edits /\ used.crashes = 0
  /\ used.batches < Batches \/ used.retries < Retries

AddMember(b) ==
  /\ Idle /\ ~Busy /\ EditsLeft
  /\ b \notin room.members /\ Cardinality(room.members) < 6
  /\ room' = [room EXCEPT !.members = @ \cup {b}, !.version = @ + 1]
  /\ used' = [used EXCEPT !.edits = @ + 1]
  /\ UNCHANGED <<batch, turn, orphan, app, at, mem, routing, expired>>

RemoveMember(b) ==
  /\ Idle /\ ~Busy /\ EditsLeft
  /\ b \in room.members /\ Cardinality(room.members) > 2
  /\ room' = [room EXCEPT !.members = @ \ {b}, !.version = @ + 1]
  /\ used' = [used EXCEPT !.edits = @ + 1]
  /\ UNCHANGED <<batch, turn, orphan, app, at, mem, routing, expired>>

ArchiveRoom ==
  /\ Idle /\ ~Busy /\ EditsLeft
  /\ room' = [room EXCEPT !.archived = ~@]
  /\ used' = [used EXCEPT !.edits = @ + 1]
  /\ UNCHANGED <<batch, turn, orphan, app, at, mem, routing, expired>>

----------------------------------------------------------------------------
(* A message.                                                              *)

\* Mutant: the Room may have changed since the routing began.
CanPrepareAnyway(version, targets) ==
  /\ ~room.archived
  /\ targets \subseteq room.members
  /\ ~Busy
  /\ Cardinality(targets) <= MaxTurns

CanPrepare(version, targets) ==
  /\ ~room.archived
  /\ room.version = version
  /\ targets \subseteq room.members
  /\ ~Busy
  /\ Cardinality(targets) <= MaxTurns

\* prepareRoomRun: the message, its batch and the initial turns in one transaction
PrepareRoomRun(version, targets) ==
  /\ CanPrepare(version, targets)
  /\ used.batches < Batches
  /\ \E order \in [1..Cardinality(targets) -> targets] :
       /\ \A i, j \in DOMAIN order : i < j => order[i] < order[j]
       /\ turn' = [i \in Turn |-> IF i \in DOMAIN order THEN Fresh(order[i]) ELSE NoTurn]
  /\ batch' = [state |-> "queued", winding |-> FALSE, version |-> version]
  /\ expired' = FALSE
  /\ used' = [used EXCEPT !.batches = @ + 1]
  /\ at' = "begin"

\* assertRouteShape, assertLiveRoute
RouteIsValid(targets) == targets # {} /\ targets \subseteq room.members

\* sendCoordinated: explicit targets, or everyone
Send(targets) ==
  /\ Idle /\ app = "up" /\ RouteIsValid(targets)
  /\ PrepareRoomRun(room.version, targets)
  /\ UNCHANGED <<room, orphan, app, mem, routing>>

\* selectAndSend, up to its await
SelectOwner(r) ==
  /\ Idle /\ app = "up" /\ routing[r] = None
  /\ ~room.archived /\ ~Busy
  /\ routing' = [routing EXCEPT ![r] = room.version]
  /\ UNCHANGED <<room, batch, turn, orphan, app, at, mem, expired, used>>

\* routeAndSend: without targets, the Room's owner is to be selected
RouteAndSend(targets) ==
  \/ Send(targets)
  \/ targets = {} /\ \E r \in Route : SelectOwner(r)

\* The selection arrives: the batch is made for the Room that the routing has seen.
OwnerSelected(r) ==
  /\ Idle /\ app = "up" /\ routing[r] # None
  /\ \E b \in Bot : PrepareRoomRun(routing[r], {b})
  /\ routing' = [routing EXCEPT ![r] = None]
  /\ UNCHANGED <<room, orphan, app, mem>>

\* The selection fails or times out (ROOM_ROUTER_TIMEOUT_MS), or comes for a Room that
\* has changed or is busy.
RoutingFails(r) ==
  /\ Idle /\ routing[r] # None
  /\ routing' = [routing EXCEPT ![r] = None]
  /\ UNCHANGED <<room, batch, turn, orphan, app, at, mem, expired, used>>

TransitionRoomBatch(state) ==
  /\ <<batch.state, state>> \in {<<"queued", "running">>} \cup Active \X BatchEnded
  /\ batch' = [batch EXCEPT !.state = state]

\* startProcessing, with the attempts that the loop is for; armDeadline goes before it.
StartProcessing(attempts) ==
  /\ mem' = [mem EXCEPT !.armed = TRUE, !.inFlight = TRUE, !.only = attempts]
  /\ at' = "pick"

\* Mutant: the timer is not armed.
BeginUnarmed ==
  /\ at = "begin"
  /\ TransitionRoomBatch("running")
  /\ mem' = [mem EXCEPT !.inFlight = TRUE, !.only = {<<i, 1>> : i \in Used}]
  /\ at' = "pick"
  /\ UNCHANGED <<room, turn, orphan, app, routing, expired, used>>

\* The batch starts to run: its timer is armed, and the loop of process begins.
Begin ==
  /\ at = "begin"
  /\ TransitionRoomBatch("running")
  /\ StartProcessing({<<i, 1>> : i \in Used})
  /\ UNCHANGED <<room, turn, orphan, app, routing, expired, used>>

----------------------------------------------------------------------------
(* process: the turns of a batch, one at a time.                           *)

\* isInFrontier: the turn, or a turn it descends from, is one that this loop was
\* started for; an attempt descends from the attempt that handed the task over.
InFrontier(i) ==
  LET below[k \in (0..MaxTurns + 1) \X (0..Retries + 1)] ==
        /\ k[1] # None
        /\ k \in mem.only \/ below[<<turn[k[1]].from, turn[k[1]].fromTry>>]
  IN below[<<i, turn[i].try>>]

Frontier == {i \in Queued : InFrontier(i)}

\* assertRoomTurnDispatchable
Dispatchable(i) ==
  /\ ~HardStop
  /\ batch.state = "running"
  /\ ~room.archived
  /\ room.version = batch.version /\ turn[i].bot \in room.members

LoopGoesOn == app = "up" /\ batch.state = "running" /\ Frontier # {}

LoopEnds ==
  /\ at = "pick" /\ ~LoopGoesOn
  /\ at' = "end"
  /\ UNCHANGED <<room, batch, turn, orphan, app, mem, routing, expired, used>>

Refuse(i) ==
  /\ at = "pick" /\ LoopGoesOn /\ i = Min(Frontier) /\ ~Dispatchable(i)
  /\ at' = "stop" /\ mem' = [mem EXCEPT !.back = "end"]
  /\ UNCHANGED <<room, batch, turn, orphan, app, routing, expired, used>>

DispatchHandoff(i) ==
  /\ at = "pick" /\ LoopGoesOn /\ i = Min(Frontier) /\ Dispatchable(i)
  /\ turn[i].handoff = "queued"
  /\ turn' = [turn EXCEPT ![i].handoff = "dispatching"]
  /\ at' = "dispatch"
  /\ UNCHANGED <<room, batch, orphan, app, mem, routing, expired, used>>

BeginTurn(i) ==
  /\ \/ at = "pick" /\ LoopGoesOn /\ Dispatchable(i) /\ turn[i].handoff # "queued"
     \/ at = "dispatch"
  /\ i = Min(Frontier)
  /\ turn' = [turn EXCEPT ![i].state = "running", ![i].cut = TRUE]
  /\ at' = "launch"
  /\ UNCHANGED <<room, batch, orphan, app, mem, routing, expired, used>>

\* executor.start: it throws (no Provider, no prompt), which fails the turn, or creates the run ...
Launch(i) ==
  /\ at = "launch" /\ i \in Running
  /\ \/ /\ orphan' = TRUE
        /\ at' = "attach"
        /\ UNCHANGED turn
     \/ /\ turn' = [turn EXCEPT ![i].state = "failed"]
        /\ at' = "settleHandoff"
        /\ UNCHANGED orphan
  /\ UNCHANGED <<room, batch, app, mem, routing, expired, used>>

\* ... and onRunCreated attaches it; then process awaits the run.
Attach(i) ==
  /\ at = "attach" /\ i \in Running
  /\ orphan' = FALSE
  /\ turn' = [turn EXCEPT ![i].run = "created"]
  /\ mem' = [mem EXCEPT !.abort = "none", !.phase = "read"]
  /\ at' = "idle"
  /\ UNCHANGED <<room, batch, app, routing, expired, used>>

\* settleTurn: unless recovery has settled the turn before
SettleTurn ==
  /\ at = "settle"
  /\ turn' = [i \in Turn |-> IF i \in Running THEN [turn[i] EXCEPT !.state = turn[i].run] ELSE turn[i]]
  /\ mem' = [mem EXCEPT !.abort = "none", !.phase = "read"]
  /\ at' = "settleHandoff"
  /\ UNCHANGED <<room, batch, orphan, app, routing, expired, used>>

\* settleHandoff, settleHandoffFailure: the Provider did not start
SettleHandoff ==
  /\ at = "settleHandoff"
  /\ turn' = [i \in Turn |->
       IF turn[i].handoff = "dispatching"
       THEN [turn[i] EXCEPT !.handoff = IF turn[i].run = "cancelled" THEN "cancelled" ELSE "failed"]
       ELSE turn[i]]
  /\ at' = "pick"
  /\ UNCHANGED <<room, batch, orphan, app, mem, routing, expired, used>>

AllIn(states) == \A i \in Used : turn[i].state \in states

\* finishRoomBatchFromTurns
Finished ==
  IF ~AllIn(Ended) THEN batch
  ELSE [batch EXCEPT !.state = IF AllIn({"completed"}) THEN "completed"
                               ELSE IF AllIn({"cancelled"}) THEN "cancelled" ELSE "partial"]

\* Mutant: the outcome of a run that has ended is lost.
RecoveredAsInterrupted(t) ==
  [t EXCEPT
    !.handoff = IF @ \in {"queued", "dispatching"} THEN "cancelled" ELSE @,
    !.run = IF t.state \in Active /\ batch.state = "cancelled" /\ @ \in ActiveRun THEN "cancelled" ELSE @,
    !.state = IF @ \notin Active THEN @ ELSE IF batch.state = "cancelled" THEN "cancelled" ELSE "interrupted"]

\* recoverInterruptedRooms: what becomes of a turn ...
RecoveredTurn(t) ==
  [t EXCEPT
    !.handoff = IF @ \in {"queued", "dispatching"} THEN "cancelled" ELSE @,
    !.run = IF t.state \in Active /\ batch.state = "cancelled" /\ @ \in ActiveRun THEN "cancelled" ELSE @,
    !.state = IF @ \notin Active THEN @
              ELSE IF t.run \in Ended THEN t.run
              ELSE IF batch.state = "cancelled" THEN "cancelled" ELSE "interrupted"]

\* ... and of the batch
RecoverInterruptedRooms ==
  /\ turn' = [i \in Turn |-> RecoveredTurn(turn[i])]
  /\ batch' =
       LET ends == {turn'[i].state : i \in Used} IN
       IF batch.state \notin Active THEN batch
       ELSE [batch EXCEPT !.state = IF ends = {"completed"} THEN "completed"
                                    ELSE IF ends = {"cancelled"} THEN "cancelled"
                                    ELSE IF ends = {"interrupted"} THEN "interrupted" ELSE "partial"]

\* The loop is over: the batch is finished, or recovered during shutdown, and its timer cleared.
EndProcess ==
  /\ at = "end"
  /\ \/ app # "up" /\ batch.state \in Active /\ RecoverInterruptedRooms
     \/ batch.state = "running" /\ app = "up" /\ batch' = Finished /\ UNCHANGED turn
     \/ batch.state \notin Active /\ UNCHANGED <<batch, turn>>
  /\ mem' = [Forgotten EXCEPT !.armed = mem.armed /\ batch'.state \in Active]
  /\ at' = "idle"
  /\ UNCHANGED <<room, orphan, app, routing, expired, used>>

----------------------------------------------------------------------------
(* The run of the turn: what the Provider sends (dispatch).                *)

Reading == mem.phase \in {"read", "emitted"}
Awaits(i) == Idle /\ mem.inFlight /\ i \in Running

ProviderStarts(i) ==
  /\ Awaits(i) /\ turn[i].run = "created" /\ mem.abort = "none"
  /\ turn' = [turn EXCEPT ![i].run = "started"]
  /\ at' = IF turn[i].handoff = "dispatching" THEN "accept" ELSE "idle"
  /\ UNCHANGED <<room, batch, orphan, app, mem, routing, expired, used>>

\* onProviderStarted
AcceptHandoff(i) ==
  /\ at = "accept" /\ turn[i].handoff = "dispatching"
  /\ turn' = [turn EXCEPT ![i].handoff = "accepted"]
  /\ at' = "idle"
  /\ UNCHANGED <<room, batch, orphan, app, mem, routing, expired, used>>

\* Mutant: a stopped batch takes new turns.
CanCreateTurnAfterStop(i) ==
  /\ turn[i].hop < MaxHops
  /\ Cardinality(Used) < MaxTurns
  /\ Cardinality(Targets(i)) < MaxTargets

\* Mutant: one turn too many.
CanCreateTurnMore(i) ==
  /\ ~HardStop
  /\ turn[i].hop < MaxHops
  /\ Cardinality(Used) <= MaxTurns
  /\ Cardinality(Targets(i)) < MaxTargets

\* Mutant: hops are not limited.
CanCreateTurnFarther(i) ==
  /\ ~HardStop
  /\ Cardinality(Used) < MaxTurns
  /\ Cardinality(Targets(i)) < MaxTargets

\* assertRoomRunCanCreateTurn: the limits count turns and targets over all attempts.
CanCreateTurn(i) ==
  /\ ~HardStop
  /\ turn[i].hop < MaxHops
  /\ Cardinality(Used) < MaxTurns
  /\ Cardinality(Targets(i)) < MaxTargets

\* wouldCreateHandoffCycle: the Bots that the same task came from
SameTaskBots(i, d) ==
  LET above[k \in 0..MaxTurns + 1] ==
        IF k = None THEN {}
        ELSE {turn[k].bot} \cup (IF turn[k].task = d THEN above[turn[k].from] ELSE {})
  IN above[i]

\* createHandoff: a Bot is a target of a turn once, whatever the attempt.
CanHandOff(i, b, d) ==
  /\ batch.state = "running" /\ turn[i].state = "running"
  /\ b # turn[i].bot
  /\ b \notin Targets(i)
  /\ room.version = batch.version /\ b \in room.members
  /\ CanCreateTurn(i)
  /\ b \notin SameTaskBots(i, d)

CreateHandoff(i, b, d) ==
  /\ CanHandOff(i, b, d)
  /\ turn' = [turn EXCEPT ![Cardinality(Used) + 1] =
       [Fresh(b) EXCEPT !.from = i, !.fromTry = turn[i].try, !.hop = turn[i].hop + 1,
                        !.task = d, !.handoff = "queued"]]

\* getHandoffBySemanticKey: the same task for the same Bot, which a further attempt of the
\* turn may repeat
Repeated(i, b, d) == \E j \in Turn : turn[j].from = i /\ turn[j].bot = b /\ turn[j].task = d

\* A handoff event.  A repeated one is acknowledged and starts nothing.
Handoff(i, b, d) ==
  /\ Awaits(i) /\ turn[i].run = "started" /\ mem.abort = "none" /\ Reading
  /\ \/ CreateHandoff(i, b, d)
     \/ Repeated(i, b, d) /\ UNCHANGED turn
  /\ mem' = [mem EXCEPT !.phase = "emitted"]
  /\ UNCHANGED <<room, batch, orphan, app, at, routing, expired, used>>

\* selectRoomContinuation: the answer is complete; the Provider is asked whether it hands on.
AskContinuation(i) ==
  /\ Awaits(i) /\ turn[i].run = "started" /\ mem.abort = "none" /\ mem.phase = "read"
  /\ mem' = [mem EXCEPT !.phase = "continuation"]
  /\ UNCHANGED <<room, batch, turn, orphan, app, at, routing, expired, used>>

DecideHandoff(i, b, d) ==
  /\ Awaits(i) /\ RunActive(i) /\ mem.phase = "continuation"
  /\ CreateHandoff(i, b, d)
  /\ mem' = [mem EXCEPT !.phase = "decided"]
  /\ at' = "complete"
  /\ UNCHANGED <<room, batch, orphan, app, routing, expired, used>>

\* The run completes; a run that was cancelled while the continuation was asked for cannot
\* (RUNTIME_TRANSITIONS), and ends cancelled.
Complete(i) ==
  /\ i \in Running /\ RunActive(i) /\ turn[i].run # "created"
  /\ \/ at = "complete"
     \/ Awaits(i) /\ Reading /\ mem.abort = "none"
     \/ Awaits(i) /\ mem.phase = "continuation"
  /\ turn' = [turn EXCEPT ![i].run = IF @ = "cancelling" THEN "cancelled" ELSE "completed"]
  /\ at' = "settle"
  /\ UNCHANGED <<room, batch, orphan, app, mem, routing, expired, used>>

\* handleFailure
FailedAs(i) ==
  IF mem.abort = "shutdown" THEN {"interrupted"}
  ELSE IF mem.abort = "deadline" THEN {"failed"}
  ELSE IF turn[i].run = "cancelling" THEN {"cancelled"}
  ELSE IF turn[i].run = "created" THEN {"failed", "interrupted"} ELSE {"failed"}

\* The run fails.  A deadline and a shutdown reject the pending read at once; after the
\* user's cancel the read is awaited.
Fail(i) ==
  /\ i \in Running /\ RunActive(i)
  /\ \/ at = "reject"
     \/ Awaits(i) /\ (mem.abort \in {"none", "user"} \/ mem.phase = "continuation")
  /\ \E s \in FailedAs(i) : turn' = [turn EXCEPT ![i].run = s]
  /\ at' = "settle"
  /\ UNCHANGED <<room, batch, orphan, app, mem, routing, expired, used>>

\* The Provider answers when shutdown has settled its run.
AnswerLate(i) ==
  /\ Awaits(i) /\ turn[i].run \in Ended
  /\ at' = "settle"
  /\ UNCHANGED <<room, batch, turn, orphan, app, mem, routing, expired, used>>

----------------------------------------------------------------------------
(* Stopping a batch: its deadline, a turn that may not start, the user.    *)

TimePasses ==
  /\ batch.state # "none" /\ ~expired
  /\ expired' = TRUE
  /\ UNCHANGED <<room, batch, turn, orphan, app, at, mem, routing, used>>

\* armDeadline's timer
DeadlineFires ==
  /\ Idle /\ app # "draining" /\ mem.armed /\ expired
  /\ mem' = [mem EXCEPT !.armed = FALSE, !.back = "idle"]
  /\ at' = IF batch.state \in Active THEN "stop" ELSE "idle"
  /\ UNCHANGED <<room, batch, turn, orphan, app, routing, expired, used>>

\* cancel: past the deadline it stops the batch as the timer would.
Cancel ==
  /\ Idle /\ batch.state \in Active /\ ~batch.winding
  /\ at' = IF expired THEN "stop" ELSE "cancel"
  /\ mem' = [mem EXCEPT !.back = "idle"]
  /\ UNCHANGED <<room, batch, turn, orphan, app, routing, expired, used>>

\* stopCoordinatedRun
MarkWindingDown ==
  /\ at = "stop" /\ ~batch.winding
  /\ batch' = [batch EXCEPT !.winding = TRUE]
  /\ UNCHANGED <<room, turn, orphan, app, at, mem, routing, expired, used>>

\* cancelOpenHandoffs, one after the other
CancelHandoff(i) ==
  /\ at = "cancel" \/ (at = "stop" /\ batch.winding)
  /\ i \in OpenHandoff /\ i = Min(OpenHandoff)
  /\ turn' = [turn EXCEPT ![i].handoff = "cancelled"]
  /\ UNCHANGED <<room, batch, orphan, app, at, mem, routing, expired, used>>

\* cancelRun: the first reason to abort stays.
CancelRun ==
  /\ at = "cancel" /\ OpenHandoff = {}
  /\ IF mem.abort = "none" /\ \E i \in Running : RunActive(i)
     THEN /\ turn' = [i \in Turn |-> IF i \in Running THEN [turn[i] EXCEPT !.run = "cancelling"] ELSE turn[i]]
          /\ mem' = [mem EXCEPT !.abort = "user"]
     ELSE UNCHANGED <<turn, mem>>
  /\ at' = "cancelQueued"
  /\ UNCHANGED <<room, batch, orphan, app, routing, expired, used>>

CancelQueued(i) ==
  /\ at = "cancelQueued" \/ (at = "stop" /\ batch.winding /\ OpenHandoff = {})
  /\ i \in Queued /\ i = Min(Queued)
  /\ turn' = [turn EXCEPT ![i].state = "cancelled"]
  /\ UNCHANGED <<room, batch, orphan, app, at, mem, routing, expired, used>>

CancelBatch ==
  /\ at = "cancelQueued" /\ Queued = {}
  /\ TransitionRoomBatch("cancelled")
  /\ mem' = [mem EXCEPT !.armed = FALSE]
  /\ at' = "idle"
  /\ UNCHANGED <<room, turn, orphan, app, routing, expired, used>>

\* The end of stopCoordinatedRun: a run is aborted, which rejects its read; a batch without
\* a running turn is finished.
StopEnds ==
  /\ at = "stop" /\ batch.winding /\ OpenHandoff = {} /\ Queued = {}
  /\ LET aborts == mem.abort = "none" /\ \E i \in Running : RunActive(i) IN
     /\ mem' = [mem EXCEPT !.abort = IF aborts THEN "deadline" ELSE @]
     /\ at' = IF aborts /\ Reading THEN "reject" ELSE mem.back
  /\ batch' = IF Running = {} THEN Finished ELSE batch
  /\ UNCHANGED <<room, turn, orphan, app, routing, expired, used>>

----------------------------------------------------------------------------
(* Another attempt.                                                        *)

\* Mutant: a run that is still being cancelled does not count.
MayResumeEarly(i) ==
  /\ ~HardStop
  /\ room.version = batch.version /\ turn[i].bot \in room.members
  /\ ~room.archived
  /\ used.retries < Retries

MayResume(i) ==
  /\ ~HardStop
  /\ room.version = batch.version /\ turn[i].bot \in room.members
  /\ ~room.archived
  /\ ~Busy
  /\ used.retries < Retries

\* The batch runs again, for these turns and what they hand on.
Resume(turns) ==
  /\ batch' = [batch EXCEPT !.state = "running"]
  /\ StartProcessing({<<i, turn[i].try + 1>> : i \in turns})
  /\ used' = [used EXCEPT !.retries = @ + 1]
  /\ UNCHANGED <<room, orphan, app, routing, expired>>

\* createRoomTurnRetry, retryTurn: a further attempt reads the transcript up to the cutoff of
\* the one before.
RetryTurn(i) ==
  /\ Idle /\ app = "up"
  /\ turn[i].state \in {"failed", "cancelled", "interrupted"}
  /\ batch.state \in {"partial", "cancelled", "interrupted"}
  /\ MayResume(i)
  /\ turn' = [turn EXCEPT ![i].try = @ + 1, ![i].state = "queued", ![i].run = "none"]
  /\ Resume({i})

\* continueInterruptedRoomBatch: the turns that never started
Continue ==
  /\ Idle /\ app = "up"
  /\ batch.state \in {"interrupted", "partial"}
  /\ LET remaining == {i \in Turn : turn[i].state = "interrupted" /\ ~turn[i].cut} IN
     /\ remaining # {}
     /\ \A i \in remaining : MayResume(i)
     /\ turn' = [i \in Turn |->
          IF i \in remaining THEN [turn[i] EXCEPT !.try = @ + 1, !.state = "queued"] ELSE turn[i]]
     /\ Resume(remaining)

----------------------------------------------------------------------------
(* Shutdown, crash, restart.                                               *)

\* beginShutdown and the start of executor.shutdown: routings end, the run is aborted.
BeginShutdown ==
  /\ Idle /\ app = "up"
  /\ app' = "closing"
  /\ routing' = [r \in Route |-> None]
  /\ LET aborts == mem.abort = "none" /\ \E i \in Running : RunActive(i) IN
     /\ mem' = [mem EXCEPT !.abort = IF aborts THEN "shutdown" ELSE @]
     /\ at' = IF aborts /\ Reading THEN "reject" ELSE "idle"
  /\ UNCHANGED <<room, batch, turn, orphan, expired, used>>

\* The executor has drained, or SHUTDOWN_DRAIN_MS is over and it settles the run itself; then
\* the coordinator clears its timers and waits for its batches.
ExecutorDrained ==
  /\ Idle /\ app = "closing"
  /\ app' = "draining"
  /\ turn' = [i \in Turn |->
       IF RunActive(i)
       THEN [turn[i] EXCEPT !.run = IF @ = "cancelling" THEN "cancelled" ELSE "interrupted"]
       ELSE turn[i]]
  /\ mem' = [mem EXCEPT !.armed = FALSE]
  /\ UNCHANGED <<room, batch, orphan, at, routing, expired, used>>

Down ==
  /\ app' = "down" /\ at' = "idle"
  /\ mem' = Forgotten
  /\ routing' = [r \in Route |-> None]

\* The coordinator has drained or waited long enough, and the database is closed.
Drained ==
  /\ Idle /\ app = "draining"
  /\ RecoverInterruptedRooms
  /\ Down
  /\ UNCHANGED <<room, orphan, expired, used>>

Crash ==
  /\ app # "down" /\ used.crashes < Crashes /\ used.edits = 0
  /\ Down
  /\ used' = [used EXCEPT !.crashes = @ + 1]
  /\ UNCHANGED <<room, batch, turn, orphan, expired>>

Restart ==
  /\ app = "down"
  /\ app' = "up" /\ at' = "rooms"
  /\ UNCHANGED <<room, batch, turn, orphan, mem, routing, expired, used>>

RecoverRooms ==
  /\ at = "rooms"
  /\ RecoverInterruptedRooms
  /\ at' = "runs"
  /\ UNCHANGED <<room, orphan, app, mem, routing, expired, used>>

\* recoverInterruptedRuntimeRuns
RecoverRuns ==
  /\ at = "runs"
  /\ turn' = [i \in Turn |-> IF RunActive(i) THEN [turn[i] EXCEPT !.run = "interrupted"] ELSE turn[i]]
  /\ orphan' = FALSE
  /\ at' = "idle"
  /\ UNCHANGED <<room, batch, app, mem, routing, expired, used>>

----------------------------------------------------------------------------

\* A handler goes on to its next commit.
HandlerStep ==
  \/ Begin \/ LoopEnds \/ SettleTurn \/ SettleHandoff \/ EndProcess
  \/ MarkWindingDown \/ CancelRun \/ CancelBatch \/ StopEnds \/ RecoverRooms \/ RecoverRuns
  \/ \E i \in Turn :
       \/ Refuse(i) \/ DispatchHandoff(i) \/ BeginTurn(i) \/ Launch(i) \/ Attach(i) \/ AcceptHandoff(i)
       \/ CancelHandoff(i) \/ CancelQueued(i)

RunStep(i) ==
  \/ ProviderStarts(i) \/ AskContinuation(i) \/ Complete(i) \/ Fail(i) \/ AnswerLate(i)
  \/ \E b \in Bot, d \in Task : Handoff(i, b, d) \/ DecideHandoff(i, b, d)

User ==
  \/ \E targets \in SUBSET Bot : RouteAndSend(targets)
  \/ \E i \in Turn : RetryTurn(i)
  \/ \E b \in Bot : AddMember(b) \/ RemoveMember(b)
  \/ Cancel \/ Continue \/ ArchiveRoom

Next ==
  \/ HandlerStep \/ User
  \/ \E i \in Turn : RunStep(i)
  \/ \E r \in Route : OwnerSelected(r) \/ RoutingFails(r)
  \/ TimePasses \/ DeadlineFires
  \/ BeginShutdown \/ ExecutorDrained \/ Drained \/ Crash \/ Restart

Spec == Init /\ [][Next]_vars

\* Handlers run, time passes and its timer fires, a shutdown ends, and an aborted run
\* or a selection ends: abort signals reach the requests of every Provider.  Nothing else is
\* asked of a Provider.
FairSpec ==
  /\ Spec
  /\ WF_vars(HandlerStep \/ \E i \in Turn : at \in {"reject", "complete"} /\ RunStep(i))
  /\ WF_vars(TimePasses) /\ WF_vars(DeadlineFires)
  /\ WF_vars(ExecutorDrained \/ Drained)
  /\ WF_vars(\E i \in Turn :
       (mem.abort # "none" \/ mem.phase = "continuation") /\ (Complete(i) \/ Fail(i)))

----------------------------------------------------------------------------

Settled(i) == turn[i].state \in Ended
QuietUp == at = "idle" /\ app = "up"

\* While the application waits, a running batch has its loop, its timer (or the stop
\* that the timer brought) and one turn at work, which its run feeds; no other turn is
\* running, and turns are queued only where the loop will come to them.  A batch that
\* broke this would keep the Room busy for good.
BatchIsProcessed ==
  QuietUp =>
    /\ batch.state # "queued"
    /\ Cardinality(Running) <= 1
    /\ batch.state = "running" => Running # {} /\ (mem.armed \/ batch.winding)
    /\ \A i \in Running : mem.inFlight /\ RunActive(i)
    /\ \A i \in Turn : RunActive(i) => i \in Running
    /\ Queued # {} => batch.state = "running" /\ Queued = Frontier

\* A settled turn ended as its run ended, and a batch that ended by itself sums up its turns.
TurnsSumUp ==
  QuietUp =>
    /\ \A i \in Used : Settled(i) /\ turn[i].run # "none" => turn[i].state = turn[i].run
    /\ batch.state = "completed" => AllIn({"completed"})
    /\ batch.state = "partial" => AllIn(Ended)
    /\ batch.state = "interrupted" => AllIn({"interrupted"})

\* A handoff is open while its turn waits for the Provider, and says accepted only of
\* a turn that a Provider took up.
HandoffTellsDelivery ==
  \A i \in Used :
    /\ turn[i].handoff = "accepted" => turn[i].cut
    /\ QuietUp /\ turn[i].handoff = "queued" => turn[i].state = "queued" /\ turn[i].try = 1
    /\ QuietUp /\ turn[i].handoff = "dispatching" => turn[i].run = "created"
    /\ turn[i].handoff \in {"queued", "dispatching"} => turn[i].try = 1

\* Batch, turns, handoffs and runs tell one story, over crashes, shutdowns, retries and
\* answers that come late.
OutcomesAgree == TurnsSumUp /\ HandoffTellsDelivery

\* The task of turn i came from turn j, directly or over others.
Passed(j, i) ==
  LET froms[k \in 0..MaxTurns + 1] ==
        IF k = None \/ turn[k].task # turn[i].task THEN {}
        ELSE {turn[k].from} \cup froms[turn[k].from]
  IN turn[i].task # NoTask /\ j \in froms[i]

\* A batch keeps its limits over all attempts of its turns, also those that are handed on
\* from a retried turn, and one task never comes back to a Bot: on a chain of handoffs of
\* the same task every Bot is another one.
Bounded ==
  /\ Cardinality(Used) <= MaxTurns
  /\ \A i \in Used : turn[i].hop <= MaxHops /\ Cardinality(Targets(i)) <= MaxTargets
  /\ \A i, j \in Used : Passed(j, i) => turn[i].bot # turn[j].bot

\* While a batch runs the Room is the one it was made for: no turn works for a Bot that
\* has left, although routings and retries cross changes of the membership.
MembershipFrozen ==
  batch.state \in Active =>
    /\ room.version = batch.version /\ ~room.archived
    /\ \A i \in Used : turn[i].state \in Active => turn[i].bot \in room.members

\* A batch that was stopped takes no new turn and starts none that it has, whatever the
\* Provider sends late; and what has ended stays so, but for a further attempt.
StoppedStaysStopped ==
  [][/\ batch.winding /\ used'.batches = used.batches =>
          /\ {i \in Turn : turn'[i].state # "none"} = Used
          /\ \A i \in Turn : turn'[i].state \in {"queued", "running"} => turn'[i].state = turn[i].state
     /\ used'.batches = used.batches => \A i \in Used :
          /\ turn'[i].try = turn[i].try /\ Settled(i) => turn'[i].state = turn[i].state
          /\ turn[i].run \in Ended /\ turn'[i].try = turn[i].try => turn'[i].run = turn[i].run]_vars

\* A batch ends by its deadline at the latest, and so does every turn, even if the Provider
\* never sends anything.
BatchesEnd == (batch.state \in Active \/ Running # {}) ~> ((batch.state \notin Active /\ Running = {}) \/ app = "down")
=============================================================================
