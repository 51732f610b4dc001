------------------------ MODULE RoutineServiceProofs ------------------------
(***************************************************************************)
(* Proofs about RoutineService, for any routines, schedules, Bots and any  *)
(* horizon: the types, that every slot has its one run, that a run says    *)
(* what became of its turn, and that a Bot has one turn at a time.         *)
(***************************************************************************)
EXTENDS RoutineService, TLAPS, FiniteSetTheorems

(***************************************************************************)
(* The inductive invariant.                                                *)
(***************************************************************************)

\* What is left of a run's turn: a routine that is gone or not yet made has no runs, a slot
\* that has no run has no turn, and a turn was asked for only under a message that is still
\* in the transcript, unless its Bot was deleted.
Traces ==
  \A k \in Key :
    /\ ~Exists(k[1]) => run[k] = "none"
    /\ routine[k[1]] # "gone" /\ run[k] = "none" => runtime[k] = "none"
    /\ routine[k[1]] # "gone" /\ k \notin message /\ BotOfKey(k) \notin deleted
         => runtime[k] = "none" /\ turns[k] = 0

\* What the tick may rely on: the runs it still has to see are as it read them, and from
\* the commit of a run's message to that of its runtime run nothing else happens to its Bot.
TickAt ==
  /\ app = "down" => at = "idle"
  /\ at = "reconcile" => \A k \in todo : run[k] = "running"
  /\ at \in {"dispatch", "start", "attach"} => \A k \in todo : run[k] \in {"queued", "waiting"}
  /\ at \in {"start", "attach"} =>
       \A k \in job : /\ run[k] \in {"queued", "waiting"}
                      /\ k \in message /\ BotOfKey(k) \notin deleted
                      /\ job = {k}
  /\ at = "start" =>
       \A k \in job : turns[k] = 0 /\ runtime[k] = "none" /\ ~Busy(BotOfKey(k))
  /\ at = "attach" => \A k \in job : runtime[k] = "active"

\* A Bot's conversation has one active run, and none during a turn of the user.
OneAtATime ==
  \A k \in Key : runtime[k] = "active" =>
    /\ BotOfKey(k) \notin userTurn
    /\ \A j \in Key : runtime[j] = "active" /\ BotOfKey(j) = BotOfKey(k) => j = k

\* Why no crash makes a slot fire twice, or none, and why a run never disagrees with the turn
\* it stands for.
Inv ==
  /\ TypeOK
  /\ Traces
  /\ TickAt
  /\ OneAtATime
  /\ SlotsFireOnce
  /\ RunTellsRuntime

(***************************************************************************)
(* Lookups.                                                                *)
(***************************************************************************)

\* A set of slots has a first one.
LEMMA LeastExists ==
  ASSUME NEW S \in SUBSET Nat, S # {}
  PROVE  Min(S) \in S /\ \A x \in S : Min(S) <= x
<1> DEFINE R == {ss \in Nat \X Nat : ss[1] < ss[2]}
<1>1. PICK x \in S : \A y \in S : <<y, x>> \notin R
  <2>1. R = OpToRel(<, Nat)
    BY Zenon DEF OpToRel
  <2>2. IsWellFoundedOn(R, Nat)
    BY <2>1, NatLessThanWellFounded
  <2> HIDE DEF R
  <2> QED BY <2>2, WFMin
<1>2. ASSUME NEW y \in S
      PROVE  x <= y
  <2>1. x \in Nat /\ y \in Nat
    OBVIOUS
  <2>2. <<y, x>> \notin {ss \in Nat \X Nat : ss[1] < ss[2]}
    BY <1>1
  <2>3. ~(y < x)
    BY <2>1, <2>2
  <2> QED BY <2>1, <2>3
<1> QED BY <1>1, <1>2 DEF Min

\* nextRun: a slot ahead, or none; and it passes over none.
LEMMA NextSlot ==
  ASSUME NEW s \in Schedules, NEW t \in 0..Horizon
  PROVE  /\ NextRun(s, t) \in Never..Later
         /\ NextRun(s, t) # Never => NextRun(s, t) > t
         /\ \A u \in s.slots : t < u => NextRun(s, t) <= u
<1> DEFINE ahead == {u \in s.slots : u > t}
<1>1. s.slots \subseteq Slot /\ Horizon \in Nat
  BY RoutineAssumptions
<1>2. CASE ahead = {}
  BY <1>1, <1>2 DEF NextRun, Never, Later
<1>3. CASE ahead # {}
  <2>1. NextRun(s, t) = Min(ahead)
    BY <1>3 DEF NextRun
  <2>2. Min(ahead) \in ahead /\ \A u \in ahead : Min(ahead) <= u
    BY <1>1, <1>3, LeastExists DEF Slot
  <2> QED BY <1>1, <2>1, <2>2 DEF Slot, Never, Later
<1> QED BY <1>2, <1>3

\* The next slot that a routine owes.
LEMMA OwedSlot ==
  ASSUME TypeOK
  PROVE  /\ \A s \in Schedules : NextRun(s, clock) \in Never..Later
         /\ \A r \in Routine : next[r] <= clock => Following(r) \in Never..Later
<1>1. clock \in 0..Horizon /\ Horizon \in Nat
  BY RoutineAssumptions DEF TypeOK
<1>2. ASSUME NEW r \in Routine, next[r] <= clock
      PROVE  schedule[r] \in Schedules /\ next[r] \in 0..Horizon
  BY <1>1, <1>2 DEF TypeOK, Never, Later
<1> QED BY <1>1, <1>2, NextSlot DEF Following

\* What the assumptions say, part by part.
LEMMA Bounds ==
  /\ Routines \in Nat /\ Horizon \in Nat /\ MissedAfter \in Nat /\ UserTurns \in Nat
  /\ \A k \in Key : BotOfKey(k) \in Bot
  /\ Manual \subseteq Routine /\ Deletable \subseteq Bot
  /\ Never \in Never..Later
BY RoutineAssumptions DEF Key, BotOfKey, Never, Later

\* The trigger keys of a manual run and of a due slot.
LEMMA Keys ==
  ASSUME TypeOK, NEW r \in Routine
  PROVE  /\ <<r, 0>> \in Key
         /\ Due(r) => <<r, next[r]>> \in Key /\ next[r] <= clock
<1>1. clock \in 0..Horizon /\ Horizon \in Nat
  BY RoutineAssumptions DEF TypeOK
<1> QED BY <1>1 DEF Key, Due

\* A queue of one job has one job.
LEMMA JobIsOne ==
  /\ Cardinality({}) = 0
  /\ \A k : Cardinality({k}) = 1
BY FS_EmptySet, FS_Singleton

\* A schedule that is switched on, off or edited keeps the types.
LEMMA OwesTypes ==
  ASSUME TypeOK, NEW r \in Routine, NEW s \in Schedules, NEW on \in BOOLEAN, Owes(r, s, on)
  PROVE  /\ schedule' \in [Routine -> Schedules]
         /\ next' \in [Routine -> Never..Later]
         /\ since' \in [Routine -> Never..Later]
         /\ next'[r] = since'[r]
         /\ \A q \in Routine \ {r} :
              schedule'[q] = schedule[q] /\ next'[q] = next[q] /\ since'[q] = since[q]
<1> DEFINE n == IF on THEN NextRun(s, clock) ELSE Never
<1>1. n \in Never..Later
  BY OwedSlot, Bounds
<1>2. /\ schedule' = [schedule EXCEPT ![r] = s]
      /\ next' = [next EXCEPT ![r] = n]
      /\ since' = [since EXCEPT ![r] = n]
  BY DEF Owes
<1> HIDE DEF n
<1> QED BY <1>1, <1>2 DEF TypeOK

\* Types.
LEMMA TypesKept ==
  ASSUME Inv, [Next]_vars
  PROVE  TypeOK'
<1> USE DEF Inv, TypeOK, disk, tick, Idle, Pending, Done, RuntimeEnded, Abandon, Handled
<1>1. CASE UNCHANGED vars
  BY <1>1 DEF vars
<1>2. CASE TimePasses
  BY <1>2, Bounds DEF TimePasses
<1>3. ASSUME NEW b \in Bot, UserSends(b)
      PROVE  TypeOK'
  BY <1>3, Bounds DEF UserSends
<1>4. ASSUME NEW b \in Bot, UserTurnEnds(b)
      PROVE  TypeOK'
  BY <1>4 DEF UserTurnEnds
<1>5. ASSUME NEW k \in Key, RuntimeEnds(k)
      PROVE  TypeOK'
  BY <1>5 DEF RuntimeEnds
<1>6. ASSUME NEW b \in Bot, DeleteBot(b)
      PROVE  TypeOK'
  BY <1>6 DEF DeleteBot
<1>7. ASSUME NEW r \in Routine, Create(r)
      PROVE  TypeOK'
  BY <1>7, OwesTypes DEF Create
<1>8. ASSUME NEW r \in Routine, SetEnabled(r)
      PROVE  TypeOK'
  BY <1>8, OwesTypes DEF SetEnabled
<1>9. ASSUME NEW r \in Routine, Update(r)
      PROVE  TypeOK'
  BY <1>9, OwesTypes DEF Update
<1>10. ASSUME NEW r \in Routine, Delete(r)
      PROVE  TypeOK'
  BY <1>10, Bounds DEF Delete
<1>11. ASSUME NEW r \in Routine, RunNow(r)
      PROVE  TypeOK'
  BY <1>11, Bounds, Keys DEF RunNow, CreateRun
<1>12. CASE TickBegins
  BY <1>12 DEF TickBegins
<1>13. ASSUME NEW k \in Key, Reconcile(k)
      PROVE  TypeOK'
  BY <1>13 DEF Reconcile, Settled
<1>14. CASE Reconciled
  BY <1>14, Bounds DEF Reconciled
<1>15. CASE Advance
  <2>1. CASE ~Due(pos)
    BY <1>15, <2>1, Bounds DEF Advance, Routine
  <2>2. CASE Due(pos) /\ ~Conflict(pos)
    <3>1. <<pos, next[pos]>> \in Key /\ Following(pos) \in Never..Later
      BY <1>15, <2>2, Keys, OwedSlot DEF Advance
    <3>2. pos \in Routine /\ pos + 1 \in 1..Routines + 1
      BY <1>15, Bounds DEF Advance, Routine
    <3> QED BY <1>15, <2>2, <3>1, <3>2 DEF Advance, CreateRun
  <2>3. CASE Due(pos) /\ Conflict(pos)
    <3>1. Abandon /\ UNCHANGED <<routine, schedule, next, run, message, runtime, deleted, userTurn,
                                  userTurns, clock, app, since, turns>>
      BY <1>15, <2>3 DEF Advance
    <3> QED BY <3>1, Bounds, JobIsOne
  <2> QED BY <2>1, <2>2, <2>3
<1>16. CASE Advanced
  BY <1>16, Bounds DEF Advanced
<1>17. ASSUME NEW k \in Key, NoSession(k)
      PROVE  TypeOK'
  BY <1>17, Bounds, JobIsOne DEF NoSession
<1>18. ASSUME NEW k \in Key, Dispatch(k)
      PROVE  TypeOK'
  <2>1. CASE job' = {}
    BY <1>18, <2>1, JobIsOne DEF Dispatch, Prepare
  <2>2. CASE job' = {k}
    <3>1. run' = run \/ run' = [run EXCEPT ![k] = "failed"] \/ run' = [run EXCEPT ![k] = "waiting"]
                     \/ run' = [run EXCEPT ![k] = "running"]
      BY <1>18 DEF Dispatch, Prepare
    <3>2. message' \subseteq Key /\ todo' \subseteq Key /\ at' \in {"dispatch", "start"}
      BY <1>18 DEF Dispatch, Prepare
    <3>3. UNCHANGED <<routine, schedule, next, runtime, deleted, userTurn, userTurns, clock, app,
            pos,
                      since, turns>>
      BY <1>18 DEF Dispatch
    <3>4. job' \subseteq Key /\ Cardinality(job') <= 1
      <4>1. Cardinality({k}) = 1
        BY JobIsOne
      <4> QED BY <2>2, <4>1
    <3> QED BY <3>1, <3>2, <3>3, <3>4
  <2> QED BY <1>18, <2>1, <2>2 DEF Dispatch, Prepare
<1>19. ASSUME NEW k \in Key, StartRun(k)
      PROVE  TypeOK'
  <2>1. turns[k] = 0
    BY <1>19 DEF StartRun, TickAt
  <2> QED BY <1>19, <2>1, JobIsOne DEF StartRun
<1>20. ASSUME NEW k \in Key, Attach(k)
      PROVE  TypeOK'
  BY <1>20, JobIsOne DEF Attach
<1>21. CASE Dispatched
  BY <1>21, Bounds, JobIsOne DEF Dispatched
<1>22. CASE BeginShutdown
  BY <1>22 DEF BeginShutdown
<1>23. CASE Stop
  BY <1>23, Bounds, JobIsOne DEF Stop
<1>24. CASE Boot
  BY <1>24 DEF Boot
<1> QED BY <1>1, <1>2, <1>3, <1>4, <1>5, <1>6, <1>7, <1>8, <1>9, <1>10, <1>11, <1>12, <1>13,
     <1>14, <1>15, <1>16, <1>17, <1>18, <1>19, <1>20, <1>21, <1>22, <1>23, <1>24
  DEF Next, TickStep, User

\* A slot of a routine has its trigger key.
LEMMA SlotKeys ==
  ASSUME NEW r \in Routine, NEW s \in Schedules, NEW u \in s.slots
  PROVE  u \in Nat /\ <<r, u>> \in Key
<1>1. u \in 1..Horizon /\ Horizon \in Nat
  BY RoutineAssumptions DEF Slot
<1> QED BY <1>1 DEF Key

\* advanceRoutineAndCreateRun either writes nothing or makes the run of the slot that was due.
LEMMA AdvanceCreates ==
  ASSUME TypeOK, Advance
  PROVE  \/ UNCHANGED <<routine, next, run>>
         \/ /\ pos \in Routine /\ routine[pos] = "on" /\ next[pos] <= clock
            /\ <<pos, next[pos]>> \in Key /\ run[<<pos, next[pos]>>] = "none"
            /\ \E state \in {"missed", "queued"} :
                 run' = [run EXCEPT ![<<pos, next[pos]>>] = state]
            /\ next' = [next EXCEPT ![pos] = Following(pos)]
            /\ \E state \in {"off", "on"} : routine' = [routine EXCEPT ![pos] = state]
<1>1. CASE Due(pos) /\ ~Conflict(pos)
  <2>1. pos \in Routine /\ routine[pos] = "on" /\ run[<<pos, next[pos]>>] = "none"
    BY <1>1 DEF Advance, Due, Conflict
  <2>2. <<pos, next[pos]>> \in Key /\ next[pos] <= clock
    BY <1>1, <2>1, Keys
  <2>3. \E state \in {"off", "on"} : routine' = [routine EXCEPT ![pos] = state]
    BY <1>1, <2>1 DEF Advance, TypeOK
  <2>4. /\ next' = [next EXCEPT ![pos] = Following(pos)]
        /\ \E state \in {"missed", "queued"} :
             run' = [run EXCEPT ![<<pos, next[pos]>>] = state]
    BY <1>1 DEF Advance, CreateRun
  <2> QED BY <2>1, <2>2, <2>3, <2>4
<1>2. CASE ~(Due(pos) /\ ~Conflict(pos))
  BY <1>2 DEF Advance
<1> QED BY <1>1, <1>2

\* What is left of a turn is found again.
LEMMA TracesKept ==
  ASSUME Inv, [Next]_vars
  PROVE  Traces'
<1> USE DEF Inv, TypeOK, Traces, disk, tick, Idle, Exists, Pending, Done, RuntimeEnded,
            Abandon, Handled, BotOfKey, Owes, TickAt, RunTellsRuntime
<1>1. CASE UNCHANGED vars
  BY <1>1 DEF vars
<1>2. CASE TimePasses
  BY <1>2 DEF TimePasses
<1>3. ASSUME NEW b \in Bot, UserSends(b)
      PROVE  Traces'
  BY <1>3 DEF UserSends
<1>4. ASSUME NEW b \in Bot, UserTurnEnds(b)
      PROVE  Traces'
  BY <1>4 DEF UserTurnEnds
<1>5. ASSUME NEW k \in Key, RuntimeEnds(k)
      PROVE  Traces'
  BY <1>5 DEF RuntimeEnds
<1>6. ASSUME NEW b \in Bot, DeleteBot(b)
      PROVE  Traces'
  BY <1>6 DEF DeleteBot
<1>7. ASSUME NEW r \in Routine, Create(r)
      PROVE  Traces'
  BY <1>7, OwesTypes DEF Create
<1>8. ASSUME NEW r \in Routine, SetEnabled(r)
      PROVE  Traces'
  BY <1>8 DEF SetEnabled
<1>9. ASSUME NEW r \in Routine, Update(r)
      PROVE  Traces'
  BY <1>9 DEF Update
<1>10. ASSUME NEW r \in Routine, Delete(r)
      PROVE  Traces'
  BY <1>10 DEF Delete
<1>11. ASSUME NEW r \in Routine, RunNow(r)
      PROVE  Traces'
  BY <1>11, Keys DEF RunNow, CreateRun
<1>12. CASE TickBegins
  BY <1>12 DEF TickBegins
<1>13. ASSUME NEW k \in Key, Reconcile(k)
      PROVE  Traces'
  BY <1>13 DEF Reconcile, Settled
<1>14. CASE Reconciled
  BY <1>14 DEF Reconciled
<1>15. CASE Advance
  <2>1. UNCHANGED <<message, runtime, deleted, turns, userTurn, schedule, since>>
    BY <1>15 DEF Advance
  <2>2. CASE UNCHANGED <<routine, next, run>>
    BY <2>1, <2>2
  <2>3. CASE ~UNCHANGED <<routine, next, run>>
    <3>1. \A r \in Routine :
            /\ routine'[r] \in {"off", "on"} <=> routine[r] \in {"off", "on"}
            /\ routine'[r] = "gone" <=> routine[r] = "gone"
      BY <1>15, <2>3, AdvanceCreates
    <3>2. \A k \in Key :
            /\ run'[k] = "none" => run[k] = "none"
            /\ routine[k[1]] \notin {"off", "on"} => run'[k] = run[k]
      BY <1>15, <2>3, AdvanceCreates
    <3>3. \A k \in Key : k[1] \in Routine
      BY DEF Key
    <3> QED BY <2>1, <3>1, <3>2, <3>3
  <2> QED BY <2>2, <2>3
<1>16. CASE Advanced
  BY <1>16 DEF Advanced
<1>17. ASSUME NEW k \in Key, NoSession(k)
      PROVE  Traces'
  BY <1>17 DEF NoSession
<1>18. ASSUME NEW k \in Key, Dispatch(k)
      PROVE  Traces'
  BY <1>18 DEF Dispatch, Prepare, IsFirst
<1>19. ASSUME NEW k \in Key, StartRun(k)
      PROVE  Traces'
  BY <1>19 DEF StartRun
<1>20. ASSUME NEW k \in Key, Attach(k)
      PROVE  Traces'
  BY <1>20 DEF Attach
<1>21. CASE Dispatched
  BY <1>21 DEF Dispatched
<1>22. CASE BeginShutdown
  BY <1>22 DEF BeginShutdown
<1>23. CASE Stop
  BY <1>23 DEF Stop
<1>24. CASE Boot
  BY <1>24 DEF Boot
<1> QED BY <1>1, <1>2, <1>3, <1>4, <1>5, <1>6, <1>7, <1>8, <1>9, <1>10, <1>11, <1>12, <1>13,
     <1>14, <1>15, <1>16, <1>17, <1>18, <1>19, <1>20, <1>21, <1>22, <1>23, <1>24
  DEF Next, TickStep, User

\* Each loop of the tick finds what it read.
LEMMA TickKept ==
  ASSUME Inv, [Next]_vars
  PROVE  TickAt'
<1> USE DEF Inv, TypeOK, Traces, disk, tick, Idle, Exists, Pending, Done, RuntimeEnded,
            Abandon, Handled, BotOfKey, TickAt, Busy, RunTellsRuntime
<1>1. CASE UNCHANGED vars
  BY <1>1 DEF vars
<1>2. CASE TimePasses
  BY <1>2 DEF TimePasses
<1>3. ASSUME NEW b \in Bot, UserSends(b)
      PROVE  TickAt'
  BY <1>3 DEF UserSends
<1>4. ASSUME NEW b \in Bot, UserTurnEnds(b)
      PROVE  TickAt'
  BY <1>4 DEF UserTurnEnds
<1>5. ASSUME NEW k \in Key, RuntimeEnds(k)
      PROVE  TickAt'
  BY <1>5 DEF RuntimeEnds
<1>6. ASSUME NEW b \in Bot, DeleteBot(b)
      PROVE  TickAt'
  BY <1>6 DEF DeleteBot
<1>7. ASSUME NEW r \in Routine, Create(r)
      PROVE  TickAt'
  BY <1>7, OwesTypes DEF Create
<1>8. ASSUME NEW r \in Routine, SetEnabled(r)
      PROVE  TickAt'
  BY <1>8 DEF SetEnabled
<1>9. ASSUME NEW r \in Routine, Update(r)
      PROVE  TickAt'
  BY <1>9 DEF Update
<1>10. ASSUME NEW r \in Routine, Delete(r)
      PROVE  TickAt'
  BY <1>10 DEF Delete
<1>11. ASSUME NEW r \in Routine, RunNow(r)
      PROVE  TickAt'
  <2>1. <<r, 0>> \in Key
    BY Keys
  <2>2. /\ run'[<<r, 0>>] = "queued" /\ todo' = {<<r, 0>>}
        /\ at' = "dispatch" /\ app # "down" /\ app' = app
    BY <1>11, <2>1 DEF RunNow, CreateRun
  <2> QED BY <2>2
<1>12. CASE TickBegins
  BY <1>12 DEF TickBegins
<1>13. ASSUME NEW k \in Key, Reconcile(k)
      PROVE  TickAt'
  BY <1>13 DEF Reconcile, Settled
<1>14. CASE Reconciled
  BY <1>14 DEF Reconciled
<1>15. CASE Advance
  BY <1>15, Keys DEF Advance, CreateRun
<1>16. CASE Advanced
  BY <1>16 DEF Advanced
<1>17. ASSUME NEW k \in Key, NoSession(k)
      PROVE  TickAt'
  BY <1>17 DEF NoSession
<1>18. ASSUME NEW k \in Key, Dispatch(k)
      PROVE  TickAt'
  BY <1>18 DEF Dispatch, Prepare, IsFirst
<1>19. ASSUME NEW k \in Key, StartRun(k)
      PROVE  TickAt'
  BY <1>19 DEF StartRun
<1>20. ASSUME NEW k \in Key, Attach(k)
      PROVE  TickAt'
  BY <1>20 DEF Attach
<1>21. CASE Dispatched
  BY <1>21 DEF Dispatched
<1>22. CASE BeginShutdown
  BY <1>22 DEF BeginShutdown
<1>23. CASE Stop
  BY <1>23 DEF Stop
<1>24. CASE Boot
  BY <1>24 DEF Boot
<1> QED BY <1>1, <1>2, <1>3, <1>4, <1>5, <1>6, <1>7, <1>8, <1>9, <1>10, <1>11, <1>12, <1>13,
     <1>14, <1>15, <1>16, <1>17, <1>18, <1>19, <1>20, <1>21, <1>22, <1>23, <1>24
  DEF Next, TickStep, User

\* A turn starts in a conversation that is not busy, and nothing comes between.
LEMMA OneKept ==
  ASSUME Inv, [Next]_vars
  PROVE  OneAtATime'
<1> USE DEF Inv, TypeOK, Traces, disk, tick, Idle, Exists, Pending, Done, RuntimeEnded,
            Abandon, Handled, BotOfKey, TickAt, Busy, OneAtATime
<1>1. CASE UNCHANGED vars
  BY <1>1 DEF vars
<1>2. CASE TimePasses
  BY <1>2 DEF TimePasses
<1>3. ASSUME NEW b \in Bot, UserSends(b)
      PROVE  OneAtATime'
  BY <1>3 DEF UserSends
<1>4. ASSUME NEW b \in Bot, UserTurnEnds(b)
      PROVE  OneAtATime'
  BY <1>4 DEF UserTurnEnds
<1>5. ASSUME NEW k \in Key, RuntimeEnds(k)
      PROVE  OneAtATime'
  BY <1>5 DEF RuntimeEnds
<1>6. ASSUME NEW b \in Bot, DeleteBot(b)
      PROVE  OneAtATime'
  BY <1>6 DEF DeleteBot
<1>7. ASSUME NEW r \in Routine, Create(r)
      PROVE  OneAtATime'
  BY <1>7, OwesTypes DEF Create
<1>8. ASSUME NEW r \in Routine, SetEnabled(r)
      PROVE  OneAtATime'
  BY <1>8 DEF SetEnabled
<1>9. ASSUME NEW r \in Routine, Update(r)
      PROVE  OneAtATime'
  BY <1>9 DEF Update
<1>10. ASSUME NEW r \in Routine, Delete(r)
      PROVE  OneAtATime'
  BY <1>10 DEF Delete
<1>11. ASSUME NEW r \in Routine, RunNow(r)
      PROVE  OneAtATime'
  BY <1>11, Keys DEF RunNow, CreateRun
<1>12. CASE TickBegins
  BY <1>12 DEF TickBegins
<1>13. ASSUME NEW k \in Key, Reconcile(k)
      PROVE  OneAtATime'
  BY <1>13 DEF Reconcile, Settled
<1>14. CASE Reconciled
  BY <1>14 DEF Reconciled
<1>15. CASE Advance
  BY <1>15, Keys DEF Advance, CreateRun
<1>16. CASE Advanced
  BY <1>16 DEF Advanced
<1>17. ASSUME NEW k \in Key, NoSession(k)
      PROVE  OneAtATime'
  BY <1>17 DEF NoSession
<1>18. ASSUME NEW k \in Key, Dispatch(k)
      PROVE  OneAtATime'
  BY <1>18 DEF Dispatch, Prepare
<1>19. ASSUME NEW k \in Key, StartRun(k)
      PROVE  OneAtATime'
  BY <1>19 DEF StartRun
<1>20. ASSUME NEW k \in Key, Attach(k)
      PROVE  OneAtATime'
  BY <1>20 DEF Attach
<1>21. CASE Dispatched
  BY <1>21 DEF Dispatched
<1>22. CASE BeginShutdown
  BY <1>22 DEF BeginShutdown
<1>23. CASE Stop
  BY <1>23 DEF Stop
<1>24. CASE Boot
  BY <1>24 DEF Boot
<1> QED BY <1>1, <1>2, <1>3, <1>4, <1>5, <1>6, <1>7, <1>8, <1>9, <1>10, <1>11, <1>12, <1>13,
     <1>14, <1>15, <1>16, <1>17, <1>18, <1>19, <1>20, <1>21, <1>22, <1>23, <1>24
  DEF Next, TickStep, User

\* A turn is asked for once.
LEMMA FiredKept ==
  ASSUME Inv, [Next]_vars
  PROVE  FiredOnce'
<1> USE DEF Inv, TypeOK, Traces, disk, tick, Idle, Exists, Pending, Done, RuntimeEnded,
            Abandon, Handled, BotOfKey, TickAt, SlotsFireOnce, FiredOnce
<1>1. CASE UNCHANGED vars
  BY <1>1 DEF vars
<1>2. CASE TimePasses
  BY <1>2 DEF TimePasses
<1>3. ASSUME NEW b \in Bot, UserSends(b)
      PROVE  FiredOnce'
  BY <1>3 DEF UserSends
<1>4. ASSUME NEW b \in Bot, UserTurnEnds(b)
      PROVE  FiredOnce'
  BY <1>4 DEF UserTurnEnds
<1>5. ASSUME NEW k \in Key, RuntimeEnds(k)
      PROVE  FiredOnce'
  BY <1>5 DEF RuntimeEnds
<1>6. ASSUME NEW b \in Bot, DeleteBot(b)
      PROVE  FiredOnce'
  BY <1>6 DEF DeleteBot
<1>7. ASSUME NEW r \in Routine, Create(r)
      PROVE  FiredOnce'
  BY <1>7, OwesTypes DEF Create
<1>8. ASSUME NEW r \in Routine, SetEnabled(r)
      PROVE  FiredOnce'
  BY <1>8 DEF SetEnabled
<1>9. ASSUME NEW r \in Routine, Update(r)
      PROVE  FiredOnce'
  BY <1>9 DEF Update
<1>10. ASSUME NEW r \in Routine, Delete(r)
      PROVE  FiredOnce'
  BY <1>10 DEF Delete
<1>11. ASSUME NEW r \in Routine, RunNow(r)
      PROVE  FiredOnce'
  BY <1>11, Keys DEF RunNow, CreateRun
<1>12. CASE TickBegins
  BY <1>12 DEF TickBegins
<1>13. ASSUME NEW k \in Key, Reconcile(k)
      PROVE  FiredOnce'
  BY <1>13 DEF Reconcile, Settled
<1>14. CASE Reconciled
  BY <1>14 DEF Reconciled
<1>15. CASE Advance
  BY <1>15, Keys DEF Advance, CreateRun
<1>16. CASE Advanced
  BY <1>16 DEF Advanced
<1>17. ASSUME NEW k \in Key, NoSession(k)
      PROVE  FiredOnce'
  BY <1>17 DEF NoSession
<1>18. ASSUME NEW k \in Key, Dispatch(k)
      PROVE  FiredOnce'
  BY <1>18 DEF Dispatch, Prepare
<1>19. ASSUME NEW k \in Key, StartRun(k)
      PROVE  FiredOnce'
  BY <1>19 DEF StartRun
<1>20. ASSUME NEW k \in Key, Attach(k)
      PROVE  FiredOnce'
  BY <1>20 DEF Attach
<1>21. CASE Dispatched
  BY <1>21 DEF Dispatched
<1>22. CASE BeginShutdown
  BY <1>22 DEF BeginShutdown
<1>23. CASE Stop
  BY <1>23 DEF Stop
<1>24. CASE Boot
  BY <1>24 DEF Boot
<1> QED BY <1>1, <1>2, <1>3, <1>4, <1>5, <1>6, <1>7, <1>8, <1>9, <1>10, <1>11, <1>12, <1>13,
     <1>14, <1>15, <1>16, <1>17, <1>18, <1>19, <1>20, <1>21, <1>22, <1>23, <1>24
  DEF Next, TickStep, User

\* A run follows its turn.
LEMMA TellsKept ==
  ASSUME Inv, [Next]_vars
  PROVE  RunTellsRuntime'
<1> USE DEF Inv, TypeOK, Traces, disk, tick, Idle, Exists, Pending, Done, RuntimeEnded,
            Abandon, Handled, BotOfKey, TickAt, Busy, RunTellsRuntime, Exists
<1>1. CASE UNCHANGED vars
  BY <1>1 DEF vars
<1>2. CASE TimePasses
  BY <1>2 DEF TimePasses
<1>3. ASSUME NEW b \in Bot, UserSends(b)
      PROVE  RunTellsRuntime'
  BY <1>3 DEF UserSends
<1>4. ASSUME NEW b \in Bot, UserTurnEnds(b)
      PROVE  RunTellsRuntime'
  BY <1>4 DEF UserTurnEnds
<1>5. ASSUME NEW k \in Key, RuntimeEnds(k)
      PROVE  RunTellsRuntime'
  BY <1>5 DEF RuntimeEnds
<1>6. ASSUME NEW b \in Bot, DeleteBot(b)
      PROVE  RunTellsRuntime'
  BY <1>6 DEF DeleteBot
<1>7. ASSUME NEW r \in Routine, Create(r)
      PROVE  RunTellsRuntime'
  BY <1>7, OwesTypes DEF Create
<1>8. ASSUME NEW r \in Routine, SetEnabled(r)
      PROVE  RunTellsRuntime'
  BY <1>8 DEF SetEnabled
<1>9. ASSUME NEW r \in Routine, Update(r)
      PROVE  RunTellsRuntime'
  BY <1>9 DEF Update
<1>10. ASSUME NEW r \in Routine, Delete(r)
      PROVE  RunTellsRuntime'
  BY <1>10 DEF Delete
<1>11. ASSUME NEW r \in Routine, RunNow(r)
      PROVE  RunTellsRuntime'
  BY <1>11, Keys DEF RunNow, CreateRun
<1>12. CASE TickBegins
  BY <1>12 DEF TickBegins
<1>13. ASSUME NEW k \in Key, Reconcile(k)
      PROVE  RunTellsRuntime'
  BY <1>13 DEF Reconcile, Settled
<1>14. CASE Reconciled
  BY <1>14 DEF Reconciled
<1>15. CASE Advance
  <2>1. UNCHANGED runtime
    BY <1>15 DEF Advance
  <2>2. CASE UNCHANGED <<routine, next, run>>
    BY <2>1, <2>2
  <2>3. CASE ~UNCHANGED <<routine, next, run>>
    BY <1>15, <2>1, <2>3, AdvanceCreates
  <2> QED BY <2>2, <2>3
<1>16. CASE Advanced
  BY <1>16 DEF Advanced
<1>17. ASSUME NEW k \in Key, NoSession(k)
      PROVE  RunTellsRuntime'
  BY <1>17 DEF NoSession
<1>18. ASSUME NEW k \in Key, Dispatch(k)
      PROVE  RunTellsRuntime'
  BY <1>18 DEF Dispatch, Prepare
<1>19. ASSUME NEW k \in Key, StartRun(k)
      PROVE  RunTellsRuntime'
  BY <1>19 DEF StartRun
<1>20. ASSUME NEW k \in Key, Attach(k)
      PROVE  RunTellsRuntime'
  BY <1>20 DEF Attach
<1>21. CASE Dispatched
  BY <1>21 DEF Dispatched
<1>22. CASE BeginShutdown
  BY <1>22 DEF BeginShutdown
<1>23. CASE Stop
  BY <1>23 DEF Stop
<1>24. CASE Boot
  BY <1>24 DEF Boot
<1> QED BY <1>1, <1>2, <1>3, <1>4, <1>5, <1>6, <1>7, <1>8, <1>9, <1>10, <1>11, <1>12, <1>13,
     <1>14, <1>15, <1>16, <1>17, <1>18, <1>19, <1>20, <1>21, <1>22, <1>23, <1>24
  DEF Next, TickStep, User

\* The next slot that is owed is the one after the last that has a run.
LEMMA SlotsKept ==
  ASSUME Inv, [Next]_vars
  PROVE  NoSlotLost'
<1> USE DEF Inv, TypeOK, SlotsFireOnce, disk, tick, Idle
<1> DEFINE Runs(r) == \A s \in schedule[r].slots : since[r] <= s /\ s < next[r] => run[<<r,
      s>>] # "none"
<1> SUFFICES ASSUME NEW q \in Routine, routine'[q] = "on"
             PROVE  Runs(q)'
  BY DEF NoSlotLost
<1>1. /\ \A s \in schedule[q].slots : s \in Nat /\ <<q, s>> \in Key
      /\ routine[q] = "on" => Runs(q)
  BY SlotKeys DEF NoSlotLost
<1>2. ASSUME NEW r \in Routine, Create(r) \/ SetEnabled(r) \/ Update(r)
      PROVE  Runs(q)'
  <2>1. PICK s \in Schedules, on \in BOOLEAN : Owes(r, s, on)
    BY <1>2 DEF Create, SetEnabled, Update
  <2>2. /\ next'[r] = since'[r] /\ next'[r] \in Never..Later
        /\ \A p \in Routine \ {r} : /\ schedule'[p] = schedule[p]
                                    /\ next'[p] = next[p] /\ since'[p] = since[p]
        /\ schedule'[r] \in Schedules
    BY <2>1, OwesTypes
  <2>3. run' = run /\ (q # r => routine[q] = "on")
    BY <1>2 DEF Create, SetEnabled, Update
  <2>4. CASE q = r
    <3>1. \A u \in schedule'[q].slots : u \in Nat
      BY <2>2, <2>4, SlotKeys
    <3> QED BY <2>2, <2>4, <3>1 DEF Never, Later
  <2> QED BY <1>1, <2>2, <2>3, <2>4
<1>3. ASSUME NEW r \in Routine, Delete(r)
      PROVE  Runs(q)'
  <2>1. q # r /\ routine[q] = "on" /\ UNCHANGED schedule
    BY <1>3 DEF Delete
  <2>2. next'[q] = next[q] /\ since'[q] = since[q]
    BY <1>3, <2>1 DEF Delete
  <2>3. \A k \in Key : k[1] = q => run'[k] = run[k]
    BY <1>3, <2>1 DEF Delete
  <2> QED BY <1>1, <2>1, <2>2, <2>3
<1>4. CASE Advance
  <2>1. UNCHANGED <<schedule, since>>
    BY <1>4 DEF Advance
  <2>2. CASE UNCHANGED <<routine, next, run>>
    BY <1>1, <2>1, <2>2
  <2>3. CASE ~UNCHANGED <<routine, next, run>>
    <3>1. /\ pos \in Routine /\ routine[pos] = "on" /\ next[pos] <= clock
          /\ <<pos, next[pos]>> \in Key
          /\ run'[<<pos, next[pos]>>] # "none"
          /\ \A k \in Key : run[k] # "none" => run'[k] # "none"
          /\ next' = [next EXCEPT ![pos] = Following(pos)]
          /\ q # pos => routine[q] = "on"
      BY <1>4, <2>3, AdvanceCreates
    <3>2. CASE q # pos
      BY <1>1, <2>1, <3>1, <3>2
    <3>3. CASE q = pos
      <4>1. next[q] \in 0..Horizon /\ schedule[q] \in Schedules
        BY <3>1, <3>3, RoutineAssumptions DEF Never, Later
      <4>2. \A u \in schedule[q].slots : next[q] < u => Following(q) <= u
        BY <4>1, NextSlot DEF Following
      <4>3. Following(q) \in Never..Later
        BY <4>1, NextSlot DEF Following
      <4>4. ASSUME NEW u \in schedule[q].slots, since[q] <= u, u < next'[q]
            PROVE  run'[<<q, u>>] # "none"
        <5>1. u \in Nat /\ next'[q] = Following(q)
          BY <1>1, <3>1, <3>3
        <5>2. ~(next[q] < u)
          <6>1. Following(q) \in Nat
            BY <4>3, Bounds DEF Never, Later
          <6> QED BY <4>2, <4>4, <5>1, <6>1
        <5>3. u = next[q] \/ u < next[q]
          BY <4>1, <5>1, <5>2
        <5> QED BY <1>1, <3>1, <3>3, <4>4, <5>3
      <4> QED BY <2>1, <4>4
    <3> QED BY <3>2, <3>3
  <2> QED BY <2>2, <2>3
<1>5. CASE /\ UNCHANGED <<routine, schedule, next, since>>
           /\ \A k \in Key : run[k] # "none" => run'[k] # "none"
  BY <1>1, <1>5
<1>6. CASE \/ UNCHANGED vars \/ TimePasses \/ TickBegins \/ Reconciled \/ Advanced \/ Dispatched
           \/ BeginShutdown \/ Stop \/ Boot
           \/ \E b \in Bot : UserSends(b) \/ UserTurnEnds(b) \/ DeleteBot(b)
           \/ \E k \in Key : NoSession(k) \/ RuntimeEnds(k)
  <2>1. UNCHANGED <<routine, schedule, next, since, run>>
    BY <1>6 DEF vars, TimePasses, TickBegins, Reconciled, Advanced, Dispatched, BeginShutdown, Stop,
                Boot, UserSends, UserTurnEnds, DeleteBot, NoSession, RuntimeEnds
  <2> QED BY <1>5, <2>1
<1>7. ASSUME NEW k \in Key, Reconcile(k) \/ Dispatch(k) \/ StartRun(k) \/ Attach(k)
      PROVE  Runs(q)'
  <2>1. UNCHANGED <<routine, schedule, next, since>>
    BY <1>7 DEF Reconcile, Dispatch, StartRun, Attach
  <2>2. run' = run \/ \E state \in Pending \cup Done : run' = [run EXCEPT ![k] = state]
    BY <1>7 DEF Reconcile, Settled, TickAt, Dispatch, Prepare, StartRun, Attach, Pending, Done,
                RuntimeEnded
  <2>3. \A j \in Key : run[j] # "none" => run'[j] # "none"
    BY <2>2 DEF Pending, Done
  <2> QED BY <1>5, <2>1, <2>3
<1>8. ASSUME NEW r \in Routine, RunNow(r)
      PROVE  Runs(q)'
  <2>1. UNCHANGED <<routine, schedule, next, since>>
    BY <1>8 DEF RunNow
  <2>2. run' = [run EXCEPT ![<<r, 0>>] = "queued"]
    BY <1>8 DEF RunNow, CreateRun
  <2> QED BY <1>5, <2>1, <2>2
<1> QED BY <1>2, <1>3, <1>4, <1>6, <1>7, <1>8 DEF Next, TickStep, User

\* The service starts in the invariant.
LEMMA InitInv == Init => Inv
<1> SUFFICES ASSUME Init
             PROVE  Inv
  OBVIOUS
<1> USE DEF Init, Exists
<1>1. TypeOK
  <2>1. 0 \in 0..Horizon /\ 0 \in 0..UserTurns /\ 1 \in 1..Routines + 1
    BY Bounds
  <2> QED BY <2>1, Bounds, JobIsOne DEF TypeOK
<1>2. Traces /\ TickAt /\ OneAtATime
  BY DEF Traces, TickAt, OneAtATime
<1>3. SlotsFireOnce /\ RunTellsRuntime
  BY DEF SlotsFireOnce, FiredOnce, NoSlotLost, RunTellsRuntime, Done
<1> QED BY <1>1, <1>2, <1>3 DEF Inv

\* No slot fires twice or never, no run disagrees with its turn, and no conversation has two
\* turns, in any behaviour of the routines.
THEOREM InvHolds == Spec => []Inv
<1>1. Init => Inv
  BY InitInv
<1>2. Inv /\ [Next]_vars => Inv'
  BY TypesKept, TracesKept, TickKept, OneKept, FiredKept, SlotsKept, TellsKept
  DEF Inv, SlotsFireOnce
<1> QED BY <1>1, <1>2, PTL DEF Spec

\* Every variable of the routines keeps its type.
THEOREM TypeCorrect == Spec => []TypeOK
<1>1. Inv => TypeOK
  BY DEF Inv
<1> QED BY <1>1, InvHolds, PTL

\* Every slot that a routine owes has its run or is still due, and the model is asked at most
\* once for a run, wherever a crash cuts the tick.
THEOREM SlotsFireExactlyOnce == Spec => []SlotsFireOnce
<1>1. Inv => SlotsFireOnce
  BY DEF Inv
<1> QED BY <1>1, InvHolds, PTL

\* A run that is over has no model at work, and says what became of it.
THEOREM RunsTellTheTruth == Spec => []RunTellsRuntime
<1>1. Inv => RunTellsRuntime
  BY DEF Inv
<1> QED BY <1>1, InvHolds, PTL

\* A Bot has one turn at a time, of a routine or of the user.
THEOREM BotsDoOneThing == Spec => []OneTurnPerBot
<1>1. Inv => OneTurnPerBot
  <2> SUFFICES ASSUME Inv, NEW b \in Bot
               PROVE  Cardinality({k \in Key : BotOfKey(k) = b /\ runtime[k] = "active"})
                        + (IF b \in userTurn THEN 1 ELSE 0) <= 1
    BY DEF OneTurnPerBot
  <2> DEFINE Turns == {k \in Key : BotOfKey(k) = b /\ runtime[k] = "active"}
  <2>1. CASE Turns = {}
    BY <2>1, JobIsOne
  <2>2. CASE Turns # {}
    <3>1. PICK k \in Key : BotOfKey(k) = b /\ runtime[k] = "active"
      BY <2>2
    <3>2. Turns = {k} /\ b \notin userTurn
      BY <3>1 DEF Inv, OneAtATime
    <3>3. Cardinality({k}) = 1
      BY JobIsOne
    <3> QED BY <3>2, <3>3
  <2> QED BY <2>1, <2>2
<1> QED BY <1>1, InvHolds, PTL
=============================================================================
