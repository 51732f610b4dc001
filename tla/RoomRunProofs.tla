--------------------------- MODULE RoomRunProofs ---------------------------
(***************************************************************************)
(* Proofs about RoomRun, for any number of Bots, turns, hops, targets,     *)
(* tasks, retries, crashes and edits of the Room.                          *)
(***************************************************************************)
EXTENDS RoomRun, TLAPS, FiniteSetTheorems, WellFoundedInduction

\* The turns of a batch are numbered without gaps, each after the one it comes from; the
\* other numbers are free.
Numbered ==
  /\ \E n \in 0..MaxTurns : Used = 1..n
  /\ \A i \in Turn \ Used : turn[i] = NoTurn
  /\ \A i \in Used : turn[i].from < i

\* What tells a turn that a Provider may have seen from one that has only been queued.
CutTells ==
  \A i \in Turn : /\ turn[i].state = "queued" => turn[i].run = "none"
                  /\ turn[i].state = "running" => turn[i].cut
                  /\ ~turn[i].cut => turn[i].run = "none"

\* Which turn is running, by where the handler is: one at most, and its run is what keeps the
\* Room busy.  After a crash the recovery finds it as it was.
NoneRunsAt == {"begin", "pick", "dispatch", "settleHandoff", "end", "runs"}
RunFeedsAt == {"idle", "cancel", "cancelQueued", "accept", "complete", "reject"}

RunningAt ==
  /\ \A i, j \in Running : i = j
  /\ app = "down" => at = "idle"
  /\ at \in NoneRunsAt \/ (at = "stop" /\ mem.back = "end") => Running = {} \/ app = "down"
  /\ at \in {"launch", "attach"} => Running # {} /\ \A i \in Running : turn[i].run = "none"
  /\ at = "settle" => \A i \in Running : turn[i].run \in Ended
  /\ at \in RunFeedsAt \/ (at = "stop" /\ mem.back = "idle") =>
       app \in {"draining", "down"} \/ \A i \in Running : RunActive(i)

\* A turn waits only in a batch that goes on; a handoff was dispatched for a turn that the
\* loop then begins.
QueuedAt ==
  /\ batch.state \notin Active => Queued = {}
  /\ at = "dispatch" => Frontier # {} /\ ~batch.winding

\* Every further attempt was counted.
TriesCounted == \A i \in Turn : turn[i].try <= used.retries + 1

Inv ==
  /\ TypeOK
  /\ TriesCounted
  /\ Numbered
  /\ CutTells
  /\ RunningAt
  /\ QueuedAt
  /\ MembershipFrozen
  /\ Bounded

----------------------------------------------------------------------------
(***************************************************************************)
(* Constants and records.                                                  *)
(***************************************************************************)

\* The assumptions in the form the provers use.
LEMMA Bounds ==
  /\ Bots \in Nat /\ MaxTurns \in Nat /\ MaxTurns > 0 /\ MaxHops \in Nat /\ MaxTargets \in Nat
  /\ Batches \in Nat /\ Retries \in Nat /\ Crashes \in Nat /\ Edits \in Nat
  /\ Turn \subseteq Nat /\ Try \subseteq Nat /\ Bot \subseteq Nat
  /\ None \notin Turn /\ None \notin Try /\ None \notin Bot
  /\ 1 \in Try /\ 0 \in 0..MaxHops /\ NoTask \notin Task
BY RoomAssumptions DEF Turn, Try, Bot, None

TurnStates == {"none"} \cup Active \cup Ended
RunStates == {"none"} \cup ActiveRun \cup Ended
HandoffStates == {"none", "queued", "dispatching", "accepted", "failed", "cancelled"}

\* What never changes in a turn: the Bot, and where its task came from.
SameShape(u, t) ==
  /\ u.bot = t.bot /\ u.from = t.from /\ u.fromTry = t.fromTry
  /\ u.hop = t.hop /\ u.task = t.task

\* Turn u is turn t with these changes.
Is(u, t, state, run, handoff, try, cut) ==
  /\ u \in TurnRecord /\ SameShape(u, t)
  /\ u.state = state /\ u.run = run /\ u.handoff = handoff /\ u.try = try /\ u.cut = cut

\* The parts of a turn.
LEMMA TurnParts ==
  ASSUME NEW t \in TurnRecord
  PROVE  /\ t.state \in TurnStates /\ t.run \in RunStates /\ t.handoff \in HandoffStates
         /\ t.try \in {None} \cup Try /\ t.cut \in BOOLEAN
         /\ t.bot \in Bot \cup {None} /\ t.from \in {None} \cup Turn
         /\ t.fromTry \in {None} \cup Try /\ t.hop \in 0..MaxHops /\ t.task \in Task \cup {NoTask}
         /\ Is(t, t, t.state, t.run, t.handoff, t.try, t.cut)
BY DEF TurnRecord, TurnStates, RunStates, HandoffStates, Is, SameShape

\* The changes that the actions make to a turn.
LEMMA TurnChanges ==
  ASSUME NEW t \in TurnRecord, NEW s \in TurnStates, NEW r \in RunStates,
         NEW h \in HandoffStates, NEW y \in {None} \cup Try
  PROVE  /\ Is([t EXCEPT !.state = s], t, s, t.run, t.handoff, t.try, t.cut)
         /\ Is([t EXCEPT !.run = r], t, t.state, r, t.handoff, t.try, t.cut)
         /\ Is([t EXCEPT !.handoff = h], t, t.state, t.run, h, t.try, t.cut)
         /\ Is([t EXCEPT !.state = s, !.cut = TRUE], t, s, t.run, t.handoff, t.try, TRUE)
         /\ Is([t EXCEPT !.try = y, !.state = s], t, s, t.run, t.handoff, y, t.cut)
         /\ Is([t EXCEPT !.try = y, !.state = s, !.run = r], t, s, r, t.handoff, y, t.cut)
         /\ Is([t EXCEPT !.handoff = h, !.run = r, !.state = s], t, s, r, h, t.try, t.cut)
<1> USE DEF TurnRecord, TurnStates, RunStates, HandoffStates, Is, SameShape
<1>1. Is([t EXCEPT !.state = s], t, s, t.run, t.handoff, t.try, t.cut)
  OBVIOUS
<1>2. Is([t EXCEPT !.run = r], t, t.state, r, t.handoff, t.try, t.cut)
  OBVIOUS
<1>3. Is([t EXCEPT !.handoff = h], t, t.state, t.run, h, t.try, t.cut)
  OBVIOUS
<1>4. Is([t EXCEPT !.state = s, !.cut = TRUE], t, s, t.run, t.handoff, t.try, TRUE)
  <2>1. [t EXCEPT !.state = s, !.cut = TRUE] \in TurnRecord
    OBVIOUS
  <2>2. SameShape([t EXCEPT !.state = s, !.cut = TRUE], t)
    OBVIOUS
  <2>3. Is([t EXCEPT !.state = s, !.cut = TRUE], t, [t EXCEPT !.state = s, !.cut = TRUE].state,
          [t EXCEPT !.state = s, !.cut = TRUE].run, [t EXCEPT !.state = s, !.cut = TRUE].handoff,
           [t EXCEPT !.state = s, !.cut = TRUE].try, [t EXCEPT !.state = s, !.cut = TRUE].cut)
    BY <2>1, <2>2, Zenon DEF Is
  <2> QED BY <2>3
<1>5. Is([t EXCEPT !.try = y, !.state = s], t, s, t.run, t.handoff, y, t.cut)
  <2>1. [t EXCEPT !.try = y, !.state = s] \in TurnRecord
    <3> DEFINE v == [t EXCEPT !.try = y]
    <3>1. v \in TurnRecord
      OBVIOUS
    <3>2. [t EXCEPT !.try = y, !.state = s] = [v EXCEPT !.state = s]
      OBVIOUS
    <3> HIDE DEF v
    <3>3. [v EXCEPT !.state = s] \in TurnRecord
      BY <3>1
    <3> QED BY <3>2, <3>3
  <2>2. SameShape([t EXCEPT !.try = y, !.state = s], t)
    OBVIOUS
  <2>3. Is([t EXCEPT !.try = y, !.state = s], t, [t EXCEPT !.try = y, !.state = s].state,
          [t EXCEPT !.try = y, !.state = s].run, [t EXCEPT !.try = y, !.state = s].handoff,
           [t EXCEPT !.try = y, !.state = s].try, [t EXCEPT !.try = y, !.state = s].cut)
    BY <2>1, <2>2, Zenon DEF Is
  <2> QED BY <2>3
<1>6. Is([t EXCEPT !.try = y, !.state = s, !.run = r], t, s, r, t.handoff, y, t.cut)
  <2>1. [t EXCEPT !.try = y, !.state = s, !.run = r] \in TurnRecord
    <3> DEFINE v == [t EXCEPT !.try = y, !.state = s]
    <3>1. v \in TurnRecord
      OBVIOUS
    <3>2. [t EXCEPT !.try = y, !.state = s, !.run = r] = [v EXCEPT !.run = r]
      OBVIOUS
    <3> HIDE DEF v
    <3>3. [v EXCEPT !.run = r] \in TurnRecord
      BY <3>1
    <3> QED BY <3>2, <3>3
  <2>2. SameShape([t EXCEPT !.try = y, !.state = s, !.run = r], t)
    OBVIOUS
  <2>3. Is([t EXCEPT !.try = y, !.state = s, !.run = r], t, [t EXCEPT !.try = y, !.state = s,
          !.run = r].state, [t EXCEPT !.try = y, !.state = s, !.run = r].run, [t EXCEPT !.try = y,
            !.state = s, !.run = r].handoff,
           [t EXCEPT !.try = y, !.state = s, !.run = r].try, [t EXCEPT !.try = y, !.state = s,
             !.run = r].cut)
    BY <2>1, <2>2, Zenon DEF Is
  <2> QED BY <2>3
<1>7. Is([t EXCEPT !.handoff = h, !.run = r, !.state = s], t, s, r, h, t.try, t.cut)
  <2>1. [t EXCEPT !.handoff = h, !.run = r, !.state = s] \in TurnRecord
    <3> DEFINE v == [t EXCEPT !.handoff = h]
               w == [v EXCEPT !.run = r]
    <3>1. v \in TurnRecord
      OBVIOUS
    <3>2. [t EXCEPT !.handoff = h, !.run = r, !.state = s] = [w EXCEPT !.state = s]
      OBVIOUS
    <3> HIDE DEF v
    <3>4. w \in TurnRecord
      BY <3>1
    <3> HIDE DEF w
    <3>3. [w EXCEPT !.state = s] \in TurnRecord
      BY <3>4
    <3> QED BY <3>2, <3>3
  <2>2. SameShape([t EXCEPT !.handoff = h, !.run = r, !.state = s], t)
    OBVIOUS
  <2>3. Is([t EXCEPT !.handoff = h, !.run = r, !.state = s], t, [t EXCEPT !.handoff = h, !.run = r,
          !.state = s].state, [t EXCEPT !.handoff = h, !.run = r, !.state = s].run,
            [t EXCEPT !.handoff = h, !.run = r, !.state = s].handoff,
           [t EXCEPT !.handoff = h, !.run = r, !.state = s].try, [t EXCEPT !.handoff = h, !.run = r,
             !.state = s].cut)
    BY <2>1, <2>2, Zenon DEF Is
  <2> QED BY <2>3
<1> QED BY <1>1, <1>2, <1>3, <1>4, <1>5, <1>6, <1>7

\* Turn i changes, and no other.
Changes(i, state, run, handoff, try, cut) ==
  /\ turn' \in [Turn -> TurnRecord]
  /\ Is(turn'[i], turn[i], state, run, handoff, try, cut)
  /\ \A j \in Turn \ {i} : turn'[j] = turn[j]

\* How the actions write it.
LEMMA OneTurn ==
  ASSUME turn \in [Turn -> TurnRecord], NEW i \in Turn, NEW s \in TurnStates, NEW r \in RunStates,
         NEW h \in HandoffStates, NEW y \in {None} \cup Try
  PROVE  LET t == turn[i] IN
         /\ turn' = [turn EXCEPT ![i].state = s] =>
              Changes(i, s, t.run, t.handoff, t.try, t.cut)
         /\ turn' = [turn EXCEPT ![i].run = r] =>
              Changes(i, t.state, r, t.handoff, t.try, t.cut)
         /\ turn' = [turn EXCEPT ![i].handoff = h] =>
              Changes(i, t.state, t.run, h, t.try, t.cut)
         /\ turn' = [turn EXCEPT ![i].state = s, ![i].cut = TRUE] =>
              Changes(i, s, t.run, t.handoff, t.try, TRUE)
         /\ turn' = [turn EXCEPT ![i].try = y, ![i].state = s, ![i].run = r] =>
              Changes(i, s, r, t.handoff, y, t.cut)
<1> DEFINE t == turn[i]
<1>1. t \in TurnRecord
  OBVIOUS
<1>2. ASSUME NEW u, turn' = [turn EXCEPT ![i] = u], NEW ss, NEW rr, NEW hh, NEW yy, NEW cc,
             Is(u, t, ss, rr, hh, yy, cc)
      PROVE  Changes(i, ss, rr, hh, yy, cc)
  <2>1. u \in TurnRecord
    BY <1>2 DEF Is
  <2> QED BY <1>2, <2>1 DEF Changes
<1>3. Is([t EXCEPT !.state = s], t, s, t.run, t.handoff, t.try, t.cut)
  BY <1>1, TurnChanges
<1>4. Is([t EXCEPT !.run = r], t, t.state, r, t.handoff, t.try, t.cut)
  BY <1>1, TurnChanges
<1>5. Is([t EXCEPT !.handoff = h], t, t.state, t.run, h, t.try, t.cut)
  BY <1>1, TurnChanges
<1>6. Is([t EXCEPT !.state = s, !.cut = TRUE], t, s, t.run, t.handoff, t.try, TRUE)
  BY <1>1, TurnChanges
<1>7. Is([t EXCEPT !.try = y, !.state = s, !.run = r], t, s, r, t.handoff, y, t.cut)
  BY <1>1, TurnChanges
<1>8. turn' = [turn EXCEPT ![i].state = s] => turn' = [turn EXCEPT ![i] = [t EXCEPT !.state = s]]
  OBVIOUS
<1>9. turn' = [turn EXCEPT ![i].run = r] => turn' = [turn EXCEPT ![i] = [t EXCEPT !.run = r]]
  OBVIOUS
<1>10. turn' = [turn EXCEPT ![i].handoff = h] =>
         turn' = [turn EXCEPT ![i] = [t EXCEPT !.handoff = h]]
  OBVIOUS
<1>11. turn' = [turn EXCEPT ![i].state = s, ![i].cut = TRUE] =>
         turn' = [turn EXCEPT ![i] = [t EXCEPT !.state = s, !.cut = TRUE]]
  OBVIOUS
<1>12. turn' = [turn EXCEPT ![i].try = y, ![i].state = s, ![i].run = r] =>
         turn' = [turn EXCEPT ![i] = [t EXCEPT !.try = y, !.state = s, !.run = r]]
  OBVIOUS
<1> HIDE DEF t
<1>13. turn' = [turn EXCEPT ![i].state = s] => Changes(i, s, t.run, t.handoff, t.try, t.cut)
  BY <1>2, <1>3, <1>8
<1>14. turn' = [turn EXCEPT ![i].run = r] => Changes(i, t.state, r, t.handoff, t.try, t.cut)
  BY <1>2, <1>4, <1>9
<1>15. turn' = [turn EXCEPT ![i].handoff = h] => Changes(i, t.state, t.run, h, t.try, t.cut)
  BY <1>2, <1>5, <1>10
<1>16. turn' = [turn EXCEPT ![i].state = s, ![i].cut = TRUE] =>
         Changes(i, s, t.run, t.handoff, t.try, TRUE)
  BY <1>2, <1>6, <1>11
<1>17. turn' = [turn EXCEPT ![i].try = y, ![i].state = s, ![i].run = r] =>
         Changes(i, s, r, t.handoff, y, t.cut)
  BY <1>2, <1>7, <1>12
<1> QED BY <1>13, <1>14, <1>15, <1>16, <1>17, Zenon DEF t

\* So does turn j, where an action goes through all turns.
Now(j, state, run, handoff, try, cut) == Is(turn'[j], turn[j], state, run, handoff, try, cut)

----------------------------------------------------------------------------
(***************************************************************************)
(* The turns after each action that writes them.                           *)
(***************************************************************************)

\* Numbers have a least one.
LEMMA LeastExists ==
  ASSUME NEW S \in SUBSET Nat, S # {}
  PROVE  Min(S) \in S /\ \A x \in S : Min(S) <= x
<1> DEFINE R == {ss \in Nat \X Nat : ss[1] < ss[2]}
<1>1. PICK x \in S : \A y \in S : <<y, x>> \notin R
  <2>1. R = OpToRel(<, Nat)
    BY Zenon DEF OpToRel
  <2>2. IsWellFoundedOn(R, Nat)
    BY <2>1, NatLessThanWellFounded
  <2> HIDE DEF R
  <2> QED BY <2>2, WFMin
<1>2. ASSUME NEW y \in S
      PROVE  x <= y
  <2>1. x \in Nat /\ y \in Nat
    OBVIOUS
  <2>2. <<y, x>> \notin {ss \in Nat \X Nat : ss[1] < ss[2]}
    BY <1>1
  <2>3. ~(y < x)
    BY <2>1, <2>2
  <2> QED BY <2>1, <2>3
<1> QED BY <1>1, <1>2 DEF Min

\* The loop begins a queued turn, and dispatches its handoff before.
LEMMA NextIsQueued ==
  ASSUME QueuedAt, NEW i \in Turn, DispatchHandoff(i) \/ BeginTurn(i)
  PROVE  Frontier # {} /\ i \in Frontier /\ i \in Queued /\ ~batch.winding
<1>1. Frontier # {} /\ i = Min(Frontier) /\ ~batch.winding
  BY DEF DispatchHandoff, BeginTurn, LoopGoesOn, Dispatchable, HardStop, QueuedAt
<1>2. Frontier \subseteq Queued /\ Queued \subseteq Turn /\ Turn \subseteq Nat
  BY Bounds DEF Frontier, Queued
<1>3. Frontier \in SUBSET Nat
  BY <1>2
<1>4. i \in Frontier
  BY <1>1, <1>3, LeastExists
<1> QED BY <1>1, <1>2, <1>4

\* The turns that these actions write have been made, and wait or work.
LEMMA ActingTurn ==
  ASSUME Inv, NEW i \in Turn
  PROVE  /\ DispatchHandoff(i) \/ BeginTurn(i) \/ CancelQueued(i) => turn[i].state = "queued"
         /\ Launch(i) \/ Attach(i) \/ ProviderStarts(i) \/ Complete(i) \/ Fail(i) =>
              turn[i].state = "running"
         /\ AcceptHandoff(i) \/ CancelHandoff(i) => turn[i].state # "none"
<1>1. DispatchHandoff(i) \/ BeginTurn(i) => turn[i].state = "queued"
  BY NextIsQueued DEF Inv, Queued
<1>2. CancelQueued(i) => turn[i].state = "queued"
  BY DEF CancelQueued, Queued
<1>3. Launch(i) \/ Attach(i) \/ ProviderStarts(i) \/ Complete(i) \/ Fail(i) => i \in Running
  BY DEF Launch, Attach, ProviderStarts, Awaits, Complete, Fail
<1>4. turn[i].state = "none" => turn[i].handoff = "none"
  <2>1. i \notin Used => turn[i] = NoTurn
    BY DEF Inv, Numbered
  <2>2. NoTurn.handoff = "none"
    BY DEF NoTurn
  <2> QED BY <2>1, <2>2 DEF Used
<1>5. AcceptHandoff(i) \/ CancelHandoff(i) => turn[i].handoff \in {"queued", "dispatching"}
  BY DEF AcceptHandoff, CancelHandoff, OpenHandoff
<1>6. AcceptHandoff(i) \/ CancelHandoff(i) => turn[i].state # "none"
  BY <1>4, <1>5
<1> QED BY <1>1, <1>2, <1>3, <1>6 DEF Running

\* The actions that write one turn.
LEMMA OneTurnSteps ==
  ASSUME Inv, NEW i \in Turn
  PROVE  LET t == turn[i] IN
         /\ DispatchHandoff(i) => Changes(i, "queued", t.run, "dispatching", t.try, t.cut)
         /\ BeginTurn(i) => Changes(i, "running", t.run, t.handoff, t.try, TRUE)
         /\ Launch(i) => \/ Changes(i, "failed", t.run, t.handoff, t.try, t.cut)
                         \/ UNCHANGED turn
         /\ Attach(i) => Changes(i, t.state, "created", t.handoff, t.try, t.cut)
         /\ ProviderStarts(i) => Changes(i, t.state, "started", t.handoff, t.try, t.cut)
         /\ AcceptHandoff(i) => Changes(i, t.state, t.run, "accepted", t.try, t.cut)
         /\ CancelHandoff(i) => Changes(i, t.state, t.run, "cancelled", t.try, t.cut)
         /\ CancelQueued(i) => Changes(i, "cancelled", t.run, t.handoff, t.try, t.cut)
         /\ Complete(i) =>
              \E r \in {"completed", "cancelled"} : Changes(i, t.state, r, t.handoff, t.try, t.cut)
         /\ Fail(i) => \E r \in {"failed", "cancelled", "interrupted"} :
                         Changes(i, t.state, r, t.handoff, t.try, t.cut)
         /\ RetryTurn(i) => /\ t.try + 1 \in Try
                            /\ Changes(i, "queued", "none", t.handoff, t.try + 1, t.cut)
<1> DEFINE t == turn[i]
<1>1. turn \in [Turn -> TurnRecord] /\ t \in TurnRecord
  BY DEF Inv, TypeOK
<1>2. {"running", "failed", "cancelled", "queued"} \subseteq TurnStates
  BY DEF TurnStates, Active, Ended
<1>3. {"none", "created", "started", "completed", "cancelled", "failed",
        "interrupted"} \subseteq RunStates
  BY DEF RunStates, ActiveRun, Ended
<1>4. {"dispatching", "accepted", "cancelled"} \subseteq HandoffStates
  BY DEF HandoffStates
<1>5. /\ t.state \in TurnStates /\ t.run \in RunStates /\ t.handoff \in HandoffStates
      /\ t.try \in {None} \cup Try
  BY <1>1, TurnParts
<1>6. \A s \in TurnStates, r \in RunStates, h \in HandoffStates :
         /\ turn' = [turn EXCEPT ![i].state = s] => Changes(i, s, t.run, t.handoff, t.try, t.cut)
         /\ turn' = [turn EXCEPT ![i].run = r] => Changes(i, t.state, r, t.handoff, t.try, t.cut)
         /\ turn' = [turn EXCEPT ![i].handoff = h] => Changes(i, t.state, t.run, h, t.try, t.cut)
         /\ turn' = [turn EXCEPT ![i].state = s, ![i].cut = TRUE] =>
              Changes(i, s, t.run, t.handoff, t.try, TRUE)
  BY <1>1, <1>5, OneTurn
<1>7. DispatchHandoff(i) => Changes(i, "queued", t.run, "dispatching", t.try, t.cut)
  <2> SUFFICES ASSUME DispatchHandoff(i)
               PROVE  Changes(i, "queued", t.run, "dispatching", t.try, t.cut)
    OBVIOUS
  <2>1. t.state = "queued"
    BY NextIsQueued DEF Inv, Queued
  <2>2. turn' = [turn EXCEPT ![i].handoff = "dispatching"]
    BY DEF DispatchHandoff
  <2> HIDE DEF t
  <2> QED BY <1>4, <1>5, <1>6, <2>1, <2>2
<1>8. BeginTurn(i) => Changes(i, "running", t.run, t.handoff, t.try, TRUE)
  <2>1. BeginTurn(i) => turn' = [turn EXCEPT ![i].state = "running", ![i].cut = TRUE]
    BY DEF BeginTurn
  <2> HIDE DEF t
  <2> QED BY <1>2, <1>5, <1>6, <2>1
<1>9. Launch(i) => Changes(i, "failed", t.run, t.handoff, t.try, t.cut) \/ UNCHANGED turn
  <2>1. Launch(i) => turn' = [turn EXCEPT ![i].state = "failed"] \/ UNCHANGED turn
    BY DEF Launch
  <2> HIDE DEF t
  <2> QED BY <1>2, <1>5, <1>6, <2>1
<1>10. Attach(i) => Changes(i, t.state, "created", t.handoff, t.try, t.cut)
  <2>1. Attach(i) => turn' = [turn EXCEPT ![i].run = "created"]
    BY DEF Attach
  <2> HIDE DEF t
  <2> QED BY <1>3, <1>5, <1>6, <2>1
<1>11. ProviderStarts(i) => Changes(i, t.state, "started", t.handoff, t.try, t.cut)
  <2>1. ProviderStarts(i) => turn' = [turn EXCEPT ![i].run = "started"]
    BY DEF ProviderStarts
  <2> HIDE DEF t
  <2> QED BY <1>3, <1>5, <1>6, <2>1
<1>12. AcceptHandoff(i) => Changes(i, t.state, t.run, "accepted", t.try, t.cut)
  <2>1. AcceptHandoff(i) => turn' = [turn EXCEPT ![i].handoff = "accepted"]
    BY DEF AcceptHandoff
  <2> HIDE DEF t
  <2> QED BY <1>4, <1>5, <1>6, <2>1
<1>13. CancelHandoff(i) => Changes(i, t.state, t.run, "cancelled", t.try, t.cut)
  <2>1. CancelHandoff(i) => turn' = [turn EXCEPT ![i].handoff = "cancelled"]
    BY DEF CancelHandoff
  <2> HIDE DEF t
  <2> QED BY <1>4, <1>5, <1>6, <2>1
<1>14. CancelQueued(i) => Changes(i, "cancelled", t.run, t.handoff, t.try, t.cut)
  <2>1. CancelQueued(i) => turn' = [turn EXCEPT ![i].state = "cancelled"]
    BY DEF CancelQueued
  <2> HIDE DEF t
  <2> QED BY <1>2, <1>5, <1>6, <2>1
<1>15. Complete(i) => \E r \in {"completed", "cancelled"} :
                        Changes(i, t.state, r, t.handoff, t.try, t.cut)
  <2>1. Complete(i) => \E r \in {"completed", "cancelled"} : turn' = [turn EXCEPT ![i].run = r]
    <3>1. Complete(i) =>
            turn' = [turn EXCEPT ![i].run = IF t.run = "cancelling" THEN "cancelled"
              ELSE "completed"]
      BY DEF Complete
    <3> HIDE DEF t
    <3> QED BY <3>1
  <2> HIDE DEF t
  <2> QED BY <1>3, <1>5, <1>6, <2>1
<1>16. Fail(i) => \E r \in {"failed", "cancelled", "interrupted"} :
                    Changes(i, t.state, r, t.handoff, t.try, t.cut)
  <2>1. Fail(i) => \E r \in {"failed", "cancelled",
          "interrupted"} : turn' = [turn EXCEPT ![i].run = r]
    <3>1. FailedAs(i) \subseteq {"failed", "cancelled", "interrupted"}
      BY DEF FailedAs
    <3>2. Fail(i) => \E r \in FailedAs(i) : turn' = [turn EXCEPT ![i].run = r]
      BY DEF Fail
    <3> QED BY <3>1, <3>2
  <2> HIDE DEF t
  <2> QED BY <1>3, <1>5, <1>6, <2>1
<1>17. RetryTurn(i) => /\ t.try + 1 \in Try
                       /\ Changes(i, "queued", "none", t.handoff, t.try + 1, t.cut)
  <2> SUFFICES ASSUME RetryTurn(i)
               PROVE  /\ t.try + 1 \in Try
                      /\ Changes(i, "queued", "none", t.handoff, t.try + 1, t.cut)
    OBVIOUS
  <2>1. used.retries \in Nat /\ used.retries < Retries /\ t.try <= used.retries + 1
    BY Bounds DEF Inv, TypeOK, TriesCounted, RetryTurn, MayResume
  <2>2. t.try + 1 \in Try
    BY <1>5, <2>1, Bounds DEF Try, None
  <2>3. turn' = [turn EXCEPT ![i].try = t.try + 1, ![i].state = "queued", ![i].run = "none"]
    BY DEF RetryTurn
  <2>4. turn' = [turn EXCEPT ![i].try = t.try + 1, ![i].state = "queued", ![i].run = "none"] =>
          Changes(i, "queued", "none", t.handoff, t.try + 1, t.cut)
    <3> HIDE DEF t
    <3>1. ASSUME NEW y \in {None} \cup Try
          PROVE  turn' = [turn EXCEPT ![i].try = y, ![i].state = "queued", ![i].run = "none"] =>
                   Changes(i, "queued", "none", t.handoff, y, t.cut)
      BY <1>1, <1>2, <1>3, <1>5, OneTurn DEF t
    <3> QED BY <2>2, <3>1
  <2> QED BY <2>2, <2>3, <2>4
<1> QED BY <1>7, <1>8, <1>9, <1>10, <1>11, <1>12, <1>13, <1>14, <1>15, <1>16, <1>17, Zenon

\* A turn that recovery finds.
LEMMA Recovered ==
  ASSUME NEW t \in TurnRecord
  PROVE  Is(RecoveredTurn(t), t,
            IF t.state \notin Active THEN t.state
            ELSE IF t.run \in Ended THEN t.run
            ELSE IF batch.state = "cancelled" THEN "cancelled" ELSE "interrupted",
            IF t.state \in Active /\ batch.state = "cancelled" /\ t.run \in ActiveRun
            THEN "cancelled" ELSE t.run,
            IF t.handoff \in {"queued", "dispatching"} THEN "cancelled" ELSE t.handoff,
            t.try, t.cut)
<1> DEFINE s == IF t.state \notin Active THEN t.state
                ELSE IF t.run \in Ended THEN t.run
                ELSE IF batch.state = "cancelled" THEN "cancelled" ELSE "interrupted"
           r == IF t.state \in Active /\ batch.state = "cancelled" /\ t.run \in ActiveRun
                THEN "cancelled" ELSE t.run
           h == IF t.handoff \in {"queued", "dispatching"} THEN "cancelled" ELSE t.handoff
<1>1. t.state \in TurnStates /\ t.run \in RunStates /\ t.handoff \in HandoffStates
      /\ t.try \in {None} \cup Try
  BY TurnParts
<1>2. s \in TurnStates
  BY <1>1 DEF TurnStates, Active, Ended
<1>3. r \in RunStates
  BY <1>1 DEF RunStates, ActiveRun, Ended
<1>4. h \in HandoffStates
  BY <1>1 DEF HandoffStates
<1>5. RecoveredTurn(t) = [t EXCEPT !.handoff = h, !.run = r, !.state = s]
  BY DEF RecoveredTurn
<1> HIDE DEF s, r, h
<1>6. Is([t EXCEPT !.handoff = h, !.run = r, !.state = s], t, s, r, h, t.try, t.cut)
  BY <1>1, <1>2, <1>3, <1>4, TurnChanges
<1> QED BY <1>5, <1>6 DEF s, r, h

\* Recovery goes through all turns.
LEMMA AllRecovered ==
  ASSUME Inv, RecoverInterruptedRooms
  PROVE  /\ turn' \in [Turn -> TurnRecord]
         /\ \A j \in Turn : LET t == turn[j] IN
              Now(j, IF t.state \notin Active THEN t.state
                     ELSE IF t.run \in Ended THEN t.run
                     ELSE IF batch.state = "cancelled" THEN "cancelled" ELSE "interrupted",
                  IF t.state \in Active /\ batch.state = "cancelled" /\ t.run \in ActiveRun
                  THEN "cancelled" ELSE t.run,
                  IF t.handoff \in {"queued", "dispatching"} THEN "cancelled" ELSE t.handoff,
                  t.try, t.cut)
<1>1. turn' = [j \in Turn |-> RecoveredTurn(turn[j])]
  BY DEF RecoverInterruptedRooms
<1>2. \A j \in Turn : turn[j] \in TurnRecord
  BY DEF Inv, TypeOK
<1>3. \A j \in Turn : RecoveredTurn(turn[j]) \in TurnRecord
  BY <1>2, Recovered DEF Is
<1>4. turn' \in [Turn -> TurnRecord]
  BY <1>1, <1>3
<1>5. \A j \in Turn : turn'[j] = RecoveredTurn(turn[j])
  BY <1>1
<1> QED BY <1>2, <1>4, <1>5, Recovered DEF Now

\* The other actions that go through all turns.
LEMMA AllTurnSteps ==
  ASSUME Inv
  PROVE  /\ SettleTurn => /\ turn' \in [Turn -> TurnRecord]
                          /\ \A j \in Turn :
                             IF j \in Running
                             THEN Now(j, turn[j].run, turn[j].run, turn[j].handoff, turn[j].try,
                               turn[j].cut)
                             ELSE turn'[j] = turn[j]
         /\ SettleHandoff => /\ turn' \in [Turn -> TurnRecord]
                             /\ \A j \in Turn :
                                IF turn[j].handoff = "dispatching"
                                THEN Now(j, turn[j].state, turn[j].run, IF turn[j].run = "cancelled"
                                  THEN "cancelled" ELSE "failed", turn[j].try, turn[j].cut)
                                ELSE turn'[j] = turn[j]
         /\ ExecutorDrained => /\ turn' \in [Turn -> TurnRecord]
                               /\ \A j \in Turn :
                                  IF RunActive(j)
                                  THEN Now(j, turn[j].state, IF turn[j].run = "cancelling"
                                    THEN "cancelled"
                                      ELSE "interrupted", turn[j].handoff, turn[j].try, turn[j].cut)
                                  ELSE turn'[j] = turn[j]
         /\ RecoverRuns => /\ turn' \in [Turn -> TurnRecord]
                           /\ \A j \in Turn :
                              IF RunActive(j)
                              THEN Now(j, turn[j].state, "interrupted", turn[j].handoff,
                                turn[j].try, turn[j].cut)
                              ELSE turn'[j] = turn[j]
         /\ Continue => /\ turn' \in [Turn -> TurnRecord]
                        /\ \A j \in Turn :
                           IF turn[j].state = "interrupted" /\ ~turn[j].cut
                           THEN Now(j, "queued", turn[j].run, turn[j].handoff, turn[j].try + 1,
                             turn[j].cut)
                           ELSE turn'[j] = turn[j]
         /\ CancelRun => \/ UNCHANGED turn
                         \/ /\ turn' \in [Turn -> TurnRecord]
                            /\ \E j \in Running : RunActive(j)
                            /\ \A j \in Turn :
                                 IF j \in Running
                                 THEN Now(j, turn[j].state, "cancelling", turn[j].handoff,
                                   turn[j].try, turn[j].cut)
                                 ELSE turn'[j] = turn[j]
<1>1. \A j \in Turn : turn[j] \in TurnRecord
  BY DEF Inv, TypeOK
<1>2. \A j \in Turn : /\ turn[j].state \in TurnStates /\ turn[j].run \in RunStates
                      /\ turn[j].handoff \in HandoffStates /\ turn[j].try \in {None} \cup Try
  BY <1>1, TurnParts
<1>3. SettleTurn =>
         /\ turn' \in [Turn -> TurnRecord]
         /\ \A j \in Turn : IF j \in Running THEN Now(j, turn[j].run, turn[j].run, turn[j].handoff,
              turn[j].try, turn[j].cut) ELSE turn'[j] = turn[j]
  <2> SUFFICES ASSUME SettleTurn
               PROVE  /\ turn' \in [Turn -> TurnRecord]
                      /\ \A j \in Turn : IF j \in Running
                           THEN Now(j, turn[j].run, turn[j].run, turn[j].handoff, turn[j].try,
                             turn[j].cut) ELSE turn'[j] = turn[j]
    OBVIOUS
  <2>1. turn' = [j \in Turn |-> IF j \in Running THEN [turn[j] EXCEPT !.state = turn[j].run]
          ELSE turn[j]]
    BY DEF SettleTurn
  <2>2. ASSUME NEW j \in Turn, j \in Running
        PROVE  Is([turn[j] EXCEPT !.state = turn[j].run], turn[j], turn[j].run, turn[j].run,
                 turn[j].handoff, turn[j].try, turn[j].cut)
    <3>1. turn[j].run \in Ended
      BY <2>2 DEF Inv, RunningAt, SettleTurn
    <3>2. turn[j].run \in TurnStates
      BY <3>1 DEF TurnStates
    <3> QED BY <1>1, <1>2, <3>2, TurnChanges
  <2>3. ASSUME NEW j \in Turn, j \in Running
        PROVE  [turn[j] EXCEPT !.state = turn[j].run] \in TurnRecord
    BY <2>2, <2>3 DEF Is
  <2>4. turn' \in [Turn -> TurnRecord]
    BY <1>1, <2>1, <2>3
  <2>5. \A j \in Turn : turn'[j] = IF j \in Running THEN [turn[j] EXCEPT !.state = turn[j].run]
          ELSE turn[j]
    BY <2>1
  <2> QED BY <2>2, <2>4, <2>5 DEF Now
<1>4. SettleHandoff =>
         /\ turn' \in [Turn -> TurnRecord]
         /\ \A j \in Turn : IF turn[j].handoff = "dispatching"
              THEN Now(j, turn[j].state, turn[j].run, IF turn[j].run = "cancelled" THEN "cancelled"
                ELSE "failed", turn[j].try, turn[j].cut) ELSE turn'[j] = turn[j]
  <2> SUFFICES ASSUME SettleHandoff
               PROVE  /\ turn' \in [Turn -> TurnRecord]
                      /\ \A j \in Turn : IF turn[j].handoff = "dispatching"
                           THEN Now(j, turn[j].state, turn[j].run, IF turn[j].run = "cancelled"
                             THEN "cancelled" ELSE "failed", turn[j].try, turn[j].cut)
                               ELSE turn'[j] = turn[j]
    OBVIOUS
  <2>1. turn' = [j \in Turn |-> IF turn[j].handoff = "dispatching"
          THEN [turn[j] EXCEPT !.handoff = IF turn[j].run = "cancelled" THEN "cancelled"
            ELSE "failed"] ELSE turn[j]]
    BY DEF SettleHandoff
  <2>2. ASSUME NEW j \in Turn, turn[j].handoff = "dispatching"
        PROVE  Is([turn[j] EXCEPT !.handoff = IF turn[j].run = "cancelled" THEN "cancelled"
                 ELSE "failed"], turn[j], turn[j].state, turn[j].run, IF turn[j].run = "cancelled"
                   THEN "cancelled" ELSE "failed", turn[j].try, turn[j].cut)
    <3> DEFINE h == IF turn[j].run = "cancelled" THEN "cancelled" ELSE "failed"
    <3>1. h \in HandoffStates
      BY DEF HandoffStates
    <3> HIDE DEF h
    <3>2. Is([turn[j] EXCEPT !.handoff = h], turn[j], turn[j].state, turn[j].run, h, turn[j].try,
            turn[j].cut)
      BY <1>1, <1>2, <3>1, TurnChanges
    <3> QED BY <3>2 DEF h
  <2>3. ASSUME NEW j \in Turn, turn[j].handoff = "dispatching"
        PROVE  [turn[j] EXCEPT !.handoff = IF turn[j].run = "cancelled" THEN "cancelled"
                 ELSE "failed"] \in TurnRecord
    BY <2>2, <2>3 DEF Is
  <2>4. turn' \in [Turn -> TurnRecord]
    BY <1>1, <2>1, <2>3
  <2>5. \A j \in Turn : turn'[j] = IF turn[j].handoff = "dispatching"
          THEN [turn[j] EXCEPT !.handoff = IF turn[j].run = "cancelled" THEN "cancelled"
            ELSE "failed"] ELSE turn[j]
    BY <2>1
  <2> QED BY <2>2, <2>4, <2>5 DEF Now
<1>5. ExecutorDrained =>
         /\ turn' \in [Turn -> TurnRecord]
         /\ \A j \in Turn : IF RunActive(j) THEN Now(j, turn[j].state, IF turn[j].run = "cancelling"
              THEN "cancelled" ELSE "interrupted", turn[j].handoff, turn[j].try, turn[j].cut)
                ELSE turn'[j] = turn[j]
  <2> SUFFICES ASSUME ExecutorDrained
               PROVE  /\ turn' \in [Turn -> TurnRecord]
                      /\ \A j \in Turn : IF RunActive(j)
                           THEN Now(j, turn[j].state, IF turn[j].run = "cancelling" THEN "cancelled"
                             ELSE "interrupted", turn[j].handoff, turn[j].try, turn[j].cut)
                               ELSE turn'[j] = turn[j]
    OBVIOUS
  <2>1. turn' = [j \in Turn |-> IF RunActive(j)
          THEN [turn[j] EXCEPT !.run = IF turn[j].run = "cancelling" THEN "cancelled"
            ELSE "interrupted"] ELSE turn[j]]
    BY DEF ExecutorDrained
  <2>2. ASSUME NEW j \in Turn, RunActive(j)
        PROVE  Is([turn[j] EXCEPT !.run = IF turn[j].run = "cancelling" THEN "cancelled"
                 ELSE "interrupted"], turn[j], turn[j].state, IF turn[j].run = "cancelling"
                   THEN "cancelled" ELSE "interrupted", turn[j].handoff, turn[j].try, turn[j].cut)
    <3> DEFINE r == IF turn[j].run = "cancelling" THEN "cancelled" ELSE "interrupted"
    <3>1. r \in RunStates
      BY DEF RunStates, Ended
    <3> HIDE DEF r
    <3>2. Is([turn[j] EXCEPT !.run = r], turn[j], turn[j].state, r, turn[j].handoff, turn[j].try,
            turn[j].cut)
      BY <1>1, <1>2, <3>1, TurnChanges
    <3> QED BY <3>2 DEF r
  <2>3. ASSUME NEW j \in Turn, RunActive(j)
        PROVE  [turn[j] EXCEPT !.run = IF turn[j].run = "cancelling" THEN "cancelled"
                 ELSE "interrupted"] \in TurnRecord
    BY <2>2, <2>3 DEF Is
  <2>4. turn' \in [Turn -> TurnRecord]
    BY <1>1, <2>1, <2>3
  <2>5. \A j \in Turn : turn'[j] = IF RunActive(j)
          THEN [turn[j] EXCEPT !.run = IF turn[j].run = "cancelling" THEN "cancelled"
            ELSE "interrupted"] ELSE turn[j]
    BY <2>1
  <2> QED BY <2>2, <2>4, <2>5 DEF Now
<1>6. RecoverRuns =>
         /\ turn' \in [Turn -> TurnRecord]
         /\ \A j \in Turn : IF RunActive(j) THEN Now(j, turn[j].state, "interrupted",
              turn[j].handoff, turn[j].try, turn[j].cut) ELSE turn'[j] = turn[j]
  <2> SUFFICES ASSUME RecoverRuns
               PROVE  /\ turn' \in [Turn -> TurnRecord]
                      /\ \A j \in Turn : IF RunActive(j)
                           THEN Now(j, turn[j].state, "interrupted", turn[j].handoff, turn[j].try,
                             turn[j].cut) ELSE turn'[j] = turn[j]
    OBVIOUS
  <2>1. turn' = [j \in Turn |-> IF RunActive(j) THEN [turn[j] EXCEPT !.run = "interrupted"]
          ELSE turn[j]]
    BY DEF RecoverRuns
  <2>2. ASSUME NEW j \in Turn, RunActive(j)
        PROVE  Is([turn[j] EXCEPT !.run = "interrupted"], turn[j], turn[j].state, "interrupted",
                 turn[j].handoff, turn[j].try, turn[j].cut)
    <3>1. "interrupted" \in RunStates
      BY DEF RunStates, Ended
    <3> QED BY <1>1, <1>2, <3>1, TurnChanges
  <2>3. ASSUME NEW j \in Turn, RunActive(j)
        PROVE  [turn[j] EXCEPT !.run = "interrupted"] \in TurnRecord
    BY <2>2, <2>3 DEF Is
  <2>4. turn' \in [Turn -> TurnRecord]
    BY <1>1, <2>1, <2>3
  <2>5. \A j \in Turn : turn'[j] = IF RunActive(j) THEN [turn[j] EXCEPT !.run = "interrupted"]
          ELSE turn[j]
    BY <2>1
  <2> QED BY <2>2, <2>4, <2>5 DEF Now
<1>7. Continue =>
         /\ turn' \in [Turn -> TurnRecord]
         /\ \A j \in Turn : IF turn[j].state = "interrupted" /\ ~turn[j].cut
              THEN Now(j, "queued", turn[j].run, turn[j].handoff, turn[j].try + 1, turn[j].cut)
                ELSE turn'[j] = turn[j]
  <2> SUFFICES ASSUME Continue
               PROVE  /\ turn' \in [Turn -> TurnRecord]
                      /\ \A j \in Turn : IF turn[j].state = "interrupted" /\ ~turn[j].cut
                           THEN Now(j, "queued", turn[j].run, turn[j].handoff, turn[j].try + 1,
                             turn[j].cut) ELSE turn'[j] = turn[j]
    OBVIOUS
  <2>1. turn' = [j \in Turn |-> IF turn[j].state = "interrupted" /\ ~turn[j].cut
          THEN [turn[j] EXCEPT !.try = turn[j].try + 1, !.state = "queued"] ELSE turn[j]]
    BY DEF Continue
  <2>2. ASSUME NEW j \in Turn, turn[j].state = "interrupted" /\ ~turn[j].cut
        PROVE  Is([turn[j] EXCEPT !.try = turn[j].try + 1, !.state = "queued"], turn[j], "queued",
                 turn[j].run, turn[j].handoff, turn[j].try + 1, turn[j].cut)
    <3>1. used.retries < Retries
      BY <2>2 DEF Continue, MayResume
    <3>2. used.retries \in Nat /\ turn[j].try <= used.retries + 1
      BY Bounds DEF Inv, TypeOK, TriesCounted
    <3>3. turn[j].try + 1 \in Try
      BY <1>2, <3>1, <3>2, Bounds DEF Try, None
    <3>4. "queued" \in TurnStates
      BY DEF TurnStates, Active
    <3> DEFINE y == turn[j].try + 1
    <3> HIDE DEF y
    <3>5. y \in {None} \cup Try
      BY <3>3 DEF y
    <3>6. Is([turn[j] EXCEPT !.try = y, !.state = "queued"], turn[j], "queued", turn[j].run,
            turn[j].handoff, y, turn[j].cut)
      BY <1>1, <1>2, <3>4, <3>5, TurnChanges
    <3> QED BY <3>6 DEF y
  <2>3. ASSUME NEW j \in Turn, turn[j].state = "interrupted" /\ ~turn[j].cut
        PROVE  [turn[j] EXCEPT !.try = turn[j].try + 1, !.state = "queued"] \in TurnRecord
    BY <2>2, <2>3 DEF Is
  <2>4. turn' \in [Turn -> TurnRecord]
    BY <1>1, <2>1, <2>3
  <2>5. \A j \in Turn : turn'[j] = IF turn[j].state = "interrupted" /\ ~turn[j].cut
          THEN [turn[j] EXCEPT !.try = turn[j].try + 1, !.state = "queued"] ELSE turn[j]
    BY <2>1
  <2> QED BY <2>2, <2>4, <2>5 DEF Now
<1>8. CancelRun =>
         \/ UNCHANGED turn
         \/ /\ turn' \in [Turn -> TurnRecord]
            /\ \E j \in Running : RunActive(j)
            /\ \A j \in Turn : IF j \in Running THEN Now(j, turn[j].state, "cancelling",
                 turn[j].handoff, turn[j].try, turn[j].cut) ELSE turn'[j] = turn[j]
  <2> SUFFICES ASSUME CancelRun, turn' # turn
               PROVE  /\ turn' \in [Turn -> TurnRecord]
                      /\ \E j \in Running : RunActive(j)
                      /\ \A j \in Turn : IF j \in Running
                           THEN Now(j, turn[j].state, "cancelling", turn[j].handoff, turn[j].try,
                             turn[j].cut) ELSE turn'[j] = turn[j]
    OBVIOUS
  <2>1. turn' = [j \in Turn |-> IF j \in Running THEN [turn[j] EXCEPT !.run = "cancelling"]
          ELSE turn[j]]
    BY DEF CancelRun
  <2>2. ASSUME NEW j \in Turn, j \in Running
        PROVE  Is([turn[j] EXCEPT !.run = "cancelling"], turn[j], turn[j].state, "cancelling",
                 turn[j].handoff, turn[j].try, turn[j].cut)
    <3>1. "cancelling" \in RunStates
      BY DEF RunStates, ActiveRun
    <3> QED BY <1>1, <1>2, <3>1, TurnChanges
  <2>3. ASSUME NEW j \in Turn, j \in Running
        PROVE  [turn[j] EXCEPT !.run = "cancelling"] \in TurnRecord
    BY <2>2, <2>3 DEF Is
  <2>6. \E j \in Running : RunActive(j)
    BY DEF CancelRun
  <2>4. turn' \in [Turn -> TurnRecord]
    BY <1>1, <2>1, <2>3
  <2>5. \A j \in Turn : turn'[j] = IF j \in Running THEN [turn[j] EXCEPT !.run = "cancelling"]
          ELSE turn[j]
    BY <2>1
  <2> QED BY <2>2, <2>4, <2>5, <2>6 DEF Now
<1> QED BY <1>3, <1>4, <1>5, <1>6, <1>7, <1>8, Zenon

\* The numbers in use.
LEMMA UsedNumbers ==
  ASSUME Numbered
  PROVE  /\ Cardinality(Used) \in 0..MaxTurns
         /\ Used = 1..Cardinality(Used)
<1>1. PICK n \in 0..MaxTurns : Used = 1..n
  BY DEF Numbered
<1>2. Cardinality(1..n) = n
  BY <1>1, Bounds, FS_Interval
<1> QED BY <1>1, <1>2

\* A fresh turn, and none.
LEMMA FreshTurns ==
  /\ NoTurn \in TurnRecord
  /\ NoTurn.state = "none" /\ NoTurn.run = "none" /\ NoTurn.handoff = "none" /\ NoTurn.try = None
  /\ NoTurn.from = None /\ NoTurn.task = NoTask /\ NoTurn.hop = 0 /\ NoTurn.cut = FALSE
  /\ \A b \in Bot :
       /\ Fresh(b) \in TurnRecord
       /\ Fresh(b).state = "queued" /\ Fresh(b).run = "none" /\ Fresh(b).handoff = "none"
       /\ Fresh(b).try = 1 /\ Fresh(b).cut = FALSE /\ Fresh(b).bot = b
       /\ Fresh(b).from = None /\ Fresh(b).task = NoTask /\ Fresh(b).hop = 0
<1>1. NoTurn \in TurnRecord
  BY Bounds DEF NoTurn, TurnRecord, Active, Ended, ActiveRun
<1>2. ASSUME NEW b \in Bot
      PROVE  Fresh(b) \in TurnRecord
  <2> DEFINE u == [NoTurn EXCEPT !.bot = b]
             v == [u EXCEPT !.try = 1]
  <2>1. Fresh(b) = [v EXCEPT !.state = "queued"]
    BY DEF Fresh, NoTurn
  <2>2. u \in TurnRecord
    BY <1>1 DEF TurnRecord
  <2> HIDE DEF u
  <2>3. v \in TurnRecord
    BY <2>2, Bounds DEF TurnRecord
  <2> HIDE DEF v
  <2>4. [v EXCEPT !.state = "queued"] \in TurnRecord
    BY <2>3 DEF TurnRecord, Active
  <2> QED BY <2>1, <2>4
<1> QED BY <1>1, <1>2 DEF NoTurn, Fresh

\* A message makes the turns of its targets.
LEMMA Prepared ==
  ASSUME NEW version, NEW targets \in SUBSET Bot, PrepareRoomRun(version, targets)
  PROVE  /\ turn' \in [Turn -> TurnRecord]
         /\ \E n \in 0..MaxTurns :
              \A j \in Turn : IF j \in 1..n THEN \E b \in targets : turn'[j] = Fresh(b)
                              ELSE turn'[j] = NoTurn
<1> DEFINE n == Cardinality(targets)
<1>1. n \in 0..MaxTurns
  <2>3. IsFiniteSet(1..Bots)
    BY Bounds, FS_Interval
  <2>1. IsFiniteSet(targets)
    BY <2>3, FS_Subset DEF Bot
  <2>2. n \in Nat /\ n <= MaxTurns
    BY <2>1, FS_CardinalityType DEF PrepareRoomRun, CanPrepare
  <2> QED BY <2>2, Bounds
<1>2. PICK order \in [1..n -> targets] :
        turn' = [j \in Turn |-> IF j \in DOMAIN order THEN Fresh(order[j]) ELSE NoTurn]
  BY DEF PrepareRoomRun
<1> HIDE DEF n
<1>3. \A j \in Turn : turn'[j] = IF j \in 1..n THEN Fresh(order[j]) ELSE NoTurn
  BY <1>2
<1>4. \A j \in 1..n : order[j] \in targets /\ order[j] \in Bot
  BY <1>2
<1>5. turn' \in [Turn -> TurnRecord]
  <2>1. \A j \in Turn : turn'[j] \in TurnRecord
    BY <1>3, <1>4, FreshTurns
  <2>2. turn' = [j \in Turn |-> turn'[j]]
    BY <1>2
  <2> QED BY <2>1, <2>2
<1>6. \A j \in Turn : IF j \in 1..n THEN \E b \in targets : turn'[j] = Fresh(b)
                      ELSE turn'[j] = NoTurn
  BY <1>3, <1>4
<1> QED BY <1>1, <1>5, <1>6

\* A handoff makes the next turn.
LEMMA Created ==
  ASSUME Inv, NEW i \in Turn, NEW b \in Bot, NEW d \in Task, CreateHandoff(i, b, d)
  PROVE  LET m == Cardinality(Used) + 1
             u == turn'[m] IN
         /\ m \in Turn /\ m \notin Used /\ turn[m] = NoTurn
         /\ turn' \in [Turn -> TurnRecord]
         /\ \A j \in Turn \ {m} : turn'[j] = turn[j]
         /\ u.state = "queued" /\ u.run = "none" /\ u.handoff = "queued" /\ u.try = 1
         /\ u.bot = b /\ u.from = i /\ u.task = d /\ u.hop = turn[i].hop + 1 /\ u.cut = FALSE
<1> DEFINE m == Cardinality(Used) + 1
           u == [Fresh(b) EXCEPT !.from = i, !.fromTry = turn[i].try, !.hop = turn[i].hop + 1,
                                 !.task = d, !.handoff = "queued"]
<1>1. Numbered /\ turn \in [Turn -> TurnRecord]
  BY DEF Inv, TypeOK
<1>2. Cardinality(Used) < MaxTurns /\ turn[i].hop < MaxHops
  BY DEF CreateHandoff, CanHandOff, CanCreateTurn
<1>3. m \in Turn /\ m \notin Used /\ turn[m] = NoTurn
  <2>1. Cardinality(Used) \in 0..MaxTurns /\ Used = 1..Cardinality(Used)
    BY <1>1, UsedNumbers
  <2>2. m \in Turn /\ m \notin 1..Cardinality(Used)
    BY <1>2, <2>1, Bounds DEF Turn
  <2> QED BY <1>1, <2>1, <2>2 DEF Numbered
<1>4. turn' = [turn EXCEPT ![m] = u]
  BY DEF CreateHandoff
<1>5. turn[i].hop + 1 \in 0..MaxHops /\ turn[i].try \in {None} \cup Try
  <2>1. turn[i].hop \in 0..MaxHops /\ turn[i].try \in {None} \cup Try
    BY <1>1, TurnParts
  <2> QED BY <1>2, <2>1, Bounds
<1>6. Fresh(b) \in TurnRecord /\ Fresh(b).state = "queued" /\ Fresh(b).run = "none"
      /\ Fresh(b).try = 1 /\ Fresh(b).bot = b /\ Fresh(b).cut = FALSE
  BY FreshTurns
<1>7. u \in TurnRecord
  <2> DEFINE f == Fresh(b)
             u1 == [f EXCEPT !.from = i]
             u2 == [u1 EXCEPT !.fromTry = turn[i].try]
             u3 == [u2 EXCEPT !.hop = turn[i].hop + 1]
             u4 == [u3 EXCEPT !.task = d]
             u5 == [u4 EXCEPT !.handoff = "queued"]
  <2> HIDE DEF f
  <2>1. u1 \in TurnRecord
    BY <1>6 DEF f, TurnRecord
  <2>2. u5 = [f EXCEPT !.from = i, !.fromTry = turn[i].try, !.hop = turn[i].hop + 1,
                       !.task = d, !.handoff = "queued"]
    OBVIOUS
  <2> HIDE DEF u1
  <2>3. u2 \in TurnRecord
    BY <1>5, <2>1 DEF TurnRecord
  <2> HIDE DEF u2
  <2>4. u3 \in TurnRecord
    BY <1>5, <2>3 DEF TurnRecord
  <2> HIDE DEF u3
  <2>5. u4 \in TurnRecord
    BY <2>4 DEF TurnRecord
  <2> HIDE DEF u4
  <2>6. u5 \in TurnRecord
    BY <2>5 DEF TurnRecord
  <2> QED BY <2>2, <2>6 DEF f
<1>8. /\ u.state = "queued" /\ u.run = "none" /\ u.handoff = "queued" /\ u.try = 1
      /\ u.bot = b /\ u.from = i /\ u.task = d /\ u.hop = turn[i].hop + 1 /\ u.cut = FALSE
  <2>1. DOMAIN Fresh(b) = DOMAIN NoTurn
    BY DEF Fresh
  <2>2. {"from", "fromTry", "hop", "task", "handoff"} \subseteq DOMAIN Fresh(b)
    BY <2>1 DEF NoTurn
  <2> QED BY <1>6, <2>2
<1> HIDE DEF u
<1> HIDE DEF m
<1>9. /\ turn' \in [Turn -> TurnRecord] /\ turn'[m] = u
      /\ \A j \in Turn \ {m} : turn'[j] = turn[j]
  BY <1>1, <1>3, <1>4, <1>7
<1> QED BY <1>3, <1>8, <1>9 DEF m

----------------------------------------------------------------------------
(***************************************************************************)
(* Types.                                                                  *)
(***************************************************************************)

\* The turns keep their type.
LEMMA TurnsTyped ==
  ASSUME Inv, [Next]_vars
  PROVE  turn' \in [Turn -> TurnRecord]
<1>0. turn \in [Turn -> TurnRecord]
  BY DEF Inv, TypeOK
<1>1. CASE UNCHANGED vars
  BY <1>1, <1>0 DEF vars
<1>2. CASE Begin
  BY <1>2, <1>0 DEF Begin
<1>3. CASE LoopEnds
  BY <1>3, <1>0 DEF LoopEnds
<1>4. CASE SettleTurn
  BY <1>4, AllTurnSteps, <1>0 DEF Changes
<1>5. CASE SettleHandoff
  BY <1>5, AllTurnSteps, <1>0 DEF Changes
<1>6. CASE EndProcess
  BY <1>6, AllRecovered, <1>0 DEF EndProcess
<1>7. CASE MarkWindingDown
  BY <1>7, <1>0 DEF MarkWindingDown
<1>8. CASE CancelRun
  BY <1>8, AllTurnSteps, <1>0 DEF Changes
<1>9. CASE CancelBatch
  BY <1>9, <1>0 DEF CancelBatch
<1>10. CASE StopEnds
  BY <1>10, <1>0 DEF StopEnds
<1>11. CASE RecoverRooms
  BY <1>11, AllRecovered, <1>0 DEF RecoverRooms
<1>12. CASE RecoverRuns
  BY <1>12, AllTurnSteps, <1>0 DEF Changes
<1>13. ASSUME NEW i \in Turn, Refuse(i)
       PROVE  turn' \in [Turn -> TurnRecord]
  BY <1>13, <1>0 DEF Refuse
<1>14. ASSUME NEW i \in Turn, DispatchHandoff(i)
       PROVE  turn' \in [Turn -> TurnRecord]
  BY <1>14, OneTurnSteps, <1>0 DEF Changes
<1>15. ASSUME NEW i \in Turn, BeginTurn(i)
       PROVE  turn' \in [Turn -> TurnRecord]
  BY <1>15, OneTurnSteps, <1>0 DEF Changes
<1>16. ASSUME NEW i \in Turn, Launch(i)
       PROVE  turn' \in [Turn -> TurnRecord]
  BY <1>16, OneTurnSteps, <1>0 DEF Changes
<1>17. ASSUME NEW i \in Turn, Attach(i)
       PROVE  turn' \in [Turn -> TurnRecord]
  BY <1>17, OneTurnSteps, <1>0 DEF Changes
<1>18. ASSUME NEW i \in Turn, AcceptHandoff(i)
       PROVE  turn' \in [Turn -> TurnRecord]
  BY <1>18, OneTurnSteps, <1>0 DEF Changes
<1>19. ASSUME NEW i \in Turn, CancelHandoff(i)
       PROVE  turn' \in [Turn -> TurnRecord]
  BY <1>19, OneTurnSteps, <1>0 DEF Changes
<1>20. ASSUME NEW i \in Turn, CancelQueued(i)
       PROVE  turn' \in [Turn -> TurnRecord]
  BY <1>20, OneTurnSteps, <1>0 DEF Changes
<1>21. ASSUME NEW i \in Turn, ProviderStarts(i)
       PROVE  turn' \in [Turn -> TurnRecord]
  BY <1>21, OneTurnSteps, <1>0 DEF Changes
<1>22. ASSUME NEW i \in Turn, AskContinuation(i)
       PROVE  turn' \in [Turn -> TurnRecord]
  BY <1>22, <1>0 DEF AskContinuation
<1>23. ASSUME NEW i \in Turn, Complete(i)
       PROVE  turn' \in [Turn -> TurnRecord]
  BY <1>23, OneTurnSteps, <1>0 DEF Changes
<1>24. ASSUME NEW i \in Turn, Fail(i)
       PROVE  turn' \in [Turn -> TurnRecord]
  BY <1>24, OneTurnSteps, <1>0 DEF Changes
<1>25. ASSUME NEW i \in Turn, AnswerLate(i)
       PROVE  turn' \in [Turn -> TurnRecord]
  BY <1>25, <1>0 DEF AnswerLate
<1>26. ASSUME NEW i \in Turn, NEW b \in Bot, NEW d \in Task, Handoff(i, b, d)
       PROVE  turn' \in [Turn -> TurnRecord]
  BY <1>26, Created, <1>0 DEF Handoff
<1>27. ASSUME NEW i \in Turn, NEW b \in Bot, NEW d \in Task, DecideHandoff(i, b, d)
       PROVE  turn' \in [Turn -> TurnRecord]
  BY <1>27, Created, <1>0 DEF DecideHandoff
<1>28. ASSUME NEW targets \in SUBSET Bot, Send(targets)
       PROVE  turn' \in [Turn -> TurnRecord]
  BY <1>28, Prepared, <1>0 DEF Send
<1>29. ASSUME NEW r \in Route, SelectOwner(r)
       PROVE  turn' \in [Turn -> TurnRecord]
  BY <1>29, <1>0 DEF SelectOwner
<1>30. ASSUME NEW i \in Turn, RetryTurn(i)
       PROVE  turn' \in [Turn -> TurnRecord]
  BY <1>30, OneTurnSteps, <1>0 DEF Changes
<1>31. ASSUME NEW b \in Bot, AddMember(b)
       PROVE  turn' \in [Turn -> TurnRecord]
  BY <1>31, <1>0 DEF AddMember
<1>32. ASSUME NEW b \in Bot, RemoveMember(b)
       PROVE  turn' \in [Turn -> TurnRecord]
  BY <1>32, <1>0 DEF RemoveMember
<1>33. CASE Cancel
  BY <1>33, <1>0 DEF Cancel
<1>34. CASE Continue
  BY <1>34, AllTurnSteps, <1>0 DEF Changes
<1>35. CASE ArchiveRoom
  BY <1>35, <1>0 DEF ArchiveRoom
<1>36. ASSUME NEW r \in Route, OwnerSelected(r)
       PROVE  turn' \in [Turn -> TurnRecord]
  BY <1>36, Prepared, <1>0 DEF OwnerSelected
<1>37. ASSUME NEW r \in Route, RoutingFails(r)
       PROVE  turn' \in [Turn -> TurnRecord]
  BY <1>37, <1>0 DEF RoutingFails
<1>38. CASE TimePasses
  BY <1>38, <1>0 DEF TimePasses
<1>39. CASE DeadlineFires
  BY <1>39, <1>0 DEF DeadlineFires
<1>40. CASE BeginShutdown
  BY <1>40, <1>0 DEF BeginShutdown
<1>41. CASE ExecutorDrained
  BY <1>41, AllTurnSteps, <1>0 DEF Changes
<1>42. CASE Drained
  BY <1>42, AllRecovered, <1>0 DEF Drained, Down
<1>43. CASE Crash
  BY <1>43, <1>0 DEF Crash
<1>44. CASE Restart
  BY <1>44, <1>0 DEF Restart
<1> QED BY <1>1, <1>2, <1>3, <1>4, <1>5, <1>6, <1>7, <1>8, <1>9, <1>10, <1>11, <1>12, <1>13,
     <1>14, <1>15, <1>16, <1>17, <1>18, <1>19, <1>20, <1>21, <1>22, <1>23, <1>24, <1>25, <1>26,
     <1>27, <1>28, <1>29, <1>30, <1>31, <1>32, <1>33, <1>34, <1>35, <1>36, <1>37, <1>38, <1>39,
     <1>40, <1>41, <1>42, <1>43, <1>44
  DEF Next, HandlerStep, RunStep, User, RouteAndSend

\* So does the Room.
LEMMA RoomTyped ==
  ASSUME Inv, [Next]_vars
  PROVE  room' \in [members : SUBSET Bot, version : Nat, archived : BOOLEAN]
<1>0. room \in [members : SUBSET Bot, version : Nat, archived : BOOLEAN]
  BY DEF Inv, TypeOK
<1>1. CASE UNCHANGED vars
  BY <1>1, <1>0 DEF vars
<1>2. CASE Begin
  BY <1>2, <1>0 DEF Begin, TransitionRoomBatch, StartProcessing
<1>3. CASE LoopEnds
  BY <1>3, <1>0 DEF LoopEnds
<1>4. CASE SettleTurn
  BY <1>4, <1>0 DEF SettleTurn
<1>5. CASE SettleHandoff
  BY <1>5, <1>0 DEF SettleHandoff
<1>6. CASE EndProcess
  BY <1>6, <1>0 DEF EndProcess, RecoverInterruptedRooms, RecoveredTurn, Finished
<1>7. CASE MarkWindingDown
  BY <1>7, <1>0 DEF MarkWindingDown
<1>8. CASE CancelRun
  BY <1>8, <1>0 DEF CancelRun
<1>9. CASE CancelBatch
  BY <1>9, <1>0 DEF CancelBatch, TransitionRoomBatch
<1>10. CASE StopEnds
  BY <1>10, <1>0 DEF StopEnds, Finished
<1>11. CASE RecoverRooms
  BY <1>11, <1>0 DEF RecoverRooms, RecoverInterruptedRooms, RecoveredTurn
<1>12. CASE RecoverRuns
  BY <1>12, <1>0 DEF RecoverRuns
<1>13. ASSUME NEW i \in Turn, Refuse(i)
       PROVE  room' \in [members : SUBSET Bot, version : Nat, archived : BOOLEAN]
  BY <1>13, <1>0 DEF Refuse
<1>14. ASSUME NEW i \in Turn, DispatchHandoff(i)
       PROVE  room' \in [members : SUBSET Bot, version : Nat, archived : BOOLEAN]
  BY <1>14, <1>0 DEF DispatchHandoff
<1>15. ASSUME NEW i \in Turn, BeginTurn(i)
       PROVE  room' \in [members : SUBSET Bot, version : Nat, archived : BOOLEAN]
  BY <1>15, <1>0 DEF BeginTurn
<1>16. ASSUME NEW i \in Turn, Launch(i)
       PROVE  room' \in [members : SUBSET Bot, version : Nat, archived : BOOLEAN]
  BY <1>16, <1>0 DEF Launch
<1>17. ASSUME NEW i \in Turn, Attach(i)
       PROVE  room' \in [members : SUBSET Bot, version : Nat, archived : BOOLEAN]
  BY <1>17, <1>0 DEF Attach
<1>18. ASSUME NEW i \in Turn, AcceptHandoff(i)
       PROVE  room' \in [members : SUBSET Bot, version : Nat, archived : BOOLEAN]
  BY <1>18, <1>0 DEF AcceptHandoff
<1>19. ASSUME NEW i \in Turn, CancelHandoff(i)
       PROVE  room' \in [members : SUBSET Bot, version : Nat, archived : BOOLEAN]
  BY <1>19, <1>0 DEF CancelHandoff
<1>20. ASSUME NEW i \in Turn, CancelQueued(i)
       PROVE  room' \in [members : SUBSET Bot, version : Nat, archived : BOOLEAN]
  BY <1>20, <1>0 DEF CancelQueued
<1>21. ASSUME NEW i \in Turn, ProviderStarts(i)
       PROVE  room' \in [members : SUBSET Bot, version : Nat, archived : BOOLEAN]
  BY <1>21, <1>0 DEF ProviderStarts, Awaits
<1>22. ASSUME NEW i \in Turn, AskContinuation(i)
       PROVE  room' \in [members : SUBSET Bot, version : Nat, archived : BOOLEAN]
  BY <1>22, <1>0 DEF AskContinuation, Awaits
<1>23. ASSUME NEW i \in Turn, Complete(i)
       PROVE  room' \in [members : SUBSET Bot, version : Nat, archived : BOOLEAN]
  BY <1>23, <1>0 DEF Complete, Awaits
<1>24. ASSUME NEW i \in Turn, Fail(i)
       PROVE  room' \in [members : SUBSET Bot, version : Nat, archived : BOOLEAN]
  BY <1>24, <1>0 DEF Fail, Awaits, FailedAs
<1>25. ASSUME NEW i \in Turn, AnswerLate(i)
       PROVE  room' \in [members : SUBSET Bot, version : Nat, archived : BOOLEAN]
  BY <1>25, <1>0 DEF AnswerLate, Awaits
<1>26. ASSUME NEW i \in Turn, NEW b \in Bot, NEW d \in Task, Handoff(i, b, d)
       PROVE  room' \in [members : SUBSET Bot, version : Nat, archived : BOOLEAN]
  BY <1>26, <1>0 DEF Handoff, CreateHandoff, CanHandOff, CanCreateTurn, Awaits
<1>27. ASSUME NEW i \in Turn, NEW b \in Bot, NEW d \in Task, DecideHandoff(i, b, d)
       PROVE  room' \in [members : SUBSET Bot, version : Nat, archived : BOOLEAN]
  BY <1>27, <1>0 DEF DecideHandoff, CreateHandoff, CanHandOff, CanCreateTurn, Awaits
<1>28. ASSUME NEW targets \in SUBSET Bot, Send(targets)
       PROVE  room' \in [members : SUBSET Bot, version : Nat, archived : BOOLEAN]
  BY <1>28, <1>0 DEF Send, PrepareRoomRun
<1>29. ASSUME NEW r \in Route, SelectOwner(r)
       PROVE  room' \in [members : SUBSET Bot, version : Nat, archived : BOOLEAN]
  BY <1>29, <1>0 DEF SelectOwner
<1>30. ASSUME NEW i \in Turn, RetryTurn(i)
       PROVE  room' \in [members : SUBSET Bot, version : Nat, archived : BOOLEAN]
  BY <1>30, <1>0 DEF RetryTurn, Resume, StartProcessing, MayResume
<1>31. ASSUME NEW b \in Bot, AddMember(b)
       PROVE  room' \in [members : SUBSET Bot, version : Nat, archived : BOOLEAN]
  <2>1. room' = [room EXCEPT !.members = room.members \cup {b}, !.version = room.version + 1]
    BY <1>31 DEF AddMember
  <2> DEFINE v == [room EXCEPT !.members = room.members \cup {b}]
  <2>2. room' = [v EXCEPT !.version = v.version + 1]
    BY <2>1, <1>0
  <2>3. v \in [members : SUBSET Bot, version : Nat, archived : BOOLEAN]
    BY <1>0
  <2> HIDE DEF v
  <2> QED BY <2>2, <2>3
<1>32. ASSUME NEW b \in Bot, RemoveMember(b)
       PROVE  room' \in [members : SUBSET Bot, version : Nat, archived : BOOLEAN]
  <2>1. room' = [room EXCEPT !.members = room.members \ {b}, !.version = room.version + 1]
    BY <1>32 DEF RemoveMember
  <2> DEFINE v == [room EXCEPT !.members = room.members \ {b}]
  <2>2. room' = [v EXCEPT !.version = v.version + 1]
    BY <2>1, <1>0
  <2>3. v \in [members : SUBSET Bot, version : Nat, archived : BOOLEAN]
    BY <1>0
  <2> HIDE DEF v
  <2> QED BY <2>2, <2>3
<1>33. CASE Cancel
  BY <1>33, <1>0 DEF Cancel
<1>34. CASE Continue
  BY <1>34, <1>0 DEF Continue, Resume, StartProcessing, MayResume
<1>35. CASE ArchiveRoom
  BY <1>35, <1>0 DEF ArchiveRoom
<1>36. ASSUME NEW r \in Route, OwnerSelected(r)
       PROVE  room' \in [members : SUBSET Bot, version : Nat, archived : BOOLEAN]
  BY <1>36, <1>0 DEF OwnerSelected, PrepareRoomRun
<1>37. ASSUME NEW r \in Route, RoutingFails(r)
       PROVE  room' \in [members : SUBSET Bot, version : Nat, archived : BOOLEAN]
  BY <1>37, <1>0 DEF RoutingFails
<1>38. CASE TimePasses
  BY <1>38, <1>0 DEF TimePasses
<1>39. CASE DeadlineFires
  BY <1>39, <1>0 DEF DeadlineFires
<1>40. CASE BeginShutdown
  BY <1>40, <1>0 DEF BeginShutdown
<1>41. CASE ExecutorDrained
  BY <1>41, <1>0 DEF ExecutorDrained
<1>42. CASE Drained
  BY <1>42, <1>0 DEF Drained, RecoverInterruptedRooms, RecoveredTurn, Down
<1>43. CASE Crash
  BY <1>43, <1>0 DEF Crash, Down
<1>44. CASE Restart
  BY <1>44, <1>0 DEF Restart
<1> QED BY <1>1, <1>2, <1>3, <1>4, <1>5, <1>6, <1>7, <1>8, <1>9, <1>10, <1>11, <1>12, <1>13,
     <1>14, <1>15, <1>16, <1>17, <1>18, <1>19, <1>20, <1>21, <1>22, <1>23, <1>24, <1>25, <1>26,
     <1>27, <1>28, <1>29, <1>30, <1>31, <1>32, <1>33, <1>34, <1>35, <1>36, <1>37, <1>38, <1>39,
     <1>40, <1>41, <1>42, <1>43, <1>44
  DEF Next, HandlerStep, RunStep, User, RouteAndSend

\* So does the batch.
LEMMA BatchTyped ==
  ASSUME Inv, [Next]_vars
  PROVE  batch' \in [state : {"none"} \cup Active \cup BatchEnded, winding : BOOLEAN, version : Nat]
<1>0. batch \in [state : {"none"} \cup Active \cup BatchEnded, winding : BOOLEAN, version : Nat]
  BY DEF Inv, TypeOK
<1>1. CASE UNCHANGED vars
  BY <1>1, <1>0 DEF vars
<1>2. CASE Begin
  BY <1>2, <1>0 DEF Begin, TransitionRoomBatch, StartProcessing, Active, BatchEnded
<1>3. CASE LoopEnds
  BY <1>3, <1>0 DEF LoopEnds
<1>4. CASE SettleTurn
  BY <1>4, <1>0 DEF SettleTurn, Active, BatchEnded
<1>5. CASE SettleHandoff
  BY <1>5, <1>0 DEF SettleHandoff
<1>6. CASE EndProcess
  BY <1>6, <1>0
  DEF EndProcess, RecoverInterruptedRooms, RecoveredTurn, Finished, Active, BatchEnded
<1>7. CASE MarkWindingDown
  BY <1>7, <1>0 DEF MarkWindingDown
<1>8. CASE CancelRun
  BY <1>8, <1>0 DEF CancelRun
<1>9. CASE CancelBatch
  BY <1>9, <1>0 DEF CancelBatch, TransitionRoomBatch, Active, BatchEnded
<1>10. CASE StopEnds
  BY <1>10, <1>0 DEF StopEnds, Finished, Active, BatchEnded
<1>11. CASE RecoverRooms
  BY <1>11, <1>0 DEF RecoverRooms, RecoverInterruptedRooms, RecoveredTurn, Active, BatchEnded
<1>12. CASE RecoverRuns
  BY <1>12, <1>0 DEF RecoverRuns
<1>13. ASSUME NEW i \in Turn, Refuse(i)
       PROVE  batch' \in [state : {"none"} \cup Active \cup BatchEnded, winding : BOOLEAN,
                version : Nat]
  BY <1>13, <1>0 DEF Refuse
<1>14. ASSUME NEW i \in Turn, DispatchHandoff(i)
       PROVE  batch' \in [state : {"none"} \cup Active \cup BatchEnded, winding : BOOLEAN,
                version : Nat]
  BY <1>14, <1>0 DEF DispatchHandoff
<1>15. ASSUME NEW i \in Turn, BeginTurn(i)
       PROVE  batch' \in [state : {"none"} \cup Active \cup BatchEnded, winding : BOOLEAN,
                version : Nat]
  BY <1>15, <1>0 DEF BeginTurn
<1>16. ASSUME NEW i \in Turn, Launch(i)
       PROVE  batch' \in [state : {"none"} \cup Active \cup BatchEnded, winding : BOOLEAN,
                version : Nat]
  BY <1>16, <1>0 DEF Launch
<1>17. ASSUME NEW i \in Turn, Attach(i)
       PROVE  batch' \in [state : {"none"} \cup Active \cup BatchEnded, winding : BOOLEAN,
                version : Nat]
  BY <1>17, <1>0 DEF Attach
<1>18. ASSUME NEW i \in Turn, AcceptHandoff(i)
       PROVE  batch' \in [state : {"none"} \cup Active \cup BatchEnded, winding : BOOLEAN,
                version : Nat]
  BY <1>18, <1>0 DEF AcceptHandoff
<1>19. ASSUME NEW i \in Turn, CancelHandoff(i)
       PROVE  batch' \in [state : {"none"} \cup Active \cup BatchEnded, winding : BOOLEAN,
                version : Nat]
  BY <1>19, <1>0 DEF CancelHandoff
<1>20. ASSUME NEW i \in Turn, CancelQueued(i)
       PROVE  batch' \in [state : {"none"} \cup Active \cup BatchEnded, winding : BOOLEAN,
                version : Nat]
  BY <1>20, <1>0 DEF CancelQueued
<1>21. ASSUME NEW i \in Turn, ProviderStarts(i)
       PROVE  batch' \in [state : {"none"} \cup Active \cup BatchEnded, winding : BOOLEAN,
                version : Nat]
  BY <1>21, <1>0 DEF ProviderStarts, Awaits
<1>22. ASSUME NEW i \in Turn, AskContinuation(i)
       PROVE  batch' \in [state : {"none"} \cup Active \cup BatchEnded, winding : BOOLEAN,
                version : Nat]
  BY <1>22, <1>0 DEF AskContinuation, Awaits
<1>23. ASSUME NEW i \in Turn, Complete(i)
       PROVE  batch' \in [state : {"none"} \cup Active \cup BatchEnded, winding : BOOLEAN,
                version : Nat]
  BY <1>23, <1>0 DEF Complete, Awaits
<1>24. ASSUME NEW i \in Turn, Fail(i)
       PROVE  batch' \in [state : {"none"} \cup Active \cup BatchEnded, winding : BOOLEAN,
                version : Nat]
  BY <1>24, <1>0 DEF Fail, Awaits, FailedAs
<1>25. ASSUME NEW i \in Turn, AnswerLate(i)
       PROVE  batch' \in [state : {"none"} \cup Active \cup BatchEnded, winding : BOOLEAN,
                version : Nat]
  BY <1>25, <1>0 DEF AnswerLate, Awaits
<1>26. ASSUME NEW i \in Turn, NEW b \in Bot, NEW d \in Task, Handoff(i, b, d)
       PROVE  batch' \in [state : {"none"} \cup Active \cup BatchEnded, winding : BOOLEAN,
                version : Nat]
  BY <1>26, <1>0 DEF Handoff, CreateHandoff, CanHandOff, CanCreateTurn, Awaits
<1>27. ASSUME NEW i \in Turn, NEW b \in Bot, NEW d \in Task, DecideHandoff(i, b, d)
       PROVE  batch' \in [state : {"none"} \cup Active \cup BatchEnded, winding : BOOLEAN,
                version : Nat]
  BY <1>27, <1>0 DEF DecideHandoff, CreateHandoff, CanHandOff, CanCreateTurn, Awaits
<1>28. ASSUME NEW targets \in SUBSET Bot, Send(targets)
       PROVE  batch' \in [state : {"none"} \cup Active \cup BatchEnded, winding : BOOLEAN,
                version : Nat]
  <2>1. room.version \in Nat
    BY DEF Inv, TypeOK
  <2>2. batch' = [state |-> "queued", winding |-> FALSE, version |-> room.version]
    BY <1>28 DEF Send, PrepareRoomRun
  <2> QED BY <2>1, <2>2 DEF Active
<1>29. ASSUME NEW r \in Route, SelectOwner(r)
       PROVE  batch' \in [state : {"none"} \cup Active \cup BatchEnded, winding : BOOLEAN,
                version : Nat]
  BY <1>29, <1>0 DEF SelectOwner
<1>30. ASSUME NEW i \in Turn, RetryTurn(i)
       PROVE  batch' \in [state : {"none"} \cup Active \cup BatchEnded, winding : BOOLEAN,
                version : Nat]
  BY <1>30, <1>0 DEF RetryTurn, Resume, StartProcessing, MayResume, Active, BatchEnded
<1>31. ASSUME NEW b \in Bot, AddMember(b)
       PROVE  batch' \in [state : {"none"} \cup Active \cup BatchEnded, winding : BOOLEAN,
                version : Nat]
  BY <1>31, <1>0 DEF AddMember
<1>32. ASSUME NEW b \in Bot, RemoveMember(b)
       PROVE  batch' \in [state : {"none"} \cup Active \cup BatchEnded, winding : BOOLEAN,
                version : Nat]
  BY <1>32, <1>0 DEF RemoveMember
<1>33. CASE Cancel
  BY <1>33, <1>0 DEF Cancel
<1>34. CASE Continue
  BY <1>34, <1>0 DEF Continue, Resume, StartProcessing, MayResume, Active, BatchEnded
<1>35. CASE ArchiveRoom
  BY <1>35, <1>0 DEF ArchiveRoom
<1>36. ASSUME NEW r \in Route, OwnerSelected(r)
       PROVE  batch' \in [state : {"none"} \cup Active \cup BatchEnded, winding : BOOLEAN,
                version : Nat]
  <2>1. routing[r] \in Nat
    BY DEF Inv, TypeOK
  <2>2. batch' = [state |-> "queued", winding |-> FALSE, version |-> routing[r]]
    BY <1>36 DEF OwnerSelected, PrepareRoomRun
  <2> QED BY <2>1, <2>2 DEF Active
<1>37. ASSUME NEW r \in Route, RoutingFails(r)
       PROVE  batch' \in [state : {"none"} \cup Active \cup BatchEnded, winding : BOOLEAN,
                version : Nat]
  BY <1>37, <1>0 DEF RoutingFails
<1>38. CASE TimePasses
  BY <1>38, <1>0 DEF TimePasses
<1>39. CASE DeadlineFires
  BY <1>39, <1>0 DEF DeadlineFires
<1>40. CASE BeginShutdown
  BY <1>40, <1>0 DEF BeginShutdown
<1>41. CASE ExecutorDrained
  BY <1>41, <1>0 DEF ExecutorDrained
<1>42. CASE Drained
  BY <1>42, <1>0 DEF Drained, RecoverInterruptedRooms, RecoveredTurn, Down, Active, BatchEnded
<1>43. CASE Crash
  BY <1>43, <1>0 DEF Crash, Down
<1>44. CASE Restart
  BY <1>44, <1>0 DEF Restart
<1> QED BY <1>1, <1>2, <1>3, <1>4, <1>5, <1>6, <1>7, <1>8, <1>9, <1>10, <1>11, <1>12, <1>13,
     <1>14, <1>15, <1>16, <1>17, <1>18, <1>19, <1>20, <1>21, <1>22, <1>23, <1>24, <1>25, <1>26,
     <1>27, <1>28, <1>29, <1>30, <1>31, <1>32, <1>33, <1>34, <1>35, <1>36, <1>37, <1>38, <1>39,
     <1>40, <1>41, <1>42, <1>43, <1>44
  DEF Next, HandlerStep, RunStep, User, RouteAndSend

\* A process that has just begun remembers nothing.
LEMMA NothingForgotten == Forgotten \in Memory
BY DEF Forgotten, Memory

\* A turn that the user continues has an attempt left.
LEMMA TriesLeft ==
  ASSUME Inv, NEW j \in Turn, MayResume(j)
  PROVE  turn[j].try + 1 \in Try
<1>1. turn[j].try \in {None} \cup Try
  BY TurnParts DEF Inv, TypeOK
<1>2. used.retries < Retries /\ used.retries \in Nat /\ turn[j].try <= used.retries + 1
  BY Bounds DEF Inv, TypeOK, TriesCounted, MayResume
<1> QED BY <1>1, <1>2, Bounds DEF Try, None

\* So does what the main process remembers.
LEMMA MemoryTyped ==
  ASSUME Inv, [Next]_vars
  PROVE  mem' \in Memory
<1>0. mem \in Memory
  BY DEF Inv, TypeOK
<1>1. CASE UNCHANGED vars
  BY <1>1, <1>0 DEF vars
<1>2. CASE Begin
  <2>1. mem' = [mem EXCEPT !.armed = TRUE, !.inFlight = TRUE, !.only = {<<i, 1>> : i \in Used}]
    BY <1>2 DEF Begin, StartProcessing
  <2>2. {<<i, 1>> : i \in Used} \in SUBSET (Turn \X Try)
    BY Bounds DEF Used
  <2> HIDE DEF Memory
  <2>3. \A o \in SUBSET (Turn \X Try) :
          [mem EXCEPT !.armed = TRUE, !.inFlight = TRUE, !.only = o] \in Memory
    <3> TAKE o \in SUBSET (Turn \X Try)
    <3> DEFINE v == [mem EXCEPT !.armed = TRUE]
               w == [v EXCEPT !.inFlight = TRUE]
    <3>1. v \in Memory
      BY <1>0 DEF Memory
    <3>2. [mem EXCEPT !.armed = TRUE, !.inFlight = TRUE, !.only = o] = [w EXCEPT !.only = o]
      OBVIOUS
    <3> HIDE DEF v
    <3>3. w \in Memory
      BY <3>1 DEF Memory
    <3> HIDE DEF w
    <3>4. [w EXCEPT !.only = o] \in Memory
      BY <3>3 DEF Memory
    <3> QED BY <3>2, <3>4
  <2> QED BY <2>1, <2>2, <2>3
<1>3. CASE LoopEnds
  BY <1>3, <1>0 DEF LoopEnds, Memory
<1>4. CASE SettleTurn
  BY <1>4, <1>0 DEF SettleTurn, Memory
<1>5. CASE SettleHandoff
  BY <1>5, <1>0 DEF SettleHandoff, Memory
<1>6. CASE EndProcess
  <2>1. mem' = [Forgotten EXCEPT !.armed = mem.armed /\ batch'.state \in Active]
    BY <1>6 DEF EndProcess
  <2>2. (mem.armed /\ batch'.state \in Active) \in BOOLEAN
    OBVIOUS
  <2> QED BY <2>1, <2>2, NothingForgotten DEF Memory
<1>7. CASE MarkWindingDown
  BY <1>7, <1>0 DEF MarkWindingDown, Memory
<1>8. CASE CancelRun
  BY <1>8, <1>0 DEF CancelRun, Memory
<1>9. CASE CancelBatch
  BY <1>9, <1>0 DEF CancelBatch, TransitionRoomBatch, Memory
<1>10. CASE StopEnds
  BY <1>10, <1>0 DEF StopEnds, Finished, Memory
<1>11. CASE RecoverRooms
  BY <1>11, <1>0 DEF RecoverRooms, RecoverInterruptedRooms, RecoveredTurn, Memory
<1>12. CASE RecoverRuns
  BY <1>12, <1>0 DEF RecoverRuns, Memory
<1>13. ASSUME NEW i \in Turn, Refuse(i)
       PROVE  mem' \in Memory
  BY <1>13, <1>0 DEF Refuse, Memory
<1>14. ASSUME NEW i \in Turn, DispatchHandoff(i)
       PROVE  mem' \in Memory
  BY <1>14, <1>0 DEF DispatchHandoff, Memory
<1>15. ASSUME NEW i \in Turn, BeginTurn(i)
       PROVE  mem' \in Memory
  BY <1>15, <1>0 DEF BeginTurn, Memory
<1>16. ASSUME NEW i \in Turn, Launch(i)
       PROVE  mem' \in Memory
  BY <1>16, <1>0 DEF Launch, Memory
<1>17. ASSUME NEW i \in Turn, Attach(i)
       PROVE  mem' \in Memory
  BY <1>17, <1>0 DEF Attach, Memory
<1>18. ASSUME NEW i \in Turn, AcceptHandoff(i)
       PROVE  mem' \in Memory
  BY <1>18, <1>0 DEF AcceptHandoff, Memory
<1>19. ASSUME NEW i \in Turn, CancelHandoff(i)
       PROVE  mem' \in Memory
  BY <1>19, <1>0 DEF CancelHandoff, Memory
<1>20. ASSUME NEW i \in Turn, CancelQueued(i)
       PROVE  mem' \in Memory
  BY <1>20, <1>0 DEF CancelQueued, Memory
<1>21. ASSUME NEW i \in Turn, ProviderStarts(i)
       PROVE  mem' \in Memory
  BY <1>21, <1>0 DEF ProviderStarts, Awaits, Memory
<1>22. ASSUME NEW i \in Turn, AskContinuation(i)
       PROVE  mem' \in Memory
  BY <1>22, <1>0 DEF AskContinuation, Awaits, Memory
<1>23. ASSUME NEW i \in Turn, Complete(i)
       PROVE  mem' \in Memory
  BY <1>23, <1>0 DEF Complete, Awaits, Memory
<1>24. ASSUME NEW i \in Turn, Fail(i)
       PROVE  mem' \in Memory
  BY <1>24, <1>0 DEF Fail, Awaits, FailedAs, Memory
<1>25. ASSUME NEW i \in Turn, AnswerLate(i)
       PROVE  mem' \in Memory
  BY <1>25, <1>0 DEF AnswerLate, Awaits, Memory
<1>26. ASSUME NEW i \in Turn, NEW b \in Bot, NEW d \in Task, Handoff(i, b, d)
       PROVE  mem' \in Memory
  BY <1>26, <1>0 DEF Handoff, CreateHandoff, CanHandOff, CanCreateTurn, Awaits, Memory
<1>27. ASSUME NEW i \in Turn, NEW b \in Bot, NEW d \in Task, DecideHandoff(i, b, d)
       PROVE  mem' \in Memory
  BY <1>27, <1>0 DEF DecideHandoff, CreateHandoff, CanHandOff, CanCreateTurn, Awaits, Memory
<1>28. ASSUME NEW targets \in SUBSET Bot, Send(targets)
       PROVE  mem' \in Memory
  BY <1>28, <1>0 DEF Send, PrepareRoomRun, Memory
<1>29. ASSUME NEW r \in Route, SelectOwner(r)
       PROVE  mem' \in Memory
  BY <1>29, <1>0 DEF SelectOwner, Memory
<1>30. ASSUME NEW i \in Turn, RetryTurn(i)
       PROVE  mem' \in Memory
  <2>1. mem' = [mem EXCEPT !.armed = TRUE, !.inFlight = TRUE, !.only = {<<j,
          turn[j].try + 1>> : j \in {i}}]
    BY <1>30 DEF RetryTurn, Resume, StartProcessing
  <2>2. {<<j, turn[j].try + 1>> : j \in {i}} \in SUBSET (Turn \X Try)
    <3>1. turn[i].try + 1 \in Try
      BY <1>30, OneTurnSteps
    <3> QED BY <3>1
  <2> HIDE DEF Memory
  <2>3. \A o \in SUBSET (Turn \X Try) :
          [mem EXCEPT !.armed = TRUE, !.inFlight = TRUE, !.only = o] \in Memory
    <3> TAKE o \in SUBSET (Turn \X Try)
    <3> DEFINE v == [mem EXCEPT !.armed = TRUE]
               w == [v EXCEPT !.inFlight = TRUE]
    <3>1. v \in Memory
      BY <1>0 DEF Memory
    <3>2. [mem EXCEPT !.armed = TRUE, !.inFlight = TRUE, !.only = o] = [w EXCEPT !.only = o]
      OBVIOUS
    <3> HIDE DEF v
    <3>3. w \in Memory
      BY <3>1 DEF Memory
    <3> HIDE DEF w
    <3>4. [w EXCEPT !.only = o] \in Memory
      BY <3>3 DEF Memory
    <3> QED BY <3>2, <3>4
  <2> QED BY <2>1, <2>2, <2>3
<1>31. ASSUME NEW b \in Bot, AddMember(b)
       PROVE  mem' \in Memory
  BY <1>31, <1>0 DEF AddMember, Memory
<1>32. ASSUME NEW b \in Bot, RemoveMember(b)
       PROVE  mem' \in Memory
  BY <1>32, <1>0 DEF RemoveMember, Memory
<1>33. CASE Cancel
  BY <1>33, <1>0 DEF Cancel, Memory
<1>34. CASE Continue
  <2>1. mem' = [mem EXCEPT !.armed = TRUE, !.inFlight = TRUE, !.only = {<<j,
          turn[j].try + 1>> : j \in {i \in Turn : turn[i].state = "interrupted" /\ ~turn[i].cut}}]
    BY <1>34 DEF Continue, Resume, StartProcessing
  <2>2. {<<j, turn[j].try + 1>> : j \in {i \in Turn : turn[i].state = "interrupted" /\ ~turn[i].cut}} \in SUBSET (Turn \X Try)
    <3>1. \A j \in Turn : turn[j].state = "interrupted" /\ ~turn[j].cut => turn[j].try + 1 \in Try
      BY <1>34, TriesLeft DEF Continue
    <3> QED BY <3>1
  <2> HIDE DEF Memory
  <2>3. \A o \in SUBSET (Turn \X Try) :
          [mem EXCEPT !.armed = TRUE, !.inFlight = TRUE, !.only = o] \in Memory
    <3> TAKE o \in SUBSET (Turn \X Try)
    <3> DEFINE v == [mem EXCEPT !.armed = TRUE]
               w == [v EXCEPT !.inFlight = TRUE]
    <3>1. v \in Memory
      BY <1>0 DEF Memory
    <3>2. [mem EXCEPT !.armed = TRUE, !.inFlight = TRUE, !.only = o] = [w EXCEPT !.only = o]
      OBVIOUS
    <3> HIDE DEF v
    <3>3. w \in Memory
      BY <3>1 DEF Memory
    <3> HIDE DEF w
    <3>4. [w EXCEPT !.only = o] \in Memory
      BY <3>3 DEF Memory
    <3> QED BY <3>2, <3>4
  <2> QED BY <2>1, <2>2, <2>3
<1>35. CASE ArchiveRoom
  BY <1>35, <1>0 DEF ArchiveRoom, Memory
<1>36. ASSUME NEW r \in Route, OwnerSelected(r)
       PROVE  mem' \in Memory
  BY <1>36, <1>0 DEF OwnerSelected, PrepareRoomRun, Memory
<1>37. ASSUME NEW r \in Route, RoutingFails(r)
       PROVE  mem' \in Memory
  BY <1>37, <1>0 DEF RoutingFails, Memory
<1>38. CASE TimePasses
  BY <1>38, <1>0 DEF TimePasses, Memory
<1>39. CASE DeadlineFires
  BY <1>39, <1>0 DEF DeadlineFires, Memory
<1>40. CASE BeginShutdown
  BY <1>40, <1>0 DEF BeginShutdown, Memory
<1>41. CASE ExecutorDrained
  BY <1>41, <1>0 DEF ExecutorDrained, Memory
<1>42. CASE Drained
  BY <1>42, NothingForgotten DEF Drained, Down
<1>43. CASE Crash
  BY <1>43, NothingForgotten DEF Crash, Down
<1>44. CASE Restart
  BY <1>44, <1>0 DEF Restart, Memory
<1> QED BY <1>1, <1>2, <1>3, <1>4, <1>5, <1>6, <1>7, <1>8, <1>9, <1>10, <1>11, <1>12, <1>13,
     <1>14, <1>15, <1>16, <1>17, <1>18, <1>19, <1>20, <1>21, <1>22, <1>23, <1>24, <1>25, <1>26,
     <1>27, <1>28, <1>29, <1>30, <1>31, <1>32, <1>33, <1>34, <1>35, <1>36, <1>37, <1>38, <1>39,
     <1>40, <1>41, <1>42, <1>43, <1>44
  DEF Next, HandlerStep, RunStep, User, RouteAndSend

\* So does the rest.
LEMMA RestTyped ==
  ASSUME Inv, [Next]_vars
  PROVE  /\ orphan' \in BOOLEAN /\ app' \in {"up", "closing", "draining", "down"} /\ at' \in Place
         /\ routing' \in [Route -> Nat] /\ expired' \in BOOLEAN
<1>0. /\ orphan \in BOOLEAN /\ app \in {"up", "closing", "draining", "down"} /\ at \in Place
      /\ routing \in [Route -> Nat] /\ expired \in BOOLEAN
  BY DEF Inv, TypeOK
<1> USE DEF Place
<1>1. CASE UNCHANGED vars
  BY <1>1, <1>0 DEF vars
<1>2. CASE Begin
  BY <1>2, <1>0 DEF Begin, TransitionRoomBatch, StartProcessing
<1>3. CASE LoopEnds
  BY <1>3, <1>0 DEF LoopEnds
<1>4. CASE SettleTurn
  BY <1>4, <1>0 DEF SettleTurn
<1>5. CASE SettleHandoff
  BY <1>5, <1>0 DEF SettleHandoff
<1>6. CASE EndProcess
  BY <1>6, <1>0 DEF EndProcess, RecoverInterruptedRooms, RecoveredTurn, Finished
<1>7. CASE MarkWindingDown
  BY <1>7, <1>0 DEF MarkWindingDown
<1>8. CASE CancelRun
  BY <1>8, <1>0 DEF CancelRun
<1>9. CASE CancelBatch
  BY <1>9, <1>0 DEF CancelBatch, TransitionRoomBatch
<1>10. CASE StopEnds
  <2>1. mem.back \in {"idle", "end"}
    BY DEF Inv, TypeOK, Memory
  <2> QED BY <1>10, <1>0, <2>1 DEF StopEnds
<1>11. CASE RecoverRooms
  BY <1>11, <1>0 DEF RecoverRooms, RecoverInterruptedRooms, RecoveredTurn
<1>12. CASE RecoverRuns
  BY <1>12, <1>0 DEF RecoverRuns
<1>13. ASSUME NEW i \in Turn, Refuse(i)
       PROVE  /\ orphan' \in BOOLEAN /\ app' \in {"up", "closing", "draining",
                   "down"} /\ at' \in Place
         /\ routing' \in [Route -> Nat] /\ expired' \in BOOLEAN
  BY <1>13, <1>0 DEF Refuse
<1>14. ASSUME NEW i \in Turn, DispatchHandoff(i)
       PROVE  /\ orphan' \in BOOLEAN /\ app' \in {"up", "closing", "draining",
                   "down"} /\ at' \in Place
         /\ routing' \in [Route -> Nat] /\ expired' \in BOOLEAN
  BY <1>14, <1>0 DEF DispatchHandoff
<1>15. ASSUME NEW i \in Turn, BeginTurn(i)
       PROVE  /\ orphan' \in BOOLEAN /\ app' \in {"up", "closing", "draining",
                   "down"} /\ at' \in Place
         /\ routing' \in [Route -> Nat] /\ expired' \in BOOLEAN
  BY <1>15, <1>0 DEF BeginTurn
<1>16. ASSUME NEW i \in Turn, Launch(i)
       PROVE  /\ orphan' \in BOOLEAN /\ app' \in {"up", "closing", "draining",
                   "down"} /\ at' \in Place
         /\ routing' \in [Route -> Nat] /\ expired' \in BOOLEAN
  BY <1>16, <1>0 DEF Launch
<1>17. ASSUME NEW i \in Turn, Attach(i)
       PROVE  /\ orphan' \in BOOLEAN /\ app' \in {"up", "closing", "draining",
                   "down"} /\ at' \in Place
         /\ routing' \in [Route -> Nat] /\ expired' \in BOOLEAN
  BY <1>17, <1>0 DEF Attach
<1>18. ASSUME NEW i \in Turn, AcceptHandoff(i)
       PROVE  /\ orphan' \in BOOLEAN /\ app' \in {"up", "closing", "draining",
                   "down"} /\ at' \in Place
         /\ routing' \in [Route -> Nat] /\ expired' \in BOOLEAN
  BY <1>18, <1>0 DEF AcceptHandoff
<1>19. ASSUME NEW i \in Turn, CancelHandoff(i)
       PROVE  /\ orphan' \in BOOLEAN /\ app' \in {"up", "closing", "draining",
                   "down"} /\ at' \in Place
         /\ routing' \in [Route -> Nat] /\ expired' \in BOOLEAN
  BY <1>19, <1>0 DEF CancelHandoff
<1>20. ASSUME NEW i \in Turn, CancelQueued(i)
       PROVE  /\ orphan' \in BOOLEAN /\ app' \in {"up", "closing", "draining",
                   "down"} /\ at' \in Place
         /\ routing' \in [Route -> Nat] /\ expired' \in BOOLEAN
  BY <1>20, <1>0 DEF CancelQueued
<1>21. ASSUME NEW i \in Turn, ProviderStarts(i)
       PROVE  /\ orphan' \in BOOLEAN /\ app' \in {"up", "closing", "draining",
                   "down"} /\ at' \in Place
         /\ routing' \in [Route -> Nat] /\ expired' \in BOOLEAN
  BY <1>21, <1>0 DEF ProviderStarts, Awaits
<1>22. ASSUME NEW i \in Turn, AskContinuation(i)
       PROVE  /\ orphan' \in BOOLEAN /\ app' \in {"up", "closing", "draining",
                   "down"} /\ at' \in Place
         /\ routing' \in [Route -> Nat] /\ expired' \in BOOLEAN
  BY <1>22, <1>0 DEF AskContinuation, Awaits
<1>23. ASSUME NEW i \in Turn, Complete(i)
       PROVE  /\ orphan' \in BOOLEAN /\ app' \in {"up", "closing", "draining",
                   "down"} /\ at' \in Place
         /\ routing' \in [Route -> Nat] /\ expired' \in BOOLEAN
  BY <1>23, <1>0 DEF Complete, Awaits
<1>24. ASSUME NEW i \in Turn, Fail(i)
       PROVE  /\ orphan' \in BOOLEAN /\ app' \in {"up", "closing", "draining",
                   "down"} /\ at' \in Place
         /\ routing' \in [Route -> Nat] /\ expired' \in BOOLEAN
  BY <1>24, <1>0 DEF Fail, Awaits, FailedAs
<1>25. ASSUME NEW i \in Turn, AnswerLate(i)
       PROVE  /\ orphan' \in BOOLEAN /\ app' \in {"up", "closing", "draining",
                   "down"} /\ at' \in Place
         /\ routing' \in [Route -> Nat] /\ expired' \in BOOLEAN
  BY <1>25, <1>0 DEF AnswerLate, Awaits
<1>26. ASSUME NEW i \in Turn, NEW b \in Bot, NEW d \in Task, Handoff(i, b, d)
       PROVE  /\ orphan' \in BOOLEAN /\ app' \in {"up", "closing", "draining",
                   "down"} /\ at' \in Place
         /\ routing' \in [Route -> Nat] /\ expired' \in BOOLEAN
  BY <1>26, <1>0 DEF Handoff, CreateHandoff, CanHandOff, CanCreateTurn, Awaits
<1>27. ASSUME NEW i \in Turn, NEW b \in Bot, NEW d \in Task, DecideHandoff(i, b, d)
       PROVE  /\ orphan' \in BOOLEAN /\ app' \in {"up", "closing", "draining",
                   "down"} /\ at' \in Place
         /\ routing' \in [Route -> Nat] /\ expired' \in BOOLEAN
  BY <1>27, <1>0 DEF DecideHandoff, CreateHandoff, CanHandOff, CanCreateTurn, Awaits
<1>28. ASSUME NEW targets \in SUBSET Bot, Send(targets)
       PROVE  /\ orphan' \in BOOLEAN /\ app' \in {"up", "closing", "draining",
                   "down"} /\ at' \in Place
         /\ routing' \in [Route -> Nat] /\ expired' \in BOOLEAN
  BY <1>28, <1>0 DEF Send, PrepareRoomRun
<1>29. ASSUME NEW r \in Route, SelectOwner(r)
       PROVE  /\ orphan' \in BOOLEAN /\ app' \in {"up", "closing", "draining",
                   "down"} /\ at' \in Place
         /\ routing' \in [Route -> Nat] /\ expired' \in BOOLEAN
  <2>1. /\ routing' = [routing EXCEPT ![r] = room.version]
        /\ UNCHANGED <<orphan, app, at, expired>>
    BY <1>29 DEF SelectOwner
  <2>2. room.version \in Nat /\ None \in Nat
    BY DEF Inv, TypeOK, None
  <2> QED BY <1>0, <2>1, <2>2
<1>30. ASSUME NEW i \in Turn, RetryTurn(i)
       PROVE  /\ orphan' \in BOOLEAN /\ app' \in {"up", "closing", "draining",
                   "down"} /\ at' \in Place
         /\ routing' \in [Route -> Nat] /\ expired' \in BOOLEAN
  BY <1>30, <1>0 DEF RetryTurn, Resume, StartProcessing, MayResume
<1>31. ASSUME NEW b \in Bot, AddMember(b)
       PROVE  /\ orphan' \in BOOLEAN /\ app' \in {"up", "closing", "draining",
                   "down"} /\ at' \in Place
         /\ routing' \in [Route -> Nat] /\ expired' \in BOOLEAN
  BY <1>31, <1>0 DEF AddMember
<1>32. ASSUME NEW b \in Bot, RemoveMember(b)
       PROVE  /\ orphan' \in BOOLEAN /\ app' \in {"up", "closing", "draining",
                   "down"} /\ at' \in Place
         /\ routing' \in [Route -> Nat] /\ expired' \in BOOLEAN
  BY <1>32, <1>0 DEF RemoveMember
<1>33. CASE Cancel
  BY <1>33, <1>0 DEF Cancel
<1>34. CASE Continue
  BY <1>34, <1>0 DEF Continue, Resume, StartProcessing, MayResume
<1>35. CASE ArchiveRoom
  BY <1>35, <1>0 DEF ArchiveRoom
<1>36. ASSUME NEW r \in Route, OwnerSelected(r)
       PROVE  /\ orphan' \in BOOLEAN /\ app' \in {"up", "closing", "draining",
                   "down"} /\ at' \in Place
         /\ routing' \in [Route -> Nat] /\ expired' \in BOOLEAN
  <2>1. /\ routing' = [routing EXCEPT ![r] = None] /\ at' = "begin" /\ expired' = FALSE
        /\ UNCHANGED <<orphan, app>>
    BY <1>36 DEF OwnerSelected, PrepareRoomRun
  <2>2. room.version \in Nat /\ None \in Nat
    BY DEF Inv, TypeOK, None
  <2> QED BY <1>0, <2>1, <2>2
<1>37. ASSUME NEW r \in Route, RoutingFails(r)
       PROVE  /\ orphan' \in BOOLEAN /\ app' \in {"up", "closing", "draining",
                   "down"} /\ at' \in Place
         /\ routing' \in [Route -> Nat] /\ expired' \in BOOLEAN
  <2>1. /\ routing' = [routing EXCEPT ![r] = None]
        /\ UNCHANGED <<orphan, app, at, expired>>
    BY <1>37 DEF RoutingFails
  <2>2. room.version \in Nat /\ None \in Nat
    BY DEF Inv, TypeOK, None
  <2> QED BY <1>0, <2>1, <2>2
<1>38. CASE TimePasses
  BY <1>38, <1>0 DEF TimePasses
<1>39. CASE DeadlineFires
  BY <1>39, <1>0 DEF DeadlineFires
<1>40. CASE BeginShutdown
  <2>1. /\ routing' = [s \in Route |-> None] /\ at' \in {"reject", "idle"} /\ app' = "closing"
        /\ UNCHANGED <<orphan, expired>>
    BY <1>40 DEF BeginShutdown
  <2>2. room.version \in Nat /\ None \in Nat
    BY DEF Inv, TypeOK, None
  <2> QED BY <1>0, <2>1, <2>2
<1>41. CASE ExecutorDrained
  BY <1>41, <1>0 DEF ExecutorDrained
<1>42. CASE Drained
  <2>1. /\ routing' = [s \in Route |-> None] /\ at' = "idle" /\ app' = "down"
        /\ UNCHANGED <<orphan, expired>>
    BY <1>42 DEF Drained, Down
  <2>2. room.version \in Nat /\ None \in Nat
    BY DEF Inv, TypeOK, None
  <2> QED BY <1>0, <2>1, <2>2
<1>43. CASE Crash
  <2>1. /\ routing' = [s \in Route |-> None] /\ at' = "idle" /\ app' = "down"
        /\ UNCHANGED <<orphan, expired>>
    BY <1>43 DEF Crash, Down
  <2>2. room.version \in Nat /\ None \in Nat
    BY DEF Inv, TypeOK, None
  <2> QED BY <1>0, <2>1, <2>2
<1>44. CASE Restart
  BY <1>44, <1>0 DEF Restart
<1> QED BY <1>1, <1>2, <1>3, <1>4, <1>5, <1>6, <1>7, <1>8, <1>9, <1>10, <1>11, <1>12, <1>13,
     <1>14, <1>15, <1>16, <1>17, <1>18, <1>19, <1>20, <1>21, <1>22, <1>23, <1>24, <1>25, <1>26,
     <1>27, <1>28, <1>29, <1>30, <1>31, <1>32, <1>33, <1>34, <1>35, <1>36, <1>37, <1>38, <1>39,
     <1>40, <1>41, <1>42, <1>43, <1>44
  DEF Next, HandlerStep, RunStep, User, RouteAndSend

\* So do the counts.
LEMMA CountsTyped ==
  ASSUME Inv, [Next]_vars
  PROVE  used' \in [batches : 0..Batches, retries : 0..Retries, crashes : 0..Crashes,
           edits : 0..Edits]
<1>0. used \in [batches : 0..Batches, retries : 0..Retries, crashes : 0..Crashes, edits : 0..Edits]
  BY DEF Inv, TypeOK
<1>1. CASE UNCHANGED vars
  BY <1>1, <1>0, Bounds DEF vars
<1>2. CASE Begin
  BY <1>2, <1>0, Bounds DEF Begin, TransitionRoomBatch, StartProcessing
<1>3. CASE LoopEnds
  BY <1>3, <1>0, Bounds DEF LoopEnds
<1>4. CASE SettleTurn
  BY <1>4, <1>0, Bounds DEF SettleTurn
<1>5. CASE SettleHandoff
  BY <1>5, <1>0, Bounds DEF SettleHandoff
<1>6. CASE EndProcess
  BY <1>6, <1>0, Bounds DEF EndProcess, RecoverInterruptedRooms, RecoveredTurn, Finished
<1>7. CASE MarkWindingDown
  BY <1>7, <1>0, Bounds DEF MarkWindingDown
<1>8. CASE CancelRun
  BY <1>8, <1>0, Bounds DEF CancelRun
<1>9. CASE CancelBatch
  BY <1>9, <1>0, Bounds DEF CancelBatch, TransitionRoomBatch
<1>10. CASE StopEnds
  BY <1>10, <1>0, Bounds DEF StopEnds, Finished
<1>11. CASE RecoverRooms
  BY <1>11, <1>0, Bounds DEF RecoverRooms, RecoverInterruptedRooms, RecoveredTurn
<1>12. CASE RecoverRuns
  BY <1>12, <1>0, Bounds DEF RecoverRuns
<1>13. ASSUME NEW i \in Turn, Refuse(i)
       PROVE  used' \in [batches : 0..Batches, retries : 0..Retries, crashes : 0..Crashes,
                edits : 0..Edits]
  BY <1>13, <1>0, Bounds DEF Refuse
<1>14. ASSUME NEW i \in Turn, DispatchHandoff(i)
       PROVE  used' \in [batches : 0..Batches, retries : 0..Retries, crashes : 0..Crashes,
                edits : 0..Edits]
  BY <1>14, <1>0, Bounds DEF DispatchHandoff
<1>15. ASSUME NEW i \in Turn, BeginTurn(i)
       PROVE  used' \in [batches : 0..Batches, retries : 0..Retries, crashes : 0..Crashes,
                edits : 0..Edits]
  BY <1>15, <1>0, Bounds DEF BeginTurn
<1>16. ASSUME NEW i \in Turn, Launch(i)
       PROVE  used' \in [batches : 0..Batches, retries : 0..Retries, crashes : 0..Crashes,
                edits : 0..Edits]
  BY <1>16, <1>0, Bounds DEF Launch
<1>17. ASSUME NEW i \in Turn, Attach(i)
       PROVE  used' \in [batches : 0..Batches, retries : 0..Retries, crashes : 0..Crashes,
                edits : 0..Edits]
  BY <1>17, <1>0, Bounds DEF Attach
<1>18. ASSUME NEW i \in Turn, AcceptHandoff(i)
       PROVE  used' \in [batches : 0..Batches, retries : 0..Retries, crashes : 0..Crashes,
                edits : 0..Edits]
  BY <1>18, <1>0, Bounds DEF AcceptHandoff
<1>19. ASSUME NEW i \in Turn, CancelHandoff(i)
       PROVE  used' \in [batches : 0..Batches, retries : 0..Retries, crashes : 0..Crashes,
                edits : 0..Edits]
  BY <1>19, <1>0, Bounds DEF CancelHandoff
<1>20. ASSUME NEW i \in Turn, CancelQueued(i)
       PROVE  used' \in [batches : 0..Batches, retries : 0..Retries, crashes : 0..Crashes,
                edits : 0..Edits]
  BY <1>20, <1>0, Bounds DEF CancelQueued
<1>21. ASSUME NEW i \in Turn, ProviderStarts(i)
       PROVE  used' \in [batches : 0..Batches, retries : 0..Retries, crashes : 0..Crashes,
                edits : 0..Edits]
  BY <1>21, <1>0, Bounds DEF ProviderStarts, Awaits
<1>22. ASSUME NEW i \in Turn, AskContinuation(i)
       PROVE  used' \in [batches : 0..Batches, retries : 0..Retries, crashes : 0..Crashes,
                edits : 0..Edits]
  BY <1>22, <1>0, Bounds DEF AskContinuation, Awaits
<1>23. ASSUME NEW i \in Turn, Complete(i)
       PROVE  used' \in [batches : 0..Batches, retries : 0..Retries, crashes : 0..Crashes,
                edits : 0..Edits]
  BY <1>23, <1>0, Bounds DEF Complete, Awaits
<1>24. ASSUME NEW i \in Turn, Fail(i)
       PROVE  used' \in [batches : 0..Batches, retries : 0..Retries, crashes : 0..Crashes,
                edits : 0..Edits]
  BY <1>24, <1>0, Bounds DEF Fail, Awaits, FailedAs
<1>25. ASSUME NEW i \in Turn, AnswerLate(i)
       PROVE  used' \in [batches : 0..Batches, retries : 0..Retries, crashes : 0..Crashes,
                edits : 0..Edits]
  BY <1>25, <1>0, Bounds DEF AnswerLate, Awaits
<1>26. ASSUME NEW i \in Turn, NEW b \in Bot, NEW d \in Task, Handoff(i, b, d)
       PROVE  used' \in [batches : 0..Batches, retries : 0..Retries, crashes : 0..Crashes,
                edits : 0..Edits]
  BY <1>26, <1>0, Bounds DEF Handoff, CreateHandoff, CanHandOff, CanCreateTurn, Awaits
<1>27. ASSUME NEW i \in Turn, NEW b \in Bot, NEW d \in Task, DecideHandoff(i, b, d)
       PROVE  used' \in [batches : 0..Batches, retries : 0..Retries, crashes : 0..Crashes,
                edits : 0..Edits]
  BY <1>27, <1>0, Bounds DEF DecideHandoff, CreateHandoff, CanHandOff, CanCreateTurn, Awaits
<1>28. ASSUME NEW targets \in SUBSET Bot, Send(targets)
       PROVE  used' \in [batches : 0..Batches, retries : 0..Retries, crashes : 0..Crashes,
                edits : 0..Edits]
  <2>1. used' = [used EXCEPT !.batches = used.batches + 1] /\ used.batches < Batches
    BY <1>28 DEF Send, PrepareRoomRun
  <2>2. used.batches + 1 \in 0..Batches
    BY <1>0, <2>1, Bounds
  <2> QED BY <1>0, <2>1, <2>2
<1>29. ASSUME NEW r \in Route, SelectOwner(r)
       PROVE  used' \in [batches : 0..Batches, retries : 0..Retries, crashes : 0..Crashes,
                edits : 0..Edits]
  BY <1>29, <1>0, Bounds DEF SelectOwner
<1>30. ASSUME NEW i \in Turn, RetryTurn(i)
       PROVE  used' \in [batches : 0..Batches, retries : 0..Retries, crashes : 0..Crashes,
                edits : 0..Edits]
  BY <1>30, <1>0, Bounds DEF RetryTurn, Resume, StartProcessing, MayResume
<1>31. ASSUME NEW b \in Bot, AddMember(b)
       PROVE  used' \in [batches : 0..Batches, retries : 0..Retries, crashes : 0..Crashes,
                edits : 0..Edits]
  BY <1>31, <1>0, Bounds DEF AddMember, EditsLeft
<1>32. ASSUME NEW b \in Bot, RemoveMember(b)
       PROVE  used' \in [batches : 0..Batches, retries : 0..Retries, crashes : 0..Crashes,
                edits : 0..Edits]
  BY <1>32, <1>0, Bounds DEF RemoveMember, EditsLeft
<1>33. CASE Cancel
  BY <1>33, <1>0, Bounds DEF Cancel
<1>34. CASE Continue
  <2>1. used' = [used EXCEPT !.retries = used.retries + 1] /\ used.retries < Retries
    BY <1>34 DEF Continue, Resume, MayResume
  <2>2. used.retries + 1 \in 0..Retries
    BY <1>0, <2>1, Bounds
  <2> QED BY <1>0, <2>1, <2>2
<1>35. CASE ArchiveRoom
  BY <1>35, <1>0, Bounds DEF ArchiveRoom, EditsLeft
<1>36. ASSUME NEW r \in Route, OwnerSelected(r)
       PROVE  used' \in [batches : 0..Batches, retries : 0..Retries, crashes : 0..Crashes,
                edits : 0..Edits]
  <2>1. used' = [used EXCEPT !.batches = used.batches + 1] /\ used.batches < Batches
    BY <1>36 DEF OwnerSelected, PrepareRoomRun
  <2>2. used.batches + 1 \in 0..Batches
    BY <1>0, <2>1, Bounds
  <2> QED BY <1>0, <2>1, <2>2
<1>37. ASSUME NEW r \in Route, RoutingFails(r)
       PROVE  used' \in [batches : 0..Batches, retries : 0..Retries, crashes : 0..Crashes,
                edits : 0..Edits]
  BY <1>37, <1>0, Bounds DEF RoutingFails
<1>38. CASE TimePasses
  BY <1>38, <1>0, Bounds DEF TimePasses
<1>39. CASE DeadlineFires
  BY <1>39, <1>0, Bounds DEF DeadlineFires
<1>40. CASE BeginShutdown
  BY <1>40, <1>0, Bounds DEF BeginShutdown
<1>41. CASE ExecutorDrained
  BY <1>41, <1>0, Bounds DEF ExecutorDrained
<1>42. CASE Drained
  BY <1>42, <1>0, Bounds DEF Drained, RecoverInterruptedRooms, RecoveredTurn, Down
<1>43. CASE Crash
  BY <1>43, <1>0, Bounds DEF Crash, Down
<1>44. CASE Restart
  BY <1>44, <1>0, Bounds DEF Restart
<1> QED BY <1>1, <1>2, <1>3, <1>4, <1>5, <1>6, <1>7, <1>8, <1>9, <1>10, <1>11, <1>12, <1>13,
     <1>14, <1>15, <1>16, <1>17, <1>18, <1>19, <1>20, <1>21, <1>22, <1>23, <1>24, <1>25, <1>26,
     <1>27, <1>28, <1>29, <1>30, <1>31, <1>32, <1>33, <1>34, <1>35, <1>36, <1>37, <1>38, <1>39,
     <1>40, <1>41, <1>42, <1>43, <1>44
  DEF Next, HandlerStep, RunStep, User, RouteAndSend

\* Every step keeps the types.
LEMMA TypesKept ==
  ASSUME Inv, [Next]_vars
  PROVE  TypeOK'
BY TurnsTyped, RoomTyped, BatchTyped, MemoryTyped, RestTyped, CountsTyped DEF TypeOK

----------------------------------------------------------------------------
(***************************************************************************)
(* The turns of a batch: their numbers, what they come from, their tries.  *)
(***************************************************************************)

\* Turns with the same fields are the same.
LEMMA SameTurn ==
  ASSUME NEW t \in TurnRecord, NEW u,
         Is(u, t, t.state, t.run, t.handoff, t.try, t.cut)
  PROVE  u = t
BY DEF TurnRecord, Is, SameShape

\* What a step keeps of turn j: where it came from; a turn that is not there stays so.
Keeps(j) ==
  /\ SameShape(turn'[j], turn[j])
  /\ turn'[j].state = "none" <=> turn[j].state = "none"
  /\ turn[j].state = "none" => turn'[j] = turn[j]


\* Recovery keeps the turns.
LEMMA RecoveredKeeps ==
  ASSUME Inv, RecoverInterruptedRooms, NEW j \in Turn
  PROVE  Keeps(j)
<1>1. turn[j] \in TurnRecord
  BY DEF Inv, TypeOK
<1>2. CASE turn[j].state = "none"
  <2>1. turn[j] = NoTurn
    BY <1>2 DEF Inv, Numbered, Used
  <2>2. Is(turn'[j], turn[j], turn[j].state, turn[j].run, turn[j].handoff, turn[j].try, turn[j].cut)
    BY <2>1, <1>2, AllRecovered, FreshTurns DEF Now, Active
  <2>3. turn'[j] = turn[j]
    BY <1>1, <2>2, SameTurn
  <2> QED BY <2>3 DEF Keeps, SameShape
<1>3. CASE turn[j].state # "none"
  BY <1>3, AllRecovered DEF Keeps, Now, Is, Ended
<1> QED BY <1>2, <1>3

\* Turns are made by a message and by a handoff; else they are kept.
LEMMA TurnsKept ==
  ASSUME Inv, [Next]_vars
  PROVE  \/ \E version \in Nat : \E targets \in SUBSET Bot : PrepareRoomRun(version, targets)
         \/ \E i \in Turn, b \in Bot, d \in Task : CreateHandoff(i, b, d)
         \/ \A j \in Turn : Keeps(j)
<1>0. /\ \A j \in Turn : turn[j] \in TurnRecord
      /\ \A j \in Turn : turn[j].state = "none" =>
           turn[j].run = "none" /\ turn[j].handoff = "none" /\ turn[j] = NoTurn
      /\ \A j \in Turn : SameShape(turn[j], turn[j])
      /\ QueuedAt
  BY FreshTurns DEF Inv, TypeOK, Numbered, Used, SameShape
<1>1. CASE UNCHANGED vars
  BY <1>1, <1>0, Zenon DEF vars, Keeps
<1>2. ASSUME Begin
      PROVE  \A j \in Turn : Keeps(j)
  BY <1>2, <1>0, Zenon DEF Begin, Keeps
<1>3. ASSUME LoopEnds
      PROVE  \A j \in Turn : Keeps(j)
  BY <1>3, <1>0, Zenon DEF LoopEnds, Keeps
<1>4. ASSUME SettleTurn
      PROVE  \A j \in Turn : Keeps(j)
  <2>1. ASSUME NEW j \in Turn
        PROVE  Keeps(j)
    BY <1>4, AllTurnSteps, <1>0, <2>1 DEF Inv, RunningAt, SettleTurn, Keeps, Now, Is, Running,
         RunActive, ActiveRun, Ended
  <2> QED BY <2>1
<1>5. ASSUME SettleHandoff
      PROVE  \A j \in Turn : Keeps(j)
  <2>1. ASSUME NEW j \in Turn
        PROVE  Keeps(j)
    BY <1>5, AllTurnSteps, <1>0, <2>1 DEF Keeps, Now, Is, Running, RunActive, ActiveRun, Ended
  <2> QED BY <2>1
<1>6. ASSUME EndProcess
      PROVE  \A j \in Turn : Keeps(j)
  <2>1. CASE RecoverInterruptedRooms
    <3>1. ASSUME NEW j \in Turn
          PROVE  Keeps(j)
      BY <2>1, RecoveredKeeps
    <3> QED BY <3>1
  <2>2. CASE UNCHANGED turn
    BY <2>2, <1>0, Zenon DEF Keeps
  <2> QED BY <1>6, <2>1, <2>2 DEF EndProcess
<1>7. ASSUME MarkWindingDown
      PROVE  \A j \in Turn : Keeps(j)
  BY <1>7, <1>0, Zenon DEF MarkWindingDown, Keeps
<1>8. ASSUME CancelRun
      PROVE  \A j \in Turn : Keeps(j)
  <2>1. ASSUME NEW j \in Turn
        PROVE  Keeps(j)
    BY <1>8, AllTurnSteps, <1>0, <2>1 DEF Keeps, Now, Is, Running, RunActive, ActiveRun, Ended
  <2> QED BY <2>1
<1>9. ASSUME CancelBatch
      PROVE  \A j \in Turn : Keeps(j)
  BY <1>9, <1>0, Zenon DEF CancelBatch, Keeps
<1>10. ASSUME StopEnds
       PROVE  \A j \in Turn : Keeps(j)
  BY <1>10, <1>0, Zenon DEF StopEnds, Keeps
<1>11. ASSUME RecoverRooms
       PROVE  \A j \in Turn : Keeps(j)
  BY <1>11, RecoveredKeeps DEF RecoverRooms
<1>12. ASSUME RecoverRuns
       PROVE  \A j \in Turn : Keeps(j)
  <2>1. ASSUME NEW j \in Turn
        PROVE  Keeps(j)
    BY <1>12, AllTurnSteps, <1>0, <2>1 DEF Keeps, Now, Is, Running, RunActive, ActiveRun, Ended
  <2> QED BY <2>1
<1>13. ASSUME NEW i \in Turn, Refuse(i)
       PROVE  \A j \in Turn : Keeps(j)
  BY <1>13, <1>0, Zenon DEF Refuse, Keeps
<1>14. ASSUME NEW i \in Turn, DispatchHandoff(i)
       PROVE  \A j \in Turn : Keeps(j)
  <2>1. Changes(i, "queued", turn[i].run, "dispatching", turn[i].try, turn[i].cut)
    BY <1>14, OneTurnSteps
  <2>2. turn[i].state = "queued"
    BY <1>14, ActingTurn
  <2> QED BY <1>0, <2>1, <2>2 DEF Keeps, Changes, Is
<1>15. ASSUME NEW i \in Turn, BeginTurn(i)
       PROVE  \A j \in Turn : Keeps(j)
  <2>1. Changes(i, "running", turn[i].run, turn[i].handoff, turn[i].try, TRUE)
    BY <1>15, OneTurnSteps
  <2>2. turn[i].state = "queued"
    BY <1>15, ActingTurn
  <2> QED BY <1>0, <2>1, <2>2 DEF Keeps, Changes, Is
<1>16. ASSUME NEW i \in Turn, Launch(i)
       PROVE  \A j \in Turn : Keeps(j)
  <2>1. Changes(i, "failed", turn[i].run, turn[i].handoff, turn[i].try,
          turn[i].cut) \/ UNCHANGED turn
    BY <1>16, OneTurnSteps
  <2>2. turn[i].state = "running"
    BY <1>16, ActingTurn
  <2> QED BY <1>0, <2>1, <2>2 DEF Keeps, Changes, Is
<1>17. ASSUME NEW i \in Turn, Attach(i)
       PROVE  \A j \in Turn : Keeps(j)
  <2>1. Changes(i, turn[i].state, "created", turn[i].handoff, turn[i].try, turn[i].cut)
    BY <1>17, OneTurnSteps
  <2>2. turn[i].state = "running"
    BY <1>17, ActingTurn
  <2> QED BY <1>0, <2>1, <2>2 DEF Keeps, Changes, Is
<1>18. ASSUME NEW i \in Turn, AcceptHandoff(i)
       PROVE  \A j \in Turn : Keeps(j)
  <2>1. Changes(i, turn[i].state, turn[i].run, "accepted", turn[i].try, turn[i].cut)
    BY <1>18, OneTurnSteps
  <2>2. turn[i].state # "none"
    BY <1>18, ActingTurn
  <2> QED BY <1>0, <2>1, <2>2 DEF Keeps, Changes, Is
<1>19. ASSUME NEW i \in Turn, CancelHandoff(i)
       PROVE  \A j \in Turn : Keeps(j)
  <2>1. Changes(i, turn[i].state, turn[i].run, "cancelled", turn[i].try, turn[i].cut)
    BY <1>19, OneTurnSteps
  <2>2. turn[i].state # "none"
    BY <1>19, ActingTurn
  <2> QED BY <1>0, <2>1, <2>2 DEF Keeps, Changes, Is
<1>20. ASSUME NEW i \in Turn, CancelQueued(i)
       PROVE  \A j \in Turn : Keeps(j)
  <2>1. Changes(i, "cancelled", turn[i].run, turn[i].handoff, turn[i].try, turn[i].cut)
    BY <1>20, OneTurnSteps
  <2>2. turn[i].state = "queued"
    BY <1>20, ActingTurn
  <2> QED BY <1>0, <2>1, <2>2 DEF Keeps, Changes, Is
<1>21. ASSUME NEW i \in Turn, ProviderStarts(i)
       PROVE  \A j \in Turn : Keeps(j)
  <2>1. Changes(i, turn[i].state, "started", turn[i].handoff, turn[i].try, turn[i].cut)
    BY <1>21, OneTurnSteps
  <2>2. turn[i].state = "running"
    BY <1>21, ActingTurn
  <2> QED BY <1>0, <2>1, <2>2 DEF Keeps, Changes, Is
<1>22. ASSUME NEW i \in Turn, AskContinuation(i)
       PROVE  \A j \in Turn : Keeps(j)
  BY <1>22, <1>0, Zenon DEF AskContinuation, Keeps
<1>23. ASSUME NEW i \in Turn, Complete(i)
       PROVE  \A j \in Turn : Keeps(j)
  <2>1. \E r \in {"completed", "cancelled"} :
        Changes(i, turn[i].state, r, turn[i].handoff, turn[i].try, turn[i].cut)
    BY <1>23, OneTurnSteps
  <2>2. turn[i].state = "running"
    BY <1>23, ActingTurn
  <2> QED BY <1>0, <2>1, <2>2 DEF Keeps, Changes, Is
<1>24. ASSUME NEW i \in Turn, Fail(i)
       PROVE  \A j \in Turn : Keeps(j)
  <2>1. \E r \in {"failed", "cancelled", "interrupted"} :
        Changes(i, turn[i].state, r, turn[i].handoff, turn[i].try, turn[i].cut)
    BY <1>24, OneTurnSteps
  <2>2. turn[i].state = "running"
    BY <1>24, ActingTurn
  <2> QED BY <1>0, <2>1, <2>2 DEF Keeps, Changes, Is
<1>25. ASSUME NEW i \in Turn, AnswerLate(i)
       PROVE  \A j \in Turn : Keeps(j)
  BY <1>25, <1>0, Zenon DEF AnswerLate, Keeps
<1>26. ASSUME NEW i \in Turn, NEW b \in Bot, NEW d \in Task, Handoff(i, b, d)
       PROVE  \/ \A j \in Turn : Keeps(j)
              \/ \E ii \in Turn, bb \in Bot, dd \in Task : CreateHandoff(ii, bb, dd)
  <2>1. CASE UNCHANGED turn
    BY <2>1, <1>0, Zenon DEF Keeps
  <2>2. CASE CreateHandoff(i, b, d)
    BY <2>2
  <2> QED BY <1>26, <2>1, <2>2 DEF Handoff
<1>27. ASSUME NEW i \in Turn, NEW b \in Bot, NEW d \in Task, DecideHandoff(i, b, d)
       PROVE  \E ii \in Turn, bb \in Bot, dd \in Task : CreateHandoff(ii, bb, dd)
  BY <1>27 DEF DecideHandoff, CreateHandoff, CanHandOff, CanCreateTurn, Awaits
<1>28. ASSUME NEW targets \in SUBSET Bot, Send(targets)
       PROVE  \E version \in Nat : \E some \in SUBSET Bot : PrepareRoomRun(version, some)
  <2>1. room.version \in Nat
    BY DEF Inv, TypeOK
  <2> QED BY <1>28, <2>1 DEF Send
<1>29. ASSUME NEW r \in Route, SelectOwner(r)
       PROVE  \A j \in Turn : Keeps(j)
  BY <1>29, <1>0, Zenon DEF SelectOwner, Keeps
<1>30. ASSUME NEW i \in Turn, RetryTurn(i)
       PROVE  \A j \in Turn : Keeps(j)
  <2>1. Changes(i, "queued", "none", turn[i].handoff, turn[i].try + 1, turn[i].cut)
    BY <1>30, OneTurnSteps
  <2>2. turn[i].state # "none"
    BY <1>30 DEF RetryTurn
  <2> QED BY <2>1, <2>2, <1>0 DEF Keeps, Changes, Is
<1>31. ASSUME NEW b \in Bot, AddMember(b)
       PROVE  \A j \in Turn : Keeps(j)
  BY <1>31, <1>0, Zenon DEF AddMember, Keeps
<1>32. ASSUME NEW b \in Bot, RemoveMember(b)
       PROVE  \A j \in Turn : Keeps(j)
  BY <1>32, <1>0, Zenon DEF RemoveMember, Keeps
<1>33. ASSUME Cancel
       PROVE  \A j \in Turn : Keeps(j)
  BY <1>33, <1>0, Zenon DEF Cancel, Keeps
<1>34. ASSUME Continue
       PROVE  \A j \in Turn : Keeps(j)
  <2>1. ASSUME NEW j \in Turn
        PROVE  Keeps(j)
    BY <1>34, AllTurnSteps, <1>0, <2>1 DEF Keeps, Now, Is, Running, RunActive, ActiveRun, Ended
  <2> QED BY <2>1
<1>35. ASSUME ArchiveRoom
       PROVE  \A j \in Turn : Keeps(j)
  BY <1>35, <1>0, Zenon DEF ArchiveRoom, Keeps
<1>36. ASSUME NEW r \in Route, OwnerSelected(r)
       PROVE  \E version \in Nat : \E some \in SUBSET Bot : PrepareRoomRun(version, some)
  <2>1. PICK bot \in Bot : PrepareRoomRun(routing[r], {bot})
    BY <1>36 DEF OwnerSelected
  <2>2. routing[r] \in Nat /\ {bot} \in SUBSET Bot
    BY DEF Inv, TypeOK
  <2> QED BY <2>1, <2>2
<1>37. ASSUME NEW r \in Route, RoutingFails(r)
       PROVE  \A j \in Turn : Keeps(j)
  BY <1>37, <1>0, Zenon DEF RoutingFails, Keeps
<1>38. ASSUME TimePasses
       PROVE  \A j \in Turn : Keeps(j)
  BY <1>38, <1>0, Zenon DEF TimePasses, Keeps
<1>39. ASSUME DeadlineFires
       PROVE  \A j \in Turn : Keeps(j)
  BY <1>39, <1>0, Zenon DEF DeadlineFires, Keeps
<1>40. ASSUME BeginShutdown
       PROVE  \A j \in Turn : Keeps(j)
  BY <1>40, <1>0, Zenon DEF BeginShutdown, Keeps
<1>41. ASSUME ExecutorDrained
       PROVE  \A j \in Turn : Keeps(j)
  <2>1. ASSUME NEW j \in Turn
        PROVE  Keeps(j)
    BY <1>41, AllTurnSteps, <1>0, <2>1 DEF Keeps, Now, Is, Running, RunActive, ActiveRun, Ended
  <2> QED BY <2>1
<1>42. ASSUME Drained
       PROVE  \A j \in Turn : Keeps(j)
  BY <1>42, RecoveredKeeps DEF Drained
<1>43. ASSUME Crash
       PROVE  \A j \in Turn : Keeps(j)
  BY <1>43, <1>0, Zenon DEF Crash, Keeps
<1>44. ASSUME Restart
       PROVE  \A j \in Turn : Keeps(j)
  BY <1>44, <1>0, Zenon DEF Restart, Keeps
<1> QED BY <1>1, <1>2, <1>3, <1>4, <1>5, <1>6, <1>7, <1>8, <1>9, <1>10, <1>11, <1>12, <1>13,
     <1>14, <1>15, <1>16, <1>17, <1>18, <1>19, <1>20, <1>21, <1>22, <1>23, <1>24, <1>25, <1>26,
     <1>27, <1>28, <1>29, <1>30, <1>31, <1>32, <1>33, <1>34, <1>35, <1>36, <1>37, <1>38, <1>39,
     <1>40, <1>41, <1>42, <1>43, <1>44
  DEF Next, HandlerStep, RunStep, User, RouteAndSend

\* The turns that a message and a handoff make.
LEMMA UsedGrows ==
  ASSUME Inv
  PROVE  /\ \A version \in Nat : \A targets \in SUBSET Bot : PrepareRoomRun(version, targets) =>
              \E n \in 0..MaxTurns :
                /\ Used' = 1..n
                /\ \A j \in Used' : \E b \in targets : turn'[j] = Fresh(b)
                /\ \A j \in Turn \ Used' : turn'[j] = NoTurn
         /\ \A i \in Turn, b \in Bot, d \in Task : CreateHandoff(i, b, d) =>
              /\ i \in Used /\ Cardinality(Used) < MaxTurns
              /\ Used = 1..Cardinality(Used)
              /\ Used' = Used \cup {Cardinality(Used) + 1}
         /\ (\A j \in Turn : Keeps(j)) => Used' = Used
<1>1. ASSUME NEW version \in Nat, NEW targets \in SUBSET Bot, PrepareRoomRun(version, targets)
      PROVE  \E n \in 0..MaxTurns :
               /\ Used' = 1..n
               /\ \A j \in Used' : \E b \in targets : turn'[j] = Fresh(b)
               /\ \A j \in Turn \ Used' : turn'[j] = NoTurn
  <2>1. PICK n \in 0..MaxTurns :
          \A j \in Turn : IF j \in 1..n THEN \E b \in targets : turn'[j] = Fresh(b)
                          ELSE turn'[j] = NoTurn
    BY <1>1, Prepared
  <2>2. \A j \in Turn : turn'[j].state # "none" <=> j \in 1..n
    BY <2>1, FreshTurns
  <2>3. 1..n \subseteq Turn
    BY <2>1, Bounds DEF Turn
  <2>4. Used' = 1..n
    BY <2>2, <2>3 DEF Used
  <2> QED BY <2>1, <2>3, <2>4
<1>2. ASSUME NEW i \in Turn, NEW b \in Bot, NEW d \in Task, CreateHandoff(i, b, d)
      PROVE  /\ i \in Used /\ Cardinality(Used) < MaxTurns
             /\ Used = 1..Cardinality(Used)
             /\ Used' = Used \cup {Cardinality(Used) + 1}
  <2>1. i \in Used /\ Cardinality(Used) < MaxTurns
    BY <1>2 DEF CreateHandoff, CanHandOff, CanCreateTurn, Used
  <2>2. Used = 1..Cardinality(Used)
    BY UsedNumbers DEF Inv
  <2> DEFINE m == Cardinality(Used) + 1
  <2>3. /\ m \in Turn /\ turn'[m].state = "queued"
        /\ \A j \in Turn \ {m} : turn'[j] = turn[j]
    BY <1>2, Created
  <2> HIDE DEF m
  <2>4. Used' = Used \cup {m}
    BY <2>3 DEF Used
  <2> QED BY <2>1, <2>2, <2>4 DEF m
<1>3. (\A j \in Turn : Keeps(j)) => Used' = Used
  BY DEF Keeps, Used
<1> QED BY <1>1, <1>2, <1>3

\* Turns are numbered without gaps, each after the one it comes from.
LEMMA NumbersKept ==
  ASSUME Inv, [Next]_vars
  PROVE  Numbered'
<1>0. Numbered /\ \A j \in Turn : turn[j].from \in {None} \cup Turn
  BY TurnParts DEF Inv, TypeOK
<1>1. CASE \E version \in Nat : \E targets \in SUBSET Bot : PrepareRoomRun(version, targets)
  <2>1. PICK version \in Nat, targets \in SUBSET Bot : PrepareRoomRun(version, targets)
    BY <1>1
  <2>2. PICK n \in 0..MaxTurns :
          /\ Used' = 1..n
          /\ \A j \in Used' : \E b \in targets : turn'[j] = Fresh(b)
          /\ \A j \in Turn \ Used' : turn'[j] = NoTurn
    BY <2>1, UsedGrows
  <2>3. \A j \in Used' : turn'[j].from < j
    BY <2>2, FreshTurns DEF None
  <2> QED BY <2>2, <2>3 DEF Numbered
<1>2. CASE \E i \in Turn, b \in Bot, d \in Task : CreateHandoff(i, b, d)
  <2>1. PICK i \in Turn, b \in Bot, d \in Task : CreateHandoff(i, b, d)
    BY <1>2
  <2> DEFINE c == Cardinality(Used)
  <2>2. i \in Used /\ c < MaxTurns /\ Used = 1..c /\ Used' = Used \cup {c + 1}
    BY <2>1, UsedGrows
  <2>3. /\ c + 1 \in Turn /\ turn'[c + 1].from = i
        /\ \A j \in Turn \ {c + 1} : turn'[j] = turn[j]
    BY <2>1, Created
  <2>4. c \in 0..MaxTurns
    BY <1>0, UsedNumbers
  <2> HIDE DEF c
  <2>5. Used' = 1..(c + 1) /\ c + 1 \in 0..MaxTurns
    BY <2>2, <2>4, Bounds
  <2>6. \A j \in Turn \ Used' : turn'[j] = NoTurn
    BY <1>0, <2>2, <2>3 DEF Numbered
  <2>7. \A j \in Used' : turn'[j].from < j
    <3>1. ASSUME NEW j \in Used
          PROVE  turn'[j].from < j
      BY <1>0, <2>2, <2>3, <2>4, <3>1 DEF Numbered, Used
    <3>2. turn'[c + 1].from < c + 1
      BY <2>2, <2>3, <2>4
    <3> QED BY <2>2, <3>1, <3>2
  <2> QED BY <2>5, <2>6, <2>7 DEF Numbered
<1>3. CASE \A j \in Turn : Keeps(j)
  <2>1. Used' = Used
    BY <1>3, UsedGrows
  <2>2. \A j \in Turn : turn'[j].from = turn[j].from
    BY <1>3 DEF Keeps, SameShape
  <2>3. \A j \in Turn \ Used : turn'[j] = turn[j]
    BY <1>3 DEF Keeps, Used
  <2>4. Used \subseteq Turn
    BY DEF Used
  <2> QED BY <1>0, <2>1, <2>2, <2>3, <2>4 DEF Numbered
<1> QED BY <1>1, <1>2, <1>3, TurnsKept

\* New turns are at their first attempt.
LEMMA PreparedTries ==
  ASSUME NEW version, NEW targets \in SUBSET Bot, PrepareRoomRun(version, targets)
  PROVE  \A j \in Turn : turn'[j].try \in {0, 1}
<1>1. PICK n \in 0..MaxTurns :
        \A j \in Turn : IF j \in 1..n THEN \E b \in targets : turn'[j] = Fresh(b)
                        ELSE turn'[j] = NoTurn
  BY Prepared
<1> QED BY <1>1, FreshTurns DEF None

\* The attempts of a turn are counted.
LEMMA TriesKept ==
  ASSUME Inv, [Next]_vars
  PROVE  TriesCounted'
<1>0. /\ TriesCounted /\ used.retries \in Nat /\ \A j \in Turn : turn[j].try \in Nat
      /\ used \in [batches : 0..Batches, retries : 0..Retries, crashes : 0..Crashes,
           edits : 0..Edits]
  <2>1. \A j \in Turn : turn[j] \in TurnRecord
    BY DEF Inv, TypeOK
  <2>2. \A j \in Turn : turn[j].try \in Nat
    <3>1. \A j \in Turn : turn[j].try \in {None} \cup Try
      BY <2>1, TurnParts
    <3>2. {None} \cup Try \subseteq Nat
      BY Bounds DEF None
    <3> QED BY <3>1, <3>2
  <2> QED BY <2>2, Bounds DEF Inv, TypeOK
<1>1. CASE UNCHANGED vars
  BY <1>1, <1>0 DEF vars, TriesCounted
<1>2. CASE Begin
  BY <1>2, <1>0 DEF Begin, TriesCounted, TransitionRoomBatch
<1>3. CASE LoopEnds
  BY <1>3, <1>0 DEF LoopEnds, TriesCounted
<1>4. CASE SettleTurn
  <2>1. \A j \in Turn : turn'[j].try = turn[j].try
    BY <1>4, AllTurnSteps DEF Now, Is
  <2> QED BY <1>4, <1>0, <2>1 DEF SettleTurn, TriesCounted
<1>5. CASE SettleHandoff
  <2>1. \A j \in Turn : turn'[j].try = turn[j].try
    BY <1>5, AllTurnSteps DEF Now, Is
  <2> QED BY <1>5, <1>0, <2>1 DEF SettleHandoff, TriesCounted
<1>6. CASE EndProcess
  <2>1. RecoverInterruptedRooms => \A j \in Turn : turn'[j].try = turn[j].try
    BY AllRecovered DEF Now, Is
  <2>2. RecoverInterruptedRooms \/ UNCHANGED turn
    BY <1>6 DEF EndProcess
  <2>3. \A j \in Turn : turn'[j].try = turn[j].try
    BY <2>1, <2>2
  <2> QED BY <1>6, <1>0, <2>3 DEF EndProcess, TriesCounted
<1>7. CASE MarkWindingDown
  BY <1>7, <1>0 DEF MarkWindingDown, TriesCounted
<1>8. CASE CancelRun
  <2>1. \A j \in Turn : turn'[j].try = turn[j].try
    BY <1>8, AllTurnSteps DEF Now, Is
  <2> QED BY <1>8, <1>0, <2>1 DEF CancelRun, TriesCounted
<1>9. CASE CancelBatch
  BY <1>9, <1>0 DEF CancelBatch, TriesCounted, TransitionRoomBatch
<1>10. CASE StopEnds
  BY <1>10, <1>0 DEF StopEnds, TriesCounted
<1>11. CASE RecoverRooms
  <2>1. \A j \in Turn : turn'[j].try = turn[j].try
    BY <1>11, AllRecovered DEF Now, Is, RecoverRooms
  <2> QED BY <1>11, <1>0, <2>1 DEF RecoverRooms, TriesCounted
<1>12. CASE RecoverRuns
  <2>1. \A j \in Turn : turn'[j].try = turn[j].try
    BY <1>12, AllTurnSteps DEF Now, Is
  <2> QED BY <1>12, <1>0, <2>1 DEF RecoverRuns, TriesCounted
<1>13. ASSUME NEW i \in Turn, Refuse(i)
       PROVE  TriesCounted'
  BY <1>13, <1>0 DEF Refuse, TriesCounted
<1>14. ASSUME NEW i \in Turn, DispatchHandoff(i)
       PROVE  TriesCounted'
  <2>1. Changes(i, "queued", turn[i].run, "dispatching", turn[i].try, turn[i].cut)
    BY <1>14, OneTurnSteps
  <2>2. \A j \in Turn : turn'[j].try = turn[j].try
    BY <2>1 DEF Changes, Is
  <2> QED BY <1>14, <1>0, <2>2 DEF DispatchHandoff, TriesCounted
<1>15. ASSUME NEW i \in Turn, BeginTurn(i)
       PROVE  TriesCounted'
  <2>1. Changes(i, "running", turn[i].run, turn[i].handoff, turn[i].try, TRUE)
    BY <1>15, OneTurnSteps
  <2>2. \A j \in Turn : turn'[j].try = turn[j].try
    BY <2>1 DEF Changes, Is
  <2> QED BY <1>15, <1>0, <2>2 DEF BeginTurn, TriesCounted
<1>16. ASSUME NEW i \in Turn, Launch(i)
       PROVE  TriesCounted'
  <2>1. Changes(i, "failed", turn[i].run, turn[i].handoff, turn[i].try,
          turn[i].cut) \/ UNCHANGED turn
    BY <1>16, OneTurnSteps
  <2>2. \A j \in Turn : turn'[j].try = turn[j].try
    BY <2>1 DEF Changes, Is
  <2> QED BY <1>16, <1>0, <2>2 DEF Launch, TriesCounted
<1>17. ASSUME NEW i \in Turn, Attach(i)
       PROVE  TriesCounted'
  <2>1. Changes(i, turn[i].state, "created", turn[i].handoff, turn[i].try, turn[i].cut)
    BY <1>17, OneTurnSteps
  <2>2. \A j \in Turn : turn'[j].try = turn[j].try
    BY <2>1 DEF Changes, Is
  <2> QED BY <1>17, <1>0, <2>2 DEF Attach, TriesCounted
<1>18. ASSUME NEW i \in Turn, AcceptHandoff(i)
       PROVE  TriesCounted'
  <2>1. Changes(i, turn[i].state, turn[i].run, "accepted", turn[i].try, turn[i].cut)
    BY <1>18, OneTurnSteps
  <2>2. \A j \in Turn : turn'[j].try = turn[j].try
    BY <2>1 DEF Changes, Is
  <2> QED BY <1>18, <1>0, <2>2 DEF AcceptHandoff, TriesCounted
<1>19. ASSUME NEW i \in Turn, CancelHandoff(i)
       PROVE  TriesCounted'
  <2>1. Changes(i, turn[i].state, turn[i].run, "cancelled", turn[i].try, turn[i].cut)
    BY <1>19, OneTurnSteps
  <2>2. \A j \in Turn : turn'[j].try = turn[j].try
    BY <2>1 DEF Changes, Is
  <2> QED BY <1>19, <1>0, <2>2 DEF CancelHandoff, TriesCounted
<1>20. ASSUME NEW i \in Turn, CancelQueued(i)
       PROVE  TriesCounted'
  <2>1. Changes(i, "cancelled", turn[i].run, turn[i].handoff, turn[i].try, turn[i].cut)
    BY <1>20, OneTurnSteps
  <2>2. \A j \in Turn : turn'[j].try = turn[j].try
    BY <2>1 DEF Changes, Is
  <2> QED BY <1>20, <1>0, <2>2 DEF CancelQueued, TriesCounted
<1>21. ASSUME NEW i \in Turn, ProviderStarts(i)
       PROVE  TriesCounted'
  <2>1. Changes(i, turn[i].state, "started", turn[i].handoff, turn[i].try, turn[i].cut)
    BY <1>21, OneTurnSteps
  <2>2. \A j \in Turn : turn'[j].try = turn[j].try
    BY <2>1 DEF Changes, Is
  <2> QED BY <1>21, <1>0, <2>2 DEF ProviderStarts, TriesCounted
<1>22. ASSUME NEW i \in Turn, AskContinuation(i)
       PROVE  TriesCounted'
  BY <1>22, <1>0 DEF AskContinuation, TriesCounted
<1>23. ASSUME NEW i \in Turn, Complete(i)
       PROVE  TriesCounted'
  <2>1. \E r \in {"completed", "cancelled"} :
        Changes(i, turn[i].state, r, turn[i].handoff, turn[i].try, turn[i].cut)
    BY <1>23, OneTurnSteps
  <2>2. \A j \in Turn : turn'[j].try = turn[j].try
    BY <2>1 DEF Changes, Is
  <2> QED BY <1>23, <1>0, <2>2 DEF Complete, TriesCounted
<1>24. ASSUME NEW i \in Turn, Fail(i)
       PROVE  TriesCounted'
  <2>1. \E r \in {"failed", "cancelled", "interrupted"} :
        Changes(i, turn[i].state, r, turn[i].handoff, turn[i].try, turn[i].cut)
    BY <1>24, OneTurnSteps
  <2>2. \A j \in Turn : turn'[j].try = turn[j].try
    BY <2>1 DEF Changes, Is
  <2> QED BY <1>24, <1>0, <2>2 DEF Fail, TriesCounted
<1>25. ASSUME NEW i \in Turn, AnswerLate(i)
       PROVE  TriesCounted'
  BY <1>25, <1>0 DEF AnswerLate, TriesCounted
<1>26. ASSUME NEW i \in Turn, NEW b \in Bot, NEW d \in Task, Handoff(i, b, d)
       PROVE  TriesCounted'
  <2>1. used' = used
    BY <1>26 DEF Handoff
  <2>2. CASE UNCHANGED turn
    BY <1>0, <2>1, <2>2 DEF TriesCounted
  <2>3. CASE CreateHandoff(i, b, d)
    <3>1. \A j \in Turn : turn'[j] = turn[j] \/ turn'[j].try = 1
      BY <2>3, Created
    <3> QED BY <1>0, <2>1, <3>1 DEF TriesCounted
  <2> QED BY <1>26, <2>2, <2>3 DEF Handoff
<1>27. ASSUME NEW i \in Turn, NEW b \in Bot, NEW d \in Task, DecideHandoff(i, b, d)
       PROVE  TriesCounted'
  <2>1. used' = used /\ CreateHandoff(i, b, d)
    BY <1>27 DEF DecideHandoff
  <2>2. \A j \in Turn : turn'[j] = turn[j] \/ turn'[j].try = 1
    BY <2>1, Created
  <2> QED BY <1>0, <2>1, <2>2 DEF TriesCounted
<1>28. ASSUME NEW targets \in SUBSET Bot, Send(targets)
       PROVE  TriesCounted'
  <2>1. room.version \in Nat
    BY DEF Inv, TypeOK
  <2>2. \A j \in Turn : turn'[j].try \in {0, 1}
    BY <1>28, <2>1, PreparedTries DEF Send
  <2>3. used'.retries = used.retries
    BY <1>28, <1>0 DEF Send, PrepareRoomRun
  <2> QED BY <1>0, <2>2, <2>3 DEF TriesCounted
<1>29. ASSUME NEW r \in Route, SelectOwner(r)
       PROVE  TriesCounted'
  BY <1>29, <1>0 DEF SelectOwner, TriesCounted
<1>30. ASSUME NEW i \in Turn, RetryTurn(i)
       PROVE  TriesCounted'
  <2>1. \A j \in Turn : turn'[j].try = turn[j].try \/ turn'[j].try = turn[j].try + 1
    BY <1>30, OneTurnSteps DEF Changes, Is
  <2>2. used'.retries = used.retries + 1
    BY <1>30, <1>0 DEF RetryTurn, Resume
  <2> QED BY <1>0, <2>1, <2>2 DEF TriesCounted
<1>31. ASSUME NEW b \in Bot, AddMember(b)
       PROVE  TriesCounted'
  BY <1>31, <1>0 DEF AddMember, TriesCounted
<1>32. ASSUME NEW b \in Bot, RemoveMember(b)
       PROVE  TriesCounted'
  BY <1>32, <1>0 DEF RemoveMember, TriesCounted
<1>33. CASE Cancel
  BY <1>33, <1>0 DEF Cancel, TriesCounted
<1>34. CASE Continue
  <2>1. \A j \in Turn : turn'[j].try = turn[j].try \/ turn'[j].try = turn[j].try + 1
    BY <1>34, AllTurnSteps DEF Now, Is
  <2>2. used'.retries = used.retries + 1
    BY <1>34, <1>0 DEF Continue, Resume
  <2> QED BY <1>0, <2>1, <2>2 DEF TriesCounted
<1>35. CASE ArchiveRoom
  BY <1>35, <1>0 DEF ArchiveRoom, TriesCounted
<1>36. ASSUME NEW r \in Route, OwnerSelected(r)
       PROVE  TriesCounted'
  <2>1. PICK bot \in Bot : PrepareRoomRun(routing[r], {bot})
    BY <1>36 DEF OwnerSelected
  <2>2. \A j \in Turn : turn'[j].try \in {0, 1}
    BY <2>1, PreparedTries
  <2>3. used'.retries = used.retries
    BY <1>36, <1>0 DEF OwnerSelected, PrepareRoomRun
  <2> QED BY <1>0, <2>2, <2>3 DEF TriesCounted
<1>37. ASSUME NEW r \in Route, RoutingFails(r)
       PROVE  TriesCounted'
  BY <1>37, <1>0 DEF RoutingFails, TriesCounted
<1>38. CASE TimePasses
  BY <1>38, <1>0 DEF TimePasses, TriesCounted
<1>39. CASE DeadlineFires
  BY <1>39, <1>0 DEF DeadlineFires, TriesCounted
<1>40. CASE BeginShutdown
  BY <1>40, <1>0 DEF BeginShutdown, TriesCounted
<1>41. CASE ExecutorDrained
  <2>1. \A j \in Turn : turn'[j].try = turn[j].try
    BY <1>41, AllTurnSteps DEF Now, Is
  <2> QED BY <1>41, <1>0, <2>1 DEF ExecutorDrained, TriesCounted
<1>42. CASE Drained
  <2>1. \A j \in Turn : turn'[j].try = turn[j].try
    BY <1>42, AllRecovered DEF Now, Is, Drained
  <2> QED BY <1>42, <1>0, <2>1 DEF Drained, TriesCounted
<1>43. CASE Crash
  BY <1>43, <1>0 DEF Crash, TriesCounted, Down
<1>44. CASE Restart
  BY <1>44, <1>0 DEF Restart, TriesCounted
<1> QED BY <1>1, <1>2, <1>3, <1>4, <1>5, <1>6, <1>7, <1>8, <1>9, <1>10, <1>11, <1>12, <1>13,
     <1>14, <1>15, <1>16, <1>17, <1>18, <1>19, <1>20, <1>21, <1>22, <1>23, <1>24, <1>25, <1>26,
     <1>27, <1>28, <1>29, <1>30, <1>31, <1>32, <1>33, <1>34, <1>35, <1>36, <1>37, <1>38, <1>39,
     <1>40, <1>41, <1>42, <1>43, <1>44
  DEF Next, HandlerStep, RunStep, User, RouteAndSend

\* CutTells of turn j.
CutAt(j) ==
  /\ turn[j].state = "queued" => turn[j].run = "none"
  /\ turn[j].state = "running" => turn[j].cut
  /\ ~turn[j].cut => turn[j].run = "none"

\* ... after recovery and after a message.
LEMMA RecoveredCut ==
  ASSUME Inv, RecoverInterruptedRooms
  PROVE  CutTells'
<1> SUFFICES ASSUME NEW j \in Turn
             PROVE  CutAt(j)'
  BY DEF CutTells, CutAt
<1>1. CutAt(j)
  BY DEF Inv, CutTells, CutAt
<1> QED BY <1>1, AllRecovered DEF CutAt, Now, Is, ActiveRun, Active, Ended

\* A new batch has no turn that is cut off.
LEMMA PreparedCut ==
  ASSUME NEW version, NEW targets \in SUBSET Bot, PrepareRoomRun(version, targets)
  PROVE  CutTells'
<1>1. PICK n \in 0..MaxTurns :
        \A j \in Turn : IF j \in 1..n THEN \E b \in targets : turn'[j] = Fresh(b)
                        ELSE turn'[j] = NoTurn
  BY Prepared
<1> QED BY <1>1, FreshTurns DEF CutTells

\* What a Provider may have seen is told from what has only been queued.
LEMMA CutKept ==
  ASSUME Inv, [Next]_vars
  PROVE  CutTells'
<1>0. CutTells /\ QueuedAt
  BY DEF Inv
<1>1. CASE UNCHANGED vars
  BY <1>1, <1>0 DEF vars, CutTells
<1>2. CASE Begin
  BY <1>2, <1>0 DEF Begin, CutTells, TransitionRoomBatch
<1>3. CASE LoopEnds
  BY <1>3, <1>0 DEF LoopEnds, CutTells
<1>4. CASE SettleTurn
  <2> SUFFICES ASSUME NEW j \in Turn
               PROVE  CutAt(j)'
    BY DEF CutTells, CutAt
  <2>1. CutAt(j) /\ RunningAt
    BY DEF Inv, CutTells, CutAt
  <2> QED BY <1>4, <2>1, AllTurnSteps
    DEF CutAt, Now, Is, RunActive, ActiveRun, Ended, Running, RunningAt, SettleTurn
<1>5. CASE SettleHandoff
  <2> SUFFICES ASSUME NEW j \in Turn
               PROVE  CutAt(j)'
    BY DEF CutTells, CutAt
  <2>1. CutAt(j) /\ RunningAt
    BY DEF Inv, CutTells, CutAt
  <2> QED BY <1>5, <2>1, AllTurnSteps
    DEF CutAt, Now, Is, RunActive, ActiveRun, Ended, Running, RunningAt, SettleHandoff
<1>6. CASE EndProcess
  <2>1. CASE UNCHANGED turn
    BY <2>1, <1>0 DEF CutTells
  <2> QED BY <1>6, <2>1, RecoveredCut DEF EndProcess
<1>7. CASE MarkWindingDown
  BY <1>7, <1>0 DEF MarkWindingDown, CutTells
<1>8. CASE CancelRun
  <2> SUFFICES ASSUME NEW j \in Turn
               PROVE  CutAt(j)'
    BY DEF CutTells, CutAt
  <2>1. CutAt(j) /\ RunningAt
    BY DEF Inv, CutTells, CutAt
  <2> QED BY <1>8, <2>1, AllTurnSteps
    DEF CutAt, Now, Is, RunActive, ActiveRun, Ended, Running, RunningAt, CancelRun
<1>9. CASE CancelBatch
  BY <1>9, <1>0 DEF CancelBatch, CutTells, TransitionRoomBatch
<1>10. CASE StopEnds
  BY <1>10, <1>0 DEF StopEnds, CutTells
<1>11. CASE RecoverRooms
  BY <1>11, RecoveredCut DEF RecoverRooms
<1>12. CASE RecoverRuns
  <2> SUFFICES ASSUME NEW j \in Turn
               PROVE  CutAt(j)'
    BY DEF CutTells, CutAt
  <2>1. CutAt(j) /\ RunningAt
    BY DEF Inv, CutTells, CutAt
  <2> QED BY <1>12, <2>1, AllTurnSteps
    DEF CutAt, Now, Is, RunActive, ActiveRun, Ended, Running, RunningAt, RecoverRuns
<1>13. ASSUME NEW i \in Turn, Refuse(i)
       PROVE  CutTells'
  BY <1>13, <1>0 DEF Refuse, CutTells
<1>14. ASSUME NEW i \in Turn, DispatchHandoff(i)
       PROVE  CutTells'
  <2>1. Changes(i, "queued", turn[i].run, "dispatching", turn[i].try, turn[i].cut)
    BY <1>14, OneTurnSteps
  <2>2. turn[i].state = "queued"
    BY <1>14, ActingTurn
  <2> QED BY <1>0, <2>1, <2>2 DEF CutTells, Changes, Is
<1>15. ASSUME NEW i \in Turn, BeginTurn(i)
       PROVE  CutTells'
  <2>1. Changes(i, "running", turn[i].run, turn[i].handoff, turn[i].try, TRUE)
    BY <1>15, OneTurnSteps
  <2>2. turn[i].state = "queued"
    BY <1>15, ActingTurn
  <2> QED BY <1>0, <2>1, <2>2 DEF CutTells, Changes, Is
<1>16. ASSUME NEW i \in Turn, Launch(i)
       PROVE  CutTells'
  <2>1. Changes(i, "failed", turn[i].run, turn[i].handoff, turn[i].try,
          turn[i].cut) \/ UNCHANGED turn
    BY <1>16, OneTurnSteps
  <2>2. turn[i].state = "running"
    BY <1>16, ActingTurn
  <2> QED BY <1>0, <2>1, <2>2 DEF CutTells, Changes, Is
<1>17. ASSUME NEW i \in Turn, Attach(i)
       PROVE  CutTells'
  <2>1. Changes(i, turn[i].state, "created", turn[i].handoff, turn[i].try, turn[i].cut)
    BY <1>17, OneTurnSteps
  <2>2. turn[i].state = "running"
    BY <1>17, ActingTurn
  <2> QED BY <1>0, <2>1, <2>2 DEF CutTells, Changes, Is
<1>18. ASSUME NEW i \in Turn, AcceptHandoff(i)
       PROVE  CutTells'
  <2>1. Changes(i, turn[i].state, turn[i].run, "accepted", turn[i].try, turn[i].cut)
    BY <1>18, OneTurnSteps
  <2>2. turn[i].state # "none"
    BY <1>18, ActingTurn
  <2> QED BY <1>0, <2>1, <2>2 DEF CutTells, Changes, Is
<1>19. ASSUME NEW i \in Turn, CancelHandoff(i)
       PROVE  CutTells'
  <2>1. Changes(i, turn[i].state, turn[i].run, "cancelled", turn[i].try, turn[i].cut)
    BY <1>19, OneTurnSteps
  <2>2. turn[i].state # "none"
    BY <1>19, ActingTurn
  <2> QED BY <1>0, <2>1, <2>2 DEF CutTells, Changes, Is
<1>20. ASSUME NEW i \in Turn, CancelQueued(i)
       PROVE  CutTells'
  <2>1. Changes(i, "cancelled", turn[i].run, turn[i].handoff, turn[i].try, turn[i].cut)
    BY <1>20, OneTurnSteps
  <2>2. turn[i].state = "queued"
    BY <1>20, ActingTurn
  <2> QED BY <1>0, <2>1, <2>2 DEF CutTells, Changes, Is
<1>21. ASSUME NEW i \in Turn, ProviderStarts(i)
       PROVE  CutTells'
  <2>1. Changes(i, turn[i].state, "started", turn[i].handoff, turn[i].try, turn[i].cut)
    BY <1>21, OneTurnSteps
  <2>2. turn[i].state = "running"
    BY <1>21, ActingTurn
  <2> QED BY <1>0, <2>1, <2>2 DEF CutTells, Changes, Is
<1>22. ASSUME NEW i \in Turn, AskContinuation(i)
       PROVE  CutTells'
  BY <1>22, <1>0 DEF AskContinuation, CutTells
<1>23. ASSUME NEW i \in Turn, Complete(i)
       PROVE  CutTells'
  <2>1. \E r \in {"completed", "cancelled"} :
        Changes(i, turn[i].state, r, turn[i].handoff, turn[i].try, turn[i].cut)
    BY <1>23, OneTurnSteps
  <2>2. turn[i].state = "running"
    BY <1>23, ActingTurn
  <2> QED BY <1>0, <2>1, <2>2 DEF CutTells, Changes, Is
<1>24. ASSUME NEW i \in Turn, Fail(i)
       PROVE  CutTells'
  <2>1. \E r \in {"failed", "cancelled", "interrupted"} :
        Changes(i, turn[i].state, r, turn[i].handoff, turn[i].try, turn[i].cut)
    BY <1>24, OneTurnSteps
  <2>2. turn[i].state = "running"
    BY <1>24, ActingTurn
  <2> QED BY <1>0, <2>1, <2>2 DEF CutTells, Changes, Is
<1>25. ASSUME NEW i \in Turn, AnswerLate(i)
       PROVE  CutTells'
  BY <1>25, <1>0 DEF AnswerLate, CutTells
<1>26. ASSUME NEW i \in Turn, NEW b \in Bot, NEW d \in Task, Handoff(i, b, d)
       PROVE  CutTells'
  <2>1. CASE UNCHANGED turn
    BY <2>1, <1>0 DEF CutTells
  <2>2. CASE CreateHandoff(i, b, d)
    <3>1. \A j \in Turn : turn'[j] = turn[j] \/ (turn'[j].state = "queued" /\ turn'[j].run = "none")
      BY <2>2, Created
    <3> QED BY <1>0, <3>1 DEF CutTells
  <2> QED BY <1>26, <2>1, <2>2 DEF Handoff
<1>27. ASSUME NEW i \in Turn, NEW b \in Bot, NEW d \in Task, DecideHandoff(i, b, d)
       PROVE  CutTells'
  <2>1. CreateHandoff(i, b, d)
    BY <1>27 DEF DecideHandoff
  <2>2. \A j \in Turn : turn'[j] = turn[j] \/ (turn'[j].state = "queued" /\ turn'[j].run = "none")
    BY <2>1, Created
  <2> QED BY <1>0, <2>2 DEF CutTells
<1>28. ASSUME NEW targets \in SUBSET Bot, Send(targets)
       PROVE  CutTells'
  <2>1. PrepareRoomRun(room.version, targets)
    BY <1>28 DEF Send
  <2> QED BY <2>1, PreparedCut
<1>29. ASSUME NEW r \in Route, SelectOwner(r)
       PROVE  CutTells'
  BY <1>29, <1>0 DEF SelectOwner, CutTells
<1>30. ASSUME NEW i \in Turn, RetryTurn(i)
       PROVE  CutTells'
  <2>1. Changes(i, "queued", "none", turn[i].handoff, turn[i].try + 1, turn[i].cut)
    BY <1>30, OneTurnSteps
  <2>2. "queued" # "running"
    BY Zenon
  <2> QED BY <1>0, <2>1, <2>2 DEF CutTells, Changes, Is
<1>31. ASSUME NEW b \in Bot, AddMember(b)
       PROVE  CutTells'
  BY <1>31, <1>0 DEF AddMember, CutTells
<1>32. ASSUME NEW b \in Bot, RemoveMember(b)
       PROVE  CutTells'
  BY <1>32, <1>0 DEF RemoveMember, CutTells
<1>33. CASE Cancel
  BY <1>33, <1>0 DEF Cancel, CutTells
<1>34. CASE Continue
  <2> SUFFICES ASSUME NEW j \in Turn
               PROVE  CutAt(j)'
    BY DEF CutTells, CutAt
  <2>1. CutAt(j) /\ RunningAt
    BY DEF Inv, CutTells, CutAt
  <2> QED BY <1>34, <2>1, AllTurnSteps
    DEF CutAt, Now, Is, RunActive, ActiveRun, Ended, Running, RunningAt, Continue
<1>35. CASE ArchiveRoom
  BY <1>35, <1>0 DEF ArchiveRoom, CutTells
<1>36. ASSUME NEW r \in Route, OwnerSelected(r)
       PROVE  CutTells'
  <2>1. PICK bot \in Bot : PrepareRoomRun(routing[r], {bot})
    BY <1>36 DEF OwnerSelected
  <2> QED BY <2>1, PreparedCut
<1>37. ASSUME NEW r \in Route, RoutingFails(r)
       PROVE  CutTells'
  BY <1>37, <1>0 DEF RoutingFails, CutTells
<1>38. CASE TimePasses
  BY <1>38, <1>0 DEF TimePasses, CutTells
<1>39. CASE DeadlineFires
  BY <1>39, <1>0 DEF DeadlineFires, CutTells
<1>40. CASE BeginShutdown
  BY <1>40, <1>0 DEF BeginShutdown, CutTells
<1>41. CASE ExecutorDrained
  <2> SUFFICES ASSUME NEW j \in Turn
               PROVE  CutAt(j)'
    BY DEF CutTells, CutAt
  <2>1. CutAt(j) /\ RunningAt
    BY DEF Inv, CutTells, CutAt
  <2> QED BY <1>41, <2>1, AllTurnSteps
    DEF CutAt, Now, Is, RunActive, ActiveRun, Ended, Running, RunningAt, ExecutorDrained
<1>42. CASE Drained
  BY <1>42, RecoveredCut DEF Drained
<1>43. CASE Crash
  BY <1>43, <1>0 DEF Crash, CutTells, Down
<1>44. CASE Restart
  BY <1>44, <1>0 DEF Restart, CutTells
<1> QED BY <1>1, <1>2, <1>3, <1>4, <1>5, <1>6, <1>7, <1>8, <1>9, <1>10, <1>11, <1>12, <1>13,
     <1>14, <1>15, <1>16, <1>17, <1>18, <1>19, <1>20, <1>21, <1>22, <1>23, <1>24, <1>25, <1>26,
     <1>27, <1>28, <1>29, <1>30, <1>31, <1>32, <1>33, <1>34, <1>35, <1>36, <1>37, <1>38, <1>39,
     <1>40, <1>41, <1>42, <1>43, <1>44
  DEF Next, HandlerStep, RunStep, User, RouteAndSend

----------------------------------------------------------------------------
(***************************************************************************)
(* The turn that runs.                                                     *)
(***************************************************************************)

\* Recovery and a message leave no turn running.
LEMMA NoneRecovered ==
  ASSUME Inv, RecoverInterruptedRooms
  PROVE  Running' = {}
BY AllRecovered DEF Now, Is, Running, Active, Ended

\* No turn of a new batch works yet.
LEMMA NonePrepared ==
  ASSUME NEW version, NEW targets \in SUBSET Bot, PrepareRoomRun(version, targets)
  PROVE  Running' = {}
<1>1. PICK n \in 0..MaxTurns :
        \A j \in Turn : IF j \in 1..n THEN \E b \in targets : turn'[j] = Fresh(b)
                        ELSE turn'[j] = NoTurn
  BY Prepared
<1> QED BY <1>1, FreshTurns DEF Running


\* One turn runs at most, and it has a run.
LEMMA RunningKept ==
  ASSUME Inv, [Next]_vars
  PROVE  RunningAt'
<1>0. /\ RunningAt /\ CutTells /\ QueuedAt
      /\ app \in {"up", "closing", "draining", "down"} /\ at \in Place
      /\ mem \in Memory /\ mem.back \in {"idle", "end"}
      /\ \A j \in Running : turn[j].state = "running"
  BY DEF Inv, TypeOK, Memory, Running
<1>1. CASE UNCHANGED vars
  BY <1>1, <1>0 DEF vars, Running, RunActive, RunningAt, NoneRunsAt, RunFeedsAt
<1>2. CASE Begin
  <2>1. Running' = Running /\ \A j \in Running : turn'[j].run = turn[j].run
    BY <1>2 DEF Running, Begin
  <2> QED BY <1>2, <1>0, <2>1 DEF Begin, TransitionRoomBatch, StartProcessing, Idle, Awaits,
               RunActive, RunningAt, NoneRunsAt, RunFeedsAt
<1>3. CASE LoopEnds
  <2>1. Running' = Running /\ \A j \in Running : turn'[j].run = turn[j].run
    BY <1>3 DEF Running, LoopEnds
  <2> QED BY <1>3, <1>0, <2>1 DEF LoopEnds, Idle, Awaits, RunActive, RunningAt, NoneRunsAt,
               RunFeedsAt
<1>4. CASE SettleTurn
  <2>1. Running' = {}
    BY <1>4, <1>0, AllTurnSteps DEF Now, Is, Running, RunningAt, SettleTurn, Ended
  <2> QED BY <1>4, <1>0, <2>1 DEF SettleTurn, Idle, Awaits, RunActive, ActiveRun, Ended, RunningAt,
               NoneRunsAt, RunFeedsAt
<1>5. CASE SettleHandoff
  <2>1. Running' = Running /\ \A j \in Running : turn'[j].run = turn[j].run
    BY <1>5, AllTurnSteps DEF Now, Is, Running
  <2> QED BY <1>5, <1>0, <2>1 DEF SettleHandoff, Idle, Awaits, RunActive, ActiveRun, Ended,
               RunningAt, NoneRunsAt, RunFeedsAt
<1>6. CASE EndProcess
  <2>2. Running = {}
    BY <1>6, <1>0 DEF EndProcess, RunningAt, NoneRunsAt
  <2>1. Running' = {}
    BY <1>6, <2>2, NoneRecovered DEF EndProcess, Running
  <2> QED BY <1>6, <1>0, <2>1 DEF EndProcess, Idle, Awaits, RunActive, ActiveRun, Ended, RunningAt,
               NoneRunsAt, RunFeedsAt
<1>7. CASE MarkWindingDown
  <2>1. Running' = Running /\ \A j \in Running : turn'[j].run = turn[j].run
    BY <1>7 DEF Running, MarkWindingDown
  <2> QED BY <1>7, <1>0, <2>1 DEF MarkWindingDown, Idle, Awaits, RunActive, RunningAt, NoneRunsAt,
               RunFeedsAt
<1>8. CASE CancelRun
  <2>1. Running' = Running /\ \A j \in Running : turn'[j].run \in {turn[j].run, "cancelling"}
    BY <1>8, AllTurnSteps DEF Now, Is, Running
  <2> QED BY <1>8, <1>0, <2>1 DEF CancelRun, Idle, Awaits, RunActive, ActiveRun, Ended, RunningAt,
               NoneRunsAt, RunFeedsAt
<1>9. CASE CancelBatch
  <2>1. Running' = Running /\ \A j \in Running : turn'[j].run = turn[j].run
    BY <1>9 DEF Running, CancelBatch
  <2> QED BY <1>9, <1>0, <2>1 DEF CancelBatch, TransitionRoomBatch, Idle, Awaits, RunActive,
               RunningAt, NoneRunsAt, RunFeedsAt
<1>10. CASE StopEnds
  <2>1. Running' = Running /\ \A j \in Running : turn'[j].run = turn[j].run
    BY <1>10 DEF Running, StopEnds
  <2> QED BY <1>10, <1>0, <2>1 DEF StopEnds, Finished, Idle, Awaits, RunActive, RunningAt,
               NoneRunsAt, RunFeedsAt
<1>11. CASE RecoverRooms
  <2>1. Running' = {}
    BY <1>11, NoneRecovered DEF RecoverRooms
  <2> QED BY <1>11, <1>0, <2>1 DEF RecoverRooms, Idle, Awaits, RunActive, ActiveRun, Ended,
               RunningAt, NoneRunsAt, RunFeedsAt
<1>12. CASE RecoverRuns
  <2>1. Running' = Running
    BY <1>12, AllTurnSteps DEF Now, Is, Running
  <2> QED BY <1>12, <1>0, <2>1 DEF RecoverRuns, Idle, Awaits, RunActive, ActiveRun, Ended,
               RunningAt, NoneRunsAt, RunFeedsAt
<1>13. ASSUME NEW i \in Turn, Refuse(i)
       PROVE  RunningAt'
  <2>1. Running' = Running /\ \A j \in Running : turn'[j].run = turn[j].run
    BY <1>13 DEF Running, Refuse
  <2> QED BY <1>13, <1>0, <2>1 DEF Refuse, Idle, Awaits, RunActive, RunningAt, NoneRunsAt,
               RunFeedsAt
<1>14. ASSUME NEW i \in Turn, DispatchHandoff(i)
       PROVE  RunningAt'
  <2>2. Changes(i, "queued", turn[i].run, "dispatching", turn[i].try,
          turn[i].cut) /\ turn[i].state = "queued"
    BY <1>14, <1>0, OneTurnSteps, NextIsQueued DEF Queued
  <2>1. Running' = Running /\ \A j \in Running : turn'[j].run = turn[j].run
    BY <2>2 DEF Changes, Is, Running
  <2> QED BY <1>14, <1>0, <2>1 DEF DispatchHandoff, Idle, Awaits, RunActive, ActiveRun, Ended,
               RunningAt, NoneRunsAt, RunFeedsAt
<1>15. ASSUME NEW i \in Turn, BeginTurn(i)
       PROVE  RunningAt'
  <2>2. Changes(i, "running", turn[i].run, turn[i].handoff, turn[i].try,
          TRUE) /\ turn[i].state = "queued"
    BY <1>15, <1>0, OneTurnSteps, NextIsQueued DEF Queued
  <2>3. Running = {}
    BY <1>15, <1>0 DEF BeginTurn, RunningAt, NoneRunsAt
  <2>1. Running' = {i} /\ turn'[i].run = "none"
    BY <1>0, <2>2, <2>3 DEF Changes, Is, Running, CutTells
  <2> QED BY <1>15, <1>0, <2>1 DEF BeginTurn, Idle, Awaits, RunActive, ActiveRun, Ended, RunningAt,
               NoneRunsAt, RunFeedsAt
<1>16. ASSUME NEW i \in Turn, Launch(i)
       PROVE  RunningAt'
  <2>2. Running = {i}
    BY <1>16, <1>0 DEF Launch, RunningAt
  <2>3. Changes(i, "failed", turn[i].run, turn[i].handoff, turn[i].try,
          turn[i].cut) \/ UNCHANGED turn
    BY <1>16, OneTurnSteps
  <2>4. CASE turn' = turn
    <3>1. Running' = Running /\ \A j \in Running : turn'[j].run = turn[j].run
      BY <2>4 DEF Running
    <3>2. at' \in {"attach",
            "settleHandoff"} /\ (at' = "settleHandoff" => Running' = {}) /\ app' = app
          /\ at = "launch"
      <4>2. turn \in [Turn -> TurnRecord] /\ turn[i].state = "running"
        BY <2>2 DEF Running, Inv, TypeOK
      <4>3. [turn EXCEPT ![i].state = "failed"][i].state = "failed"
        BY <4>2 DEF TurnRecord
      <4>1. turn' # [turn EXCEPT ![i].state = "failed"]
        BY <2>4, <4>2, <4>3
      <4> QED BY <1>16, <4>1 DEF Launch
    <3> QED BY <1>0, <3>1, <3>2 DEF RunningAt, NoneRunsAt, RunFeedsAt
  <2>5. CASE Changes(i, "failed", turn[i].run, turn[i].handoff, turn[i].try, turn[i].cut)
    <3>1. Running' = {}
      BY <2>2, <2>5 DEF Changes, Is, Running
    <3>2. at' = "settleHandoff" /\ app' = app /\ at = "launch"
      <4>1. turn' # turn
        BY <2>2, <2>5 DEF Changes, Is, Running
      <4> QED BY <1>16, <4>1 DEF Launch
    <3> QED BY <1>0, <3>1, <3>2 DEF RunningAt, NoneRunsAt, RunFeedsAt
  <2> QED BY <2>3, <2>4, <2>5
<1>17. ASSUME NEW i \in Turn, Attach(i)
       PROVE  RunningAt'
  <2>2. Running = {i}
    BY <1>17, <1>0 DEF Attach, Awaits, RunningAt
  <2>3. Changes(i, turn[i].state, "created", turn[i].handoff, turn[i].try, turn[i].cut)
    BY <1>17, OneTurnSteps
  <2>1. Running' = {i} /\ turn'[i].run = "created"
    BY <2>2, <2>3 DEF Changes, Is, Running, Ended
  <2> QED BY <1>17, <1>0, <2>1 DEF Attach, Idle, Awaits, RunActive, ActiveRun, Ended, RunningAt,
               NoneRunsAt, RunFeedsAt
<1>18. ASSUME NEW i \in Turn, AcceptHandoff(i)
       PROVE  RunningAt'
  <2>2. Changes(i, turn[i].state, turn[i].run, "accepted", turn[i].try, turn[i].cut)
    BY <1>18, OneTurnSteps
  <2>1. Running' = Running /\ \A j \in Running : turn'[j].run = turn[j].run
    BY <2>2 DEF Changes, Is, Running
  <2> QED BY <1>18, <1>0, <2>1 DEF AcceptHandoff, Idle, Awaits, RunActive, ActiveRun, Ended,
               RunningAt, NoneRunsAt, RunFeedsAt
<1>19. ASSUME NEW i \in Turn, CancelHandoff(i)
       PROVE  RunningAt'
  <2>2. Changes(i, turn[i].state, turn[i].run, "cancelled", turn[i].try, turn[i].cut)
    BY <1>19, OneTurnSteps
  <2>1. Running' = Running /\ \A j \in Running : turn'[j].run = turn[j].run
    BY <2>2 DEF Changes, Is, Running
  <2> QED BY <1>19, <1>0, <2>1 DEF CancelHandoff, Idle, Awaits, RunActive, ActiveRun, Ended,
               RunningAt, NoneRunsAt, RunFeedsAt
<1>20. ASSUME NEW i \in Turn, CancelQueued(i)
       PROVE  RunningAt'
  <2>2. Changes(i, "cancelled", turn[i].run, turn[i].handoff, turn[i].try, turn[i].cut)
        /\ turn[i].state = "queued"
    BY <1>20, OneTurnSteps DEF CancelQueued, Queued
  <2>1. Running' = Running /\ \A j \in Running : turn'[j].run = turn[j].run
    BY <2>2 DEF Changes, Is, Running
  <2> QED BY <1>20, <1>0, <2>1 DEF CancelQueued, Idle, Awaits, RunActive, ActiveRun, Ended,
               RunningAt, NoneRunsAt, RunFeedsAt
<1>21. ASSUME NEW i \in Turn, ProviderStarts(i)
       PROVE  RunningAt'
  <2>2. Running = {i}
    BY <1>21, <1>0 DEF ProviderStarts, Awaits, RunningAt
  <2>3. Changes(i, turn[i].state, "started", turn[i].handoff, turn[i].try, turn[i].cut)
    BY <1>21, OneTurnSteps
  <2>1. Running' = {i} /\ turn'[i].run = "started"
    BY <2>2, <2>3 DEF Changes, Is, Running, Ended
  <2> QED BY <1>21, <1>0, <2>1 DEF ProviderStarts, Idle, Awaits, RunActive, ActiveRun, Ended,
               RunningAt, NoneRunsAt, RunFeedsAt
<1>22. ASSUME NEW i \in Turn, AskContinuation(i)
       PROVE  RunningAt'
  <2>1. Running' = Running /\ \A j \in Running : turn'[j].run = turn[j].run
    BY <1>22 DEF Running, AskContinuation
  <2> QED BY <1>22, <1>0, <2>1 DEF AskContinuation, Idle, Awaits, RunActive, RunningAt, NoneRunsAt,
               RunFeedsAt
<1>23. ASSUME NEW i \in Turn, Complete(i)
       PROVE  RunningAt'
  <2>2. Running = {i}
    BY <1>23, <1>0 DEF Complete, Awaits, RunningAt
  <2>3. \E r \in {"completed", "cancelled"} : Changes(i, turn[i].state, r, turn[i].handoff,
          turn[i].try, turn[i].cut)
    BY <1>23, OneTurnSteps
  <2>1. Running' = {i} /\ turn'[i].run \in Ended
    BY <2>2, <2>3 DEF Changes, Is, Running, Ended
  <2> QED BY <1>23, <1>0, <2>1 DEF Complete, Idle, Awaits, RunActive, ActiveRun, Ended, RunningAt,
               NoneRunsAt, RunFeedsAt
<1>24. ASSUME NEW i \in Turn, Fail(i)
       PROVE  RunningAt'
  <2>2. Running = {i}
    BY <1>24, <1>0 DEF Fail, Awaits, RunningAt
  <2>3. \E r \in {"failed", "cancelled", "interrupted"} : Changes(i, turn[i].state, r,
          turn[i].handoff, turn[i].try, turn[i].cut)
    BY <1>24, OneTurnSteps
  <2>1. Running' = {i} /\ turn'[i].run \in Ended
    BY <2>2, <2>3 DEF Changes, Is, Running, Ended
  <2> QED BY <1>24, <1>0, <2>1 DEF Fail, Idle, Awaits, RunActive, ActiveRun, Ended, RunningAt,
               NoneRunsAt, RunFeedsAt
<1>25. ASSUME NEW i \in Turn, AnswerLate(i)
       PROVE  RunningAt'
  <2>1. Running' = Running /\ \A j \in Running : turn'[j].run = turn[j].run
    BY <1>25 DEF Running, AnswerLate
  <2> QED BY <1>25, <1>0, <2>1 DEF AnswerLate, Idle, Awaits, RunActive, RunningAt, NoneRunsAt,
               RunFeedsAt
<1>26. ASSUME NEW i \in Turn, NEW b \in Bot, NEW d \in Task, Handoff(i, b, d)
       PROVE  RunningAt'
  <2>2. CreateHandoff(i, b,
          d) => Running' = Running /\ \A j \in Running : turn'[j].run = turn[j].run
    <3> SUFFICES ASSUME CreateHandoff(i, b, d)
                 PROVE  Running' = Running /\ \A j \in Running : turn'[j].run = turn[j].run
      OBVIOUS
    <3> DEFINE m == Cardinality(Used) + 1
    <3>1. /\ turn[m] = NoTurn /\ turn'[m].state = "queued"
          /\ \A j \in Turn \ {m} : turn'[j] = turn[j]
      BY Created
    <3> HIDE DEF m
    <3> QED BY <3>1, FreshTurns DEF Running
  <2>1. Running' = Running /\ \A j \in Running : turn'[j].run = turn[j].run
    BY <1>26, <2>2 DEF Handoff, Running
  <2> QED BY <1>26, <1>0, <2>1 DEF Handoff, Idle, Awaits, RunActive, ActiveRun, Ended, RunningAt,
               NoneRunsAt, RunFeedsAt
<1>27. ASSUME NEW i \in Turn, NEW b \in Bot, NEW d \in Task, DecideHandoff(i, b, d)
       PROVE  RunningAt'
  <2>2. CreateHandoff(i, b,
          d) => Running' = Running /\ \A j \in Running : turn'[j].run = turn[j].run
    <3> SUFFICES ASSUME CreateHandoff(i, b, d)
                 PROVE  Running' = Running /\ \A j \in Running : turn'[j].run = turn[j].run
      OBVIOUS
    <3> DEFINE m == Cardinality(Used) + 1
    <3>1. /\ turn[m] = NoTurn /\ turn'[m].state = "queued"
          /\ \A j \in Turn \ {m} : turn'[j] = turn[j]
      BY Created
    <3> HIDE DEF m
    <3> QED BY <3>1, FreshTurns DEF Running
  <2>1. Running' = Running /\ \A j \in Running : turn'[j].run = turn[j].run
    BY <1>27, <2>2 DEF DecideHandoff
  <2> QED BY <1>27, <1>0, <2>1 DEF DecideHandoff, Idle, Awaits, RunActive, ActiveRun, Ended,
               RunningAt, NoneRunsAt, RunFeedsAt
<1>28. ASSUME NEW targets \in SUBSET Bot, Send(targets)
       PROVE  RunningAt'
  <2>2. PrepareRoomRun(room.version, targets)
    BY <1>28 DEF Send
  <2>1. Running' = {}
    BY <2>2, NonePrepared
  <2> QED BY <1>28, <1>0, <2>1 DEF Send, Idle, Awaits, RunActive, ActiveRun, Ended, RunningAt,
               NoneRunsAt, RunFeedsAt, PrepareRoomRun
<1>29. ASSUME NEW r \in Route, SelectOwner(r)
       PROVE  RunningAt'
  <2>1. Running' = Running /\ \A j \in Running : turn'[j].run = turn[j].run
    BY <1>29 DEF Running, SelectOwner
  <2> QED BY <1>29, <1>0, <2>1 DEF SelectOwner, Idle, Awaits, RunActive, RunningAt, NoneRunsAt,
               RunFeedsAt
<1>30. ASSUME NEW i \in Turn, RetryTurn(i)
       PROVE  RunningAt'
  <2>2. Running = {}
    BY <1>30, <1>0 DEF RetryTurn, Idle, MayResume, Busy, RunningAt, RunFeedsAt, Running
  <2>3. Changes(i, "queued", "none", turn[i].handoff, turn[i].try + 1, turn[i].cut)
    BY <1>30, OneTurnSteps
  <2>1. Running' = {}
    BY <2>2, <2>3 DEF Changes, Is, Running
  <2> QED BY <1>30, <1>0, <2>1 DEF RetryTurn, Idle, Awaits, RunActive, ActiveRun, Ended, RunningAt,
               NoneRunsAt, RunFeedsAt, Resume, StartProcessing
<1>31. ASSUME NEW b \in Bot, AddMember(b)
       PROVE  RunningAt'
  <2>1. Running' = Running /\ \A j \in Running : turn'[j].run = turn[j].run
    BY <1>31 DEF Running, AddMember
  <2> QED BY <1>31, <1>0, <2>1 DEF AddMember, Idle, Awaits, RunActive, RunningAt, NoneRunsAt,
               RunFeedsAt
<1>32. ASSUME NEW b \in Bot, RemoveMember(b)
       PROVE  RunningAt'
  <2>1. Running' = Running /\ \A j \in Running : turn'[j].run = turn[j].run
    BY <1>32 DEF Running, RemoveMember
  <2> QED BY <1>32, <1>0, <2>1 DEF RemoveMember, Idle, Awaits, RunActive, RunningAt, NoneRunsAt,
               RunFeedsAt
<1>33. CASE Cancel
  <2>1. Running' = Running /\ \A j \in Running : turn'[j].run = turn[j].run
    BY <1>33 DEF Running, Cancel
  <2> QED BY <1>33, <1>0, <2>1 DEF Cancel, Idle, Awaits, RunActive, RunningAt, NoneRunsAt,
               RunFeedsAt
<1>34. CASE Continue
  <2>2. Running = {}
    <3>1. ~Busy /\ at = "idle" /\ app = "up"
      BY <1>34 DEF Continue, Idle, MayResume
    <3> QED BY <1>0, <3>1 DEF Busy, RunningAt, RunFeedsAt, Running
  <2>1. Running' = {}
    BY <1>34, <2>2, AllTurnSteps DEF Now, Is, Running
  <2> QED BY <1>34, <1>0, <2>1 DEF Continue, Idle, Awaits, RunActive, ActiveRun, Ended, RunningAt,
               NoneRunsAt, RunFeedsAt, Resume, StartProcessing
<1>35. CASE ArchiveRoom
  <2>1. Running' = Running /\ \A j \in Running : turn'[j].run = turn[j].run
    BY <1>35 DEF Running, ArchiveRoom
  <2> QED BY <1>35, <1>0, <2>1 DEF ArchiveRoom, Idle, Awaits, RunActive, RunningAt, NoneRunsAt,
               RunFeedsAt
<1>36. ASSUME NEW r \in Route, OwnerSelected(r)
       PROVE  RunningAt'
  <2>2. PICK bot \in Bot : PrepareRoomRun(routing[r], {bot})
    BY <1>36 DEF OwnerSelected
  <2>1. Running' = {}
    BY <2>2, NonePrepared
  <2> QED BY <1>36, <1>0, <2>1 DEF OwnerSelected, Idle, Awaits, RunActive, ActiveRun, Ended,
               RunningAt, NoneRunsAt, RunFeedsAt, PrepareRoomRun
<1>37. ASSUME NEW r \in Route, RoutingFails(r)
       PROVE  RunningAt'
  <2>1. Running' = Running /\ \A j \in Running : turn'[j].run = turn[j].run
    BY <1>37 DEF Running, RoutingFails
  <2> QED BY <1>37, <1>0, <2>1 DEF RoutingFails, Idle, Awaits, RunActive, RunningAt, NoneRunsAt,
               RunFeedsAt
<1>38. CASE TimePasses
  <2>1. Running' = Running /\ \A j \in Running : turn'[j].run = turn[j].run
    BY <1>38 DEF Running, TimePasses
  <2> QED BY <1>38, <1>0, <2>1 DEF TimePasses, Idle, Awaits, RunActive, RunningAt, NoneRunsAt,
               RunFeedsAt
<1>39. CASE DeadlineFires
  <2>1. Running' = Running /\ \A j \in Running : turn'[j].run = turn[j].run
    BY <1>39 DEF Running, DeadlineFires
  <2> QED BY <1>39, <1>0, <2>1 DEF DeadlineFires, Idle, Awaits, RunActive, RunningAt, NoneRunsAt,
               RunFeedsAt
<1>40. CASE BeginShutdown
  <2>1. Running' = Running /\ \A j \in Running : turn'[j].run = turn[j].run
    BY <1>40 DEF Running, BeginShutdown
  <2> QED BY <1>40, <1>0, <2>1 DEF BeginShutdown, Idle, Awaits, RunActive, RunningAt, NoneRunsAt,
               RunFeedsAt
<1>41. CASE ExecutorDrained
  <2>1. Running' = Running
    BY <1>41, AllTurnSteps DEF Now, Is, Running
  <2> QED BY <1>41, <1>0, <2>1 DEF ExecutorDrained, Idle, Awaits, RunActive, ActiveRun, Ended,
               RunningAt, NoneRunsAt, RunFeedsAt
<1>42. CASE Drained
  <2>1. Running' = {}
    BY <1>42, NoneRecovered DEF Drained
  <2> QED BY <1>42, <1>0, <2>1 DEF Drained, Idle, Awaits, RunActive, ActiveRun, Ended, RunningAt,
               NoneRunsAt, RunFeedsAt, Down
<1>43. CASE Crash
  <2>1. Running' = Running /\ \A j \in Running : turn'[j].run = turn[j].run
    BY <1>43 DEF Running, Crash, Down
  <2> QED BY <1>43, <1>0, <2>1 DEF Crash, Down, Idle, Awaits, RunActive, RunningAt, NoneRunsAt,
               RunFeedsAt
<1>44. CASE Restart
  <2>1. Running' = Running /\ \A j \in Running : turn'[j].run = turn[j].run
    BY <1>44 DEF Running, Restart
  <2> QED BY <1>44, <1>0, <2>1 DEF Restart, Idle, Awaits, RunActive, RunningAt, NoneRunsAt,
               RunFeedsAt
<1> QED BY <1>1, <1>2, <1>3, <1>4, <1>5, <1>6, <1>7, <1>8, <1>9, <1>10, <1>11, <1>12, <1>13,
     <1>14, <1>15, <1>16, <1>17, <1>18, <1>19, <1>20, <1>21, <1>22, <1>23, <1>24, <1>25, <1>26,
     <1>27, <1>28, <1>29, <1>30, <1>31, <1>32, <1>33, <1>34, <1>35, <1>36, <1>37, <1>38, <1>39,
     <1>40, <1>41, <1>42, <1>43, <1>44
  DEF Next, HandlerStep, RunStep, User, RouteAndSend

----------------------------------------------------------------------------
(***************************************************************************)
(* The turns that wait.                                                    *)
(***************************************************************************)

\* The loop's turns depend on where the turns came from, their tries, and what the loop is for.
LEMMA FrontierKept ==
  ASSUME mem' = mem, Queued' = Queued,
         \A k \in Turn : /\ turn'[k].from = turn[k].from /\ turn'[k].fromTry = turn[k].fromTry
                         /\ turn'[k].try = turn[k].try
  PROVE  Frontier' = Frontier
<1>1. ASSUME NEW i \in Turn
      PROVE  InFrontier(i)' <=> InFrontier(i)
  <2> DEFINE D == (0..MaxTurns + 1) \X (0..Retries + 1)
             after(f) == [k \in D |-> /\ k[1] # None
                                      /\ k \in mem'.only \/ f[<<turn'[k[1]].from,
                                           turn'[k[1]].fromTry>>]]
             before(f) == [k \in D |-> /\ k[1] # None
                                       /\ k \in mem.only \/ f[<<turn[k[1]].from,
                                            turn[k[1]].fromTry>>]]
  <2>1. ASSUME NEW k \in D
        PROVE  k[1] # None => k[1] \in Turn
    BY RoomAssumptions DEF Turn, None
  <2>2. ASSUME NEW f
        PROVE  after(f) = before(f)
    BY <2>1
  <2> HIDE DEF D
  <2>3. (CHOOSE f : f = after(f)) = (CHOOSE f : f = before(f))
    BY <2>2, ZenonT(60)
  <2>4. turn'[i].try = turn[i].try
    OBVIOUS
  <2>5. InFrontier(i)' <=> (CHOOSE f : f = after(f))[<<i, turn'[i].try>>]
    BY Zenon DEF InFrontier, D
  <2>6. InFrontier(i) <=> (CHOOSE f : f = before(f))[<<i, turn[i].try>>]
    BY Zenon DEF InFrontier, D
  <2> QED BY <2>3, <2>4, <2>5, <2>6, Zenon
<1> QED BY <1>1 DEF Frontier, Queued

\* No turn comes to wait or to run, but by being begun.
NoNewWork ==
  \A j \in Turn : /\ turn'[j].bot = turn[j].bot
                  /\ turn'[j].state \in Active => turn[j].state \in Active
                  /\ turn'[j].state = "queued" => turn[j].state = "queued"

\* Work is made by a message, by a handoff, and by another attempt.
LEMMA WorkComes ==
  ASSUME Inv, [Next]_vars
  PROVE  \/ \E version \in Nat : \E some \in SUBSET Bot : PrepareRoomRun(version,
              some) /\ UNCHANGED room
         \/ \E ii \in Turn, bb \in Bot, dd \in Task :
              CreateHandoff(ii, bb, dd) /\ UNCHANGED <<room, batch>>
         \/ \E j \in Turn : RetryTurn(j)
         \/ Continue
         \/ NoNewWork
<1>0. QueuedAt /\ RunningAt
  BY DEF Inv
<1>u. UNCHANGED turn => NoNewWork
  BY Zenon DEF NoNewWork
<1>r. RecoverInterruptedRooms => NoNewWork
  <2> SUFFICES ASSUME RecoverInterruptedRooms, NEW j \in Turn
               PROVE  /\ turn'[j].bot = turn[j].bot
                      /\ turn'[j].state \in Active => turn[j].state \in Active
                      /\ turn'[j].state = "queued" => turn[j].state = "queued"
    BY DEF NoNewWork
  <2> QED BY AllRecovered DEF Now, Is, SameShape, Active, Ended
<1>1. CASE UNCHANGED vars
  BY <1>1, <1>u DEF vars
<1>2. ASSUME Begin
      PROVE  NoNewWork
  BY <1>2, Zenon DEF Begin, NoNewWork
<1>3. ASSUME LoopEnds
      PROVE  NoNewWork
  BY <1>3, Zenon DEF LoopEnds, NoNewWork
<1>4. ASSUME SettleTurn
      PROVE  NoNewWork
  <2> SUFFICES ASSUME NEW j \in Turn
               PROVE  /\ turn'[j].bot = turn[j].bot
                      /\ turn'[j].state \in Active => turn[j].state \in Active
                      /\ turn'[j].state = "queued" => turn[j].state = "queued"
    BY DEF NoNewWork
  <2> QED BY <1>4, <1>0, AllTurnSteps
    DEF SettleTurn, RunningAt, Ended, Now, Is, SameShape, Running, Active
<1>5. ASSUME SettleHandoff
      PROVE  NoNewWork
  <2> SUFFICES ASSUME NEW j \in Turn
               PROVE  /\ turn'[j].bot = turn[j].bot
                      /\ turn'[j].state \in Active => turn[j].state \in Active
                      /\ turn'[j].state = "queued" => turn[j].state = "queued"
    BY DEF NoNewWork
  <2> QED BY <1>5, AllTurnSteps DEF Now, Is, SameShape, Running, Active
<1>6. ASSUME EndProcess
      PROVE  NoNewWork
  BY <1>6, <1>r, <1>u DEF EndProcess
<1>7. ASSUME MarkWindingDown
      PROVE  NoNewWork
  BY <1>7, Zenon DEF MarkWindingDown, NoNewWork
<1>8. ASSUME CancelRun
      PROVE  NoNewWork
  <2> SUFFICES ASSUME NEW j \in Turn
               PROVE  /\ turn'[j].bot = turn[j].bot
                      /\ turn'[j].state \in Active => turn[j].state \in Active
                      /\ turn'[j].state = "queued" => turn[j].state = "queued"
    BY DEF NoNewWork
  <2> QED BY <1>8, AllTurnSteps DEF Now, Is, SameShape, Running, Active
<1>9. ASSUME CancelBatch
      PROVE  NoNewWork
  BY <1>9, Zenon DEF CancelBatch, NoNewWork
<1>10. ASSUME StopEnds
       PROVE  NoNewWork
  BY <1>10, Zenon DEF StopEnds, NoNewWork
<1>11. ASSUME RecoverRooms
       PROVE  NoNewWork
  BY <1>11, <1>r DEF RecoverRooms
<1>12. ASSUME RecoverRuns
       PROVE  NoNewWork
  <2> SUFFICES ASSUME NEW j \in Turn
               PROVE  /\ turn'[j].bot = turn[j].bot
                      /\ turn'[j].state \in Active => turn[j].state \in Active
                      /\ turn'[j].state = "queued" => turn[j].state = "queued"
    BY DEF NoNewWork
  <2> QED BY <1>12, AllTurnSteps DEF Now, Is, SameShape, Running, Active
<1>13. ASSUME NEW i \in Turn, Refuse(i)
       PROVE  NoNewWork
  BY <1>13, Zenon DEF Refuse, NoNewWork
<1>14. ASSUME NEW i \in Turn, DispatchHandoff(i)
       PROVE  NoNewWork
  <2>1. Changes(i, "queued", turn[i].run, "dispatching", turn[i].try, turn[i].cut)
    BY <1>14, OneTurnSteps
  <2>2. turn[i].state = "queued"
    BY <1>14, <1>0, NextIsQueued DEF Queued
  <2> QED BY <2>1, <2>2 DEF NoNewWork, Changes, Is, SameShape, Active
<1>15. ASSUME NEW i \in Turn, BeginTurn(i)
       PROVE  NoNewWork
  <2>1. Changes(i, "running", turn[i].run, turn[i].handoff, turn[i].try, TRUE)
    BY <1>15, OneTurnSteps
  <2>2. turn[i].state = "queued"
    BY <1>15, <1>0, NextIsQueued DEF Queued
  <2> QED BY <2>1, <2>2 DEF NoNewWork, Changes, Is, SameShape, Active
<1>16. ASSUME NEW i \in Turn, Launch(i)
       PROVE  NoNewWork
  <2>1. Changes(i, "failed", turn[i].run, turn[i].handoff, turn[i].try,
          turn[i].cut) \/ UNCHANGED turn
    BY <1>16, OneTurnSteps
  <2> QED BY <2>1 DEF NoNewWork, Changes, Is, SameShape, Active
<1>17. ASSUME NEW i \in Turn, Attach(i)
       PROVE  NoNewWork
  <2>1. Changes(i, turn[i].state, "created", turn[i].handoff, turn[i].try, turn[i].cut)
    BY <1>17, OneTurnSteps
  <2> QED BY <2>1 DEF NoNewWork, Changes, Is, SameShape, Active
<1>18. ASSUME NEW i \in Turn, AcceptHandoff(i)
       PROVE  NoNewWork
  <2>1. Changes(i, turn[i].state, turn[i].run, "accepted", turn[i].try, turn[i].cut)
    BY <1>18, OneTurnSteps
  <2> QED BY <2>1 DEF NoNewWork, Changes, Is, SameShape, Active
<1>19. ASSUME NEW i \in Turn, CancelHandoff(i)
       PROVE  NoNewWork
  <2>1. Changes(i, turn[i].state, turn[i].run, "cancelled", turn[i].try, turn[i].cut)
    BY <1>19, OneTurnSteps
  <2> QED BY <2>1 DEF NoNewWork, Changes, Is, SameShape, Active
<1>20. ASSUME NEW i \in Turn, CancelQueued(i)
       PROVE  NoNewWork
  <2>1. Changes(i, "cancelled", turn[i].run, turn[i].handoff, turn[i].try, turn[i].cut)
    BY <1>20, OneTurnSteps
  <2> QED BY <2>1 DEF NoNewWork, Changes, Is, SameShape, Active
<1>21. ASSUME NEW i \in Turn, ProviderStarts(i)
       PROVE  NoNewWork
  <2>1. Changes(i, turn[i].state, "started", turn[i].handoff, turn[i].try, turn[i].cut)
    BY <1>21, OneTurnSteps
  <2> QED BY <2>1 DEF NoNewWork, Changes, Is, SameShape, Active
<1>22. ASSUME NEW i \in Turn, AskContinuation(i)
       PROVE  NoNewWork
  BY <1>22, Zenon DEF AskContinuation, NoNewWork
<1>23. ASSUME NEW i \in Turn, Complete(i)
       PROVE  NoNewWork
  <2>1. \E r \in {"completed", "cancelled"} : Changes(i, turn[i].state, r, turn[i].handoff,
          turn[i].try, turn[i].cut)
    BY <1>23, OneTurnSteps
  <2> QED BY <2>1 DEF NoNewWork, Changes, Is, SameShape, Active
<1>24. ASSUME NEW i \in Turn, Fail(i)
       PROVE  NoNewWork
  <2>1. \E r \in {"failed", "cancelled", "interrupted"} : Changes(i, turn[i].state, r,
          turn[i].handoff, turn[i].try, turn[i].cut)
    BY <1>24, OneTurnSteps
  <2> QED BY <2>1 DEF NoNewWork, Changes, Is, SameShape, Active
<1>25. ASSUME NEW i \in Turn, AnswerLate(i)
       PROVE  NoNewWork
  BY <1>25, Zenon DEF AnswerLate, NoNewWork
<1>26. ASSUME NEW i \in Turn, NEW b \in Bot, NEW d \in Task, Handoff(i, b, d)
       PROVE  \/ NoNewWork
              \/ \E ii \in Turn, bb \in Bot, dd \in Task : CreateHandoff(ii, bb,
                   dd) /\ UNCHANGED <<room, batch>>
  <2>1. CASE UNCHANGED turn
    BY <2>1, <1>u
  <2>2. CASE CreateHandoff(i, b, d)
    <3>1. UNCHANGED <<room, batch>>
      BY <1>26 DEF Handoff
    <3> QED BY <2>2, <3>1
  <2> QED BY <1>26, <2>1, <2>2 DEF Handoff
<1>27. ASSUME NEW i \in Turn, NEW b \in Bot, NEW d \in Task, DecideHandoff(i, b, d)
       PROVE  \E ii \in Turn, bb \in Bot, dd \in Task : CreateHandoff(ii, bb,
                dd) /\ UNCHANGED <<room, batch>>
  BY <1>27 DEF DecideHandoff
<1>28. ASSUME NEW targets \in SUBSET Bot, Send(targets)
       PROVE  \E version \in Nat : \E some \in SUBSET Bot : PrepareRoomRun(version,
                some) /\ UNCHANGED room
  <2>1. room.version \in Nat
    BY DEF Inv, TypeOK
  <2> QED BY <1>28, <2>1 DEF Send
<1>29. ASSUME NEW r \in Route, SelectOwner(r)
       PROVE  NoNewWork
  BY <1>29, Zenon DEF SelectOwner, NoNewWork
<1>30. ASSUME NEW i \in Turn, RetryTurn(i)
       PROVE  \E j \in Turn : RetryTurn(j)
  BY <1>30
<1>31. ASSUME NEW b \in Bot, AddMember(b)
       PROVE  NoNewWork
  BY <1>31, Zenon DEF AddMember, NoNewWork
<1>32. ASSUME NEW b \in Bot, RemoveMember(b)
       PROVE  NoNewWork
  BY <1>32, Zenon DEF RemoveMember, NoNewWork
<1>33. ASSUME Cancel
       PROVE  NoNewWork
  BY <1>33, Zenon DEF Cancel, NoNewWork
<1>34. ASSUME Continue
       PROVE  Continue
  BY <1>34
<1>35. ASSUME ArchiveRoom
       PROVE  NoNewWork
  BY <1>35, Zenon DEF ArchiveRoom, NoNewWork
<1>36. ASSUME NEW r \in Route, OwnerSelected(r)
       PROVE  \E version \in Nat : \E some \in SUBSET Bot : PrepareRoomRun(version,
                some) /\ UNCHANGED room
  <2>1. PICK bot \in Bot : PrepareRoomRun(routing[r], {bot})
    BY <1>36 DEF OwnerSelected
  <2>2. routing[r] \in Nat /\ {bot} \in SUBSET Bot /\ UNCHANGED room
    BY <1>36 DEF Inv, TypeOK, OwnerSelected
  <2> QED BY <2>1, <2>2
<1>37. ASSUME NEW r \in Route, RoutingFails(r)
       PROVE  NoNewWork
  BY <1>37, Zenon DEF RoutingFails, NoNewWork
<1>38. ASSUME TimePasses
       PROVE  NoNewWork
  BY <1>38, Zenon DEF TimePasses, NoNewWork
<1>39. ASSUME DeadlineFires
       PROVE  NoNewWork
  BY <1>39, Zenon DEF DeadlineFires, NoNewWork
<1>40. ASSUME BeginShutdown
       PROVE  NoNewWork
  BY <1>40, Zenon DEF BeginShutdown, NoNewWork
<1>41. ASSUME ExecutorDrained
       PROVE  NoNewWork
  <2> SUFFICES ASSUME NEW j \in Turn
               PROVE  /\ turn'[j].bot = turn[j].bot
                      /\ turn'[j].state \in Active => turn[j].state \in Active
                      /\ turn'[j].state = "queued" => turn[j].state = "queued"
    BY DEF NoNewWork
  <2> QED BY <1>41, AllTurnSteps DEF Now, Is, SameShape, Running, Active
<1>42. ASSUME Drained
       PROVE  NoNewWork
  BY <1>42, <1>r DEF Drained
<1>43. ASSUME Crash
       PROVE  NoNewWork
  BY <1>43, Zenon DEF Crash, NoNewWork
<1>44. ASSUME Restart
       PROVE  NoNewWork
  BY <1>44, Zenon DEF Restart, NoNewWork
<1> QED BY <1>1, <1>2, <1>3, <1>4, <1>5, <1>6, <1>7, <1>8, <1>9, <1>10, <1>11, <1>12, <1>13,
     <1>14, <1>15, <1>16, <1>17, <1>18, <1>19, <1>20, <1>21, <1>22, <1>23, <1>24, <1>25, <1>26,
     <1>27, <1>28, <1>29, <1>30, <1>31, <1>32, <1>33, <1>34, <1>35, <1>36, <1>37, <1>38, <1>39,
     <1>40, <1>41, <1>42, <1>43, <1>44
  DEF Next, HandlerStep, RunStep, User, RouteAndSend

\* Recovery ends a batch, and its turns.
LEMMA BatchRecovered ==
  ASSUME Inv, RecoverInterruptedRooms
  PROVE  batch'.state \notin Active /\ Queued' = {}
<1>1. Queued' = {}
  BY AllRecovered DEF Now, Is, Queued, Active, Ended
<1>2. batch \in [state : {"none"} \cup Active \cup BatchEnded, winding : BOOLEAN, version : Nat]
  BY DEF Inv, TypeOK
<1>3. batch'.state \notin Active
  BY <1>2 DEF RecoverInterruptedRooms, Active
<1> QED BY <1>1, <1>3

\* A batch is finished when all its turns have ended.
LEMMA BatchFinished ==
  ASSUME Inv, batch' = Finished, UNCHANGED turn
  PROVE  batch' = batch \/ (batch'.state \notin Active /\ Queued' = {})
<1>1. batch \in [state : {"none"} \cup Active \cup BatchEnded, winding : BOOLEAN, version : Nat]
  BY DEF Inv, TypeOK
<1>2. CASE AllIn(Ended)
  <2>1. Queued' = {}
    BY <1>2 DEF AllIn, Ended, Queued, Used
  <2>2. batch'.state \notin Active
    BY <1>1, <1>2 DEF Finished, Active
  <2> QED BY <2>1, <2>2
<1>3. CASE ~AllIn(Ended)
  BY <1>3 DEF Finished
<1> QED BY <1>2, <1>3

\* While a batch goes on, the Room stays; it ends with no turn waiting.
BatchGoesOn ==
  /\ batch'.state \in Active =>
       batch.state \in Active /\ batch'.version = batch.version /\ UNCHANGED room
  /\ batch'.state \notin Active => batch.state \notin Active \/ Queued' = {}

\* What a step does to the batch and its Room.
LEMMA BatchKept ==
  ASSUME Inv, [Next]_vars
  PROVE  \/ \E version \in Nat : \E some \in SUBSET Bot : PrepareRoomRun(version,
              some) /\ UNCHANGED room
         \/ \E j \in Turn : RetryTurn(j)
         \/ Continue
         \/ BatchGoesOn
<1>0. batch \in [state : {"none"} \cup Active \cup BatchEnded, winding : BOOLEAN, version : Nat]
  BY DEF Inv, TypeOK
<1>u. UNCHANGED <<room, batch>> => BatchGoesOn
  BY Zenon DEF BatchGoesOn
<1>1. CASE UNCHANGED vars
  BY <1>1, <1>u DEF vars
<1>2. ASSUME Begin
      PROVE  BatchGoesOn
  BY <1>2, <1>0 DEF Begin, TransitionRoomBatch, BatchGoesOn, Active, BatchEnded
<1>3. ASSUME LoopEnds
      PROVE  BatchGoesOn
  <2>1. UNCHANGED <<room, batch>>
    BY <1>3 DEF LoopEnds
  <2> QED BY <2>1, <1>u
<1>4. ASSUME SettleTurn
      PROVE  BatchGoesOn
  <2>1. UNCHANGED <<room, batch>>
    BY <1>4 DEF SettleTurn
  <2> QED BY <2>1, <1>u
<1>5. ASSUME SettleHandoff
      PROVE  BatchGoesOn
  <2>1. UNCHANGED <<room, batch>>
    BY <1>5 DEF SettleHandoff
  <2> QED BY <2>1, <1>u
<1>6. ASSUME EndProcess
      PROVE  BatchGoesOn
  <2>1. CASE RecoverInterruptedRooms
    BY <2>1, BatchRecovered DEF BatchGoesOn
  <2>2. CASE batch' = batch
    BY <1>6, <2>2, <1>u DEF EndProcess
  <2>3. CASE batch' = Finished /\ UNCHANGED turn
    BY <1>6, <2>3, <1>u, BatchFinished DEF EndProcess, BatchGoesOn
  <2> QED BY <1>6, <2>1, <2>2, <2>3 DEF EndProcess
<1>7. ASSUME MarkWindingDown
      PROVE  BatchGoesOn
  BY <1>7, <1>0 DEF MarkWindingDown, BatchGoesOn
<1>8. ASSUME CancelRun
      PROVE  BatchGoesOn
  <2>1. UNCHANGED <<room, batch>>
    BY <1>8 DEF CancelRun
  <2> QED BY <2>1, <1>u
<1>9. ASSUME CancelBatch
      PROVE  BatchGoesOn
  <2>1. Queued' = {} /\ UNCHANGED room
    BY <1>9 DEF CancelBatch, Queued
  <2>2. batch' = [batch EXCEPT !.state = "cancelled"]
    BY <1>9 DEF CancelBatch, TransitionRoomBatch
  <2>3. batch'.state = "cancelled"
    BY <1>0, <2>2
  <2> QED BY <2>1, <2>3 DEF BatchGoesOn, Active
<1>10. ASSUME StopEnds
       PROVE  BatchGoesOn
  <2>1. CASE batch' = batch
    BY <1>10, <2>1, <1>u DEF StopEnds
  <2>2. CASE batch' = Finished
    BY <1>10, <2>2, <1>u, BatchFinished DEF StopEnds, BatchGoesOn
  <2> QED BY <1>10, <2>1, <2>2 DEF StopEnds
<1>11. ASSUME RecoverRooms
       PROVE  BatchGoesOn
  BY <1>11, BatchRecovered DEF RecoverRooms, BatchGoesOn
<1>12. ASSUME RecoverRuns
       PROVE  BatchGoesOn
  <2>1. UNCHANGED <<room, batch>>
    BY <1>12 DEF RecoverRuns
  <2> QED BY <2>1, <1>u
<1>13. ASSUME NEW i \in Turn, Refuse(i)
       PROVE  BatchGoesOn
  <2>1. UNCHANGED <<room, batch>>
    BY <1>13 DEF Refuse
  <2> QED BY <2>1, <1>u
<1>14. ASSUME NEW i \in Turn, DispatchHandoff(i)
       PROVE  BatchGoesOn
  <2>1. UNCHANGED <<room, batch>>
    BY <1>14 DEF DispatchHandoff
  <2> QED BY <2>1, <1>u
<1>15. ASSUME NEW i \in Turn, BeginTurn(i)
       PROVE  BatchGoesOn
  <2>1. UNCHANGED <<room, batch>>
    BY <1>15 DEF BeginTurn
  <2> QED BY <2>1, <1>u
<1>16. ASSUME NEW i \in Turn, Launch(i)
       PROVE  BatchGoesOn
  <2>1. UNCHANGED <<room, batch>>
    BY <1>16 DEF Launch
  <2> QED BY <2>1, <1>u
<1>17. ASSUME NEW i \in Turn, Attach(i)
       PROVE  BatchGoesOn
  <2>1. UNCHANGED <<room, batch>>
    BY <1>17 DEF Attach
  <2> QED BY <2>1, <1>u
<1>18. ASSUME NEW i \in Turn, AcceptHandoff(i)
       PROVE  BatchGoesOn
  <2>1. UNCHANGED <<room, batch>>
    BY <1>18 DEF AcceptHandoff
  <2> QED BY <2>1, <1>u
<1>19. ASSUME NEW i \in Turn, CancelHandoff(i)
       PROVE  BatchGoesOn
  <2>1. UNCHANGED <<room, batch>>
    BY <1>19 DEF CancelHandoff
  <2> QED BY <2>1, <1>u
<1>20. ASSUME NEW i \in Turn, CancelQueued(i)
       PROVE  BatchGoesOn
  <2>1. UNCHANGED <<room, batch>>
    BY <1>20 DEF CancelQueued
  <2> QED BY <2>1, <1>u
<1>21. ASSUME NEW i \in Turn, ProviderStarts(i)
       PROVE  BatchGoesOn
  <2>1. UNCHANGED <<room, batch>>
    BY <1>21 DEF ProviderStarts
  <2> QED BY <2>1, <1>u
<1>22. ASSUME NEW i \in Turn, AskContinuation(i)
       PROVE  BatchGoesOn
  <2>1. UNCHANGED <<room, batch>>
    BY <1>22 DEF AskContinuation
  <2> QED BY <2>1, <1>u
<1>23. ASSUME NEW i \in Turn, Complete(i)
       PROVE  BatchGoesOn
  <2>1. UNCHANGED <<room, batch>>
    BY <1>23 DEF Complete
  <2> QED BY <2>1, <1>u
<1>24. ASSUME NEW i \in Turn, Fail(i)
       PROVE  BatchGoesOn
  <2>1. UNCHANGED <<room, batch>>
    BY <1>24 DEF Fail
  <2> QED BY <2>1, <1>u
<1>25. ASSUME NEW i \in Turn, AnswerLate(i)
       PROVE  BatchGoesOn
  <2>1. UNCHANGED <<room, batch>>
    BY <1>25 DEF AnswerLate
  <2> QED BY <2>1, <1>u
<1>26. ASSUME NEW i \in Turn, NEW b \in Bot, NEW d \in Task, Handoff(i, b, d)
       PROVE  BatchGoesOn
  <2>1. UNCHANGED <<room, batch>>
    BY <1>26 DEF Handoff
  <2> QED BY <2>1, <1>u
<1>27. ASSUME NEW i \in Turn, NEW b \in Bot, NEW d \in Task, DecideHandoff(i, b, d)
       PROVE  BatchGoesOn
  <2>1. UNCHANGED <<room, batch>>
    BY <1>27 DEF DecideHandoff
  <2> QED BY <2>1, <1>u
<1>28. ASSUME NEW targets \in SUBSET Bot, Send(targets)
       PROVE  \E version \in Nat : \E some \in SUBSET Bot : PrepareRoomRun(version,
                some) /\ UNCHANGED room
  <2>1. room.version \in Nat
    BY DEF Inv, TypeOK
  <2> QED BY <1>28, <2>1 DEF Send
<1>29. ASSUME NEW r \in Route, SelectOwner(r)
       PROVE  BatchGoesOn
  <2>1. UNCHANGED <<room, batch>>
    BY <1>29 DEF SelectOwner
  <2> QED BY <2>1, <1>u
<1>30. ASSUME NEW i \in Turn, RetryTurn(i)
       PROVE  \E j \in Turn : RetryTurn(j)
  BY <1>30
<1>31. ASSUME NEW b \in Bot, AddMember(b)
       PROVE  BatchGoesOn
  BY <1>31 DEF AddMember, Busy, BatchGoesOn
<1>32. ASSUME NEW b \in Bot, RemoveMember(b)
       PROVE  BatchGoesOn
  BY <1>32 DEF RemoveMember, Busy, BatchGoesOn
<1>33. ASSUME Cancel
       PROVE  BatchGoesOn
  <2>1. UNCHANGED <<room, batch>>
    BY <1>33 DEF Cancel
  <2> QED BY <2>1, <1>u
<1>34. ASSUME Continue
       PROVE  Continue
  BY <1>34
<1>35. ASSUME ArchiveRoom
       PROVE  BatchGoesOn
  BY <1>35 DEF ArchiveRoom, Busy, BatchGoesOn
<1>36. ASSUME NEW r \in Route, OwnerSelected(r)
       PROVE  \E version \in Nat : \E some \in SUBSET Bot : PrepareRoomRun(version,
                some) /\ UNCHANGED room
  <2>1. PICK bot \in Bot : PrepareRoomRun(routing[r], {bot})
    BY <1>36 DEF OwnerSelected
  <2>2. routing[r] \in Nat /\ {bot} \in SUBSET Bot /\ UNCHANGED room
    BY <1>36 DEF Inv, TypeOK, OwnerSelected
  <2> QED BY <2>1, <2>2
<1>37. ASSUME NEW r \in Route, RoutingFails(r)
       PROVE  BatchGoesOn
  <2>1. UNCHANGED <<room, batch>>
    BY <1>37 DEF RoutingFails
  <2> QED BY <2>1, <1>u
<1>38. ASSUME TimePasses
       PROVE  BatchGoesOn
  <2>1. UNCHANGED <<room, batch>>
    BY <1>38 DEF TimePasses
  <2> QED BY <2>1, <1>u
<1>39. ASSUME DeadlineFires
       PROVE  BatchGoesOn
  <2>1. UNCHANGED <<room, batch>>
    BY <1>39 DEF DeadlineFires
  <2> QED BY <2>1, <1>u
<1>40. ASSUME BeginShutdown
       PROVE  BatchGoesOn
  <2>1. UNCHANGED <<room, batch>>
    BY <1>40 DEF BeginShutdown
  <2> QED BY <2>1, <1>u
<1>41. ASSUME ExecutorDrained
       PROVE  BatchGoesOn
  <2>1. UNCHANGED <<room, batch>>
    BY <1>41 DEF ExecutorDrained
  <2> QED BY <2>1, <1>u
<1>42. ASSUME Drained
       PROVE  BatchGoesOn
  BY <1>42, BatchRecovered DEF Drained, BatchGoesOn
<1>43. ASSUME Crash
       PROVE  BatchGoesOn
  <2>1. UNCHANGED <<room, batch>>
    BY <1>43 DEF Crash, Down
  <2> QED BY <2>1, <1>u
<1>44. ASSUME Restart
       PROVE  BatchGoesOn
  <2>1. UNCHANGED <<room, batch>>
    BY <1>44 DEF Restart
  <2> QED BY <2>1, <1>u
<1> QED BY <1>1, <1>2, <1>3, <1>4, <1>5, <1>6, <1>7, <1>8, <1>9, <1>10, <1>11, <1>12, <1>13,
     <1>14, <1>15, <1>16, <1>17, <1>18, <1>19, <1>20, <1>21, <1>22, <1>23, <1>24, <1>25, <1>26,
     <1>27, <1>28, <1>29, <1>30, <1>31, <1>32, <1>33, <1>34, <1>35, <1>36, <1>37, <1>38, <1>39,
     <1>40, <1>41, <1>42, <1>43, <1>44
  DEF Next, HandlerStep, RunStep, User, RouteAndSend

DispatchedAt == at = "dispatch" => Frontier # {} /\ ~batch.winding

\* The loop has a turn to begin when it has dispatched a handoff.
LEMMA DispatchKept ==
  ASSUME Inv, [Next]_vars
  PROVE  DispatchedAt'
<1>0. /\ QueuedAt /\ DispatchedAt
      /\ mem.back \in {"idle", "end"}
  BY DEF Inv, TypeOK, Memory, QueuedAt, DispatchedAt
<1>1. CASE UNCHANGED vars
  <2>1. Queued' = Queued
    BY <1>1 DEF vars, Queued
  <2>2. Frontier' = Frontier
    BY <1>1, <2>1, FrontierKept DEF vars
  <2> QED BY <1>1, <1>0, <2>2 DEF vars, DispatchedAt
<1>2. CASE Begin
  <2>1. at' # "dispatch"
    BY <1>2, <1>0 DEF Begin, Idle, StartProcessing
  <2> QED BY <2>1 DEF DispatchedAt
<1>3. CASE LoopEnds
  <2>1. at' # "dispatch"
    BY <1>3, <1>0 DEF LoopEnds, Idle
  <2> QED BY <2>1 DEF DispatchedAt
<1>4. CASE SettleTurn
  <2>1. at' # "dispatch"
    BY <1>4, <1>0 DEF SettleTurn, Idle
  <2> QED BY <2>1 DEF DispatchedAt
<1>5. CASE SettleHandoff
  <2>1. at' # "dispatch"
    BY <1>5, <1>0 DEF SettleHandoff, Idle
  <2> QED BY <2>1 DEF DispatchedAt
<1>6. CASE EndProcess
  <2>1. at' # "dispatch"
    BY <1>6, <1>0 DEF EndProcess, Idle
  <2> QED BY <2>1 DEF DispatchedAt
<1>7. CASE MarkWindingDown
  <2>1. at' # "dispatch"
    BY <1>7, <1>0 DEF MarkWindingDown, Idle
  <2> QED BY <2>1 DEF DispatchedAt
<1>8. CASE CancelRun
  <2>1. at' # "dispatch"
    BY <1>8, <1>0 DEF CancelRun, Idle
  <2> QED BY <2>1 DEF DispatchedAt
<1>9. CASE CancelBatch
  <2>1. at' # "dispatch"
    BY <1>9, <1>0 DEF CancelBatch, Idle
  <2> QED BY <2>1 DEF DispatchedAt
<1>10. CASE StopEnds
  <2>1. at' # "dispatch"
    BY <1>10, <1>0 DEF StopEnds, Idle, Finished
  <2> QED BY <2>1 DEF DispatchedAt
<1>11. CASE RecoverRooms
  <2>1. at' # "dispatch"
    BY <1>11, <1>0 DEF RecoverRooms, Idle
  <2> QED BY <2>1 DEF DispatchedAt
<1>12. CASE RecoverRuns
  <2>1. at' # "dispatch"
    BY <1>12, <1>0 DEF RecoverRuns, Idle
  <2> QED BY <2>1 DEF DispatchedAt
<1>13. ASSUME NEW i \in Turn, Refuse(i)
       PROVE  DispatchedAt'
  <2>1. at' # "dispatch"
    BY <1>13, <1>0 DEF Refuse, Idle
  <2> QED BY <2>1 DEF DispatchedAt
<1>14. ASSUME NEW i \in Turn, DispatchHandoff(i)
       PROVE  DispatchedAt'
  <2>1. Changes(i, "queued", turn[i].run, "dispatching", turn[i].try, turn[i].cut)
        /\ turn[i].state = "queued"
    BY <1>14, <1>0, OneTurnSteps, NextIsQueued DEF Queued
  <2>2. Queued' = Queued
    BY <2>1 DEF Changes, Is, Queued
  <2>3. Frontier' = Frontier
    BY <1>14, <2>1, <2>2, FrontierKept DEF DispatchHandoff, Changes, Is, SameShape
  <2> QED BY <1>14, <1>0, <2>3, NextIsQueued DEF DispatchHandoff, DispatchedAt
<1>15. ASSUME NEW i \in Turn, BeginTurn(i)
       PROVE  DispatchedAt'
  <2>1. at' # "dispatch"
    BY <1>15, <1>0 DEF BeginTurn, Idle
  <2> QED BY <2>1 DEF DispatchedAt
<1>16. ASSUME NEW i \in Turn, Launch(i)
       PROVE  DispatchedAt'
  <2>1. at' # "dispatch"
    BY <1>16, <1>0 DEF Launch, Idle
  <2> QED BY <2>1 DEF DispatchedAt
<1>17. ASSUME NEW i \in Turn, Attach(i)
       PROVE  DispatchedAt'
  <2>1. at' # "dispatch"
    BY <1>17, <1>0 DEF Attach, Idle
  <2> QED BY <2>1 DEF DispatchedAt
<1>18. ASSUME NEW i \in Turn, AcceptHandoff(i)
       PROVE  DispatchedAt'
  <2>1. at' # "dispatch"
    BY <1>18, <1>0 DEF AcceptHandoff, Idle
  <2> QED BY <2>1 DEF DispatchedAt
<1>19. ASSUME NEW i \in Turn, CancelHandoff(i)
       PROVE  DispatchedAt'
  <2>1. at' # "dispatch"
    BY <1>19, <1>0 DEF CancelHandoff, Idle
  <2> QED BY <2>1 DEF DispatchedAt
<1>20. ASSUME NEW i \in Turn, CancelQueued(i)
       PROVE  DispatchedAt'
  <2>1. at' # "dispatch"
    BY <1>20, <1>0 DEF CancelQueued, Idle
  <2> QED BY <2>1 DEF DispatchedAt
<1>21. ASSUME NEW i \in Turn, ProviderStarts(i)
       PROVE  DispatchedAt'
  <2>1. at' # "dispatch"
    BY <1>21, <1>0 DEF ProviderStarts, Idle
  <2> QED BY <2>1 DEF DispatchedAt
<1>22. ASSUME NEW i \in Turn, AskContinuation(i)
       PROVE  DispatchedAt'
  <2>1. at' # "dispatch"
    BY <1>22, <1>0 DEF AskContinuation, Idle, Awaits
  <2> QED BY <2>1 DEF DispatchedAt
<1>23. ASSUME NEW i \in Turn, Complete(i)
       PROVE  DispatchedAt'
  <2>1. at' # "dispatch"
    BY <1>23, <1>0 DEF Complete, Idle
  <2> QED BY <2>1 DEF DispatchedAt
<1>24. ASSUME NEW i \in Turn, Fail(i)
       PROVE  DispatchedAt'
  <2>1. at' # "dispatch"
    BY <1>24, <1>0 DEF Fail, Idle
  <2> QED BY <2>1 DEF DispatchedAt
<1>25. ASSUME NEW i \in Turn, AnswerLate(i)
       PROVE  DispatchedAt'
  <2>1. at' # "dispatch"
    BY <1>25, <1>0 DEF AnswerLate, Idle
  <2> QED BY <2>1 DEF DispatchedAt
<1>26. ASSUME NEW i \in Turn, NEW b \in Bot, NEW d \in Task, Handoff(i, b, d)
       PROVE  DispatchedAt'
  <2>1. at' # "dispatch"
    BY <1>26, <1>0 DEF Handoff, Idle, Awaits
  <2> QED BY <2>1 DEF DispatchedAt
<1>27. ASSUME NEW i \in Turn, NEW b \in Bot, NEW d \in Task, DecideHandoff(i, b, d)
       PROVE  DispatchedAt'
  <2>1. at' # "dispatch"
    BY <1>27, <1>0 DEF DecideHandoff, Idle
  <2> QED BY <2>1 DEF DispatchedAt
<1>28. ASSUME NEW targets \in SUBSET Bot, Send(targets)
       PROVE  DispatchedAt'
  <2>1. at' # "dispatch"
    BY <1>28, <1>0 DEF Send, Idle, PrepareRoomRun
  <2> QED BY <2>1 DEF DispatchedAt
<1>29. ASSUME NEW r \in Route, SelectOwner(r)
       PROVE  DispatchedAt'
  <2>1. at' # "dispatch"
    BY <1>29, <1>0 DEF SelectOwner, Idle
  <2> QED BY <2>1 DEF DispatchedAt
<1>30. ASSUME NEW i \in Turn, RetryTurn(i)
       PROVE  DispatchedAt'
  <2>1. at' # "dispatch"
    BY <1>30, <1>0 DEF RetryTurn, Idle, Resume, StartProcessing
  <2> QED BY <2>1 DEF DispatchedAt
<1>31. ASSUME NEW b \in Bot, AddMember(b)
       PROVE  DispatchedAt'
  <2>1. at' # "dispatch"
    BY <1>31, <1>0 DEF AddMember, Idle
  <2> QED BY <2>1 DEF DispatchedAt
<1>32. ASSUME NEW b \in Bot, RemoveMember(b)
       PROVE  DispatchedAt'
  <2>1. at' # "dispatch"
    BY <1>32, <1>0 DEF RemoveMember, Idle
  <2> QED BY <2>1 DEF DispatchedAt
<1>33. CASE Cancel
  <2>1. at' # "dispatch"
    BY <1>33, <1>0 DEF Cancel, Idle
  <2> QED BY <2>1 DEF DispatchedAt
<1>34. CASE Continue
  <2>1. at' # "dispatch"
    BY <1>34, <1>0 DEF Continue, Idle, Resume, StartProcessing
  <2> QED BY <2>1 DEF DispatchedAt
<1>35. CASE ArchiveRoom
  <2>1. at' # "dispatch"
    BY <1>35, <1>0 DEF ArchiveRoom, Idle
  <2> QED BY <2>1 DEF DispatchedAt
<1>36. ASSUME NEW r \in Route, OwnerSelected(r)
       PROVE  DispatchedAt'
  <2>1. at' # "dispatch"
    BY <1>36, <1>0 DEF OwnerSelected, Idle, PrepareRoomRun
  <2> QED BY <2>1 DEF DispatchedAt
<1>37. ASSUME NEW r \in Route, RoutingFails(r)
       PROVE  DispatchedAt'
  <2>1. at' # "dispatch"
    BY <1>37, <1>0 DEF RoutingFails, Idle
  <2> QED BY <2>1 DEF DispatchedAt
<1>38. CASE TimePasses
  <2>1. Queued' = Queued
    BY <1>38 DEF TimePasses, Queued
  <2>2. Frontier' = Frontier
    BY <1>38, <2>1, FrontierKept DEF TimePasses
  <2> QED BY <1>38, <1>0, <2>2 DEF TimePasses, DispatchedAt
<1>39. CASE DeadlineFires
  <2>1. at' # "dispatch"
    BY <1>39, <1>0 DEF DeadlineFires, Idle
  <2> QED BY <2>1 DEF DispatchedAt
<1>40. CASE BeginShutdown
  <2>1. at' # "dispatch"
    BY <1>40, <1>0 DEF BeginShutdown, Idle
  <2> QED BY <2>1 DEF DispatchedAt
<1>41. CASE ExecutorDrained
  <2>1. at' # "dispatch"
    BY <1>41, <1>0 DEF ExecutorDrained, Idle
  <2> QED BY <2>1 DEF DispatchedAt
<1>42. CASE Drained
  <2>1. at' # "dispatch"
    BY <1>42, <1>0 DEF Drained, Idle, Down
  <2> QED BY <2>1 DEF DispatchedAt
<1>43. CASE Crash
  <2>1. at' # "dispatch"
    BY <1>43, <1>0 DEF Crash, Idle, Down
  <2> QED BY <2>1 DEF DispatchedAt
<1>44. CASE Restart
  <2>1. at' # "dispatch"
    BY <1>44, <1>0 DEF Restart, Idle
  <2> QED BY <2>1 DEF DispatchedAt
<1> QED BY <1>1, <1>2, <1>3, <1>4, <1>5, <1>6, <1>7, <1>8, <1>9, <1>10, <1>11, <1>12, <1>13,
     <1>14, <1>15, <1>16, <1>17, <1>18, <1>19, <1>20, <1>21, <1>22, <1>23, <1>24, <1>25, <1>26,
     <1>27, <1>28, <1>29, <1>30, <1>31, <1>32, <1>33, <1>34, <1>35, <1>36, <1>37, <1>38, <1>39,
     <1>40, <1>41, <1>42, <1>43, <1>44
  DEF Next, HandlerStep, RunStep, User, RouteAndSend

\* Turns wait in a batch that goes on.
LEMMA QueuedKept ==
  ASSUME Inv, [Next]_vars
  PROVE  QueuedAt'
<1>1. batch'.state \notin Active => Queued' = {}
  <2>1. CASE \E version \in Nat : \E some \in SUBSET Bot :
               PrepareRoomRun(version, some) /\ UNCHANGED room
    BY <2>1 DEF PrepareRoomRun, Active
  <2>2. CASE \E ii \in Turn, bb \in Bot, dd \in Task :
               CreateHandoff(ii, bb, dd) /\ UNCHANGED <<room, batch>>
    BY <2>2 DEF CreateHandoff, CanHandOff, Active
  <2>3. CASE (\E j \in Turn : RetryTurn(j)) \/ Continue
    <3>1. batch' = [batch EXCEPT !.state = "running"]
      BY <2>3 DEF RetryTurn, Continue, Resume
    <3>2. batch'.state = "running"
      BY <3>1 DEF Inv, TypeOK
    <3> QED BY <3>2 DEF Active
  <2>4. CASE NoNewWork /\ BatchGoesOn
    <3>1. batch.state \notin Active => Queued = {}
      BY DEF Inv, QueuedAt
    <3> QED BY <2>4, <3>1 DEF NoNewWork, BatchGoesOn, Queued
  <2> QED BY <2>1, <2>2, <2>3, <2>4, WorkComes, BatchKept
<1>2. at' = "dispatch" => Frontier' # {} /\ ~batch'.winding
  BY DispatchKept DEF DispatchedAt
<1> QED BY <1>1, <1>2 DEF QueuedAt

\* When the application waits and no batch goes on, no turn does.
LEMMA RestsWhenIdle ==
  ASSUME RunningAt, QueuedAt, ~Busy, at = "idle", app = "up"
  PROVE  \A j \in Turn : turn[j].state \notin Active
<1>1. Queued = {}
  BY DEF QueuedAt, Busy
<1>2. Running = {}
  BY DEF RunningAt, RunFeedsAt, Busy, Running
<1> QED BY <1>1, <1>2 DEF Queued, Running, Active

\* While a batch runs, the Room is the one it was made for.
LEMMA MembershipKept ==
  ASSUME Inv, [Next]_vars
  PROVE  MembershipFrozen'
<1> SUFFICES ASSUME batch'.state \in Active
             PROVE  /\ room'.version = batch'.version /\ ~room'.archived
                    /\ \A j \in Turn : turn'[j].state \in Active => turn'[j].bot \in room'.members
  BY DEF MembershipFrozen, Used
<1>0. MembershipFrozen /\ QueuedAt /\ RunningAt
  BY DEF Inv
<1>1. ASSUME NEW version \in Nat, NEW some \in SUBSET Bot, PrepareRoomRun(version, some),
             UNCHANGED room
      PROVE  /\ room'.version = batch'.version /\ ~room'.archived
             /\ \A j \in Turn : turn'[j].state \in Active => turn'[j].bot \in room'.members
  <2>1. room.version = version /\ ~room.archived /\ some \subseteq room.members
    BY <1>1 DEF PrepareRoomRun, CanPrepare
  <2>2. batch'.version = version
    BY <1>1 DEF PrepareRoomRun
  <2>3. PICK n \in 0..MaxTurns :
          \A j \in Turn : IF j \in 1..n THEN \E b \in some : turn'[j] = Fresh(b)
                          ELSE turn'[j] = NoTurn
    BY <1>1, Prepared
  <2>4. \A j \in Turn : turn'[j].state \in Active => turn'[j].bot \in some
    BY <2>3, FreshTurns DEF Active
  <2> QED BY <1>1, <2>1, <2>2, <2>4
<1>2. ASSUME NEW ii \in Turn, NEW bb \in Bot, NEW dd \in Task, CreateHandoff(ii, bb, dd),
             UNCHANGED <<room, batch>>
      PROVE  /\ room'.version = batch'.version /\ ~room'.archived
             /\ \A j \in Turn : turn'[j].state \in Active => turn'[j].bot \in room'.members
  <2>1. bb \in room.members
    BY <1>2 DEF CreateHandoff, CanHandOff
  <2>2. \A j \in Turn : turn'[j] = turn[j] \/ turn'[j].bot = bb
    BY <1>2, Created
  <2>3. \A j \in Turn : turn[j].state \in Active => turn[j].bot \in room.members
    BY <1>0, <1>2 DEF MembershipFrozen, Used, Active
  <2> QED BY <1>0, <1>2, <2>1, <2>2, <2>3 DEF MembershipFrozen
<1>3. ASSUME NEW j \in Turn, RetryTurn(j)
      PROVE  /\ room'.version = batch'.version /\ ~room'.archived
             /\ \A k \in Turn : turn'[k].state \in Active => turn'[k].bot \in room'.members
  <2>1. ~Busy /\ at = "idle" /\ app = "up" /\ room.version = batch.version /\ ~room.archived
        /\ turn[j].bot \in room.members
    BY <1>3 DEF RetryTurn, MayResume, Idle
  <2>2. \A k \in Turn : turn[k].state \notin Active
    BY <1>0, <2>1, RestsWhenIdle
  <2>3. Changes(j, "queued", "none", turn[j].handoff, turn[j].try + 1, turn[j].cut)
    BY <1>3, OneTurnSteps
  <2>4. UNCHANGED room /\ batch' = [batch EXCEPT !.state = "running"]
    BY <1>3 DEF RetryTurn, Resume
  <2>5. batch'.version = batch.version
    BY <2>4 DEF Inv, TypeOK
  <2>6. \A k \in Turn : turn'[k].state \in Active => k = j /\ turn'[k].bot = turn[j].bot
    BY <2>2, <2>3 DEF Changes, Is, SameShape
  <2> QED BY <2>1, <2>4, <2>5, <2>6
<1>4. ASSUME Continue
      PROVE  /\ room'.version = batch'.version /\ ~room'.archived
             /\ \A k \in Turn : turn'[k].state \in Active => turn'[k].bot \in room'.members
  <2>1. ~Busy /\ at = "idle" /\ app = "up" /\ room.version = batch.version /\ ~room.archived
    BY <1>4 DEF Continue, MayResume, Idle
  <2>2. \A k \in Turn : turn[k].state = "interrupted" /\ ~turn[k].cut => turn[k].bot \in room.members
    BY <1>4 DEF Continue, MayResume
  <2>3. \A k \in Turn : turn[k].state \notin Active
    BY <1>0, <2>1, RestsWhenIdle
  <2>4. UNCHANGED room /\ batch' = [batch EXCEPT !.state = "running"]
    BY <1>4 DEF Continue, Resume
  <2>5. batch'.version = batch.version
    BY <2>4 DEF Inv, TypeOK
  <2>6. \A k \in Turn : turn'[k].state \in Active =>
          turn[k].state = "interrupted" /\ ~turn[k].cut /\ turn'[k].bot = turn[k].bot
    BY <1>4, <2>3, AllTurnSteps DEF Now, Is, SameShape
  <2> QED BY <2>1, <2>2, <2>4, <2>5, <2>6
<1>5. CASE NoNewWork /\ BatchGoesOn
  BY <1>0, <1>5 DEF NoNewWork, BatchGoesOn, MembershipFrozen, Used, Active
<1> QED BY <1>1, <1>2, <1>3, <1>4, <1>5, WorkComes, BatchKept

----------------------------------------------------------------------------
(***************************************************************************)
(* The limits of a batch.                                                  *)
(***************************************************************************)

\* The turns and the targets are counted.
Counted ==
  /\ Cardinality(Used) <= MaxTurns
  /\ \A i \in Used : turn[i].hop <= MaxHops /\ Cardinality(Targets(i)) <= MaxTargets

\* The targets of turn i are Bots.
LEMMA TargetsFinite ==
  ASSUME Inv, NEW i \in Turn
  PROVE  IsFiniteSet(Targets(i))
<1>1. IsFiniteSet(0..Bots)
  BY Bounds, FS_Interval
<1>2. \A j \in Turn : turn[j] \in TurnRecord
  BY DEF Inv, TypeOK
<1>3. \A j \in Turn : turn[j].bot \in Bot \cup {None}
  BY <1>2, TurnParts
<1>4. \A j \in Turn : turn[j].bot \in 0..Bots
  BY <1>3, Bounds DEF Bot, None
<1>5. Targets(i) \subseteq 0..Bots
  BY <1>4 DEF Targets
<1> QED BY <1>1, <1>5, FS_Subset

\* Every step keeps the limits of turns, hops and targets.
LEMMA CountsKept ==
  ASSUME Inv, [Next]_vars
  PROVE  Counted'
<1>0. /\ Numbered /\ Counted /\ Numbered' /\ \A j \in Turn : turn[j].from \in {None} \cup Turn
      /\ turn' \in [Turn -> TurnRecord]
  BY TurnParts, NumbersKept, TurnsTyped DEF Inv, TypeOK, Bounded, Counted
<1>1. Cardinality(Used') <= MaxTurns
  <2>1. PICK n \in 0..MaxTurns : Used' = 1..n
    BY <1>0 DEF Numbered
  <2>2. Cardinality(1..n) = n /\ n <= MaxTurns
    BY <2>1, Bounds, FS_Interval
  <2> QED BY <2>1, <2>2
<1>2. \A j \in Turn : turn'[j].hop <= MaxHops
  <2>1. \A j \in Turn : turn'[j].hop \in 0..MaxHops
    BY <1>0, TurnParts
  <2> QED BY <2>1, Bounds
<1>3. CASE \E version \in Nat : \E targets \in SUBSET Bot : PrepareRoomRun(version, targets)
  <2>1. PICK version \in Nat, targets \in SUBSET Bot : PrepareRoomRun(version, targets)
    BY <1>3
  <2>2. \A j \in Turn : turn'[j].from = None
    BY <2>1, Prepared, FreshTurns
  <2>3. \A i \in Turn : Targets(i)' = {}
    BY <2>2, Bounds DEF Targets
  <2>4. \A i \in Turn : Cardinality(Targets(i)') <= MaxTargets
    BY <2>3, FS_EmptySet, Bounds
  <2> QED BY <1>1, <1>2, <2>4 DEF Counted, Used
<1>4. CASE \E i \in Turn, b \in Bot, d \in Task : CreateHandoff(i, b, d)
  <2>1. PICK i \in Turn, b \in Bot, d \in Task : CreateHandoff(i, b, d)
    BY <1>4
  <2> DEFINE m == Cardinality(Used) + 1
  <2>2. /\ m \in Turn /\ m \notin Used /\ turn[m] = NoTurn
        /\ turn'[m].from = i /\ turn'[m].bot = b
        /\ \A j \in Turn \ {m} : turn'[j] = turn[j]
    BY <2>1, Created
  <2>3. i \in Used /\ Used' = Used \cup {m} /\ Used = 1..Cardinality(Used) /\ Cardinality(Used) \in 0..MaxTurns
    BY <2>1, UsedGrows, <1>0, UsedNumbers
  <2>4. Cardinality(Targets(i)) < MaxTargets /\ b \notin Targets(i)
    BY <2>1 DEF CreateHandoff, CanHandOff, CanCreateTurn
  <2>7. turn[m].from = None /\ i # m
    BY <2>2, <2>3, FreshTurns
  <2>8. \A j \in Turn : turn[j].from # m
    <3>1. ASSUME NEW j \in Used
          PROVE  turn[j].from # m
      <4>1. turn[j].from < j /\ j <= Cardinality(Used) /\ j \in Nat
        BY <1>0, <2>3 DEF Numbered
      <4> QED BY <4>1, <2>3, <1>0, Bounds DEF Used, None
    <3>2. ASSUME NEW j \in Turn \ Used
          PROVE  turn[j].from # m
      BY <1>0, <2>2, FreshTurns, Bounds DEF Numbered
    <3> QED BY <3>1, <3>2
  <2> HIDE DEF m
  <2>5. Targets(i)' = Targets(i) \cup {b}
    <3>1. {k \in Turn : turn'[k].from = i} = {k \in Turn : turn[k].from = i} \cup {m}
      BY <2>2, <2>7
    <3>2. i # None
      BY <2>3, Bounds DEF Used
    <3>3. \A k \in Turn : turn[k].from = i => turn'[k].bot = turn[k].bot
      BY <2>2, <2>7, <3>2
    <3> QED BY <2>2, <3>1, <3>3 DEF Targets
  <2>6. ASSUME NEW j \in Used'
        PROVE  Cardinality(Targets(j)') <= MaxTargets
    <3>1. CASE j = i
      <4>1. Cardinality(Targets(i)') = Cardinality(Targets(i)) + 1
        BY <2>4, <2>5, TargetsFinite, FS_AddElement
      <4>2. Cardinality(Targets(i)) \in Nat
        BY TargetsFinite, FS_CardinalityType
      <4> QED BY <2>4, <3>1, <4>1, <4>2, Bounds
    <3>2. CASE j = m
      <4>1. Targets(j)' = {}
        BY <2>2, <2>7, <2>8, <3>2 DEF Targets
      <4> QED BY <3>2, <4>1, FS_EmptySet, Bounds
    <3>3. CASE j # i /\ j # m
      <4>1. Targets(j)' = Targets(j)
        BY <2>2, <2>7, <3>3, Bounds DEF Targets, Used
      <4> QED BY <1>0, <2>3, <3>3, <4>1 DEF Counted
    <3> QED BY <3>1, <3>2, <3>3
  <2> QED BY <1>1, <1>2, <2>6 DEF Counted, Used
<1>5. CASE \A j \in Turn : Keeps(j)
  <2>1. Used' = Used /\ \A j \in Turn : turn'[j].from = turn[j].from /\ turn'[j].bot = turn[j].bot
    BY <1>5, UsedGrows DEF Keeps, SameShape
  <2>2. \A i \in Turn : Targets(i)' = Targets(i)
    BY <2>1 DEF Targets
  <2> QED BY <1>0, <1>1, <1>2, <2>1, <2>2 DEF Counted, Used
<1> QED BY <1>3, <1>4, <1>5, TurnsKept

\* The numbers of turns, and none.
Number == 0..MaxTurns + 1

\* Induction on the numbers of turns.
LEMMA NumberInduction ==
  ASSUME NEW S \in SUBSET Number,
         \A k \in Number : (\A l \in Number : l < k => l \in S) => k \in S
  PROVE  S = Number
<1> DEFINE R == Number \ S
<1>1. Number \subseteq Nat
  BY Bounds DEF Number
<1>2. CASE R # {}
  <2>1. R \in SUBSET Nat
    BY <1>1
  <2>2. Min(R) \in R /\ \A l \in R : Min(R) <= l
    BY <1>2, <2>1, LeastExists
  <2>3. ASSUME NEW l \in Number, l < Min(R)
        PROVE  l \in S
    <3>1. l \in Nat /\ Min(R) \in Nat
      BY <1>1, <2>2
    <3>2. l \notin R
      BY <2>2, <2>3, <3>1
    <3> QED BY <3>2
  <2>4. Min(R) \in S
    BY <2>2, <2>3
  <2> QED BY <2>2, <2>4
<1>3. CASE R = {}
  BY <1>3
<1> QED BY <1>2, <1>3

\* A function on the numbers of turns that goes on, where p says so, at a smaller number r.
Descends(p, r) == \A k \in Number : p[k] => r[k] \in Number /\ r[k] < k
HasChain(A, p, r) == \E f : f = [k \in Number |-> A[k] \cup (IF p[k] THEN f[r[k]] ELSE {})]

\* A number that descends along a chain has its chain: the recursive function that gathers
\* the members of the chain exists, by induction on the number of the turn.
LEMMA ChainFunction ==
  ASSUME NEW A, NEW p, NEW r, Descends(p, r)
  PROVE  HasChain(A, p, r)
<1> DEFINE B(k, f) == A[k] \cup (IF p[k] THEN f[r[k]] ELSE {})
           Up(n) == \E f : /\ f = [k \in Number |-> f[k]]
                           /\ \A k \in 0..n : f[k] = B(k, f)
<1>1. Number \subseteq Nat /\ 0 \in Number /\ MaxTurns + 1 \in Number /\ MaxTurns \in Nat
  BY Bounds DEF Number
<1>0. \A k \in Number : p[k] => r[k] \in Number /\ r[k] < k
  BY DEF Descends
<1>2. ASSUME NEW n \in Number, \A l \in Number : l < n => Up(l)
      PROVE  Up(n)
  <2>1. PICK f : /\ f = [k \in Number |-> f[k]]
                 /\ \A k \in 0..n : k < n => f[k] = B(k, f)
    <3>1. CASE n = 0
      <4> DEFINE f == [k \in Number |-> {}]
      <4>1. f = [k \in Number |-> f[k]] /\ \A k \in 0..n : k < n => f[k] = B(k, f)
        BY <3>1
      <4> HIDE DEF f
      <4> QED BY <4>1
    <3>2. CASE n # 0
      <4>1. n - 1 \in Number /\ n - 1 < n
        BY <1>1, <3>2 DEF Number
      <4>2. PICK f : f = [k \in Number |-> f[k]] /\ \A k \in 0..(n - 1) : f[k] = B(k, f)
        BY <1>2, <4>1
      <4>3. \A k \in 0..n : k < n => k \in 0..(n - 1)
        BY <1>1
      <4> QED BY <4>2, <4>3
    <3> QED BY <3>1, <3>2
  <2> DEFINE g == [k \in Number |-> IF k = n THEN B(n, f) ELSE f[k]]
  <2>2. g = [k \in Number |-> g[k]]
    OBVIOUS
  <2>3. ASSUME NEW k \in 0..n
        PROVE  g[k] = B(k, g)
    <3>1. k \in Number /\ k \in Nat /\ n \in Nat
      BY <1>1 DEF Number
    <3>2. p[k] => g[r[k]] = f[r[k]]
      <4>1. p[k] => r[k] \in Number /\ r[k] # n
        BY <1>0, <1>1, <3>1
      <4> QED BY <4>1
    <3>3. B(k, g) = B(k, f)
      BY <3>2
    <3>4. g[k] = IF k = n THEN B(n, f) ELSE f[k]
      BY <3>1
    <3> HIDE DEF g, B
    <3>5. k # n => f[k] = B(k, f)
      BY <2>1, <3>1
    <3> QED BY <3>3, <3>4, <3>5
  <2> HIDE DEF g, B
  <2> QED BY <2>2, <2>3
<1>3. \A n \in Number : Up(n)
  <2> HIDE DEF Up
  <2> DEFINE S == {n \in Number : Up(n)}
  <2>1. S = Number
    <3>1. \A n \in Number : (\A l \in Number : l < n => l \in S) => n \in S
      BY <1>2
    <3>2. S \in SUBSET Number
      OBVIOUS
    <3> HIDE DEF S
    <3> QED BY <3>1, <3>2, NumberInduction
  <2> QED BY <2>1
<1>4. Up(MaxTurns + 1)
  BY <1>1, <1>3
<1>5. PICK f : f = [k \in Number |-> f[k]] /\ \A k \in 0..(MaxTurns + 1) : f[k] = B(k, f)
  BY <1>4
<1>6. f = [k \in Number |-> B(k, f)]
  <2> HIDE DEF B
  <2> QED BY <1>5 DEF Number
<1> QED BY <1>6, Zenon DEF HasChain

\* The chains that SameTaskBots and Passed follow, for any turns and any task.
AboveOf(turns, d) ==
  LET above[k \in 0..MaxTurns + 1] ==
        IF k = None THEN {}
        ELSE {turns[k].bot} \cup (IF turns[k].task = d THEN above[turns[k].from] ELSE {})
  IN above

FromsOf(turns, d) ==
  LET froms[k \in 0..MaxTurns + 1] ==
        IF k = None \/ turns[k].task # d THEN {} ELSE {turns[k].from} \cup froms[turns[k].from]
  IN froms

Chained(turns) == \A k \in Turn : turns[k].from \in {None} \cup Turn /\ turns[k].from < k

\* The Bots above a turn: its own, and those above the turn it comes from if the task is one.
LEMMA AboveSteps ==
  ASSUME NEW turns, NEW d, Chained(turns), NEW k \in Number
  PROVE  AboveOf(turns, d)[k] =
           IF k = None THEN {}
           ELSE {turns[k].bot} \cup
                  (IF turns[k].task = d THEN AboveOf(turns, d)[turns[k].from] ELSE {})
<1> DEFINE A == [l \in Number |-> IF l = None THEN {} ELSE {turns[l].bot}]
           p == [l \in Number |-> l # None /\ turns[l].task = d]
           r == [l \in Number |-> turns[l].from]
           B(f) == [l \in Number |-> IF l = None THEN {}
                      ELSE {turns[l].bot} \cup (IF turns[l].task = d THEN f[turns[l].from] ELSE {})]
<1>1. \A l \in Number : l # None => l \in Turn
  BY Bounds DEF Number, Turn, None
<1>2. {None} \cup Turn \subseteq Number
  BY Bounds DEF Number, Turn, None
<1>3. Descends(p, r)
  BY <1>1, <1>2 DEF Chained, Descends
<1>4. ASSUME NEW f
      PROVE  [l \in Number |-> A[l] \cup (IF p[l] THEN f[r[l]] ELSE {})] = B(f)
  OBVIOUS
<1>5. \E f : f = [l \in Number |-> A[l] \cup (IF p[l] THEN f[r[l]] ELSE {})]
  <2> HIDE DEF A, p, r
  <2>1. HasChain(A, p, r)
    BY <1>3, ChainFunction
  <2> QED BY <2>1, Zenon DEF HasChain
<1> HIDE DEF A, p, r
<1>6. \E f : f = B(f)
  BY <1>4, <1>5
<1>7. AboveOf(turns, d) = (CHOOSE f : f = B(f))
  BY Zenon DEF AboveOf, Number
<1>8. AboveOf(turns, d) = B(AboveOf(turns, d))
  <2> HIDE DEF B
  <2> QED BY <1>6, <1>7
<1> QED BY <1>8

\* The turns a task has come through: the one it comes from, and those behind it.
LEMMA FromsSteps ==
  ASSUME NEW turns, NEW d, Chained(turns), NEW k \in Number
  PROVE  FromsOf(turns, d)[k] =
           IF k = None \/ turns[k].task # d THEN {}
           ELSE {turns[k].from} \cup FromsOf(turns, d)[turns[k].from]
<1> DEFINE A == [l \in Number |-> IF l = None \/ turns[l].task # d THEN {} ELSE {turns[l].from}]
           p == [l \in Number |-> l # None /\ turns[l].task = d]
           r == [l \in Number |-> turns[l].from]
           B(f) == [l \in Number |-> IF l = None \/ turns[l].task # d THEN {}
                                     ELSE {turns[l].from} \cup f[turns[l].from]]
<1>1. \A l \in Number : l # None => l \in Turn
  BY Bounds DEF Number, Turn, None
<1>2. {None} \cup Turn \subseteq Number
  BY Bounds DEF Number, Turn, None
<1>3. Descends(p, r)
  BY <1>1, <1>2 DEF Chained, Descends
<1>4. ASSUME NEW f
      PROVE  [l \in Number |-> A[l] \cup (IF p[l] THEN f[r[l]] ELSE {})] = B(f)
  OBVIOUS
<1>5. \E f : f = [l \in Number |-> A[l] \cup (IF p[l] THEN f[r[l]] ELSE {})]
  <2> HIDE DEF A, p, r
  <2>1. HasChain(A, p, r)
    BY <1>3, ChainFunction
  <2> QED BY <2>1, Zenon DEF HasChain
<1> HIDE DEF A, p, r
<1>6. \E f : f = B(f)
  BY <1>4, <1>5
<1>7. FromsOf(turns, d) = (CHOOSE f : f = B(f))
  BY Zenon DEF FromsOf, Number
<1>8. FromsOf(turns, d) = B(FromsOf(turns, d))
  <2> HIDE DEF B
  <2> QED BY <1>6, <1>7
<1> QED BY <1>8

\* What FromsOf collects for turn k comes before k, and AboveOf has its Bots.
LEMMA FromsFacts ==
  ASSUME NEW turns, NEW d, Chained(turns)
  PROVE  \A k \in Number : \A j \in FromsOf(turns, d)[k] :
           /\ j < k /\ j \in Number
           /\ k # None /\ turns[k].task = d
           /\ j # None => turns[j].bot \in AboveOf(turns, d)[turns[k].from]
<1> DEFINE froms == FromsOf(turns, d)
           above == AboveOf(turns, d)
           Good(k) == \A j \in froms[k] : /\ j < k /\ j \in Number
                                          /\ k # None /\ turns[k].task = d
                                          /\ j # None => turns[j].bot \in above[turns[k].from]
           S == {k \in Number : Good(k)}
<1>1. \A k \in Number : froms[k] = IF k = None \/ turns[k].task # d THEN {}
                                   ELSE {turns[k].from} \cup froms[turns[k].from]
  BY FromsSteps
<1>2. \A k \in Number : above[k] = IF k = None THEN {}
                                   ELSE {turns[k].bot} \cup
                                          (IF turns[k].task = d THEN above[turns[k].from] ELSE {})
  BY AboveSteps
<1>3. \A k \in Number : k # None => turns[k].from \in Number /\ turns[k].from < k
  BY Bounds DEF Chained, Number, Turn, None
<1>4. Number \subseteq Nat
  BY Bounds DEF Number
<1> HIDE DEF froms, above
<1>5. ASSUME NEW k \in Number, \A l \in Number : l < k => Good(l)
      PROVE  Good(k)
  <2> SUFFICES ASSUME NEW j \in froms[k]
               PROVE  /\ j < k /\ j \in Number
                      /\ k # None /\ turns[k].task = d
                      /\ j # None => turns[j].bot \in above[turns[k].from]
    OBVIOUS
  <2>1. k # None /\ turns[k].task = d /\ (j = turns[k].from \/ j \in froms[turns[k].from])
    BY <1>1
  <2>2. turns[k].from \in Number /\ turns[k].from < k
    BY <1>3, <2>1
  <2>3. CASE j = turns[k].from
    BY <1>2, <2>1, <2>2, <2>3
  <2>4. CASE j \in froms[turns[k].from]
    <3>1. Good(turns[k].from)
      BY <1>5, <2>2
    <3>2. /\ j < turns[k].from /\ j \in Number
          /\ turns[k].from # None /\ turns[turns[k].from].task = d
          /\ j # None => turns[j].bot \in above[turns[turns[k].from].from]
      BY <2>4, <3>1
    <3>3. j < k
      BY <1>4, <2>2, <3>2
    <3>4. above[turns[turns[k].from].from] \subseteq above[turns[k].from]
      BY <1>2, <2>2, <3>2
    <3> QED BY <2>1, <3>2, <3>3, <3>4
  <2> QED BY <2>1, <2>3, <2>4
<1>6. S = Number
  <2> HIDE DEF Good
  <2>1. \A k \in Number : (\A l \in Number : l < k => l \in S) => k \in S
    BY <1>5
  <2>2. S \in SUBSET Number
    OBVIOUS
  <2> HIDE DEF S
  <2> QED BY <2>1, <2>2, NumberInduction
<1>7. \A k \in Number : Good(k)
  BY <1>6
<1> QED BY <1>7 DEF froms, above

\* FromsOf of turn k depends on the turns before only.
LEMMA FromsAgree ==
  ASSUME NEW turns, NEW others, NEW d, Chained(turns), Chained(others), NEW n \in Number,
         \A k \in Turn : k <= n => turns[k].from = others[k].from /\ turns[k].task = others[k].task
  PROVE  \A k \in Number : k <= n => FromsOf(turns, d)[k] = FromsOf(others, d)[k]
<1> DEFINE one == FromsOf(turns, d)
           two == FromsOf(others, d)
           S == {k \in Number : k <= n => one[k] = two[k]}
<1>1. ASSUME NEW t, Chained(t), NEW k \in Number
      PROVE  FromsOf(t, d)[k] = IF k = None \/ t[k].task # d THEN {}
                                ELSE {t[k].from} \cup FromsOf(t, d)[t[k].from]
  BY ONLY <1>1, FromsSteps, SMTT(30)
<1>2. ASSUME NEW k \in Number
      PROVE  one[k] = IF k = None \/ turns[k].task # d THEN {}
                      ELSE {turns[k].from} \cup one[turns[k].from]
  BY <1>1
<1>3. ASSUME NEW k \in Number
      PROVE  two[k] = IF k = None \/ others[k].task # d THEN {}
                      ELSE {others[k].from} \cup two[others[k].from]
  BY <1>1
<1>4. \A k \in Number : k # None =>
        k \in Turn /\ turns[k].from \in Number /\ turns[k].from < k
  BY Bounds DEF Chained, Number, Turn, None
<1>5. Number \subseteq Nat
  BY Bounds DEF Number
<1> HIDE DEF one, two
<1>6. ASSUME NEW k \in Number, \A l \in Number : l < k => l \in S
      PROVE  k \in S
  <2> SUFFICES ASSUME k <= n, k # None
               PROVE  one[k] = two[k]
    BY <1>2, <1>3
  <2>1. turns[k].from = others[k].from /\ turns[k].task = others[k].task
    BY <1>4
  <2>2. turns[k].from \in Number /\ turns[k].from < k /\ turns[k].from <= n
    <3>1. turns[k].from \in Number /\ turns[k].from < k
      BY <1>4
    <3>2. turns[k].from \in Nat /\ k \in Nat /\ n \in Nat
      BY <1>5, <3>1
    <3> QED BY <3>1, <3>2
  <2>3. one[turns[k].from] = two[turns[k].from]
    BY <1>6, <2>2
  <2>4. one[k] = IF turns[k].task # d THEN {} ELSE {turns[k].from} \cup one[turns[k].from]
    BY <1>2
  <2>5. two[k] = IF others[k].task # d THEN {} ELSE {others[k].from} \cup two[others[k].from]
    BY <1>3
  <2> QED BY <2>1, <2>3, <2>4, <2>5
<1>7. S = Number
  <2>1. S \in SUBSET Number
    OBVIOUS
  <2> HIDE DEF S
  <2> QED BY <1>6, <2>1, NumberInduction
<1> QED BY <1>7 DEF one, two

\* A task that was handed on does not come back to a Bot.
NoReturn == \A i, j \in Used : Passed(j, i) => turn[i].bot # turn[j].bot

\* What the model says of a chain of turns, in the terms of the two functions above.
LEMMA Chains ==
  /\ \A i, j \in Turn :
       /\ Passed(j, i) <=> turn[i].task # NoTask /\ j \in FromsOf(turn, turn[i].task)[i]
       /\ Passed(j, i)' <=> turn'[i].task # NoTask /\ j \in FromsOf(turn', turn'[i].task)[i]
  /\ \A i \in Turn, d \in Task : SameTaskBots(i, d) = AboveOf(turn, d)[i]
<1>1. ASSUME NEW i \in Turn, NEW j \in Turn
      PROVE  Passed(j, i) <=> turn[i].task # NoTask /\ j \in FromsOf(turn, turn[i].task)[i]
  BY Zenon DEF Passed, FromsOf
<1>2. ASSUME NEW i \in Turn, NEW j \in Turn
      PROVE  Passed(j, i)' <=> turn'[i].task # NoTask /\ j \in FromsOf(turn', turn'[i].task)[i]
  BY Zenon DEF Passed, FromsOf
<1>3. ASSUME NEW i \in Turn, NEW d \in Task
      PROVE  SameTaskBots(i, d) = AboveOf(turn, d)[i]
  BY Zenon DEF SameTaskBots, AboveOf
<1> QED BY <1>1, <1>2, <1>3

\* Before and after every step the turns are chained: each comes from one of a lower number.
LEMMA TurnsChained ==
  ASSUME Inv, [Next]_vars
  PROVE  Chained(turn) /\ Chained(turn')
<1>1. Numbered /\ Numbered' /\ turn \in [Turn -> TurnRecord] /\ turn' \in [Turn -> TurnRecord]
  BY NumbersKept, TurnsTyped DEF Inv, TypeOK
<1>2. (\A j \in Turn : turn[j].from \in {None} \cup Turn)
      /\ (\A j \in Turn : turn'[j].from \in {None} \cup Turn)
  BY <1>1, TurnParts
<1>3. \A j \in Turn : None < j
  BY Bounds DEF Turn, None
<1>4. \A j \in Turn : turn[j].from < j
  BY <1>1, <1>3, FreshTurns DEF Numbered
<1>5. \A j \in Turn : turn'[j].from < j
  BY <1>1, <1>3, FreshTurns DEF Numbered
<1> QED BY <1>2, <1>4, <1>5 DEF Chained

\* Every step keeps a task from coming back to a Bot that it has passed: a turn is begun only
\* for a Bot that is not above it, and the chains of the others stay as they are.
LEMMA NoReturnKept ==
  ASSUME Inv, [Next]_vars
  PROVE  NoReturn'
<1>0. NoReturn /\ Chained(turn) /\ Chained(turn') /\ Turn \subseteq Number
  BY TurnsChained, Bounds DEF Inv, Bounded, NoReturn, Number, Turn
<1>1. CASE \E version \in Nat : \E targets \in SUBSET Bot : PrepareRoomRun(version, targets)
  <2>1. \A j \in Turn : turn'[j].task = NoTask
    BY <1>1, Prepared, FreshTurns
  <2> QED BY <2>1, Chains DEF NoReturn, Used
<1>2. CASE \E i \in Turn, b \in Bot, d \in Task : CreateHandoff(i, b, d)
  <2>1. PICK i \in Turn, b \in Bot, d \in Task : CreateHandoff(i, b, d)
    BY <1>2
  <2> DEFINE c == Cardinality(Used)
  <2>2. PICK m \in Turn : m = c + 1
    BY <2>1, Created
  <2>3. /\ turn'[m].from = i /\ turn'[m].bot = b /\ turn'[m].task = d
        /\ \A j \in Turn \ {m} : turn'[j] = turn[j]
    BY <2>1, <2>2, Created
  <2>4. i \in Used /\ Used = 1..c /\ Used' = Used \cup {m} /\ c \in Number /\ m \notin Used
    <3>1. i \in Used /\ Used = 1..c /\ Used' = Used \cup {m}
      BY <2>1, <2>2, UsedGrows
    <3>2. c \in Number /\ m \notin 1..c
      BY <2>2, UsedNumbers, Bounds DEF Inv, Number
    <3> QED BY <3>1, <3>2
  <2>5. b # turn[i].bot /\ b \notin AboveOf(turn, d)[i]
    BY <2>1, Chains DEF CreateHandoff, CanHandOff
  <2> HIDE DEF c
  <2>6. ASSUME NEW t
        PROVE  \A k \in Number : k <= c => FromsOf(turn', t)[k] = FromsOf(turn, t)[k]
    <3>1. \A k \in Turn : k <= c => turn'[k].from = turn[k].from /\ turn'[k].task = turn[k].task
      <4>1. ASSUME NEW k \in Turn, k <= c
            PROVE  k # m
        BY <2>2, <2>4, <4>1, Bounds DEF Turn, Number
      <4> QED BY <2>3, <4>1
    <3> QED BY <1>0, <2>4, <3>1, FromsAgree
  <2>7. \A k \in Used : k \in Number /\ k <= c
    BY <2>4, <1>0 DEF Used
  <2>8. ASSUME NEW k \in Used, NEW j \in Used', Passed(j, k)'
        PROVE  turn'[k].bot # turn'[j].bot
    <3>1. k \in Turn /\ k \in Number /\ k <= c /\ k # m /\ j \in Turn /\ turn'[k] = turn[k]
      BY <2>3, <2>4, <2>7 DEF Used
    <3>2. turn[k].task # NoTask /\ j \in FromsOf(turn, turn[k].task)[k]
      BY <2>6, <2>8, <3>1, Chains
    <3>3. Passed(j, k)
      BY <3>1, <3>2, Chains
    <3>4. j < k
      BY <1>0, <3>1, <3>2, FromsFacts
    <3>5. j # m
      BY <2>2, <2>4, <2>7, <3>1, <3>4, Bounds DEF Number
    <3> QED BY <1>0, <2>3, <2>4, <3>1, <3>3, <3>5 DEF NoReturn
  <2>9. ASSUME NEW j \in Used', Passed(j, m)'
        PROVE  turn'[m].bot # turn'[j].bot
    <3>1. j \in Turn /\ m \in Number /\ m # None
      BY <1>0, Bounds DEF Used
    <3>2. j \in FromsOf(turn', d)[m]
      BY <2>3, <2>9, <3>1, Chains
    <3>3. j = i \/ j \in FromsOf(turn', d)[i]
      <4>1. FromsOf(turn', d)[m] = IF m = None \/ turn'[m].task # d THEN {}
                                   ELSE {turn'[m].from} \cup FromsOf(turn', d)[turn'[m].from]
        BY ONLY <1>0, <3>1, FromsSteps
      <4> QED BY <2>3, <3>2, <4>1
    <3>4. i # m /\ turn'[i] = turn[i] /\ i \in Number /\ i <= c /\ i # None
      BY <2>3, <2>4, <2>7, Bounds
    <3>5. CASE j = i
      BY <2>3, <2>5, <3>4, <3>5
    <3>6. CASE j \in FromsOf(turn', d)[i]
      <4>1. j \in FromsOf(turn, d)[i]
        BY <2>6, <3>4, <3>6
      <4>2. /\ j < i /\ turn[i].task = d
            /\ turn[j].bot \in AboveOf(turn, d)[turn[i].from]
        BY <1>0, <3>1, <3>4, <4>1, FromsFacts, Bounds
      <4>3. AboveOf(turn, d)[turn[i].from] \subseteq AboveOf(turn, d)[i]
        <5>2. Chained(turn) /\ i \in Number
          BY <1>0, <3>4
        <5>1. AboveOf(turn, d)[i] =
                IF i = None THEN {}
                ELSE {turn[i].bot} \cup
                       (IF turn[i].task = d THEN AboveOf(turn, d)[turn[i].from] ELSE {})
          BY ONLY <5>2, AboveSteps
        <5> QED BY <3>4, <4>2, <5>1
      <4>4. j # m
        BY <2>2, <3>1, <3>4, <4>2, <2>4, <1>0, Bounds DEF Number
      <4> QED BY <2>3, <2>5, <3>1, <4>2, <4>3, <4>4
    <3> QED BY <3>3, <3>5, <3>6
  <2> QED BY <2>4, <2>8, <2>9 DEF NoReturn
<1>3. CASE \A j \in Turn : Keeps(j)
  <2>1. Used' = Used
    BY <1>3, UsedGrows
  <2>2. \A j \in Turn : /\ turn'[j].from = turn[j].from /\ turn'[j].task = turn[j].task
                        /\ turn'[j].bot = turn[j].bot
    BY <1>3 DEF Keeps, SameShape
  <2>3. \A k \in Number : k <= MaxTurns + 1
    BY Bounds DEF Number
  <2>4. MaxTurns + 1 \in Number
    BY Bounds DEF Number
  <2>5. ASSUME NEW t
        PROVE  \A k \in Number : FromsOf(turn', t)[k] = FromsOf(turn, t)[k]
    BY <1>0, <2>2, <2>3, <2>4, FromsAgree
  <2>6. ASSUME NEW i \in Used, NEW j \in Used, Passed(j, i)'
        PROVE  turn'[i].bot # turn'[j].bot
    <3>1. i \in Turn /\ j \in Turn /\ i \in Number
      BY <1>0 DEF Used
    <3>2. turn[i].task # NoTask /\ j \in FromsOf(turn, turn[i].task)[i]
      BY <2>2, <2>5, <2>6, <3>1, Chains
    <3>3. Passed(j, i)
      BY <3>1, <3>2, Chains
    <3> QED BY <1>0, <2>2, <3>1, <3>3 DEF NoReturn
  <2> QED BY <2>1, <2>6 DEF NoReturn
<1> QED BY <1>1, <1>2, <1>3, TurnsKept

----------------------------------------------------------------------------
(***************************************************************************)
(* What has ended, and what was stopped.                                   *)
(***************************************************************************)

\* What a step does not do to turn j: begin it in a stopped batch, or change how it ended.
Stays(j) ==
  /\ batch.winding /\ turn'[j].state \in {"queued", "running"} => turn'[j].state = turn[j].state
  /\ j \in Used /\ turn'[j].try = turn[j].try /\ Settled(j) => turn'[j].state = turn[j].state
  /\ j \in Used /\ turn[j].run \in Ended /\ turn'[j].try = turn[j].try => turn'[j].run = turn[j].run

\* A step ends a batch's turns for good, or begins another batch.
LEMMA TurnsStay ==
  ASSUME Inv, [Next]_vars
  PROVE  used'.batches # used.batches \/ \A j \in Turn : Stays(j)
<1>0. QueuedAt /\ RunningAt /\ CutTells /\ \A j \in Turn : turn[j].try \in Nat
  <2>1. \A j \in Turn : turn[j] \in TurnRecord
    BY DEF Inv, TypeOK
  <2>2. \A j \in Turn : turn[j].try \in {None} \cup Try
    BY <2>1, TurnParts
  <2>3. {None} \cup Try \subseteq Nat
    BY Bounds DEF None
  <2> QED BY <2>2, <2>3 DEF Inv
<1>u. UNCHANGED turn => \A j \in Turn : Stays(j)
  BY Zenon DEF Stays
<1>r. RecoverInterruptedRooms => \A j \in Turn : Stays(j)
  <2> SUFFICES ASSUME RecoverInterruptedRooms, NEW j \in Turn
               PROVE  Stays(j)
    OBVIOUS
  <2> QED BY AllRecovered DEF Now, Is, Stays, Settled, Ended, Active, ActiveRun, RunActive
<1>c. ASSUME NEW i \in Turn, NEW b \in Bot, NEW d \in Task, CreateHandoff(i, b, d)
      PROVE  \A j \in Turn : Stays(j)
  <2>1. ~batch.winding
    BY <1>c DEF CreateHandoff, CanHandOff, CanCreateTurn, HardStop
  <2>2. \A j \in Turn : turn'[j] = turn[j] \/ j \notin Used
    BY <1>c, Created
  <2> QED BY <2>1, <2>2 DEF Stays
<1>1. CASE UNCHANGED vars
  BY <1>1, <1>u DEF vars
<1>2. ASSUME Begin
      PROVE  \A j \in Turn : Stays(j)
  <2>1. turn' = turn
    BY <1>2 DEF Begin
  <2> QED BY <2>1, <1>u
<1>3. ASSUME LoopEnds
      PROVE  \A j \in Turn : Stays(j)
  <2>1. turn' = turn
    BY <1>3 DEF LoopEnds
  <2> QED BY <2>1, <1>u
<1>4. ASSUME SettleTurn
      PROVE  \A j \in Turn : Stays(j)
  <2> SUFFICES ASSUME NEW j \in Turn
               PROVE  Stays(j)
    OBVIOUS
  <2> QED BY <1>4, <1>0, AllTurnSteps DEF SettleTurn, RunningAt, Now, Is, Running, Stays, Settled,
               Ended, Active, ActiveRun, RunActive
<1>5. ASSUME SettleHandoff
      PROVE  \A j \in Turn : Stays(j)
  <2> SUFFICES ASSUME NEW j \in Turn
               PROVE  Stays(j)
    OBVIOUS
  <2> QED BY <1>5, AllTurnSteps DEF Now, Is, Running, Stays, Settled, Ended, Active, ActiveRun,
               RunActive
<1>6. ASSUME EndProcess
      PROVE  \A j \in Turn : Stays(j)
  BY <1>6, <1>r, <1>u DEF EndProcess
<1>7. ASSUME MarkWindingDown
      PROVE  \A j \in Turn : Stays(j)
  <2>1. turn' = turn
    BY <1>7 DEF MarkWindingDown
  <2> QED BY <2>1, <1>u
<1>8. ASSUME CancelRun
      PROVE  \A j \in Turn : Stays(j)
  <2> SUFFICES ASSUME NEW j \in Turn
               PROVE  Stays(j)
    OBVIOUS
  <2>1. CASE UNCHANGED turn
    BY <2>1, <1>u
  <2>2. CASE turn' # turn
    <3>1. j \in Running => RunActive(j) /\ turn[j].state = "running"
      BY <1>8, <1>0, <2>2, AllTurnSteps DEF RunningAt, Running
    <3> QED BY <1>8, <2>2, <3>1, AllTurnSteps DEF Now, Is, Stays, Settled, Ended, Active, ActiveRun,
                 RunActive
  <2> QED BY <2>1, <2>2
<1>9. ASSUME CancelBatch
      PROVE  \A j \in Turn : Stays(j)
  <2>1. turn' = turn
    BY <1>9 DEF CancelBatch
  <2> QED BY <2>1, <1>u
<1>10. ASSUME StopEnds
       PROVE  \A j \in Turn : Stays(j)
  <2>1. turn' = turn
    BY <1>10 DEF StopEnds
  <2> QED BY <2>1, <1>u
<1>11. ASSUME RecoverRooms
       PROVE  \A j \in Turn : Stays(j)
  BY <1>11, <1>r DEF RecoverRooms
<1>12. ASSUME RecoverRuns
       PROVE  \A j \in Turn : Stays(j)
  <2> SUFFICES ASSUME NEW j \in Turn
               PROVE  Stays(j)
    OBVIOUS
  <2> QED BY <1>12, AllTurnSteps DEF Now, Is, Running, Stays, Settled, Ended, Active, ActiveRun,
               RunActive
<1>13. ASSUME NEW i \in Turn, Refuse(i)
       PROVE  \A j \in Turn : Stays(j)
  <2>1. turn' = turn
    BY <1>13 DEF Refuse
  <2> QED BY <2>1, <1>u
<1>14. ASSUME NEW i \in Turn, DispatchHandoff(i)
       PROVE  \A j \in Turn : Stays(j)
  <2>1. Changes(i, "queued", turn[i].run, "dispatching", turn[i].try, turn[i].cut)
    BY <1>14, OneTurnSteps
  <2>2. turn[i].state = "queued"
    BY <1>14, <1>0, NextIsQueued DEF Queued
  <2> QED BY <1>0, <2>1, <2>2 DEF Changes, Is, Stays, Settled, Ended, Active, ActiveRun, RunActive
<1>15. ASSUME NEW i \in Turn, BeginTurn(i)
       PROVE  \A j \in Turn : Stays(j)
  <2>1. Changes(i, "running", turn[i].run, turn[i].handoff, turn[i].try, TRUE)
    BY <1>15, OneTurnSteps
  <2>2. turn[i].state = "queued" /\ turn[i].run = "none" /\ ~batch.winding
    BY <1>15, <1>0, NextIsQueued DEF Queued, CutTells
  <2> QED BY <1>0, <2>1, <2>2 DEF Changes, Is, Stays, Settled, Ended, Active, ActiveRun, RunActive
<1>16. ASSUME NEW i \in Turn, Launch(i)
       PROVE  \A j \in Turn : Stays(j)
  <2>1. Changes(i, "failed", turn[i].run, turn[i].handoff, turn[i].try,
          turn[i].cut) \/ UNCHANGED turn
    BY <1>16, OneTurnSteps
  <2>2. turn[i].state = "running"
    BY <1>16 DEF Launch, Running
  <2> QED BY <1>0, <2>1, <2>2 DEF Changes, Is, Stays, Settled, Ended, Active, ActiveRun, RunActive
<1>17. ASSUME NEW i \in Turn, Attach(i)
       PROVE  \A j \in Turn : Stays(j)
  <2>1. Changes(i, turn[i].state, "created", turn[i].handoff, turn[i].try, turn[i].cut)
    BY <1>17, OneTurnSteps
  <2>2. turn[i].run = "none"
    BY <1>17, <1>0 DEF Attach, RunningAt
  <2> QED BY <1>0, <2>1, <2>2 DEF Changes, Is, Stays, Settled, Ended, Active, ActiveRun, RunActive
<1>18. ASSUME NEW i \in Turn, AcceptHandoff(i)
       PROVE  \A j \in Turn : Stays(j)
  <2>1. Changes(i, turn[i].state, turn[i].run, "accepted", turn[i].try, turn[i].cut)
    BY <1>18, OneTurnSteps
  <2> QED BY <1>0, <2>1 DEF Changes, Is, Stays, Settled, Ended, Active, ActiveRun, RunActive
<1>19. ASSUME NEW i \in Turn, CancelHandoff(i)
       PROVE  \A j \in Turn : Stays(j)
  <2>1. Changes(i, turn[i].state, turn[i].run, "cancelled", turn[i].try, turn[i].cut)
    BY <1>19, OneTurnSteps
  <2> QED BY <1>0, <2>1 DEF Changes, Is, Stays, Settled, Ended, Active, ActiveRun, RunActive
<1>20. ASSUME NEW i \in Turn, CancelQueued(i)
       PROVE  \A j \in Turn : Stays(j)
  <2>1. Changes(i, "cancelled", turn[i].run, turn[i].handoff, turn[i].try, turn[i].cut)
    BY <1>20, OneTurnSteps
  <2>2. turn[i].state = "queued"
    BY <1>20 DEF CancelQueued, Queued
  <2> QED BY <1>0, <2>1, <2>2 DEF Changes, Is, Stays, Settled, Ended, Active, ActiveRun, RunActive
<1>21. ASSUME NEW i \in Turn, ProviderStarts(i)
       PROVE  \A j \in Turn : Stays(j)
  <2>1. Changes(i, turn[i].state, "started", turn[i].handoff, turn[i].try, turn[i].cut)
    BY <1>21, OneTurnSteps
  <2>2. turn[i].run = "created"
    BY <1>21 DEF ProviderStarts
  <2> QED BY <1>0, <2>1, <2>2 DEF Changes, Is, Stays, Settled, Ended, Active, ActiveRun, RunActive
<1>22. ASSUME NEW i \in Turn, AskContinuation(i)
       PROVE  \A j \in Turn : Stays(j)
  <2>1. turn' = turn
    BY <1>22 DEF AskContinuation
  <2> QED BY <2>1, <1>u
<1>23. ASSUME NEW i \in Turn, Complete(i)
       PROVE  \A j \in Turn : Stays(j)
  <2>1. \E r \in {"completed", "cancelled"} : Changes(i, turn[i].state, r, turn[i].handoff,
          turn[i].try, turn[i].cut)
    BY <1>23, OneTurnSteps
  <2>2. turn[i].run \in ActiveRun
    BY <1>23 DEF Complete, RunActive
  <2> QED BY <1>0, <2>1, <2>2 DEF Changes, Is, Stays, Settled, Ended, Active, ActiveRun, RunActive
<1>24. ASSUME NEW i \in Turn, Fail(i)
       PROVE  \A j \in Turn : Stays(j)
  <2>1. \E r \in {"failed", "cancelled", "interrupted"} : Changes(i, turn[i].state, r,
          turn[i].handoff, turn[i].try, turn[i].cut)
    BY <1>24, OneTurnSteps
  <2>2. turn[i].run \in ActiveRun
    BY <1>24 DEF Fail, RunActive
  <2> QED BY <1>0, <2>1, <2>2 DEF Changes, Is, Stays, Settled, Ended, Active, ActiveRun, RunActive
<1>25. ASSUME NEW i \in Turn, AnswerLate(i)
       PROVE  \A j \in Turn : Stays(j)
  <2>1. turn' = turn
    BY <1>25 DEF AnswerLate
  <2> QED BY <2>1, <1>u
<1>26. ASSUME NEW i \in Turn, NEW b \in Bot, NEW d \in Task, Handoff(i, b, d)
       PROVE  \A j \in Turn : Stays(j)
  <2>1. CASE UNCHANGED turn
    BY <2>1, <1>u
  <2>2. CASE CreateHandoff(i, b, d)
    BY <2>2, <1>c
  <2> QED BY <1>26, <2>1, <2>2 DEF Handoff
<1>27. ASSUME NEW i \in Turn, NEW b \in Bot, NEW d \in Task, DecideHandoff(i, b, d)
       PROVE  \A j \in Turn : Stays(j)
  BY <1>27, <1>c DEF DecideHandoff
<1>28. ASSUME NEW targets \in SUBSET Bot, Send(targets)
       PROVE  used'.batches # used.batches
  <2>1. used' = [used EXCEPT !.batches = used.batches + 1]
    BY <1>28 DEF Send, PrepareRoomRun
  <2>2. used'.batches = used.batches + 1 /\ used.batches \in Nat
    BY <2>1, Bounds DEF Inv, TypeOK
  <2> QED BY <2>2
<1>29. ASSUME NEW r \in Route, SelectOwner(r)
       PROVE  \A j \in Turn : Stays(j)
  <2>1. turn' = turn
    BY <1>29 DEF SelectOwner
  <2> QED BY <2>1, <1>u
<1>30. ASSUME NEW i \in Turn, RetryTurn(i)
       PROVE  \A j \in Turn : Stays(j)
  <2>1. Changes(i, "queued", "none", turn[i].handoff, turn[i].try + 1, turn[i].cut)
    BY <1>30, OneTurnSteps
  <2>2. ~batch.winding /\ turn[i].try \in Nat
    BY <1>30, <1>0 DEF RetryTurn, MayResume, HardStop
  <2> QED BY <1>0, <2>1, <2>2 DEF Changes, Is, Stays, Settled, Ended, Active, ActiveRun, RunActive
<1>31. ASSUME NEW b \in Bot, AddMember(b)
       PROVE  \A j \in Turn : Stays(j)
  <2>1. turn' = turn
    BY <1>31 DEF AddMember
  <2> QED BY <2>1, <1>u
<1>32. ASSUME NEW b \in Bot, RemoveMember(b)
       PROVE  \A j \in Turn : Stays(j)
  <2>1. turn' = turn
    BY <1>32 DEF RemoveMember
  <2> QED BY <2>1, <1>u
<1>33. ASSUME Cancel
       PROVE  \A j \in Turn : Stays(j)
  <2>1. turn' = turn
    BY <1>33 DEF Cancel
  <2> QED BY <2>1, <1>u
<1>34. ASSUME Continue
       PROVE  \A j \in Turn : Stays(j)
  <2> SUFFICES ASSUME NEW j \in Turn
               PROVE  Stays(j)
    OBVIOUS
  <2>1. ~batch.winding /\ turn[j].try \in Nat
    BY <1>34, <1>0 DEF Continue, MayResume, HardStop
  <2> QED BY <1>34, <2>1, AllTurnSteps DEF Now, Is, Stays, Settled, Ended, Active, ActiveRun,
               RunActive
<1>35. ASSUME ArchiveRoom
       PROVE  \A j \in Turn : Stays(j)
  <2>1. turn' = turn
    BY <1>35 DEF ArchiveRoom
  <2> QED BY <2>1, <1>u
<1>36. ASSUME NEW r \in Route, OwnerSelected(r)
       PROVE  used'.batches # used.batches
  <2>1. used' = [used EXCEPT !.batches = used.batches + 1]
    BY <1>36 DEF OwnerSelected, PrepareRoomRun
  <2>2. used'.batches = used.batches + 1 /\ used.batches \in Nat
    BY <2>1, Bounds DEF Inv, TypeOK
  <2> QED BY <2>2
<1>37. ASSUME NEW r \in Route, RoutingFails(r)
       PROVE  \A j \in Turn : Stays(j)
  <2>1. turn' = turn
    BY <1>37 DEF RoutingFails
  <2> QED BY <2>1, <1>u
<1>38. ASSUME TimePasses
       PROVE  \A j \in Turn : Stays(j)
  <2>1. turn' = turn
    BY <1>38 DEF TimePasses
  <2> QED BY <2>1, <1>u
<1>39. ASSUME DeadlineFires
       PROVE  \A j \in Turn : Stays(j)
  <2>1. turn' = turn
    BY <1>39 DEF DeadlineFires
  <2> QED BY <2>1, <1>u
<1>40. ASSUME BeginShutdown
       PROVE  \A j \in Turn : Stays(j)
  <2>1. turn' = turn
    BY <1>40 DEF BeginShutdown
  <2> QED BY <2>1, <1>u
<1>41. ASSUME ExecutorDrained
       PROVE  \A j \in Turn : Stays(j)
  <2> SUFFICES ASSUME NEW j \in Turn
               PROVE  Stays(j)
    OBVIOUS
  <2> QED BY <1>41, AllTurnSteps DEF Now, Is, Running, Stays, Settled, Ended, Active, ActiveRun,
               RunActive
<1>42. ASSUME Drained
       PROVE  \A j \in Turn : Stays(j)
  BY <1>42, <1>r DEF Drained
<1>43. ASSUME Crash
       PROVE  \A j \in Turn : Stays(j)
  <2>1. turn' = turn
    BY <1>43 DEF Crash
  <2> QED BY <2>1, <1>u
<1>44. ASSUME Restart
       PROVE  \A j \in Turn : Stays(j)
  <2>1. turn' = turn
    BY <1>44 DEF Restart
  <2> QED BY <2>1, <1>u
<1> QED BY <1>1, <1>2, <1>3, <1>4, <1>5, <1>6, <1>7, <1>8, <1>9, <1>10, <1>11, <1>12, <1>13,
     <1>14, <1>15, <1>16, <1>17, <1>18, <1>19, <1>20, <1>21, <1>22, <1>23, <1>24, <1>25, <1>26,
     <1>27, <1>28, <1>29, <1>30, <1>31, <1>32, <1>33, <1>34, <1>35, <1>36, <1>37, <1>38, <1>39,
     <1>40, <1>41, <1>42, <1>43, <1>44
  DEF Next, HandlerStep, RunStep, User, RouteAndSend

\* One step of StoppedStaysStopped.
LEMMA StopHolds ==
  ASSUME Inv, [Next]_vars, used'.batches = used.batches
  PROVE  /\ batch.winding =>
              /\ {i \in Turn : turn'[i].state # "none"} = Used
              /\ \A i \in Turn : turn'[i].state \in {"queued",
                   "running"} => turn'[i].state = turn[i].state
         /\ \A i \in Used :
              /\ turn'[i].try = turn[i].try /\ Settled(i) => turn'[i].state = turn[i].state
              /\ turn[i].run \in Ended /\ turn'[i].try = turn[i].try => turn'[i].run = turn[i].run
<1>1. \A j \in Turn : Stays(j)
  BY TurnsStay
<1>2. ASSUME batch.winding
      PROVE  {i \in Turn : turn'[i].state # "none"} = Used
  <2>1. CASE \E version \in Nat : \E targets \in SUBSET Bot : PrepareRoomRun(version, targets)
    <3>1. used' = [used EXCEPT !.batches = used.batches + 1]
      BY <2>1 DEF PrepareRoomRun
    <3>2. used'.batches = used.batches + 1 /\ used.batches \in Nat
      BY <3>1, Bounds DEF Inv, TypeOK
    <3> QED BY <3>2
  <2>2. CASE \E i \in Turn, b \in Bot, d \in Task : CreateHandoff(i, b, d)
    BY <1>2, <2>2 DEF CreateHandoff, CanHandOff, CanCreateTurn, HardStop
  <2>3. CASE \A j \in Turn : Keeps(j)
    BY <2>3 DEF Keeps, Used
  <2> QED BY <2>1, <2>2, <2>3, TurnsKept
<1> QED BY <1>1, <1>2 DEF Stays, Used

----------------------------------------------------------------------------
(***************************************************************************)
(* What batch, turns, handoffs and runs tell of each other.                *)
(***************************************************************************)

\* The rows as a crash has left them, before they are recovered, or before their runs are.
Cold == app = "down" \/ at = "rooms"
Recovering == Cold \/ at = "runs"

\* A turn that has ended says how its run ended; the recovery ends the turn before the run.
SettledTell ==
  \A i \in Turn : turn[i].state \in Ended /\ turn[i].run # "none" =>
    \/ turn[i].state = turn[i].run
    \/ Recovering /\ turn[i].state = "interrupted" /\ turn[i].run \in ActiveRun

\* A batch that has ended by itself or by a recovery sums up its turns.
BatchSumsUp ==
  /\ batch.state = "completed" => AllIn({"completed"})
  /\ batch.state = "partial" => AllIn(Ended)
  /\ batch.state = "interrupted" => AllIn({"interrupted"})

\* A handoff that waits belongs to a turn that waits; the handoff of a further attempt is over,
\* and a Provider took up the turn of an accepted one.
HandoffsTell ==
  \A i \in Turn :
    /\ turn[i].handoff \in {"queued", "dispatching"} => turn[i].try = 1
    /\ turn[i].handoff = "queued" => turn[i].state = "queued"
    /\ turn[i].handoff = "accepted" => turn[i].cut

\* Where the handler is while a handoff is dispatched, and what its turn is then.
WaitingAt == {"idle", "cancel", "stop", "reject"}

DispatchingAt(i) ==
  \/ Cold
  \/ at = "dispatch" /\ i = Min(Frontier)
  \/ at \in {"launch", "attach", "accept", "settle"} /\ turn[i].state = "running"
  \/ at = "settleHandoff"
  \/ at \in WaitingAt /\ turn[i].state = "running" /\ (turn[i].run = "created" \/ app = "draining")

Dispatching == \A i \in Turn : turn[i].handoff = "dispatching" => DispatchingAt(i)

\* What the process is at these places.
UpAt == at \in {"begin", "dispatch", "launch", "attach", "rooms", "runs"} => app = "up"
DrainedAt == app = "draining" => \A i \in Turn : ~RunActive(i)
AskedAt ==
  mem.phase = "continuation" =>
    \A i \in Turn : turn[i].state = "running" => turn[i].run # "created"
CancelledAt == at = "cancelQueued" => OpenHandoff = {}
HandoffAt == at = "dispatch" => turn[Min(Frontier)].handoff = "dispatching"

\* What a recovery makes of a turn and of its run.
AfterCut(j) ==
  IF turn[j].state \notin Active THEN turn[j].state
  ELSE IF turn[j].run \in Ended THEN turn[j].run
  ELSE IF batch.state = "cancelled" THEN "cancelled" ELSE "interrupted"
RunAfterCut(j) ==
  IF turn[j].state \in Active /\ batch.state = "cancelled" /\ turn[j].run \in ActiveRun
  THEN "cancelled" ELSE turn[j].run

\* Launching a turn fails it, or makes its run.
LEMMA Launched ==
  ASSUME Inv, NEW i \in Turn, Launch(i)
  PROVE  \/ Changes(i, "failed", turn[i].run, turn[i].handoff, turn[i].try,
              turn[i].cut) /\ at' = "settleHandoff"
         \/ turn' = turn /\ at' = "attach"
<1>1. turn \in [Turn -> TurnRecord] /\ "failed" \in TurnStates
  BY DEF Inv, TypeOK, TurnStates, Ended
<1>2. turn' = [turn EXCEPT ![i].state = "failed"] =>
        Changes(i, "failed", turn[i].run, turn[i].handoff, turn[i].try, turn[i].cut)
  <2>1. /\ turn[i].run \in RunStates /\ turn[i].handoff \in HandoffStates
        /\ turn[i].try \in {None} \cup Try
    BY <1>1, TurnParts
  <2> QED BY <1>1, <2>1, OneTurn
<1> QED BY <1>2 DEF Launch

\* A settled turn goes on telling how its run ended.
LEMMA SettledKept ==
  ASSUME Inv, SettledTell, UpAt, DrainedAt, [Next]_vars
  PROVE  SettledTell'
<1>0. /\ RunningAt /\ CutTells /\ QueuedAt /\ UpAt /\ DrainedAt /\ SettledTell
      /\ mem.back \in {"idle", "end"}
      /\ \A j \in Turn : turn[j].state \in {"none"} \cup Active \cup Ended
                          /\ turn[j].run \in {"none"} \cup ActiveRun \cup Ended
  BY DEF Inv, TypeOK, Memory, TurnRecord
<1>1. CASE UNCHANGED vars
  BY <1>0, <1>1 DEF vars, SettledTell, Recovering, Cold, UpAt, DrainedAt, RunningAt, Ended,
       ActiveRun, RunActive, Active, NoneRunsAt, CutTells
<1>2. CASE Begin
  <2>1. turn' = turn
    BY <1>2 DEF Begin, StartProcessing, TransitionRoomBatch
  <2> QED BY <1>0, <1>2, <2>1 DEF SettledTell, Recovering, Cold, UpAt, DrainedAt, RunningAt, Ended,
               ActiveRun, RunActive, Active, NoneRunsAt, CutTells, Begin, Idle, StartProcessing,
                 TransitionRoomBatch
<1>3. CASE LoopEnds
  <2>1. turn' = turn
    BY <1>3 DEF LoopEnds
  <2> QED BY <1>0, <1>3, <2>1 DEF SettledTell, Recovering, Cold, UpAt, DrainedAt, RunningAt, Ended,
               ActiveRun, RunActive, Active, NoneRunsAt, CutTells, LoopEnds, Idle
<1>4. CASE SettleTurn
  <2>1. \A j \in Turn : IF j \in Running THEN Now(j, turn[j].run, turn[j].run, turn[j].handoff,
          turn[j].try, turn[j].cut) ELSE turn'[j] = turn[j]
    BY <1>4, AllTurnSteps
  <2> QED BY <1>0, <1>4, <2>1 DEF SettledTell, Recovering, Cold, UpAt, DrainedAt, RunningAt, Ended,
               ActiveRun, RunActive, Active, NoneRunsAt, CutTells, SettleTurn, Idle, Running, Now,
                 Is
<1>5. CASE SettleHandoff
  <2>1. \A j \in Turn : IF turn[j].handoff = "dispatching"
          THEN Now(j, turn[j].state, turn[j].run, IF turn[j].run = "cancelled" THEN "cancelled"
            ELSE "failed", turn[j].try, turn[j].cut) ELSE turn'[j] = turn[j]
    BY <1>5, AllTurnSteps
  <2> QED BY <1>0, <1>5, <2>1 DEF SettledTell, Recovering, Cold, UpAt, DrainedAt, RunningAt, Ended,
               ActiveRun, RunActive, Active, NoneRunsAt, CutTells, SettleHandoff, Idle, Now, Is
<1>6. CASE EndProcess
  <2>1. turn' = turn \/ (app # "up" /\ RecoverInterruptedRooms)
    BY <1>6 DEF EndProcess
  <2>2. RecoverInterruptedRooms => \A j \in Turn : Now(j, AfterCut(j), RunAfterCut(j),
          IF turn[j].handoff \in {"queued", "dispatching"} THEN "cancelled"
            ELSE turn[j].handoff, turn[j].try, turn[j].cut)
    BY AllRecovered DEF AfterCut, RunAfterCut
  <2> QED BY <1>0, <1>6, <2>1, <2>2 DEF SettledTell, Recovering, Cold, UpAt, DrainedAt, RunningAt,
               Ended, ActiveRun, RunActive, Active, NoneRunsAt, CutTells, EndProcess, Idle,
                 AfterCut, RunAfterCut, Running, Now, Is
<1>7. CASE MarkWindingDown
  <2>1. turn' = turn
    BY <1>7 DEF MarkWindingDown
  <2> QED BY <1>0, <1>7, <2>1 DEF SettledTell, Recovering, Cold, UpAt, DrainedAt, RunningAt, Ended,
               ActiveRun, RunActive, Active, NoneRunsAt, CutTells, MarkWindingDown, Idle
<1>8. CASE CancelRun
  <2>1. \/ turn' = turn
        \/ (\E j \in Running : RunActive(j)) /\ \A j \in Turn : IF j \in Running
             THEN Now(j, turn[j].state, "cancelling", turn[j].handoff, turn[j].try, turn[j].cut)
               ELSE turn'[j] = turn[j]
    BY <1>8, AllTurnSteps
  <2> QED BY <1>0, <1>8, <2>1 DEF SettledTell, Recovering, Cold, UpAt, DrainedAt, RunningAt, Ended,
               ActiveRun, RunActive, Active, NoneRunsAt, CutTells, CancelRun, Idle, Running, Now, Is
<1>9. CASE CancelBatch
  <2>1. turn' = turn
    BY <1>9 DEF CancelBatch, TransitionRoomBatch
  <2> QED BY <1>0, <1>9, <2>1 DEF SettledTell, Recovering, Cold, UpAt, DrainedAt, RunningAt, Ended,
               ActiveRun, RunActive, Active, NoneRunsAt, CutTells, CancelBatch, Idle,
                 TransitionRoomBatch
<1>10. CASE StopEnds
  <2>1. turn' = turn
    BY <1>10 DEF StopEnds
  <2> QED BY <1>0, <1>10, <2>1 DEF SettledTell, Recovering, Cold, UpAt, DrainedAt, RunningAt, Ended,
               ActiveRun, RunActive, Active, NoneRunsAt, CutTells, StopEnds, Idle
<1>11. CASE RecoverRooms
  <2>1. \A j \in Turn : Now(j, AfterCut(j), RunAfterCut(j), IF turn[j].handoff \in {"queued",
          "dispatching"} THEN "cancelled" ELSE turn[j].handoff, turn[j].try, turn[j].cut)
    BY <1>11, AllRecovered DEF RecoverRooms, AfterCut, RunAfterCut
  <2> QED BY <1>0, <1>11, <2>1 DEF SettledTell, Recovering, Cold, UpAt, DrainedAt, RunningAt, Ended,
               ActiveRun, RunActive, Active, NoneRunsAt, CutTells, RecoverRooms, Idle, AfterCut,
                 RunAfterCut, Now, Is
<1>12. CASE RecoverRuns
  <2>1. \A j \in Turn : IF RunActive(j) THEN Now(j, turn[j].state, "interrupted", turn[j].handoff,
          turn[j].try, turn[j].cut) ELSE turn'[j] = turn[j]
    BY <1>12, AllTurnSteps
  <2> QED BY <1>0, <1>12, <2>1 DEF SettledTell, Recovering, Cold, UpAt, DrainedAt, RunningAt, Ended,
               ActiveRun, RunActive, Active, NoneRunsAt, CutTells, RecoverRuns, Idle, Now, Is
<1>13. ASSUME NEW i \in Turn, Refuse(i)
      PROVE  SettledTell'
  <2>1. turn' = turn
    BY <1>13 DEF Refuse
  <2> QED BY <1>0, <1>13, <2>1 DEF SettledTell, Recovering, Cold, UpAt, DrainedAt, RunningAt, Ended,
               ActiveRun, RunActive, Active, NoneRunsAt, CutTells, Refuse, Idle
<1>14. ASSUME NEW i \in Turn, DispatchHandoff(i)
      PROVE  SettledTell'
  <2>1. Changes(i, "queued", turn[i].run, "dispatching", turn[i].try, turn[i].cut)
    BY <1>14, OneTurnSteps
  <2>2. turn[i].state = "queued"
    BY <1>14, ActingTurn
  <2> QED BY <1>0, <1>14, <2>1, <2>2 DEF SettledTell, Recovering, Cold, UpAt, DrainedAt, RunningAt,
               Ended, ActiveRun, RunActive, Active, NoneRunsAt, CutTells, DispatchHandoff, Idle,
                 Changes, Is
<1>15. ASSUME NEW i \in Turn, BeginTurn(i)
      PROVE  SettledTell'
  <2>1. Changes(i, "running", turn[i].run, turn[i].handoff, turn[i].try, TRUE)
    BY <1>15, OneTurnSteps
  <2>2. turn[i].state = "queued"
    BY <1>15, ActingTurn
  <2> QED BY <1>0, <1>15, <2>1, <2>2 DEF SettledTell, Recovering, Cold, UpAt, DrainedAt, RunningAt,
               Ended, ActiveRun, RunActive, Active, NoneRunsAt, CutTells, BeginTurn, Idle, Changes,
                 Is
<1>16. ASSUME NEW i \in Turn, Launch(i)
      PROVE  SettledTell'
  <2>1. \/ Changes(i, "failed", turn[i].run, turn[i].handoff, turn[i].try,
             turn[i].cut) /\ at' = "settleHandoff"
        \/ turn' = turn /\ at' = "attach"
    BY <1>16, Launched
  <2>2. turn[i].state = "running"
    BY <1>16, ActingTurn
  <2> QED BY <1>0, <1>16, <2>1, <2>2 DEF SettledTell, Recovering, Cold, UpAt, DrainedAt, RunningAt,
               Ended, ActiveRun, RunActive, Active, NoneRunsAt, CutTells, Launch, Idle, Changes, Is
<1>17. ASSUME NEW i \in Turn, Attach(i)
      PROVE  SettledTell'
  <2>1. Changes(i, turn[i].state, "created", turn[i].handoff, turn[i].try, turn[i].cut)
    BY <1>17, OneTurnSteps
  <2>2. turn[i].state = "running"
    BY <1>17, ActingTurn
  <2> QED BY <1>0, <1>17, <2>1, <2>2 DEF SettledTell, Recovering, Cold, UpAt, DrainedAt, RunningAt,
               Ended, ActiveRun, RunActive, Active, NoneRunsAt, CutTells, Attach, Idle, Changes, Is
<1>18. ASSUME NEW i \in Turn, AcceptHandoff(i)
      PROVE  SettledTell'
  <2>1. Changes(i, turn[i].state, turn[i].run, "accepted", turn[i].try, turn[i].cut)
    BY <1>18, OneTurnSteps
  <2> QED BY <1>0, <1>18, <2>1 DEF SettledTell, Recovering, Cold, UpAt, DrainedAt, RunningAt, Ended,
               ActiveRun, RunActive, Active, NoneRunsAt, CutTells, AcceptHandoff, Idle, Changes, Is
<1>19. ASSUME NEW i \in Turn, CancelHandoff(i)
      PROVE  SettledTell'
  <2>1. Changes(i, turn[i].state, turn[i].run, "cancelled", turn[i].try, turn[i].cut)
    BY <1>19, OneTurnSteps
  <2> QED BY <1>0, <1>19, <2>1 DEF SettledTell, Recovering, Cold, UpAt, DrainedAt, RunningAt, Ended,
               ActiveRun, RunActive, Active, NoneRunsAt, CutTells, CancelHandoff, Idle, Changes, Is
<1>20. ASSUME NEW i \in Turn, CancelQueued(i)
      PROVE  SettledTell'
  <2>1. Changes(i, "cancelled", turn[i].run, turn[i].handoff, turn[i].try, turn[i].cut)
    BY <1>20, OneTurnSteps
  <2>2. turn[i].state = "queued"
    BY <1>20, ActingTurn
  <2> QED BY <1>0, <1>20, <2>1, <2>2 DEF SettledTell, Recovering, Cold, UpAt, DrainedAt, RunningAt,
               Ended, ActiveRun, RunActive, Active, NoneRunsAt, CutTells, CancelQueued, Idle,
                 Changes, Is
<1>21. ASSUME NEW i \in Turn, ProviderStarts(i)
      PROVE  SettledTell'
  <2>1. Changes(i, turn[i].state, "started", turn[i].handoff, turn[i].try, turn[i].cut)
    BY <1>21, OneTurnSteps
  <2>2. turn[i].state = "running"
    BY <1>21, ActingTurn
  <2> QED BY <1>0, <1>21, <2>1, <2>2 DEF SettledTell, Recovering, Cold, UpAt, DrainedAt, RunningAt,
               Ended, ActiveRun, RunActive, Active, NoneRunsAt, CutTells, ProviderStarts, Idle,
                 Awaits, Changes, Is
<1>22. ASSUME NEW i \in Turn, AskContinuation(i)
      PROVE  SettledTell'
  <2>1. turn' = turn
    BY <1>22 DEF AskContinuation, Awaits
  <2> QED BY <1>0, <1>22, <2>1 DEF SettledTell, Recovering, Cold, UpAt, DrainedAt, RunningAt, Ended,
               ActiveRun, RunActive, Active, NoneRunsAt, CutTells, AskContinuation, Idle, Awaits
<1>23. ASSUME NEW i \in Turn, Complete(i)
      PROVE  SettledTell'
  <2>1. PICK r \in {"completed", "cancelled"} : Changes(i, turn[i].state, r, turn[i].handoff,
          turn[i].try, turn[i].cut)
    BY <1>23, OneTurnSteps
  <2>2. turn[i].state = "running"
    BY <1>23, ActingTurn
  <2> QED BY <1>0, <1>23, <2>1, <2>2 DEF SettledTell, Recovering, Cold, UpAt, DrainedAt, RunningAt,
               Ended, ActiveRun, RunActive, Active, NoneRunsAt, CutTells, Complete, Idle, Awaits,
                 Changes, Is
<1>24. ASSUME NEW i \in Turn, Fail(i)
      PROVE  SettledTell'
  <2>1. PICK r \in {"failed", "cancelled", "interrupted"} : Changes(i, turn[i].state, r,
          turn[i].handoff, turn[i].try, turn[i].cut)
    BY <1>24, OneTurnSteps
  <2>2. turn[i].state = "running"
    BY <1>24, ActingTurn
  <2> QED BY <1>0, <1>24, <2>1, <2>2 DEF SettledTell, Recovering, Cold, UpAt, DrainedAt, RunningAt,
               Ended, ActiveRun, RunActive, Active, NoneRunsAt, CutTells, Fail, Idle, Awaits,
                 Changes, Is
<1>25. ASSUME NEW i \in Turn, AnswerLate(i)
      PROVE  SettledTell'
  <2>1. turn' = turn
    BY <1>25 DEF AnswerLate, Awaits
  <2> QED BY <1>0, <1>25, <2>1 DEF SettledTell, Recovering, Cold, UpAt, DrainedAt, RunningAt, Ended,
               ActiveRun, RunActive, Active, NoneRunsAt, CutTells, AnswerLate, Idle, Awaits
<1>26. ASSUME NEW i \in Turn, NEW b \in Bot, NEW d \in Task, Handoff(i, b, d)
      PROVE  SettledTell'
  <2>1. \/ turn' = turn
        \/ \E m \in Turn : /\ turn[m] = NoTurn /\ m \notin Used
           /\ turn'[m].state = "queued" /\ turn'[m].run = "none" /\ turn'[m].handoff = "queued"
           /\ turn'[m].try = 1 /\ turn'[m].from = i /\ turn'[m].cut = FALSE
           /\ \A j \in Turn \ {m} : turn'[j] = turn[j]
    BY <1>26, Created DEF Handoff
  <2>2. turn[i].state = "running"
    BY <1>26 DEF Handoff, Awaits, Running
  <2> QED BY <1>0, <1>26, <2>1, <2>2, FreshTurns DEF SettledTell, Recovering, Cold, UpAt, DrainedAt,
               RunningAt, Ended, ActiveRun, RunActive, Active, NoneRunsAt, CutTells, Handoff, Idle,
                 Awaits
<1>27. ASSUME NEW i \in Turn, NEW b \in Bot, NEW d \in Task, DecideHandoff(i, b, d)
      PROVE  SettledTell'
  <2>1. \E m \in Turn : /\ turn[m] = NoTurn /\ m \notin Used
           /\ turn'[m].state = "queued" /\ turn'[m].run = "none" /\ turn'[m].handoff = "queued"
           /\ turn'[m].try = 1 /\ turn'[m].from = i /\ turn'[m].cut = FALSE
           /\ \A j \in Turn \ {m} : turn'[j] = turn[j]
    BY <1>27, Created DEF DecideHandoff
  <2>2. turn[i].state = "running"
    BY <1>27 DEF DecideHandoff, Awaits, Running
  <2> QED BY <1>0, <1>27, <2>1, <2>2, FreshTurns DEF SettledTell, Recovering, Cold, UpAt, DrainedAt,
               RunningAt, Ended, ActiveRun, RunActive, Active, NoneRunsAt, CutTells, DecideHandoff,
                 Idle, Awaits
<1>28. ASSUME NEW targets \in SUBSET Bot, Send(targets)
      PROVE  SettledTell'
  <2>1. PICK n \in 0..MaxTurns : \A j \in Turn : IF j \in 1..n
          THEN \E bb \in Bot : turn'[j] = Fresh(bb) ELSE turn'[j] = NoTurn
    BY <1>28, Prepared DEF Send
  <2>2. /\ at = "idle" /\ at' = "begin" /\ app = "up" /\ app' = "up" /\ mem' = mem
        /\ batch'.state = "queued"
    BY <1>28 DEF Send, PrepareRoomRun, Idle
  <2> QED BY <1>0, <2>1, <2>2, FreshTurns DEF SettledTell, Recovering, Cold, UpAt, DrainedAt,
               RunningAt, Ended, ActiveRun, RunActive, Active, NoneRunsAt, CutTells
<1>29. ASSUME NEW r \in Route, SelectOwner(r)
      PROVE  SettledTell'
  <2>1. turn' = turn
    BY <1>29 DEF SelectOwner
  <2> QED BY <1>0, <1>29, <2>1 DEF SettledTell, Recovering, Cold, UpAt, DrainedAt, RunningAt, Ended,
               ActiveRun, RunActive, Active, NoneRunsAt, CutTells, SelectOwner, Idle
<1>30. ASSUME NEW i \in Turn, RetryTurn(i)
      PROVE  SettledTell'
  <2>1. Changes(i, "queued", "none", turn[i].handoff, turn[i].try + 1, turn[i].cut)
    BY <1>30, OneTurnSteps
  <2> QED BY <1>0, <1>30, <2>1 DEF SettledTell, Recovering, Cold, UpAt, DrainedAt, RunningAt, Ended,
               ActiveRun, RunActive, Active, NoneRunsAt, CutTells, RetryTurn, Idle, Resume,
                 StartProcessing, Changes, Is
<1>31. ASSUME NEW b \in Bot, AddMember(b)
      PROVE  SettledTell'
  <2>1. turn' = turn
    BY <1>31 DEF AddMember
  <2> QED BY <1>0, <1>31, <2>1 DEF SettledTell, Recovering, Cold, UpAt, DrainedAt, RunningAt, Ended,
               ActiveRun, RunActive, Active, NoneRunsAt, CutTells, AddMember, Idle
<1>32. ASSUME NEW b \in Bot, RemoveMember(b)
      PROVE  SettledTell'
  <2>1. turn' = turn
    BY <1>32 DEF RemoveMember
  <2> QED BY <1>0, <1>32, <2>1 DEF SettledTell, Recovering, Cold, UpAt, DrainedAt, RunningAt, Ended,
               ActiveRun, RunActive, Active, NoneRunsAt, CutTells, RemoveMember, Idle
<1>33. CASE Cancel
  <2>1. turn' = turn
    BY <1>33 DEF Cancel
  <2> QED BY <1>0, <1>33, <2>1 DEF SettledTell, Recovering, Cold, UpAt, DrainedAt, RunningAt, Ended,
               ActiveRun, RunActive, Active, NoneRunsAt, CutTells, Cancel, Idle
<1>34. CASE Continue
  <2>1. \A j \in Turn : IF turn[j].state = "interrupted" /\ ~turn[j].cut
          THEN Now(j, "queued", turn[j].run, turn[j].handoff, turn[j].try + 1, turn[j].cut)
            ELSE turn'[j] = turn[j]
    BY <1>34, AllTurnSteps
  <2> QED BY <1>0, <1>34, <2>1 DEF SettledTell, Recovering, Cold, UpAt, DrainedAt, RunningAt, Ended,
               ActiveRun, RunActive, Active, NoneRunsAt, CutTells, Continue, Idle, Resume,
                 StartProcessing, Running, Now, Is
<1>35. CASE ArchiveRoom
  <2>1. turn' = turn
    BY <1>35 DEF ArchiveRoom
  <2> QED BY <1>0, <1>35, <2>1 DEF SettledTell, Recovering, Cold, UpAt, DrainedAt, RunningAt, Ended,
               ActiveRun, RunActive, Active, NoneRunsAt, CutTells, ArchiveRoom, Idle
<1>36. ASSUME NEW r \in Route, OwnerSelected(r)
      PROVE  SettledTell'
  <2>1. PICK n \in 0..MaxTurns : \A j \in Turn : IF j \in 1..n
          THEN \E bb \in Bot : turn'[j] = Fresh(bb) ELSE turn'[j] = NoTurn
    <3>1. PICK bot \in Bot : PrepareRoomRun(routing[r], {bot})
      BY <1>36 DEF OwnerSelected
    <3> QED BY <3>1, Prepared
  <2>2. /\ at = "idle" /\ at' = "begin" /\ app = "up" /\ app' = "up" /\ mem' = mem
        /\ batch'.state = "queued"
    BY <1>36 DEF OwnerSelected, PrepareRoomRun, Idle
  <2> QED BY <1>0, <2>1, <2>2, FreshTurns DEF SettledTell, Recovering, Cold, UpAt, DrainedAt,
               RunningAt, Ended, ActiveRun, RunActive, Active, NoneRunsAt, CutTells
<1>37. ASSUME NEW r \in Route, RoutingFails(r)
      PROVE  SettledTell'
  <2>1. turn' = turn
    BY <1>37 DEF RoutingFails
  <2> QED BY <1>0, <1>37, <2>1 DEF SettledTell, Recovering, Cold, UpAt, DrainedAt, RunningAt, Ended,
               ActiveRun, RunActive, Active, NoneRunsAt, CutTells, RoutingFails, Idle
<1>38. CASE TimePasses
  <2>1. turn' = turn
    BY <1>38 DEF TimePasses
  <2> QED BY <1>0, <1>38, <2>1 DEF SettledTell, Recovering, Cold, UpAt, DrainedAt, RunningAt, Ended,
               ActiveRun, RunActive, Active, NoneRunsAt, CutTells, TimePasses, Idle
<1>39. CASE DeadlineFires
  <2>1. turn' = turn
    BY <1>39 DEF DeadlineFires
  <2> QED BY <1>0, <1>39, <2>1 DEF SettledTell, Recovering, Cold, UpAt, DrainedAt, RunningAt, Ended,
               ActiveRun, RunActive, Active, NoneRunsAt, CutTells, DeadlineFires, Idle
<1>40. CASE BeginShutdown
  <2>1. turn' = turn
    BY <1>40 DEF BeginShutdown
  <2> QED BY <1>0, <1>40, <2>1 DEF SettledTell, Recovering, Cold, UpAt, DrainedAt, RunningAt, Ended,
               ActiveRun, RunActive, Active, NoneRunsAt, CutTells, BeginShutdown, Idle
<1>41. CASE ExecutorDrained
  <2>1. \A j \in Turn : IF RunActive(j) THEN Now(j, turn[j].state, IF turn[j].run = "cancelling"
          THEN "cancelled" ELSE "interrupted", turn[j].handoff, turn[j].try, turn[j].cut)
            ELSE turn'[j] = turn[j]
    BY <1>41, AllTurnSteps
  <2> QED BY <1>0, <1>41, <2>1 DEF SettledTell, Recovering, Cold, UpAt, DrainedAt, RunningAt, Ended,
               ActiveRun, RunActive, Active, NoneRunsAt, CutTells, ExecutorDrained, Idle, Now, Is
<1>42. CASE Drained
  <2>1. \A j \in Turn : Now(j, AfterCut(j), RunAfterCut(j), IF turn[j].handoff \in {"queued",
          "dispatching"} THEN "cancelled" ELSE turn[j].handoff, turn[j].try, turn[j].cut)
    BY <1>42, AllRecovered DEF Drained, AfterCut, RunAfterCut
  <2> QED BY <1>0, <1>42, <2>1 DEF SettledTell, Recovering, Cold, UpAt, DrainedAt, RunningAt, Ended,
               ActiveRun, RunActive, Active, NoneRunsAt, CutTells, Drained, Idle, Down, AfterCut,
                 RunAfterCut, Now, Is
<1>43. CASE Crash
  <2>1. turn' = turn
    BY <1>43 DEF Crash, Down
  <2> QED BY <1>0, <1>43, <2>1 DEF SettledTell, Recovering, Cold, UpAt, DrainedAt, RunningAt, Ended,
               ActiveRun, RunActive, Active, NoneRunsAt, CutTells, Crash, Idle, Down
<1>44. CASE Restart
  <2>1. turn' = turn
    BY <1>44 DEF Restart
  <2> QED BY <1>0, <1>44, <2>1 DEF SettledTell, Recovering, Cold, UpAt, DrainedAt, RunningAt, Ended,
               ActiveRun, RunActive, Active, NoneRunsAt, CutTells, Restart, Idle
<1> QED BY <1>1, <1>2, <1>3, <1>4, <1>5, <1>6, <1>7, <1>8, <1>9, <1>10, <1>11, <1>12, <1>13, <1>14,
             <1>15, <1>16, <1>17, <1>18, <1>19, <1>20, <1>21, <1>22, <1>23, <1>24, <1>25, <1>26,
               <1>27, <1>28, <1>29, <1>30, <1>31, <1>32, <1>33, <1>34, <1>35, <1>36, <1>37, <1>38,
                 <1>39, <1>40, <1>41, <1>42, <1>43, <1>44
  DEF Next, HandlerStep, RunStep, User, RouteAndSend

\* The recovery sums up the turns it has ended.
LEMMA RecoveredSums ==
  ASSUME Inv, BatchSumsUp, RecoverInterruptedRooms
  PROVE  BatchSumsUp'
<1>1. \A j \in Turn : turn'[j].state = AfterCut(j)
  BY AllRecovered DEF AfterCut, Now, Is
<1>2. \A j \in Turn : turn[j].state \in {"none"} \cup Active \cup Ended
  BY DEF Inv, TypeOK, TurnRecord
<1>3. /\ \A j \in Turn : turn[j].state = "none" <=> turn'[j].state = "none"
      /\ \A j \in Turn : turn[j].state # "none" => turn'[j].state \in Ended
      /\ \A j \in Turn : turn[j].state \notin Active => turn'[j].state = turn[j].state
  BY <1>1, <1>2 DEF AfterCut, Active, Ended
<1>4. Used' = Used
  BY <1>3 DEF Used
<1>5. CASE batch.state \notin Active
  <2>1. batch' = batch
    BY <1>5 DEF RecoverInterruptedRooms
  <2> QED BY <2>1, <1>3, <1>4 DEF BatchSumsUp, AllIn, Active, Ended, Used
<1>6. CASE batch.state \in Active
  <2> DEFINE ends == {turn'[i].state : i \in Used}
  <2>1. batch' = [batch EXCEPT !.state = IF ends = {"completed"} THEN "completed"
                                    ELSE IF ends = {"cancelled"} THEN "cancelled"
                                    ELSE IF ends = {"interrupted"} THEN "interrupted"
                                      ELSE "partial"]
    BY <1>6 DEF RecoverInterruptedRooms
  <2>2. batch \in [state : {"none"} \cup Active \cup BatchEnded, winding : BOOLEAN, version : Nat]
    BY DEF Inv, TypeOK
  <2>3. batch'.state = IF ends = {"completed"} THEN "completed"
                       ELSE IF ends = {"cancelled"} THEN "cancelled"
                       ELSE IF ends = {"interrupted"} THEN "interrupted" ELSE "partial"
    BY <2>1, <2>2
  <2>4. \A s : ends = {s} => \A j \in Used' : turn'[j].state \in {s}
    BY <1>4
  <2>5. \A j \in Used' : turn'[j].state \in Ended
    BY <1>3, <1>4 DEF Used
  <2> HIDE DEF ends
  <2> QED BY <2>3, <2>4, <2>5 DEF BatchSumsUp, AllIn
<1> QED BY <1>5, <1>6

\* So does the end of a batch.
LEMMA FinishedSums ==
  ASSUME Inv, BatchSumsUp, batch' = Finished, turn' = turn
  PROVE  BatchSumsUp'
<1>1. batch \in [state : {"none"} \cup Active \cup BatchEnded, winding : BOOLEAN, version : Nat]
  BY DEF Inv, TypeOK
<1>2. CASE ~AllIn(Ended)
  <2>1. batch' = batch
    BY <1>2 DEF Finished
  <2> QED BY <2>1 DEF BatchSumsUp, AllIn, Used
<1>3. CASE AllIn(Ended)
  <2>1. batch'.state = IF AllIn({"completed"}) THEN "completed"
                       ELSE IF AllIn({"cancelled"}) THEN "cancelled" ELSE "partial"
    BY <1>1, <1>3 DEF Finished
  <2> QED BY <1>3, <2>1 DEF BatchSumsUp, AllIn, Used
<1> QED BY <1>2, <1>3

\* A batch that has ended goes on summing up its turns.
LEMMA SumsKept ==
  ASSUME Inv, BatchSumsUp, [Next]_vars
  PROVE  BatchSumsUp'
<1>0. /\ BatchSumsUp /\ QueuedAt
      /\ \A j \in Turn : turn[j].state \in {"none"} \cup Active \cup Ended
      /\ batch \in [state : {"none"} \cup Active \cup BatchEnded, winding : BOOLEAN, version : Nat]
  BY DEF Inv, TypeOK, TurnRecord
<1>1. CASE UNCHANGED vars
  BY <1>0, <1>1 DEF vars, BatchSumsUp, AllIn, Used
<1>2. CASE Begin
  <2>1. turn' = turn
    BY <1>2 DEF Begin, StartProcessing, TransitionRoomBatch
  <2> QED BY <1>0, <1>2, <2>1 DEF BatchSumsUp, AllIn, Used, Begin, StartProcessing,
               TransitionRoomBatch
<1>3. CASE LoopEnds
  <2>1. turn' = turn
    BY <1>3 DEF LoopEnds
  <2> QED BY <1>0, <1>3, <2>1 DEF BatchSumsUp, AllIn, Used, LoopEnds
<1>4. CASE SettleTurn
  <2>1. \A j \in Turn : IF j \in Running THEN Now(j, turn[j].run, turn[j].run, turn[j].handoff,
          turn[j].try, turn[j].cut) ELSE turn'[j] = turn[j]
    BY <1>4, AllTurnSteps
  <2> QED BY <1>0, <1>4, <2>1 DEF BatchSumsUp, AllIn, Used, Ended, Active, SettleTurn, Now, Is,
               Running
<1>5. CASE SettleHandoff
  <2>1. \A j \in Turn : IF turn[j].handoff = "dispatching"
          THEN Now(j, turn[j].state, turn[j].run, IF turn[j].run = "cancelled" THEN "cancelled"
            ELSE "failed", turn[j].try, turn[j].cut) ELSE turn'[j] = turn[j]
    BY <1>5, AllTurnSteps
  <2> QED BY <1>0, <1>5, <2>1 DEF BatchSumsUp, AllIn, Used, Ended, Active, SettleHandoff, Now, Is,
               Running
<1>6. CASE EndProcess
  <2>1. \/ RecoverInterruptedRooms
        \/ batch' = Finished /\ turn' = turn
        \/ batch' = batch /\ turn' = turn
    BY <1>6 DEF EndProcess
  <2>2. batch' = batch /\ turn' = turn => BatchSumsUp'
    BY <1>0 DEF BatchSumsUp, AllIn, Used
  <2> QED BY <2>1, <2>2, FinishedSums, RecoveredSums
<1>7. CASE MarkWindingDown
  <2>1. turn' = turn
    BY <1>7 DEF MarkWindingDown
  <2> QED BY <1>0, <1>7, <2>1 DEF BatchSumsUp, AllIn, Used, MarkWindingDown
<1>8. CASE CancelRun
  <2>1. \/ turn' = turn
        \/ (\E j \in Running : RunActive(j)) /\ \A j \in Turn : IF j \in Running
             THEN Now(j, turn[j].state, "cancelling", turn[j].handoff, turn[j].try, turn[j].cut)
               ELSE turn'[j] = turn[j]
    BY <1>8, AllTurnSteps
  <2> QED BY <1>0, <1>8, <2>1 DEF BatchSumsUp, AllIn, Used, Ended, Active, CancelRun, Now, Is,
               Running
<1>9. CASE CancelBatch
  <2>1. turn' = turn
    BY <1>9 DEF CancelBatch, TransitionRoomBatch
  <2> QED BY <1>0, <1>9, <2>1 DEF BatchSumsUp, AllIn, Used, CancelBatch, TransitionRoomBatch
<1>10. CASE StopEnds
  <2>1. (batch' = Finished \/ batch' = batch) /\ turn' = turn
    BY <1>10 DEF StopEnds
  <2>2. batch' = batch => BatchSumsUp'
    BY <1>0, <2>1 DEF BatchSumsUp, AllIn, Used
  <2> QED BY <2>1, <2>2, FinishedSums
<1>11. CASE RecoverRooms
  BY <1>11, RecoveredSums DEF RecoverRooms
<1>12. CASE RecoverRuns
  <2>1. \A j \in Turn : IF RunActive(j) THEN Now(j, turn[j].state, "interrupted", turn[j].handoff,
          turn[j].try, turn[j].cut) ELSE turn'[j] = turn[j]
    BY <1>12, AllTurnSteps
  <2> QED BY <1>0, <1>12, <2>1 DEF BatchSumsUp, AllIn, Used, Ended, Active, RecoverRuns, Now, Is,
               Running
<1>13. ASSUME NEW i \in Turn, Refuse(i)
      PROVE  BatchSumsUp'
  <2>1. turn' = turn
    BY <1>13 DEF Refuse
  <2> QED BY <1>0, <1>13, <2>1 DEF BatchSumsUp, AllIn, Used, Refuse
<1>14. ASSUME NEW i \in Turn, DispatchHandoff(i)
      PROVE  BatchSumsUp'
  <2>1. Changes(i, "queued", turn[i].run, "dispatching", turn[i].try, turn[i].cut)
    BY <1>14, OneTurnSteps
  <2>2. turn[i].state = "queued"
    BY <1>14, ActingTurn
  <2> QED BY <1>0, <1>14, <2>1, <2>2 DEF BatchSumsUp, AllIn, Used, Ended, Active, DispatchHandoff,
               Changes, Is, QueuedAt, Queued
<1>15. ASSUME NEW i \in Turn, BeginTurn(i)
      PROVE  BatchSumsUp'
  <2>1. Changes(i, "running", turn[i].run, turn[i].handoff, turn[i].try, TRUE)
    BY <1>15, OneTurnSteps
  <2>2. turn[i].state = "queued"
    BY <1>15, ActingTurn
  <2> QED BY <1>0, <1>15, <2>1, <2>2 DEF BatchSumsUp, AllIn, Used, Ended, Active, BeginTurn,
               Changes, Is, QueuedAt, Queued
<1>16. ASSUME NEW i \in Turn, Launch(i)
      PROVE  BatchSumsUp'
  <2>1. \/ Changes(i, "failed", turn[i].run, turn[i].handoff, turn[i].try,
             turn[i].cut) /\ at' = "settleHandoff"
        \/ turn' = turn /\ at' = "attach"
    BY <1>16, Launched
  <2>2. turn[i].state = "running"
    BY <1>16, ActingTurn
  <2> QED BY <1>0, <1>16, <2>1, <2>2 DEF BatchSumsUp, AllIn, Used, Ended, Active, Launch, Changes,
               Is
<1>17. ASSUME NEW i \in Turn, Attach(i)
      PROVE  BatchSumsUp'
  <2>1. Changes(i, turn[i].state, "created", turn[i].handoff, turn[i].try, turn[i].cut)
    BY <1>17, OneTurnSteps
  <2>2. turn[i].state = "running"
    BY <1>17, ActingTurn
  <2> QED BY <1>0, <1>17, <2>1, <2>2 DEF BatchSumsUp, AllIn, Used, Ended, Active, Attach, Changes,
               Is
<1>18. ASSUME NEW i \in Turn, AcceptHandoff(i)
      PROVE  BatchSumsUp'
  <2>1. Changes(i, turn[i].state, turn[i].run, "accepted", turn[i].try, turn[i].cut)
    BY <1>18, OneTurnSteps
  <2> QED BY <1>0, <1>18, <2>1 DEF BatchSumsUp, AllIn, Used, Ended, Active, AcceptHandoff, Changes,
               Is
<1>19. ASSUME NEW i \in Turn, CancelHandoff(i)
      PROVE  BatchSumsUp'
  <2>1. Changes(i, turn[i].state, turn[i].run, "cancelled", turn[i].try, turn[i].cut)
    BY <1>19, OneTurnSteps
  <2> QED BY <1>0, <1>19, <2>1 DEF BatchSumsUp, AllIn, Used, Ended, Active, CancelHandoff, Changes,
               Is
<1>20. ASSUME NEW i \in Turn, CancelQueued(i)
      PROVE  BatchSumsUp'
  <2>1. Changes(i, "cancelled", turn[i].run, turn[i].handoff, turn[i].try, turn[i].cut)
    BY <1>20, OneTurnSteps
  <2>2. turn[i].state = "queued"
    BY <1>20, ActingTurn
  <2> QED BY <1>0, <1>20, <2>1, <2>2 DEF BatchSumsUp, AllIn, Used, Ended, Active, CancelQueued,
               Changes, Is, QueuedAt, Queued
<1>21. ASSUME NEW i \in Turn, ProviderStarts(i)
      PROVE  BatchSumsUp'
  <2>1. Changes(i, turn[i].state, "started", turn[i].handoff, turn[i].try, turn[i].cut)
    BY <1>21, OneTurnSteps
  <2>2. turn[i].state = "running"
    BY <1>21, ActingTurn
  <2> QED BY <1>0, <1>21, <2>1, <2>2 DEF BatchSumsUp, AllIn, Used, Ended, Active, ProviderStarts,
               Changes, Is
<1>22. ASSUME NEW i \in Turn, AskContinuation(i)
      PROVE  BatchSumsUp'
  <2>1. turn' = turn
    BY <1>22 DEF AskContinuation, Awaits
  <2> QED BY <1>0, <1>22, <2>1 DEF BatchSumsUp, AllIn, Used, AskContinuation, Awaits
<1>23. ASSUME NEW i \in Turn, Complete(i)
      PROVE  BatchSumsUp'
  <2>1. PICK r \in {"completed", "cancelled"} : Changes(i, turn[i].state, r, turn[i].handoff,
          turn[i].try, turn[i].cut)
    BY <1>23, OneTurnSteps
  <2>2. turn[i].state = "running"
    BY <1>23, ActingTurn
  <2> QED BY <1>0, <1>23, <2>1, <2>2 DEF BatchSumsUp, AllIn, Used, Ended, Active, Complete, Changes,
               Is
<1>24. ASSUME NEW i \in Turn, Fail(i)
      PROVE  BatchSumsUp'
  <2>1. PICK r \in {"failed", "cancelled", "interrupted"} : Changes(i, turn[i].state, r,
          turn[i].handoff, turn[i].try, turn[i].cut)
    BY <1>24, OneTurnSteps
  <2>2. turn[i].state = "running"
    BY <1>24, ActingTurn
  <2> QED BY <1>0, <1>24, <2>1, <2>2 DEF BatchSumsUp, AllIn, Used, Ended, Active, Fail, Changes, Is
<1>25. ASSUME NEW i \in Turn, AnswerLate(i)
      PROVE  BatchSumsUp'
  <2>1. turn' = turn
    BY <1>25 DEF AnswerLate, Awaits
  <2> QED BY <1>0, <1>25, <2>1 DEF BatchSumsUp, AllIn, Used, AnswerLate, Awaits
<1>26. ASSUME NEW i \in Turn, NEW b \in Bot, NEW d \in Task, Handoff(i, b, d)
      PROVE  BatchSumsUp'
  <2>1. \/ turn' = turn
        \/ \E m \in Turn : /\ turn[m] = NoTurn /\ m \notin Used
           /\ turn'[m].state = "queued" /\ turn'[m].run = "none" /\ turn'[m].handoff = "queued"
           /\ turn'[m].try = 1 /\ turn'[m].from = i /\ turn'[m].cut = FALSE
           /\ \A j \in Turn \ {m} : turn'[j] = turn[j]
    BY <1>26, Created DEF Handoff
  <2>2. turn[i].state = "running"
    BY <1>26 DEF Handoff, Awaits, Running
  <2> QED BY <1>0, <1>26, <2>1, <2>2, FreshTurns DEF BatchSumsUp, AllIn, Used, Ended, Active,
               Handoff, CreateHandoff, CanHandOff
<1>27. ASSUME NEW i \in Turn, NEW b \in Bot, NEW d \in Task, DecideHandoff(i, b, d)
      PROVE  BatchSumsUp'
  <2>1. \E m \in Turn : /\ turn[m] = NoTurn /\ m \notin Used
           /\ turn'[m].state = "queued" /\ turn'[m].run = "none" /\ turn'[m].handoff = "queued"
           /\ turn'[m].try = 1 /\ turn'[m].from = i /\ turn'[m].cut = FALSE
           /\ \A j \in Turn \ {m} : turn'[j] = turn[j]
    BY <1>27, Created DEF DecideHandoff
  <2>2. turn[i].state = "running"
    BY <1>27 DEF DecideHandoff, Awaits, Running
  <2> QED BY <1>0, <1>27, <2>1, <2>2, FreshTurns DEF BatchSumsUp, AllIn, Used, Ended, Active,
               DecideHandoff, CreateHandoff, CanHandOff
<1>28. ASSUME NEW targets \in SUBSET Bot, Send(targets)
      PROVE  BatchSumsUp'
  <2>1. PICK n \in 0..MaxTurns : \A j \in Turn : IF j \in 1..n
          THEN \E bb \in Bot : turn'[j] = Fresh(bb) ELSE turn'[j] = NoTurn
    BY <1>28, Prepared DEF Send
  <2>2. /\ at = "idle" /\ at' = "begin" /\ app = "up" /\ app' = "up" /\ mem' = mem
        /\ batch'.state = "queued"
    BY <1>28 DEF Send, PrepareRoomRun, Idle
  <2> QED BY <1>0, <2>1, <2>2, FreshTurns DEF BatchSumsUp, AllIn, Used
<1>29. ASSUME NEW r \in Route, SelectOwner(r)
      PROVE  BatchSumsUp'
  <2>1. turn' = turn
    BY <1>29 DEF SelectOwner
  <2> QED BY <1>0, <1>29, <2>1 DEF BatchSumsUp, AllIn, Used, SelectOwner
<1>30. ASSUME NEW i \in Turn, RetryTurn(i)
      PROVE  BatchSumsUp'
  <2>1. Changes(i, "queued", "none", turn[i].handoff, turn[i].try + 1, turn[i].cut)
    BY <1>30, OneTurnSteps
  <2> QED BY <1>0, <1>30, <2>1 DEF BatchSumsUp, AllIn, Used, Ended, Active, RetryTurn, Changes, Is,
               Resume
<1>31. ASSUME NEW b \in Bot, AddMember(b)
      PROVE  BatchSumsUp'
  <2>1. turn' = turn
    BY <1>31 DEF AddMember
  <2> QED BY <1>0, <1>31, <2>1 DEF BatchSumsUp, AllIn, Used, AddMember
<1>32. ASSUME NEW b \in Bot, RemoveMember(b)
      PROVE  BatchSumsUp'
  <2>1. turn' = turn
    BY <1>32 DEF RemoveMember
  <2> QED BY <1>0, <1>32, <2>1 DEF BatchSumsUp, AllIn, Used, RemoveMember
<1>33. CASE Cancel
  <2>1. turn' = turn
    BY <1>33 DEF Cancel
  <2> QED BY <1>0, <1>33, <2>1 DEF BatchSumsUp, AllIn, Used, Cancel
<1>34. CASE Continue
  <2>1. \A j \in Turn : IF turn[j].state = "interrupted" /\ ~turn[j].cut
          THEN Now(j, "queued", turn[j].run, turn[j].handoff, turn[j].try + 1, turn[j].cut)
            ELSE turn'[j] = turn[j]
    BY <1>34, AllTurnSteps
  <2> QED BY <1>0, <1>34, <2>1 DEF BatchSumsUp, Continue, Resume, Now, Is
<1>35. CASE ArchiveRoom
  <2>1. turn' = turn
    BY <1>35 DEF ArchiveRoom
  <2> QED BY <1>0, <1>35, <2>1 DEF BatchSumsUp, AllIn, Used, ArchiveRoom
<1>36. ASSUME NEW r \in Route, OwnerSelected(r)
      PROVE  BatchSumsUp'
  <2>1. PICK n \in 0..MaxTurns : \A j \in Turn : IF j \in 1..n
          THEN \E bb \in Bot : turn'[j] = Fresh(bb) ELSE turn'[j] = NoTurn
    <3>1. PICK bot \in Bot : PrepareRoomRun(routing[r], {bot})
      BY <1>36 DEF OwnerSelected
    <3> QED BY <3>1, Prepared
  <2>2. /\ at = "idle" /\ at' = "begin" /\ app = "up" /\ app' = "up" /\ mem' = mem
        /\ batch'.state = "queued"
    BY <1>36 DEF OwnerSelected, PrepareRoomRun, Idle
  <2> QED BY <1>0, <2>1, <2>2, FreshTurns DEF BatchSumsUp, AllIn, Used
<1>37. ASSUME NEW r \in Route, RoutingFails(r)
      PROVE  BatchSumsUp'
  <2>1. turn' = turn
    BY <1>37 DEF RoutingFails
  <2> QED BY <1>0, <1>37, <2>1 DEF BatchSumsUp, AllIn, Used, RoutingFails
<1>38. CASE TimePasses
  <2>1. turn' = turn
    BY <1>38 DEF TimePasses
  <2> QED BY <1>0, <1>38, <2>1 DEF BatchSumsUp, AllIn, Used, TimePasses
<1>39. CASE DeadlineFires
  <2>1. turn' = turn
    BY <1>39 DEF DeadlineFires
  <2> QED BY <1>0, <1>39, <2>1 DEF BatchSumsUp, AllIn, Used, DeadlineFires
<1>40. CASE BeginShutdown
  <2>1. turn' = turn
    BY <1>40 DEF BeginShutdown
  <2> QED BY <1>0, <1>40, <2>1 DEF BatchSumsUp, AllIn, Used, BeginShutdown
<1>41. CASE ExecutorDrained
  <2>1. \A j \in Turn : IF RunActive(j) THEN Now(j, turn[j].state, IF turn[j].run = "cancelling"
          THEN "cancelled" ELSE "interrupted", turn[j].handoff, turn[j].try, turn[j].cut)
            ELSE turn'[j] = turn[j]
    BY <1>41, AllTurnSteps
  <2> QED BY <1>0, <1>41, <2>1 DEF BatchSumsUp, AllIn, Used, Ended, Active, ExecutorDrained, Now,
               Is, Running
<1>42. CASE Drained
  BY <1>42, RecoveredSums DEF Drained
<1>43. CASE Crash
  <2>1. turn' = turn
    BY <1>43 DEF Crash, Down
  <2> QED BY <1>0, <1>43, <2>1 DEF BatchSumsUp, AllIn, Used, Crash, Down
<1>44. CASE Restart
  <2>1. turn' = turn
    BY <1>44 DEF Restart
  <2> QED BY <1>0, <1>44, <2>1 DEF BatchSumsUp, AllIn, Used, Restart
<1> QED BY <1>1, <1>2, <1>3, <1>4, <1>5, <1>6, <1>7, <1>8, <1>9, <1>10, <1>11, <1>12, <1>13, <1>14,
             <1>15, <1>16, <1>17, <1>18, <1>19, <1>20, <1>21, <1>22, <1>23, <1>24, <1>25, <1>26,
               <1>27, <1>28, <1>29, <1>30, <1>31, <1>32, <1>33, <1>34, <1>35, <1>36, <1>37, <1>38,
                 <1>39, <1>40, <1>41, <1>42, <1>43, <1>44
  DEF Next, HandlerStep, RunStep, User, RouteAndSend
\* The handoffs go on telling where their turns are.
LEMMA HandoffsKept ==
  ASSUME Inv, HandoffsTell, Dispatching, CancelledAt, HandoffAt,
         [Next]_vars
  PROVE  HandoffsTell'
<1>0. /\ HandoffsTell /\ Dispatching /\ RunningAt /\ CutTells /\ CancelledAt /\ HandoffAt
  BY DEF Inv
<1>1. CASE UNCHANGED vars
  BY <1>0, <1>1 DEF vars, HandoffsTell
<1>2. CASE Begin
  <2>1. turn' = turn
    BY <1>2 DEF Begin, StartProcessing, TransitionRoomBatch
  <2> QED BY <1>0, <1>2, <2>1 DEF HandoffsTell
<1>3. CASE LoopEnds
  <2>1. turn' = turn
    BY <1>3 DEF LoopEnds
  <2> QED BY <1>0, <1>3, <2>1 DEF HandoffsTell
<1>4. CASE SettleTurn
  <2>1. \A j \in Turn : IF j \in Running THEN Now(j, turn[j].run, turn[j].run, turn[j].handoff,
          turn[j].try, turn[j].cut) ELSE turn'[j] = turn[j]
    BY <1>4, AllTurnSteps
  <2> QED BY <1>0, <1>4, <2>1 DEF HandoffsTell, CutTells, Now, Is, Running
<1>5. CASE SettleHandoff
  <2>1. \A j \in Turn : IF turn[j].handoff = "dispatching"
          THEN Now(j, turn[j].state, turn[j].run, IF turn[j].run = "cancelled" THEN "cancelled"
            ELSE "failed", turn[j].try, turn[j].cut) ELSE turn'[j] = turn[j]
    BY <1>5, AllTurnSteps
  <2> QED BY <1>0, <1>5, <2>1 DEF HandoffsTell, CutTells, Now, Is, Running
<1>6. CASE EndProcess
  <2>1. turn' = turn \/ (app # "up" /\ RecoverInterruptedRooms)
    BY <1>6 DEF EndProcess
  <2>2. RecoverInterruptedRooms => \A j \in Turn : Now(j, AfterCut(j), RunAfterCut(j),
          IF turn[j].handoff \in {"queued", "dispatching"} THEN "cancelled"
            ELSE turn[j].handoff, turn[j].try, turn[j].cut)
    BY AllRecovered DEF AfterCut, RunAfterCut
  <2> QED BY <1>0, <1>6, <2>1, <2>2 DEF HandoffsTell, CutTells, Now, Is, AfterCut, RunAfterCut,
               Active
<1>7. CASE MarkWindingDown
  <2>1. turn' = turn
    BY <1>7 DEF MarkWindingDown
  <2> QED BY <1>0, <1>7, <2>1 DEF HandoffsTell
<1>8. CASE CancelRun
  <2>1. \/ turn' = turn
        \/ (\E j \in Running : RunActive(j)) /\ \A j \in Turn : IF j \in Running
             THEN Now(j, turn[j].state, "cancelling", turn[j].handoff, turn[j].try, turn[j].cut)
               ELSE turn'[j] = turn[j]
    BY <1>8, AllTurnSteps
  <2> QED BY <1>0, <1>8, <2>1 DEF HandoffsTell, CutTells, Now, Is, Running
<1>9. CASE CancelBatch
  <2>1. turn' = turn
    BY <1>9 DEF CancelBatch, TransitionRoomBatch
  <2> QED BY <1>0, <1>9, <2>1 DEF HandoffsTell
<1>10. CASE StopEnds
  <2>1. turn' = turn
    BY <1>10 DEF StopEnds
  <2> QED BY <1>0, <1>10, <2>1 DEF HandoffsTell
<1>11. CASE RecoverRooms
  <2>1. \A j \in Turn : Now(j, AfterCut(j), RunAfterCut(j), IF turn[j].handoff \in {"queued",
          "dispatching"} THEN "cancelled" ELSE turn[j].handoff, turn[j].try, turn[j].cut)
    BY <1>11, AllRecovered DEF RecoverRooms, AfterCut, RunAfterCut
  <2> QED BY <1>0, <1>11, <2>1 DEF HandoffsTell, CutTells, Now, Is, AfterCut, RunAfterCut, Active
<1>12. CASE RecoverRuns
  <2>1. \A j \in Turn : IF RunActive(j) THEN Now(j, turn[j].state, "interrupted", turn[j].handoff,
          turn[j].try, turn[j].cut) ELSE turn'[j] = turn[j]
    BY <1>12, AllTurnSteps
  <2> QED BY <1>0, <1>12, <2>1 DEF HandoffsTell, CutTells, Now, Is, Running
<1>13. ASSUME NEW i \in Turn, Refuse(i)
      PROVE  HandoffsTell'
  <2>1. turn' = turn
    BY <1>13 DEF Refuse
  <2> QED BY <1>0, <1>13, <2>1 DEF HandoffsTell
<1>14. ASSUME NEW i \in Turn, DispatchHandoff(i)
      PROVE  HandoffsTell'
  <2>1. Changes(i, "queued", turn[i].run, "dispatching", turn[i].try, turn[i].cut)
    BY <1>14, OneTurnSteps
  <2>2. turn[i].state = "queued"
    BY <1>14, ActingTurn
  <2> QED BY <1>0, <1>14, <2>1, <2>2 DEF HandoffsTell, CutTells, Changes, Is, DispatchHandoff
<1>15. ASSUME NEW i \in Turn, BeginTurn(i)
      PROVE  HandoffsTell'
  <2>1. Changes(i, "running", turn[i].run, turn[i].handoff, turn[i].try, TRUE)
    BY <1>15, OneTurnSteps
  <2>2. turn[i].state = "queued"
    BY <1>15, ActingTurn
  <2> QED BY <1>0, <1>15, <2>1, <2>2 DEF HandoffsTell, CutTells, Dispatching, DispatchingAt, Cold,
               RunningAt, Changes, Is, BeginTurn, HandoffAt
<1>16. ASSUME NEW i \in Turn, Launch(i)
      PROVE  HandoffsTell'
  <2>1. \/ Changes(i, "failed", turn[i].run, turn[i].handoff, turn[i].try,
             turn[i].cut) /\ at' = "settleHandoff"
        \/ turn' = turn /\ at' = "attach"
    BY <1>16, Launched
  <2>2. turn[i].state = "running"
    BY <1>16, ActingTurn
  <2> QED BY <1>0, <1>16, <2>1, <2>2 DEF HandoffsTell, CutTells, Changes, Is
<1>17. ASSUME NEW i \in Turn, Attach(i)
      PROVE  HandoffsTell'
  <2>1. Changes(i, turn[i].state, "created", turn[i].handoff, turn[i].try, turn[i].cut)
    BY <1>17, OneTurnSteps
  <2>2. turn[i].state = "running"
    BY <1>17, ActingTurn
  <2> QED BY <1>0, <1>17, <2>1, <2>2 DEF HandoffsTell, CutTells, Changes, Is
<1>18. ASSUME NEW i \in Turn, AcceptHandoff(i)
      PROVE  HandoffsTell'
  <2>1. Changes(i, turn[i].state, turn[i].run, "accepted", turn[i].try, turn[i].cut)
    BY <1>18, OneTurnSteps
  <2> QED BY <1>0, <1>18, <2>1 DEF HandoffsTell, CutTells, Dispatching, DispatchingAt, Cold,
               RunningAt, Changes, Is, AcceptHandoff
<1>19. ASSUME NEW i \in Turn, CancelHandoff(i)
      PROVE  HandoffsTell'
  <2>1. Changes(i, turn[i].state, turn[i].run, "cancelled", turn[i].try, turn[i].cut)
    BY <1>19, OneTurnSteps
  <2> QED BY <1>0, <1>19, <2>1 DEF HandoffsTell, CutTells, Dispatching, DispatchingAt, Cold,
               RunningAt, Changes, Is
<1>20. ASSUME NEW i \in Turn, CancelQueued(i)
      PROVE  HandoffsTell'
  <2>1. Changes(i, "cancelled", turn[i].run, turn[i].handoff, turn[i].try, turn[i].cut)
    BY <1>20, OneTurnSteps
  <2>2. turn[i].state = "queued"
    BY <1>20, ActingTurn
  <2> QED BY <1>0, <1>20, <2>1, <2>2 DEF HandoffsTell, CutTells, Dispatching, DispatchingAt, Cold,
               RunningAt, Changes, Is, CancelQueued, CancelledAt, OpenHandoff
<1>21. ASSUME NEW i \in Turn, ProviderStarts(i)
      PROVE  HandoffsTell'
  <2>1. Changes(i, turn[i].state, "started", turn[i].handoff, turn[i].try, turn[i].cut)
    BY <1>21, OneTurnSteps
  <2>2. turn[i].state = "running"
    BY <1>21, ActingTurn
  <2> QED BY <1>0, <1>21, <2>1, <2>2 DEF HandoffsTell, CutTells, Changes, Is
<1>22. ASSUME NEW i \in Turn, AskContinuation(i)
      PROVE  HandoffsTell'
  <2>1. turn' = turn
    BY <1>22 DEF AskContinuation, Awaits
  <2> QED BY <1>0, <1>22, <2>1 DEF HandoffsTell
<1>23. ASSUME NEW i \in Turn, Complete(i)
      PROVE  HandoffsTell'
  <2>1. PICK r \in {"completed", "cancelled"} : Changes(i, turn[i].state, r, turn[i].handoff,
          turn[i].try, turn[i].cut)
    BY <1>23, OneTurnSteps
  <2>2. turn[i].state = "running"
    BY <1>23, ActingTurn
  <2> QED BY <1>0, <1>23, <2>1, <2>2 DEF HandoffsTell, CutTells, Changes, Is
<1>24. ASSUME NEW i \in Turn, Fail(i)
      PROVE  HandoffsTell'
  <2>1. PICK r \in {"failed", "cancelled", "interrupted"} : Changes(i, turn[i].state, r,
          turn[i].handoff, turn[i].try, turn[i].cut)
    BY <1>24, OneTurnSteps
  <2>2. turn[i].state = "running"
    BY <1>24, ActingTurn
  <2> QED BY <1>0, <1>24, <2>1, <2>2 DEF HandoffsTell, CutTells, Changes, Is
<1>25. ASSUME NEW i \in Turn, AnswerLate(i)
      PROVE  HandoffsTell'
  <2>1. turn' = turn
    BY <1>25 DEF AnswerLate, Awaits
  <2> QED BY <1>0, <1>25, <2>1 DEF HandoffsTell
<1>26. ASSUME NEW i \in Turn, NEW b \in Bot, NEW d \in Task, Handoff(i, b, d)
      PROVE  HandoffsTell'
  <2>1. \/ turn' = turn
        \/ \E m \in Turn : /\ turn[m] = NoTurn /\ m \notin Used
           /\ turn'[m].state = "queued" /\ turn'[m].run = "none" /\ turn'[m].handoff = "queued"
           /\ turn'[m].try = 1 /\ turn'[m].from = i /\ turn'[m].cut = FALSE
           /\ \A j \in Turn \ {m} : turn'[j] = turn[j]
    BY <1>26, Created DEF Handoff
  <2>2. turn[i].state = "running"
    BY <1>26 DEF Handoff, Awaits, Running
  <2> QED BY <1>0, <1>26, <2>1, <2>2, FreshTurns DEF HandoffsTell, CutTells
<1>27. ASSUME NEW i \in Turn, NEW b \in Bot, NEW d \in Task, DecideHandoff(i, b, d)
      PROVE  HandoffsTell'
  <2>1. \E m \in Turn : /\ turn[m] = NoTurn /\ m \notin Used
           /\ turn'[m].state = "queued" /\ turn'[m].run = "none" /\ turn'[m].handoff = "queued"
           /\ turn'[m].try = 1 /\ turn'[m].from = i /\ turn'[m].cut = FALSE
           /\ \A j \in Turn \ {m} : turn'[j] = turn[j]
    BY <1>27, Created DEF DecideHandoff
  <2>2. turn[i].state = "running"
    BY <1>27 DEF DecideHandoff, Awaits, Running
  <2> QED BY <1>0, <1>27, <2>1, <2>2, FreshTurns DEF HandoffsTell, CutTells
<1>28. ASSUME NEW targets \in SUBSET Bot, Send(targets)
      PROVE  HandoffsTell'
  <2>1. PICK n \in 0..MaxTurns : \A j \in Turn : IF j \in 1..n
          THEN \E bb \in Bot : turn'[j] = Fresh(bb) ELSE turn'[j] = NoTurn
    BY <1>28, Prepared DEF Send
  <2>2. /\ at = "idle" /\ at' = "begin" /\ app = "up" /\ app' = "up" /\ mem' = mem
        /\ batch'.state = "queued"
    BY <1>28 DEF Send, PrepareRoomRun, Idle
  <2> QED BY <1>0, <2>1, <2>2, FreshTurns DEF HandoffsTell
<1>29. ASSUME NEW r \in Route, SelectOwner(r)
      PROVE  HandoffsTell'
  <2>1. turn' = turn
    BY <1>29 DEF SelectOwner
  <2> QED BY <1>0, <1>29, <2>1 DEF HandoffsTell
<1>30. ASSUME NEW i \in Turn, RetryTurn(i)
      PROVE  HandoffsTell'
  <2>1. Changes(i, "queued", "none", turn[i].handoff, turn[i].try + 1, turn[i].cut)
    BY <1>30, OneTurnSteps
  <2> QED BY <1>0, <1>30, <2>1 DEF HandoffsTell, CutTells, Dispatching, DispatchingAt, Cold,
               RunningAt, Changes, Is, RetryTurn, Idle, WaitingAt
<1>31. ASSUME NEW b \in Bot, AddMember(b)
      PROVE  HandoffsTell'
  <2>1. turn' = turn
    BY <1>31 DEF AddMember
  <2> QED BY <1>0, <1>31, <2>1 DEF HandoffsTell
<1>32. ASSUME NEW b \in Bot, RemoveMember(b)
      PROVE  HandoffsTell'
  <2>1. turn' = turn
    BY <1>32 DEF RemoveMember
  <2> QED BY <1>0, <1>32, <2>1 DEF HandoffsTell
<1>33. CASE Cancel
  <2>1. turn' = turn
    BY <1>33 DEF Cancel
  <2> QED BY <1>0, <1>33, <2>1 DEF HandoffsTell
<1>34. CASE Continue
  <2>1. \A j \in Turn : IF turn[j].state = "interrupted" /\ ~turn[j].cut
          THEN Now(j, "queued", turn[j].run, turn[j].handoff, turn[j].try + 1, turn[j].cut)
            ELSE turn'[j] = turn[j]
    BY <1>34, AllTurnSteps
  <2>2. at = "idle" /\ app = "up"
    BY <1>34 DEF Continue, Idle
  <2>3. \A j \in Turn : turn[j].state = "interrupted" => turn[j].handoff \notin {"queued",
          "dispatching"}
    BY <1>0, <2>2 DEF HandoffsTell, Dispatching, DispatchingAt, Cold, WaitingAt
  <2> QED BY <1>0, <1>34, <2>1, <2>3 DEF HandoffsTell, CutTells, Now, Is
<1>35. CASE ArchiveRoom
  <2>1. turn' = turn
    BY <1>35 DEF ArchiveRoom
  <2> QED BY <1>0, <1>35, <2>1 DEF HandoffsTell
<1>36. ASSUME NEW r \in Route, OwnerSelected(r)
      PROVE  HandoffsTell'
  <2>1. PICK n \in 0..MaxTurns : \A j \in Turn : IF j \in 1..n
          THEN \E bb \in Bot : turn'[j] = Fresh(bb) ELSE turn'[j] = NoTurn
    <3>1. PICK bot \in Bot : PrepareRoomRun(routing[r], {bot})
      BY <1>36 DEF OwnerSelected
    <3> QED BY <3>1, Prepared
  <2>2. /\ at = "idle" /\ at' = "begin" /\ app = "up" /\ app' = "up" /\ mem' = mem
        /\ batch'.state = "queued"
    BY <1>36 DEF OwnerSelected, PrepareRoomRun, Idle
  <2> QED BY <1>0, <2>1, <2>2, FreshTurns DEF HandoffsTell
<1>37. ASSUME NEW r \in Route, RoutingFails(r)
      PROVE  HandoffsTell'
  <2>1. turn' = turn
    BY <1>37 DEF RoutingFails
  <2> QED BY <1>0, <1>37, <2>1 DEF HandoffsTell
<1>38. CASE TimePasses
  <2>1. turn' = turn
    BY <1>38 DEF TimePasses
  <2> QED BY <1>0, <1>38, <2>1 DEF HandoffsTell
<1>39. CASE DeadlineFires
  <2>1. turn' = turn
    BY <1>39 DEF DeadlineFires
  <2> QED BY <1>0, <1>39, <2>1 DEF HandoffsTell
<1>40. CASE BeginShutdown
  <2>1. turn' = turn
    BY <1>40 DEF BeginShutdown
  <2> QED BY <1>0, <1>40, <2>1 DEF HandoffsTell
<1>41. CASE ExecutorDrained
  <2>1. \A j \in Turn : IF RunActive(j) THEN Now(j, turn[j].state, IF turn[j].run = "cancelling"
          THEN "cancelled" ELSE "interrupted", turn[j].handoff, turn[j].try, turn[j].cut)
            ELSE turn'[j] = turn[j]
    BY <1>41, AllTurnSteps
  <2> QED BY <1>0, <1>41, <2>1 DEF HandoffsTell, CutTells, Now, Is, Running
<1>42. CASE Drained
  <2>1. \A j \in Turn : Now(j, AfterCut(j), RunAfterCut(j), IF turn[j].handoff \in {"queued",
          "dispatching"} THEN "cancelled" ELSE turn[j].handoff, turn[j].try, turn[j].cut)
    BY <1>42, AllRecovered DEF Drained, AfterCut, RunAfterCut
  <2> QED BY <1>0, <1>42, <2>1 DEF HandoffsTell, CutTells, Now, Is, AfterCut, RunAfterCut, Active
<1>43. CASE Crash
  <2>1. turn' = turn
    BY <1>43 DEF Crash, Down
  <2> QED BY <1>0, <1>43, <2>1 DEF HandoffsTell
<1>44. CASE Restart
  <2>1. turn' = turn
    BY <1>44 DEF Restart
  <2> QED BY <1>0, <1>44, <2>1 DEF HandoffsTell
<1> QED BY <1>1, <1>2, <1>3, <1>4, <1>5, <1>6, <1>7, <1>8, <1>9, <1>10, <1>11, <1>12, <1>13, <1>14,
             <1>15, <1>16, <1>17, <1>18, <1>19, <1>20, <1>21, <1>22, <1>23, <1>24, <1>25, <1>26,
               <1>27, <1>28, <1>29, <1>30, <1>31, <1>32, <1>33, <1>34, <1>35, <1>36, <1>37, <1>38,
                 <1>39, <1>40, <1>41, <1>42, <1>43, <1>44
  DEF Next, HandlerStep, RunStep, User, RouteAndSend

\* Where the process, the main process's memory and the open handoffs stand by the place of the
\* handler.
Places == UpAt /\ DrainedAt /\ AskedAt /\ CancelledAt

\* They stand so after every step.
LEMMA PlacesKept ==
  ASSUME Inv, Places, Dispatching, [Next]_vars
  PROVE  Places'
<1>0. /\ Places /\ Dispatching /\ RunningAt /\ CutTells
      /\ mem \in Memory /\ mem.back \in {"idle", "end"}
  BY DEF Inv, TypeOK, Memory
<1>1. CASE UNCHANGED vars
  BY <1>0, <1>1 DEF vars, Places, UpAt, DrainedAt, AskedAt, CancelledAt, OpenHandoff, RunActive,
       ActiveRun, Ended, CutTells, RunningAt, NoneRunsAt, Memory, Running
<1>2. CASE Begin
  <2>1. turn' = turn
    BY <1>2 DEF Begin, StartProcessing, TransitionRoomBatch
  <2> QED BY <1>0, <1>2, <2>1 DEF Places, UpAt, DrainedAt, AskedAt, CancelledAt, OpenHandoff,
               RunActive, ActiveRun, Ended, CutTells, RunningAt, NoneRunsAt, Memory, Running, Begin,
                 Idle, StartProcessing, TransitionRoomBatch, Awaits
<1>3. CASE LoopEnds
  <2>1. turn' = turn
    BY <1>3 DEF LoopEnds
  <2> QED BY <1>0, <1>3, <2>1 DEF Places, UpAt, DrainedAt, AskedAt, CancelledAt, OpenHandoff,
               RunActive, ActiveRun, Ended, CutTells, RunningAt, NoneRunsAt, Memory, Running,
                 LoopEnds, Idle, Awaits
<1>4. CASE SettleTurn
  <2>1. \A j \in Turn : IF j \in Running THEN Now(j, turn[j].run, turn[j].run, turn[j].handoff,
          turn[j].try, turn[j].cut) ELSE turn'[j] = turn[j]
    BY <1>4, AllTurnSteps
  <2> QED BY <1>0, <1>4, <2>1 DEF Places, UpAt, DrainedAt, AskedAt, CancelledAt, OpenHandoff,
               RunActive, ActiveRun, Ended, CutTells, RunningAt, NoneRunsAt, Memory, Running,
                 SettleTurn, Idle, Awaits, Now, Is
<1>5. CASE SettleHandoff
  <2>1. \A j \in Turn : IF turn[j].handoff = "dispatching"
          THEN Now(j, turn[j].state, turn[j].run, IF turn[j].run = "cancelled" THEN "cancelled"
            ELSE "failed", turn[j].try, turn[j].cut) ELSE turn'[j] = turn[j]
    BY <1>5, AllTurnSteps
  <2> QED BY <1>0, <1>5, <2>1 DEF Places, UpAt, DrainedAt, AskedAt, CancelledAt, OpenHandoff,
               RunActive, ActiveRun, Ended, CutTells, RunningAt, NoneRunsAt, Memory, Running,
                 SettleHandoff, Idle, Awaits, Now, Is
<1>6. CASE EndProcess
  <2>1. turn' = turn \/ (app # "up" /\ RecoverInterruptedRooms)
    BY <1>6 DEF EndProcess
  <2>2. RecoverInterruptedRooms => \A j \in Turn : Now(j, AfterCut(j), RunAfterCut(j),
          IF turn[j].handoff \in {"queued", "dispatching"} THEN "cancelled"
            ELSE turn[j].handoff, turn[j].try, turn[j].cut)
    BY AllRecovered DEF AfterCut, RunAfterCut
  <2> QED BY <1>0, <1>6, <2>1, <2>2 DEF Places, UpAt, DrainedAt, AskedAt, CancelledAt, OpenHandoff,
               RunActive, ActiveRun, Ended, CutTells, RunningAt, NoneRunsAt, Memory, Running,
                 EndProcess, Idle, Awaits, AfterCut, RunAfterCut, Active, Forgotten, Now, Is
<1>7. CASE MarkWindingDown
  <2>1. turn' = turn
    BY <1>7 DEF MarkWindingDown
  <2> QED BY <1>0, <1>7, <2>1 DEF Places, UpAt, DrainedAt, AskedAt, CancelledAt, OpenHandoff,
               RunActive, ActiveRun, Ended, CutTells, RunningAt, NoneRunsAt, Memory, Running,
                 MarkWindingDown, Idle, Awaits
<1>8. CASE CancelRun
  <2>1. \/ turn' = turn
        \/ (\E j \in Running : RunActive(j)) /\ \A j \in Turn : IF j \in Running
             THEN Now(j, turn[j].state, "cancelling", turn[j].handoff, turn[j].try, turn[j].cut)
               ELSE turn'[j] = turn[j]
    BY <1>8, AllTurnSteps
  <2> QED BY <1>0, <1>8, <2>1 DEF Places, UpAt, DrainedAt, AskedAt, CancelledAt, OpenHandoff,
               RunActive, ActiveRun, Ended, CutTells, RunningAt, NoneRunsAt, Memory, Running,
                 CancelRun, Idle, Awaits, Now, Is
<1>9. CASE CancelBatch
  <2>1. turn' = turn
    BY <1>9 DEF CancelBatch, TransitionRoomBatch
  <2> QED BY <1>0, <1>9, <2>1 DEF Places, UpAt, DrainedAt, AskedAt, CancelledAt, OpenHandoff,
               RunActive, ActiveRun, Ended, CutTells, RunningAt, NoneRunsAt, Memory, Running,
                 CancelBatch, Idle, TransitionRoomBatch, Awaits
<1>10. CASE StopEnds
  <2>1. turn' = turn
    BY <1>10 DEF StopEnds
  <2> QED BY <1>0, <1>10, <2>1 DEF Places, UpAt, DrainedAt, AskedAt, CancelledAt, OpenHandoff,
               RunActive, ActiveRun, Ended, CutTells, RunningAt, NoneRunsAt, Memory, Running,
                 StopEnds, Idle, Awaits
<1>11. CASE RecoverRooms
  <2>1. \A j \in Turn : Now(j, AfterCut(j), RunAfterCut(j), IF turn[j].handoff \in {"queued",
          "dispatching"} THEN "cancelled" ELSE turn[j].handoff, turn[j].try, turn[j].cut)
    BY <1>11, AllRecovered DEF RecoverRooms, AfterCut, RunAfterCut
  <2> QED BY <1>0, <1>11, <2>1 DEF Places, UpAt, DrainedAt, AskedAt, CancelledAt, OpenHandoff,
               RunActive, ActiveRun, Ended, CutTells, RunningAt, NoneRunsAt, Memory, Running,
                 RecoverRooms, Idle, Awaits, AfterCut, RunAfterCut, Active, Now, Is
<1>12. CASE RecoverRuns
  <2>1. \A j \in Turn : IF RunActive(j) THEN Now(j, turn[j].state, "interrupted", turn[j].handoff,
          turn[j].try, turn[j].cut) ELSE turn'[j] = turn[j]
    BY <1>12, AllTurnSteps
  <2> QED BY <1>0, <1>12, <2>1 DEF Places, UpAt, DrainedAt, AskedAt, CancelledAt, OpenHandoff,
               RunActive, ActiveRun, Ended, CutTells, RunningAt, NoneRunsAt, Memory, Running,
                 RecoverRuns, Idle, Awaits, Now, Is
<1>13. ASSUME NEW i \in Turn, Refuse(i)
      PROVE  Places'
  <2>1. turn' = turn
    BY <1>13 DEF Refuse
  <2> QED BY <1>0, <1>13, <2>1 DEF Places, UpAt, DrainedAt, AskedAt, CancelledAt, OpenHandoff,
               RunActive, ActiveRun, Ended, CutTells, RunningAt, NoneRunsAt, Memory, Running,
                 Refuse, Idle, Awaits
<1>14. ASSUME NEW i \in Turn, DispatchHandoff(i)
      PROVE  Places'
  <2>1. Changes(i, "queued", turn[i].run, "dispatching", turn[i].try, turn[i].cut)
    BY <1>14, OneTurnSteps
  <2>2. turn[i].state = "queued"
    BY <1>14, ActingTurn
  <2> QED BY <1>0, <1>14, <2>1, <2>2 DEF Places, UpAt, DrainedAt, AskedAt, CancelledAt, OpenHandoff,
               RunActive, ActiveRun, Ended, CutTells, RunningAt, NoneRunsAt, Memory, Running,
                 DispatchHandoff, Idle, Awaits, LoopGoesOn, Changes, Is
<1>15. ASSUME NEW i \in Turn, BeginTurn(i)
      PROVE  Places'
  <2>1. Changes(i, "running", turn[i].run, turn[i].handoff, turn[i].try, TRUE)
    BY <1>15, OneTurnSteps
  <2>2. turn[i].state = "queued"
    BY <1>15, ActingTurn
  <2> QED BY <1>0, <1>15, <2>1, <2>2 DEF Places, UpAt, DrainedAt, AskedAt, CancelledAt, OpenHandoff,
               RunActive, ActiveRun, Ended, CutTells, RunningAt, NoneRunsAt, Memory, Running,
                 BeginTurn, Idle, Awaits, LoopGoesOn, Changes, Is
<1>16. ASSUME NEW i \in Turn, Launch(i)
      PROVE  Places'
  <2>1. \/ Changes(i, "failed", turn[i].run, turn[i].handoff, turn[i].try,
             turn[i].cut) /\ at' = "settleHandoff"
        \/ turn' = turn /\ at' = "attach"
    BY <1>16, Launched
  <2>2. turn[i].state = "running"
    BY <1>16, ActingTurn
  <2> QED BY <1>0, <1>16, <2>1, <2>2 DEF Places, UpAt, DrainedAt, AskedAt, CancelledAt, OpenHandoff,
               RunActive, ActiveRun, Ended, CutTells, RunningAt, NoneRunsAt, Memory, Running,
                 Launch, Idle, Awaits, Changes, Is
<1>17. ASSUME NEW i \in Turn, Attach(i)
      PROVE  Places'
  <2>1. Changes(i, turn[i].state, "created", turn[i].handoff, turn[i].try, turn[i].cut)
    BY <1>17, OneTurnSteps
  <2>2. turn[i].state = "running"
    BY <1>17, ActingTurn
  <2> QED BY <1>0, <1>17, <2>1, <2>2 DEF Places, UpAt, DrainedAt, AskedAt, CancelledAt, OpenHandoff,
               RunActive, ActiveRun, Ended, CutTells, RunningAt, NoneRunsAt, Memory, Running,
                 Attach, Idle, Awaits, Changes, Is
<1>18. ASSUME NEW i \in Turn, AcceptHandoff(i)
      PROVE  Places'
  <2>1. Changes(i, turn[i].state, turn[i].run, "accepted", turn[i].try, turn[i].cut)
    BY <1>18, OneTurnSteps
  <2> QED BY <1>0, <1>18, <2>1 DEF Places, UpAt, DrainedAt, AskedAt, CancelledAt, OpenHandoff,
               RunActive, ActiveRun, Ended, CutTells, RunningAt, NoneRunsAt, Memory, Running,
                 AcceptHandoff, Idle, Awaits, Changes, Is
<1>19. ASSUME NEW i \in Turn, CancelHandoff(i)
      PROVE  Places'
  <2>1. Changes(i, turn[i].state, turn[i].run, "cancelled", turn[i].try, turn[i].cut)
    BY <1>19, OneTurnSteps
  <2> QED BY <1>0, <1>19, <2>1 DEF Places, UpAt, DrainedAt, AskedAt, CancelledAt,
               RunActive, ActiveRun, Ended, CutTells, RunningAt, NoneRunsAt, Memory, Running,
                 CancelHandoff, Idle, Awaits, Changes, Is
<1>20. ASSUME NEW i \in Turn, CancelQueued(i)
      PROVE  Places'
  <2>1. Changes(i, "cancelled", turn[i].run, turn[i].handoff, turn[i].try, turn[i].cut)
    BY <1>20, OneTurnSteps
  <2>2. turn[i].state = "queued"
    BY <1>20, ActingTurn
  <2> QED BY <1>0, <1>20, <2>1, <2>2 DEF Places, UpAt, DrainedAt, AskedAt, CancelledAt, OpenHandoff,
               RunActive, ActiveRun, Ended, CutTells, RunningAt, NoneRunsAt, Memory, Running,
                 CancelQueued, Idle, Awaits, Changes, Is
<1>21. ASSUME NEW i \in Turn, ProviderStarts(i)
      PROVE  Places'
  <2>1. Changes(i, turn[i].state, "started", turn[i].handoff, turn[i].try, turn[i].cut)
    BY <1>21, OneTurnSteps
  <2>2. turn[i].state = "running"
    BY <1>21, ActingTurn
  <2> QED BY <1>0, <1>21, <2>1, <2>2 DEF Places, UpAt, DrainedAt, AskedAt, CancelledAt, OpenHandoff,
               RunActive, ActiveRun, Ended, CutTells, RunningAt, NoneRunsAt, Memory, Running,
                 ProviderStarts, Idle, Awaits, Changes, Is
<1>22. ASSUME NEW i \in Turn, AskContinuation(i)
      PROVE  Places'
  <2>1. turn' = turn
    BY <1>22 DEF AskContinuation, Awaits
  <2> QED BY <1>0, <1>22, <2>1 DEF Places, UpAt, DrainedAt, AskedAt, CancelledAt, OpenHandoff,
               RunActive, ActiveRun, Ended, CutTells, RunningAt, NoneRunsAt, Memory, Running,
                 AskContinuation, Idle, Awaits
<1>23. ASSUME NEW i \in Turn, Complete(i)
      PROVE  Places'
  <2>1. PICK r \in {"completed", "cancelled"} : Changes(i, turn[i].state, r, turn[i].handoff,
          turn[i].try, turn[i].cut)
    BY <1>23, OneTurnSteps
  <2>2. turn[i].state = "running"
    BY <1>23, ActingTurn
  <2> QED BY <1>0, <1>23, <2>1, <2>2 DEF Places, UpAt, DrainedAt, AskedAt, CancelledAt, OpenHandoff,
               RunActive, ActiveRun, Ended, CutTells, RunningAt, NoneRunsAt, Memory, Running,
                 Complete, Idle, Awaits, Changes, Is
<1>24. ASSUME NEW i \in Turn, Fail(i)
      PROVE  Places'
  <2>1. PICK r \in {"failed", "cancelled", "interrupted"} : Changes(i, turn[i].state, r,
          turn[i].handoff, turn[i].try, turn[i].cut)
    BY <1>24, OneTurnSteps
  <2>2. turn[i].state = "running"
    BY <1>24, ActingTurn
  <2> QED BY <1>0, <1>24, <2>1, <2>2 DEF Places, UpAt, DrainedAt, AskedAt, CancelledAt, OpenHandoff,
               RunActive, ActiveRun, Ended, CutTells, RunningAt, NoneRunsAt, Memory, Running, Fail,
                 Idle, Awaits, Changes, Is
<1>25. ASSUME NEW i \in Turn, AnswerLate(i)
      PROVE  Places'
  <2>1. turn' = turn
    BY <1>25 DEF AnswerLate, Awaits
  <2> QED BY <1>0, <1>25, <2>1 DEF Places, UpAt, DrainedAt, AskedAt, CancelledAt, OpenHandoff,
               RunActive, ActiveRun, Ended, CutTells, RunningAt, NoneRunsAt, Memory, Running,
                 AnswerLate, Idle, Awaits
<1>26. ASSUME NEW i \in Turn, NEW b \in Bot, NEW d \in Task, Handoff(i, b, d)
      PROVE  Places'
  <2>1. \/ turn' = turn
        \/ \E m \in Turn : /\ turn[m] = NoTurn /\ m \notin Used
           /\ turn'[m].state = "queued" /\ turn'[m].run = "none" /\ turn'[m].handoff = "queued"
           /\ turn'[m].try = 1 /\ turn'[m].from = i /\ turn'[m].cut = FALSE
           /\ \A j \in Turn \ {m} : turn'[j] = turn[j]
    BY <1>26, Created DEF Handoff
  <2>2. turn[i].state = "running"
    BY <1>26 DEF Handoff, Awaits, Running
  <2> QED BY <1>0, <1>26, <2>1, <2>2, FreshTurns DEF Places, UpAt, DrainedAt, AskedAt, CancelledAt,
               OpenHandoff, RunActive, ActiveRun, Ended, CutTells, RunningAt, NoneRunsAt, Memory,
                 Running, Handoff, Idle, Awaits
<1>27. ASSUME NEW i \in Turn, NEW b \in Bot, NEW d \in Task, DecideHandoff(i, b, d)
      PROVE  Places'
  <2>1. \E m \in Turn : /\ turn[m] = NoTurn /\ m \notin Used
           /\ turn'[m].state = "queued" /\ turn'[m].run = "none" /\ turn'[m].handoff = "queued"
           /\ turn'[m].try = 1 /\ turn'[m].from = i /\ turn'[m].cut = FALSE
           /\ \A j \in Turn \ {m} : turn'[j] = turn[j]
    BY <1>27, Created DEF DecideHandoff
  <2>2. turn[i].state = "running"
    BY <1>27 DEF DecideHandoff, Awaits, Running
  <2> QED BY <1>0, <1>27, <2>1, <2>2, FreshTurns DEF Places, UpAt, DrainedAt, AskedAt, CancelledAt,
               OpenHandoff, RunActive, ActiveRun, Ended, CutTells, RunningAt, NoneRunsAt, Memory,
                 Running, DecideHandoff, Idle, Awaits
<1>28. ASSUME NEW targets \in SUBSET Bot, Send(targets)
      PROVE  Places'
  <2>1. PICK n \in 0..MaxTurns : \A j \in Turn : IF j \in 1..n
          THEN \E bb \in Bot : turn'[j] = Fresh(bb) ELSE turn'[j] = NoTurn
    BY <1>28, Prepared DEF Send
  <2>2. /\ at = "idle" /\ at' = "begin" /\ app = "up" /\ app' = "up" /\ mem' = mem
        /\ batch'.state = "queued"
    BY <1>28 DEF Send, PrepareRoomRun, Idle
  <2> QED BY <1>0, <2>1, <2>2, FreshTurns DEF Places, UpAt, DrainedAt, AskedAt, CancelledAt,
               OpenHandoff, RunActive, ActiveRun, Ended, CutTells, RunningAt, NoneRunsAt, Memory,
                 Running
<1>29. ASSUME NEW r \in Route, SelectOwner(r)
      PROVE  Places'
  <2>1. turn' = turn
    BY <1>29 DEF SelectOwner
  <2> QED BY <1>0, <1>29, <2>1 DEF Places, UpAt, DrainedAt, AskedAt, CancelledAt, OpenHandoff,
               RunActive, ActiveRun, Ended, CutTells, RunningAt, NoneRunsAt, Memory, Running,
                 SelectOwner, Idle, Awaits
<1>30. ASSUME NEW i \in Turn, RetryTurn(i)
      PROVE  Places'
  <2>1. Changes(i, "queued", "none", turn[i].handoff, turn[i].try + 1, turn[i].cut)
    BY <1>30, OneTurnSteps
  <2> QED BY <1>0, <1>30, <2>1 DEF Places, UpAt, DrainedAt, AskedAt, CancelledAt, OpenHandoff,
               RunActive, ActiveRun, Ended, CutTells, RunningAt, NoneRunsAt, Memory, Running,
                 RetryTurn, Idle, Resume, StartProcessing, Awaits, Changes, Is
<1>31. ASSUME NEW b \in Bot, AddMember(b)
      PROVE  Places'
  <2>1. turn' = turn
    BY <1>31 DEF AddMember
  <2> QED BY <1>0, <1>31, <2>1 DEF Places, UpAt, DrainedAt, AskedAt, CancelledAt, OpenHandoff,
               RunActive, ActiveRun, Ended, CutTells, RunningAt, NoneRunsAt, Memory, Running,
                 AddMember, Idle, Awaits
<1>32. ASSUME NEW b \in Bot, RemoveMember(b)
      PROVE  Places'
  <2>1. turn' = turn
    BY <1>32 DEF RemoveMember
  <2> QED BY <1>0, <1>32, <2>1 DEF Places, UpAt, DrainedAt, AskedAt, CancelledAt, OpenHandoff,
               RunActive, ActiveRun, Ended, CutTells, RunningAt, NoneRunsAt, Memory, Running,
                 RemoveMember, Idle, Awaits
<1>33. CASE Cancel
  <2>1. turn' = turn
    BY <1>33 DEF Cancel
  <2> QED BY <1>0, <1>33, <2>1 DEF Places, UpAt, DrainedAt, AskedAt, CancelledAt, OpenHandoff,
               RunActive, ActiveRun, Ended, CutTells, RunningAt, NoneRunsAt, Memory, Running,
                 Cancel, Idle, Awaits
<1>34. CASE Continue
  <2>1. \A j \in Turn : IF turn[j].state = "interrupted" /\ ~turn[j].cut
          THEN Now(j, "queued", turn[j].run, turn[j].handoff, turn[j].try + 1, turn[j].cut)
            ELSE turn'[j] = turn[j]
    BY <1>34, AllTurnSteps
  <2> QED BY <1>0, <1>34, <2>1 DEF Places, UpAt, DrainedAt, AskedAt, CancelledAt, OpenHandoff,
               RunActive, ActiveRun, Ended, CutTells, RunningAt, NoneRunsAt, Memory, Running,
                 Continue, Idle, Resume, StartProcessing, Awaits, Now, Is
<1>35. CASE ArchiveRoom
  <2>1. turn' = turn
    BY <1>35 DEF ArchiveRoom
  <2> QED BY <1>0, <1>35, <2>1 DEF Places, UpAt, DrainedAt, AskedAt, CancelledAt, OpenHandoff,
               RunActive, ActiveRun, Ended, CutTells, RunningAt, NoneRunsAt, Memory, Running,
                 ArchiveRoom, Idle, Awaits
<1>36. ASSUME NEW r \in Route, OwnerSelected(r)
      PROVE  Places'
  <2>1. PICK n \in 0..MaxTurns : \A j \in Turn : IF j \in 1..n
          THEN \E bb \in Bot : turn'[j] = Fresh(bb) ELSE turn'[j] = NoTurn
    <3>1. PICK bot \in Bot : PrepareRoomRun(routing[r], {bot})
      BY <1>36 DEF OwnerSelected
    <3> QED BY <3>1, Prepared
  <2>2. /\ at = "idle" /\ at' = "begin" /\ app = "up" /\ app' = "up" /\ mem' = mem
        /\ batch'.state = "queued"
    BY <1>36 DEF OwnerSelected, PrepareRoomRun, Idle
  <2> QED BY <1>0, <2>1, <2>2, FreshTurns DEF Places, UpAt, DrainedAt, AskedAt, CancelledAt,
               OpenHandoff, RunActive, ActiveRun, Ended, CutTells, RunningAt, NoneRunsAt, Memory,
                 Running
<1>37. ASSUME NEW r \in Route, RoutingFails(r)
      PROVE  Places'
  <2>1. turn' = turn
    BY <1>37 DEF RoutingFails
  <2> QED BY <1>0, <1>37, <2>1 DEF Places, UpAt, DrainedAt, AskedAt, CancelledAt, OpenHandoff,
               RunActive, ActiveRun, Ended, CutTells, RunningAt, NoneRunsAt, Memory, Running,
                 RoutingFails, Idle, Awaits
<1>38. CASE TimePasses
  <2>1. turn' = turn
    BY <1>38 DEF TimePasses
  <2> QED BY <1>0, <1>38, <2>1 DEF Places, UpAt, DrainedAt, AskedAt, CancelledAt, OpenHandoff,
               RunActive, ActiveRun, Ended, CutTells, RunningAt, NoneRunsAt, Memory, Running,
                 TimePasses, Idle, Awaits
<1>39. CASE DeadlineFires
  <2>1. turn' = turn
    BY <1>39 DEF DeadlineFires
  <2> QED BY <1>0, <1>39, <2>1 DEF Places, UpAt, DrainedAt, AskedAt, CancelledAt, OpenHandoff,
               RunActive, ActiveRun, Ended, CutTells, RunningAt, NoneRunsAt, Memory, Running,
                 DeadlineFires, Idle, Awaits
<1>40. CASE BeginShutdown
  <2>1. turn' = turn
    BY <1>40 DEF BeginShutdown
  <2> QED BY <1>0, <1>40, <2>1 DEF Places, UpAt, DrainedAt, AskedAt, CancelledAt, OpenHandoff,
               RunActive, ActiveRun, Ended, CutTells, RunningAt, NoneRunsAt, Memory, Running,
                 BeginShutdown, Idle, Awaits
<1>41. CASE ExecutorDrained
  <2>1. \A j \in Turn : IF RunActive(j) THEN Now(j, turn[j].state, IF turn[j].run = "cancelling"
          THEN "cancelled" ELSE "interrupted", turn[j].handoff, turn[j].try, turn[j].cut)
            ELSE turn'[j] = turn[j]
    BY <1>41, AllTurnSteps
  <2> QED BY <1>0, <1>41, <2>1 DEF Places, UpAt, DrainedAt, AskedAt, CancelledAt, OpenHandoff,
               RunActive, ActiveRun, Ended, CutTells, RunningAt, NoneRunsAt, Memory, Running,
                 ExecutorDrained, Idle, Awaits, Now, Is
<1>42. CASE Drained
  <2>1. \A j \in Turn : Now(j, AfterCut(j), RunAfterCut(j), IF turn[j].handoff \in {"queued",
          "dispatching"} THEN "cancelled" ELSE turn[j].handoff, turn[j].try, turn[j].cut)
    BY <1>42, AllRecovered DEF Drained, AfterCut, RunAfterCut
  <2> QED BY <1>0, <1>42, <2>1 DEF Places, UpAt, DrainedAt, AskedAt, CancelledAt, OpenHandoff,
               RunActive, ActiveRun, Ended, CutTells, RunningAt, NoneRunsAt, Memory, Running,
                 Drained, Idle, Down, Awaits, AfterCut, RunAfterCut, Active, Forgotten, Now, Is
<1>43. CASE Crash
  <2>1. turn' = turn
    BY <1>43 DEF Crash, Down
  <2> QED BY <1>0, <1>43, <2>1 DEF Places, UpAt, DrainedAt, AskedAt, CancelledAt, OpenHandoff,
               RunActive, ActiveRun, Ended, CutTells, RunningAt, NoneRunsAt, Memory, Running, Crash,
                 Idle, Down, Awaits, Forgotten
<1>44. CASE Restart
  <2>1. turn' = turn
    BY <1>44 DEF Restart
  <2> QED BY <1>0, <1>44, <2>1 DEF Places, UpAt, DrainedAt, AskedAt, CancelledAt, OpenHandoff,
               RunActive, ActiveRun, Ended, CutTells, RunningAt, NoneRunsAt, Memory, Running,
                 Restart, Idle, Awaits
<1> QED BY <1>1, <1>2, <1>3, <1>4, <1>5, <1>6, <1>7, <1>8, <1>9, <1>10, <1>11, <1>12, <1>13, <1>14,
             <1>15, <1>16, <1>17, <1>18, <1>19, <1>20, <1>21, <1>22, <1>23, <1>24, <1>25, <1>26,
               <1>27, <1>28, <1>29, <1>30, <1>31, <1>32, <1>33, <1>34, <1>35, <1>36, <1>37, <1>38,
                 <1>39, <1>40, <1>41, <1>42, <1>43, <1>44
  DEF Next, HandlerStep, RunStep, User, RouteAndSend

\* The handoff that is dispatched, and where the handler is then.
Dispatched == Dispatching /\ HandoffAt

\* What the loop takes next does not change where the turns keep their numbers, their state and
\* their attempts.
LEMMA NextKept ==
  ASSUME mem' = mem, turn' = turn
  PROVE  Frontier' = Frontier
BY FrontierKept DEF Queued

\* It is dispatched so after every step.
LEMMA DispatchedKept ==
  ASSUME Inv, Dispatching, HandoffAt, Places, HandoffsTell,
         [Next]_vars
  PROVE  Dispatched'
<1>0. /\ Places /\ Dispatching /\ HandoffAt /\ RunningAt /\ QueuedAt /\ HandoffsTell
      /\ mem \in Memory /\ mem.back \in {"idle", "end"} /\ at \in Place /\ Turn \subseteq Nat
  BY Bounds DEF Inv, TypeOK, Memory
<1>1. CASE UNCHANGED vars
  <2>1. Frontier' = Frontier
    BY <1>1, NextKept DEF vars
  <2> QED BY <1>0, <1>1, <2>1 DEF vars, Dispatched, Dispatching, DispatchingAt, HandoffAt, Cold,
               WaitingAt, Running
<1>2. CASE Begin
  <2>1. turn' = turn
    BY <1>2 DEF Begin, StartProcessing, TransitionRoomBatch
  <2> QED BY <1>0, <1>2, <2>1 DEF Dispatched, Dispatching, DispatchingAt, HandoffAt, Cold,
               WaitingAt, Running, Begin, Idle, StartProcessing, TransitionRoomBatch, Awaits,
                 Places, UpAt, DrainedAt, AskedAt, CancelledAt, RunActive, ActiveRun, RunningAt,
                   NoneRunsAt
<1>3. CASE LoopEnds
  <2>1. turn' = turn
    BY <1>3 DEF LoopEnds
  <2> QED BY <1>0, <1>3, <2>1 DEF Dispatched, Dispatching, DispatchingAt, HandoffAt, Cold,
               WaitingAt, Running, LoopEnds, Idle, Awaits, Places, UpAt, DrainedAt, AskedAt,
                 CancelledAt, RunActive, ActiveRun, RunningAt, NoneRunsAt
<1>4. CASE SettleTurn
  <2>1. \A j \in Turn : IF j \in Running THEN Now(j, turn[j].run, turn[j].run, turn[j].handoff,
          turn[j].try, turn[j].cut) ELSE turn'[j] = turn[j]
    BY <1>4, AllTurnSteps
  <2> QED BY <1>0, <1>4, <2>1 DEF Dispatched, Dispatching, DispatchingAt, HandoffAt, Cold,
               WaitingAt, Running, SettleTurn, Idle, Awaits, Places, UpAt, DrainedAt, AskedAt,
                 CancelledAt, RunActive, ActiveRun, RunningAt, NoneRunsAt, Now, Is
<1>5. CASE SettleHandoff
  <2>1. \A j \in Turn : IF turn[j].handoff = "dispatching"
          THEN Now(j, turn[j].state, turn[j].run, IF turn[j].run = "cancelled" THEN "cancelled"
            ELSE "failed", turn[j].try, turn[j].cut) ELSE turn'[j] = turn[j]
    BY <1>5, AllTurnSteps
  <2> QED BY <1>0, <1>5, <2>1 DEF Dispatched, Dispatching, DispatchingAt, HandoffAt, Cold,
               WaitingAt, Running, SettleHandoff, Idle, Awaits, Places, UpAt, DrainedAt, AskedAt,
                 CancelledAt, RunActive, ActiveRun, RunningAt, NoneRunsAt, Now, Is
<1>6. CASE EndProcess
  <2>1. turn' = turn \/ (app # "up" /\ RecoverInterruptedRooms)
    BY <1>6 DEF EndProcess
  <2>2. RecoverInterruptedRooms => \A j \in Turn : Now(j, AfterCut(j), RunAfterCut(j),
          IF turn[j].handoff \in {"queued", "dispatching"} THEN "cancelled"
            ELSE turn[j].handoff, turn[j].try, turn[j].cut)
    BY AllRecovered DEF AfterCut, RunAfterCut
  <2> QED BY <1>0, <1>6, <2>1, <2>2 DEF Dispatched, Dispatching, DispatchingAt, HandoffAt, Cold,
               WaitingAt, Running, EndProcess, Idle, Awaits, Places, UpAt, DrainedAt, AskedAt,
                 CancelledAt, RunActive, ActiveRun, RunningAt, NoneRunsAt, AfterCut, RunAfterCut,
                   Active, Now, Is
<1>7. CASE MarkWindingDown
  <2>1. turn' = turn
    BY <1>7 DEF MarkWindingDown
  <2> QED BY <1>0, <1>7, <2>1 DEF Dispatched, Dispatching, DispatchingAt, HandoffAt, Cold,
               WaitingAt, Running, MarkWindingDown, Idle, Awaits, Places, UpAt, DrainedAt, AskedAt,
                 CancelledAt, RunActive, ActiveRun, RunningAt, NoneRunsAt
<1>8. CASE CancelRun
  <2>1. \/ turn' = turn
        \/ (\E j \in Running : RunActive(j)) /\ \A j \in Turn : IF j \in Running
             THEN Now(j, turn[j].state, "cancelling", turn[j].handoff, turn[j].try, turn[j].cut)
               ELSE turn'[j] = turn[j]
    BY <1>8, AllTurnSteps
  <2> QED BY <1>0, <1>8, <2>1 DEF Dispatched, Dispatching, DispatchingAt, HandoffAt, Cold,
               WaitingAt, Running, CancelRun, Idle, Awaits, Places, UpAt, DrainedAt, AskedAt,
                 CancelledAt, RunActive, ActiveRun, RunningAt, NoneRunsAt, OpenHandoff, Now, Is
<1>9. CASE CancelBatch
  <2>1. turn' = turn
    BY <1>9 DEF CancelBatch, TransitionRoomBatch
  <2> QED BY <1>0, <1>9, <2>1 DEF Dispatched, Dispatching, DispatchingAt, HandoffAt, Cold,
               WaitingAt, Running, CancelBatch, Idle, TransitionRoomBatch, Awaits, Places, UpAt,
                 DrainedAt, AskedAt, CancelledAt, RunActive, ActiveRun, RunningAt, NoneRunsAt,
                   OpenHandoff
<1>10. CASE StopEnds
  <2>1. turn' = turn
    BY <1>10 DEF StopEnds
  <2> QED BY <1>0, <1>10, <2>1 DEF Dispatched, Dispatching, DispatchingAt, HandoffAt, Cold,
               WaitingAt, Running, StopEnds, Idle, Awaits, Places, UpAt, DrainedAt, AskedAt,
                 CancelledAt, RunActive, ActiveRun, RunningAt, NoneRunsAt, OpenHandoff
<1>11. CASE RecoverRooms
  <2>1. \A j \in Turn : Now(j, AfterCut(j), RunAfterCut(j), IF turn[j].handoff \in {"queued",
          "dispatching"} THEN "cancelled" ELSE turn[j].handoff, turn[j].try, turn[j].cut)
    BY <1>11, AllRecovered DEF RecoverRooms, AfterCut, RunAfterCut
  <2> QED BY <1>0, <1>11, <2>1 DEF Dispatched, Dispatching, DispatchingAt, HandoffAt, Cold,
               WaitingAt, Running, RecoverRooms, Idle, Awaits, Places, UpAt, DrainedAt, AskedAt,
                 CancelledAt, RunActive, ActiveRun, RunningAt, NoneRunsAt, AfterCut, RunAfterCut,
                   Active, Now, Is
<1>12. CASE RecoverRuns
  <2>1. \A j \in Turn : IF RunActive(j) THEN Now(j, turn[j].state, "interrupted", turn[j].handoff,
          turn[j].try, turn[j].cut) ELSE turn'[j] = turn[j]
    BY <1>12, AllTurnSteps
  <2> QED BY <1>0, <1>12, <2>1 DEF Dispatched, Dispatching, DispatchingAt, HandoffAt, Cold,
               WaitingAt, Running, RecoverRuns, Idle, Awaits, Places, UpAt, DrainedAt, AskedAt,
                 CancelledAt, RunActive, ActiveRun, RunningAt, NoneRunsAt, Now, Is
<1>13. ASSUME NEW i \in Turn, Refuse(i)
      PROVE  Dispatched'
  <2>1. turn' = turn
    BY <1>13 DEF Refuse
  <2> QED BY <1>0, <1>13, <2>1 DEF Dispatched, Dispatching, DispatchingAt, HandoffAt, Cold,
               WaitingAt, Running, Refuse, Idle, Awaits, Places, UpAt, DrainedAt, AskedAt,
                 CancelledAt, RunActive, ActiveRun, RunningAt, NoneRunsAt
<1>14. ASSUME NEW i \in Turn, DispatchHandoff(i)
      PROVE  Dispatched'
  <2>1. Changes(i, "queued", turn[i].run, "dispatching", turn[i].try, turn[i].cut)
    BY <1>14, OneTurnSteps
  <2>2. turn[i].state = "queued"
    BY <1>14, ActingTurn
  <2>3. Queued' = Queued
    BY <2>1, <2>2 DEF Changes, Is, Queued
  <2>4. \A k \in Turn : /\ turn'[k].from = turn[k].from /\ turn'[k].fromTry = turn[k].fromTry
                         /\ turn'[k].try = turn[k].try
    BY <2>1 DEF Changes, Is, SameShape
  <2>5. Frontier' = Frontier
    BY <1>14, <2>3, <2>4, FrontierKept DEF DispatchHandoff
  <2> QED BY <1>0, <1>14, <2>1, <2>5, <2>2 DEF Dispatched, Dispatching, DispatchingAt, HandoffAt,
               Cold, WaitingAt, Running, DispatchHandoff, Idle, Awaits, Places, UpAt, DrainedAt,
                 AskedAt, CancelledAt, RunActive, ActiveRun, RunningAt, NoneRunsAt, Changes, Is
<1>15. ASSUME NEW i \in Turn, BeginTurn(i)
      PROVE  Dispatched'
  <2>1. Changes(i, "running", turn[i].run, turn[i].handoff, turn[i].try, TRUE)
    BY <1>15, OneTurnSteps
  <2>2. turn[i].state = "queued"
    BY <1>15, ActingTurn
  <2> QED BY <1>0, <1>15, <2>1, <2>2 DEF Dispatched, Dispatching, DispatchingAt, HandoffAt, Cold,
               WaitingAt, Running, BeginTurn, Idle, Awaits, Places, UpAt, DrainedAt, AskedAt,
                 CancelledAt, RunActive, ActiveRun, RunningAt, NoneRunsAt, HandoffsTell, Changes, Is
<1>16. ASSUME NEW i \in Turn, Launch(i)
      PROVE  Dispatched'
  <2>1. \/ Changes(i, "failed", turn[i].run, turn[i].handoff, turn[i].try,
             turn[i].cut) /\ at' = "settleHandoff"
        \/ turn' = turn /\ at' = "attach"
    BY <1>16, Launched
  <2>2. turn[i].state = "running"
    BY <1>16, ActingTurn
  <2> QED BY <1>0, <1>16, <2>1, <2>2 DEF Dispatched, Dispatching, DispatchingAt, HandoffAt, Cold,
               WaitingAt, Running, Launch, Idle, Awaits, Places, UpAt, DrainedAt, AskedAt,
                 CancelledAt, RunActive, ActiveRun, RunningAt, NoneRunsAt, Changes, Is
<1>17. ASSUME NEW i \in Turn, Attach(i)
      PROVE  Dispatched'
  <2>1. Changes(i, turn[i].state, "created", turn[i].handoff, turn[i].try, turn[i].cut)
    BY <1>17, OneTurnSteps
  <2>2. turn[i].state = "running"
    BY <1>17, ActingTurn
  <2> QED BY <1>0, <1>17, <2>1, <2>2 DEF Dispatched, Dispatching, DispatchingAt, HandoffAt, Cold,
               WaitingAt, Running, Attach, Idle, Awaits, Places, UpAt, DrainedAt, AskedAt,
                 CancelledAt, RunActive, ActiveRun, RunningAt, NoneRunsAt, Changes, Is
<1>18. ASSUME NEW i \in Turn, AcceptHandoff(i)
      PROVE  Dispatched'
  <2>1. Changes(i, turn[i].state, turn[i].run, "accepted", turn[i].try, turn[i].cut)
    BY <1>18, OneTurnSteps
  <2> QED BY <1>0, <1>18, <2>1 DEF Dispatched, Dispatching, DispatchingAt, HandoffAt, Cold,
               WaitingAt, Running, AcceptHandoff, Idle, Awaits, Places, UpAt, DrainedAt, AskedAt,
                 CancelledAt, RunActive, ActiveRun, RunningAt, NoneRunsAt, Changes, Is
<1>19. ASSUME NEW i \in Turn, CancelHandoff(i)
      PROVE  Dispatched'
  <2>1. Changes(i, turn[i].state, turn[i].run, "cancelled", turn[i].try, turn[i].cut)
    BY <1>19, OneTurnSteps
  <2> QED BY <1>0, <1>19, <2>1 DEF Dispatched, Dispatching, DispatchingAt, HandoffAt, Cold,
               WaitingAt, Running, CancelHandoff, Idle, Awaits, Places, UpAt, DrainedAt, AskedAt,
                 CancelledAt, RunActive, ActiveRun, RunningAt, NoneRunsAt, OpenHandoff, Changes, Is
<1>20. ASSUME NEW i \in Turn, CancelQueued(i)
      PROVE  Dispatched'
  <2>1. Changes(i, "cancelled", turn[i].run, turn[i].handoff, turn[i].try, turn[i].cut)
    BY <1>20, OneTurnSteps
  <2>2. turn[i].state = "queued"
    BY <1>20, ActingTurn
  <2> QED BY <1>0, <1>20, <2>1, <2>2 DEF Dispatched, Dispatching, DispatchingAt, HandoffAt, Cold,
               WaitingAt, Running, CancelQueued, Idle, Awaits, Places, UpAt, DrainedAt, AskedAt,
                 CancelledAt, RunActive, ActiveRun, RunningAt, NoneRunsAt, OpenHandoff, Changes, Is
<1>21. ASSUME NEW i \in Turn, ProviderStarts(i)
      PROVE  Dispatched'
  <2>1. Changes(i, turn[i].state, "started", turn[i].handoff, turn[i].try, turn[i].cut)
    BY <1>21, OneTurnSteps
  <2>2. turn[i].state = "running"
    BY <1>21, ActingTurn
  <2> QED BY <1>0, <1>21, <2>1, <2>2 DEF Dispatched, Dispatching, DispatchingAt, HandoffAt, Cold,
               WaitingAt, Running, ProviderStarts, Idle, Awaits, Places, UpAt, DrainedAt, AskedAt,
                 CancelledAt, RunActive, ActiveRun, RunningAt, NoneRunsAt, Changes, Is
<1>22. ASSUME NEW i \in Turn, AskContinuation(i)
      PROVE  Dispatched'
  <2>1. turn' = turn
    BY <1>22 DEF AskContinuation, Awaits
  <2> QED BY <1>0, <1>22, <2>1 DEF Dispatched, Dispatching, DispatchingAt, HandoffAt, Cold,
               WaitingAt, Running, AskContinuation, Idle, Awaits, Places, UpAt, DrainedAt, AskedAt,
                 CancelledAt, RunActive, ActiveRun, RunningAt, NoneRunsAt
<1>23. ASSUME NEW i \in Turn, Complete(i)
      PROVE  Dispatched'
  <2>1. PICK r \in {"completed", "cancelled"} : Changes(i, turn[i].state, r, turn[i].handoff,
          turn[i].try, turn[i].cut)
    BY <1>23, OneTurnSteps
  <2>2. turn[i].state = "running"
    BY <1>23, ActingTurn
  <2> QED BY <1>0, <1>23, <2>1, <2>2 DEF Dispatched, Dispatching, DispatchingAt, HandoffAt, Cold,
               WaitingAt, Running, Complete, Idle, Awaits, Places, UpAt, DrainedAt, AskedAt,
                 CancelledAt, RunActive, ActiveRun, RunningAt, NoneRunsAt, Changes, Is
<1>24. ASSUME NEW i \in Turn, Fail(i)
      PROVE  Dispatched'
  <2>1. PICK r \in {"failed", "cancelled", "interrupted"} : Changes(i, turn[i].state, r,
          turn[i].handoff, turn[i].try, turn[i].cut)
    BY <1>24, OneTurnSteps
  <2>2. turn[i].state = "running"
    BY <1>24, ActingTurn
  <2> QED BY <1>0, <1>24, <2>1, <2>2 DEF Dispatched, Dispatching, DispatchingAt, HandoffAt, Cold,
               WaitingAt, Running, Fail, Idle, Awaits, Places, UpAt, DrainedAt, AskedAt,
                 CancelledAt, RunActive, ActiveRun, RunningAt, NoneRunsAt, Changes, Is
<1>25. ASSUME NEW i \in Turn, AnswerLate(i)
      PROVE  Dispatched'
  <2>1. turn' = turn
    BY <1>25 DEF AnswerLate, Awaits
  <2> QED BY <1>0, <1>25, <2>1 DEF Dispatched, Dispatching, DispatchingAt, HandoffAt, Cold,
               WaitingAt, Running, AnswerLate, Idle, Awaits, Places, UpAt, DrainedAt, AskedAt,
                 CancelledAt, RunActive, ActiveRun, RunningAt, NoneRunsAt
<1>26. ASSUME NEW i \in Turn, NEW b \in Bot, NEW d \in Task, Handoff(i, b, d)
      PROVE  Dispatched'
  <2>1. \/ turn' = turn
        \/ \E m \in Turn : /\ turn[m] = NoTurn /\ m \notin Used
           /\ turn'[m].state = "queued" /\ turn'[m].run = "none" /\ turn'[m].handoff = "queued"
           /\ turn'[m].try = 1 /\ turn'[m].from = i /\ turn'[m].cut = FALSE
           /\ \A j \in Turn \ {m} : turn'[j] = turn[j]
    BY <1>26, Created DEF Handoff
  <2>2. turn[i].state = "running"
    BY <1>26 DEF Handoff, Awaits, Running
  <2> QED BY <1>0, <1>26, <2>1, <2>2, FreshTurns DEF Dispatched, Dispatching, DispatchingAt,
               HandoffAt, Cold, WaitingAt, Running, Handoff, Idle, Awaits, Places, UpAt, DrainedAt,
                 AskedAt, CancelledAt, RunActive, ActiveRun, RunningAt, NoneRunsAt
<1>27. ASSUME NEW i \in Turn, NEW b \in Bot, NEW d \in Task, DecideHandoff(i, b, d)
      PROVE  Dispatched'
  <2>1. \E m \in Turn : /\ turn[m] = NoTurn /\ m \notin Used
           /\ turn'[m].state = "queued" /\ turn'[m].run = "none" /\ turn'[m].handoff = "queued"
           /\ turn'[m].try = 1 /\ turn'[m].from = i /\ turn'[m].cut = FALSE
           /\ \A j \in Turn \ {m} : turn'[j] = turn[j]
    BY <1>27, Created DEF DecideHandoff
  <2>2. turn[i].state = "running"
    BY <1>27 DEF DecideHandoff, Awaits, Running
  <2> QED BY <1>0, <1>27, <2>1, <2>2, FreshTurns DEF Dispatched, Dispatching, DispatchingAt,
               HandoffAt, Cold, WaitingAt, Running, DecideHandoff, Idle, Awaits, Places, UpAt,
                 DrainedAt, AskedAt, CancelledAt, RunActive, ActiveRun, RunningAt, NoneRunsAt
<1>28. ASSUME NEW targets \in SUBSET Bot, Send(targets)
      PROVE  Dispatched'
  <2>1. PICK n \in 0..MaxTurns : \A j \in Turn : IF j \in 1..n
          THEN \E bb \in Bot : turn'[j] = Fresh(bb) ELSE turn'[j] = NoTurn
    BY <1>28, Prepared DEF Send
  <2>2. /\ at = "idle" /\ at' = "begin" /\ app = "up" /\ app' = "up" /\ mem' = mem
        /\ batch'.state = "queued"
    BY <1>28 DEF Send, PrepareRoomRun, Idle
  <2> QED BY <1>0, <2>1, <2>2, FreshTurns DEF Dispatched, Dispatching, DispatchingAt, HandoffAt,
               Cold, WaitingAt, Running
<1>29. ASSUME NEW r \in Route, SelectOwner(r)
      PROVE  Dispatched'
  <2>1. turn' = turn
    BY <1>29 DEF SelectOwner
  <2> QED BY <1>0, <1>29, <2>1 DEF Dispatched, Dispatching, DispatchingAt, HandoffAt, Cold,
               WaitingAt, Running, SelectOwner, Idle, Awaits, Places, UpAt, DrainedAt, AskedAt,
                 CancelledAt, RunActive, ActiveRun, RunningAt, NoneRunsAt
<1>30. ASSUME NEW i \in Turn, RetryTurn(i)
      PROVE  Dispatched'
  <2>1. Changes(i, "queued", "none", turn[i].handoff, turn[i].try + 1, turn[i].cut)
    BY <1>30, OneTurnSteps
  <2>2. at = "idle" /\ app = "up" /\ ~Busy
    BY <1>30 DEF RetryTurn, MayResume, Idle
  <2>3. \A j \in Turn : turn[j].handoff # "dispatching"
    BY <1>0, <2>2 DEF Busy, RunActive, ActiveRun, Dispatching, DispatchingAt, Cold, WaitingAt
  <2>4. at' = "pick"
    BY <1>30 DEF RetryTurn, Resume, StartProcessing
  <2> QED BY <1>0, <1>30, <2>1, <2>3, <2>4 DEF Dispatched, Dispatching, HandoffAt, Changes, Is, Now
<1>31. ASSUME NEW b \in Bot, AddMember(b)
      PROVE  Dispatched'
  <2>1. turn' = turn
    BY <1>31 DEF AddMember
  <2> QED BY <1>0, <1>31, <2>1 DEF Dispatched, Dispatching, DispatchingAt, HandoffAt, Cold,
               WaitingAt, Running, AddMember, Idle, Awaits, Places, UpAt, DrainedAt, AskedAt,
                 CancelledAt, RunActive, ActiveRun, RunningAt, NoneRunsAt
<1>32. ASSUME NEW b \in Bot, RemoveMember(b)
      PROVE  Dispatched'
  <2>1. turn' = turn
    BY <1>32 DEF RemoveMember
  <2> QED BY <1>0, <1>32, <2>1 DEF Dispatched, Dispatching, DispatchingAt, HandoffAt, Cold,
               WaitingAt, Running, RemoveMember, Idle, Awaits, Places, UpAt, DrainedAt, AskedAt,
                 CancelledAt, RunActive, ActiveRun, RunningAt, NoneRunsAt
<1>33. CASE Cancel
  <2>1. turn' = turn
    BY <1>33 DEF Cancel
  <2> QED BY <1>0, <1>33, <2>1 DEF Dispatched, Dispatching, DispatchingAt, HandoffAt, Cold,
               WaitingAt, Running, Cancel, Idle, Awaits, Places, UpAt, DrainedAt, AskedAt,
                 CancelledAt, RunActive, ActiveRun, RunningAt, NoneRunsAt
<1>34. CASE Continue
  <2>1. \A j \in Turn : IF turn[j].state = "interrupted" /\ ~turn[j].cut
          THEN Now(j, "queued", turn[j].run, turn[j].handoff, turn[j].try + 1, turn[j].cut)
            ELSE turn'[j] = turn[j]
    BY <1>34, AllTurnSteps
  <2>2. at = "idle" /\ app = "up" /\ ~Busy
    BY <1>34 DEF Continue, MayResume, Idle
  <2>3. \A j \in Turn : turn[j].handoff # "dispatching"
    BY <1>0, <2>2 DEF Busy, RunActive, ActiveRun, Dispatching, DispatchingAt, Cold, WaitingAt
  <2>4. at' = "pick"
    BY <1>34 DEF Continue, Resume, StartProcessing
  <2> QED BY <1>0, <1>34, <2>1, <2>3, <2>4 DEF Dispatched, Dispatching, HandoffAt, Changes, Is, Now
<1>35. CASE ArchiveRoom
  <2>1. turn' = turn
    BY <1>35 DEF ArchiveRoom
  <2> QED BY <1>0, <1>35, <2>1 DEF Dispatched, Dispatching, DispatchingAt, HandoffAt, Cold,
               WaitingAt, Running, ArchiveRoom, Idle, Awaits, Places, UpAt, DrainedAt, AskedAt,
                 CancelledAt, RunActive, ActiveRun, RunningAt, NoneRunsAt
<1>36. ASSUME NEW r \in Route, OwnerSelected(r)
      PROVE  Dispatched'
  <2>1. PICK n \in 0..MaxTurns : \A j \in Turn : IF j \in 1..n
          THEN \E bb \in Bot : turn'[j] = Fresh(bb) ELSE turn'[j] = NoTurn
    <3>1. PICK bot \in Bot : PrepareRoomRun(routing[r], {bot})
      BY <1>36 DEF OwnerSelected
    <3> QED BY <3>1, Prepared
  <2>2. /\ at = "idle" /\ at' = "begin" /\ app = "up" /\ app' = "up" /\ mem' = mem
        /\ batch'.state = "queued"
    BY <1>36 DEF OwnerSelected, PrepareRoomRun, Idle
  <2> QED BY <1>0, <2>1, <2>2, FreshTurns DEF Dispatched, Dispatching, DispatchingAt, HandoffAt,
               Cold, WaitingAt, Running
<1>37. ASSUME NEW r \in Route, RoutingFails(r)
      PROVE  Dispatched'
  <2>1. turn' = turn
    BY <1>37 DEF RoutingFails
  <2> QED BY <1>0, <1>37, <2>1 DEF Dispatched, Dispatching, DispatchingAt, HandoffAt, Cold,
               WaitingAt, Running, RoutingFails, Idle, Awaits, Places, UpAt, DrainedAt, AskedAt,
                 CancelledAt, RunActive, ActiveRun, RunningAt, NoneRunsAt
<1>38. CASE TimePasses
  <2>1. turn' = turn
    BY <1>38 DEF TimePasses
  <2>2. Frontier' = Frontier
    BY <1>38, <2>1, NextKept DEF TimePasses
  <2> QED BY <1>0, <1>38, <2>1, <2>2 DEF Dispatched, Dispatching, DispatchingAt, HandoffAt, Cold,
               WaitingAt, Running, TimePasses, Idle, Awaits, Places, UpAt, DrainedAt, AskedAt,
                 CancelledAt, RunActive, ActiveRun, RunningAt, NoneRunsAt
<1>39. CASE DeadlineFires
  <2>1. turn' = turn
    BY <1>39 DEF DeadlineFires
  <2> QED BY <1>0, <1>39, <2>1 DEF Dispatched, Dispatching, DispatchingAt, HandoffAt, Cold,
               WaitingAt, Running, DeadlineFires, Idle, Awaits, Places, UpAt, DrainedAt, AskedAt,
                 CancelledAt, RunActive, ActiveRun, RunningAt, NoneRunsAt
<1>40. CASE BeginShutdown
  <2>1. turn' = turn
    BY <1>40 DEF BeginShutdown
  <2> QED BY <1>0, <1>40, <2>1 DEF Dispatched, Dispatching, DispatchingAt, HandoffAt, Cold,
               WaitingAt, Running, BeginShutdown, Idle, Awaits, Places, UpAt, DrainedAt, AskedAt,
                 CancelledAt, RunActive, ActiveRun, RunningAt, NoneRunsAt
<1>41. CASE ExecutorDrained
  <2>1. \A j \in Turn : IF RunActive(j) THEN Now(j, turn[j].state, IF turn[j].run = "cancelling"
          THEN "cancelled" ELSE "interrupted", turn[j].handoff, turn[j].try, turn[j].cut)
            ELSE turn'[j] = turn[j]
    BY <1>41, AllTurnSteps
  <2> QED BY <1>0, <1>41, <2>1 DEF Dispatched, Dispatching, DispatchingAt, HandoffAt, Cold,
               WaitingAt, Running, ExecutorDrained, Idle, Awaits, Places, UpAt, DrainedAt, AskedAt,
                 CancelledAt, RunActive, ActiveRun, RunningAt, NoneRunsAt, Now, Is
<1>42. CASE Drained
  <2>1. \A j \in Turn : Now(j, AfterCut(j), RunAfterCut(j), IF turn[j].handoff \in {"queued",
          "dispatching"} THEN "cancelled" ELSE turn[j].handoff, turn[j].try, turn[j].cut)
    BY <1>42, AllRecovered DEF Drained, AfterCut, RunAfterCut
  <2> QED BY <1>0, <1>42, <2>1 DEF Dispatched, Dispatching, DispatchingAt, HandoffAt, Cold,
               WaitingAt, Running, Drained, Idle, Down, Awaits, Places, UpAt, DrainedAt, AskedAt,
                 CancelledAt, RunActive, ActiveRun, RunningAt, NoneRunsAt, AfterCut, RunAfterCut,
                   Active, Now, Is
<1>43. CASE Crash
  <2>1. turn' = turn
    BY <1>43 DEF Crash, Down
  <2> QED BY <1>0, <1>43, <2>1 DEF Dispatched, Dispatching, DispatchingAt, HandoffAt, Cold,
               WaitingAt, Running, Crash, Idle, Down, Awaits, Places, UpAt, DrainedAt, AskedAt,
                 CancelledAt, RunActive, ActiveRun, RunningAt, NoneRunsAt
<1>44. CASE Restart
  <2>1. turn' = turn
    BY <1>44 DEF Restart
  <2> QED BY <1>0, <1>44, <2>1 DEF Dispatched, Dispatching, DispatchingAt, HandoffAt, Cold,
               WaitingAt, Running, Restart, Idle, Awaits, Places, UpAt, DrainedAt, AskedAt,
                 CancelledAt, RunActive, ActiveRun, RunningAt, NoneRunsAt
<1> QED BY <1>1, <1>2, <1>3, <1>4, <1>5, <1>6, <1>7, <1>8, <1>9, <1>10, <1>11, <1>12, <1>13, <1>14,
             <1>15, <1>16, <1>17, <1>18, <1>19, <1>20, <1>21, <1>22, <1>23, <1>24, <1>25, <1>26,
               <1>27, <1>28, <1>29, <1>30, <1>31, <1>32, <1>33, <1>34, <1>35, <1>36, <1>37, <1>38,
                 <1>39, <1>40, <1>41, <1>42, <1>43, <1>44
  DEF Next, HandlerStep, RunStep, User, RouteAndSend

\* Batch, turns, handoffs and runs tell one story, also between the commits of a handler.
Outcomes == SettledTell /\ BatchSumsUp /\ HandoffsTell /\ Dispatched /\ Places

\* They begin so.
LEMMA OutcomesInit ==
  ASSUME Init
  PROVE  Outcomes
<1>1. \A i \in Turn : turn[i] = NoTurn
  BY DEF Init
<1>2. /\ batch.state = "none" /\ mem.phase = "read" /\ at = "idle" /\ app = "up"
      /\ \A i \in Turn :
           turn[i].state = "none" /\ turn[i].run = "none" /\ turn[i].handoff = "none"
  BY <1>1, FreshTurns DEF Init, Forgotten
<1>3. SettledTell /\ BatchSumsUp /\ HandoffsTell
  BY <1>2 DEF SettledTell, BatchSumsUp, HandoffsTell, Ended
<1>4. Dispatched /\ Places
  BY <1>2 DEF Dispatched, Dispatching, HandoffAt, Places, UpAt, DrainedAt, AskedAt, CancelledAt,
              RunActive, ActiveRun
<1> QED BY <1>3, <1>4 DEF Outcomes

\* Every step keeps the story.
LEMMA OutcomesKept ==
  ASSUME Inv, Outcomes, [Next]_vars
  PROVE  Outcomes'
<1>1. SettledTell' /\ Places' /\ Dispatched' /\ HandoffsTell'
  BY SettledKept, PlacesKept, DispatchedKept, HandoffsKept DEF Outcomes, Places, Dispatched
<1> QED BY <1>1, SumsKept DEF Outcomes

\* While the application waits, the story is the one that a reader of the rows expects.
LEMMA OutcomesTold ==
  ASSUME Inv, Outcomes
  PROVE  OutcomesAgree
<1>1. TurnsSumUp
  BY DEF Outcomes, SettledTell, BatchSumsUp, Recovering, Cold, TurnsSumUp, QuietUp, Settled, Used
<1>2. HandoffTellsDelivery
  <2> SUFFICES ASSUME NEW i \in Used
      PROVE  /\ turn[i].handoff = "accepted" => turn[i].cut
             /\ QuietUp /\ turn[i].handoff = "queued" => turn[i].state = "queued" /\ turn[i].try = 1
             /\ QuietUp /\ turn[i].handoff = "dispatching" => turn[i].run = "created"
             /\ turn[i].handoff \in {"queued", "dispatching"} => turn[i].try = 1
    BY DEF HandoffTellsDelivery
  <2>1. i \in Turn
    BY DEF Used
  <2>2. QuietUp /\ turn[i].handoff = "dispatching" => turn[i].run = "created"
    BY <2>1 DEF Outcomes, Dispatched, Dispatching, DispatchingAt, Cold, WaitingAt, QuietUp
  <2> QED BY <2>1, <2>2 DEF Outcomes, HandoffsTell
<1> QED BY <1>1, <1>2 DEF OutcomesAgree

----------------------------------------------------------------------------
(***************************************************************************)
(* The turns a loop is for.                                                *)
(***************************************************************************)

\* The function that InFrontier follows, for any turns and any attempts a loop was started for.
BelowOf(turns, only) ==
  LET below[k \in (0..MaxTurns + 1) \X (0..Retries + 1)] ==
        /\ k[1] # None
        /\ k \in only \/ below[<<turns[k[1]].from, turns[k[1]].fromTry>>]
  IN below

Attempt == Number \X (0..Retries + 1)
HandedOn(turns) ==
  /\ Chained(turns)
  /\ \A k \in Turn : turns[k].fromTry \in 0..(Retries + 1)

\* An attempt is one that the loop was started for, or the attempt that handed it over is below
\* one: the recursive function exists, as the turns before a turn form a chain.
LEMMA BelowSteps ==
  ASSUME NEW turns, NEW only, HandedOn(turns), NEW k \in Attempt
  PROVE  /\ BelowOf(turns, only)[k] <=>
               /\ k[1] # None
               /\ k \in only \/ BelowOf(turns, only)[<<turns[k[1]].from, turns[k[1]].fromTry>>]
         /\ BelowOf(turns, only)[k] \in BOOLEAN
<1> DEFINE A == [n \in Number |-> IF n = None THEN {} ELSE {<<turns[n].from, turns[n].fromTry>>}]
           p == [n \in Number |-> n # None]
           r == [n \in Number |-> turns[n].from]
           B(f) == [l \in Attempt |->
                      /\ l[1] # None
                      /\ l \in only \/ f[<<turns[l[1]].from, turns[l[1]].fromTry>>]]
<1>1. \A n \in Number : n # None => n \in Turn
  BY Bounds DEF Number, Turn, None
<1>2. {None} \cup Turn \subseteq Number
  BY Bounds DEF Number, Turn, None
<1>3. Descends(p, r)
  BY <1>1, <1>2 DEF HandedOn, Chained, Descends
<1>4. \A l \in Attempt : l[1] # None =>
        /\ <<turns[l[1]].from, turns[l[1]].fromTry>> \in Attempt
        /\ turns[l[1]].from \in Number /\ l[1] \in Number
  BY <1>1, <1>2 DEF HandedOn, Chained, Attempt
<1>5. PICK c : c = [n \in Number |-> A[n] \cup (IF p[n] THEN c[r[n]] ELSE {})]
  <2> HIDE DEF A, p, r
  <2>1. HasChain(A, p, r)
    BY <1>3, ChainFunction
  <2> QED BY <2>1, Zenon DEF HasChain
<1>6. \A n \in Number : c[n] = IF n = None THEN {}
                               ELSE {<<turns[n].from, turns[n].fromTry>>} \cup c[turns[n].from]
  <2> SUFFICES ASSUME NEW n \in Number
               PROVE  c[n] = IF n = None THEN {}
                             ELSE {<<turns[n].from, turns[n].fromTry>>} \cup c[turns[n].from]
    OBVIOUS
  <2>1. c[n] = A[n] \cup (IF p[n] THEN c[r[n]] ELSE {})
    <3> HIDE DEF A, p, r
    <3> QED BY <1>5
  <2> QED BY <2>1
<1> DEFINE g == [l \in Attempt |-> /\ l[1] # None
                                   /\ l \in only \/ \E q \in c[l[1]] : q[1] # None /\ q \in only]
<1>7. g = B(g)
  <2>1. ASSUME NEW l \in Attempt, l[1] # None
        PROVE  (l \in only \/ \E q \in c[l[1]] : q[1] # None /\ q \in only)
                 <=> (l \in only \/ g[<<turns[l[1]].from, turns[l[1]].fromTry>>])
    <3> DEFINE h == <<turns[l[1]].from, turns[l[1]].fromTry>>
    <3>1. h \in Attempt /\ h[1] = turns[l[1]].from /\ h[1] \in Number
      BY <1>4, <2>1
    <3>2. c[l[1]] = {h} \cup c[h[1]]
      BY <1>4, <1>6, <2>1, <3>1
    <3>3. h[1] = None => c[h[1]] = {}
      BY <1>6, <3>1
    <3>4. g[h] = (/\ h[1] # None /\ (h \in only \/ \E q \in c[h[1]] : q[1] # None /\ q \in only))
      BY <3>1
    <3> HIDE DEF g, h
    <3>5. (\E q \in c[l[1]] : q[1] # None /\ q \in only) <=> g[h]
      BY <3>2, <3>3, <3>4
    <3> QED BY <3>5 DEF h
  <2> QED BY <2>1
<1>8. BelowOf(turns, only) = (CHOOSE f : f = B(f))
  BY Zenon DEF BelowOf, Attempt, Number
<1>9. BelowOf(turns, only) = B(BelowOf(turns, only))
  <2> HIDE DEF B, g
  <2> QED BY <1>7, <1>8
<1> DEFINE b == BelowOf(turns, only)
<1>10. b[k] = (/\ k[1] # None
               /\ k \in only \/ b[<<turns[k[1]].from, turns[k[1]].fromTry>>])
  <2> HIDE DEF b
  <2> QED BY <1>9 DEF b
<1>11. b[k] \in BOOLEAN
  <2> HIDE DEF b
  <2> QED BY <1>10
<1> QED BY <1>10, <1>11

\* Function b tells which attempts are below one of these.
Tells(b, turns, only) ==
  \A k \in Attempt :
    /\ b[k] <=> k[1] # None /\ (k \in only \/ b[<<turns[k[1]].from, turns[k[1]].fromTry>>])
    /\ b[k] \in BOOLEAN

\* It exists for turns that tell who handed them on.
LEMMA BelowTells ==
  ASSUME NEW turns, NEW only, HandedOn(turns)
  PROVE  Tells(BelowOf(turns, only), turns, only)
<1> SUFFICES ASSUME NEW k \in Attempt
    PROVE  /\ BelowOf(turns, only)[k] <=>
                k[1] # None /\ (k \in only \/ BelowOf(turns, only)[<<turns[k[1]].from,
                  turns[k[1]].fromTry>>])
           /\ BelowOf(turns, only)[k] \in BOOLEAN
  BY DEF Tells
<1> QED BY BelowSteps

\* What is below an attempt depends on the turns before only.
LEMMA BelowAgree ==
  ASSUME NEW turns, NEW others, NEW only, HandedOn(turns), HandedOn(others), NEW n \in Number,
         \A k \in Turn : k <= n => /\ turns[k].from = others[k].from
                                   /\ turns[k].fromTry = others[k].fromTry,
         NEW one, NEW two, Tells(one, turns, only), Tells(two, others, only)
  PROVE  \A k \in Attempt : k[1] <= n => one[k] = two[k]
<1> DEFINE Same(m) == \A y \in 0..(Retries + 1) : one[<<m, y>>] = two[<<m, y>>]
           S == {m \in Number : m <= n => Same(m)}
<1>2. ASSUME NEW k \in Attempt
      PROVE  /\ one[k] <=> k[1] # None /\ (k \in only \/ one[<<turns[k[1]].from,
                  turns[k[1]].fromTry>>])
             /\ one[k] \in BOOLEAN
  BY DEF Tells
<1>3. ASSUME NEW k \in Attempt
      PROVE  /\ two[k] <=> k[1] # None /\ (k \in only \/ two[<<others[k[1]].from,
                  others[k[1]].fromTry>>])
             /\ two[k] \in BOOLEAN
  BY DEF Tells
<1>4. \A m \in Number : m # None =>
        /\ m \in Turn /\ turns[m].from \in Number /\ turns[m].from < m
        /\ turns[m].fromTry \in 0..(Retries + 1)
  BY Bounds DEF HandedOn, Chained, Number, Turn, None
<1>5. Number \subseteq Nat
  BY Bounds DEF Number
<1>6. ASSUME NEW m \in Number, \A l \in Number : l < m => l \in S
      PROVE  m \in S
  <2> SUFFICES ASSUME m <= n, NEW y \in 0..(Retries + 1)
               PROVE  one[<<m, y>>] = two[<<m, y>>]
    OBVIOUS
  <2>1. <<m, y>> \in Attempt /\ <<m, y>>[1] = m
    BY DEF Attempt
  <2>2. /\ one[<<m, y>>] <=>
             m # None /\ (<<m, y>> \in only \/ one[<<turns[m].from, turns[m].fromTry>>])
        /\ one[<<m, y>>] \in BOOLEAN
    BY <1>2, <2>1
  <2>3. /\ two[<<m, y>>] <=>
             m # None /\ (<<m, y>> \in only \/ two[<<others[m].from, others[m].fromTry>>])
        /\ two[<<m, y>>] \in BOOLEAN
    BY <1>3, <2>1
  <2>4. m # None => /\ turns[m].from = others[m].from /\ turns[m].fromTry = others[m].fromTry
                    /\ one[<<turns[m].from, turns[m].fromTry>>] = two[<<turns[m].from,
                         turns[m].fromTry>>]
    <3> SUFFICES ASSUME m # None
                 PROVE  /\ turns[m].from = others[m].from /\ turns[m].fromTry = others[m].fromTry
                        /\ one[<<turns[m].from, turns[m].fromTry>>] = two[<<turns[m].from,
                             turns[m].fromTry>>]
      OBVIOUS
    <3>1. /\ m \in Turn /\ turns[m].from \in Number /\ turns[m].from < m
          /\ turns[m].fromTry \in 0..(Retries + 1)
      BY <1>4
    <3>2. turns[m].from <= n
      <4>1. turns[m].from \in Nat /\ m \in Nat /\ n \in Nat
        BY <1>5, <3>1
      <4> QED BY <3>1, <4>1
    <3>3. Same(turns[m].from)
      BY <1>6, <3>1, <3>2
    <3> QED BY <3>1, <3>3
  <2>5. CASE m = None
    BY <2>2, <2>3, <2>5
  <2>6. CASE m # None
    BY <2>2, <2>3, <2>4, <2>6
  <2> QED BY <2>5, <2>6
<1>7. S = Number
  <2>1. S \in SUBSET Number
    OBVIOUS
  <2> HIDE DEF S
  <2> QED BY <1>6, <2>1, NumberInduction
<1>8. ASSUME NEW k \in Attempt, k[1] <= n
      PROVE  one[k] = two[k]
  <2>1. k = <<k[1], k[2]>> /\ k[1] \in Number /\ k[2] \in 0..(Retries + 1)
    BY DEF Attempt
  <2>2. Same(k[1])
    BY <1>7, <1>8, <2>1
  <2> QED BY <2>1, <2>2
<1> QED BY <1>8

\* What the model says of the loop's turns, in these terms.
LEMMA Fronts ==
  ASSUME NEW i \in Turn
  PROVE  /\ InFrontier(i) = BelowOf(turn, mem.only)[<<i, turn[i].try>>]
         /\ InFrontier(i)' = BelowOf(turn', mem'.only)[<<i, turn'[i].try>>]
<1>1. InFrontier(i) = BelowOf(turn, mem.only)[<<i, turn[i].try>>]
  BY Zenon DEF InFrontier, BelowOf
<1>2. InFrontier(i)' = BelowOf(turn', mem'.only)[<<i, turn'[i].try>>]
  BY Zenon DEF InFrontier, BelowOf
<1> QED BY <1>1, <1>2

\* Before and after every step a turn tells the attempt that handed it over.
LEMMA TurnsHandedOn ==
  ASSUME Inv, [Next]_vars
  PROVE  /\ HandedOn(turn) /\ HandedOn(turn')
         /\ \A i \in Turn : <<i, turn[i].try>> \in Attempt /\ <<i, turn'[i].try>> \in Attempt
<1>1. turn \in [Turn -> TurnRecord] /\ turn' \in [Turn -> TurnRecord]
  BY TurnsTyped DEF Inv, TypeOK
<1>2. \A i \in Turn : turn[i] \in TurnRecord /\ turn'[i] \in TurnRecord
  BY <1>1
<1>3. \A i \in Turn : /\ turn[i].fromTry \in {None} \cup Try /\ turn'[i].fromTry \in {None} \cup Try
                      /\ turn[i].try \in {None} \cup Try /\ turn'[i].try \in {None} \cup Try
  BY <1>2, TurnParts
<1>4. {None} \cup Try \subseteq 0..(Retries + 1) /\ Turn \subseteq Number
  BY Bounds DEF None, Try, Number, Turn
<1> QED BY <1>3, <1>4, TurnsChained DEF HandedOn, Attempt

\* A turn stays one of the loop's while the turns before it keep where they come from.
LEMMA FrontStays ==
  ASSUME Inv, [Next]_vars, NEW i \in Turn, InFrontier(i), mem'.only = mem.only,
         turn'[i].try = turn[i].try,
         \A k \in Turn : k <= i =>
           turn'[k].from = turn[k].from /\ turn'[k].fromTry = turn[k].fromTry
  PROVE  InFrontier(i)'
<1> DEFINE k == <<i, turn[i].try>>
<1>1. HandedOn(turn) /\ HandedOn(turn') /\ k \in Attempt /\ i \in Number
  BY TurnsHandedOn, Bounds DEF Number, Turn
<1>2. k[1] <= i
  BY <1>1, Bounds DEF Number
<1>3. BelowOf(turn', mem.only)[k] = BelowOf(turn, mem.only)[k]
  <2> HIDE DEF k
  <2> QED BY <1>1, <1>2, BelowTells, BelowAgree
<1> QED BY <1>3, Fronts

\* A turn that the loop is started for is one of its turns.
LEMMA FrontBegins ==
  ASSUME Inv, [Next]_vars, NEW i \in Turn, <<i, turn'[i].try>> \in mem'.only
  PROVE  InFrontier(i)'
<1> DEFINE k == <<i, turn'[i].try>>
<1>1. HandedOn(turn') /\ k \in Attempt /\ k[1] # None /\ k \in mem'.only
  BY TurnsHandedOn, Bounds
<1>2. BelowOf(turn', mem'.only)[k]
  <2> HIDE DEF k
  <2> QED BY <1>1, BelowSteps
<1> QED BY <1>2, Fronts

\* A new turn remembers the attempt that handed it over.
LEMMA CreatedFrom ==
  ASSUME Inv, NEW i \in Turn, NEW b \in Bot, NEW d \in Task, CreateHandoff(i, b, d)
  PROVE  turn'[Cardinality(Used) + 1].fromTry = turn[i].try
<1> DEFINE m == Cardinality(Used) + 1
           u == [Fresh(b) EXCEPT !.from = i, !.fromTry = turn[i].try, !.hop = turn[i].hop + 1,
                                 !.task = d, !.handoff = "queued"]
<1>1. m \in Turn /\ turn \in [Turn -> TurnRecord]
  BY Created DEF Inv, TypeOK
<1>2. turn' = [turn EXCEPT ![m] = u]
  BY DEF CreateHandoff
<1>3. u.fromTry = turn[i].try
  <2>1. DOMAIN Fresh(b) = DOMAIN NoTurn
    BY DEF Fresh
  <2>2. {"from", "fromTry", "hop", "task", "handoff"} \subseteq DOMAIN Fresh(b)
    BY <2>1 DEF NoTurn
  <2> QED BY <2>2
<1> HIDE DEF u, m
<1>4. turn'[m] = u
  BY <1>1, <1>2
<1> QED BY <1>3, <1>4 DEF m

\* A turn that one of the loop's turns hands on is one of them too.
LEMMA FrontHands ==
  ASSUME Inv, [Next]_vars, NEW i \in Turn, NEW b \in Bot, NEW d \in Task, CreateHandoff(i, b, d),
         InFrontier(i), mem'.only = mem.only, turn[i].state = "running",
         NEW m \in Turn, m = Cardinality(Used) + 1
  PROVE  InFrontier(m)'
<1> DEFINE k == <<m, turn'[m].try>>
           h == <<i, turn[i].try>>
<1>1. /\ m \notin Used /\ turn'[m].from = i /\ turn'[m].fromTry = turn[i].try
      /\ \A j \in Turn \ {m} : turn'[j] = turn[j]
  BY Created, CreatedFrom
<1>2. Numbered
  BY DEF Inv
<1>3. i \in Used /\ i < m
  <2>1. i \in Used
    BY DEF Used
  <2>2. Used = 1..Cardinality(Used) /\ Cardinality(Used) \in Nat
    BY <1>2, UsedNumbers
  <2> QED BY <2>1, <2>2
<1>4. InFrontier(i)'
  <2>1. \A j \in Turn : j <= i => turn'[j] = turn[j]
    BY <1>1, <1>3, Bounds
  <2> QED BY <2>1, FrontStays, Bounds
<1>5. turn'[i] = turn[i]
  BY <1>1, <1>3, Bounds
<1>6. HandedOn(turn') /\ k \in Attempt /\ k[1] = m /\ m # None
  BY <1>1, TurnsHandedOn, Bounds
<1>7. BelowOf(turn', mem'.only)[h]
  BY <1>4, <1>5, Fronts
<1>8. BelowOf(turn', mem'.only)[k]
  <2>1. <<turn'[k[1]].from, turn'[k[1]].fromTry>> = h
    BY <1>1, <1>6
  <2> HIDE DEF k, h
  <2> QED BY <1>6, <1>7, <2>1, BelowSteps
<1> QED BY <1>1, <1>8, Fronts

----------------------------------------------------------------------------
(***************************************************************************)
(* The loop, its batch, its timer and its turns.                           *)
(***************************************************************************)

\* A batch waits to begin with all its turns, and is in flight as long as it runs; a loop has
\* ended when it has no turn left.
LoopTells ==
  /\ batch.state = "queued" => at = "begin" \/ Cold
  /\ at = "begin" => /\ batch.state = "queued" /\ ~mem.inFlight
                     /\ \A i \in Used : turn[i].state = "queued" /\ turn[i].try = 1
  /\ batch.state = "running" \/ Running # {} => mem.inFlight \/ Cold
  /\ at = "dispatch" => mem.inFlight
  /\ Recovering => ~mem.inFlight
  /\ at = "end" /\ app = "up" /\ batch.state = "running" => Queued = {}

\* Where a loop awaits the run of its turn, or another handler came in between.
RunsAt == {"launch", "attach", "idle", "cancel", "cancelQueued", "accept", "complete", "reject",
  "settle"}

\* The loop always awaits a turn, no run goes on without one, and a running batch has its timer
\* or its stop.
LoopFeeds ==
  /\ mem.inFlight /\ (at \in RunsAt \/ (at = "stop" /\ mem.back = "idle")) => Running # {}
  /\ \A i \in Turn : RunActive(i) => turn[i].state = "running" \/ Recovering
  /\ batch.state = "running" /\ app = "up" =>
       mem.armed \/ batch.winding \/ at \in {"stop", "rooms"}

\* The loop reaches every turn that waits or works.
LoopReaches ==
  mem.inFlight => \A i \in Turn : turn[i].state \in Active => InFrontier(i)

\* When a loop of a live application has ended, so have all turns of its batch.
LEMMA AllEnded ==
  ASSUME Inv, LoopTells, at = "end", app = "up", batch.state = "running"
  PROVE  AllIn(Ended)
<1>1. Queued = {}
  BY DEF LoopTells
<1>2. Running = {}
  BY DEF Inv, RunningAt, NoneRunsAt
<1>3. \A i \in Turn : turn[i].state \in {"none"} \cup Active \cup Ended
  BY DEF Inv, TypeOK, TurnRecord
<1> QED BY <1>1, <1>2, <1>3 DEF AllIn, Used, Queued, Running, Active

\* No loop is in flight when the Room is free.
LEMMA NoLoopWhenFree ==
  ASSUME Inv, LoopFeeds, at = "idle", app = "up", ~Busy
  PROVE  ~mem.inFlight /\ \A j \in Turn : turn[j].state \notin Active
<1>1. \A j \in Turn : turn[j].state \notin Active
  BY RestsWhenIdle DEF Inv
<1> QED BY <1>1 DEF LoopFeeds, RunsAt, Running, Active

\* Every step keeps the batch and its loop together.
LEMMA LoopToldSo ==
  ASSUME Inv, LoopTells, LoopFeeds, LoopReaches, UpAt,
         [Next]_vars
  PROVE  LoopTells'
<1>0. /\ LoopTells /\ LoopFeeds /\ LoopReaches /\ RunningAt /\ QueuedAt /\ UpAt /\ CutTells
      /\ mem \in Memory /\ mem.back \in {"idle", "end"} /\ at \in Place
      /\ app \in {"up", "closing", "draining", "down"}
      /\ batch \in [state : {"none"} \cup Active \cup BatchEnded, winding : BOOLEAN, version : Nat]
      /\ \A j \in Turn : /\ turn[j].state \in {"none"} \cup Active \cup Ended
                         /\ turn[j].run \in {"none"} \cup ActiveRun \cup Ended
  BY DEF Inv, TypeOK, Memory, TurnRecord
<1>1. CASE UNCHANGED vars
  BY <1>0, <1>1 DEF vars, LoopTells, Cold, Recovering, Running, Queued, Used, Active, Ended,
       BatchEnded, Memory, RunningAt, NoneRunsAt, UpAt, Place, Forgotten
<1>2. CASE Begin
  <2>1. turn' = turn
    BY <1>2 DEF Begin, StartProcessing, TransitionRoomBatch
  <2> QED BY <1>0, <1>2, <2>1 DEF LoopTells, Cold, Recovering, Running, Queued, Used, Active, Ended,
               BatchEnded, Memory, RunningAt, NoneRunsAt, UpAt, Place, Forgotten, Begin, Idle,
                 StartProcessing, TransitionRoomBatch
<1>3. CASE LoopEnds
  <2>1. turn' = turn
    BY <1>3 DEF LoopEnds
  <2>2. mem.inFlight /\ batch.state = "running" => Queued \subseteq Frontier
    BY <1>0 DEF LoopReaches, Frontier, Queued, Active
  <2> QED BY <1>0, <1>3, <2>1, <2>2 DEF LoopTells, Cold, Recovering, Running, Queued, Used, Active,
               Ended, BatchEnded, Memory, RunningAt, NoneRunsAt, UpAt, Place, Forgotten, LoopEnds,
                 Idle, LoopGoesOn
<1>4. CASE SettleTurn
  <2>1. \A j \in Turn : IF j \in Running THEN Now(j, turn[j].run, turn[j].run, turn[j].handoff,
          turn[j].try, turn[j].cut) ELSE turn'[j] = turn[j]
    BY <1>4, AllTurnSteps
  <2> QED BY <1>0, <1>4, <2>1 DEF LoopTells, Cold, Recovering, Running, Queued, Used, Active, Ended,
               BatchEnded, Memory, RunningAt, NoneRunsAt, UpAt, Place, Forgotten, SettleTurn, Idle,
                 Now, Is
<1>5. CASE SettleHandoff
  <2>1. \A j \in Turn : IF turn[j].handoff = "dispatching"
          THEN Now(j, turn[j].state, turn[j].run, IF turn[j].run = "cancelled" THEN "cancelled"
            ELSE "failed", turn[j].try, turn[j].cut) ELSE turn'[j] = turn[j]
    BY <1>5, AllTurnSteps
  <2> QED BY <1>0, <1>5, <2>1 DEF LoopTells, Cold, Recovering, Running, Queued, Used, Active, Ended,
               BatchEnded, Memory, RunningAt, NoneRunsAt, UpAt, Place, Forgotten, SettleHandoff,
                 Idle, Now, Is
<1>6. CASE EndProcess
  <2>1. turn' = turn \/ (app # "up" /\ RecoverInterruptedRooms)
    BY <1>6 DEF EndProcess
  <2>2. RecoverInterruptedRooms => \A j \in Turn : Now(j, AfterCut(j), RunAfterCut(j),
          IF turn[j].handoff \in {"queued", "dispatching"} THEN "cancelled"
            ELSE turn[j].handoff, turn[j].try, turn[j].cut)
    BY AllRecovered DEF AfterCut, RunAfterCut
  <2>3. at = "end" /\ (app # "up" \/ batch.state # "running" \/ AllIn(Ended))
    BY <1>0, <1>6, AllEnded DEF EndProcess, AllIn
  <2>4. RecoverInterruptedRooms => batch'.state \notin Active /\ Queued' = {}
    BY BatchRecovered
  <2> QED BY <1>0, <1>6, <2>1, <2>3, <2>4, <2>2 DEF LoopTells, Cold, Recovering, Running, Queued,
               Used, Active, Ended, BatchEnded, Memory, RunningAt, NoneRunsAt, UpAt, Place,
                 Forgotten, EndProcess, Idle, Finished, AfterCut, Now, Is
<1>7. CASE MarkWindingDown
  <2>1. turn' = turn
    BY <1>7 DEF MarkWindingDown
  <2> QED BY <1>0, <1>7, <2>1 DEF LoopTells, Cold, Recovering, Running, Queued, Used, Active, Ended,
               BatchEnded, Memory, RunningAt, NoneRunsAt, UpAt, Place, Forgotten, MarkWindingDown,
                 Idle
<1>8. CASE CancelRun
  <2>1. \/ turn' = turn
        \/ (\E j \in Running : RunActive(j)) /\ \A j \in Turn : IF j \in Running
             THEN Now(j, turn[j].state, "cancelling", turn[j].handoff, turn[j].try, turn[j].cut)
               ELSE turn'[j] = turn[j]
    BY <1>8, AllTurnSteps
  <2> QED BY <1>0, <1>8, <2>1 DEF LoopTells, Cold, Recovering, Running, Queued, Used, Active, Ended,
               BatchEnded, Memory, RunningAt, NoneRunsAt, UpAt, Place, Forgotten, CancelRun, Idle,
                 Now, Is
<1>9. CASE CancelBatch
  <2>1. turn' = turn
    BY <1>9 DEF CancelBatch, TransitionRoomBatch
  <2> QED BY <1>0, <1>9, <2>1 DEF LoopTells, Cold, Recovering, Running, Queued, Used, Active, Ended,
               BatchEnded, Memory, RunningAt, NoneRunsAt, UpAt, Place, Forgotten, CancelBatch, Idle,
                 TransitionRoomBatch
<1>10. CASE StopEnds
  <2>1. turn' = turn
    BY <1>10 DEF StopEnds
  <2> QED BY <1>0, <1>10, <2>1 DEF LoopTells, Cold, Recovering, Running, Queued, Used, Active,
               Ended, BatchEnded, Memory, RunningAt, NoneRunsAt, UpAt, Place, Forgotten, StopEnds,
                 Idle, Finished
<1>11. CASE RecoverRooms
  <2>1. \A j \in Turn : Now(j, AfterCut(j), RunAfterCut(j), IF turn[j].handoff \in {"queued",
          "dispatching"} THEN "cancelled" ELSE turn[j].handoff, turn[j].try, turn[j].cut)
    BY <1>11, AllRecovered DEF RecoverRooms, AfterCut, RunAfterCut
  <2>2. batch'.state \notin Active /\ Queued' = {} /\ Running' = {}
    BY <1>11, BatchRecovered, NoneRecovered DEF RecoverRooms
  <2> QED BY <1>0, <1>11, <2>1, <2>2 DEF LoopTells, Cold, Recovering, Running, Queued, Used, Active,
               Ended, BatchEnded, Memory, RunningAt, NoneRunsAt, UpAt, Place, Forgotten,
                 RecoverRooms, Idle, AfterCut, Now, Is
<1>12. CASE RecoverRuns
  <2>1. \A j \in Turn : IF RunActive(j) THEN Now(j, turn[j].state, "interrupted", turn[j].handoff,
          turn[j].try, turn[j].cut) ELSE turn'[j] = turn[j]
    BY <1>12, AllTurnSteps
  <2> QED BY <1>0, <1>12, <2>1 DEF LoopTells, Cold, Recovering, Running, Queued, Used, Active,
               Ended, BatchEnded, Memory, RunningAt, NoneRunsAt, UpAt, Place, Forgotten,
                 RecoverRuns, Idle, Now, Is
<1>13. ASSUME NEW i \in Turn, Refuse(i)
      PROVE  LoopTells'
  <2>1. turn' = turn
    BY <1>13 DEF Refuse
  <2> QED BY <1>0, <1>13, <2>1 DEF LoopTells, Cold, Recovering, Running, Queued, Used, Active,
               Ended, BatchEnded, Memory, RunningAt, NoneRunsAt, UpAt, Place, Forgotten, Refuse,
                 Idle
<1>14. ASSUME NEW i \in Turn, DispatchHandoff(i)
      PROVE  LoopTells'
  <2>1. Changes(i, "queued", turn[i].run, "dispatching", turn[i].try, turn[i].cut)
    BY <1>14, OneTurnSteps
  <2>2. turn[i].state = "queued"
    BY <1>14, ActingTurn
  <2> QED BY <1>0, <1>14, <2>1, <2>2 DEF LoopTells, Cold, Recovering, Running, Queued, Used, Active,
               Ended, BatchEnded, Memory, RunningAt, NoneRunsAt, UpAt, Place, Forgotten,
                 DispatchHandoff, Idle, LoopGoesOn, Changes, Is
<1>15. ASSUME NEW i \in Turn, BeginTurn(i)
      PROVE  LoopTells'
  <2>1. Changes(i, "running", turn[i].run, turn[i].handoff, turn[i].try, TRUE)
    BY <1>15, OneTurnSteps
  <2>2. turn[i].state = "queued"
    BY <1>15, ActingTurn
  <2> QED BY <1>0, <1>15, <2>1, <2>2 DEF LoopTells, Cold, Recovering, Running, Queued, Used, Active,
               Ended, BatchEnded, Memory, RunningAt, NoneRunsAt, UpAt, Place, Forgotten, BeginTurn,
                 Idle, LoopGoesOn, Changes, Is
<1>16. ASSUME NEW i \in Turn, Launch(i)
      PROVE  LoopTells'
  <2>1. \/ Changes(i, "failed", turn[i].run, turn[i].handoff, turn[i].try,
             turn[i].cut) /\ at' = "settleHandoff"
        \/ turn' = turn /\ at' = "attach"
    BY <1>16, Launched
  <2>2. turn[i].state = "running"
    BY <1>16, ActingTurn
  <2> QED BY <1>0, <1>16, <2>1, <2>2 DEF LoopTells, Cold, Recovering, Running, Queued, Used, Active,
               Ended, BatchEnded, Memory, RunningAt, NoneRunsAt, UpAt, Place, Forgotten, Launch,
                 Idle, Changes, Is
<1>17. ASSUME NEW i \in Turn, Attach(i)
      PROVE  LoopTells'
  <2>1. Changes(i, turn[i].state, "created", turn[i].handoff, turn[i].try, turn[i].cut)
    BY <1>17, OneTurnSteps
  <2>2. turn[i].state = "running"
    BY <1>17, ActingTurn
  <2> QED BY <1>0, <1>17, <2>1, <2>2 DEF LoopTells, Cold, Recovering, Running, Queued, Used, Active,
               Ended, BatchEnded, Memory, RunningAt, NoneRunsAt, UpAt, Place, Forgotten, Attach,
                 Idle, Changes, Is
<1>18. ASSUME NEW i \in Turn, AcceptHandoff(i)
      PROVE  LoopTells'
  <2>1. Changes(i, turn[i].state, turn[i].run, "accepted", turn[i].try, turn[i].cut)
    BY <1>18, OneTurnSteps
  <2> QED BY <1>0, <1>18, <2>1 DEF LoopTells, Cold, Recovering, Running, Queued, Used, Active,
               Ended, BatchEnded, Memory, RunningAt, NoneRunsAt, UpAt, Place, Forgotten,
                 AcceptHandoff, Idle, Changes, Is
<1>19. ASSUME NEW i \in Turn, CancelHandoff(i)
      PROVE  LoopTells'
  <2>1. Changes(i, turn[i].state, turn[i].run, "cancelled", turn[i].try, turn[i].cut)
    BY <1>19, OneTurnSteps
  <2> QED BY <1>0, <1>19, <2>1 DEF LoopTells, Cold, Recovering, Running, Queued, Used, Active,
               Ended, BatchEnded, Memory, RunningAt, NoneRunsAt, UpAt, Place, Forgotten,
                 CancelHandoff, Idle, Changes, Is
<1>20. ASSUME NEW i \in Turn, CancelQueued(i)
      PROVE  LoopTells'
  <2>1. Changes(i, "cancelled", turn[i].run, turn[i].handoff, turn[i].try, turn[i].cut)
    BY <1>20, OneTurnSteps
  <2>2. turn[i].state = "queued"
    BY <1>20, ActingTurn
  <2> QED BY <1>0, <1>20, <2>1, <2>2 DEF LoopTells, Cold, Recovering, Running, Queued, Used, Active,
               Ended, BatchEnded, Memory, RunningAt, NoneRunsAt, UpAt, Place, Forgotten,
                 CancelQueued, Idle, Changes, Is
<1>21. ASSUME NEW i \in Turn, ProviderStarts(i)
      PROVE  LoopTells'
  <2>1. Changes(i, turn[i].state, "started", turn[i].handoff, turn[i].try, turn[i].cut)
    BY <1>21, OneTurnSteps
  <2>2. turn[i].state = "running"
    BY <1>21, ActingTurn
  <2> QED BY <1>0, <1>21, <2>1, <2>2 DEF LoopTells, Cold, Recovering, Running, Queued, Used, Active,
               Ended, BatchEnded, Memory, RunningAt, NoneRunsAt, UpAt, Place, Forgotten,
                 ProviderStarts, Idle, Awaits, Changes, Is
<1>22. ASSUME NEW i \in Turn, AskContinuation(i)
      PROVE  LoopTells'
  <2>1. turn' = turn
    BY <1>22 DEF AskContinuation, Awaits
  <2> QED BY <1>0, <1>22, <2>1 DEF LoopTells, Cold, Recovering, Running, Queued, Used, Active,
               Ended, BatchEnded, Memory, RunningAt, NoneRunsAt, UpAt, Place, Forgotten,
                 AskContinuation, Idle, Awaits
<1>23. ASSUME NEW i \in Turn, Complete(i)
      PROVE  LoopTells'
  <2>1. PICK r \in {"completed", "cancelled"} : Changes(i, turn[i].state, r, turn[i].handoff,
          turn[i].try, turn[i].cut)
    BY <1>23, OneTurnSteps
  <2>2. turn[i].state = "running"
    BY <1>23, ActingTurn
  <2> QED BY <1>0, <1>23, <2>1, <2>2 DEF LoopTells, Cold, Recovering, Running, Queued, Used, Active,
               Ended, BatchEnded, Memory, RunningAt, NoneRunsAt, UpAt, Place, Forgotten, Complete,
                 Idle, Awaits, Changes, Is
<1>24. ASSUME NEW i \in Turn, Fail(i)
      PROVE  LoopTells'
  <2>1. PICK r \in {"failed", "cancelled", "interrupted"} : Changes(i, turn[i].state, r,
          turn[i].handoff, turn[i].try, turn[i].cut)
    BY <1>24, OneTurnSteps
  <2>2. turn[i].state = "running"
    BY <1>24, ActingTurn
  <2> QED BY <1>0, <1>24, <2>1, <2>2 DEF LoopTells, Cold, Recovering, Running, Queued, Used, Active,
               Ended, BatchEnded, Memory, RunningAt, NoneRunsAt, UpAt, Place, Forgotten, Fail, Idle,
                 Awaits, Changes, Is
<1>25. ASSUME NEW i \in Turn, AnswerLate(i)
      PROVE  LoopTells'
  <2>1. turn' = turn
    BY <1>25 DEF AnswerLate, Awaits
  <2> QED BY <1>0, <1>25, <2>1 DEF LoopTells, Cold, Recovering, Running, Queued, Used, Active,
               Ended, BatchEnded, Memory, RunningAt, NoneRunsAt, UpAt, Place, Forgotten, AnswerLate,
                 Idle, Awaits
<1>26. ASSUME NEW i \in Turn, NEW b \in Bot, NEW d \in Task, Handoff(i, b, d)
      PROVE  LoopTells'
  <2>1. \/ turn' = turn
        \/ \E m \in Turn : /\ turn[m] = NoTurn /\ m \notin Used
           /\ turn'[m].state = "queued" /\ turn'[m].run = "none" /\ turn'[m].handoff = "queued"
           /\ turn'[m].try = 1 /\ turn'[m].from = i /\ turn'[m].cut = FALSE
           /\ \A j \in Turn \ {m} : turn'[j] = turn[j]
    BY <1>26, Created DEF Handoff
  <2>2. turn[i].state = "running"
    BY <1>26 DEF Handoff, Awaits, Running
  <2> QED BY <1>0, <1>26, <2>1, <2>2, FreshTurns DEF LoopTells, Cold, Recovering, Running, Queued,
               Used, Active, Ended, BatchEnded, Memory, RunningAt, NoneRunsAt, UpAt, Place,
                 Forgotten, Handoff, Idle, Awaits
<1>27. ASSUME NEW i \in Turn, NEW b \in Bot, NEW d \in Task, DecideHandoff(i, b, d)
      PROVE  LoopTells'
  <2>1. \E m \in Turn : /\ turn[m] = NoTurn /\ m \notin Used
           /\ turn'[m].state = "queued" /\ turn'[m].run = "none" /\ turn'[m].handoff = "queued"
           /\ turn'[m].try = 1 /\ turn'[m].from = i /\ turn'[m].cut = FALSE
           /\ \A j \in Turn \ {m} : turn'[j] = turn[j]
    BY <1>27, Created DEF DecideHandoff
  <2>2. turn[i].state = "running"
    BY <1>27 DEF DecideHandoff, Awaits, Running
  <2> QED BY <1>0, <1>27, <2>1, <2>2, FreshTurns DEF LoopTells, Cold, Recovering, Running, Queued,
               Used, Active, Ended, BatchEnded, Memory, RunningAt, NoneRunsAt, UpAt, Place,
                 Forgotten, DecideHandoff, Idle, Awaits
<1>28. ASSUME NEW targets \in SUBSET Bot, Send(targets)
      PROVE  LoopTells'
  <2>1. PICK n \in 0..MaxTurns : \A j \in Turn : IF j \in 1..n
          THEN \E bb \in Bot : turn'[j] = Fresh(bb) ELSE turn'[j] = NoTurn
    BY <1>28, Prepared DEF Send
  <2>2. /\ at = "idle" /\ at' = "begin" /\ app = "up" /\ app' = "up" /\ mem' = mem
        /\ batch'.state = "queued"
    BY <1>28 DEF Send, PrepareRoomRun, Idle
  <2>3. ~mem.inFlight
    BY <1>0, <1>28, <2>2, NoLoopWhenFree DEF Send, PrepareRoomRun, CanPrepare
  <2> QED BY <1>0, <2>1, <2>3, <2>2, FreshTurns DEF LoopTells, Cold, Recovering, Running, Queued,
               Used, Active, Ended, BatchEnded, Memory, RunningAt, NoneRunsAt, UpAt, Place,
                 Forgotten
<1>29. ASSUME NEW r \in Route, SelectOwner(r)
      PROVE  LoopTells'
  <2>1. turn' = turn
    BY <1>29 DEF SelectOwner
  <2> QED BY <1>0, <1>29, <2>1 DEF LoopTells, Cold, Recovering, Running, Queued, Used, Active,
               Ended, BatchEnded, Memory, RunningAt, NoneRunsAt, UpAt, Place, Forgotten,
                 SelectOwner, Idle
<1>30. ASSUME NEW i \in Turn, RetryTurn(i)
      PROVE  LoopTells'
  <2>1. Changes(i, "queued", "none", turn[i].handoff, turn[i].try + 1, turn[i].cut)
    BY <1>30, OneTurnSteps
  <2>2. \A j \in Turn : turn[j].state \notin Active
    BY <1>0, <1>30, NoLoopWhenFree DEF RetryTurn, MayResume, Idle
  <2> QED BY <1>0, <1>30, <2>1, <2>2 DEF LoopTells, Cold, Recovering, Running, Queued, Used, Active,
               Ended, BatchEnded, Memory, RunningAt, NoneRunsAt, UpAt, Place, Forgotten, RetryTurn,
                 Idle, Resume, StartProcessing, Changes, Is
<1>31. ASSUME NEW b \in Bot, AddMember(b)
      PROVE  LoopTells'
  <2>1. turn' = turn
    BY <1>31 DEF AddMember
  <2> QED BY <1>0, <1>31, <2>1 DEF LoopTells, Cold, Recovering, Running, Queued, Used, Active,
               Ended, BatchEnded, Memory, RunningAt, NoneRunsAt, UpAt, Place, Forgotten, AddMember,
                 Idle
<1>32. ASSUME NEW b \in Bot, RemoveMember(b)
      PROVE  LoopTells'
  <2>1. turn' = turn
    BY <1>32 DEF RemoveMember
  <2> QED BY <1>0, <1>32, <2>1 DEF LoopTells, Cold, Recovering, Running, Queued, Used, Active,
               Ended, BatchEnded, Memory, RunningAt, NoneRunsAt, UpAt, Place, Forgotten,
                 RemoveMember, Idle
<1>33. CASE Cancel
  <2>1. turn' = turn
    BY <1>33 DEF Cancel
  <2> QED BY <1>0, <1>33, <2>1 DEF LoopTells, Cold, Recovering, Running, Queued, Used, Active,
               Ended, BatchEnded, Memory, RunningAt, NoneRunsAt, UpAt, Place, Forgotten, Cancel,
                 Idle
<1>34. CASE Continue
  <2>1. \A j \in Turn : IF turn[j].state = "interrupted" /\ ~turn[j].cut
          THEN Now(j, "queued", turn[j].run, turn[j].handoff, turn[j].try + 1, turn[j].cut)
            ELSE turn'[j] = turn[j]
    BY <1>34, AllTurnSteps
  <2>2. \A j \in Turn : turn[j].state \notin Active
    BY <1>0, <1>34, NoLoopWhenFree DEF Continue, MayResume, Idle
  <2> QED BY <1>0, <1>34, <2>1, <2>2 DEF LoopTells, Cold, Recovering, Running, Queued, Used, Active,
               Ended, BatchEnded, Memory, RunningAt, NoneRunsAt, UpAt, Place, Forgotten, Continue,
                 Idle, Resume, StartProcessing, Now, Is
<1>35. CASE ArchiveRoom
  <2>1. turn' = turn
    BY <1>35 DEF ArchiveRoom
  <2> QED BY <1>0, <1>35, <2>1 DEF LoopTells, Cold, Recovering, Running, Queued, Used, Active,
               Ended, BatchEnded, Memory, RunningAt, NoneRunsAt, UpAt, Place, Forgotten,
                 ArchiveRoom, Idle
<1>36. ASSUME NEW r \in Route, OwnerSelected(r)
      PROVE  LoopTells'
  <2>1. PICK n \in 0..MaxTurns : \A j \in Turn : IF j \in 1..n
          THEN \E bb \in Bot : turn'[j] = Fresh(bb) ELSE turn'[j] = NoTurn
    <3>1. PICK bot \in Bot : PrepareRoomRun(routing[r], {bot})
      BY <1>36 DEF OwnerSelected
    <3> QED BY <3>1, Prepared
  <2>2. /\ at = "idle" /\ at' = "begin" /\ app = "up" /\ app' = "up" /\ mem' = mem
        /\ batch'.state = "queued"
    BY <1>36 DEF OwnerSelected, PrepareRoomRun, Idle
  <2>3. ~mem.inFlight
    BY <1>0, <1>36, <2>2, NoLoopWhenFree DEF OwnerSelected, PrepareRoomRun, CanPrepare
  <2> QED BY <1>0, <2>1, <2>3, <2>2, FreshTurns DEF LoopTells, Cold, Recovering, Running, Queued,
               Used, Active, Ended, BatchEnded, Memory, RunningAt, NoneRunsAt, UpAt, Place,
                 Forgotten
<1>37. ASSUME NEW r \in Route, RoutingFails(r)
      PROVE  LoopTells'
  <2>1. turn' = turn
    BY <1>37 DEF RoutingFails
  <2> QED BY <1>0, <1>37, <2>1 DEF LoopTells, Cold, Recovering, Running, Queued, Used, Active,
               Ended, BatchEnded, Memory, RunningAt, NoneRunsAt, UpAt, Place, Forgotten,
                 RoutingFails, Idle
<1>38. CASE TimePasses
  <2>1. turn' = turn
    BY <1>38 DEF TimePasses
  <2> QED BY <1>0, <1>38, <2>1 DEF LoopTells, Cold, Recovering, Running, Queued, Used, Active,
               Ended, BatchEnded, Memory, RunningAt, NoneRunsAt, UpAt, Place, Forgotten, TimePasses,
                 Idle
<1>39. CASE DeadlineFires
  <2>1. turn' = turn
    BY <1>39 DEF DeadlineFires
  <2> QED BY <1>0, <1>39, <2>1 DEF LoopTells, Cold, Recovering, Running, Queued, Used, Active,
               Ended, BatchEnded, Memory, RunningAt, NoneRunsAt, UpAt, Place, Forgotten,
                 DeadlineFires, Idle
<1>40. CASE BeginShutdown
  <2>1. turn' = turn
    BY <1>40 DEF BeginShutdown
  <2> QED BY <1>0, <1>40, <2>1 DEF LoopTells, Cold, Recovering, Running, Queued, Used, Active,
               Ended, BatchEnded, Memory, RunningAt, NoneRunsAt, UpAt, Place, Forgotten,
                 BeginShutdown, Idle
<1>41. CASE ExecutorDrained
  <2>1. \A j \in Turn : IF RunActive(j) THEN Now(j, turn[j].state, IF turn[j].run = "cancelling"
          THEN "cancelled" ELSE "interrupted", turn[j].handoff, turn[j].try, turn[j].cut)
            ELSE turn'[j] = turn[j]
    BY <1>41, AllTurnSteps
  <2> QED BY <1>0, <1>41, <2>1 DEF LoopTells, Cold, Recovering, Running, Queued, Used, Active,
               Ended, BatchEnded, Memory, RunningAt, NoneRunsAt, UpAt, Place, Forgotten,
                 ExecutorDrained, Idle, Now, Is
<1>42. CASE Drained
  <2>1. \A j \in Turn : Now(j, AfterCut(j), RunAfterCut(j), IF turn[j].handoff \in {"queued",
          "dispatching"} THEN "cancelled" ELSE turn[j].handoff, turn[j].try, turn[j].cut)
    BY <1>42, AllRecovered DEF Drained, AfterCut, RunAfterCut
  <2>2. batch'.state \notin Active /\ Queued' = {} /\ Running' = {}
    BY <1>42, BatchRecovered, NoneRecovered DEF Drained
  <2> QED BY <1>0, <1>42, <2>1, <2>2 DEF LoopTells, Cold, Recovering, Running, Queued, Used, Active,
               Ended, BatchEnded, Memory, RunningAt, NoneRunsAt, UpAt, Place, Forgotten, Drained,
                 Idle, Down, AfterCut, Now, Is
<1>43. CASE Crash
  <2>1. turn' = turn
    BY <1>43 DEF Crash, Down
  <2> QED BY <1>0, <1>43, <2>1 DEF LoopTells, Cold, Recovering, Running, Queued, Used, Active,
               Ended, BatchEnded, Memory, RunningAt, NoneRunsAt, UpAt, Place, Forgotten, Crash,
                 Idle, Down
<1>44. CASE Restart
  <2>1. turn' = turn
    BY <1>44 DEF Restart
  <2> QED BY <1>0, <1>44, <2>1 DEF LoopTells, Cold, Recovering, Running, Queued, Used, Active,
               Ended, BatchEnded, Memory, RunningAt, NoneRunsAt, UpAt, Place, Forgotten, Restart,
                 Idle
<1> QED BY <1>1, <1>2, <1>3, <1>4, <1>5, <1>6, <1>7, <1>8, <1>9, <1>10, <1>11, <1>12, <1>13, <1>14,
             <1>15, <1>16, <1>17, <1>18, <1>19, <1>20, <1>21, <1>22, <1>23, <1>24, <1>25, <1>26,
               <1>27, <1>28, <1>29, <1>30, <1>31, <1>32, <1>33, <1>34, <1>35, <1>36, <1>37, <1>38,
                 <1>39, <1>40, <1>41, <1>42, <1>43, <1>44
  DEF Next, HandlerStep, RunStep, User, RouteAndSend

\* Every step keeps the loop fed.
LEMMA LoopFed ==
  ASSUME Inv, LoopTells, LoopFeeds, LoopReaches, UpAt,
         [Next]_vars
  PROVE  LoopFeeds'
<1>0. /\ LoopTells /\ LoopFeeds /\ LoopReaches /\ RunningAt /\ QueuedAt /\ UpAt /\ CutTells
      /\ mem \in Memory /\ mem.back \in {"idle", "end"} /\ at \in Place
      /\ app \in {"up", "closing", "draining", "down"}
      /\ batch \in [state : {"none"} \cup Active \cup BatchEnded, winding : BOOLEAN, version : Nat]
      /\ \A j \in Turn : /\ turn[j].state \in {"none"} \cup Active \cup Ended
                         /\ turn[j].run \in {"none"} \cup ActiveRun \cup Ended
  BY DEF Inv, TypeOK, Memory, TurnRecord
<1>1. CASE UNCHANGED vars
  BY <1>0, <1>1 DEF vars, LoopFeeds, RunsAt, Cold, Recovering, Running, Active, RunActive,
       ActiveRun, Ended, BatchEnded, Memory, RunningAt, NoneRunsAt, RunFeedsAt, UpAt, Place,
         Forgotten, CutTells
<1>2. CASE Begin
  <2>1. turn' = turn
    BY <1>2 DEF Begin, StartProcessing, TransitionRoomBatch
  <2> QED BY <1>0, <1>2, <2>1 DEF LoopFeeds, RunsAt, Cold, Recovering, Running, Active, RunActive,
               ActiveRun, Ended, BatchEnded, Memory, RunningAt, NoneRunsAt, RunFeedsAt, UpAt, Place,
                 Forgotten, CutTells, Begin, Idle, StartProcessing, TransitionRoomBatch
<1>3. CASE LoopEnds
  <2>1. turn' = turn
    BY <1>3 DEF LoopEnds
  <2>2. mem.inFlight /\ batch.state = "running" => Queued \subseteq Frontier
    BY <1>0 DEF LoopReaches, Frontier, Queued, Active
  <2> QED BY <1>0, <1>3, <2>1, <2>2 DEF LoopFeeds, RunsAt, Cold, Recovering, Running, Active,
               RunActive, ActiveRun, Ended, BatchEnded, Memory, RunningAt, NoneRunsAt, RunFeedsAt,
                 UpAt, Place, Forgotten, CutTells, LoopEnds, Idle, LoopGoesOn
<1>4. CASE SettleTurn
  <2>1. \A j \in Turn : IF j \in Running THEN Now(j, turn[j].run, turn[j].run, turn[j].handoff,
          turn[j].try, turn[j].cut) ELSE turn'[j] = turn[j]
    BY <1>4, AllTurnSteps
  <2> QED BY <1>0, <1>4, <2>1 DEF LoopFeeds, RunsAt, Cold, Recovering, Running, Active, RunActive,
               ActiveRun, Ended, BatchEnded, Memory, RunningAt, NoneRunsAt, RunFeedsAt, UpAt, Place,
                 Forgotten, CutTells, SettleTurn, Idle, LoopTells, Now, Is
<1>5. CASE SettleHandoff
  <2>1. \A j \in Turn : IF turn[j].handoff = "dispatching"
          THEN Now(j, turn[j].state, turn[j].run, IF turn[j].run = "cancelled" THEN "cancelled"
            ELSE "failed", turn[j].try, turn[j].cut) ELSE turn'[j] = turn[j]
    BY <1>5, AllTurnSteps
  <2> QED BY <1>0, <1>5, <2>1 DEF LoopFeeds, RunsAt, Cold, Recovering, Running, Active, RunActive,
               ActiveRun, Ended, BatchEnded, Memory, RunningAt, NoneRunsAt, RunFeedsAt, UpAt, Place,
                 Forgotten, CutTells, SettleHandoff, Idle, Now, Is
<1>6. CASE EndProcess
  <2>1. turn' = turn \/ (app # "up" /\ RecoverInterruptedRooms)
    BY <1>6 DEF EndProcess
  <2>2. RecoverInterruptedRooms => \A j \in Turn : Now(j, AfterCut(j), RunAfterCut(j),
          IF turn[j].handoff \in {"queued", "dispatching"} THEN "cancelled"
            ELSE turn[j].handoff, turn[j].try, turn[j].cut)
    BY AllRecovered DEF AfterCut, RunAfterCut
  <2>3. at = "end" /\ (app # "up" \/ batch.state # "running" \/ AllIn(Ended))
    BY <1>0, <1>6, AllEnded DEF EndProcess, AllIn
  <2>4. RecoverInterruptedRooms => batch'.state \notin Active /\ Queued' = {}
    BY BatchRecovered
  <2> QED BY <1>0, <1>6, <2>1, <2>3, <2>4, <2>2 DEF LoopFeeds, RunsAt, Cold, Recovering, Running,
               Active, RunActive, ActiveRun, Ended, BatchEnded, Memory, RunningAt, NoneRunsAt,
                 RunFeedsAt, UpAt, Place, Forgotten, CutTells, EndProcess, Idle, Finished, AfterCut,
                   RunAfterCut, LoopTells, Now, Is
<1>7. CASE MarkWindingDown
  <2>1. turn' = turn
    BY <1>7 DEF MarkWindingDown
  <2> QED BY <1>0, <1>7, <2>1 DEF LoopFeeds, RunsAt, Cold, Recovering, Running, Active, RunActive,
               ActiveRun, Ended, BatchEnded, Memory, RunningAt, NoneRunsAt, RunFeedsAt, UpAt, Place,
                 Forgotten, CutTells, MarkWindingDown, Idle
<1>8. CASE CancelRun
  <2>1. \/ turn' = turn
        \/ (\E j \in Running : RunActive(j)) /\ \A j \in Turn : IF j \in Running
             THEN Now(j, turn[j].state, "cancelling", turn[j].handoff, turn[j].try, turn[j].cut)
               ELSE turn'[j] = turn[j]
    BY <1>8, AllTurnSteps
  <2> QED BY <1>0, <1>8, <2>1 DEF LoopFeeds, RunsAt, Cold, Recovering, Running, Active, RunActive,
               ActiveRun, Ended, BatchEnded, Memory, RunningAt, NoneRunsAt, RunFeedsAt, UpAt, Place,
                 Forgotten, CutTells, CancelRun, Idle, Now, Is
<1>9. CASE CancelBatch
  <2>1. turn' = turn
    BY <1>9 DEF CancelBatch, TransitionRoomBatch
  <2> QED BY <1>0, <1>9, <2>1 DEF LoopFeeds, RunsAt, Cold, Recovering, Running, Active, RunActive,
               ActiveRun, Ended, BatchEnded, Memory, RunningAt, NoneRunsAt, RunFeedsAt, UpAt, Place,
                 Forgotten, CutTells, CancelBatch, Idle, TransitionRoomBatch
<1>10. CASE StopEnds
  <2>1. turn' = turn
    BY <1>10 DEF StopEnds
  <2> QED BY <1>0, <1>10, <2>1 DEF LoopFeeds, RunsAt, Cold, Recovering, Running, Active, RunActive,
               ActiveRun, Ended, BatchEnded, Memory, RunningAt, NoneRunsAt, RunFeedsAt, UpAt, Place,
                 Forgotten, CutTells, StopEnds, Idle, Finished
<1>11. CASE RecoverRooms
  <2>1. \A j \in Turn : Now(j, AfterCut(j), RunAfterCut(j), IF turn[j].handoff \in {"queued",
          "dispatching"} THEN "cancelled" ELSE turn[j].handoff, turn[j].try, turn[j].cut)
    BY <1>11, AllRecovered DEF RecoverRooms, AfterCut, RunAfterCut
  <2>2. batch'.state \notin Active /\ Queued' = {} /\ Running' = {}
    BY <1>11, BatchRecovered, NoneRecovered DEF RecoverRooms
  <2> QED BY <1>0, <1>11, <2>1, <2>2 DEF LoopFeeds, RunsAt, Cold, Recovering, Running, Active,
               RunActive, ActiveRun, Ended, BatchEnded, Memory, RunningAt, NoneRunsAt, RunFeedsAt,
                 UpAt, Place, Forgotten, CutTells, RecoverRooms, Idle, AfterCut, RunAfterCut,
                   LoopTells, Now, Is
<1>12. CASE RecoverRuns
  <2>1. \A j \in Turn : IF RunActive(j) THEN Now(j, turn[j].state, "interrupted", turn[j].handoff,
          turn[j].try, turn[j].cut) ELSE turn'[j] = turn[j]
    BY <1>12, AllTurnSteps
  <2> QED BY <1>0, <1>12, <2>1 DEF LoopFeeds, RunsAt, Cold, Recovering, Running, Active, RunActive,
               ActiveRun, Ended, BatchEnded, Memory, RunningAt, NoneRunsAt, RunFeedsAt, UpAt, Place,
                 Forgotten, CutTells, RecoverRuns, Idle, LoopTells, Now, Is
<1>13. ASSUME NEW i \in Turn, Refuse(i)
      PROVE  LoopFeeds'
  <2>1. turn' = turn
    BY <1>13 DEF Refuse
  <2> QED BY <1>0, <1>13, <2>1 DEF LoopFeeds, RunsAt, Cold, Recovering, Running, Active, RunActive,
               ActiveRun, Ended, BatchEnded, Memory, RunningAt, NoneRunsAt, RunFeedsAt, UpAt, Place,
                 Forgotten, CutTells, Refuse, Idle
<1>14. ASSUME NEW i \in Turn, DispatchHandoff(i)
      PROVE  LoopFeeds'
  <2>1. Changes(i, "queued", turn[i].run, "dispatching", turn[i].try, turn[i].cut)
    BY <1>14, OneTurnSteps
  <2>2. turn[i].state = "queued"
    BY <1>14, ActingTurn
  <2> QED BY <1>0, <1>14, <2>1, <2>2 DEF LoopFeeds, RunsAt, Cold, Recovering, Running, Active,
               RunActive, ActiveRun, Ended, BatchEnded, Memory, RunningAt, NoneRunsAt, RunFeedsAt,
                 UpAt, Place, Forgotten, CutTells, DispatchHandoff, Idle, LoopGoesOn, Changes, Is
<1>15. ASSUME NEW i \in Turn, BeginTurn(i)
      PROVE  LoopFeeds'
  <2>1. Changes(i, "running", turn[i].run, turn[i].handoff, turn[i].try, TRUE)
    BY <1>15, OneTurnSteps
  <2>2. turn[i].state = "queued"
    BY <1>15, ActingTurn
  <2> QED BY <1>0, <1>15, <2>1, <2>2 DEF LoopFeeds, RunsAt, Cold, Recovering, Running, Active,
               RunActive, ActiveRun, Ended, BatchEnded, Memory, RunningAt, NoneRunsAt, RunFeedsAt,
                 UpAt, Place, Forgotten, CutTells, BeginTurn, Idle, LoopGoesOn, Changes, Is
<1>16. ASSUME NEW i \in Turn, Launch(i)
      PROVE  LoopFeeds'
  <2>1. \/ Changes(i, "failed", turn[i].run, turn[i].handoff, turn[i].try,
             turn[i].cut) /\ at' = "settleHandoff"
        \/ turn' = turn /\ at' = "attach"
    BY <1>16, Launched
  <2>2. turn[i].state = "running"
    BY <1>16, ActingTurn
  <2> QED BY <1>0, <1>16, <2>1, <2>2 DEF LoopFeeds, RunsAt, Cold, Recovering, Running, Active,
               RunActive, ActiveRun, Ended, BatchEnded, Memory, RunningAt, NoneRunsAt, RunFeedsAt,
                 UpAt, Place, Forgotten, CutTells, Launch, Idle, Changes, Is
<1>17. ASSUME NEW i \in Turn, Attach(i)
      PROVE  LoopFeeds'
  <2>1. Changes(i, turn[i].state, "created", turn[i].handoff, turn[i].try, turn[i].cut)
    BY <1>17, OneTurnSteps
  <2>2. turn[i].state = "running"
    BY <1>17, ActingTurn
  <2> QED BY <1>0, <1>17, <2>1, <2>2 DEF LoopFeeds, RunsAt, Cold, Recovering, Running, Active,
               RunActive, ActiveRun, Ended, BatchEnded, Memory, RunningAt, NoneRunsAt, RunFeedsAt,
                 UpAt, Place, Forgotten, CutTells, Attach, Idle, Changes, Is
<1>18. ASSUME NEW i \in Turn, AcceptHandoff(i)
      PROVE  LoopFeeds'
  <2>1. Changes(i, turn[i].state, turn[i].run, "accepted", turn[i].try, turn[i].cut)
    BY <1>18, OneTurnSteps
  <2> QED BY <1>0, <1>18, <2>1 DEF LoopFeeds, RunsAt, Cold, Recovering, Running, Active, RunActive,
               ActiveRun, Ended, BatchEnded, Memory, RunningAt, NoneRunsAt, RunFeedsAt, UpAt, Place,
                 Forgotten, CutTells, AcceptHandoff, Idle, Changes, Is
<1>19. ASSUME NEW i \in Turn, CancelHandoff(i)
      PROVE  LoopFeeds'
  <2>1. Changes(i, turn[i].state, turn[i].run, "cancelled", turn[i].try, turn[i].cut)
    BY <1>19, OneTurnSteps
  <2> QED BY <1>0, <1>19, <2>1 DEF LoopFeeds, RunsAt, Cold, Recovering, Running, Active, RunActive,
               ActiveRun, Ended, BatchEnded, Memory, RunningAt, NoneRunsAt, RunFeedsAt, UpAt, Place,
                 Forgotten, CutTells, CancelHandoff, Idle, Changes, Is
<1>20. ASSUME NEW i \in Turn, CancelQueued(i)
      PROVE  LoopFeeds'
  <2>1. Changes(i, "cancelled", turn[i].run, turn[i].handoff, turn[i].try, turn[i].cut)
    BY <1>20, OneTurnSteps
  <2>2. turn[i].state = "queued"
    BY <1>20, ActingTurn
  <2> QED BY <1>0, <1>20, <2>1, <2>2 DEF LoopFeeds, RunsAt, Cold, Recovering, Running, Active,
               RunActive, ActiveRun, Ended, BatchEnded, Memory, RunningAt, NoneRunsAt, RunFeedsAt,
                 UpAt, Place, Forgotten, CutTells, CancelQueued, Idle, Changes, Is
<1>21. ASSUME NEW i \in Turn, ProviderStarts(i)
      PROVE  LoopFeeds'
  <2>1. Changes(i, turn[i].state, "started", turn[i].handoff, turn[i].try, turn[i].cut)
    BY <1>21, OneTurnSteps
  <2>2. turn[i].state = "running"
    BY <1>21, ActingTurn
  <2> QED BY <1>0, <1>21, <2>1, <2>2 DEF LoopFeeds, RunsAt, Cold, Recovering, Running, Active,
               RunActive, ActiveRun, Ended, BatchEnded, Memory, RunningAt, NoneRunsAt, RunFeedsAt,
                 UpAt, Place, Forgotten, CutTells, ProviderStarts, Idle, Awaits, Changes, Is
<1>22. ASSUME NEW i \in Turn, AskContinuation(i)
      PROVE  LoopFeeds'
  <2>1. turn' = turn
    BY <1>22 DEF AskContinuation, Awaits
  <2> QED BY <1>0, <1>22, <2>1 DEF LoopFeeds, RunsAt, Cold, Recovering, Running, Active, RunActive,
               ActiveRun, Ended, BatchEnded, Memory, RunningAt, NoneRunsAt, RunFeedsAt, UpAt, Place,
                 Forgotten, CutTells, AskContinuation, Idle, Awaits
<1>23. ASSUME NEW i \in Turn, Complete(i)
      PROVE  LoopFeeds'
  <2>1. PICK r \in {"completed", "cancelled"} : Changes(i, turn[i].state, r, turn[i].handoff,
          turn[i].try, turn[i].cut)
    BY <1>23, OneTurnSteps
  <2>2. turn[i].state = "running"
    BY <1>23, ActingTurn
  <2> QED BY <1>0, <1>23, <2>1, <2>2 DEF LoopFeeds, RunsAt, Cold, Recovering, Running, Active,
               RunActive, ActiveRun, Ended, BatchEnded, Memory, RunningAt, NoneRunsAt, RunFeedsAt,
                 UpAt, Place, Forgotten, CutTells, Complete, Idle, Awaits, Changes, Is
<1>24. ASSUME NEW i \in Turn, Fail(i)
      PROVE  LoopFeeds'
  <2>1. PICK r \in {"failed", "cancelled", "interrupted"} : Changes(i, turn[i].state, r,
          turn[i].handoff, turn[i].try, turn[i].cut)
    BY <1>24, OneTurnSteps
  <2>2. turn[i].state = "running"
    BY <1>24, ActingTurn
  <2> QED BY <1>0, <1>24, <2>1, <2>2 DEF LoopFeeds, RunsAt, Cold, Recovering, Running, Active,
               RunActive, ActiveRun, Ended, BatchEnded, Memory, RunningAt, NoneRunsAt, RunFeedsAt,
                 UpAt, Place, Forgotten, CutTells, Fail, Idle, Awaits, Changes, Is
<1>25. ASSUME NEW i \in Turn, AnswerLate(i)
      PROVE  LoopFeeds'
  <2>1. turn' = turn
    BY <1>25 DEF AnswerLate, Awaits
  <2> QED BY <1>0, <1>25, <2>1 DEF LoopFeeds, RunsAt, Cold, Recovering, Running, Active, RunActive,
               ActiveRun, Ended, BatchEnded, Memory, RunningAt, NoneRunsAt, RunFeedsAt, UpAt, Place,
                 Forgotten, CutTells, AnswerLate, Idle, Awaits, LoopTells
<1>26. ASSUME NEW i \in Turn, NEW b \in Bot, NEW d \in Task, Handoff(i, b, d)
      PROVE  LoopFeeds'
  <2>1. \/ turn' = turn
        \/ \E m \in Turn : /\ turn[m] = NoTurn /\ m \notin Used
           /\ turn'[m].state = "queued" /\ turn'[m].run = "none" /\ turn'[m].handoff = "queued"
           /\ turn'[m].try = 1 /\ turn'[m].from = i /\ turn'[m].cut = FALSE
           /\ \A j \in Turn \ {m} : turn'[j] = turn[j]
    BY <1>26, Created DEF Handoff
  <2>2. turn[i].state = "running"
    BY <1>26 DEF Handoff, Awaits, Running
  <2> QED BY <1>0, <1>26, <2>1, <2>2, FreshTurns DEF LoopFeeds, RunsAt, Cold, Recovering, Running,
               Active, RunActive, ActiveRun, Ended, BatchEnded, Memory, RunningAt, NoneRunsAt,
                 RunFeedsAt, UpAt, Place, Forgotten, CutTells, Handoff, Idle, Awaits
<1>27. ASSUME NEW i \in Turn, NEW b \in Bot, NEW d \in Task, DecideHandoff(i, b, d)
      PROVE  LoopFeeds'
  <2>1. \E m \in Turn : /\ turn[m] = NoTurn /\ m \notin Used
           /\ turn'[m].state = "queued" /\ turn'[m].run = "none" /\ turn'[m].handoff = "queued"
           /\ turn'[m].try = 1 /\ turn'[m].from = i /\ turn'[m].cut = FALSE
           /\ \A j \in Turn \ {m} : turn'[j] = turn[j]
    BY <1>27, Created DEF DecideHandoff
  <2>2. turn[i].state = "running"
    BY <1>27 DEF DecideHandoff, Awaits, Running
  <2> QED BY <1>0, <1>27, <2>1, <2>2, FreshTurns DEF LoopFeeds, RunsAt, Cold, Recovering, Running,
               Active, RunActive, ActiveRun, Ended, BatchEnded, Memory, RunningAt, NoneRunsAt,
                 RunFeedsAt, UpAt, Place, Forgotten, CutTells, DecideHandoff, Idle, Awaits
<1>28. ASSUME NEW targets \in SUBSET Bot, Send(targets)
      PROVE  LoopFeeds'
  <2>1. PICK n \in 0..MaxTurns : \A j \in Turn : IF j \in 1..n
          THEN \E bb \in Bot : turn'[j] = Fresh(bb) ELSE turn'[j] = NoTurn
    BY <1>28, Prepared DEF Send
  <2>2. /\ at = "idle" /\ at' = "begin" /\ app = "up" /\ app' = "up" /\ mem' = mem
        /\ batch'.state = "queued"
    BY <1>28 DEF Send, PrepareRoomRun, Idle
  <2>3. ~mem.inFlight
    BY <1>0, <1>28, <2>2, NoLoopWhenFree DEF Send, PrepareRoomRun, CanPrepare
  <2> QED BY <1>0, <2>1, <2>3, <2>2, FreshTurns DEF LoopFeeds, RunsAt, Cold, Recovering, Running,
               Active, RunActive, ActiveRun, Ended, BatchEnded, Memory, RunningAt, NoneRunsAt,
                 RunFeedsAt, UpAt, Place, Forgotten, CutTells
<1>29. ASSUME NEW r \in Route, SelectOwner(r)
      PROVE  LoopFeeds'
  <2>1. turn' = turn
    BY <1>29 DEF SelectOwner
  <2> QED BY <1>0, <1>29, <2>1 DEF LoopFeeds, RunsAt, Cold, Recovering, Running, Active, RunActive,
               ActiveRun, Ended, BatchEnded, Memory, RunningAt, NoneRunsAt, RunFeedsAt, UpAt, Place,
                 Forgotten, CutTells, SelectOwner, Idle
<1>30. ASSUME NEW i \in Turn, RetryTurn(i)
      PROVE  LoopFeeds'
  <2>1. Changes(i, "queued", "none", turn[i].handoff, turn[i].try + 1, turn[i].cut)
    BY <1>30, OneTurnSteps
  <2>2. \A j \in Turn : turn[j].state \notin Active
    BY <1>0, <1>30, NoLoopWhenFree DEF RetryTurn, MayResume, Idle
  <2> QED BY <1>0, <1>30, <2>1, <2>2 DEF LoopFeeds, RunsAt, Cold, Recovering, Running, Active,
               RunActive, ActiveRun, Ended, BatchEnded, Memory, RunningAt, NoneRunsAt, RunFeedsAt,
                 UpAt, Place, Forgotten, CutTells, RetryTurn, Idle, Resume, StartProcessing,
                   Changes, Is
<1>31. ASSUME NEW b \in Bot, AddMember(b)
      PROVE  LoopFeeds'
  <2>1. turn' = turn
    BY <1>31 DEF AddMember
  <2> QED BY <1>0, <1>31, <2>1 DEF LoopFeeds, RunsAt, Cold, Recovering, Running, Active, RunActive,
               ActiveRun, Ended, BatchEnded, Memory, RunningAt, NoneRunsAt, RunFeedsAt, UpAt, Place,
                 Forgotten, CutTells, AddMember, Idle
<1>32. ASSUME NEW b \in Bot, RemoveMember(b)
      PROVE  LoopFeeds'
  <2>1. turn' = turn
    BY <1>32 DEF RemoveMember
  <2> QED BY <1>0, <1>32, <2>1 DEF LoopFeeds, RunsAt, Cold, Recovering, Running, Active, RunActive,
               ActiveRun, Ended, BatchEnded, Memory, RunningAt, NoneRunsAt, RunFeedsAt, UpAt, Place,
                 Forgotten, CutTells, RemoveMember, Idle
<1>33. CASE Cancel
  <2>1. turn' = turn
    BY <1>33 DEF Cancel
  <2> QED BY <1>0, <1>33, <2>1 DEF LoopFeeds, RunsAt, Cold, Recovering, Running, Active, RunActive,
               ActiveRun, Ended, BatchEnded, Memory, RunningAt, NoneRunsAt, RunFeedsAt, UpAt, Place,
                 Forgotten, CutTells, Cancel, Idle
<1>34. CASE Continue
  <2>1. \A j \in Turn : IF turn[j].state = "interrupted" /\ ~turn[j].cut
          THEN Now(j, "queued", turn[j].run, turn[j].handoff, turn[j].try + 1, turn[j].cut)
            ELSE turn'[j] = turn[j]
    BY <1>34, AllTurnSteps
  <2>2. \A j \in Turn : turn[j].state \notin Active
    BY <1>0, <1>34, NoLoopWhenFree DEF Continue, MayResume, Idle
  <2> QED BY <1>0, <1>34, <2>1, <2>2 DEF LoopFeeds, RunsAt, Cold, Recovering, Running, Active,
               RunActive, ActiveRun, Ended, BatchEnded, Memory, RunningAt, NoneRunsAt, RunFeedsAt,
                 UpAt, Place, Forgotten, CutTells, Continue, Idle, Resume, StartProcessing, Now, Is
<1>35. CASE ArchiveRoom
  <2>1. turn' = turn
    BY <1>35 DEF ArchiveRoom
  <2> QED BY <1>0, <1>35, <2>1 DEF LoopFeeds, RunsAt, Cold, Recovering, Running, Active, RunActive,
               ActiveRun, Ended, BatchEnded, Memory, RunningAt, NoneRunsAt, RunFeedsAt, UpAt, Place,
                 Forgotten, CutTells, ArchiveRoom, Idle
<1>36. ASSUME NEW r \in Route, OwnerSelected(r)
      PROVE  LoopFeeds'
  <2>1. PICK n \in 0..MaxTurns : \A j \in Turn : IF j \in 1..n
          THEN \E bb \in Bot : turn'[j] = Fresh(bb) ELSE turn'[j] = NoTurn
    <3>1. PICK bot \in Bot : PrepareRoomRun(routing[r], {bot})
      BY <1>36 DEF OwnerSelected
    <3> QED BY <3>1, Prepared
  <2>2. /\ at = "idle" /\ at' = "begin" /\ app = "up" /\ app' = "up" /\ mem' = mem
        /\ batch'.state = "queued"
    BY <1>36 DEF OwnerSelected, PrepareRoomRun, Idle
  <2>3. ~mem.inFlight
    BY <1>0, <1>36, <2>2, NoLoopWhenFree DEF OwnerSelected, PrepareRoomRun, CanPrepare
  <2> QED BY <1>0, <2>1, <2>3, <2>2, FreshTurns DEF LoopFeeds, RunsAt, Cold, Recovering, Running,
               Active, RunActive, ActiveRun, Ended, BatchEnded, Memory, RunningAt, NoneRunsAt,
                 RunFeedsAt, UpAt, Place, Forgotten, CutTells
<1>37. ASSUME NEW r \in Route, RoutingFails(r)
      PROVE  LoopFeeds'
  <2>1. turn' = turn
    BY <1>37 DEF RoutingFails
  <2> QED BY <1>0, <1>37, <2>1 DEF LoopFeeds, RunsAt, Cold, Recovering, Running, Active, RunActive,
               ActiveRun, Ended, BatchEnded, Memory, RunningAt, NoneRunsAt, RunFeedsAt, UpAt, Place,
                 Forgotten, CutTells, RoutingFails, Idle
<1>38. CASE TimePasses
  <2>1. turn' = turn
    BY <1>38 DEF TimePasses
  <2> QED BY <1>0, <1>38, <2>1 DEF LoopFeeds, RunsAt, Cold, Recovering, Running, Active, RunActive,
               ActiveRun, Ended, BatchEnded, Memory, RunningAt, NoneRunsAt, RunFeedsAt, UpAt, Place,
                 Forgotten, CutTells, TimePasses, Idle
<1>39. CASE DeadlineFires
  <2>1. turn' = turn
    BY <1>39 DEF DeadlineFires
  <2> QED BY <1>0, <1>39, <2>1 DEF LoopFeeds, RunsAt, Cold, Recovering, Running, Active, RunActive,
               ActiveRun, Ended, BatchEnded, Memory, RunningAt, NoneRunsAt, RunFeedsAt, UpAt, Place,
                 Forgotten, CutTells, DeadlineFires, Idle
<1>40. CASE BeginShutdown
  <2>1. turn' = turn
    BY <1>40 DEF BeginShutdown
  <2> QED BY <1>0, <1>40, <2>1 DEF LoopFeeds, RunsAt, Cold, Recovering, Running, Active, RunActive,
               ActiveRun, Ended, BatchEnded, Memory, RunningAt, NoneRunsAt, RunFeedsAt, UpAt, Place,
                 Forgotten, CutTells, BeginShutdown, Idle
<1>41. CASE ExecutorDrained
  <2>1. \A j \in Turn : IF RunActive(j) THEN Now(j, turn[j].state, IF turn[j].run = "cancelling"
          THEN "cancelled" ELSE "interrupted", turn[j].handoff, turn[j].try, turn[j].cut)
            ELSE turn'[j] = turn[j]
    BY <1>41, AllTurnSteps
  <2> QED BY <1>0, <1>41, <2>1 DEF LoopFeeds, RunsAt, Cold, Recovering, Running, Active, RunActive,
               ActiveRun, Ended, BatchEnded, Memory, RunningAt, NoneRunsAt, RunFeedsAt, UpAt, Place,
                 Forgotten, CutTells, ExecutorDrained, Idle, Now, Is
<1>42. CASE Drained
  <2>1. \A j \in Turn : Now(j, AfterCut(j), RunAfterCut(j), IF turn[j].handoff \in {"queued",
          "dispatching"} THEN "cancelled" ELSE turn[j].handoff, turn[j].try, turn[j].cut)
    BY <1>42, AllRecovered DEF Drained, AfterCut, RunAfterCut
  <2>2. batch'.state \notin Active /\ Queued' = {} /\ Running' = {}
    BY <1>42, BatchRecovered, NoneRecovered DEF Drained
  <2> QED BY <1>0, <1>42, <2>1, <2>2 DEF LoopFeeds, RunsAt, Cold, Recovering, Running, Active,
               RunActive, ActiveRun, Ended, BatchEnded, Memory, RunningAt, NoneRunsAt, RunFeedsAt,
                 UpAt, Place, Forgotten, CutTells, Drained, Idle, Down, AfterCut, RunAfterCut,
                   LoopTells, Now, Is
<1>43. CASE Crash
  <2>1. turn' = turn
    BY <1>43 DEF Crash, Down
  <2> QED BY <1>0, <1>43, <2>1 DEF LoopFeeds, RunsAt, Cold, Recovering, Running, Active, RunActive,
               ActiveRun, Ended, BatchEnded, Memory, RunningAt, NoneRunsAt, RunFeedsAt, UpAt, Place,
                 Forgotten, CutTells, Crash, Idle, Down
<1>44. CASE Restart
  <2>1. turn' = turn
    BY <1>44 DEF Restart
  <2> QED BY <1>0, <1>44, <2>1 DEF LoopFeeds, RunsAt, Cold, Recovering, Running, Active, RunActive,
               ActiveRun, Ended, BatchEnded, Memory, RunningAt, NoneRunsAt, RunFeedsAt, UpAt, Place,
                 Forgotten, CutTells, Restart, Idle
<1> QED BY <1>1, <1>2, <1>3, <1>4, <1>5, <1>6, <1>7, <1>8, <1>9, <1>10, <1>11, <1>12, <1>13, <1>14,
             <1>15, <1>16, <1>17, <1>18, <1>19, <1>20, <1>21, <1>22, <1>23, <1>24, <1>25, <1>26,
               <1>27, <1>28, <1>29, <1>30, <1>31, <1>32, <1>33, <1>34, <1>35, <1>36, <1>37, <1>38,
                 <1>39, <1>40, <1>41, <1>42, <1>43, <1>44
  DEF Next, HandlerStep, RunStep, User, RouteAndSend

\* A loop reaches its turns still, as long as it is for the same attempts and no turn is new.
LEMMA ReachKept ==
  ASSUME Inv, LoopReaches, [Next]_vars, mem'.inFlight => mem.inFlight /\ mem'.only = mem.only,
         \A j \in Turn :
           /\ turn'[j].from = turn[j].from /\ turn'[j].fromTry = turn[j].fromTry
           /\ turn'[j].state \in Active => turn[j].state \in Active /\ turn'[j].try = turn[j].try
  PROVE  LoopReaches'
<1> SUFFICES ASSUME mem'.inFlight, NEW i \in Turn, turn'[i].state \in Active
             PROVE  InFrontier(i)'
  BY DEF LoopReaches
<1>1. InFrontier(i)
  BY DEF LoopReaches
<1> QED BY <1>1, FrontStays

\* A loop that begins reaches the turns it is for, when no other waits.
LEMMA ReachBegins ==
  ASSUME Inv, [Next]_vars,
         \A j \in Turn : turn'[j].state \in Active => <<j, turn'[j].try>> \in mem'.only
  PROVE  LoopReaches'
BY FrontBegins DEF LoopReaches

\* It reaches a turn that one of its turns hands on.
LEMMA ReachHands ==
  ASSUME Inv, LoopReaches, [Next]_vars, mem.inFlight, mem'.only = mem.only,
         NEW i \in Turn, NEW b \in Bot, NEW d \in Task, CreateHandoff(i, b, d),
           turn[i].state = "running"
  PROVE  LoopReaches'
<1>1. PICK m \in Turn : m = Cardinality(Used) + 1 /\ \A j \in Turn \ {m} : turn'[j] = turn[j]
  BY Created
<1>2. Used = 1..Cardinality(Used) /\ Cardinality(Used) \in Nat
  BY UsedNumbers DEF Inv
<1>3. InFrontier(m)'
  <2>1. InFrontier(i)
    BY DEF LoopReaches, Active
  <2> QED BY <1>1, <2>1, FrontHands
<1>4. ASSUME NEW k \in Turn, k # m, turn'[k].state \in Active
      PROVE  InFrontier(k)'
  <2>1. turn'[k] = turn[k]
    BY <1>1, <1>4
  <2>2. k \in Used
    BY <1>4, <2>1 DEF Used, Active
  <2>3. k < m
    BY <1>1, <1>2, <2>2
  <2>4. \A j \in Turn : j <= k => turn'[j] = turn[j]
    BY <1>1, <2>3, Bounds
  <2>5. InFrontier(k)
    BY <1>4, <2>1 DEF LoopReaches
  <2> QED BY <2>1, <2>4, <2>5, FrontStays
<1> QED BY <1>3, <1>4 DEF LoopReaches

\* Every step keeps the turns in reach of the loop.
LEMMA LoopReachesOn ==
  ASSUME Inv, LoopTells, LoopFeeds, LoopReaches,
         [Next]_vars
  PROVE  LoopReaches'
<1>0. /\ LoopTells /\ LoopFeeds /\ LoopReaches /\ RunningAt /\ mem \in Memory
      /\ turn \in [Turn -> TurnRecord] /\ turn' \in [Turn -> TurnRecord]
  BY TurnsTyped DEF Inv, TypeOK
<1>1. CASE UNCHANGED vars
  BY <1>0, <1>1, ReachKept DEF vars, Memory, SameShape, Active, Ended, Forgotten
<1>2. CASE Begin
  <2>1. turn' = turn
    BY <1>2 DEF Begin
  <2>2. \A j \in Turn : turn[j].state \in Active => j \in Used /\ turn[j].try = 1
    BY <1>0, <1>2 DEF LoopTells, Begin, Used, Active
  <2>3. mem'.only = {<<j, 1>> : j \in Used}
    BY <1>0, <1>2 DEF Begin, StartProcessing, Memory
  <2> QED BY <2>1, <2>2, <2>3, ReachBegins
<1>3. CASE LoopEnds
  <2>1. turn' = turn
    BY <1>3 DEF LoopEnds
  <2> QED BY <1>0, <1>3, <2>1, ReachKept DEF Memory, SameShape, Active, Ended, Forgotten, LoopEnds,
               Idle
<1>4. CASE SettleTurn
  <2>1. \A j \in Turn : IF j \in Running THEN Now(j, turn[j].run, turn[j].run, turn[j].handoff,
          turn[j].try, turn[j].cut) ELSE turn'[j] = turn[j]
    BY <1>4, AllTurnSteps
  <2> QED BY <1>0, <1>4, <2>1, ReachKept DEF Memory, SameShape, Active, Ended, Forgotten,
               SettleTurn, Idle, RunningAt, Running, Now, Is
<1>5. CASE SettleHandoff
  <2>1. \A j \in Turn : IF turn[j].handoff = "dispatching"
          THEN Now(j, turn[j].state, turn[j].run, IF turn[j].run = "cancelled" THEN "cancelled"
            ELSE "failed", turn[j].try, turn[j].cut) ELSE turn'[j] = turn[j]
    BY <1>5, AllTurnSteps
  <2> QED BY <1>0, <1>5, <2>1, ReachKept DEF Memory, SameShape, Active, Ended, Forgotten,
               SettleHandoff, Idle, Now, Is
<1>6. CASE EndProcess
  <2>1. ~mem'.inFlight
    BY <1>6 DEF EndProcess, Down, Forgotten
  <2> QED BY <2>1 DEF LoopReaches
<1>7. CASE MarkWindingDown
  <2>1. turn' = turn
    BY <1>7 DEF MarkWindingDown
  <2> QED BY <1>0, <1>7, <2>1, ReachKept DEF Memory, SameShape, Active, Ended, Forgotten,
               MarkWindingDown, Idle
<1>8. CASE CancelRun
  <2>1. \/ turn' = turn
        \/ (\E j \in Running : RunActive(j)) /\ \A j \in Turn : IF j \in Running
             THEN Now(j, turn[j].state, "cancelling", turn[j].handoff, turn[j].try, turn[j].cut)
               ELSE turn'[j] = turn[j]
    BY <1>8, AllTurnSteps
  <2> QED BY <1>0, <1>8, <2>1, ReachKept DEF Memory, SameShape, Active, Ended, Forgotten, CancelRun,
               Idle, Now, Is
<1>9. CASE CancelBatch
  <2>1. turn' = turn
    BY <1>9 DEF CancelBatch, TransitionRoomBatch
  <2> QED BY <1>0, <1>9, <2>1, ReachKept DEF Memory, SameShape, Active, Ended, Forgotten,
               CancelBatch, Idle, TransitionRoomBatch
<1>10. CASE StopEnds
  <2>1. turn' = turn
    BY <1>10 DEF StopEnds
  <2> QED BY <1>0, <1>10, <2>1, ReachKept DEF Memory, SameShape, Active, Ended, Forgotten, StopEnds,
               Idle
<1>11. CASE RecoverRooms
  <2>1. ~mem'.inFlight
    BY <1>0, <1>11 DEF RecoverRooms, LoopTells, Recovering, Cold
  <2> QED BY <2>1 DEF LoopReaches
<1>12. CASE RecoverRuns
  <2>1. \A j \in Turn : IF RunActive(j) THEN Now(j, turn[j].state, "interrupted", turn[j].handoff,
          turn[j].try, turn[j].cut) ELSE turn'[j] = turn[j]
    BY <1>12, AllTurnSteps
  <2> QED BY <1>0, <1>12, <2>1, ReachKept DEF Memory, SameShape, Active, Ended, Forgotten,
               RecoverRuns, Idle, Now, Is
<1>13. ASSUME NEW i \in Turn, Refuse(i)
      PROVE  LoopReaches'
  <2>1. turn' = turn
    BY <1>13 DEF Refuse
  <2> QED BY <1>0, <1>13, <2>1, ReachKept DEF Memory, SameShape, Active, Ended, Forgotten, Refuse,
               Idle
<1>14. ASSUME NEW i \in Turn, DispatchHandoff(i)
      PROVE  LoopReaches'
  <2>1. Changes(i, "queued", turn[i].run, "dispatching", turn[i].try, turn[i].cut)
    BY <1>14, OneTurnSteps
  <2>2. turn[i].state = "queued"
    BY <1>14, ActingTurn
  <2> QED BY <1>0, <1>14, <2>1, ReachKept, <2>2 DEF Memory, SameShape, Active, Ended, Forgotten,
               DispatchHandoff, Idle, Changes, Is
<1>15. ASSUME NEW i \in Turn, BeginTurn(i)
      PROVE  LoopReaches'
  <2>1. Changes(i, "running", turn[i].run, turn[i].handoff, turn[i].try, TRUE)
    BY <1>15, OneTurnSteps
  <2>2. turn[i].state = "queued"
    BY <1>15, ActingTurn
  <2> QED BY <1>0, <1>15, <2>1, ReachKept, <2>2 DEF Memory, SameShape, Active, Ended, Forgotten,
               BeginTurn, Idle, Changes, Is
<1>16. ASSUME NEW i \in Turn, Launch(i)
      PROVE  LoopReaches'
  <2>1. \/ Changes(i, "failed", turn[i].run, turn[i].handoff, turn[i].try,
             turn[i].cut) /\ at' = "settleHandoff"
        \/ turn' = turn /\ at' = "attach"
    BY <1>16, Launched
  <2>2. turn[i].state = "running"
    BY <1>16, ActingTurn
  <2> QED BY <1>0, <1>16, <2>1, ReachKept, <2>2 DEF Memory, SameShape, Active, Ended, Forgotten,
               Launch, Idle, Changes, Is
<1>17. ASSUME NEW i \in Turn, Attach(i)
      PROVE  LoopReaches'
  <2>1. Changes(i, turn[i].state, "created", turn[i].handoff, turn[i].try, turn[i].cut)
    BY <1>17, OneTurnSteps
  <2>2. turn[i].state = "running"
    BY <1>17, ActingTurn
  <2> QED BY <1>0, <1>17, <2>1, ReachKept, <2>2 DEF Memory, SameShape, Active, Ended, Forgotten,
               Attach, Idle, Changes, Is
<1>18. ASSUME NEW i \in Turn, AcceptHandoff(i)
      PROVE  LoopReaches'
  <2>1. Changes(i, turn[i].state, turn[i].run, "accepted", turn[i].try, turn[i].cut)
    BY <1>18, OneTurnSteps
  <2> QED BY <1>0, <1>18, <2>1, ReachKept DEF Memory, SameShape, Active, Ended, Forgotten,
               AcceptHandoff, Idle, Changes, Is
<1>19. ASSUME NEW i \in Turn, CancelHandoff(i)
      PROVE  LoopReaches'
  <2>1. Changes(i, turn[i].state, turn[i].run, "cancelled", turn[i].try, turn[i].cut)
    BY <1>19, OneTurnSteps
  <2> QED BY <1>0, <1>19, <2>1, ReachKept DEF Memory, SameShape, Active, Ended, Forgotten,
               CancelHandoff, Idle, Changes, Is
<1>20. ASSUME NEW i \in Turn, CancelQueued(i)
      PROVE  LoopReaches'
  <2>1. Changes(i, "cancelled", turn[i].run, turn[i].handoff, turn[i].try, turn[i].cut)
    BY <1>20, OneTurnSteps
  <2>2. turn[i].state = "queued"
    BY <1>20, ActingTurn
  <2> QED BY <1>0, <1>20, <2>1, ReachKept, <2>2 DEF Memory, SameShape, Active, Ended, Forgotten,
               CancelQueued, Idle, Changes, Is
<1>21. ASSUME NEW i \in Turn, ProviderStarts(i)
      PROVE  LoopReaches'
  <2>1. Changes(i, turn[i].state, "started", turn[i].handoff, turn[i].try, turn[i].cut)
    BY <1>21, OneTurnSteps
  <2>2. turn[i].state = "running"
    BY <1>21, ActingTurn
  <2> QED BY <1>0, <1>21, <2>1, ReachKept, <2>2 DEF Memory, SameShape, Active, Ended, Forgotten,
               ProviderStarts, Idle, Awaits, Changes, Is
<1>22. ASSUME NEW i \in Turn, AskContinuation(i)
      PROVE  LoopReaches'
  <2>1. turn' = turn
    BY <1>22 DEF AskContinuation, Awaits
  <2> QED BY <1>0, <1>22, <2>1, ReachKept DEF Memory, SameShape, Active, Ended, Forgotten,
               AskContinuation, Idle, Awaits
<1>23. ASSUME NEW i \in Turn, Complete(i)
      PROVE  LoopReaches'
  <2>1. PICK r \in {"completed", "cancelled"} : Changes(i, turn[i].state, r, turn[i].handoff,
          turn[i].try, turn[i].cut)
    BY <1>23, OneTurnSteps
  <2>2. turn[i].state = "running"
    BY <1>23, ActingTurn
  <2> QED BY <1>0, <1>23, <2>1, ReachKept, <2>2 DEF Memory, SameShape, Active, Ended, Forgotten,
               Complete, Idle, Awaits, Changes, Is
<1>24. ASSUME NEW i \in Turn, Fail(i)
      PROVE  LoopReaches'
  <2>1. PICK r \in {"failed", "cancelled", "interrupted"} : Changes(i, turn[i].state, r,
          turn[i].handoff, turn[i].try, turn[i].cut)
    BY <1>24, OneTurnSteps
  <2>2. turn[i].state = "running"
    BY <1>24, ActingTurn
  <2> QED BY <1>0, <1>24, <2>1, ReachKept, <2>2 DEF Memory, SameShape, Active, Ended, Forgotten,
               Fail, Idle, Awaits, Changes, Is
<1>25. ASSUME NEW i \in Turn, AnswerLate(i)
      PROVE  LoopReaches'
  <2>1. turn' = turn
    BY <1>25 DEF AnswerLate, Awaits
  <2> QED BY <1>0, <1>25, <2>1, ReachKept DEF Memory, SameShape, Active, Ended, Forgotten,
               AnswerLate, Idle, Awaits
<1>26. ASSUME NEW i \in Turn, NEW b \in Bot, NEW d \in Task, Handoff(i, b, d)
      PROVE  LoopReaches'
  <2>1. /\ mem.inFlight /\ turn[i].state = "running"
        /\ mem'.only = mem.only /\ mem'.inFlight = mem.inFlight
    BY <1>0, <1>26 DEF Handoff, Awaits, Running, Memory
  <2>2. turn' = turn \/ CreateHandoff(i, b, d)
    BY <1>26 DEF Handoff
  <2>3. CASE turn' = turn
    BY <1>0, <2>1, <2>3, ReachKept
  <2>4. CASE CreateHandoff(i, b, d)
    BY <1>0, <2>1, <2>4, ReachHands
  <2> QED BY <2>2, <2>3, <2>4
<1>27. ASSUME NEW i \in Turn, NEW b \in Bot, NEW d \in Task, DecideHandoff(i, b, d)
      PROVE  LoopReaches'
  <2>1. /\ mem.inFlight /\ turn[i].state = "running"
        /\ mem'.only = mem.only /\ mem'.inFlight = mem.inFlight
    BY <1>0, <1>27 DEF DecideHandoff, Awaits, Running, Memory
  <2>2. CreateHandoff(i, b, d)
    BY <1>27 DEF DecideHandoff
  <2> QED BY <1>0, <2>1, <2>2, ReachHands
<1>28. ASSUME NEW targets \in SUBSET Bot, Send(targets)
      PROVE  LoopReaches'
  <2>1. at = "idle" /\ app = "up" /\ ~Busy /\ mem' = mem
    BY <1>28 DEF Send, PrepareRoomRun, CanPrepare, Idle
  <2>2. ~mem'.inFlight
    BY <1>0, <2>1, NoLoopWhenFree
  <2> QED BY <2>2 DEF LoopReaches
<1>29. ASSUME NEW r \in Route, SelectOwner(r)
      PROVE  LoopReaches'
  <2>1. turn' = turn
    BY <1>29 DEF SelectOwner
  <2> QED BY <1>0, <1>29, <2>1, ReachKept DEF Memory, SameShape, Active, Ended, Forgotten,
               SelectOwner, Idle
<1>30. ASSUME NEW i \in Turn, RetryTurn(i)
      PROVE  LoopReaches'
  <2>1. \A j \in Turn : turn[j].state \notin Active
    BY <1>0, <1>30, NoLoopWhenFree DEF RetryTurn, MayResume, Idle
  <2>2. \A j \in Turn \ {i} : turn'[j] = turn[j]
    BY <1>30, OneTurnSteps DEF Changes
  <2>3. mem'.only = {<<j, turn[j].try + 1>> : j \in {i}}
    BY <1>0, <1>30 DEF RetryTurn, Resume, StartProcessing, Memory
  <2>4. turn'[i].try = turn[i].try + 1
    BY <1>30, OneTurnSteps DEF Changes, Is
  <2> QED BY <2>1, <2>2, <2>3, <2>4, ReachBegins
<1>31. ASSUME NEW b \in Bot, AddMember(b)
      PROVE  LoopReaches'
  <2>1. turn' = turn
    BY <1>31 DEF AddMember
  <2> QED BY <1>0, <1>31, <2>1, ReachKept DEF Memory, SameShape, Active, Ended, Forgotten,
               AddMember, Idle
<1>32. ASSUME NEW b \in Bot, RemoveMember(b)
      PROVE  LoopReaches'
  <2>1. turn' = turn
    BY <1>32 DEF RemoveMember
  <2> QED BY <1>0, <1>32, <2>1, ReachKept DEF Memory, SameShape, Active, Ended, Forgotten,
               RemoveMember, Idle
<1>33. CASE Cancel
  <2>1. turn' = turn
    BY <1>33 DEF Cancel
  <2> QED BY <1>0, <1>33, <2>1, ReachKept DEF Memory, SameShape, Active, Ended, Forgotten, Cancel,
               Idle
<1>34. CASE Continue
  <2>1. \A j \in Turn : turn[j].state \notin Active
    BY <1>0, <1>34, NoLoopWhenFree DEF Continue, MayResume, Idle
  <2> DEFINE remaining == {j \in Turn : turn[j].state = "interrupted" /\ ~turn[j].cut}
  <2>2. \A j \in Turn : IF j \in remaining THEN turn'[j].try = turn[j].try + 1
          ELSE turn'[j] = turn[j]
    BY <1>34, AllTurnSteps DEF Now, Is
  <2>3. mem'.only = {<<j, turn[j].try + 1>> : j \in remaining}
    BY <1>0, <1>34 DEF Continue, Resume, StartProcessing, Memory
  <2> QED BY <2>1, <2>2, <2>3, ReachBegins
<1>35. CASE ArchiveRoom
  <2>1. turn' = turn
    BY <1>35 DEF ArchiveRoom
  <2> QED BY <1>0, <1>35, <2>1, ReachKept DEF Memory, SameShape, Active, Ended, Forgotten,
               ArchiveRoom, Idle
<1>36. ASSUME NEW r \in Route, OwnerSelected(r)
      PROVE  LoopReaches'
  <2>1. at = "idle" /\ app = "up" /\ ~Busy /\ mem' = mem
    BY <1>36 DEF OwnerSelected, PrepareRoomRun, CanPrepare, Idle
  <2>2. ~mem'.inFlight
    BY <1>0, <2>1, NoLoopWhenFree
  <2> QED BY <2>2 DEF LoopReaches
<1>37. ASSUME NEW r \in Route, RoutingFails(r)
      PROVE  LoopReaches'
  <2>1. turn' = turn
    BY <1>37 DEF RoutingFails
  <2> QED BY <1>0, <1>37, <2>1, ReachKept DEF Memory, SameShape, Active, Ended, Forgotten,
               RoutingFails, Idle
<1>38. CASE TimePasses
  <2>1. turn' = turn
    BY <1>38 DEF TimePasses
  <2> QED BY <1>0, <1>38, <2>1, ReachKept DEF Memory, SameShape, Active, Ended, Forgotten,
               TimePasses, Idle
<1>39. CASE DeadlineFires
  <2>1. turn' = turn
    BY <1>39 DEF DeadlineFires
  <2> QED BY <1>0, <1>39, <2>1, ReachKept DEF Memory, SameShape, Active, Ended, Forgotten,
               DeadlineFires, Idle
<1>40. CASE BeginShutdown
  <2>1. turn' = turn
    BY <1>40 DEF BeginShutdown
  <2> QED BY <1>0, <1>40, <2>1, ReachKept DEF Memory, SameShape, Active, Ended, Forgotten,
               BeginShutdown, Idle
<1>41. CASE ExecutorDrained
  <2>1. \A j \in Turn : IF RunActive(j) THEN Now(j, turn[j].state, IF turn[j].run = "cancelling"
          THEN "cancelled" ELSE "interrupted", turn[j].handoff, turn[j].try, turn[j].cut)
            ELSE turn'[j] = turn[j]
    BY <1>41, AllTurnSteps
  <2> QED BY <1>0, <1>41, <2>1, ReachKept DEF Memory, SameShape, Active, Ended, Forgotten,
               ExecutorDrained, Idle, Now, Is
<1>42. CASE Drained
  <2>1. ~mem'.inFlight
    BY <1>42 DEF Drained, Down, Forgotten
  <2> QED BY <2>1 DEF LoopReaches
<1>43. CASE Crash
  <2>1. ~mem'.inFlight
    BY <1>43 DEF Crash, Down, Forgotten
  <2> QED BY <2>1 DEF LoopReaches
<1>44. CASE Restart
  <2>1. turn' = turn
    BY <1>44 DEF Restart
  <2> QED BY <1>0, <1>44, <2>1, ReachKept DEF Memory, SameShape, Active, Ended, Forgotten, Restart,
               Idle
<1> QED BY <1>1, <1>2, <1>3, <1>4, <1>5, <1>6, <1>7, <1>8, <1>9, <1>10, <1>11, <1>12, <1>13, <1>14,
             <1>15, <1>16, <1>17, <1>18, <1>19, <1>20, <1>21, <1>22, <1>23, <1>24, <1>25, <1>26,
               <1>27, <1>28, <1>29, <1>30, <1>31, <1>32, <1>33, <1>34, <1>35, <1>36, <1>37, <1>38,
                 <1>39, <1>40, <1>41, <1>42, <1>43, <1>44
  DEF Next, HandlerStep, RunStep, User, RouteAndSend

\* While the application waits, the batch is being processed.
LEMMA LoopProcesses ==
  ASSUME Inv, LoopTells, LoopFeeds, LoopReaches
  PROVE  BatchIsProcessed
<1> SUFFICES ASSUME at = "idle", app = "up"
    PROVE  /\ batch.state # "queued"
           /\ Cardinality(Running) <= 1
           /\ batch.state = "running" => Running # {} /\ (mem.armed \/ batch.winding)
           /\ \A i \in Running : mem.inFlight /\ RunActive(i)
           /\ \A i \in Turn : RunActive(i) => i \in Running
           /\ Queued # {} => batch.state = "running" /\ Queued = Frontier
  BY DEF BatchIsProcessed, QuietUp
<1>1. ~Cold /\ ~Recovering
  BY DEF Cold, Recovering
<1>2. RunningAt /\ QueuedAt
  BY DEF Inv
<1>3. batch.state # "queued"
  BY <1>1 DEF LoopTells
<1>4. Cardinality(Running) <= 1
  <2>1. CASE Running = {}
    BY <2>1, FS_EmptySet
  <2>2. CASE Running # {}
    <3>1. PICK i \in Running : TRUE
      BY <2>2
    <3>2. Running = {i}
      BY <1>2, <3>1 DEF RunningAt
    <3> QED BY <3>2, FS_Singleton
  <2> QED BY <2>1, <2>2
<1>5. batch.state = "running" => mem.inFlight /\ Running # {} /\ (mem.armed \/ batch.winding)
  BY <1>1 DEF LoopTells, LoopFeeds, RunsAt
<1>6. \A i \in Running : mem.inFlight /\ RunActive(i)
  BY <1>1, <1>2 DEF LoopTells, RunningAt, RunFeedsAt
<1>7. \A i \in Turn : RunActive(i) => i \in Running
  BY <1>1 DEF LoopFeeds, Running
<1>8. ASSUME Queued # {}
      PROVE  batch.state = "running" /\ Queued = Frontier
  <2>1. batch.state = "running"
    BY <1>2, <1>3, <1>8 DEF QueuedAt, Active
  <2> QED BY <1>5, <2>1 DEF LoopReaches, Frontier, Queued, Active
<1> QED BY <1>3, <1>4, <1>5, <1>6, <1>7, <1>8

\* The loop, its batch, its timer and its turns.
Processing == LoopTells /\ LoopFeeds /\ LoopReaches

\* They begin at rest.
LEMMA ProcessingInit ==
  ASSUME Init
  PROVE  Processing
<1>1. \A i \in Turn : turn[i] = NoTurn
  BY DEF Init
<1>2. /\ batch.state = "none" /\ ~mem.inFlight /\ at = "idle" /\ app = "up"
      /\ \A i \in Turn : turn[i].state = "none" /\ turn[i].run = "none"
  BY <1>1, FreshTurns DEF Init, Forgotten
<1> QED BY <1>2 DEF Processing, LoopTells, LoopFeeds, LoopReaches, Running, RunActive, ActiveRun,
                    Recovering, Cold

\* Every step keeps the batch at work.
LEMMA ProcessingKept ==
  ASSUME Inv, UpAt, Processing, [Next]_vars
  PROVE  Processing'
BY LoopToldSo, LoopFed, LoopReachesOn DEF Processing

----------------------------------------------------------------------------
(***************************************************************************)
(* The theorems.                                                           *)
(***************************************************************************)

\* The Room begins in the invariant.
LEMMA InitHolds ==
  ASSUME Init
  PROVE  Inv
<1>1. turn = [i \in Turn |-> NoTurn] /\ turn \in [Turn -> TurnRecord]
  BY FreshTurns DEF Init
<1>2. \A i \in Turn : turn[i] = NoTurn
  BY <1>1
<1>3. Used = {} /\ Queued = {} /\ Running = {}
  BY <1>2, FreshTurns DEF Used, Queued, Running
<1>4. TypeOK
  <2>1. room \in [members : SUBSET Bot, version : Nat, archived : BOOLEAN]
    <3>1. room \in [members : Founders, version : {1}, archived : {FALSE}]
      BY DEF Init
    <3>2. Founders \subseteq SUBSET Bot
      BY RoomAssumptions DEF Bot
    <3>3. 1 \in Nat /\ FALSE \in BOOLEAN
      OBVIOUS
    <3> QED BY ONLY <3>1, <3>2, <3>3
  <2>2. batch \in [state : {"none"} \cup Active \cup BatchEnded, winding : BOOLEAN, version : Nat]
    BY DEF Init
  <2>3. mem \in Memory
    BY NothingForgotten DEF Init
  <2>4. /\ orphan \in BOOLEAN /\ app \in {"up", "closing", "draining", "down"} /\ at \in Place
        /\ routing \in [Route -> Nat] /\ expired \in BOOLEAN
    BY DEF Init, Place, None
  <2>5. used \in [batches : 0..Batches, retries : 0..Retries, crashes : 0..Crashes,
          edits : 0..Edits]
    BY Bounds DEF Init
  <2> QED BY <1>1, <2>1, <2>2, <2>3, <2>4, <2>5 DEF TypeOK
<1>5. TriesCounted
  BY <1>2, FreshTurns DEF TriesCounted, Init, None
<1>6. Numbered
  <2>1. 0 \in 0..MaxTurns /\ 1..0 = {}
    BY Bounds
  <2> QED BY <1>2, <1>3, <2>1 DEF Numbered
<1>7. CutTells
  BY <1>2, FreshTurns DEF CutTells
<1>8. RunningAt
  BY <1>3 DEF RunningAt, NoneRunsAt, RunFeedsAt, Init
<1>9. QueuedAt
  BY <1>3 DEF QueuedAt, Init
<1>10. MembershipFrozen
  BY DEF MembershipFrozen, Init, Active
<1>11. Bounded
  BY <1>3, FS_EmptySet, Bounds DEF Bounded
<1> QED BY <1>4, <1>5, <1>6, <1>7, <1>8, <1>9, <1>10, <1>11 DEF Inv

\* Every step of the Room keeps the invariant.
LEMMA NextKeeps ==
  ASSUME Inv, [Next]_vars
  PROVE  Inv'
<1>1. Bounded'
  BY CountsKept, NoReturnKept DEF Bounded, Counted, NoReturn
<1> QED BY <1>1, TypesKept, TriesKept, NumbersKept, CutKept, RunningKept, QueuedKept, MembershipKept
        DEF Inv

\* Inv always holds: over crashes, shutdowns, retries and late answers, one turn works at most,
\* turns wait only in a batch that goes on, and they are numbered after the ones they come from.
THEOREM InvHolds == Spec => []Inv
<1>1. Init => Inv
  BY InitHolds
<1>2. Inv /\ [Next]_vars => Inv'
  BY NextKeeps
<1> QED BY <1>1, <1>2, PTL DEF Spec

\* The Room, its batch, its turns and what the main process remembers keep their types.
THEOREM TypeCorrect == Spec => []TypeOK
<1>1. Inv => TypeOK
  BY DEF Inv
<1> QED BY <1>1, InvHolds, PTL

\* While a batch runs, the Room is the one it was made for: routings and retries cross changes of
\* the membership, and none is taken for a Room that has changed.
THEOREM RoomStaysWhileItRuns == Spec => []MembershipFrozen
<1>1. Inv => MembershipFrozen
  BY DEF Inv
<1> QED BY <1>1, InvHolds, PTL

\* A batch keeps its limits of turns, hops and targets over all attempts of its turns, and no task
\* ever comes back to a Bot that it has passed.
THEOREM HandoffsAreBounded == Spec => []Bounded
<1>1. Inv => Bounded
  BY DEF Inv
<1> QED BY <1>1, InvHolds, PTL

\* A stopped batch takes no turn and begins none, and what has ended stays as it ended, but for
\* a further attempt.
THEOREM StopIsFinal == Spec => StoppedStaysStopped
<1>1. Inv /\ [Next]_vars =>
        [/\ batch.winding /\ used'.batches = used.batches =>
              /\ {i \in Turn : turn'[i].state # "none"} = Used
              /\ \A i \in Turn : turn'[i].state \in {"queued",
                   "running"} => turn'[i].state = turn[i].state
         /\ used'.batches = used.batches => \A i \in Used :
              /\ turn'[i].try = turn[i].try /\ Settled(i) => turn'[i].state = turn[i].state
              /\ turn[i].run \in Ended /\ turn'[i].try = turn[i].try => turn'[i].run = turn[i].run]_vars
  BY StopHolds
<1> QED BY <1>1, InvHolds, PTL DEF Spec, StoppedStaysStopped

\* Over crashes, shutdowns, retries and answers that come late, a settled turn ended as its run
\* ended, a batch sums up its turns, and a handoff says accepted only of a turn that a Provider
\* took up.
THEOREM OutcomesTellOneStory == Spec => []OutcomesAgree
<1>1. Init => Outcomes
  BY OutcomesInit
<1>2. Inv /\ Outcomes /\ [Next]_vars => Outcomes'
  BY OutcomesKept
<1>3. Inv /\ Outcomes => OutcomesAgree
  BY OutcomesTold
<1> QED BY <1>1, <1>2, <1>3, InvHolds, PTL DEF Spec

\* While the application waits, a running batch has its timer and one turn at work, and turns wait
\* only where its loop will come to them, over all attempts and handoffs: no Room stays busy with
\* a batch that nobody processes.
THEOREM BatchesAreProcessed == Spec => []BatchIsProcessed
<1>1. Init => Outcomes /\ Processing
  BY OutcomesInit, ProcessingInit
<1>2. Inv /\ Outcomes /\ [Next]_vars => Outcomes'
  BY OutcomesKept
<1>3. Inv /\ Outcomes /\ Processing /\ [Next]_vars => Processing'
  BY ProcessingKept DEF Outcomes, Places
<1>4. Inv /\ Processing => BatchIsProcessed
  BY LoopProcesses DEF Processing
<1> QED BY <1>1, <1>2, <1>3, <1>4, InvHolds, PTL DEF Spec
=============================================================================
