------------------------- MODULE RendererViewProofs -------------------------
(***************************************************************************)
(* Proofs about RendererView, for any set of conversations and any number  *)
(* of changes and of loads.                                                *)
(***************************************************************************)
EXTENDS RendererView, TLAPS, SequenceTheorems, WellFoundedInduction

\* The i-th event under way tells of run r of conversation c; of its tool.
RunEvent(i, c, r) == feed[i].chat = c /\ feed[i].kind = "run" /\ feed[i].run = r
ToolEvent(i, c) == feed[i].chat = c /\ feed[i].kind = "tool"

\* Every version stands for a change.
Counted ==
  \A c \in Chat : (\A r \in Runs : rows[c].runs[r] <= changes) /\ rows[c].tool <= changes

\* An event of a run carries the versions its conversation had when it was sent: no later
\* one carries older versions, and none is newer than the rows.
RunsFed ==
  \A c \in Chat, r \in Runs, i \in 1..Len(feed) : RunEvent(i, c, r) =>
    /\ feed[i].live[r] = feed[i].version
    /\ \A s \in Runs : feed[i].live[s] <= rows[c].runs[s]
    /\ \A q \in Runs, j \in 1..Len(feed) : j > i /\ RunEvent(j, c, q) =>
         \A s \in Runs : feed[i].live[s] <= feed[j].live[s]

\* The last event of a tool tells the state it has.
ToolsFed ==
  \A c \in Chat, i \in 1..Len(feed) : ToolEvent(i, c) =>
    /\ feed[i].version <= rows[c].tool
    /\ feed[i].version = rows[c].tool \/ \E j \in 1..Len(feed) : j > i /\ ToolEvent(j, c)

\* The versions in view w are those of conversation c, or the events under way bring them:
\* up to each event, w has the versions that the event carries, or an event before brings
\* them; and an event that would win takes none of them back.
RunsCurrent(w, c) ==
  /\ w.live = w.runs
  /\ \A r \in Runs : w.runs[r] <= rows[c].runs[r]
  /\ \A r \in Runs :
       \/ w.runs[r] >= rows[c].runs[r]
       \/ \E j \in 1..Len(feed) : RunEvent(j, c, r) /\ feed[j].version = rows[c].runs[r]
  /\ \A q \in Runs, i \in 1..Len(feed) : RunEvent(i, c, q) =>
       /\ w.runs[q] < feed[i].version => \A r \in Runs : w.runs[r] <= feed[i].live[r]
       /\ \A r \in Runs :
            \/ w.runs[r] >= feed[i].live[r]
            \/ \E j \in 1..Len(feed) : /\ j <= i /\ RunEvent(j, c, r)
                                       /\ feed[j].version = feed[i].live[r]

ToolCurrent(w, c) ==
  /\ w.tool <= rows[c].tool
  /\ \/ w.tool >= rows[c].tool
     \/ \E j \in 1..Len(feed) : ToolEvent(j, c) /\ feed[j].version = rows[c].tool

ApprovalCurrent(w, c) ==
  w.approval = (rows[c].tool = 1) \/ \E j \in 1..Len(feed) : ToolEvent(j, c)

\* What view m has after merging, started from v: nothing older, nothing that the rows of
\* conversation c do not have, and the live state that goes with the runs.
MergeTells(v, m, c) ==
  /\ \A r \in Runs : m.runs[r] >= v.runs[r]
  /\ m.tool >= v.tool
  /\ m.runs = v.runs => m.live = v.live
  /\ c \in Chat =>
       /\ \A r \in Runs : m.runs[r] = v.runs[r] \/ m.runs[r] <= rows[c].runs[r]
       /\ m.tool = v.tool \/ m.tool <= rows[c].tool
       /\ m.approval = v.approval \/ ApprovalCurrent(m, c)

\* Runs, tools and approvals are merged each by itself.
MergesApart(u, v, m, k) ==
  /\ u.runs = v.runs /\ u.live = v.live => m.runs = k.runs /\ m.live = k.live
  /\ u.tool = v.tool => m.tool = k.tool
  /\ u.approval = v.approval => m.approval = k.approval

BufferMerges ==
  /\ \A v \in Views : mergeBufferedEvents(v) \in Views
  /\ \A v, m \in Views : mergeBufferedEvents(v) = m => MergeTells(v, m, loadingSession)
  /\ \A u, v, m, k \in Views :
       mergeBufferedEvents(u) = m /\ mergeBufferedEvents(v) = k => MergesApart(u, v, m, k)

\* What a load has read, v, is current once the buffered events are merged into it, m; and
\* it is no older than what the window shows of the conversation.
ReadTells(pending, v, m, c) ==
  /\ "snapshot" \notin pending =>
       /\ RunsCurrent(m, c)
       /\ shown = c => \A r \in Runs : view.runs[r] <= v.runs[r]
  /\ "tools" \notin pending =>
       /\ ToolCurrent(m, c)
       /\ shown = c => view.tool <= v.tool
  /\ "approvals" \notin pending => ApprovalCurrent(m, c)

LoadOf(n, c) == opens[n].step = "reads" /\ n = openRequest /\ opens[n].chat = c

Reading ==
  \A n \in 1..MaxOpens :
    /\ opens[n].failed => opens[n].step = "reads"
    /\ opens[n].step # "none" => opens[n].chat \in Chat
    /\ opens[n].step = "reads" /\ n = openRequest => loadingSession = opens[n].chat
    /\ \A c \in Chat, v, m \in Views, p \in SUBSET Reads :
         /\ LoadOf(n, c) /\ ~opens[n].failed /\ opens[n].pending = p
         /\ opens[n].got = v /\ mergeBufferedEvents(v) = m
         => ReadTells(p, v, m, c)

\* The window shows nothing that the rows do not have; and, unless the shown conversation is
\* being loaded again or its events went with a vain load, it is current.
Showing ==
  \A c \in Chat, w \in Views : shown = c /\ view = w =>
    /\ \A r \in Runs : w.runs[r] <= rows[c].runs[r]
    /\ w.tool <= rows[c].tool
    /\ loadingSession # c /\ ~vain => /\ RunsCurrent(w, c)
                                      /\ ToolCurrent(w, c)
                                      /\ ApprovalCurrent(w, c)

FeedTells == Counted /\ RunsFed /\ ToolsFed

\* What is being removed is a conversation, and without one nothing is in view.
Selection ==
  /\ removal \in [chat : Chat \cup {Nothing}, selected : BOOLEAN, step : {"none", "call", "lists"}]
  /\ removal.step # "none" => removal.chat \in Chat
  /\ shown = Nothing => view = Blank

ViewInv == ViewTypeOK /\ FeedTells /\ BufferMerges /\ Reading /\ Showing /\ Selection

----------------------------------------------------------------------------
(***************************************************************************)
(* Merging a sequence of events.                                           *)
(***************************************************************************)

\* What mergeBufferedEvents does, for any sequence.
MergedAll(s, v) ==
  LET merged[i \in 0..Len(s)] == IF i = 0 THEN v ELSE MergeEvent(merged[i - 1], s[i]) IN merged

\* A set of numbers that holds zero and, with each number, the next one holds them all.
LEMMA NumbersFollow ==
  ASSUME NEW S, 0 \in S, \A n \in Nat : n \in S => n + 1 \in S
  PROVE  Nat \subseteq S
<1> DEFINE R == {ss \in Nat \X Nat : ss[1] < ss[2]}
           T == Nat \ S
<1>1. CASE T # {}
  <2>1. R = OpToRel(<, Nat)
    BY Zenon DEF OpToRel
  <2>2. IsWellFoundedOn(R, Nat)
    BY <2>1, NatLessThanWellFounded
  <2>3. T \in SUBSET Nat
    OBVIOUS
  <2>4. PICK x \in T : \A y \in T : <<y, x>> \notin R
    <3> HIDE DEF R, T
    <3> QED BY <1>1, <2>2, <2>3, WFMin
  <2>5. x \in Nat /\ x \notin S /\ x # 0
    OBVIOUS
  <2>6. x - 1 \in Nat /\ x - 1 < x /\ (x - 1) + 1 = x
    BY <2>5
  <2>7. x - 1 \notin T
    BY <2>4, <2>6
  <2>8. x - 1 \in S
    BY <2>6, <2>7
  <2> QED BY <2>5, <2>6, <2>8
<1>2. CASE T = {}
  BY <1>2
<1> QED BY <1>1, <1>2

HasMerging(s, v) ==
  \E f : f = [i \in 0..Len(s) |-> IF i = 0 THEN v ELSE MergeEvent(f[i - 1], s[i])]

\* The recursive function that merges event after event exists.
LEMMA MergingExists ==
  ASSUME NEW s, NEW v, Len(s) \in Nat
  PROVE  HasMerging(s, v)
<1> DEFINE B(i, f) == IF i = 0 THEN v ELSE MergeEvent(f[i - 1], s[i])
           Up(n) == \E f : f = [i \in 0..n |-> B(i, f)]
           S == {n \in Nat : Up(n)}
<1>1. Up(0)
  <2> DEFINE f == [i \in 0..0 |-> v]
  <2>1. f = [i \in 0..0 |-> B(i, f)]
    OBVIOUS
  <2> HIDE DEF f, B
  <2> QED BY <2>1
<1>2. ASSUME NEW n \in Nat, Up(n)
      PROVE  Up(n + 1)
  <2>1. PICK f : f = [i \in 0..n |-> B(i, f)]
    BY <1>2
  <2> DEFINE g == [i \in 0..(n + 1) |-> IF i = n + 1 THEN MergeEvent(f[n], s[n + 1]) ELSE f[i]]
  <2>2. ASSUME NEW i \in 0..(n + 1)
        PROVE  g[i] = B(i, g)
    <3>1. CASE i = n + 1
      <4>1. g[i] = MergeEvent(f[n], s[n + 1])
        BY <3>1
      <4>2. g[n] = f[n]
        OBVIOUS
      <4>3. i # 0 /\ i - 1 = n
        BY <3>1
      <4> HIDE DEF g
      <4> QED BY <3>1, <4>1, <4>2, <4>3
    <3>2. CASE i # n + 1
      <4>1. i \in 0..n
        BY <3>2
      <4>2. g[i] = f[i]
        BY <3>2
      <4>3. f[i] = B(i, f)
        <5> HIDE DEF B
        <5> QED BY <2>1, <4>1
      <4>4. i # 0 => g[i - 1] = f[i - 1]
        BY <4>1
      <4> HIDE DEF g
      <4> QED BY <4>2, <4>3, <4>4
    <3> QED BY <3>1, <3>2
  <2>3. g = [i \in 0..(n + 1) |-> g[i]]
    OBVIOUS
  <2> HIDE DEF g, B
  <2>4. g = [i \in 0..(n + 1) |-> B(i, g)]
    BY <2>2, <2>3
  <2> QED BY <2>4
<1>3. 0 \in S /\ \A n \in Nat : n \in S => n + 1 \in S
  <2> HIDE DEF Up
  <2> QED BY <1>1, <1>2
<1>4. Up(Len(s))
  <2> HIDE DEF S, Up
  <2>1. Nat \subseteq S
    BY <1>3, NumbersFollow
  <2> USE DEF S
  <2> QED BY <2>1
<1> QED BY <1>4, Zenon DEF HasMerging

\* Merging, event by event.
LEMMA MergingSteps ==
  ASSUME NEW s, NEW v, Len(s) \in Nat
  PROVE  /\ MergedAll(s, v)[0] = v
         /\ \A i \in Nat : i + 1 <= Len(s) =>
              MergedAll(s, v)[i + 1] = MergeEvent(MergedAll(s, v)[i], s[i + 1])
<1> DEFINE B(f) == [k \in 0..Len(s) |-> IF k = 0 THEN v ELSE MergeEvent(f[k - 1], s[k])]
<1>1. \E f : f = B(f)
  <2>1. HasMerging(s, v)
    BY MergingExists
  <2> QED BY <2>1, Zenon DEF HasMerging
<1>2. MergedAll(s, v) = (CHOOSE f : f = B(f))
  BY Zenon DEF MergedAll
<1>3. MergedAll(s, v) = B(MergedAll(s, v))
  <2> HIDE DEF B
  <2> QED BY <1>1, <1>2
<1> DEFINE m == MergedAll(s, v)
<1> HIDE DEF m
<1>4. m = B(m)
  BY <1>3 DEF m
<1>5. m[0] = v
  BY <1>4
<1>6. ASSUME NEW i \in Nat, i + 1 <= Len(s)
      PROVE  m[i + 1] = MergeEvent(m[i], s[i + 1])
  <2>1. i + 1 \in 0..Len(s) /\ i + 1 # 0 /\ (i + 1) - 1 = i
    BY <1>6
  <2> QED BY <1>4, <2>1
<1> QED BY <1>5, <1>6 DEF m

\* Nothing is merged from an empty buffer.
LEMMA BufferEmpty ==
  ASSUME NEW v, buffer = <<>>
  PROVE  mergeBufferedEvents(v) = v
<1>1. mergeBufferedEvents(v) = MergedAll(buffer, v)[Len(buffer)]
  BY Zenon DEF mergeBufferedEvents, MergedAll
<1>2. Len(buffer) = 0
  OBVIOUS
<1>3. MergedAll(buffer, v)[0] = v
  BY <1>2, MergingSteps
<1> QED BY <1>1, <1>2, <1>3

\* An event that joins the buffer is merged last.
LEMMA BufferGrows ==
  ASSUME buffer \in Seq(ViewEvents), NEW e \in ViewEvents, NEW b, b = Append(buffer, e), NEW v
  PROVE  MergedAll(b, v)[Len(b)] = MergeEvent(mergeBufferedEvents(v), e)
<1> DEFINE n == Len(buffer)
           S == {k \in Nat : k <= n => MergedAll(b, v)[k] = MergedAll(buffer, v)[k]}
<1>1. n \in Nat /\ Len(b) = n + 1 /\ b[n + 1] = e /\ \A i \in 1..n : b[i] = buffer[i]
  BY LenProperties, AppendProperties
<1>0. \A i \in Nat : i + 1 <= Len(b) =>
        MergedAll(b, v)[i + 1] = MergeEvent(MergedAll(b, v)[i], b[i + 1])
  <2>1. Len(b) \in Nat
    BY <1>1
  <2> QED BY ONLY <2>1, MergingSteps
<1>7. \A i \in Nat : i + 1 <= Len(buffer) =>
        MergedAll(buffer, v)[i + 1] = MergeEvent(MergedAll(buffer, v)[i], buffer[i + 1])
  <2>1. Len(buffer) \in Nat
    BY <1>1
  <2> QED BY ONLY <2>1, MergingSteps
<1> HIDE DEF n
<1>2. 0 \in S
  BY <1>1, MergingSteps DEF n
<1>3. ASSUME NEW k \in Nat, k \in S
      PROVE  k + 1 \in S
  <2>1. ASSUME k + 1 <= n
        PROVE  MergedAll(b, v)[k + 1] = MergedAll(buffer, v)[k + 1]
    <3>1. MergedAll(b, v)[k] = MergedAll(buffer, v)[k]
      BY <1>1, <1>3, <2>1
    <3>2. MergedAll(b, v)[k + 1] = MergeEvent(MergedAll(b, v)[k], b[k + 1])
      <4>1. k + 1 <= Len(b)
        BY <1>1, <2>1
      <4> QED BY <1>0, <4>1
    <3>3. MergedAll(buffer, v)[k + 1] = MergeEvent(MergedAll(buffer, v)[k], buffer[k + 1])
      <4>1. k + 1 <= Len(buffer)
        BY <1>1, <2>1 DEF n
      <4> QED BY <1>7, <4>1
    <3>4. b[k + 1] = buffer[k + 1]
      BY <1>1, <2>1
    <3> QED BY <3>1, <3>2, <3>3, <3>4
  <2> QED BY <2>1
<1>4. MergedAll(b, v)[n] = MergedAll(buffer, v)[n]
  <2>1. \A k \in Nat : k \in S => k + 1 \in S
    BY <1>3
  <2>2. Nat \subseteq S
    <3> HIDE DEF S
    <3> QED BY <1>2, <2>1, NumbersFollow
  <2> QED BY <1>1, <2>2
<1>5. MergedAll(b, v)[n + 1] = MergeEvent(MergedAll(b, v)[n], b[n + 1])
  <2>1. n + 1 <= Len(b)
    BY <1>1
  <2> QED BY <1>0, <1>1, <2>1
<1>6. mergeBufferedEvents(v) = MergedAll(buffer, v)[n]
  BY Zenon DEF mergeBufferedEvents, MergedAll, n
<1> QED BY <1>1, <1>4, <1>5, <1>6

\* The same operator after a step.
LEMMA MergedPrime ==
  ASSUME NEW v
  PROVE  mergeBufferedEvents(v)' = MergedAll(buffer', v)[Len(buffer')]
BY Zenon DEF mergeBufferedEvents, MergedAll

----------------------------------------------------------------------------
(***************************************************************************)
(* The parts of a view, of the rows and of the feed.                       *)
(***************************************************************************)

\* The assumptions in the form the provers use.
LEMMA Bounds ==
  /\ MaxChanges \in Nat /\ MaxOpens \in Nat /\ Nothing \notin Chat
  /\ Runs = {1, 2} /\ 0 \in 0..MaxChanges
BY ViewBounds DEF Runs

\* The fields of a view.
LEMMA ViewParts ==
  ASSUME NEW v \in Views
  PROVE  /\ \A r \in Runs : v.runs[r] \in 0..MaxChanges
         /\ \A r \in Runs : v.live[r] \in 0..MaxChanges
         /\ \A r \in Runs : v.runs[r] \in Nat /\ v.live[r] \in Nat
         /\ v.runs \in [Runs -> 0..MaxChanges] /\ v.live \in [Runs -> 0..MaxChanges]
         /\ v.tool \in 0..2 /\ v.tool \in Nat /\ v.approval \in BOOLEAN
BY Bounds DEF Views

\* The fields of an event.
LEMMA EventParts ==
  ASSUME NEW e \in ViewEvents
  PROVE  /\ e.chat \in Chat /\ e.kind \in {"run", "tool"} /\ e.run \in Runs
         /\ e.version \in 1..MaxChanges /\ e.version \in Nat /\ e.version > 0
         /\ e.live \in [Runs -> 0..MaxChanges] /\ \A r \in Runs : e.live[r] \in Nat
BY Bounds DEF ViewEvents

\* View u is view v after event e.
Merged(u, v, e) ==
  /\ e.kind = "run" => /\ v.runs[e.run] >= e.version => u = v
                       /\ v.runs[e.run] < e.version =>
                            /\ u.runs[e.run] = e.version
                            /\ \A r \in Runs : r # e.run => u.runs[r] = v.runs[r]
                            /\ u.live = e.live
                            /\ u.tool = v.tool /\ u.approval = v.approval
  /\ e.kind = "tool" => /\ u.runs = v.runs /\ u.live = v.live
                        /\ u.approval = (e.version = 1)
                        /\ v.tool >= e.version => u.tool = v.tool
                        /\ v.tool < e.version => u.tool = e.version

\* What merging an event makes of a view.
LEMMA MergeEventParts ==
  ASSUME NEW v \in Views, NEW e \in ViewEvents, e.kind = "tool" => e.version <= 2
  PROVE  MergeEvent(v, e) \in Views /\ Merged(MergeEvent(v, e), v, e)
<1> USE ViewParts, EventParts
<1>1. CASE e.kind = "run" /\ v.runs[e.run] >= e.version
  <2>1. MergeEvent(v, e) = v
    BY <1>1 DEF MergeEvent, mergeRuntimeRun
  <2> QED BY <1>1, <2>1 DEF Merged
<1>2. CASE e.kind = "run" /\ v.runs[e.run] < e.version
  <2> DEFINE w == [v EXCEPT !.runs[e.run] = e.version]
             u == [w EXCEPT !.live = e.live]
  <2>1. MergeEvent(v, e) = u
    BY <1>2 DEF MergeEvent, mergeRuntimeRun
  <2>2. /\ w \in Views /\ w.runs[e.run] = e.version
        /\ \A r \in Runs : r # e.run => w.runs[r] = v.runs[r]
        /\ w.tool = v.tool /\ w.approval = v.approval
    BY DEF Views
  <2> HIDE DEF w
  <2>3. u \in Views /\ u.live = e.live /\ u.runs = w.runs /\ u.tool = w.tool
        /\ u.approval = w.approval
    BY <2>2 DEF Views
  <2> HIDE DEF u
  <2> QED BY <1>2, <2>1, <2>2, <2>3 DEF Merged
<1>3. CASE e.kind = "tool"
  <2> DEFINE w == mergeToolInvocation(v, e)
             u == [w EXCEPT !.approval = (e.version = 1)]
  <2>1. MergeEvent(v, e) = u
    BY <1>3 DEF MergeEvent, mergePendingApproval
  <2>2. /\ w \in Views /\ w.runs = v.runs /\ w.live = v.live
        /\ v.tool >= e.version => w.tool = v.tool
        /\ v.tool < e.version => w.tool = e.version
    BY <1>3 DEF mergeToolInvocation, Views
  <2> HIDE DEF w
  <2>3. u \in Views /\ u.live = w.live /\ u.runs = w.runs /\ u.tool = w.tool
        /\ u.approval = (e.version = 1)
    BY <2>2 DEF Views
  <2> HIDE DEF u
  <2> QED BY <1>3, <2>1, <2>2, <2>3 DEF Merged
<1> QED BY <1>1, <1>2, <1>3

\* The parts of the state that the proofs need from its type.
LEMMA TypeParts ==
  ASSUME ViewTypeOK
  PROVE  /\ \A c \in Chat, r \in Runs : rows[c].runs[r] \in Nat
         /\ \A c \in Chat : rows[c].tool \in 0..2 /\ rows[c].tool \in Nat
         /\ Len(feed) \in Nat /\ feed \in Seq(ViewEvents)
         /\ \A i \in 1..Len(feed) : feed[i] \in ViewEvents
         /\ view \in Views /\ changes \in Nat /\ openRequest \in Nat
<1> USE DEF ViewTypeOK
<1>1. \A c \in Chat, r \in Runs : rows[c].runs[r] \in Nat
  BY Bounds
<1>2. \A c \in Chat : rows[c].tool \in 0..2 /\ rows[c].tool \in Nat
  OBVIOUS
<1>3. Len(feed) \in Nat /\ feed \in Seq(ViewEvents)
  BY LenProperties
<1>4. \A i \in 1..Len(feed) : feed[i] \in ViewEvents
  BY ElementOfSeq
<1>5. view \in Views /\ changes \in Nat /\ openRequest \in Nat
  BY Bounds
<1> QED BY <1>1, <1>2, <1>3, <1>4, <1>5

\* An event is sent: it is the last of the feed.
Sent(e) ==
  /\ feed' \in Seq(ViewEvents) /\ Len(feed') = Len(feed) + 1
  /\ \A i \in 1..Len(feed) : feed'[i] = feed[i]
  /\ feed'[Len(feed) + 1] = e

\* Appending is sending.
LEMMA FeedGrows ==
  ASSUME feed \in Seq(ViewEvents), NEW e \in ViewEvents, feed' = Append(feed, e)
  PROVE  Sent(e)
BY AppendProperties DEF Sent

\* The first event of the feed is delivered.
Shorter ==
  /\ Len(feed) \in Nat /\ Len(feed) > 0
  /\ feed' \in Seq(ViewEvents) /\ Len(feed') = Len(feed) - 1
  /\ \A i \in 1..Len(feed) : i # Len(feed) => feed'[i] = feed[i + 1]
  /\ Head(feed) = feed[1] /\ feed[1] \in ViewEvents

\* Taking the tail is delivering.
LEMMA FeedShrinks ==
  ASSUME feed \in Seq(ViewEvents), feed # <<>>, feed' = Tail(feed)
  PROVE  Shorter
<1>1. Len(feed) \in Nat /\ Len(feed) > 0 /\ Head(feed) = feed[1] /\ feed[1] \in ViewEvents
  BY EmptySeq, ElementOfSeq
<1>2. /\ Tail(feed) \in Seq(ViewEvents) /\ Len(Tail(feed)) = Len(feed) - 1
      /\ \A i \in 1..Len(Tail(feed)) : Tail(feed)[i] = feed[i + 1]
  BY HeadTailProperties
<1>3. \A i \in 1..Len(feed) : i # Len(feed) => i \in 1..(Len(feed) - 1)
  BY <1>1
<1> QED BY <1>1, <1>2, <1>3 DEF Shorter

----------------------------------------------------------------------------
(***************************************************************************)
(* The main process changes a row and sends an event.                      *)
(***************************************************************************)

\* Run r of conversation c is changed, and e tells of it.
RunNews(e, c, r) ==
  /\ rows' \in [Chat -> [runs : [Runs -> 0..MaxChanges], tool : 0..2]]
  /\ rows'[c].runs[r] = rows[c].runs[r] + 1
  /\ \A s \in Runs : s # r => rows'[c].runs[s] = rows[c].runs[s]
  /\ \A d \in Chat : d # c => rows'[d] = rows[d]
  /\ \A d \in Chat : rows'[d].tool = rows[d].tool
  /\ e \in ViewEvents /\ Sent(e)
  /\ e.chat = c /\ e.kind = "run" /\ e.run = r /\ e.version = rows'[c].runs[r]
  /\ e.live = rows'[c].runs

\* What RunChanges does to the rows and the feed.
LEMMA RunChangesTells ==
  ASSUME ViewTypeOK, Counted, NEW c \in Chat, NEW r \in Runs, RunChanges(c, r)
  PROVE  \E e \in ViewEvents : RunNews(e, c, r)
<1> DEFINE e == [chat |-> c, kind |-> "run", run |-> r, version |-> rows[c].runs[r] + 1,
                 live |-> rows'[c].runs]
           n == rows[c].runs[r]
<1>1. /\ rows \in [Chat -> [runs : [Runs -> 0..MaxChanges], tool : 0..2]]
      /\ rows' = [rows EXCEPT ![c].runs[r] = @ + 1] /\ changes < MaxChanges
      /\ feed' = Append(feed, e) /\ changes \in Nat /\ MaxChanges \in Nat
  BY Bounds DEF ViewTypeOK, RunChanges, Announces
<1>2. n \in Nat /\ n + 1 \in 1..MaxChanges
  <2>1. n \in Nat /\ n <= changes
    BY TypeParts DEF Counted
  <2> QED BY <1>1, <2>1
<1>3. /\ rows'[c].runs = [rows[c].runs EXCEPT ![r] = n + 1] /\ rows'[c].tool = rows[c].tool
      /\ \A d \in Chat : d # c => rows'[d] = rows[d]
      /\ rows' = [rows EXCEPT ![c] = [rows[c] EXCEPT !.runs = [rows[c].runs EXCEPT ![r] = n + 1]]]
  BY <1>1
<1>4. [rows[c].runs EXCEPT ![r] = n + 1] \in [Runs -> 0..MaxChanges]
  <2>1. rows[c].runs \in [Runs -> 0..MaxChanges] /\ n + 1 \in 0..MaxChanges
    BY <1>1, <1>2
  <2> QED BY <2>1
<1>5. [rows[c] EXCEPT !.runs = [rows[c].runs EXCEPT ![r] = n + 1]]
        \in [runs : [Runs -> 0..MaxChanges], tool : 0..2]
  <2> DEFINE f == [rows[c].runs EXCEPT ![r] = n + 1]
  <2>1. rows[c] \in [runs : [Runs -> 0..MaxChanges], tool : 0..2]
    BY <1>1
  <2> HIDE DEF f
  <2>2. f \in [Runs -> 0..MaxChanges]
    BY <1>4 DEF f
  <2>3. [rows[c] EXCEPT !.runs = f] \in [runs : [Runs -> 0..MaxChanges], tool : 0..2]
    BY <2>1, <2>2
  <2> QED BY <2>3 DEF f
<1>6. rows' \in [Chat -> [runs : [Runs -> 0..MaxChanges], tool : 0..2]]
  <2> DEFINE f == [rows[c] EXCEPT !.runs = [rows[c].runs EXCEPT ![r] = n + 1]]
  <2>1. f \in [runs : [Runs -> 0..MaxChanges], tool : 0..2] /\ rows' = [rows EXCEPT ![c] = f]
    BY <1>3, <1>5
  <2> HIDE DEF f
  <2> QED BY <1>1, <2>1
<1>7. /\ rows'[c].runs[r] = n + 1
      /\ \A s \in Runs : s # r => rows'[c].runs[s] = rows[c].runs[s]
  <2>1. rows[c].runs \in [Runs -> 0..MaxChanges]
    BY <1>1
  <2> QED BY <1>3, <2>1
<1>8. e \in ViewEvents
  <2>1. rows'[c].runs \in [Runs -> 0..MaxChanges]
    BY <1>3, <1>4
  <2> HIDE DEF n
  <2> QED BY <1>2, <2>1 DEF ViewEvents, n
<1>9. Sent(e)
  <2>1. feed \in Seq(ViewEvents)
    BY TypeParts
  <2> HIDE DEF e
  <2> QED BY <1>1, <1>8, <2>1, FeedGrows
<1>10. e.chat = c /\ e.kind = "run" /\ e.run = r /\ e.version = n + 1 /\ e.live = rows'[c].runs
  OBVIOUS
<1> HIDE DEF e, n
<1>11. rows'[c].runs[r] = rows[c].runs[r] + 1
  BY <1>7 DEF n
<1>12. \A d \in Chat : rows'[d].tool = rows[d].tool
  BY <1>3
<1> QED BY <1>3, <1>6, <1>7, <1>8, <1>9, <1>10, <1>11, <1>12 DEF RunNews

\* The tool of conversation c is asked for or settled, and e tells of it.
ToolNews(e, c) ==
  /\ rows' \in [Chat -> [runs : [Runs -> 0..MaxChanges], tool : 0..2]]
  /\ rows'[c].tool = rows[c].tool + 1
  /\ \A d \in Chat : d # c => rows'[d] = rows[d]
  /\ \A d \in Chat : rows'[d].runs = rows[d].runs
  /\ e \in ViewEvents /\ Sent(e)
  /\ e.chat = c /\ e.kind = "tool" /\ e.version = rows'[c].tool

\* What ToolChanges does to the rows and the feed.
LEMMA ToolChangesTells ==
  ASSUME ViewTypeOK, Counted, NEW c \in Chat, ToolChanges(c)
  PROVE  \E e \in ViewEvents : ToolNews(e, c)
<1> DEFINE e == [chat |-> c, kind |-> "tool", run |-> 1, version |-> rows[c].tool + 1,
                 live |-> NoVersions]
           n == rows[c].tool
<1>1. /\ rows \in [Chat -> [runs : [Runs -> 0..MaxChanges], tool : 0..2]]
      /\ rows' = [rows EXCEPT ![c].tool = @ + 1] /\ changes < MaxChanges /\ n < 2
      /\ feed' = Append(feed, e) /\ changes \in Nat /\ MaxChanges \in Nat
  BY Bounds DEF ViewTypeOK, ToolChanges, Announces
<1>2. n \in Nat /\ n + 1 \in 1..MaxChanges /\ n + 1 \in 0..2
  <2>1. n \in Nat /\ n <= changes
    BY TypeParts DEF Counted
  <2> QED BY <1>1, <2>1
<1>3. /\ rows'[c].runs = rows[c].runs /\ rows'[c].tool = n + 1
      /\ \A d \in Chat : d # c => rows'[d] = rows[d]
      /\ rows' = [rows EXCEPT ![c] = [rows[c] EXCEPT !.tool = n + 1]]
  BY <1>1
<1>5. [rows[c] EXCEPT !.tool = n + 1] \in [runs : [Runs -> 0..MaxChanges], tool : 0..2]
  <2>1. rows[c] \in [runs : [Runs -> 0..MaxChanges], tool : 0..2]
    BY <1>1
  <2> HIDE DEF n
  <2> QED BY <1>2, <2>1
<1>6. rows' \in [Chat -> [runs : [Runs -> 0..MaxChanges], tool : 0..2]]
  <2> DEFINE f == [rows[c] EXCEPT !.tool = n + 1]
  <2>1. f \in [runs : [Runs -> 0..MaxChanges], tool : 0..2] /\ rows' = [rows EXCEPT ![c] = f]
    BY <1>3, <1>5
  <2> HIDE DEF f
  <2> QED BY <1>1, <2>1
<1>8. e \in ViewEvents
  <2>1. NoVersions \in [Runs -> 0..MaxChanges] /\ 1 \in Runs
    BY Bounds DEF NoVersions
  <2> HIDE DEF n
  <2> QED BY <1>2, <2>1 DEF ViewEvents, n
<1>9. Sent(e)
  <2>1. feed \in Seq(ViewEvents)
    BY TypeParts
  <2> HIDE DEF e
  <2> QED BY <1>1, <1>8, <2>1, FeedGrows
<1>10. e.chat = c /\ e.kind = "tool" /\ e.version = n + 1
  OBVIOUS
<1> HIDE DEF e, n
<1>11. rows'[c].tool = rows[c].tool + 1
  BY <1>3 DEF n
<1>12. \A d \in Chat : rows'[d].runs = rows[d].runs
  BY <1>3
<1> QED BY <1>3, <1>6, <1>8, <1>9, <1>10, <1>11, <1>12 DEF ToolNews

\* What an event of a run leaves true of the feed.
LEMMA RunNewsFeed ==
  ASSUME ViewTypeOK, FeedTells, NEW c \in Chat, NEW r \in Runs, NEW e \in ViewEvents,
         RunNews(e, c, r)
  PROVE  RunsFed' /\ ToolsFed'
<1> DEFINE n == Len(feed)
<1>0. n \in Nat /\ Len(feed') = n + 1 /\ feed'[n + 1] = e /\ \A i \in 1..n : feed'[i] = feed[i]
  BY TypeParts DEF RunNews, Sent
<1>1. \A i \in 1..(n + 1) : i \in 1..n \/ i = n + 1
  BY <1>0
<1>2. \A d \in Chat, s \in Runs : rows[d].runs[s] <= rows'[d].runs[s] /\ rows'[d].runs[s] \in Nat
  <2>1. ASSUME NEW d \in Chat, NEW s \in Runs
        PROVE  rows[d].runs[s] <= rows'[d].runs[s] /\ rows'[d].runs[s] \in Nat
    <3>1. rows[d].runs[s] \in Nat
      BY TypeParts
    <3>2. CASE d = c /\ s = r
      BY <3>1, <3>2 DEF RunNews
    <3>3. CASE ~(d = c /\ s = r)
      <4>1. rows'[d].runs[s] = rows[d].runs[s]
        BY <3>3 DEF RunNews
      <4> QED BY <3>1, <4>1
    <3> QED BY <3>2, <3>3
  <2> QED BY <2>1
<1> HIDE DEF n
<1>3. ASSUME NEW d \in Chat, NEW s \in Runs, NEW i \in 1..(n + 1), RunEvent(i, d, s)'
      PROVE  /\ feed'[i].live[s] = feed'[i].version
             /\ \A t \in Runs : feed'[i].live[t] <= rows'[d].runs[t]
             /\ \A q \in Runs, j \in 1..(n + 1) : j > i /\ RunEvent(j, d, q)' =>
                  \A t \in Runs : feed'[i].live[t] <= feed'[j].live[t]
  <2>1. CASE i \in 1..n
    <3>1. /\ RunEvent(i, d, s) /\ feed'[i] = feed[i] /\ feed[i] \in ViewEvents
      BY <1>0, <1>3, <2>1, TypeParts DEF RunEvent, n
    <3>2. /\ feed[i].live[s] = feed[i].version
          /\ \A t \in Runs : feed[i].live[t] <= rows[d].runs[t]
          /\ \A q \in Runs, j \in 1..n : j > i /\ RunEvent(j, d, q) =>
                  \A t \in Runs : feed[i].live[t] <= feed[j].live[t]
      BY <2>1, <3>1 DEF FeedTells, RunsFed, n
    <3>3. \A t \in Runs : /\ feed[i].live[t] \in Nat /\ rows[d].runs[t] \in Nat
                          /\ feed[i].live[t] <= rows'[d].runs[t]
      BY <1>2, <3>1, <3>2, EventParts, TypeParts
    <3>4. ASSUME NEW q \in Runs, NEW j \in 1..(n + 1), j > i, RunEvent(j, d, q)', NEW t \in Runs
          PROVE  feed'[i].live[t] <= feed'[j].live[t]
      <4>1. CASE j \in 1..n
        BY <1>0, <3>1, <3>2, <3>4, <4>1 DEF RunEvent
      <4>2. CASE j = n + 1
        <5>1. feed'[j].live = rows'[d].runs
          BY <1>0, <3>4, <4>2 DEF RunEvent, RunNews
        <5> QED BY <3>1, <3>3, <5>1
      <4> QED BY <1>1, <4>1, <4>2
    <3> QED BY <3>1, <3>2, <3>3, <3>4
  <2>2. CASE i = n + 1
    <3>1. feed'[i] = e /\ d = c /\ s = r
      BY <1>0, <1>3, <2>2 DEF RunEvent, RunNews
    <3>2. ~ \E j \in 1..(n + 1) : j > i
      BY <1>0, <2>2
    <3>3. e.live[r] = e.version /\ \A t \in Runs : e.live[t] <= rows'[c].runs[t]
      BY <1>2 DEF RunNews
    <3> QED BY <3>1, <3>2, <3>3
  <2> QED BY <1>1, <2>1, <2>2
<1>4. RunsFed'
  BY <1>0, <1>3 DEF RunsFed
<1>5. ASSUME NEW d \in Chat, NEW i \in 1..(n + 1), ToolEvent(i, d)'
      PROVE  /\ feed'[i].version <= rows'[d].tool
             /\ \/ feed'[i].version = rows'[d].tool
                \/ \E j \in 1..(n + 1) : j > i /\ ToolEvent(j, d)'
  <2>1. i # n + 1
    BY <1>0, <1>5 DEF ToolEvent, RunNews
  <2>2. i \in 1..n /\ feed'[i] = feed[i] /\ ToolEvent(i, d) /\ rows'[d].tool = rows[d].tool
    BY <1>0, <1>1, <1>5, <2>1 DEF ToolEvent, RunNews
  <2>3. /\ feed[i].version <= rows[d].tool
        /\ feed[i].version = rows[d].tool \/ \E j \in 1..n : j > i /\ ToolEvent(j, d)
    BY <2>2 DEF FeedTells, ToolsFed, n
  <2>4. \A j \in 1..n : j \in 1..(n + 1) /\ (ToolEvent(j, d) => ToolEvent(j, d)')
    BY <1>0 DEF ToolEvent
  <2> QED BY <2>2, <2>3, <2>4
<1>6. ToolsFed'
  BY <1>0, <1>5 DEF ToolsFed
<1> QED BY <1>4, <1>6

\* What an event of a tool leaves true of the feed.
LEMMA ToolNewsFeed ==
  ASSUME ViewTypeOK, FeedTells, NEW c \in Chat, NEW e \in ViewEvents, ToolNews(e, c)
  PROVE  RunsFed' /\ ToolsFed'
<1> DEFINE n == Len(feed)
<1>0. n \in Nat /\ Len(feed') = n + 1 /\ feed'[n + 1] = e /\ \A i \in 1..n : feed'[i] = feed[i]
  BY TypeParts DEF ToolNews, Sent
<1>1. \A i \in 1..(n + 1) : i \in 1..n \/ i = n + 1
  BY <1>0
<1>2. \A d \in Chat : /\ rows[d].tool <= rows'[d].tool /\ rows[d].tool \in Nat
                      /\ rows'[d].tool \in Nat
  <2>1. ASSUME NEW d \in Chat
        PROVE  rows[d].tool <= rows'[d].tool /\ rows[d].tool \in Nat /\ rows'[d].tool \in Nat
    <3>1. rows[d].tool \in Nat
      BY TypeParts
    <3>2. rows'[d].tool = rows[d].tool \/ rows'[d].tool = rows[d].tool + 1
      BY DEF ToolNews
    <3> QED BY <3>1, <3>2
  <2> QED BY <2>1
<1> HIDE DEF n
<1>3. ASSUME NEW d \in Chat, NEW s \in Runs, NEW i \in 1..(n + 1), RunEvent(i, d, s)'
      PROVE  /\ feed'[i].live[s] = feed'[i].version
             /\ \A t \in Runs : feed'[i].live[t] <= rows'[d].runs[t]
             /\ \A q \in Runs, j \in 1..(n + 1) : j > i /\ RunEvent(j, d, q)' =>
                  \A t \in Runs : feed'[i].live[t] <= feed'[j].live[t]
  <2>1. \A j \in 1..(n + 1), q \in Runs : RunEvent(j, d, q)' => j \in 1..n /\ RunEvent(j, d, q)
                                                                /\ feed'[j] = feed[j]
    BY <1>0, <1>1 DEF RunEvent, ToolNews
  <2>2. i \in 1..n /\ RunEvent(i, d, s) /\ feed'[i] = feed[i]
    BY <1>3, <2>1
  <2>3. /\ feed[i].live[s] = feed[i].version
        /\ \A t \in Runs : feed[i].live[t] <= rows[d].runs[t]
        /\ \A q \in Runs, j \in 1..n : j > i /\ RunEvent(j, d, q) =>
                  \A t \in Runs : feed[i].live[t] <= feed[j].live[t]
    BY <2>2 DEF FeedTells, RunsFed, n
  <2>4. rows'[d].runs = rows[d].runs
    BY DEF ToolNews
  <2> QED BY <2>1, <2>2, <2>3, <2>4
<1>4. RunsFed'
  BY <1>0, <1>3 DEF RunsFed
<1>5. ASSUME NEW d \in Chat, NEW i \in 1..(n + 1), ToolEvent(i, d)'
      PROVE  /\ feed'[i].version <= rows'[d].tool
             /\ \/ feed'[i].version = rows'[d].tool
                \/ \E j \in 1..(n + 1) : j > i /\ ToolEvent(j, d)'
  <2>1. CASE i = n + 1
    <3>1. feed'[i] = e /\ d = c
      BY <1>0, <1>5, <2>1 DEF ToolEvent, ToolNews
    <3>2. e.version = rows'[c].tool
      BY DEF ToolNews
    <3> QED BY <1>2, <3>1, <3>2
  <2>2. CASE i \in 1..n
    <3>1. feed'[i] = feed[i] /\ ToolEvent(i, d) /\ feed[i].version \in Nat
      BY <1>0, <1>5, <2>2, TypeParts, EventParts DEF ToolEvent, n
    <3>2. /\ feed[i].version <= rows[d].tool
          /\ feed[i].version = rows[d].tool \/ \E j \in 1..n : j > i /\ ToolEvent(j, d)
      BY <2>2, <3>1 DEF FeedTells, ToolsFed, n
    <3>3. \A j \in 1..n : j \in 1..(n + 1) /\ (ToolEvent(j, d) => ToolEvent(j, d)')
      BY <1>0 DEF ToolEvent
    <3>4. feed[i].version <= rows'[d].tool
      BY <1>2, <3>1, <3>2
    <3>5. CASE d = c
      <4>1. \E j \in 1..(n + 1) : j > i /\ feed'[j] = e
        BY <1>0, <2>2
      <4>2. \A j \in 1..(n + 1) : feed'[j] = e => ToolEvent(j, c)'
        BY DEF ToolEvent, ToolNews
      <4> QED BY <3>1, <3>4, <3>5, <4>1, <4>2
    <3>6. CASE d # c
      <4>1. rows'[d] = rows[d]
        BY <3>6 DEF ToolNews
      <4> QED BY <3>1, <3>2, <3>3, <4>1
    <3> QED BY <3>5, <3>6
  <2> QED BY <1>1, <2>1, <2>2
<1>6. ToolsFed'
  BY <1>0, <1>5 DEF ToolsFed
<1> QED BY <1>4, <1>6

\* A view that was current before an event of a run is current after it: the event brings
\* what has changed.
LEMMA RunNewsCurrent ==
  ASSUME ViewTypeOK, FeedTells, NEW c \in Chat, NEW r \in Runs, NEW e \in ViewEvents,
         RunNews(e, c, r), NEW d \in Chat, NEW w \in Views
  PROVE  /\ RunsCurrent(w, d) => RunsCurrent(w, d)'
         /\ ToolCurrent(w, d) => ToolCurrent(w, d)'
         /\ ApprovalCurrent(w, d) => ApprovalCurrent(w, d)'
<1> DEFINE n == Len(feed)
<1>0. n \in Nat /\ Len(feed') = n + 1 /\ feed'[n + 1] = e /\ \A i \in 1..n : feed'[i] = feed[i]
  BY TypeParts DEF RunNews, Sent
<1>1. \A i \in 1..(n + 1) : i \in 1..n \/ i = n + 1
  BY <1>0
<1>2. /\ \A s \in Runs : /\ rows[d].runs[s] <= rows'[d].runs[s]
                         /\ rows[d].runs[s] \in Nat /\ rows'[d].runs[s] \in Nat
      /\ \A s \in Runs : ~(d = c /\ s = r) => rows'[d].runs[s] = rows[d].runs[s]
      /\ rows'[d].tool = rows[d].tool
  <2>1. ASSUME NEW s \in Runs
        PROVE  /\ rows[d].runs[s] <= rows'[d].runs[s]
               /\ rows[d].runs[s] \in Nat /\ rows'[d].runs[s] \in Nat
               /\ ~(d = c /\ s = r) => rows'[d].runs[s] = rows[d].runs[s]
    <3>1. rows[d].runs[s] \in Nat
      BY TypeParts
    <3>2. CASE d = c /\ s = r
      BY <3>1, <3>2 DEF RunNews
    <3>3. CASE ~(d = c /\ s = r)
      <4>1. rows'[d].runs[s] = rows[d].runs[s]
        BY <3>3 DEF RunNews
      <4> QED BY <3>1, <4>1
    <3> QED BY <3>2, <3>3
  <2> QED BY <2>1 DEF RunNews
<1> HIDE DEF n
<1>3. \A j \in 1..n : /\ j \in 1..(n + 1)
                      /\ ToolEvent(j, d) => ToolEvent(j, d)'
                      /\ \A s \in Runs : RunEvent(j, d, s) <=> RunEvent(j, d, s)'
  BY <1>0 DEF ToolEvent, RunEvent
<1>4. ASSUME RunsCurrent(w, d)
      PROVE  RunsCurrent(w, d)'
  <2>1. /\ w.live = w.runs
        /\ \A s \in Runs : w.runs[s] \in Nat /\ w.runs[s] <= rows[d].runs[s]
        /\ \A s \in Runs :
             \/ w.runs[s] >= rows[d].runs[s]
             \/ \E j \in 1..n : RunEvent(j, d, s) /\ feed[j].version = rows[d].runs[s]
        /\ \A q \in Runs, i \in 1..n : RunEvent(i, d, q) =>
             /\ w.runs[q] < feed[i].version => \A s \in Runs : w.runs[s] <= feed[i].live[s]
             /\ \A s \in Runs :
                  \/ w.runs[s] >= feed[i].live[s]
                  \/ \E j \in 1..n : /\ j <= i /\ RunEvent(j, d, s)
                                     /\ feed[j].version = feed[i].live[s]
    BY <1>4, ViewParts DEF RunsCurrent, n
  <2>2. \A s \in Runs : w.runs[s] <= rows'[d].runs[s]
    BY <1>2, <2>1
  <2>3. ASSUME NEW s \in Runs
        PROVE  \/ w.runs[s] >= rows'[d].runs[s]
               \/ \E j \in 1..(n + 1) : RunEvent(j, d, s)' /\ feed'[j].version = rows'[d].runs[s]
    <3>1. CASE d = c /\ s = r
      <4>1. n + 1 \in 1..(n + 1)
        BY <1>0
      <4>2. \A j \in 1..(n + 1) : j = n + 1 => RunEvent(j, d, s)' /\ feed'[j] = e
        BY <1>0, <3>1 DEF RunEvent, RunNews
      <4>3. e.version = rows'[d].runs[s]
        BY <3>1 DEF RunNews
      <4> QED BY <4>1, <4>2, <4>3
    <3>2. CASE ~(d = c /\ s = r)
      BY <1>0, <1>2, <1>3, <2>1, <3>2
    <3> QED BY <3>1, <3>2
  <2>4. ASSUME NEW q \in Runs, NEW i \in 1..(n + 1), RunEvent(i, d, q)'
        PROVE  /\ w.runs[q] < feed'[i].version =>
                     \A s \in Runs : w.runs[s] <= feed'[i].live[s]
               /\ \A s \in Runs :
                    \/ w.runs[s] >= feed'[i].live[s]
                    \/ \E j \in 1..(n + 1) : /\ j <= i /\ RunEvent(j, d, s)'
                                             /\ feed'[j].version = feed'[i].live[s]
    <3>1. CASE i \in 1..n
      <4>1. RunEvent(i, d, q) /\ feed'[i] = feed[i]
        BY <1>0, <1>3, <2>4, <3>1
      <4>2. /\ w.runs[q] < feed[i].version => \A s \in Runs : w.runs[s] <= feed[i].live[s]
            /\ \A s \in Runs :
                  \/ w.runs[s] >= feed[i].live[s]
                  \/ \E j \in 1..n : /\ j <= i /\ RunEvent(j, d, s)
                                     /\ feed[j].version = feed[i].live[s]
        BY <2>1, <3>1, <4>1
      <4> QED BY <1>0, <1>3, <4>1, <4>2
    <3>2. CASE i = n + 1
      <4>1. feed'[i].live = rows'[d].runs
        BY <1>0, <2>4, <3>2 DEF RunEvent, RunNews
      <4>2. \A j \in 1..(n + 1) : j <= i
        BY <1>0, <3>2
      <4> QED BY <2>2, <2>3, <4>1, <4>2
    <3> QED BY <1>1, <3>1, <3>2
  <2> QED BY <1>0, <2>1, <2>2, <2>3, <2>4 DEF RunsCurrent
<1>5. ASSUME ToolCurrent(w, d)
      PROVE  ToolCurrent(w, d)'
  BY <1>0, <1>2, <1>3, <1>5 DEF ToolCurrent, n
<1>6. ASSUME ApprovalCurrent(w, d)
      PROVE  ApprovalCurrent(w, d)'
  BY <1>0, <1>2, <1>3, <1>6 DEF ApprovalCurrent, n
<1> QED BY <1>4, <1>5, <1>6

\* The same for an event of a tool.
LEMMA ToolNewsCurrent ==
  ASSUME ViewTypeOK, FeedTells, NEW c \in Chat, NEW e \in ViewEvents,
         ToolNews(e, c), NEW d \in Chat, NEW w \in Views
  PROVE  /\ RunsCurrent(w, d) => RunsCurrent(w, d)'
         /\ ToolCurrent(w, d) => ToolCurrent(w, d)'
         /\ ApprovalCurrent(w, d) => ApprovalCurrent(w, d)'
<1> DEFINE n == Len(feed)
<1>0. n \in Nat /\ Len(feed') = n + 1 /\ feed'[n + 1] = e /\ \A i \in 1..n : feed'[i] = feed[i]
  BY TypeParts DEF ToolNews, Sent
<1>1. \A i \in 1..(n + 1) : i \in 1..n \/ i = n + 1
  BY <1>0
<1>2. /\ rows'[d].runs = rows[d].runs
      /\ rows[d].tool <= rows'[d].tool
      /\ rows[d].tool \in Nat /\ rows'[d].tool \in Nat
      /\ d # c => rows'[d].tool = rows[d].tool
  BY TypeParts DEF ToolNews
<1> HIDE DEF n
<1>3. \A j \in 1..n : /\ j \in 1..(n + 1)
                      /\ ToolEvent(j, d) => ToolEvent(j, d)'
                      /\ \A s \in Runs : RunEvent(j, d, s) <=> RunEvent(j, d, s)'
  BY <1>0 DEF ToolEvent, RunEvent
<1>4. ASSUME RunsCurrent(w, d)
      PROVE  RunsCurrent(w, d)'
  <2>1. /\ w.live = w.runs
        /\ \A s \in Runs : w.runs[s] <= rows[d].runs[s]
        /\ \A s \in Runs :
             \/ w.runs[s] >= rows[d].runs[s]
             \/ \E j \in 1..n : RunEvent(j, d, s) /\ feed[j].version = rows[d].runs[s]
        /\ \A q \in Runs, i \in 1..n : RunEvent(i, d, q) =>
             /\ w.runs[q] < feed[i].version => \A s \in Runs : w.runs[s] <= feed[i].live[s]
             /\ \A s \in Runs :
                  \/ w.runs[s] >= feed[i].live[s]
                  \/ \E j \in 1..n : /\ j <= i /\ RunEvent(j, d, s)
                                     /\ feed[j].version = feed[i].live[s]
    BY <1>4 DEF RunsCurrent, n
  <2>2. \A q \in Runs, i \in 1..(n + 1) : RunEvent(i, d, q)' => i \in 1..n
    BY <1>0, <1>1 DEF RunEvent, ToolNews
  <2>3. ASSUME NEW s \in Runs
        PROVE  \/ w.runs[s] >= rows'[d].runs[s]
               \/ \E j \in 1..(n + 1) : RunEvent(j, d, s)' /\ feed'[j].version = rows'[d].runs[s]
    BY <1>0, <1>2, <1>3, <2>1
  <2>4. ASSUME NEW q \in Runs, NEW i \in 1..(n + 1), RunEvent(i, d, q)'
        PROVE  /\ w.runs[q] < feed'[i].version =>
                     \A s \in Runs : w.runs[s] <= feed'[i].live[s]
               /\ \A s \in Runs :
                    \/ w.runs[s] >= feed'[i].live[s]
                    \/ \E j \in 1..(n + 1) : /\ j <= i /\ RunEvent(j, d, s)'
                                             /\ feed'[j].version = feed'[i].live[s]
    <3>1. i \in 1..n /\ RunEvent(i, d, q) /\ feed'[i] = feed[i]
      BY <1>0, <1>3, <2>2, <2>4
    <3>2. /\ w.runs[q] < feed[i].version => \A s \in Runs : w.runs[s] <= feed[i].live[s]
          /\ \A s \in Runs :
                \/ w.runs[s] >= feed[i].live[s]
                \/ \E j \in 1..n : /\ j <= i /\ RunEvent(j, d, s)
                                   /\ feed[j].version = feed[i].live[s]
      BY <2>1, <3>1
    <3> QED BY <1>0, <1>3, <3>1, <3>2
  <2> QED BY <1>0, <1>2, <2>1, <2>3, <2>4 DEF RunsCurrent
<1>5. d = c => \E j \in 1..(n + 1) : ToolEvent(j, d)' /\ feed'[j].version = rows'[d].tool
  <2>1. n + 1 \in 1..(n + 1)
    BY <1>0
  <2>2. \A j \in 1..(n + 1) : d = c /\ j = n + 1 => ToolEvent(j, d)' /\ feed'[j] = e
    BY <1>0 DEF ToolEvent, ToolNews
  <2>3. e.version = rows'[c].tool
    BY DEF ToolNews
  <2> QED BY <2>1, <2>2, <2>3
<1>6. ASSUME ToolCurrent(w, d)
      PROVE  ToolCurrent(w, d)'
  <2>1. w.tool \in Nat /\ w.tool <= rows'[d].tool
    BY <1>2, <1>6, ViewParts DEF ToolCurrent
  <2>2. CASE d = c
    BY <1>0, <1>5, <2>1, <2>2 DEF ToolCurrent
  <2>3. CASE d # c
    BY <1>0, <1>2, <1>3, <1>6, <2>1, <2>3 DEF ToolCurrent, n
  <2> QED BY <2>2, <2>3
<1>7. ASSUME ApprovalCurrent(w, d)
      PROVE  ApprovalCurrent(w, d)'
  <2>2. CASE d = c
    BY <1>0, <1>5, <2>2 DEF ApprovalCurrent
  <2>3. CASE d # c
    BY <1>0, <1>2, <1>3, <1>7, <2>3 DEF ApprovalCurrent, n
  <2> QED BY <2>2, <2>3
<1> QED BY <1>4, <1>6, <1>7

----------------------------------------------------------------------------
(***************************************************************************)
(* The first event of the feed is delivered.                               *)
(***************************************************************************)

\* What a delivery leaves true of the feed.
LEMMA DeliveredFeed ==
  ASSUME ViewTypeOK, FeedTells, Shorter, rows' = rows
  PROVE  RunsFed' /\ ToolsFed'
<1> DEFINE n == Len(feed) - 1
<1>0. /\ n \in Nat /\ Len(feed) = n + 1 /\ Len(feed') = n
      /\ \A i \in 1..n : i + 1 \in 1..(n + 1) /\ feed'[i] = feed[i + 1]
      /\ \A j \in 1..(n + 1) : j > 1 => j - 1 \in 1..n /\ feed'[j - 1] = feed[j]
  <2>1. n \in Nat /\ Len(feed) = n + 1 /\ Len(feed') = n
    BY DEF Shorter
  <2> HIDE DEF n
  <2>2. \A i \in 1..n : i \in 1..Len(feed) /\ i # Len(feed) /\ i + 1 \in 1..(n + 1)
    BY <2>1
  <2>3. \A i \in 1..n : feed'[i] = feed[i + 1]
    BY <2>2 DEF Shorter
  <2>4. \A j \in 1..(n + 1) : j > 1 => j - 1 \in 1..n /\ (j - 1) + 1 = j
    BY <2>1
  <2> QED BY <2>1, <2>2, <2>3, <2>4
<1> HIDE DEF n
<1>3. ASSUME NEW d \in Chat, NEW s \in Runs, NEW i \in 1..n, RunEvent(i, d, s)'
      PROVE  /\ feed'[i].live[s] = feed'[i].version
             /\ \A t \in Runs : feed'[i].live[t] <= rows'[d].runs[t]
             /\ \A q \in Runs, j \in 1..n : j > i /\ RunEvent(j, d, q)' =>
                  \A t \in Runs : feed'[i].live[t] <= feed'[j].live[t]
  <2>1. \A j \in 1..n, q \in Runs : RunEvent(j, d, q)' => RunEvent(j + 1, d, q)
    BY <1>0 DEF RunEvent
  <2>2. /\ feed[i + 1].live[s] = feed[i + 1].version
        /\ \A t \in Runs : feed[i + 1].live[t] <= rows[d].runs[t]
        /\ \A q \in Runs, j \in 1..(n + 1) : j > i + 1 /\ RunEvent(j, d, q) =>
             \A t \in Runs : feed[i + 1].live[t] <= feed[j].live[t]
    <3>1. PICK k \in 1..(n + 1) : k = i + 1 /\ RunEvent(k, d, s)
      BY <1>0, <1>3, <2>1
    <3>2. /\ feed[k].live[s] = feed[k].version
          /\ \A t \in Runs : feed[k].live[t] <= rows[d].runs[t]
          /\ \A q \in Runs, j \in 1..(n + 1) : j > k /\ RunEvent(j, d, q) =>
               \A t \in Runs : feed[k].live[t] <= feed[j].live[t]
      BY <1>0, <3>1 DEF FeedTells, RunsFed
    <3> QED BY <3>1, <3>2
  <2>3. \A j \in 1..n : j > i => j + 1 > i + 1
    BY <1>0
  <2> QED BY <1>0, <2>1, <2>2, <2>3
<1>4. RunsFed'
  BY <1>0, <1>3 DEF RunsFed
<1>5. ASSUME NEW d \in Chat, NEW i \in 1..n, ToolEvent(i, d)'
      PROVE  /\ feed'[i].version <= rows'[d].tool
             /\ \/ feed'[i].version = rows'[d].tool
                \/ \E j \in 1..n : j > i /\ ToolEvent(j, d)'
  <2>1. ToolEvent(i + 1, d)
    BY <1>0, <1>5 DEF ToolEvent
  <2>2. /\ feed[i + 1].version <= rows[d].tool
        /\ \/ feed[i + 1].version = rows[d].tool
           \/ \E j \in 1..(n + 1) : j > i + 1 /\ ToolEvent(j, d)
    <3>1. PICK k \in 1..(n + 1) : k = i + 1 /\ ToolEvent(k, d)
      BY <1>0, <2>1
    <3>2. /\ feed[k].version <= rows[d].tool
          /\ \/ feed[k].version = rows[d].tool
             \/ \E j \in 1..(n + 1) : j > k /\ ToolEvent(j, d)
      BY <1>0, <3>1 DEF FeedTells, ToolsFed
    <3> QED BY <3>1, <3>2
  <2>3. ASSUME NEW j \in 1..(n + 1), j > i + 1, ToolEvent(j, d)
        PROVE  \E k \in 1..n : k > i /\ ToolEvent(k, d)'
    <3>1. j > 1 /\ j - 1 > i
      BY <2>3
    <3>2. PICK k \in 1..n : k = j - 1
      BY <1>0, <3>1
    <3>3. feed'[k] = feed[j]
      BY <1>0, <3>1, <3>2
    <3> QED BY <2>3, <3>1, <3>2, <3>3 DEF ToolEvent
  <2> QED BY <1>0, <2>2, <2>3
<1>6. ToolsFed'
  BY <1>0, <1>5 DEF ToolsFed
<1> QED BY <1>4, <1>6

\* A view that merges the event, if it is one of its conversation, is as current as it was:
\* nothing was taken back, and the live state of a winning event is that of the runs.
LEMMA DeliveredCurrent ==
  ASSUME ViewTypeOK, FeedTells, Shorter, rows' = rows, NEW e \in ViewEvents, e = Head(feed),
         NEW d \in Chat, NEW w \in Views, NEW u \in Views,
         e.chat = d => Merged(u, w, e), e.chat # d => u = w
  PROVE  /\ RunsCurrent(w, d) => RunsCurrent(u, d)'
         /\ ToolCurrent(w, d) => ToolCurrent(u, d)'
         /\ ApprovalCurrent(w, d) => ApprovalCurrent(u, d)'
         /\ e.chat = d /\ e.kind = "tool" => ApprovalCurrent(u, d)'
<1> DEFINE n == Len(feed) - 1
<1>0. /\ n \in Nat /\ Len(feed) = n + 1 /\ Len(feed') = n
      /\ \A i \in 1..n : i + 1 \in 1..(n + 1) /\ feed'[i] = feed[i + 1]
      /\ \A j \in 1..(n + 1) : j > 1 => j - 1 \in 1..n /\ feed'[j - 1] = feed[j]
      /\ feed[1] = e /\ 1 \in 1..(n + 1)
  <2>1. n \in Nat /\ Len(feed) = n + 1 /\ Len(feed') = n /\ feed[1] = e
    BY DEF Shorter
  <2> HIDE DEF n
  <2>2. \A i \in 1..n : i \in 1..Len(feed) /\ i # Len(feed) /\ i + 1 \in 1..(n + 1)
    BY <2>1
  <2>3. \A i \in 1..n : feed'[i] = feed[i + 1]
    BY <2>2 DEF Shorter
  <2>4. \A j \in 1..(n + 1) : j > 1 => j - 1 \in 1..n /\ (j - 1) + 1 = j
    BY <2>1
  <2> QED BY <2>1, <2>2, <2>3, <2>4
<1> HIDE DEF n
<1>1. \A i \in 1..n : /\ i + 1 > 1
                      /\ ToolEvent(i, d)' <=> ToolEvent(i + 1, d)
                      /\ \A s \in Runs : RunEvent(i, d, s)' <=> RunEvent(i + 1, d, s)
  BY <1>0 DEF ToolEvent, RunEvent
\* What an event further back brought is brought still.
<1>2. ASSUME NEW j \in 1..(n + 1), j > 1
      PROVE  \E k \in 1..n : /\ k = j - 1 /\ feed'[k] = feed[j]
                             /\ ToolEvent(k, d)' <=> ToolEvent(j, d)
                             /\ \A s \in Runs : RunEvent(k, d, s)' <=> RunEvent(j, d, s)
  <2>1. PICK k \in 1..n : k = j - 1
    BY <1>0, <1>2
  <2>2. feed'[k] = feed[j] /\ k + 1 = j
    BY <1>0, <1>2, <2>1
  <2> QED BY <1>1, <2>1, <2>2
<1>3. \A j \in 1..(n + 1) : j = 1 \/ j > 1
  OBVIOUS
<1>4. ASSUME RunsCurrent(w, d)
      PROVE  RunsCurrent(u, d)'
  <2>1. /\ w.live = w.runs
        /\ \A s \in Runs : /\ w.runs[s] \in Nat /\ u.runs[s] \in Nat /\ rows[d].runs[s] \in Nat
                           /\ w.runs[s] <= rows[d].runs[s]
        /\ \A s \in Runs :
             \/ w.runs[s] >= rows[d].runs[s]
             \/ \E j \in 1..(n + 1) : RunEvent(j, d, s) /\ feed[j].version = rows[d].runs[s]
        /\ \A q \in Runs, i \in 1..(n + 1) : RunEvent(i, d, q) =>
             /\ w.runs[q] < feed[i].version => \A s \in Runs : w.runs[s] <= feed[i].live[s]
             /\ \A s \in Runs :
                  \/ w.runs[s] >= feed[i].live[s]
                  \/ \E j \in 1..(n + 1) : /\ j <= i /\ RunEvent(j, d, s)
                                           /\ feed[j].version = feed[i].live[s]
    BY <1>0, <1>4, ViewParts, TypeParts DEF RunsCurrent
  <2>2. \A i \in 1..(n + 1) : /\ feed[i].version \in Nat
                              /\ \A s \in Runs : feed[i].live[s] \in Nat
    BY <1>0, TypeParts, EventParts
  <2>3. /\ u.live = u.runs
        /\ \A s \in Runs : u.runs[s] >= w.runs[s] /\ u.runs[s] <= rows[d].runs[s]
        /\ \A s \in Runs : RunEvent(1, d, s) => u.runs[s] >= e.version
        /\ \A q \in Runs, i \in 1..(n + 1) :
             i > 1 /\ RunEvent(i, d, q) /\ u.runs[q] < feed[i].version =>
               \A s \in Runs : u.runs[s] <= feed[i].live[s]
    <3>1. CASE e.chat = d /\ e.kind = "run" /\ w.runs[e.run] < e.version
      <4>1. e.run \in Runs /\ RunEvent(1, d, e.run)
        BY <1>0, <3>1, EventParts DEF RunEvent
      <4>2. /\ u.runs[e.run] = e.version /\ u.live = e.live
            /\ \A s \in Runs : s # e.run => u.runs[s] = w.runs[s]
        BY <3>1 DEF Merged
      <4>3. /\ e.live[e.run] = e.version
            /\ \A s \in Runs : e.live[s] <= rows[d].runs[s]
            /\ \A q \in Runs, j \in 1..(n + 1) : j > 1 /\ RunEvent(j, d, q) =>
                 \A s \in Runs : e.live[s] <= feed[j].live[s]
        BY <1>0, <4>1 DEF FeedTells, RunsFed
      <4>4. ASSUME NEW s \in Runs, s # e.run
            PROVE  u.runs[s] = e.live[s]
        <5>1. w.runs[s] <= e.live[s]
          BY <1>0, <2>1, <3>1, <4>1
        <5>2. \/ w.runs[s] >= e.live[s]
              \/ \E j \in 1..(n + 1) : j <= 1 /\ RunEvent(j, d, s)
          BY <1>0, <2>1, <4>1
        <5>3. ~ \E j \in 1..(n + 1) : j <= 1 /\ RunEvent(j, d, s)
          BY <1>0, <4>4 DEF RunEvent
        <5>4. w.runs[s] \in Nat /\ e.live[s] \in Nat
          BY <1>0, <2>1, <2>2
        <5> QED BY <4>2, <4>4, <5>1, <5>2, <5>3, <5>4
      <4>5. \A s \in Runs : u.runs[s] = e.live[s]
        BY <4>2, <4>3, <4>4
      <4>6. u.runs = e.live
        <5>1. u.runs \in [Runs -> 0..MaxChanges] /\ e.live \in [Runs -> 0..MaxChanges]
          BY ViewParts, EventParts
        <5> QED BY <4>5, <5>1
      <4>7. \A s \in Runs : u.runs[s] >= w.runs[s]
        <5>1. e.version \in Nat /\ w.runs[e.run] \in Nat
          BY <2>1, <4>1, EventParts
        <5> QED BY <2>1, <3>1, <4>2, <5>1
      <4>8. \A s \in Runs : RunEvent(1, d, s) => s = e.run
        BY <1>0 DEF RunEvent
      <4>9. e.version \in Nat
        BY EventParts
      <4> QED BY <4>2, <4>3, <4>5, <4>6, <4>7, <4>8, <4>9
    <3>2. CASE ~(e.chat = d /\ e.kind = "run" /\ w.runs[e.run] < e.version)
      <4>1. u.runs = w.runs /\ u.live = w.live
        BY <2>1, <3>2, EventParts DEF Merged
      <4>2. ASSUME NEW s \in Runs, RunEvent(1, d, s)
            PROVE  w.runs[s] >= e.version
        <5>1. e.chat = d /\ e.kind = "run" /\ e.run = s
          BY <1>0, <4>2 DEF RunEvent
        <5>2. e.version \in Nat /\ w.runs[s] \in Nat
          BY <2>1, EventParts
        <5> QED BY <3>2, <5>1, <5>2
      <4> QED BY <2>1, <4>1, <4>2
    <3> QED BY <3>1, <3>2
  <2>4. ASSUME NEW s \in Runs
        PROVE  \/ u.runs[s] >= rows[d].runs[s]
               \/ \E j \in 1..n : RunEvent(j, d, s)' /\ feed'[j].version = rows[d].runs[s]
    <3>1. CASE w.runs[s] >= rows[d].runs[s]
      BY <2>1, <2>3, <3>1
    <3>2. ASSUME NEW j \in 1..(n + 1), RunEvent(j, d, s), feed[j].version = rows[d].runs[s]
          PROVE  \/ u.runs[s] >= rows[d].runs[s]
                 \/ \E k \in 1..n : RunEvent(k, d, s)' /\ feed'[k].version = rows[d].runs[s]
      <4>1. CASE j = 1
        BY <1>0, <2>3, <3>2, <4>1
      <4>2. CASE j > 1
        <5>1. PICK k \in 1..n : /\ feed'[k] = feed[j]
                                /\ RunEvent(k, d, s)' <=> RunEvent(j, d, s)
          BY <1>2, <4>2
        <5> QED BY <3>2, <5>1
      <4> QED BY <1>3, <4>1, <4>2
    <3> QED BY <2>1, <3>1, <3>2
  <2>5. ASSUME NEW q \in Runs, NEW i \in 1..n, RunEvent(i, d, q)'
        PROVE  /\ u.runs[q] < feed'[i].version =>
                     \A s \in Runs : u.runs[s] <= feed'[i].live[s]
               /\ \A s \in Runs :
                    \/ u.runs[s] >= feed'[i].live[s]
                    \/ \E k \in 1..n : /\ k <= i /\ RunEvent(k, d, s)'
                                       /\ feed'[k].version = feed'[i].live[s]
    <3>1. PICK p \in 1..(n + 1) : p = i + 1 /\ p > 1 /\ feed'[i] = feed[p] /\ RunEvent(p, d, q)
      BY <1>0, <1>1, <2>5
    <3>2. u.runs[q] < feed[p].version => \A s \in Runs : u.runs[s] <= feed[p].live[s]
      BY <2>3, <3>1
    <3>3. ASSUME NEW s \in Runs
          PROVE  \/ u.runs[s] >= feed[p].live[s]
                 \/ \E k \in 1..n : /\ k <= i /\ RunEvent(k, d, s)'
                                    /\ feed'[k].version = feed[p].live[s]
      <4>1. CASE w.runs[s] >= feed[p].live[s]
        <5>1. u.runs[s] >= w.runs[s] /\ u.runs[s] \in Nat /\ w.runs[s] \in Nat
              /\ feed[p].live[s] \in Nat
          BY <2>1, <2>2, <2>3
        <5> QED BY <4>1, <5>1
      <4>2. ASSUME NEW j \in 1..(n + 1), j <= p, RunEvent(j, d, s),
                   feed[j].version = feed[p].live[s]
            PROVE  \/ u.runs[s] >= feed[p].live[s]
                   \/ \E k \in 1..n : /\ k <= i /\ RunEvent(k, d, s)'
                                      /\ feed'[k].version = feed[p].live[s]
        <5>1. CASE j = 1
          BY <1>0, <2>3, <4>2, <5>1
        <5>2. CASE j > 1
          <6>1. PICK k \in 1..n : /\ k = j - 1 /\ feed'[k] = feed[j]
                                  /\ RunEvent(k, d, s)' <=> RunEvent(j, d, s)
            BY <1>2, <5>2
          <6>2. k <= i
            BY <3>1, <4>2, <6>1
          <6> QED BY <4>2, <6>1, <6>2
        <5> QED BY <1>3, <5>1, <5>2
      <4>3. \/ w.runs[s] >= feed[p].live[s]
            \/ \E j \in 1..(n + 1) : /\ j <= p /\ RunEvent(j, d, s)
                                     /\ feed[j].version = feed[p].live[s]
        BY <2>1, <3>1
      <4> QED BY <4>1, <4>2, <4>3
    <3> QED BY <3>1, <3>2, <3>3
  <2>6. /\ u.live = u.runs
        /\ \A s \in Runs : u.runs[s] <= rows'[d].runs[s]
        /\ \A s \in Runs :
             \/ u.runs[s] >= rows'[d].runs[s]
             \/ \E j \in 1..Len(feed') : RunEvent(j, d, s)' /\ feed'[j].version = rows'[d].runs[s]
    BY <1>0, <2>3, <2>4
  <2>7. \A q \in Runs, i \in 1..Len(feed') : RunEvent(i, d, q)' =>
          /\ u.runs[q] < feed'[i].version => \A s \in Runs : u.runs[s] <= feed'[i].live[s]
          /\ \A s \in Runs :
               \/ u.runs[s] >= feed'[i].live[s]
               \/ \E k \in 1..Len(feed') : /\ k <= i /\ RunEvent(k, d, s)'
                                           /\ feed'[k].version = feed'[i].live[s]
    BY <1>0, <2>5
  <2> QED BY ONLY <2>6, <2>7, Zenon DEF RunsCurrent
<1>5. ASSUME ToolCurrent(w, d)
      PROVE  ToolCurrent(u, d)'
  <2>1. /\ w.tool \in Nat /\ u.tool \in Nat /\ rows[d].tool \in Nat /\ e.version \in Nat
    BY ViewParts, TypeParts, EventParts
  <2>2. /\ w.tool <= rows[d].tool
        /\ \/ w.tool >= rows[d].tool
           \/ \E j \in 1..(n + 1) : ToolEvent(j, d) /\ feed[j].version = rows[d].tool
    BY <1>0, <1>5 DEF ToolCurrent
  <2>3. ToolEvent(1, d) => e.version <= rows[d].tool
    BY <1>0 DEF FeedTells, ToolsFed
  <2>4. /\ u.tool >= w.tool /\ u.tool <= rows[d].tool
        /\ ToolEvent(1, d) => u.tool >= e.version
    <3>1. CASE ToolEvent(1, d)
      <4>1. e.chat = d /\ e.kind = "tool"
        BY <1>0, <3>1 DEF ToolEvent
      <4>2. /\ w.tool >= e.version => u.tool = w.tool
            /\ w.tool < e.version => u.tool = e.version
        BY <4>1 DEF Merged
      <4> QED BY <2>1, <2>2, <2>3, <3>1, <4>2
    <3>2. CASE ~ToolEvent(1, d)
      <4>1. e.chat = d => e.kind = "run"
        BY <1>0, <3>2, EventParts DEF ToolEvent
      <4>2. e.run \in Runs
        BY EventParts
      <4>3. w.runs[e.run] \in Nat
        BY <4>2, ViewParts
      <4>4. u.tool = w.tool
        BY <2>1, <4>1, <4>3 DEF Merged
      <4> QED BY <2>1, <2>2, <3>2, <4>4
    <3> QED BY <3>1, <3>2
  <2>5. \/ u.tool >= rows[d].tool
        \/ \E k \in 1..n : ToolEvent(k, d)' /\ feed'[k].version = rows[d].tool
    <3>1. CASE w.tool >= rows[d].tool
      BY <2>1, <2>4, <3>1
    <3>2. ASSUME NEW j \in 1..(n + 1), ToolEvent(j, d), feed[j].version = rows[d].tool
          PROVE  \/ u.tool >= rows[d].tool
                 \/ \E k \in 1..n : ToolEvent(k, d)' /\ feed'[k].version = rows[d].tool
      <4>1. CASE j = 1
        BY <1>0, <2>4, <3>2, <4>1
      <4>2. CASE j > 1
        <5>1. PICK k \in 1..n : feed'[k] = feed[j] /\ (ToolEvent(k, d)' <=> ToolEvent(j, d))
          BY <1>2, <4>2
        <5> QED BY <3>2, <5>1
      <4> QED BY <1>3, <4>1, <4>2
    <3> QED BY <2>2, <3>1, <3>2
  <2> QED BY <1>0, <2>4, <2>5 DEF ToolCurrent
<1>6. ASSUME NEW j \in 1..(n + 1), j > 1, ToolEvent(j, d)
      PROVE  \E k \in 1..n : ToolEvent(k, d)'
  BY <1>2, <1>6
<1>7. ASSUME ToolEvent(1, d)
      PROVE  ApprovalCurrent(u, d)'
  <2>1. e.version = rows[d].tool \/ \E j \in 1..(n + 1) : j > 1 /\ ToolEvent(j, d)
    BY <1>0, <1>7 DEF FeedTells, ToolsFed
  <2>2. u.approval = (e.version = 1)
    BY <1>0, <1>7 DEF ToolEvent, Merged
  <2> QED BY <1>0, <1>6, <2>1, <2>2 DEF ApprovalCurrent
<1>8. ASSUME ApprovalCurrent(w, d), ~ToolEvent(1, d)
      PROVE  ApprovalCurrent(u, d)'
  <2>1. u.approval = w.approval
    <3>1. e.chat = d => e.kind = "run"
      BY <1>0, <1>8, EventParts DEF ToolEvent
    <3>2. e.run \in Runs /\ e.version \in Nat
      BY EventParts
    <3>3. w.runs[e.run] \in Nat
      BY <3>2, ViewParts
    <3> QED BY <3>1, <3>2, <3>3 DEF Merged
  <2>2. w.approval = (rows[d].tool = 1) \/ \E j \in 1..(n + 1) : ToolEvent(j, d)
    BY <1>0, <1>8 DEF ApprovalCurrent
  <2>3. \A j \in 1..(n + 1) : ToolEvent(j, d) => j > 1
    BY <1>3, <1>8
  <2> QED BY <1>0, <1>6, <2>1, <2>2, <2>3 DEF ApprovalCurrent
<1>9. e.chat = d /\ e.kind = "tool" => ToolEvent(1, d)
  BY <1>0 DEF ToolEvent
<1> QED BY <1>4, <1>5, <1>7, <1>8, <1>9

\* What the first event tells is in the rows.
LEMMA HeadTells ==
  ASSUME ViewTypeOK, FeedTells, Shorter, NEW e \in ViewEvents, e = Head(feed)
  PROVE  /\ e.kind = "run" => e.version <= rows[e.chat].runs[e.run]
         /\ e.kind = "tool" => e.version <= rows[e.chat].tool /\ e.version <= 2
<1>1. feed[1] = e /\ 1 \in 1..Len(feed) /\ e.chat \in Chat /\ e.run \in Runs /\ e.version \in Nat
  BY EventParts DEF Shorter
<1>2. ASSUME e.kind = "run"
      PROVE  e.version <= rows[e.chat].runs[e.run]
  <2>1. RunEvent(1, e.chat, e.run)
    BY <1>1, <1>2 DEF RunEvent
  <2> QED BY <1>1, <2>1 DEF FeedTells, RunsFed
<1>3. ASSUME e.kind = "tool"
      PROVE  e.version <= rows[e.chat].tool /\ e.version <= 2
  <2>1. ToolEvent(1, e.chat)
    BY <1>1, <1>3 DEF ToolEvent
  <2>2. e.version <= rows[e.chat].tool
    BY <1>1, <2>1 DEF FeedTells, ToolsFed
  <2>3. rows[e.chat].tool \in 0..2
    BY <1>1, TypeParts
  <2> QED BY <1>1, <2>2, <2>3
<1> QED BY <1>2, <1>3

----------------------------------------------------------------------------
(***************************************************************************)
(* What a step leaves alone.                                               *)
(***************************************************************************)

OpenRecord ==
  [chat : Chat \cup {Nothing}, pending : SUBSET Reads, step : {"none", "flush", "session", "reads"},
   failed : BOOLEAN, got : Views]

\* The blank view, and the load that is none.
LEMMA Blanks ==
  /\ Blank \in Views /\ NoOpen \in OpenRecord
  /\ NoOpen.step = "none" /\ NoOpen.failed = FALSE
<1>1. Blank \in Views
  BY Bounds DEF Blank, Views, NoVersions
<1>2. NoOpen \in OpenRecord
  BY <1>1 DEF NoOpen, OpenRecord
<1> QED BY <1>1, <1>2 DEF NoOpen

\* The type of the loads.
LEMMA OpensTyped ==
  ASSUME ViewTypeOK
  PROVE  opens \in [1..MaxOpens -> OpenRecord]
BY DEF ViewTypeOK, OpenRecord

\* The versions of the rows and the feed are all that being current depends on.
LEMMA CurrentStays ==
  ASSUME rows' = rows, feed' = feed, NEW w, NEW c
  PROVE  /\ RunsCurrent(w, c)' <=> RunsCurrent(w, c)
         /\ ToolCurrent(w, c)' <=> ToolCurrent(w, c)
         /\ ApprovalCurrent(w, c)' <=> ApprovalCurrent(w, c)
BY DEF RunsCurrent, ToolCurrent, ApprovalCurrent, RunEvent, ToolEvent

\* The feed is told of by the rows and the changes alone.
LEMMA FeedTellsStays ==
  ASSUME FeedTells, UNCHANGED <<rows, feed, changes>>
  PROVE  FeedTells'
BY DEF FeedTells, Counted, RunsFed, ToolsFed, RunEvent, ToolEvent

\* Merging depends on the buffer alone.
LEMMA MergedStays ==
  ASSUME buffer' = buffer, NEW v
  PROVE  mergeBufferedEvents(v)' = mergeBufferedEvents(v)
<1>1. mergeBufferedEvents(v)' = MergedAll(buffer', v)[Len(buffer')]
  BY MergedPrime
<1>2. mergeBufferedEvents(v) = MergedAll(buffer, v)[Len(buffer)]
  BY Zenon DEF mergeBufferedEvents, MergedAll
<1> QED BY <1>1, <1>2

\* The conversation being loaded may change only to none.
LEMMA BufferMergesStays ==
  ASSUME BufferMerges, UNCHANGED <<rows, feed, buffer>>,
         loadingSession' = loadingSession \/ loadingSession' = Nothing
  PROVE  BufferMerges'
<1>1. \A v \in Views : mergeBufferedEvents(v)' = mergeBufferedEvents(v)
  BY MergedStays
<1>2. \A v \in Views : mergeBufferedEvents(v)' \in Views
  BY <1>1 DEF BufferMerges
<1>3. ASSUME NEW v \in Views, NEW m \in Views, mergeBufferedEvents(v)' = m
      PROVE  MergeTells(v, m, loadingSession)'
  <2>1. MergeTells(v, m, loadingSession)
    BY <1>1, <1>3 DEF BufferMerges
  <2>2. \A c \in Chat : ApprovalCurrent(m, c)' <=> ApprovalCurrent(m, c)
    BY CurrentStays
  <2>3. CASE loadingSession' = loadingSession
    <3>1. loadingSession \in Chat =>
            (ApprovalCurrent(m, loadingSession)' <=> ApprovalCurrent(m, loadingSession))
      BY <2>3 DEF ApprovalCurrent, ToolEvent
    <3> QED BY <2>1, <2>3, <3>1 DEF MergeTells
  <2>4. CASE loadingSession' = Nothing
    <3>1. loadingSession' \notin Chat
      BY <2>4, Bounds DEF Nothing
    <3> QED BY <2>1, <3>1 DEF MergeTells
  <2> QED BY <2>3, <2>4
<1>4. \A u, v, m, k \in Views :
        mergeBufferedEvents(u)' = m /\ mergeBufferedEvents(v)' = k => MergesApart(u, v, m, k)'
  BY <1>1 DEF BufferMerges, MergesApart
<1> QED BY <1>2, <1>3, <1>4 DEF BufferMerges

\* Loads that do not read yet, or no more; and none of them is the current one unless it was.
LEMMA ReadingStays ==
  ASSUME Reading,
         \A k \in 1..MaxOpens :
           \/ opens'[k] = opens[k]
           \/ /\ opens'[k].step # "reads" /\ ~opens'[k].failed
              /\ opens'[k].step # "none" => opens'[k].chat \in Chat,
         \/ \A k \in 1..MaxOpens : opens'[k].step = "reads" => k # openRequest'
         \/ UNCHANGED <<rows, feed, shown, view, buffer, loadingSession, openRequest>>
  PROVE  Reading'
<1> SUFFICES ASSUME NEW n \in 1..MaxOpens
             PROVE  /\ opens'[n].failed => opens'[n].step = "reads"
                    /\ opens'[n].step # "none" => opens'[n].chat \in Chat
                    /\ opens'[n].step = "reads" /\ n = openRequest' =>
                         loadingSession' = opens'[n].chat
                    /\ \A c \in Chat, v, m \in Views, p \in SUBSET Reads :
                         /\ LoadOf(n, c)' /\ ~opens'[n].failed /\ opens'[n].pending = p
                         /\ opens'[n].got = v /\ mergeBufferedEvents(v)' = m
                         => ReadTells(p, v, m, c)'
  BY DEF Reading
<1>1. /\ opens[n].failed => opens[n].step = "reads"
      /\ opens[n].step # "none" => opens[n].chat \in Chat
      /\ opens[n].step = "reads" /\ n = openRequest => loadingSession = opens[n].chat
  BY DEF Reading
<1>2. /\ opens'[n].failed => opens'[n].step = "reads"
      /\ opens'[n].step # "none" => opens'[n].chat \in Chat
  BY <1>1
<1>3. CASE \A k \in 1..MaxOpens : opens'[k].step = "reads" => k # openRequest'
  BY <1>2, <1>3 DEF LoadOf
<1>4. CASE UNCHANGED <<rows, feed, shown, view, buffer, loadingSession, openRequest>>
  <2>1. opens'[n].step = "reads" => opens'[n] = opens[n]
    OBVIOUS
  <2>2. ASSUME NEW c \in Chat, NEW v \in Views, NEW m \in Views, NEW p \in SUBSET Reads,
               LoadOf(n, c)', ~opens'[n].failed, opens'[n].pending = p,
               opens'[n].got = v, mergeBufferedEvents(v)' = m
        PROVE  ReadTells(p, v, m, c)'
    <3>1. opens'[n] = opens[n] /\ LoadOf(n, c) /\ mergeBufferedEvents(v) = m
      BY <1>4, <2>1, <2>2, MergedStays DEF LoadOf
    <3>2. ReadTells(p, v, m, c)
      BY <2>2, <3>1 DEF Reading
    <3> QED BY <1>4, <3>2, CurrentStays DEF ReadTells
  <2>3. opens'[n].step = "reads" /\ n = openRequest' => loadingSession' = opens'[n].chat
    BY <1>1, <1>4, <2>1
  <2> QED BY <1>2, <2>2, <2>3
<1> QED BY <1>3, <1>4

\* What is shown, and whether it must be current, does not change.
LEMMA ShowingStays ==
  ASSUME Showing, UNCHANGED <<rows, feed, shown, view>>,
         \A c \in Chat : shown = c /\ loadingSession' # c /\ ~vain' => loadingSession # c /\ ~vain
  PROVE  Showing'
<1> SUFFICES ASSUME NEW c \in Chat, NEW w \in Views, shown = c, view = w
             PROVE  /\ \A r \in Runs : w.runs[r] <= rows[c].runs[r]
                    /\ w.tool <= rows[c].tool
                    /\ loadingSession' # c /\ ~vain' => /\ RunsCurrent(w, c)'
                                                        /\ ToolCurrent(w, c)'
                                                        /\ ApprovalCurrent(w, c)'
  BY DEF Showing
<1> QED BY CurrentStays DEF Showing

----------------------------------------------------------------------------
(***************************************************************************)
(* Every action keeps the invariant.                                       *)
(***************************************************************************)

\* The first effect of App finds nothing open.
LEMMA InvInitially ==
  ASSUME ViewInit
  PROVE  ViewInv
<1>1. ViewTypeOK
  <2>1. rows \in [Chat -> [runs : [Runs -> 0..MaxChanges], tool : 0..2]]
    BY Bounds DEF ViewInit, NoVersions
  <2>2. opens \in [1..MaxOpens -> OpenRecord]
    BY Blanks DEF ViewInit
  <2>3. view \in Views
    BY Blanks DEF ViewInit
  <2>4. feed \in Seq(ViewEvents) /\ buffer \in Seq(ViewEvents)
    BY EmptySeq DEF ViewInit
  <2>5. changes \in 0..MaxChanges /\ openRequest \in 0..MaxOpens
    BY Bounds DEF ViewInit
  <2> QED BY <2>1, <2>2, <2>3, <2>4, <2>5 DEF ViewInit, ViewTypeOK, OpenRecord, NoRemoval
<1>2. FeedTells
  <2>1. \A c \in Chat : (\A r \in Runs : rows[c].runs[r] <= changes) /\ rows[c].tool <= changes
    <3>1. \A c \in Chat : (\A r \in Runs : rows[c].runs[r] = 0) /\ rows[c].tool = 0
      BY DEF ViewInit, NoVersions
    <3>2. changes = 0
      BY DEF ViewInit
    <3>3. 0 <= 0
      OBVIOUS
    <3> QED BY <3>1, <3>2, <3>3, Zenon
  <2>2. 1..Len(feed) = {}
    BY DEF ViewInit
  <2> QED BY <2>1, <2>2 DEF FeedTells, Counted, RunsFed, ToolsFed
<1>3. BufferMerges
  <2>1. \A v \in Views : mergeBufferedEvents(v) = v
    BY BufferEmpty DEF ViewInit
  <2>2. loadingSession \notin Chat
    BY Bounds DEF ViewInit
  <2>3. ASSUME NEW v \in Views
        PROVE  MergeTells(v, v, loadingSession)
    BY <2>2, ViewParts DEF MergeTells
  <2> QED BY <2>1, <2>3 DEF BufferMerges, MergesApart
<1>4. Reading
  <2>1. \A n \in 1..MaxOpens : opens[n].step = "none" /\ ~opens[n].failed
    BY Blanks DEF ViewInit
  <2> QED BY <2>1 DEF Reading, LoadOf
<1>5. Showing
  BY Bounds DEF Showing, ViewInit
<1>6. Selection
  BY DEF ViewInit, NoRemoval, Selection
<1> QED BY <1>1, <1>2, <1>3, <1>4, <1>5, <1>6 DEF ViewInv

\* A change of the rows that its event brings.
LEMMA NewsKeeps ==
  ASSUME ViewInv,
         UNCHANGED <<shown, view, loadingSession, buffer, openRequest, opens, vain>>,
         ViewTypeOK',
         \A d \in Chat : /\ \A s \in Runs : rows[d].runs[s] <= rows'[d].runs[s]
                         /\ rows[d].tool <= rows'[d].tool,
         \A d \in Chat, w \in Views : /\ RunsCurrent(w, d) => RunsCurrent(w, d)'
                                      /\ ToolCurrent(w, d) => ToolCurrent(w, d)'
                                      /\ ApprovalCurrent(w, d) => ApprovalCurrent(w, d)'
  PROVE  BufferMerges' /\ Reading' /\ Showing'
<1>0. \A d \in Chat : /\ \A s \in Runs : rows[d].runs[s] \in Nat /\ rows'[d].runs[s] \in Nat
                      /\ rows[d].tool \in Nat /\ rows'[d].tool \in Nat
  <2>1. rows' \in [Chat -> [runs : [Runs -> 0..MaxChanges], tool : 0..2]]
    BY DEF ViewTypeOK
  <2>2. \A d \in Chat : /\ \A s \in Runs : rows'[d].runs[s] \in Nat
                        /\ rows'[d].tool \in Nat
    BY <2>1, Bounds
  <2> QED BY <2>2, TypeParts DEF ViewInv
<1>1. \A v \in Views : mergeBufferedEvents(v)' = mergeBufferedEvents(v)
  BY MergedStays
<1>2. BufferMerges'
  <2>1. ASSUME NEW v \in Views, NEW m \in Views, mergeBufferedEvents(v)' = m
        PROVE  MergeTells(v, m, loadingSession)'
    <3>1. MergeTells(v, m, loadingSession)
      BY <1>1, <2>1 DEF ViewInv, BufferMerges
    <3>2. ASSUME loadingSession \in Chat
          PROVE  /\ \A r \in Runs : \/ m.runs[r] = v.runs[r]
                                    \/ m.runs[r] <= rows'[loadingSession].runs[r]
                 /\ m.tool = v.tool \/ m.tool <= rows'[loadingSession].tool
      <4>1. \A r \in Runs : m.runs[r] \in Nat /\ m.tool \in Nat
        BY ViewParts
      <4>2. /\ \A r \in Runs : rows[loadingSession].runs[r] <= rows'[loadingSession].runs[r]
            /\ rows[loadingSession].tool <= rows'[loadingSession].tool
            /\ rows[loadingSession].tool \in Nat /\ rows'[loadingSession].tool \in Nat
            /\ \A r \in Runs : /\ rows[loadingSession].runs[r] \in Nat
                               /\ rows'[loadingSession].runs[r] \in Nat
        BY <1>0, <3>2
      <4>3. /\ \A r \in Runs : \/ m.runs[r] = v.runs[r]
                               \/ m.runs[r] <= rows[loadingSession].runs[r]
            /\ m.tool = v.tool \/ m.tool <= rows[loadingSession].tool
        BY <3>1, <3>2 DEF MergeTells
      <4>4. m.tool \in Nat
        BY ViewParts
      <4> QED BY <4>1, <4>2, <4>3, <4>4
    <3>3. ASSUME loadingSession \in Chat
          PROVE  m.approval = v.approval \/ ApprovalCurrent(m, loadingSession)'
      <4>1. PICK c \in Chat : c = loadingSession
        BY <3>3
      <4>2. m.approval = v.approval \/ ApprovalCurrent(m, c)
        BY <3>1, <4>1 DEF MergeTells
      <4>3. m.approval = v.approval \/ ApprovalCurrent(m, c)'
        BY <4>2
      <4> QED BY <4>1, <4>3 DEF ApprovalCurrent, ToolEvent
    <3> QED BY <3>1, <3>2, <3>3 DEF MergeTells
  <2> QED BY <1>1, <2>1 DEF ViewInv, BufferMerges, MergesApart
<1>3. Reading'
  <2>1. ASSUME NEW n \in 1..MaxOpens
        PROVE  /\ opens'[n].failed => opens'[n].step = "reads"
               /\ opens'[n].step # "none" => opens'[n].chat \in Chat
               /\ opens'[n].step = "reads" /\ n = openRequest' =>
                    loadingSession' = opens'[n].chat
    BY DEF ViewInv, Reading
  <2>2. ASSUME NEW n \in 1..MaxOpens, NEW c \in Chat, NEW v \in Views, NEW m \in Views,
               NEW p \in SUBSET Reads, LoadOf(n, c)', ~opens'[n].failed, opens'[n].pending = p,
               opens'[n].got = v, mergeBufferedEvents(v)' = m
        PROVE  ReadTells(p, v, m, c)'
    <3>1. LoadOf(n, c) /\ mergeBufferedEvents(v) = m
      BY <1>1, <2>2 DEF LoadOf
    <3>2. ReadTells(p, v, m, c)
      BY <2>2, <3>1 DEF ViewInv, Reading
    <3> QED BY <3>2 DEF ReadTells
  <2> QED BY <2>1, <2>2 DEF Reading
<1>4. Showing'
  <2> SUFFICES ASSUME NEW c \in Chat, NEW w \in Views, shown = c, view = w
               PROVE  /\ \A r \in Runs : w.runs[r] <= rows'[c].runs[r]
                      /\ w.tool <= rows'[c].tool
                      /\ loadingSession # c /\ ~vain => /\ RunsCurrent(w, c)'
                                                        /\ ToolCurrent(w, c)'
                                                        /\ ApprovalCurrent(w, c)'
    BY DEF Showing
  <2>1. /\ \A r \in Runs : w.runs[r] <= rows[c].runs[r]
        /\ w.tool <= rows[c].tool
        /\ loadingSession # c /\ ~vain => /\ RunsCurrent(w, c)
                                          /\ ToolCurrent(w, c)
                                          /\ ApprovalCurrent(w, c)
    BY DEF ViewInv, Showing
  <2>2. \A r \in Runs : w.runs[r] \in Nat
    BY ViewParts
  <2>3. w.tool \in Nat
    BY ViewParts
  <2>4. /\ \A r \in Runs : /\ rows[c].runs[r] <= rows'[c].runs[r]
                           /\ rows[c].runs[r] \in Nat /\ rows'[c].runs[r] \in Nat
        /\ rows[c].tool <= rows'[c].tool /\ rows[c].tool \in Nat /\ rows'[c].tool \in Nat
    BY <1>0
  <2> QED BY <2>1, <2>2, <2>3, <2>4
<1> QED BY <1>2, <1>3, <1>4

\* A run changes.
LEMMA RunChangesStep ==
  ASSUME ViewInv, NEW c \in Chat, NEW r \in Runs, RunChanges(c, r)
  PROVE  ViewInv'
<1>0. ViewTypeOK /\ FeedTells /\ Counted
  BY DEF ViewInv, FeedTells
<1>1. PICK e \in ViewEvents : RunNews(e, c, r)
  BY <1>0, RunChangesTells
<1>2. UNCHANGED <<gone, shown, view, loadingSession, buffer, openRequest, opens, spinner, removal,
                  vain>>
  BY DEF RunChanges
<1>3. changes' = changes + 1 /\ changes < MaxChanges /\ changes \in Nat /\ MaxChanges \in Nat
  BY <1>0, TypeParts, Bounds DEF RunChanges
<1>4. ViewTypeOK'
  <2>1. rows' \in [Chat -> [runs : [Runs -> 0..MaxChanges], tool : 0..2]]
    BY <1>1 DEF RunNews
  <2>2. feed' \in Seq(ViewEvents)
    BY <1>1 DEF RunNews, Sent
  <2>3. changes' \in 0..MaxChanges
    BY <1>3
  <2> QED BY <1>0, <1>2, <2>1, <2>2, <2>3 DEF ViewTypeOK
<1>5. \A d \in Chat : /\ \A s \in Runs : /\ rows[d].runs[s] <= rows'[d].runs[s]
                                         /\ rows'[d].runs[s] <= changes + 1
                      /\ rows[d].tool <= rows'[d].tool /\ rows'[d].tool <= changes + 1
  <2>1. ASSUME NEW d \in Chat, NEW s \in Runs
        PROVE  /\ rows[d].runs[s] <= rows'[d].runs[s]
               /\ rows'[d].runs[s] <= changes + 1
    <3>1. rows[d].runs[s] \in Nat /\ rows[d].runs[s] <= changes
      BY <1>0, TypeParts DEF Counted
    <3>2. CASE d = c /\ s = r
      BY <1>1, <1>3, <3>1, <3>2 DEF RunNews
    <3>3. CASE ~(d = c /\ s = r)
      <4>1. rows'[d].runs[s] = rows[d].runs[s]
        BY <1>1, <3>3 DEF RunNews
      <4> QED BY <1>3, <3>1, <4>1
    <3> QED BY <3>2, <3>3
  <2>2. ASSUME NEW d \in Chat
        PROVE  rows[d].tool <= rows'[d].tool /\ rows'[d].tool <= changes + 1
    <3>1. rows[d].tool \in Nat /\ rows[d].tool <= changes /\ rows'[d].tool = rows[d].tool
      BY <1>0, <1>1, TypeParts DEF Counted, RunNews
    <3> QED BY <1>3, <3>1
  <2> QED BY <2>1, <2>2
<1>6. FeedTells'
  <2>1. Counted'
    BY <1>3, <1>5 DEF Counted
  <2> QED BY <1>0, <1>1, <2>1, RunNewsFeed DEF FeedTells
<1>7. \A d \in Chat, w \in Views : /\ RunsCurrent(w, d) => RunsCurrent(w, d)'
                                   /\ ToolCurrent(w, d) => ToolCurrent(w, d)'
                                   /\ ApprovalCurrent(w, d) => ApprovalCurrent(w, d)'
  BY <1>0, <1>1, RunNewsCurrent
<1>8. BufferMerges' /\ Reading' /\ Showing'
  BY <1>2, <1>4, <1>5, <1>7, NewsKeeps
<1>9. Selection'
  BY <1>2 DEF ViewInv, Selection
<1> QED BY <1>4, <1>6, <1>8, <1>9 DEF ViewInv

\* A tool is asked for or settled.
LEMMA ToolChangesStep ==
  ASSUME ViewInv, NEW c \in Chat, ToolChanges(c)
  PROVE  ViewInv'
<1>0. ViewTypeOK /\ FeedTells /\ Counted
  BY DEF ViewInv, FeedTells
<1>1. PICK e \in ViewEvents : ToolNews(e, c)
  BY <1>0, ToolChangesTells
<1>2. UNCHANGED <<gone, shown, view, loadingSession, buffer, openRequest, opens, spinner, removal,
                  vain>>
  BY DEF ToolChanges
<1>3. changes' = changes + 1 /\ changes < MaxChanges /\ changes \in Nat /\ MaxChanges \in Nat
  BY <1>0, TypeParts, Bounds DEF ToolChanges
<1>4. ViewTypeOK'
  <2>1. rows' \in [Chat -> [runs : [Runs -> 0..MaxChanges], tool : 0..2]]
    BY <1>1 DEF ToolNews
  <2>2. feed' \in Seq(ViewEvents)
    BY <1>1 DEF ToolNews, Sent
  <2>3. changes' \in 0..MaxChanges
    BY <1>3
  <2> QED BY <1>0, <1>2, <2>1, <2>2, <2>3 DEF ViewTypeOK
<1>5. \A d \in Chat : /\ \A s \in Runs : /\ rows[d].runs[s] <= rows'[d].runs[s]
                                         /\ rows'[d].runs[s] <= changes + 1
                      /\ rows[d].tool <= rows'[d].tool /\ rows'[d].tool <= changes + 1
  <2>1. ASSUME NEW d \in Chat, NEW s \in Runs
        PROVE  /\ rows[d].runs[s] <= rows'[d].runs[s]
               /\ rows'[d].runs[s] <= changes + 1
    <3>1. rows[d].runs[s] \in Nat /\ rows[d].runs[s] <= changes /\ rows'[d].runs = rows[d].runs
      BY <1>0, <1>1, TypeParts DEF Counted, ToolNews
    <3> QED BY <1>3, <3>1
  <2>2. ASSUME NEW d \in Chat
        PROVE  rows[d].tool <= rows'[d].tool /\ rows'[d].tool <= changes + 1
    <3>1. rows[d].tool \in Nat /\ rows[d].tool <= changes
      BY <1>0, <1>1, TypeParts DEF Counted
    <3>2. rows'[d].tool = rows[d].tool + 1 \/ rows'[d].tool = rows[d].tool
      BY <1>1 DEF ToolNews
    <3> QED BY <1>3, <3>1, <3>2
  <2> QED BY <2>1, <2>2
<1>6. FeedTells'
  <2>1. Counted'
    BY <1>3, <1>5 DEF Counted
  <2> QED BY <1>0, <1>1, <2>1, ToolNewsFeed DEF FeedTells
<1>7. \A d \in Chat, w \in Views : /\ RunsCurrent(w, d) => RunsCurrent(w, d)'
                                   /\ ToolCurrent(w, d) => ToolCurrent(w, d)'
                                   /\ ApprovalCurrent(w, d) => ApprovalCurrent(w, d)'
  BY <1>0, <1>1, ToolNewsCurrent
<1>8. BufferMerges' /\ Reading' /\ Showing'
  BY <1>2, <1>4, <1>5, <1>7, NewsKeeps
<1>9. Selection'
  BY <1>2 DEF ViewInv, Selection
<1> QED BY <1>4, <1>6, <1>8, <1>9 DEF ViewInv

\* An event of the conversation that is being loaded is buffered.
LEMMA BufferedStep ==
  ASSUME ViewInv, Delivers, Head(feed).chat = loadingSession
  PROVE  ViewInv'
<1>0. ViewTypeOK /\ FeedTells /\ BufferMerges /\ Reading /\ Showing
  BY DEF ViewInv
<1>1. /\ feed # <<>> /\ feed' = Tail(feed) /\ buffer' = Append(buffer, Head(feed))
      /\ UNCHANGED <<view, rows, changes, gone, shown, loadingSession, openRequest, opens,
                     spinner, removal, vain>>
  BY DEF Delivers
<1>2. Shorter
  BY <1>0, <1>1, TypeParts, FeedShrinks
<1>3. PICK e \in ViewEvents : e = Head(feed) /\ e.chat \in Chat
  BY <1>2, EventParts DEF Shorter
<1>4. /\ e.kind = "run" => e.version <= rows[e.chat].runs[e.run]
      /\ e.kind = "tool" => e.version <= rows[e.chat].tool /\ e.version <= 2
  BY <1>0, <1>2, <1>3, HeadTells
<1>5. buffer \in Seq(ViewEvents) /\ buffer' = Append(buffer, e) /\ e.chat = loadingSession
  BY <1>0, <1>1, <1>3 DEF ViewTypeOK
<1>6. \A v \in Views : mergeBufferedEvents(v)' = MergeEvent(mergeBufferedEvents(v), e)
  <2>1. ASSUME NEW v \in Views, NEW b, b = Append(buffer, e)
        PROVE  MergedAll(b, v)[Len(b)] = MergeEvent(mergeBufferedEvents(v), e)
    BY <1>5, <2>1, BufferGrows
  <2> QED BY <1>5, <2>1, MergedPrime
<1>7. ViewTypeOK'
  <2>1. feed' \in Seq(ViewEvents)
    BY <1>2 DEF Shorter
  <2>2. buffer' \in Seq(ViewEvents)
    BY <1>5, AppendProperties
  <2> QED BY <1>0, <1>1, <2>1, <2>2 DEF ViewTypeOK
<1>8. FeedTells'
  <2>1. RunsFed' /\ ToolsFed'
    BY <1>0, <1>1, <1>2, DeliveredFeed
  <2>2. Counted'
    BY <1>0, <1>1 DEF FeedTells, Counted
  <2> QED BY <2>1, <2>2 DEF FeedTells
<1>9. \A v, m \in Views : mergeBufferedEvents(v)' = m =>
        \E k \in Views : mergeBufferedEvents(v) = k /\ Merged(m, k, e)
  <2>1. ASSUME NEW v \in Views
        PROVE  \E k \in Views : /\ mergeBufferedEvents(v) = k /\ MergeEvent(k, e) \in Views
                                /\ Merged(MergeEvent(k, e), k, e)
    <3>1. PICK k \in Views : k = mergeBufferedEvents(v)
      BY <1>0 DEF BufferMerges
    <3>2. MergeEvent(k, e) \in Views /\ Merged(MergeEvent(k, e), k, e)
      BY <1>4, MergeEventParts
    <3> QED BY <3>1, <3>2
  <2> QED BY <1>6, <2>1
<1>10. \A v \in Views : mergeBufferedEvents(v)' \in Views
  <2>1. ASSUME NEW v \in Views
        PROVE  mergeBufferedEvents(v)' \in Views
    <3>1. PICK k \in Views : k = mergeBufferedEvents(v)
      BY <1>0 DEF BufferMerges
    <3>2. MergeEvent(k, e) \in Views
      BY <1>4, MergeEventParts
    <3> QED BY <1>6, <3>1, <3>2
  <2> QED BY <2>1
\* Merging the event into a view that is current, or that is not.
<1>11. ASSUME NEW m \in Views, NEW k \in Views, Merged(m, k, e)
       PROVE  /\ RunsCurrent(k, e.chat) => RunsCurrent(m, e.chat)'
              /\ ToolCurrent(k, e.chat) => ToolCurrent(m, e.chat)'
              /\ ApprovalCurrent(k, e.chat) => ApprovalCurrent(m, e.chat)'
              /\ e.kind = "tool" => ApprovalCurrent(m, e.chat)'
  BY <1>0, <1>1, <1>2, <1>3, <1>11, DeliveredCurrent
<1>12. BufferMerges'
  <2>1. ASSUME NEW v \in Views, NEW m \in Views, mergeBufferedEvents(v)' = m
        PROVE  MergeTells(v, m, loadingSession)'
    <3>1. PICK k \in Views : mergeBufferedEvents(v) = k /\ Merged(m, k, e)
      BY <1>9, <2>1
    <3>2. MergeTells(v, k, e.chat)
      BY <1>0, <1>5, <3>1 DEF BufferMerges
    <3>3. /\ \A r \in Runs : k.runs[r] >= v.runs[r]
          /\ k.tool >= v.tool
          /\ k.runs = v.runs => k.live = v.live
          /\ \A r \in Runs : k.runs[r] = v.runs[r] \/ k.runs[r] <= rows[e.chat].runs[r]
          /\ k.tool = v.tool \/ k.tool <= rows[e.chat].tool
          /\ k.approval = v.approval \/ ApprovalCurrent(k, e.chat)
      BY <1>3, <3>2 DEF MergeTells
    <3>4. /\ \A r \in Runs : v.runs[r] \in Nat /\ k.runs[r] \in Nat /\ m.runs[r] \in Nat
          /\ e.run \in Runs /\ e.version \in Nat /\ e.kind \in {"run", "tool"}
      BY ViewParts, EventParts
    <3>5. v.tool \in Nat /\ k.tool \in Nat /\ m.tool \in Nat
      BY ViewParts
    <3>6. CASE e.kind = "run" /\ k.runs[e.run] < e.version
      <4>1. /\ m.runs[e.run] = e.version
            /\ \A r \in Runs : r # e.run => m.runs[r] = k.runs[r]
            /\ m.tool = k.tool /\ m.approval = k.approval
        BY <3>1, <3>6 DEF Merged
      <4>2. m.runs # v.runs
        BY <3>3, <3>4, <3>6, <4>1
      <4>3. \A r \in Runs : m.runs[r] >= v.runs[r]
        BY <3>3, <3>4, <3>6, <4>1
      <4>4. \A r \in Runs : m.runs[r] = v.runs[r] \/ m.runs[r] <= rows[e.chat].runs[r]
        BY <1>4, <3>3, <3>6, <4>1
      <4>5. m.approval = v.approval \/ ApprovalCurrent(m, e.chat)'
        BY <1>11, <3>1, <3>3, <4>1
      <4> QED BY <1>1, <1>5, <3>3, <4>1, <4>2, <4>3, <4>4, <4>5
              DEF MergeTells, ApprovalCurrent, ToolEvent
    <3>7. CASE e.kind = "run" /\ k.runs[e.run] >= e.version
      <4>1. m = k
        BY <3>1, <3>7 DEF Merged
      <4>2. m.approval = v.approval \/ ApprovalCurrent(m, e.chat)'
        BY <1>11, <3>1, <3>3, <4>1
      <4> QED BY <1>1, <1>5, <3>3, <4>1, <4>2 DEF MergeTells, ApprovalCurrent, ToolEvent
    <3>8. CASE e.kind = "tool"
      <4>1. /\ m.runs = k.runs /\ m.live = k.live
            /\ k.tool >= e.version => m.tool = k.tool
            /\ k.tool < e.version => m.tool = e.version
        BY <3>1, <3>8 DEF Merged
      <4>2. m.tool >= v.tool
        BY <3>3, <3>4, <3>5, <4>1
      <4>3. m.tool = v.tool \/ m.tool <= rows[e.chat].tool
        BY <1>4, <3>3, <3>4, <3>5, <3>8, <4>1
      <4>4. ApprovalCurrent(m, e.chat)'
        BY <1>11, <3>1, <3>8
      <4> QED BY <1>1, <1>5, <3>3, <4>1, <4>2, <4>3, <4>4 DEF MergeTells, ApprovalCurrent, ToolEvent
    <3> QED BY <3>4, <3>6, <3>7, <3>8
  <2>2. ASSUME NEW u \in Views, NEW v \in Views, NEW m \in Views, NEW k \in Views,
               mergeBufferedEvents(u)' = m, mergeBufferedEvents(v)' = k
        PROVE  MergesApart(u, v, m, k)
    <3>1. PICK m0 \in Views : mergeBufferedEvents(u) = m0 /\ Merged(m, m0, e)
      BY <1>9, <2>2
    <3>2. PICK k0 \in Views : mergeBufferedEvents(v) = k0 /\ Merged(k, k0, e)
      BY <1>9, <2>2
    <3>3. MergesApart(u, v, m0, k0)
      BY <1>0, <3>1, <3>2 DEF BufferMerges
    <3>4. e.run \in Runs /\ e.version \in Nat /\ e.kind \in {"run", "tool"}
      BY EventParts
    <3>5. m0.runs[e.run] \in Nat /\ k0.runs[e.run] \in Nat
      BY <3>4, ViewParts
    <3>6. m0.tool \in Nat /\ k0.tool \in Nat
      BY ViewParts
    <3>7. ASSUME m0.runs = k0.runs, m0.live = k0.live
          PROVE  m.runs = k.runs /\ m.live = k.live
      <4>1. CASE e.kind = "run" /\ m0.runs[e.run] < e.version
        <5>1. /\ m.live = e.live /\ k.live = e.live
              /\ \A r \in Runs : m.runs[r] = k.runs[r]
          BY <3>1, <3>2, <3>7, <4>1 DEF Merged
        <5>2. m.runs \in [Runs -> 0..MaxChanges] /\ k.runs \in [Runs -> 0..MaxChanges]
          BY ViewParts
        <5> QED BY <5>1, <5>2
      <4>2. CASE e.kind = "run" /\ m0.runs[e.run] >= e.version
        BY <3>1, <3>2, <3>7, <4>2 DEF Merged
      <4>3. CASE e.kind = "tool"
        BY <3>1, <3>2, <3>7, <4>3 DEF Merged
      <4> QED BY <3>4, <3>5, <4>1, <4>2, <4>3
    <3>8. m0.tool = k0.tool => m.tool = k.tool
      BY <3>1, <3>2, <3>4, <3>5, <3>6 DEF Merged
    <3>9. m0.approval = k0.approval => m.approval = k.approval
      BY <3>1, <3>2, <3>4, <3>5 DEF Merged
    <3> QED BY <3>3, <3>7, <3>8, <3>9 DEF MergesApart
  <2> QED BY <1>10, <2>1, <2>2 DEF BufferMerges, MergesApart
<1>13. Reading'
  <2>1. ASSUME NEW n \in 1..MaxOpens
        PROVE  /\ opens'[n].failed => opens'[n].step = "reads"
               /\ opens'[n].step # "none" => opens'[n].chat \in Chat
               /\ opens'[n].step = "reads" /\ n = openRequest' =>
                    loadingSession' = opens'[n].chat
    BY <1>0, <1>1 DEF Reading
  <2>2. ASSUME NEW n \in 1..MaxOpens, NEW c \in Chat, NEW v \in Views, NEW m \in Views,
               NEW p \in SUBSET Reads, LoadOf(n, c)', ~opens'[n].failed, opens'[n].pending = p,
               opens'[n].got = v, mergeBufferedEvents(v)' = m
        PROVE  ReadTells(p, v, m, c)'
    <3>1. PICK k \in Views : mergeBufferedEvents(v) = k /\ Merged(m, k, e)
      BY <1>9, <2>2
    <3>2. LoadOf(n, c) /\ c = e.chat
      BY <1>0, <1>1, <1>5, <2>2 DEF LoadOf, Reading
    <3>3. ReadTells(p, v, k, c)
      BY <1>0, <1>1, <2>2, <3>1, <3>2 DEF Reading
    <3>4. /\ RunsCurrent(k, c) => RunsCurrent(m, c)'
          /\ ToolCurrent(k, c) => ToolCurrent(m, c)'
          /\ ApprovalCurrent(k, c) => ApprovalCurrent(m, c)'
      BY <1>0, <1>1, <1>2, <1>3, <3>1, <3>2, DeliveredCurrent
    <3> QED BY <1>1, <3>3, <3>4 DEF ReadTells
  <2> QED BY <2>1, <2>2 DEF Reading
<1>14. Showing'
  <2> SUFFICES ASSUME NEW c \in Chat, NEW w \in Views, shown = c, view = w
               PROVE  /\ \A r \in Runs : w.runs[r] <= rows[c].runs[r]
                      /\ w.tool <= rows[c].tool
                      /\ loadingSession # c /\ ~vain => /\ RunsCurrent(w, c)'
                                                        /\ ToolCurrent(w, c)'
                                                        /\ ApprovalCurrent(w, c)'
    BY <1>1 DEF Showing
  <2>1. /\ \A r \in Runs : w.runs[r] <= rows[c].runs[r]
        /\ w.tool <= rows[c].tool
        /\ loadingSession # c /\ ~vain => /\ RunsCurrent(w, c)
                                          /\ ToolCurrent(w, c)
                                          /\ ApprovalCurrent(w, c)
    BY <1>0 DEF Showing
  <2>2. loadingSession # c => /\ RunsCurrent(w, c) => RunsCurrent(w, c)'
                              /\ ToolCurrent(w, c) => ToolCurrent(w, c)'
                              /\ ApprovalCurrent(w, c) => ApprovalCurrent(w, c)'
    BY <1>0, <1>1, <1>2, <1>3, <1>5, DeliveredCurrent
  <2> QED BY <2>1, <2>2
<1>15. Selection'
  BY <1>1 DEF ViewInv, Selection
<1> QED BY <1>7, <1>8, <1>12, <1>13, <1>14, <1>15 DEF ViewInv

\* Any other event is merged into what is shown, if it is one of its conversation.
LEMMA ShownStep ==
  ASSUME ViewInv, Delivers, Head(feed).chat # loadingSession
  PROVE  /\ ViewInv'
         /\ \A r \in Runs : view'.runs[r] >= view.runs[r]
         /\ view'.tool >= view.tool
<1>0. ViewTypeOK /\ FeedTells /\ BufferMerges /\ Reading /\ Showing
  BY DEF ViewInv
<1>1. /\ feed # <<>> /\ feed' = Tail(feed)
      /\ view' = (IF Head(feed).chat = shown THEN MergeEvent(view, Head(feed)) ELSE view)
      /\ UNCHANGED <<buffer, rows, changes, gone, shown, loadingSession, openRequest, opens,
                     spinner, removal, vain>>
  BY DEF Delivers
<1>2. Shorter
  BY <1>0, <1>1, TypeParts, FeedShrinks
<1>3. PICK e \in ViewEvents : e = Head(feed) /\ e.chat \in Chat
  BY <1>2, EventParts DEF Shorter
<1>4. /\ e.kind = "run" => e.version <= rows[e.chat].runs[e.run]
      /\ e.kind = "tool" => e.version <= rows[e.chat].tool /\ e.version <= 2
  BY <1>0, <1>2, <1>3, HeadTells
<1>5. /\ view \in Views /\ view' \in Views
      /\ e.chat = shown => Merged(view', view, e)
      /\ e.chat # shown => view' = view
      /\ e.chat # loadingSession
  <2>1. view \in Views
    BY <1>0, TypeParts
  <2>2. MergeEvent(view, e) \in Views /\ Merged(MergeEvent(view, e), view, e)
    BY <1>4, <2>1, MergeEventParts
  <2> QED BY <1>1, <1>3, <2>1, <2>2
<1>6. ViewTypeOK'
  <2>1. feed' \in Seq(ViewEvents)
    BY <1>2 DEF Shorter
  <2> QED BY <1>0, <1>1, <1>5, <2>1 DEF ViewTypeOK
<1>7. FeedTells'
  <2>1. RunsFed' /\ ToolsFed'
    BY <1>0, <1>1, <1>2, DeliveredFeed
  <2>2. Counted'
    BY <1>0, <1>1 DEF FeedTells, Counted
  <2> QED BY <2>1, <2>2 DEF FeedTells
<1>8. \A v \in Views : mergeBufferedEvents(v)' = mergeBufferedEvents(v)
  BY <1>1, MergedStays
\* For the conversations that the event is not of, nothing changes.
<1>9. ASSUME NEW d \in Chat, d # e.chat, NEW w \in Views
      PROVE  /\ RunsCurrent(w, d) => RunsCurrent(w, d)'
             /\ ToolCurrent(w, d) => ToolCurrent(w, d)'
             /\ ApprovalCurrent(w, d) => ApprovalCurrent(w, d)'
  BY <1>0, <1>1, <1>2, <1>3, <1>9, DeliveredCurrent
<1>10. BufferMerges'
  <2>1. ASSUME NEW v \in Views, NEW m \in Views, mergeBufferedEvents(v)' = m
        PROVE  MergeTells(v, m, loadingSession)'
    <3>1. MergeTells(v, m, loadingSession)
      BY <1>0, <1>8, <2>1 DEF BufferMerges
    <3>2. ASSUME NEW d \in Chat, d = loadingSession
          PROVE  ApprovalCurrent(m, d) => ApprovalCurrent(m, d)'
      BY <1>5, <1>9, <3>2
    <3>3. loadingSession \in Chat =>
            (ApprovalCurrent(m, loadingSession) => ApprovalCurrent(m, loadingSession)')
      BY <1>1, <3>2 DEF ApprovalCurrent, ToolEvent
    <3> QED BY <1>1, <3>1, <3>3 DEF MergeTells
  <2> QED BY <1>0, <1>8, <2>1 DEF BufferMerges, MergesApart
<1>11. Reading'
  <2>1. ASSUME NEW n \in 1..MaxOpens
        PROVE  /\ opens'[n].failed => opens'[n].step = "reads"
               /\ opens'[n].step # "none" => opens'[n].chat \in Chat
               /\ opens'[n].step = "reads" /\ n = openRequest' =>
                    loadingSession' = opens'[n].chat
    BY <1>0, <1>1 DEF Reading
  <2>2. ASSUME NEW n \in 1..MaxOpens, NEW c \in Chat, NEW v \in Views, NEW m \in Views,
               NEW p \in SUBSET Reads, LoadOf(n, c)', ~opens'[n].failed, opens'[n].pending = p,
               opens'[n].got = v, mergeBufferedEvents(v)' = m
        PROVE  ReadTells(p, v, m, c)'
    <3>1. mergeBufferedEvents(v) = m /\ LoadOf(n, c) /\ c # e.chat
      BY <1>0, <1>1, <1>5, <1>8, <2>2 DEF LoadOf, Reading
    <3>2. ReadTells(p, v, m, c)
      BY <1>0, <1>1, <2>2, <3>1 DEF Reading
    <3>3. /\ RunsCurrent(m, c) => RunsCurrent(m, c)'
          /\ ToolCurrent(m, c) => ToolCurrent(m, c)'
          /\ ApprovalCurrent(m, c) => ApprovalCurrent(m, c)'
      BY <1>9, <3>1
    <3>4. shown = c => view' = view
      BY <1>5, <3>1
    <3> QED BY <1>1, <3>2, <3>3, <3>4 DEF ReadTells
  <2> QED BY <2>1, <2>2 DEF Reading
<1>12. e.run \in Runs /\ e.version \in Nat /\ e.kind \in {"run", "tool"}
  BY EventParts
<1>13. /\ \A r \in Runs : view.runs[r] \in Nat /\ view'.runs[r] \in Nat
  BY <1>5, ViewParts
<1>14. view.tool \in Nat /\ view'.tool \in Nat
  BY <1>5, ViewParts
<1>15. ASSUME NEW r \in Runs
       PROVE  /\ view'.runs[r] >= view.runs[r]
              /\ shown \in Chat => view'.runs[r] <= rows[shown].runs[r]
  <2>1. shown \in Chat => view.runs[r] <= rows[shown].runs[r]
    BY <1>0, <1>5 DEF Showing
  <2>2. CASE e.chat = shown /\ e.kind = "run" /\ view.runs[e.run] < e.version /\ r = e.run
    BY <1>3, <1>4, <1>5, <1>12, <1>13, <2>2 DEF Merged
  <2>3. CASE ~(e.chat = shown /\ e.kind = "run" /\ view.runs[e.run] < e.version /\ r = e.run)
    <3>1. view'.runs[r] = view.runs[r]
      BY <1>5, <1>12, <1>13, <2>3 DEF Merged
    <3> QED BY <1>13, <2>1, <3>1
  <2> QED BY <2>2, <2>3
<1>16. /\ view'.tool >= view.tool
       /\ shown \in Chat => view'.tool <= rows[shown].tool
  <2>1. shown \in Chat => view.tool <= rows[shown].tool
    BY <1>0, <1>5 DEF Showing
  <2>2. CASE e.chat = shown /\ e.kind = "tool" /\ view.tool < e.version
    BY <1>3, <1>4, <1>5, <1>12, <1>14, <2>2 DEF Merged
  <2>3. CASE ~(e.chat = shown /\ e.kind = "tool" /\ view.tool < e.version)
    <3>1. view'.tool = view.tool
      BY <1>5, <1>12, <1>13, <1>14, <2>3 DEF Merged
    <3> QED BY <1>14, <2>1, <3>1
  <2> QED BY <2>2, <2>3
<1>17. Showing'
  <2> SUFFICES ASSUME NEW c \in Chat, NEW u \in Views, shown = c, view' = u
               PROVE  /\ \A r \in Runs : u.runs[r] <= rows[c].runs[r]
                      /\ u.tool <= rows[c].tool
                      /\ loadingSession # c /\ ~vain => /\ RunsCurrent(u, c)'
                                                        /\ ToolCurrent(u, c)'
                                                        /\ ApprovalCurrent(u, c)'
    BY <1>1 DEF Showing
  <2>1. PICK w \in Views : w = view
    BY <1>5
  <2>2. loadingSession # c /\ ~vain => /\ RunsCurrent(w, c)
                                       /\ ToolCurrent(w, c)
                                       /\ ApprovalCurrent(w, c)
    BY <1>0, <2>1 DEF Showing
  <2>3. (e.chat = c => Merged(u, w, e)) /\ (e.chat # c => u = w)
    BY <1>5, <2>1
  <2>4. /\ RunsCurrent(w, c) => RunsCurrent(u, c)'
        /\ ToolCurrent(w, c) => ToolCurrent(u, c)'
        /\ ApprovalCurrent(w, c) => ApprovalCurrent(u, c)'
    BY <1>0, <1>1, <1>2, <1>3, <2>3, DeliveredCurrent
  <2> QED BY <1>15, <1>16, <2>2, <2>4
<1>18. Selection'
  BY <1>1, <1>3, <1>5, Bounds DEF ViewInv, Selection
<1> QED BY <1>6, <1>7, <1>10, <1>11, <1>15, <1>16, <1>17, <1>18 DEF ViewInv

\* A step that changes no more than the loads, and these only as ReadingStays says.
LEMMA LoadsStep ==
  ASSUME ViewInv, UNCHANGED <<rows, changes, feed, shown, view, buffer>>,
         loadingSession' = loadingSession \/ loadingSession' = Nothing,
         gone' \subseteq Chat, openRequest' \in 0..MaxOpens, spinner' \in BOOLEAN,
         vain' \in BOOLEAN,
         Selection',
         opens' \in [1..MaxOpens -> OpenRecord],
         \A k \in 1..MaxOpens :
           \/ opens'[k] = opens[k]
           \/ /\ opens'[k].step # "reads" /\ ~opens'[k].failed
              /\ opens'[k].step # "none" => opens'[k].chat \in Chat,
         \/ \A k \in 1..MaxOpens : opens'[k].step = "reads" => k # openRequest'
         \/ UNCHANGED <<loadingSession, openRequest>>,
         \A c \in Chat : shown = c /\ loadingSession' # c /\ ~vain' => loadingSession # c /\ ~vain
  PROVE  ViewInv'
<1>1. ViewTypeOK'
  <2>1. loadingSession' \in Chat \cup {Nothing}
    BY DEF ViewInv, ViewTypeOK
  <2> QED BY <2>1 DEF ViewInv, ViewTypeOK, OpenRecord, Selection
<1>2. FeedTells'
  BY FeedTellsStays DEF ViewInv
<1>3. BufferMerges'
  BY BufferMergesStays DEF ViewInv
<1>4. Reading'
  BY ReadingStays DEF ViewInv
<1>5. Showing'
  BY ShowingStays DEF ViewInv
<1> QED BY <1>1, <1>2, <1>3, <1>4, <1>5 DEF ViewInv

\* The type of what the actions on loads leave alone.
LEMMA RecordsTyped ==
  ASSUME ViewInv
  PROVE  /\ loadingSession \in Chat \cup {Nothing} /\ shown \in Chat \cup {Nothing}
         /\ gone \subseteq Chat /\ openRequest \in 0..MaxOpens /\ spinner \in BOOLEAN
         /\ vain \in BOOLEAN /\ opens \in [1..MaxOpens -> OpenRecord]
         /\ Selection
         /\ openRequest \in Nat /\ MaxOpens \in Nat
BY Bounds DEF ViewInv, ViewTypeOK, OpenRecord

\* One more load, which does not read yet, is the current one.
LEMMA Begins ==
  ASSUME ViewInv, NEW c \in Chat, NEW step \in {"flush", "session"}, Begin(c, step)
  PROVE  /\ openRequest' \in 0..MaxOpens
         /\ opens' \in [1..MaxOpens -> OpenRecord]
         /\ \A k \in 1..MaxOpens :
              \/ opens'[k] = opens[k]
              \/ /\ opens'[k].step # "reads" /\ ~opens'[k].failed
                 /\ opens'[k].step # "none" => opens'[k].chat \in Chat
         /\ \A k \in 1..MaxOpens : opens'[k].step = "reads" => k # openRequest'
<1> DEFINE o == [NoOpen EXCEPT !.chat = c, !.step = step]
           n == openRequest + 1
<1>1. o \in OpenRecord /\ o.chat = c /\ o.step = step /\ ~o.failed
  BY Blanks DEF OpenRecord, NoOpen
<1>2. openRequest < MaxOpens /\ openRequest' = n /\ opens' = [opens EXCEPT ![n] = o]
  BY DEF Begin
<1> HIDE DEF o
<1>3. n \in 1..MaxOpens /\ n \in 0..MaxOpens
  BY <1>2, RecordsTyped
<1> HIDE DEF n
<1>4. opens' \in [1..MaxOpens -> OpenRecord] /\ opens'[n] = o
      /\ \A k \in 1..MaxOpens : k # n => opens'[k] = opens[k]
  BY <1>1, <1>2, <1>3, RecordsTyped
<1>5. \A k \in 1..MaxOpens : opens'[k].step = "reads" => k # n
  BY <1>1, <1>4
<1> QED BY <1>1, <1>2, <1>3, <1>4, <1>5

\* openBot and openRoom begin.
LEMMA OpenSteps ==
  ASSUME ViewInv, NEW c \in Chat, OpenChat(c) \/ OpenChatAtOnce(c)
  PROVE  ViewInv'
<1>1. /\ UNCHANGED <<rows, changes, gone, feed, shown, view, loadingSession, buffer, removal, vain>>
      /\ spinner' = spinner \/ spinner' = TRUE
      /\ \E step \in {"flush", "session"} : Begin(c, step)
  BY DEF OpenChat, OpenChatAtOnce
<1>2. spinner' \in BOOLEAN /\ gone' \subseteq Chat /\ vain' \in BOOLEAN
      /\ Selection'
  BY <1>1, RecordsTyped DEF Selection
<1>3. /\ openRequest' \in 0..MaxOpens
      /\ opens' \in [1..MaxOpens -> OpenRecord]
      /\ \A k \in 1..MaxOpens :
           \/ opens'[k] = opens[k]
           \/ /\ opens'[k].step # "reads" /\ ~opens'[k].failed
              /\ opens'[k].step # "none" => opens'[k].chat \in Chat
      /\ \A k \in 1..MaxOpens : opens'[k].step = "reads" => k # openRequest'
  BY <1>1, Begins
<1> QED BY <1>1, <1>2, <1>3, LoadsStep

\* A load is over.
LEMMA LeavesTells ==
  ASSUME ViewInv, NEW n \in 1..MaxOpens, Leaves(n)
  PROVE  /\ opens' \in [1..MaxOpens -> OpenRecord] /\ opens'[n] = NoOpen
         /\ \A k \in 1..MaxOpens : k # n => opens'[k] = opens[k]
         /\ \A k \in 1..MaxOpens :
              \/ opens'[k] = opens[k]
              \/ /\ opens'[k].step # "reads" /\ ~opens'[k].failed
                 /\ opens'[k].step # "none" => opens'[k].chat \in Chat
         /\ \A k \in 1..MaxOpens : opens'[k].step = "reads" => k # n
<1>1. /\ opens' \in [1..MaxOpens -> OpenRecord] /\ opens'[n] = NoOpen
      /\ \A k \in 1..MaxOpens : k # n => opens'[k] = opens[k]
  BY RecordsTyped, Blanks DEF Leaves
<1> QED BY <1>1, Blanks

\* flushActive answers.
LEMMA FlushStep ==
  ASSUME ViewInv, NEW n \in 1..MaxOpens, NEW flushed \in BOOLEAN, FlushAnswers(n, flushed)
  PROVE  ViewInv'
<1>1. /\ opens[n].step = "flush"
      /\ UNCHANGED <<rows, changes, gone, feed, shown, view, loadingSession, buffer, openRequest,
                     removal, vain>>
  BY DEF FlushAnswers
<1>2. spinner' \in BOOLEAN /\ gone' \subseteq Chat /\ vain' \in BOOLEAN
      /\ openRequest' \in 0..MaxOpens
      /\ Selection'
  BY <1>1, RecordsTyped DEF FlushAnswers, Selection
<1>3. /\ opens' \in [1..MaxOpens -> OpenRecord]
      /\ \A k \in 1..MaxOpens :
           \/ opens'[k] = opens[k]
           \/ /\ opens'[k].step # "reads" /\ ~opens'[k].failed
              /\ opens'[k].step # "none" => opens'[k].chat \in Chat
  <2>1. CASE flushed
    <3> DEFINE o == [opens[n] EXCEPT !.step = "session"]
    <3>1. opens' = [opens EXCEPT ![n] = o]
      BY <2>1 DEF FlushAnswers
    <3>2. opens[n] \in OpenRecord /\ opens[n].chat \in Chat /\ ~opens[n].failed
      BY <1>1, RecordsTyped DEF ViewInv, Reading
    <3>3. o \in OpenRecord /\ o.step = "session" /\ o.chat \in Chat /\ ~o.failed
      BY <3>2 DEF OpenRecord
    <3> HIDE DEF o
    <3>4. /\ opens' \in [1..MaxOpens -> OpenRecord] /\ opens'[n] = o
          /\ \A k \in 1..MaxOpens : k # n => opens'[k] = opens[k]
      BY <3>1, <3>3, RecordsTyped
    <3> QED BY <3>3, <3>4
  <2>2. CASE ~flushed
    BY <2>2, LeavesTells DEF FlushAnswers
  <2> QED BY <2>1, <2>2
<1> QED BY <1>1, <1>2, <1>3, LoadsStep

\* A load that was overtaken leaves.
LEMMA OvertakenStep ==
  ASSUME ViewInv, NEW n \in 1..MaxOpens, LoadOvertaken(n)
  PROVE  ViewInv'
<1>1. /\ Leaves(n)
      /\ UNCHANGED <<rows, changes, gone, feed, shown, view, loadingSession, buffer, openRequest,
                     spinner, removal, vain>>
  BY DEF LoadOvertaken
<1>2. spinner' \in BOOLEAN /\ gone' \subseteq Chat /\ vain' \in BOOLEAN
      /\ openRequest' \in 0..MaxOpens
      /\ Selection'
  BY <1>1, RecordsTyped DEF Selection
<1> QED BY <1>1, <1>2, LeavesTells, LoadsStep

\* A deletion or archiving begins, and its call answers.
LEMMA RemovalSteps ==
  ASSUME ViewInv, RemovalAnswers \/ \E c \in Chat : RemoveChat(c)
  PROVE  ViewInv'
<1>1. /\ UNCHANGED <<rows, changes, feed, shown, view, loadingSession, buffer, openRequest, opens,
                     spinner, vain>>
      /\ gone' \subseteq Chat
      /\ Selection'
  <2>1. CASE RemovalAnswers
    <3>1. Selection /\ gone \subseteq Chat
      BY RecordsTyped
    <3>2. /\ UNCHANGED <<rows, changes, feed, shown, view, loadingSession, buffer, openRequest,
                         opens, spinner, vain>>
          /\ removal.step = "call"
      BY <2>1 DEF RemovalAnswers
    <3>3. CASE removal' = NoRemoval /\ UNCHANGED gone
      BY <3>1, <3>2, <3>3 DEF NoRemoval, Selection
    <3>4. CASE removal' = [removal EXCEPT !.step = "lists"] /\ gone' = gone \cup {removal.chat}
      <4>1. removal.chat \in Chat
        BY <3>1, <3>2 DEF Selection
      <4>2. removal' \in [chat : Chat \cup {Nothing}, selected : BOOLEAN,
                          step : {"none", "call", "lists"}] /\ removal'.chat = removal.chat
        BY <3>1, <3>4 DEF Selection
      <4> QED BY <3>1, <3>2, <3>4, <4>1, <4>2 DEF Selection
    <3> QED BY <2>1, <3>3, <3>4 DEF RemovalAnswers
  <2>2. CASE \E c \in Chat : RemoveChat(c)
    BY <2>2, RecordsTyped DEF RemoveChat, Selection
  <2> QED BY <2>1, <2>2
<1>2. spinner' \in BOOLEAN /\ vain' \in BOOLEAN /\ openRequest' \in 0..MaxOpens
      /\ opens' \in [1..MaxOpens -> OpenRecord]
  BY <1>1, RecordsTyped
<1> QED BY <1>1, <1>2, LoadsStep

\* A load fails: if it was of the shown conversation, its events went with it.
LEMMA LoadFailsStep ==
  ASSUME ViewInv, NEW n \in 1..MaxOpens, LoadFails(n)
  PROVE  ViewInv'
<1>1. /\ opens[n].failed /\ n = openRequest /\ Leaves(n)
      /\ loadingSession' = Nothing /\ spinner' = FALSE
      /\ vain' = (vain \/ opens[n].chat = shown)
      /\ UNCHANGED <<rows, changes, gone, feed, shown, view, buffer, openRequest, removal>>
  BY DEF LoadFails
<1>2. loadingSession = opens[n].chat
  BY <1>1 DEF ViewInv, Reading
<1>3. spinner' \in BOOLEAN /\ gone' \subseteq Chat /\ vain' \in BOOLEAN
      /\ openRequest' \in 0..MaxOpens /\ Selection'
  BY <1>1, RecordsTyped DEF Selection
<1>4. \A c \in Chat : shown = c /\ loadingSession' # c /\ ~vain' => loadingSession # c /\ ~vain
  BY <1>1, <1>2
<1>5. /\ opens' \in [1..MaxOpens -> OpenRecord]
      /\ \A k \in 1..MaxOpens :
           \/ opens'[k] = opens[k]
           \/ /\ opens'[k].step # "reads" /\ ~opens'[k].failed
              /\ opens'[k].step # "none" => opens'[k].chat \in Chat
      /\ \A k \in 1..MaxOpens : opens'[k].step = "reads" => k # openRequest'
  BY <1>1, LeavesTells
<1> QED BY <1>1, <1>3, <1>4, <1>5, LoadsStep

\* The session is known, and its events are buffered from here on, the buffer being empty.
LEMMA StartReadsStep ==
  ASSUME ViewInv, NEW n \in 1..MaxOpens, opens[n].step = "session", n = openRequest,
         StartReads(n),
         UNCHANGED <<rows, changes, gone, feed, shown, view, openRequest, removal>>
  PROVE  ViewInv'
<1>0. ViewTypeOK /\ FeedTells /\ BufferMerges /\ Reading /\ Showing /\ Selection
  BY DEF ViewInv
<1>1. /\ opens' = [opens EXCEPT ![n].step = "reads", ![n].pending = Reads]
      /\ loadingSession' = opens[n].chat /\ buffer' = <<>>
      /\ vain' = (vain \/ loadingSession = shown) /\ spinner' = spinner
  BY DEF StartReads
<1>2. opens[n] \in OpenRecord /\ opens[n].chat \in Chat /\ ~opens[n].failed
  BY <1>0, RecordsTyped DEF Reading
<1>3. /\ opens' \in [1..MaxOpens -> OpenRecord]
      /\ opens'[n].step = "reads" /\ opens'[n].pending = Reads
      /\ opens'[n].chat = opens[n].chat /\ ~opens'[n].failed
      /\ \A k \in 1..MaxOpens : k # n => opens'[k] = opens[k]
  <2> DEFINE o == [opens[n] EXCEPT !.step = "reads"]
             q == [o EXCEPT !.pending = Reads]
  <2>1. opens' = [opens EXCEPT ![n] = q]
    BY <1>1, RecordsTyped
  <2>2. o \in OpenRecord /\ o.step = "reads" /\ o.chat = opens[n].chat /\ o.failed = opens[n].failed
    BY <1>2 DEF OpenRecord
  <2> HIDE DEF o
  <2>3. q \in OpenRecord /\ q.step = o.step /\ q.chat = o.chat /\ q.failed = o.failed
        /\ q.pending = Reads
    BY <2>2 DEF OpenRecord
  <2> HIDE DEF q
  <2>4. opens' \in [1..MaxOpens -> OpenRecord] /\ opens'[n] = q
        /\ \A k \in 1..MaxOpens : k # n => opens'[k] = opens[k]
    BY <2>1, <2>3, RecordsTyped
  <2> QED BY <1>2, <2>2, <2>3, <2>4
<1>4. ViewTypeOK'
  <2>1. buffer' \in Seq(ViewEvents)
    BY <1>1, EmptySeq
  <2>2. loadingSession' \in Chat \cup {Nothing} /\ vain' \in BOOLEAN
    BY <1>1, <1>2, RecordsTyped
  <2> QED BY <1>0, <1>1, <1>3, <2>1, <2>2 DEF ViewTypeOK, OpenRecord
<1>5. FeedTells'
  BY <1>0, FeedTellsStays
<1>6. \A v \in Views : mergeBufferedEvents(v)' = v
  <2>1. Len(buffer') = 0
    BY <1>1
  <2>2. ASSUME NEW v \in Views, NEW b, Len(b) = 0
        PROVE  MergedAll(b, v)[Len(b)] = v
    BY <2>2, MergingSteps
  <2> QED BY <2>1, <2>2, MergedPrime
<1>7. BufferMerges'
  <2>1. ASSUME NEW v \in Views
        PROVE  MergeTells(v, v, loadingSession)'
    BY ViewParts DEF MergeTells
  <2> QED BY <1>6, <2>1 DEF BufferMerges, MergesApart
<1>8. Reading'
  <2>1. ASSUME NEW k \in 1..MaxOpens
        PROVE  /\ opens'[k].failed => opens'[k].step = "reads"
               /\ opens'[k].step # "none" => opens'[k].chat \in Chat
               /\ opens'[k].step = "reads" /\ k = openRequest' =>
                    loadingSession' = opens'[k].chat
    BY <1>0, <1>1, <1>2, <1>3 DEF Reading
  <2>2. ASSUME NEW k \in 1..MaxOpens, NEW c \in Chat, NEW v \in Views, NEW m \in Views,
               NEW p \in SUBSET Reads, LoadOf(k, c)', ~opens'[k].failed, opens'[k].pending = p,
               opens'[k].got = v, mergeBufferedEvents(v)' = m
        PROVE  ReadTells(p, v, m, c)'
    <3>1. p = Reads
      BY <1>3, <2>2 DEF LoadOf
    <3> QED BY <3>1 DEF ReadTells, Reads
  <2> QED BY <2>1, <2>2 DEF Reading
<1>9. Showing'
  BY <1>0, <1>1, ShowingStays
<1>10. Selection'
  BY <1>0 DEF Selection
<1> QED BY <1>4, <1>5, <1>7, <1>8, <1>9, <1>10 DEF ViewInv

\* sessions.getMain or rooms.get answers.
LEMMA SessionStep ==
  ASSUME ViewInv, NEW n \in 1..MaxOpens, SessionAnswers(n)
  PROVE  ViewInv'
<1>1. /\ opens[n].step = "session"
      /\ UNCHANGED <<rows, changes, gone, feed, shown, view, openRequest, removal>>
  BY DEF SessionAnswers
<1>2. CASE Leaves(n) /\ UNCHANGED <<loadingSession, buffer, vain>>
           /\ (spinner' = spinner \/ spinner' = FALSE)
  <2>1. spinner' \in BOOLEAN /\ gone' \subseteq Chat /\ vain' \in BOOLEAN
        /\ openRequest' \in 0..MaxOpens /\ Selection'
    BY <1>1, <1>2, RecordsTyped DEF Selection
  <2> QED BY <1>1, <1>2, <2>1, LeavesTells, LoadsStep
<1>3. CASE n = openRequest /\ StartReads(n)
  BY <1>1, <1>3, StartReadsStep
<1> QED BY <1>2, <1>3 DEF SessionAnswers

----------------------------------------------------------------------------
(***************************************************************************)
(* The reads of a load.                                                    *)
(***************************************************************************)

\* What has just been read of a conversation is current, whatever is under way.
LEMMA JustRead ==
  ASSUME ViewTypeOK, FeedTells, NEW c \in Chat, NEW w \in Views
  PROVE  /\ w.runs = rows[c].runs /\ w.live = w.runs => RunsCurrent(w, c)
         /\ w.tool = rows[c].tool => ToolCurrent(w, c)
         /\ w.approval = (rows[c].tool = 1) => ApprovalCurrent(w, c)
<1>1. ASSUME w.runs = rows[c].runs, w.live = w.runs
      PROVE  RunsCurrent(w, c)
  <2>1. \A r \in Runs : rows[c].runs[r] \in Nat
    BY TypeParts
  <2>2. ASSUME NEW q \in Runs, NEW i \in 1..Len(feed), RunEvent(i, c, q)
        PROVE  /\ w.runs[q] >= feed[i].version
               /\ \A s \in Runs : w.runs[s] >= feed[i].live[s]
               /\ feed[i].version \in Nat
    <3>1. /\ feed[i].live[q] = feed[i].version
          /\ \A s \in Runs : feed[i].live[s] <= rows[c].runs[s]
      BY <2>2 DEF FeedTells, RunsFed
    <3>2. feed[i].version \in Nat /\ \A s \in Runs : feed[i].live[s] \in Nat
      BY TypeParts, EventParts
    <3> QED BY <1>1, <2>1, <3>1, <3>2
  <2>3. \A r \in Runs : w.runs[r] <= rows[c].runs[r] /\ w.runs[r] >= rows[c].runs[r]
    BY <1>1, <2>1
  <2>4. \A q \in Runs, i \in 1..Len(feed) : RunEvent(i, c, q) => ~(w.runs[q] < feed[i].version)
    BY <1>1, <2>1, <2>2
  <2> QED BY <1>1, <2>2, <2>3, <2>4 DEF RunsCurrent
<1>2. ASSUME w.tool = rows[c].tool
      PROVE  ToolCurrent(w, c)
  <2>1. rows[c].tool \in Nat
    BY TypeParts
  <2> QED BY <1>2, <2>1 DEF ToolCurrent
<1>3. w.approval = (rows[c].tool = 1) => ApprovalCurrent(w, c)
  BY DEF ApprovalCurrent
<1> QED BY <1>1, <1>2, <1>3

\* What a read makes of what the load has, u, is v: one part is that of the rows, and the
\* others are as they were.
ReadInto(r, c, u, v) ==
  /\ IF r = "snapshot" THEN v.runs = rows[c].runs /\ v.live = rows[c].runs
                       ELSE v.runs = u.runs /\ v.live = u.live
  /\ v.tool = IF r = "tools" THEN rows[c].tool ELSE u.tool
  /\ v.approval = IF r = "approvals" THEN (rows[c].tool = 1) ELSE u.approval

\* A read keeps the load current: the buffered events of its conversation are merged into
\* it, and these have nothing that the rows do not have.
LEMMA ReadKeeps ==
  ASSUME ViewInv, NEW r \in Reads, NEW c \in Chat, c = loadingSession, NEW p \in SUBSET Reads,
         NEW u \in Views, NEW v \in Views, NEW k \in Views, NEW m \in Views,
         mergeBufferedEvents(u) = k, mergeBufferedEvents(v) = m,
         ReadTells(p, u, k, c), ReadInto(r, c, u, v)
  PROVE  ReadTells(p \ {r}, v, m, c)
<1>0. ViewTypeOK /\ FeedTells
  BY DEF ViewInv
<1>1. MergesApart(u, v, k, m) /\ MergeTells(v, m, c)
  BY DEF ViewInv, BufferMerges
<1>2. /\ \A s \in Runs : m.runs[s] >= v.runs[s]
      /\ m.tool >= v.tool
      /\ m.runs = v.runs => m.live = v.live
      /\ \A s \in Runs : m.runs[s] = v.runs[s] \/ m.runs[s] <= rows[c].runs[s]
      /\ m.tool = v.tool \/ m.tool <= rows[c].tool
      /\ m.approval = v.approval \/ ApprovalCurrent(m, c)
  BY <1>1 DEF MergeTells
<1>3. /\ u.runs = v.runs /\ u.live = v.live => k.runs = m.runs /\ k.live = m.live
      /\ u.tool = v.tool => k.tool = m.tool
      /\ u.approval = v.approval => k.approval = m.approval
  BY <1>1 DEF MergesApart
<1>4. view \in Views /\ (shown = c => /\ \A s \in Runs : view.runs[s] <= rows[c].runs[s]
                                      /\ view.tool <= rows[c].tool)
  BY <1>0, TypeParts DEF ViewInv, Showing
<1>5. /\ \A s \in Runs : v.runs[s] \in Nat /\ m.runs[s] \in Nat /\ rows[c].runs[s] \in Nat
  BY <1>0, ViewParts, TypeParts
<1>6. v.tool \in Nat /\ m.tool \in Nat /\ rows[c].tool \in Nat
  BY <1>0, ViewParts, TypeParts
<1>7. ASSUME "snapshot" \notin p \ {r}
      PROVE  /\ RunsCurrent(m, c)
             /\ shown = c => \A s \in Runs : view.runs[s] <= v.runs[s]
  <2>1. CASE r = "snapshot"
    <3>1. v.runs = rows[c].runs /\ v.live = rows[c].runs
      BY <2>1 DEF ReadInto
    <3>2. \A s \in Runs : m.runs[s] = v.runs[s]
      BY <1>2, <1>5, <3>1
    <3>3. m.runs = v.runs
      <4>1. m.runs \in [Runs -> 0..MaxChanges] /\ v.runs \in [Runs -> 0..MaxChanges]
        BY ViewParts
      <4> QED BY <3>2, <4>1
    <3>4. m.runs = rows[c].runs /\ m.live = m.runs
      BY <1>2, <3>1, <3>3
    <3>5. RunsCurrent(m, c)
      BY <1>0, <3>4, JustRead
    <3> QED BY <1>4, <3>1, <3>5
  <2>2. CASE r # "snapshot"
    <3>1. v.runs = u.runs /\ v.live = u.live /\ "snapshot" \notin p
      BY <1>7, <2>2 DEF ReadInto
    <3>2. /\ RunsCurrent(k, c)
          /\ shown = c => \A s \in Runs : view.runs[s] <= u.runs[s]
      BY <3>1 DEF ReadTells
    <3>3. m.runs = k.runs /\ m.live = k.live
      BY <1>3, <3>1
    <3>4. RunsCurrent(m, c)
      BY <3>2, <3>3 DEF RunsCurrent
    <3> QED BY <3>1, <3>2, <3>4
  <2> QED BY <2>1, <2>2
<1>8. ASSUME "tools" \notin p \ {r}
      PROVE  ToolCurrent(m, c) /\ (shown = c => view.tool <= v.tool)
  <2>1. CASE r = "tools"
    <3>1. v.tool = rows[c].tool
      BY <2>1 DEF ReadInto
    <3>2. m.tool = rows[c].tool
      BY <1>2, <1>6, <3>1
    <3>3. ToolCurrent(m, c)
      BY <1>0, <3>2, JustRead
    <3> QED BY <1>4, <3>1, <3>3
  <2>2. CASE r # "tools"
    <3>1. v.tool = u.tool /\ "tools" \notin p
      BY <1>8, <2>2 DEF ReadInto
    <3>2. ToolCurrent(k, c) /\ (shown = c => view.tool <= u.tool)
      BY <3>1 DEF ReadTells
    <3>3. m.tool = k.tool
      BY <1>3, <3>1
    <3>4. ToolCurrent(m, c)
      BY <3>2, <3>3 DEF ToolCurrent
    <3> QED BY <3>1, <3>2, <3>4
  <2> QED BY <2>1, <2>2
<1>9. ASSUME "approvals" \notin p \ {r}
      PROVE  ApprovalCurrent(m, c)
  <2>1. CASE r = "approvals"
    <3>1. v.approval = (rows[c].tool = 1)
      BY <2>1 DEF ReadInto
    <3>2. m.approval = v.approval => ApprovalCurrent(m, c)
      BY <3>1 DEF ApprovalCurrent
    <3> QED BY <1>2, <3>2
  <2>2. CASE r # "approvals"
    <3>1. v.approval = u.approval /\ "approvals" \notin p
      BY <1>9, <2>2 DEF ReadInto
    <3>2. ApprovalCurrent(k, c)
      BY <3>1 DEF ReadTells
    <3>3. m.approval = k.approval
      BY <1>3, <3>1
    <3> QED BY <3>2, <3>3 DEF ApprovalCurrent
  <2> QED BY <2>1, <2>2
<1> QED BY <1>7, <1>8, <1>9 DEF ReadTells

\* The read that a load makes, in the terms above.
LEMMA ReadChanges ==
  ASSUME ViewInv, NEW n \in 1..MaxOpens, NEW r \in Reads, ReadAnswers(n, r),
         opens[n].chat \in Chat
  PROVE  /\ opens' \in [1..MaxOpens -> OpenRecord]
         /\ \A k \in 1..MaxOpens : k # n => opens'[k] = opens[k]
         /\ opens'[n].step = "reads" /\ opens'[n].chat = opens[n].chat
         /\ \/ opens'[n].failed
            \/ /\ opens'[n].failed = opens[n].failed
               /\ opens'[n].pending = opens[n].pending \ {r}
               /\ ReadInto(r, opens[n].chat, opens[n].got, opens'[n].got)
<1> DEFINE o == opens[n]
           row == rows[opens[n].chat]
           q == [o EXCEPT !.pending = @ \ {r}]
<1>1. o \in OpenRecord /\ o.step = "reads" /\ r \in o.pending
  BY RecordsTyped DEF ReadAnswers
<1>2. /\ row.runs \in [Runs -> 0..MaxChanges] /\ row.tool \in 0..2
  BY DEF ViewInv, ViewTypeOK
<1>3. ASSUME NEW x \in OpenRecord, opens' = [opens EXCEPT ![n] = x]
      PROVE  /\ opens' \in [1..MaxOpens -> OpenRecord] /\ opens'[n] = x
             /\ \A k \in 1..MaxOpens : k # n => opens'[k] = opens[k]
  BY <1>3, RecordsTyped
<1>4. /\ q \in OpenRecord /\ q.step = o.step /\ q.chat = o.chat /\ q.failed = o.failed
      /\ q.pending = o.pending \ {r} /\ q.got = o.got /\ q.got \in Views
  BY <1>1 DEF OpenRecord
<1>5. [opens EXCEPT ![n].pending = @ \ {r}] = [opens EXCEPT ![n] = q]
  BY RecordsTyped
<1> HIDE DEF q
<1> DEFINE read == [opens EXCEPT ![n] = q]
<1>6. read[n] = q /\ \A x : [read EXCEPT ![n] = x] = [opens EXCEPT ![n] = x]
  BY RecordsTyped
<1>7. ASSUME NEW g \in Views
      PROVE  LET x == [q EXCEPT !.got = g] IN
             /\ x \in OpenRecord /\ x.step = o.step /\ x.chat = o.chat /\ x.failed = o.failed
             /\ x.pending = o.pending \ {r} /\ x.got = g
  BY <1>4 DEF OpenRecord
<1>8. CASE opens' = [opens EXCEPT ![n].pending = {}, ![n].failed = TRUE, ![n].got = Blank]
  <2> DEFINE x == [o EXCEPT !.pending = {}]
             y == [x EXCEPT !.failed = TRUE]
             z == [y EXCEPT !.got = Blank]
  <2>1. opens' = [opens EXCEPT ![n] = z]
    BY <1>8, RecordsTyped
  <2>2. x \in OpenRecord /\ x.step = o.step /\ x.chat = o.chat
    BY <1>1 DEF OpenRecord
  <2> HIDE DEF x
  <2>3. y \in OpenRecord /\ y.step = x.step /\ y.chat = x.chat /\ y.failed = TRUE
    BY <2>2 DEF OpenRecord
  <2> HIDE DEF y
  <2>4. z \in OpenRecord /\ z.step = y.step /\ z.chat = y.chat /\ z.failed = y.failed
    BY <2>3, Blanks DEF OpenRecord
  <2> HIDE DEF z
  <2> QED BY <1>1, <1>3, <2>1, <2>2, <2>3, <2>4
\* A read that succeeds puts g in place of what the load had.
<1>9. ASSUME NEW g \in Views, opens' = [opens EXCEPT ![n] = [q EXCEPT !.got = g]],
             ReadInto(r, o.chat, o.got, g)
      PROVE  /\ opens' \in [1..MaxOpens -> OpenRecord]
             /\ \A k \in 1..MaxOpens : k # n => opens'[k] = opens[k]
             /\ opens'[n].step = "reads" /\ opens'[n].chat = opens[n].chat
             /\ opens'[n].failed = opens[n].failed
             /\ opens'[n].pending = opens[n].pending \ {r}
             /\ ReadInto(r, opens[n].chat, opens[n].got, opens'[n].got)
  <2> DEFINE x == [q EXCEPT !.got = g]
  <2>1. /\ x \in OpenRecord /\ x.step = o.step /\ x.chat = o.chat /\ x.failed = o.failed
        /\ x.pending = o.pending \ {r} /\ x.got = g
    BY <1>7
  <2>2. opens' = [opens EXCEPT ![n] = x]
    BY <1>9
  <2> HIDE DEF x
  <2>3. /\ opens' \in [1..MaxOpens -> OpenRecord] /\ opens'[n] = x
        /\ \A k \in 1..MaxOpens : k # n => opens'[k] = opens[k]
    BY <1>3, <2>1, <2>2
  <2>4. ReadInto(r, opens[n].chat, opens[n].got, x.got)
    BY <1>9, <2>1
  <2> QED BY <1>1, <2>1, <2>3, <2>4
<1>10. CASE r = "snapshot" /\ opens' = [read EXCEPT ![n].got.runs = row.runs,
                                                    ![n].got.live = row.runs]
  <2> DEFINE h == [q.got EXCEPT !.runs = row.runs]
             g == [h EXCEPT !.live = row.runs]
  <2>1. h \in Views /\ h.runs = row.runs /\ h.tool = q.got.tool /\ h.approval = q.got.approval
    BY <1>2, <1>4 DEF Views
  <2>2. g \in Views /\ g.runs = row.runs /\ g.live = row.runs /\ g.tool = q.got.tool
        /\ g.approval = q.got.approval
    <3> HIDE DEF h
    <3>1. /\ g \in Views /\ g.runs = h.runs /\ g.live = row.runs /\ g.tool = h.tool
          /\ g.approval = h.approval
      BY <1>2, <2>1 DEF Views
    <3> HIDE DEF g
    <3> QED BY <2>1, <3>1
  <2>3. opens' = [opens EXCEPT ![n] = [q EXCEPT !.got = g]]
    <3>1. read \in [1..MaxOpens -> OpenRecord]
      BY <1>4, RecordsTyped
    <3>2. opens' = [read EXCEPT ![n] = [q EXCEPT !.got = g]]
      <4>1. opens' = [read EXCEPT ![n] = [read[n] EXCEPT !.got =
                       [[read[n].got EXCEPT !.runs = row.runs] EXCEPT !.live = row.runs]]]
        <5> HIDE DEF read
        <5> QED BY <1>1, <1>4, <1>6, <1>10, <3>1 DEF OpenRecord
      <4> QED BY <1>6, <4>1
    <3> HIDE DEF g, read
    <3> QED BY <1>6, <3>2 DEF read
  <2> HIDE DEF g, h
  <2>4. ReadInto(r, o.chat, o.got, g)
    BY <1>4, <1>10, <2>2 DEF ReadInto
  <2> QED BY <1>9, <2>2, <2>3, <2>4
<1>11. CASE r = "tools" /\ opens' = [read EXCEPT ![n].got.tool = row.tool]
  <2> DEFINE g == [q.got EXCEPT !.tool = row.tool]
  <2>1. g \in Views /\ g.runs = q.got.runs /\ g.live = q.got.live /\ g.tool = row.tool
        /\ g.approval = q.got.approval
    BY <1>2, <1>4 DEF Views
  <2>2. opens' = [opens EXCEPT ![n] = [q EXCEPT !.got = g]]
    BY <1>6, <1>11
  <2> HIDE DEF g
  <2>3. ReadInto(r, o.chat, o.got, g)
    BY <1>4, <1>11, <2>1 DEF ReadInto
  <2> QED BY <1>9, <2>1, <2>2, <2>3
<1>12. CASE r = "approvals" /\ opens' = [read EXCEPT ![n].got.approval = (row.tool = 1)]
  <2> DEFINE g == [q.got EXCEPT !.approval = (row.tool = 1)]
  <2>1. g \in Views /\ g.runs = q.got.runs /\ g.live = q.got.live /\ g.tool = q.got.tool
        /\ g.approval = (row.tool = 1)
    BY <1>2, <1>4 DEF Views
  <2>2. opens' = [opens EXCEPT ![n] = [q EXCEPT !.got = g]]
    BY <1>6, <1>12
  <2> HIDE DEF g
  <2>3. ReadInto(r, o.chat, o.got, g)
    BY <1>4, <1>12, <2>1 DEF ReadInto
  <2> QED BY <1>9, <2>1, <2>2, <2>3
<1>13. \/ opens' = [opens EXCEPT ![n].pending = {}, ![n].failed = TRUE, ![n].got = Blank]
       \/ r = "snapshot" /\ opens' = [read EXCEPT ![n].got.runs = row.runs,
                                                  ![n].got.live = row.runs]
       \/ r = "tools" /\ opens' = [read EXCEPT ![n].got.tool = row.tool]
       \/ r = "approvals" /\ opens' = [read EXCEPT ![n].got.approval = (row.tool = 1)]
  <2>1. r \in {"snapshot", "tools", "approvals"}
    BY DEF Reads
  <2> HIDE DEF read
  <2>2. [opens EXCEPT ![n].pending = @ \ {r}] = read
    BY <1>5 DEF read
  <2>3. CASE r = "snapshot"
    BY <2>2, <2>3 DEF ReadAnswers
  <2>4. CASE r = "tools"
    BY <2>2, <2>4 DEF ReadAnswers
  <2>5. CASE r = "approvals"
    BY <2>2, <2>5 DEF ReadAnswers
  <2> QED BY <2>1, <2>3, <2>4, <2>5
<1> HIDE DEF read, row, o
<1> QED BY <1>8, <1>9, <1>10, <1>11, <1>12, <1>13

\* A read answers or fails.
LEMMA ReadStep ==
  ASSUME ViewInv, NEW n \in 1..MaxOpens, NEW r \in Reads, ReadAnswers(n, r)
  PROVE  ViewInv'
<1>0. ViewTypeOK /\ FeedTells /\ BufferMerges /\ Reading /\ Showing /\ Selection
  BY DEF ViewInv
<1>1. /\ opens[n].step = "reads" /\ n = openRequest
      /\ UNCHANGED <<rows, changes, gone, feed, shown, view, loadingSession, buffer, openRequest,
                     spinner, removal, vain>>
  BY DEF ReadAnswers
<1>2. opens[n].chat \in Chat /\ loadingSession = opens[n].chat
  BY <1>0, <1>1 DEF Reading
<1>3. /\ opens' \in [1..MaxOpens -> OpenRecord]
      /\ \A k \in 1..MaxOpens : k # n => opens'[k] = opens[k]
      /\ opens'[n].step = "reads" /\ opens'[n].chat = opens[n].chat
      /\ \/ opens'[n].failed
         \/ /\ opens'[n].failed = opens[n].failed
            /\ opens'[n].pending = opens[n].pending \ {r}
            /\ ReadInto(r, opens[n].chat, opens[n].got, opens'[n].got)
  BY <1>2, ReadChanges
<1>4. ViewTypeOK'
  BY <1>0, <1>1, <1>3 DEF ViewTypeOK, OpenRecord
<1>5. FeedTells'
  BY <1>0, <1>1, FeedTellsStays
<1>6. BufferMerges'
  BY <1>0, <1>1, BufferMergesStays
<1>7. Showing'
  BY <1>0, <1>1, ShowingStays
<1>8. Selection'
  BY <1>0, <1>1 DEF Selection
<1>9. Reading'
  <2>1. ASSUME NEW k \in 1..MaxOpens
        PROVE  /\ opens'[k].failed => opens'[k].step = "reads"
               /\ opens'[k].step # "none" => opens'[k].chat \in Chat
               /\ opens'[k].step = "reads" /\ k = openRequest' =>
                    loadingSession' = opens'[k].chat
    BY <1>0, <1>1, <1>2, <1>3 DEF Reading
  <2>2. ASSUME NEW k \in 1..MaxOpens, NEW c \in Chat, NEW v \in Views, NEW m \in Views,
               NEW p \in SUBSET Reads, LoadOf(k, c)', ~opens'[k].failed, opens'[k].pending = p,
               opens'[k].got = v, mergeBufferedEvents(v)' = m
        PROVE  ReadTells(p, v, m, c)'
    <3>1. k = n /\ c = opens[n].chat /\ c = loadingSession
      BY <1>1, <1>2, <1>3, <2>2 DEF LoadOf
    <3>2. PICK u \in Views : u = opens[n].got
      <4>1. opens[n] \in OpenRecord
        BY RecordsTyped
      <4> QED BY <4>1 DEF OpenRecord
    <3>3. PICK l \in Views : l = mergeBufferedEvents(u)
      BY <1>0 DEF BufferMerges
    <3>4. PICK q \in SUBSET Reads : q = opens[n].pending
      <4>1. opens[n] \in OpenRecord
        BY RecordsTyped
      <4> QED BY <4>1 DEF OpenRecord
    <3>5. mergeBufferedEvents(v) = m
      BY <1>1, <2>2, MergedStays
    <3>6. LoadOf(n, c) /\ ~opens[n].failed
      BY <1>1, <1>3, <2>2, <3>1 DEF LoadOf
    <3>7. ReadTells(q, u, l, c)
      BY <1>0, <3>2, <3>3, <3>4, <3>6 DEF Reading
    <3>8. ReadInto(r, c, u, v) /\ p = q \ {r}
      BY <1>3, <2>2, <3>1, <3>2, <3>4
    <3>9. ReadTells(p, v, m, c)
      BY <3>1, <3>3, <3>5, <3>7, <3>8, ReadKeeps
    <3> QED BY <1>1, <3>9, CurrentStays DEF ReadTells
  <2> QED BY <2>1, <2>2 DEF Reading
<1> QED BY <1>4, <1>5, <1>6, <1>7, <1>8, <1>9 DEF ViewInv

\* The window shows what was read, with the buffered events merged into it.
LEMMA LoadEndsStep ==
  ASSUME ViewInv, NEW n \in 1..MaxOpens, LoadEnds(n)
  PROVE  /\ ViewInv'
         /\ shown' = shown => /\ \A r \in Runs : view'.runs[r] >= view.runs[r]
                              /\ view'.tool >= view.tool
<1>0. ViewTypeOK /\ FeedTells /\ BufferMerges /\ Reading /\ Showing /\ Selection
  BY DEF ViewInv
<1>1. /\ opens[n].step = "reads" /\ opens[n].pending = {} /\ ~opens[n].failed /\ n = openRequest
      /\ shown' = opens[n].chat /\ view' = mergeBufferedEvents(opens[n].got)
      /\ loadingSession' = Nothing /\ spinner' = FALSE /\ vain' = FALSE
      /\ Leaves(n)
      /\ UNCHANGED <<rows, changes, gone, feed, buffer, openRequest, removal>>
  BY DEF LoadEnds, Shows
<1>2. PICK c \in Chat : c = opens[n].chat /\ loadingSession = c
  BY <1>0, <1>1 DEF Reading
<1>3. PICK v \in Views : v = opens[n].got
  <2>1. opens[n] \in OpenRecord
    BY RecordsTyped
  <2> QED BY <2>1 DEF OpenRecord
<1>4. PICK m \in Views : m = mergeBufferedEvents(v) /\ view' = m
  BY <1>0, <1>1, <1>3 DEF BufferMerges
<1>5. ReadTells({}, v, m, c)
  <2>1. LoadOf(n, c) /\ {} \in SUBSET Reads
    BY <1>1, <1>2 DEF LoadOf
  <2> QED BY <1>0, <1>1, <1>3, <1>4, <2>1 DEF Reading
<1>6. /\ RunsCurrent(m, c) /\ ToolCurrent(m, c) /\ ApprovalCurrent(m, c)
      /\ shown = c => /\ \A r \in Runs : view.runs[r] <= v.runs[r]
                      /\ view.tool <= v.tool
  BY <1>5 DEF ReadTells
<1>7. (\A r \in Runs : m.runs[r] >= v.runs[r]) /\ m.tool >= v.tool
  BY <1>0, <1>4 DEF BufferMerges, MergeTells
<1>8. /\ opens' \in [1..MaxOpens -> OpenRecord]
      /\ \A k \in 1..MaxOpens :
           \/ opens'[k] = opens[k]
           \/ /\ opens'[k].step # "reads" /\ ~opens'[k].failed
              /\ opens'[k].step # "none" => opens'[k].chat \in Chat
      /\ \A k \in 1..MaxOpens : opens'[k].step = "reads" => k # openRequest'
  BY <1>1, LeavesTells
<1>9. ViewTypeOK'
  BY <1>0, <1>1, <1>2, <1>4, <1>8 DEF ViewTypeOK, OpenRecord
<1>10. FeedTells'
  BY <1>0, <1>1, FeedTellsStays
<1>11. BufferMerges'
  BY <1>0, <1>1, BufferMergesStays
<1>12. Reading'
  BY <1>0, <1>8, ReadingStays
<1>13. Showing'
  <2>1. RunsCurrent(m, c)' /\ ToolCurrent(m, c)' /\ ApprovalCurrent(m, c)'
    BY <1>1, <1>6, CurrentStays
  <2>2. (\A r \in Runs : m.runs[r] <= rows[c].runs[r]) /\ m.tool <= rows[c].tool
    BY <1>6 DEF RunsCurrent, ToolCurrent
  <2>3. ASSUME NEW d \in Chat, NEW w \in Views, shown' = d, view' = w
        PROVE  d = c /\ w = m
    BY <1>1, <1>2, <1>4, <2>3
  <2> QED BY <1>1, <2>1, <2>2, <2>3 DEF Showing
<1>14. Selection'
  BY <1>0, <1>1, <1>2, Bounds DEF Selection
<1>15. ASSUME shown' = shown
       PROVE  (\A r \in Runs : view'.runs[r] >= view.runs[r]) /\ view'.tool >= view.tool
  <2>1. shown = c
    BY <1>1, <1>2, <1>15
  <2>2. view \in Views
    BY <1>0, TypeParts
  <2>3. \A r \in Runs : view.runs[r] \in Nat /\ v.runs[r] \in Nat /\ m.runs[r] \in Nat
    BY <2>2, ViewParts
  <2>4. view.tool \in Nat /\ v.tool \in Nat /\ m.tool \in Nat
    BY <2>2, ViewParts
  <2>5. \A r \in Runs : m.runs[r] >= view.runs[r]
    BY <1>6, <1>7, <2>1, <2>3
  <2>6. m.tool >= view.tool
    BY <1>6, <1>7, <2>1, <2>4
  <2> QED BY <1>4, <2>5, <2>6
<1> QED BY <1>9, <1>10, <1>11, <1>12, <1>13, <1>14, <1>15 DEF ViewInv

\* The selection is cleared, or another conversation is opened in its place.
LEMMA RemovalEndsStep ==
  ASSUME ViewInv, RemovalEnds
  PROVE  /\ ViewInv'
         /\ shown' = shown => view' = view
<1>0. ViewTypeOK /\ FeedTells /\ BufferMerges /\ Reading /\ Showing /\ Selection
  BY DEF ViewInv
<1>1. removal' = NoRemoval /\ UNCHANGED <<rows, changes, gone, feed, loadingSession, buffer>>
  BY DEF RemovalEnds
<1>2. CASE UNCHANGED <<shown, view, vain>> /\ UNCHANGED <<openRequest, opens, spinner>>
  <2>1. spinner' \in BOOLEAN /\ gone' \subseteq Chat /\ vain' \in BOOLEAN
        /\ openRequest' \in 0..MaxOpens /\ opens' \in [1..MaxOpens -> OpenRecord]
    BY <1>1, <1>2, RecordsTyped
  <2>2. Selection'
    BY <1>0, <1>1, <1>2 DEF Selection, NoRemoval
  <2> QED BY <1>1, <1>2, <2>1, <2>2, LoadsStep
<1>3. CASE UNCHANGED <<shown, view, vain>> /\ spinner' = TRUE
           /\ \E c \in Chat \ gone : Begin(c, "session")
  <2>1. spinner' \in BOOLEAN /\ gone' \subseteq Chat /\ vain' \in BOOLEAN
    BY <1>1, <1>3, RecordsTyped
  <2>2. Selection'
    BY <1>0, <1>1, <1>3 DEF Selection, NoRemoval
  <2>3. /\ openRequest' \in 0..MaxOpens
        /\ opens' \in [1..MaxOpens -> OpenRecord]
        /\ \A k \in 1..MaxOpens :
             \/ opens'[k] = opens[k]
             \/ /\ opens'[k].step # "reads" /\ ~opens'[k].failed
                /\ opens'[k].step # "none" => opens'[k].chat \in Chat
        /\ \A k \in 1..MaxOpens : opens'[k].step = "reads" => k # openRequest'
    BY <1>3, Begins
  <2> QED BY <1>1, <1>3, <2>1, <2>2, <2>3, LoadsStep
<1>4. CASE clearSelection /\ UNCHANGED <<openRequest, opens, spinner>>
  <2>1. shown' = Nothing /\ view' = Blank /\ vain' = FALSE /\ shown' \notin Chat
    BY <1>4, Bounds DEF clearSelection
  <2>2. ViewTypeOK'
    <3>1. removal' \in [chat : Chat \cup {Nothing}, selected : BOOLEAN,
                        step : {"none", "call", "lists"}]
      BY <1>1 DEF NoRemoval
    <3> QED BY <1>0, <1>1, <1>4, <2>1, <3>1, Blanks DEF ViewTypeOK
  <2>3. FeedTells'
    BY <1>0, <1>1, FeedTellsStays
  <2>4. BufferMerges'
    BY <1>0, <1>1, BufferMergesStays
  <2>5. Reading'
    <3>1. ASSUME NEW k \in 1..MaxOpens
          PROVE  /\ opens'[k].failed => opens'[k].step = "reads"
                 /\ opens'[k].step # "none" => opens'[k].chat \in Chat
                 /\ opens'[k].step = "reads" /\ k = openRequest' =>
                      loadingSession' = opens'[k].chat
      BY <1>0, <1>1, <1>4 DEF Reading
    <3>2. ASSUME NEW k \in 1..MaxOpens, NEW c \in Chat, NEW v \in Views, NEW m \in Views,
                 NEW p \in SUBSET Reads, LoadOf(k, c)', ~opens'[k].failed, opens'[k].pending = p,
                 opens'[k].got = v, mergeBufferedEvents(v)' = m
          PROVE  ReadTells(p, v, m, c)'
      <4>1. mergeBufferedEvents(v) = m /\ LoadOf(k, c)
        BY <1>1, <1>4, <3>2, MergedStays DEF LoadOf
      <4>2. ReadTells(p, v, m, c)
        BY <1>0, <1>4, <3>2, <4>1 DEF Reading
      <4> QED BY <1>1, <2>1, <4>2, CurrentStays DEF ReadTells
    <3> QED BY <3>1, <3>2 DEF Reading
  <2>6. Showing'
    BY <2>1 DEF Showing
  <2>7. Selection'
    BY <1>1, <2>1 DEF Selection, NoRemoval
  <2>8. shown' = shown => view' = view
    BY <1>0, <2>1 DEF Selection
  <2> QED BY <2>2, <2>3, <2>4, <2>5, <2>6, <2>7, <2>8 DEF ViewInv
<1>5. UNCHANGED <<shown, view>> => (shown' = shown => view' = view)
  OBVIOUS
<1> QED BY <1>2, <1>3, <1>4, <1>5 DEF RemovalEnds

----------------------------------------------------------------------------
(***************************************************************************)
(* The theorems.                                                           *)
(***************************************************************************)

\* Every step keeps the invariant.
LEMMA InvNext ==
  ASSUME ViewInv, ViewNext
  PROVE  ViewInv'
BY RunChangesStep, ToolChangesStep, OpenSteps, RemovalSteps, BufferedStep, ShownStep,
   RemovalEndsStep, FlushStep, SessionStep, LoadEndsStep, LoadFailsStep, OvertakenStep, ReadStep
   DEF ViewNext

\* The invariant depends on the variables alone.
LEMMA InvStutters ==
  ASSUME ViewInv, UNCHANGED viewVars
  PROVE  ViewInv'
<1>1. UNCHANGED <<rows, changes, gone, feed, shown, view, loadingSession, buffer, openRequest,
        opens,
                  spinner, removal, vain>>
  BY DEF viewVars
<1>2. spinner' \in BOOLEAN /\ gone' \subseteq Chat /\ vain' \in BOOLEAN
      /\ openRequest' \in 0..MaxOpens /\ opens' \in [1..MaxOpens -> OpenRecord] /\ Selection'
  BY <1>1, RecordsTyped DEF Selection
<1> QED BY <1>1, <1>2, LoadsStep

\* The invariant holds in every behaviour.
THEOREM InvHolds == ViewSpec => []ViewInv
<1>1. ViewInv /\ [ViewNext]_viewVars => ViewInv'
  BY InvNext, InvStutters
<1> QED BY <1>1, InvInitially, PTL DEF ViewSpec

\* Every variable keeps its type.
THEOREM TypeCorrect == ViewSpec => []ViewTypeOK
<1>1. ViewInv => ViewTypeOK
  BY DEF ViewInv
<1> QED BY <1>1, InvHolds, PTL

\* Once every event has been delivered, the window shows the conversation as the main process
\* has it (openBot and openRoom, mergeBufferedEvents, the subscriptions of App).
THEOREM WindowFollows == ViewSpec => []ViewFollows
<1>1. ViewInv => ViewFollows
  <2> SUFFICES ASSUME ViewInv, shown \in Chat \ gone, feed = <<>>, loadingSession # shown, ~vain
               PROVE  view = Newest(shown)
    BY DEF ViewFollows
  <2>1. PICK c \in Chat : c = shown
    OBVIOUS
  <2>2. PICK w \in Views : w = view
    BY TypeParts DEF ViewInv
  <2>3. RunsCurrent(w, c) /\ ToolCurrent(w, c) /\ ApprovalCurrent(w, c)
    BY <2>1, <2>2 DEF ViewInv, Showing
  <2>4. ~ \E j \in 1..Len(feed) : TRUE
    OBVIOUS
  <2>5. /\ w.live = w.runs
        /\ \A r \in Runs : w.runs[r] <= rows[c].runs[r] /\ w.runs[r] >= rows[c].runs[r]
    BY <2>3, <2>4 DEF RunsCurrent
  <2>6. w.tool <= rows[c].tool /\ w.tool >= rows[c].tool
    BY <2>3, <2>4 DEF ToolCurrent
  <2>7. w.approval = (rows[c].tool = 1)
    BY <2>3, <2>4 DEF ApprovalCurrent
  <2>8. \A r \in Runs : w.runs[r] = rows[c].runs[r]
    <3>1. \A r \in Runs : w.runs[r] \in Nat /\ rows[c].runs[r] \in Nat
      BY ViewParts, TypeParts DEF ViewInv
    <3> QED BY <2>5, <3>1
  <2>9. w.runs = rows[c].runs
    <3>1. w.runs \in [Runs -> 0..MaxChanges] /\ rows[c].runs \in [Runs -> 0..MaxChanges]
      BY ViewParts DEF ViewInv, ViewTypeOK
    <3> QED BY <2>8, <3>1
  <2>10. w.tool = rows[c].tool
    <3>1. w.tool \in Nat /\ rows[c].tool \in Nat
      BY ViewParts, TypeParts DEF ViewInv
    <3> QED BY <2>6, <3>1
  <2>11. w = [runs |-> w.runs, live |-> w.live, tool |-> w.tool, approval |-> w.approval]
    BY DEF Views
  <2> QED BY <2>1, <2>2, <2>5, <2>7, <2>9, <2>10, <2>11 DEF Newest
<1> QED BY <1>1, InvHolds, PTL

\* A view that stays goes nowhere.
LEMMA ViewStays ==
  ASSUME ViewInv, view' = view
  PROVE  (\A r \in Runs : view'.runs[r] >= view.runs[r]) /\ view'.tool >= view.tool
<1>1. view \in Views
  BY TypeParts DEF ViewInv
<1>2. \A r \in Runs : view.runs[r] \in Nat
  BY <1>1, ViewParts
<1>3. view.tool \in Nat
  BY <1>1, ViewParts
<1> QED BY <1>2, <1>3

\* What is on screen never goes back to an older version (mergeRuntimeRun, mergeToolInvocation,
\* and the snapshots of openBot and openRoom).
THEOREM ScreenNeverGoesBack == ViewSpec => ViewNeverGoesBack
<1> DEFINE Ahead == /\ \A r \in Runs : view'.runs[r] >= view.runs[r]
                    /\ view'.tool >= view.tool
<1>1. ASSUME ViewInv, [ViewNext]_viewVars, shown' = shown
      PROVE  Ahead
  <2>1. CASE view' = view
    BY <1>1, <2>1, ViewStays
  <2>2. CASE Delivers
    <3>1. CASE Head(feed).chat = loadingSession
      <4>1. view' = view
        BY <2>2, <3>1 DEF Delivers
      <4> QED BY <2>1, <4>1
    <3>2. CASE Head(feed).chat # loadingSession
      BY <1>1, <2>2, <3>2, ShownStep
    <3> QED BY <3>1, <3>2
  <2>3. CASE RemovalEnds
    <3>1. view' = view
      BY <1>1, <2>3, RemovalEndsStep
    <3> QED BY <2>1, <3>1
  <2>4. CASE \E n \in 1..MaxOpens : LoadEnds(n)
    BY <1>1, <2>4, LoadEndsStep
  <2>5. CASE ViewNext /\ ~Delivers /\ ~RemovalEnds /\ ~(\E n \in 1..MaxOpens : LoadEnds(n))
    <3>1. view' = view
      <4>1. ASSUME NEW c \in Chat
            PROVE  /\ \A r \in Runs : RunChanges(c, r) => view' = view
                   /\ ToolChanges(c) \/ OpenChat(c) \/ OpenChatAtOnce(c) \/ RemoveChat(c) =>
                        view' = view
        BY DEF RunChanges, ToolChanges, OpenChat, OpenChatAtOnce, RemoveChat
      <4>2. ASSUME NEW n \in 1..MaxOpens
            PROVE  /\ \A flushed \in BOOLEAN : FlushAnswers(n, flushed) => view' = view
                   /\ \A r \in Reads : ReadAnswers(n, r) => view' = view
                   /\ SessionAnswers(n) \/ LoadFails(n) \/ LoadOvertaken(n) => view' = view
        BY DEF FlushAnswers, ReadAnswers, SessionAnswers, LoadFails, LoadOvertaken
      <4>3. RemovalAnswers => view' = view
        BY DEF RemovalAnswers
      <4> QED BY <2>5, <4>1, <4>2, <4>3 DEF ViewNext
    <3> QED BY <2>1, <3>1
  <2>6. CASE UNCHANGED viewVars
    BY <2>1, <2>6 DEF viewVars
  <2> QED BY <1>1, <2>2, <2>3, <2>4, <2>5, <2>6
<1>2. ViewInv /\ [ViewNext]_viewVars => (shown' = shown => Ahead)
  BY <1>1
<1>3. ViewInv /\ [ViewNext]_viewVars =>
        [shown' = shown => /\ \A r \in Runs : view'.runs[r] >= view.runs[r]
                           /\ view'.tool >= view.tool]_viewVars
  BY <1>2
<1> QED BY <1>3, InvHolds, PTL DEF ViewSpec, ViewNeverGoesBack

=============================================================================
