---------------------------- MODULE RendererView ----------------------------
(***************************************************************************)
(* The conversation the window shows (App.tsx, runtime-state.ts,           *)
(* room-runtime-state.ts): it is loaded by several reads, follows the main *)
(* process by events, and gives way to another that the user opens or that *)
(* takes the place of a deleted one.                                       *)
(*                                                                         *)
(* The main process keeps versioned rows.  Runs stand for everything that  *)
(* the window merges by version: entries, runs, and a Room's batches,      *)
(* turns and handoffs.  One tool call stands for the tools: it is asked    *)
(* for (1, its approval pending) and settled (2).  Events arrive in the    *)
(* order in which they were sent; the answer to a read comes any time      *)
(* after it was made.  Bots and Rooms open in the same way.                *)
(*                                                                         *)
(* Left out: the answer of an approval's buttons, which is merged into the *)
(* tools and approvals by version whichever conversation is shown by then  *)
(* (App.tsx:833-847).  What belongs to another one is never rendered: the  *)
(* conversation goes by the runs that are shown (Conversation.tsx:435).    *)
(***************************************************************************)
EXTENDS Naturals, Sequences

CONSTANTS
  Chat,         \* conversations
  MaxChanges,   \* bound: changes to the rows
  MaxOpens      \* bound: conversations opened

Nothing == "nothing"

ASSUME ViewBounds == MaxChanges \in Nat /\ MaxOpens \in Nat /\ Nothing \notin Chat

VARIABLES
  rows,            \* the main process: the versions of each conversation's rows
  changes,         \* how often they have changed
  gone,            \* conversations deleted
  feed,            \* events sent and not yet delivered
  shown,           \* sessionIdRef, with selectedBot or selectedRoom; or Nothing
  view,            \* runs, liveState, toolInvocations and approvalRequests
  loadingSession,  \* loadingSessionIdRef, or Nothing
  buffer,          \* bufferedTranscriptRef and the other buffers
  openRequest,     \* openRequestRef
  opens,           \* what each openBot or openRoom awaits
  spinner,         \* loading
  removal,         \* the deletion or archiving under way
  vain             \* history: events of the shown conversation were buffered for a load
                   \* that came to nothing

viewVars == <<rows, changes, gone, feed, shown, view, loadingSession, buffer, openRequest,
              opens, spinner, removal, vain>>

Runs == 1..2
Reads == {"snapshot", "tools", "approvals"}

NoVersions == [r \in Runs |-> 0]
Blank == [runs |-> NoVersions, live |-> NoVersions, tool |-> 0, approval |-> FALSE]
NoOpen == [chat |-> Nothing, step |-> "none", pending |-> {}, failed |-> FALSE, got |-> Blank]
NoRemoval == [chat |-> Nothing, step |-> "none", selected |-> FALSE]

Views == [runs : [Runs -> 0..MaxChanges], live : [Runs -> 0..MaxChanges], tool : 0..2,
          approval : BOOLEAN]
ViewEvents == [chat : Chat, kind : {"run", "tool"}, run : Runs, version : 1..MaxChanges,
               live : [Runs -> 0..MaxChanges]]

ViewTypeOK ==
  /\ rows \in [Chat -> [runs : [Runs -> 0..MaxChanges], tool : 0..2]]
  /\ changes \in 0..MaxChanges
  /\ gone \subseteq Chat
  /\ feed \in Seq(ViewEvents) /\ buffer \in Seq(ViewEvents)
  /\ shown \in Chat \cup {Nothing} /\ loadingSession \in Chat \cup {Nothing}
  /\ view \in Views
  /\ openRequest \in 0..MaxOpens
  /\ opens \in [1..MaxOpens -> [chat : Chat \cup {Nothing}, pending : SUBSET Reads,
                                step : {"none", "flush", "session", "reads"},
                                failed : BOOLEAN, got : Views]]
  /\ spinner \in BOOLEAN /\ vain \in BOOLEAN
  /\ removal \in [chat : Chat \cup {Nothing}, selected : BOOLEAN,
                  step : {"none", "call", "lists"}]

\* the first effect of App: the lists have been read, and nothing is open yet
ViewInit ==
  /\ rows = [c \in Chat |-> [runs |-> NoVersions, tool |-> 0]]
  /\ changes = 0 /\ gone = {} /\ feed = <<>>
  /\ shown = Nothing /\ view = Blank
  /\ loadingSession = Nothing /\ buffer = <<>>
  /\ openRequest = 0 /\ opens = [n \in 1..MaxOpens |-> NoOpen]
  /\ spinner = TRUE /\ removal = NoRemoval /\ vain = FALSE

----------------------------------------------------------------------------
(***************************************************************************)
(* The main process: a row changes, and the change is announced.           *)
(***************************************************************************)

Announces(e) == feed' = Append(feed, e)

RunChanges(c, r) ==
  /\ changes < MaxChanges /\ c \notin gone
  /\ changes' = changes + 1
  /\ rows' = [rows EXCEPT ![c].runs[r] = @ + 1]
  /\ Announces([chat |-> c, kind |-> "run", run |-> r, version |-> rows[c].runs[r] + 1,
                live |-> rows'[c].runs])
  /\ UNCHANGED <<gone, shown, view, loadingSession, buffer, openRequest, opens, spinner,
                 removal, vain>>

ToolChanges(c) ==
  /\ changes < MaxChanges /\ c \notin gone /\ rows[c].tool < 2
  /\ changes' = changes + 1
  /\ rows' = [rows EXCEPT ![c].tool = @ + 1]
  /\ Announces([chat |-> c, kind |-> "tool", run |-> 1, version |-> rows[c].tool + 1,
                live |-> NoVersions])
  /\ UNCHANGED <<gone, shown, view, loadingSession, buffer, openRequest, opens, spinner,
                 removal, vain>>

----------------------------------------------------------------------------
(***************************************************************************)
(* Merging.  The buffers and the live events are merged in the same way:   *)
(* the newer version of a row wins, and the state of the session is that   *)
(* of the last event that won.  Pending approvals carry no version.        *)
(***************************************************************************)

\* Mutant: the version is not compared.
mergeAnyRun(v, e) == [v EXCEPT !.runs[e.run] = e.version, !.live = e.live]

mergeRuntimeRun(v, e) ==
  IF v.runs[e.run] >= e.version THEN v
  ELSE [v EXCEPT !.runs[e.run] = e.version, !.live = e.live]

mergeToolInvocation(v, e) == IF v.tool >= e.version THEN v ELSE [v EXCEPT !.tool = e.version]

mergePendingApproval(v, e) == [v EXCEPT !.approval = (e.version = 1)]

MergeEvent(v, e) ==
  IF e.kind = "run" THEN mergeRuntimeRun(v, e)
  ELSE mergePendingApproval(mergeToolInvocation(v, e), e)

mergeBufferedEvents(v) ==
  LET merged[i \in 0..Len(buffer)] == IF i = 0 THEN v ELSE MergeEvent(merged[i - 1], buffer[i])
  IN merged[Len(buffer)]

\* the handlers of the subscriptions
Delivers ==
  /\ feed # <<>>
  /\ feed' = Tail(feed)
  /\ IF Head(feed).chat = loadingSession
       THEN buffer' = Append(buffer, Head(feed)) /\ UNCHANGED view
       ELSE /\ view' = IF Head(feed).chat = shown THEN MergeEvent(view, Head(feed)) ELSE view
            /\ UNCHANGED buffer
  /\ UNCHANGED <<rows, changes, gone, shown, loadingSession, openRequest, opens, spinner,
                 removal, vain>>

----------------------------------------------------------------------------
(***************************************************************************)
(* openBot and openRoom.                                                   *)
(***************************************************************************)

\* A later request makes an earlier one stale.  Only flushActive is awaited before the
\* window says that it loads.
Begin(c, step) ==
  /\ openRequest < MaxOpens
  /\ openRequest' = openRequest + 1
  /\ opens' = [opens EXCEPT ![openRequest + 1] = [NoOpen EXCEPT !.chat = c, !.step = step]]

\* the user selects a conversation
OpenChat(c) ==
  /\ c \notin gone
  /\ Begin(c, "flush")
  /\ UNCHANGED <<rows, changes, gone, feed, shown, view, loadingSession, buffer, spinner,
                 removal, vain>>

\* the first effect, and a conversation just created, duplicated or restored
OpenChatAtOnce(c) ==
  /\ c \notin gone
  /\ Begin(c, "session")
  /\ spinner' = TRUE
  /\ UNCHANGED <<rows, changes, gone, feed, shown, view, loadingSession, buffer, removal, vain>>

Leaves(n) == opens' = [opens EXCEPT ![n] = NoOpen]

FlushAnswers(n, flushed) ==
  /\ opens[n].step = "flush"
  /\ IF flushed THEN opens' = [opens EXCEPT ![n].step = "session"] /\ spinner' = TRUE
     ELSE Leaves(n) /\ UNCHANGED spinner
  /\ UNCHANGED <<rows, changes, gone, feed, shown, view, loadingSession, buffer, openRequest,
                 removal, vain>>

\* Mutant: the events are buffered only from the end of the reads.
StartReadsUnbuffered(n) ==
  /\ opens' = [opens EXCEPT ![n].step = "reads", ![n].pending = Reads]
  /\ buffer' = <<>>
  /\ UNCHANGED <<loadingSession, spinner, vain>>

\* The session is known: from here on its events are kept aside, and three reads begin.
StartReads(n) ==
  /\ opens' = [opens EXCEPT ![n].step = "reads", ![n].pending = Reads]
  /\ loadingSession' = opens[n].chat
  /\ buffer' = <<>>
  /\ vain' = (vain \/ loadingSession = shown)
  /\ UNCHANGED spinner

\* sessions.getMain or rooms.get answers
SessionAnswers(n) ==
  /\ opens[n].step = "session"
  /\ \/ /\ n # openRequest
        /\ Leaves(n)
        /\ UNCHANGED <<loadingSession, buffer, spinner, vain>>
     \/ /\ n = openRequest
        /\ Leaves(n) /\ spinner' = FALSE
        /\ UNCHANGED <<loadingSession, buffer, vain>>
     \/ n = openRequest /\ opens[n].chat \notin gone /\ StartReads(n)
  /\ UNCHANGED <<rows, changes, gone, feed, shown, view, openRequest, removal>>

\* One of the reads is made, or fails.  What a failed or an overtaken load reads is of no
\* account.
ReadAnswers(n, r) ==
  /\ opens[n].step = "reads" /\ r \in opens[n].pending /\ n = openRequest
  /\ LET row == rows[opens[n].chat]
         read == [opens EXCEPT ![n].pending = @ \ {r}]
     IN \/ opens' = [opens EXCEPT ![n].pending = {}, ![n].failed = TRUE, ![n].got = Blank]
        \/ /\ opens[n].chat \notin gone
           /\ opens' = CASE r = "snapshot"  -> [read EXCEPT ![n].got.runs = row.runs,
                                                            ![n].got.live = row.runs]
                         [] r = "tools"     -> [read EXCEPT ![n].got.tool = row.tool]
                         [] r = "approvals" -> [read EXCEPT ![n].got.approval = (row.tool = 1)]
  /\ UNCHANGED <<rows, changes, gone, feed, shown, view, loadingSession, buffer, openRequest,
                 spinner, removal, vain>>

Shows(n) ==
  /\ shown' = opens[n].chat
  /\ view' = mergeBufferedEvents(opens[n].got)
  /\ loadingSession' = Nothing /\ spinner' = FALSE /\ vain' = FALSE

LoadEnds(n) ==
  /\ opens[n].step = "reads" /\ opens[n].pending = {} /\ ~opens[n].failed /\ n = openRequest
  /\ Shows(n)
  /\ Leaves(n)
  /\ UNCHANGED <<rows, changes, gone, feed, buffer, openRequest, removal>>

LoadFails(n) ==
  /\ opens[n].failed /\ n = openRequest
  /\ loadingSession' = Nothing /\ spinner' = FALSE
  /\ vain' = (vain \/ opens[n].chat = shown)
  /\ Leaves(n)
  /\ UNCHANGED <<rows, changes, gone, feed, shown, view, buffer, openRequest, removal>>

\* a stale load leaves loadingSessionIdRef to the request that overtook it
LoadOvertaken(n) ==
  /\ opens[n].step = "reads" /\ n # openRequest
  /\ Leaves(n)
  /\ UNCHANGED <<rows, changes, gone, feed, shown, view, loadingSession, buffer, openRequest,
                 spinner, removal, vain>>

----------------------------------------------------------------------------
(***************************************************************************)
(* deleteBot, deleteRoom, deleteConversations, archiveRoom, setRoomHidden: *)
(* the conversation goes, and another is opened in its place if it was the *)
(* selected one when the user asked.                                       *)
(***************************************************************************)

RemoveChat(c) ==
  /\ removal = NoRemoval /\ ~spinner /\ c \notin gone
  /\ removal' = [chat |-> c, step |-> "call", selected |-> shown = c]
  /\ UNCHANGED <<rows, changes, gone, feed, shown, view, loadingSession, buffer, openRequest,
                 opens, spinner, vain>>

\* flushActive or the call refuses, or the conversation goes
RemovalAnswers ==
  /\ removal.step = "call"
  /\ \/ removal' = NoRemoval /\ UNCHANGED gone
     \/ removal' = [removal EXCEPT !.step = "lists"] /\ gone' = gone \cup {removal.chat}
  /\ UNCHANGED <<rows, changes, feed, shown, view, loadingSession, buffer, openRequest, opens,
                 spinner, vain>>

clearSelection == shown' = Nothing /\ view' = Blank /\ vain' = FALSE

\* openFallback
RemovalEnds ==
  /\ removal.step = "lists"
  /\ removal' = NoRemoval
  /\ \/ ~removal.selected /\ UNCHANGED <<shown, view, openRequest, opens, spinner, vain>>
     \/ /\ removal.selected /\ gone = Chat
        /\ clearSelection
        /\ UNCHANGED <<openRequest, opens, spinner>>
     \/ /\ removal.selected /\ \E c \in Chat \ gone : Begin(c, "session")
        /\ spinner' = TRUE
        /\ UNCHANGED <<shown, view, vain>>
  /\ UNCHANGED <<rows, changes, gone, feed, loadingSession, buffer>>

----------------------------------------------------------------------------

ViewNext ==
  \/ \E c \in Chat : \/ \E r \in Runs : RunChanges(c, r)
                     \/ ToolChanges(c) \/ OpenChat(c) \/ OpenChatAtOnce(c) \/ RemoveChat(c)
  \/ Delivers \/ RemovalAnswers \/ RemovalEnds
  \/ \E n \in 1..MaxOpens :
       \/ \E flushed \in BOOLEAN : FlushAnswers(n, flushed)
       \/ SessionAnswers(n) \/ LoadEnds(n) \/ LoadFails(n) \/ LoadOvertaken(n)
       \/ \E r \in Reads : ReadAnswers(n, r)

ViewSpec == ViewInit /\ [][ViewNext]_viewVars

----------------------------------------------------------------------------

\* what the window would show of a conversation if it read it now
Newest(c) == [runs |-> rows[c].runs, live |-> rows[c].runs, tool |-> rows[c].tool,
               approval |-> rows[c].tool = 1]

\* Once every event has been delivered, the window shows the conversation as the main
\* process has it, however the reads of its load and the events of its changes crossed,
\* and whatever other conversations the user tried to open since.  The exception is the
\* shown conversation loaded again by a load that fails or is overtaken.
ViewFollows ==
  (shown \in Chat \ gone /\ feed = <<>> /\ loadingSession # shown /\ ~vain)
    => view = Newest(shown)

\* What is on screen never goes back to an older version: an event that is older than the
\* snapshot is dropped, and a snapshot is no older than the events shown before it.
ViewNeverGoesBack ==
  [][shown' = shown => /\ \A r \in Runs : view'.runs[r] >= view.runs[r]
                       /\ view'.tool >= view.tool]_viewVars

\* Claim not kept: once nothing is under way, the window no longer says that it loads, and
\* what it shows is current.
WindowSettles ==
  (shown \in Chat \ gone /\ feed = <<>> /\ \A n \in 1..MaxOpens : opens[n] = NoOpen)
    => ~spinner /\ view = Newest(shown)
=============================================================================
