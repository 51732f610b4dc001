----------------------------- MODULE MemoryPanel -----------------------------
(***************************************************************************)
(* The Memory of a Bot: the rows of memory_items (database.ts) and the     *)
(* panel that edits them (MemoryPanel.tsx).  One panel serves every Bot,   *)
(* one after the other; it keeps the text typed into each item and into    *)
(* the box for a new one, and saves on a button or when the profile is     *)
(* flushed.  Only the Bot scope is modelled; the other scopes go by the    *)
(* same rows.                                                              *)
(*                                                                         *)
(* The main process carries out a call in one piece and answers the calls  *)
(* in the order they were sent, so that a call takes effect and is         *)
(* answered in one step.  A text is a number, 0 the blank one; the limit   *)
(* of items stands for the one of characters too.                          *)
(***************************************************************************)
EXTENDS Integers, FiniteSets, Sequences

CONSTANTS
  Holder,      \* the Bots
  MaxKept,     \* MAX_ACTIVE_MEMORIES_PER_BOT
  MaxText,     \* bound: different texts
  MaxItems,    \* bound: memories ever created
  MaxTyped,    \* bound: texts typed
  MaxCalls,    \* bound: calls of the buttons and of flushes
  MaxSwitches  \* bound: Bots opened

ASSUME MemoryBounds ==
  /\ {MaxKept, MaxText} \subseteq Nat \ {0}
  /\ {MaxItems, MaxTyped, MaxCalls, MaxSwitches} \subseteq Nat

VARIABLES
  memory,      \* the rows of memory_items
  panelBot,    \* botId
  panel,       \* itemsRef and draftsRef: the items listed and what is typed in each
  newDraft,    \* newDraftRef
  panelStatus, \* status; "idle" is saved, dirty or failed
  panelError,  \* localError is set
  requestSequence, \* requestSequenceRef
  calls,       \* the calls under way, in the order they were sent
  flushing,    \* the flush under way: its Bot and, as it captured them, the items left
  leaving,     \* a flush has succeeded and openBot goes on to show another Bot
  typed,       \* how many texts were typed
  asked        \* how many calls were made

memoryVars == <<memory, panelBot, panel, newDraft, panelStatus, panelError, requestSequence,
                calls, flushing, leaving, typed, asked>>

Item == 1..MaxItems
Texts == 0..MaxText
NoRow == [bot |-> "none", text |-> 0, version |-> 0, state |-> "none"]
Absent == -1   \* draftsRef has nothing for the item
NotListed == [row |-> NoRow, draft |-> Absent]
NoFlush == [on |-> FALSE, bot |-> "none", items |-> [i \in Item |-> NoRow]]

Kept(row) == row.state = "kept"
KeptOf(b) == {i \in Item : memory[i].bot = b /\ Kept(memory[i])}

ItemRows == [bot : Holder \cup {"none"}, text : Texts, version : Nat,
             state : {"none", "kept", "deleted"}]
MemoryCalls == [kind : {"load", "reload", "create", "update", "delete", "restore"},
                bot : Holder, item : 0..MaxItems, seen : ItemRows, text : Texts,
                sequence : Nat, flush : BOOLEAN]

\* With the limits of a Bot's memory: so many kept, and no two of them alike.
MemoryTypeOK ==
  /\ memory \in [Item -> ItemRows]
  /\ panelBot \in Holder
  /\ panel \in [Item -> [row : ItemRows, draft : Texts \cup {Absent}]]
  /\ newDraft \in Texts
  /\ panelStatus \in {"loading", "saving", "idle"} /\ panelError \in BOOLEAN
  /\ requestSequence \in 0..MaxSwitches /\ typed \in 0..MaxTyped
  /\ asked \in 0..MaxCalls
  /\ calls \in Seq(MemoryCalls)
  /\ flushing \in [on : BOOLEAN, bot : Holder \cup {"none"}, items : [Item -> ItemRows]]
  /\ leaving \in BOOLEAN
  /\ \A b \in Holder :
       /\ Cardinality(KeptOf(b)) <= MaxKept
       /\ \A i, j \in KeptOf(b) : i # j => memory[i].text # memory[j].text

NewCall(kind, b) == [kind |-> kind, bot |-> b, item |-> 0, seen |-> NoRow, text |-> 0,
                     sequence |-> requestSequence, flush |-> FALSE]
ItemCall(kind, i) == [NewCall(kind, panelBot) EXCEPT !.item = i, !.seen = panel[i].row]

MemoryInit ==
  /\ panelBot \in Holder
  /\ memory = [i \in Item |-> IF i = 1 THEN [bot |-> panelBot, text |-> 1, version |-> 1,
                                             state |-> "kept"] ELSE NoRow]
  /\ panel = [i \in Item |-> NotListed] /\ newDraft = 0
  /\ panelStatus = "loading" /\ panelError = FALSE /\ requestSequence = 0
  /\ calls = <<NewCall("load", panelBot)>>
  /\ flushing = NoFlush /\ leaving = FALSE /\ typed = 0 /\ asked = 0

----------------------------------------------------------------------------
(***************************************************************************)
(* The rows: createScopedMemory, updateMemory, deleteMemory, restoreMemory *)
(***************************************************************************)

Duplicate(b, text, but) == \E i \in KeptOf(b) \ {but} : memory[i].text = text
AtCapacity(b) == Cardinality(KeptOf(b)) >= MaxKept
Unchanged(c) == memory[c.item].version = c.seen.version
SetRow(i, row) == memory' = [memory EXCEPT ![i] = [row EXCEPT !.version = @ + 1]]

\* the first unused number: items are listed in the order of their creation
Unused == {i \in Item : memory[i] = NoRow}
Least(S) == CHOOSE i \in S : \A j \in S : i <= j
NextItem == Least(Unused)

\* one more than the bound is not created: the call fails
createMemory(c) ==
  /\ Unused # {}
  /\ ~Duplicate(c.bot, c.text, 0) /\ ~AtCapacity(c.bot)
  /\ SetRow(NextItem, [bot |-> c.bot, text |-> c.text, version |-> 0, state |-> "kept"])

updateMemory(c) ==
  /\ Kept(memory[c.item]) /\ Unchanged(c)
  /\ ~Duplicate(memory[c.item].bot, c.text, c.item)
  /\ SetRow(c.item, [memory[c.item] EXCEPT !.text = c.text])

deleteMemory(c) ==
  /\ Unchanged(c) /\ Kept(memory[c.item])
  /\ SetRow(c.item, [memory[c.item] EXCEPT !.state = "deleted"])

\* Mutant: only a new memory is held against the others.
restoreFreely(c) ==
  /\ Unchanged(c)
  /\ IF Kept(memory[c.item]) THEN UNCHANGED memory
     ELSE SetRow(c.item, [memory[c.item] EXCEPT !.state = "kept"])

\* one that is kept already is answered as it is
restoreMemory(c) ==
  /\ Unchanged(c)
  /\ \/ Kept(memory[c.item]) /\ UNCHANGED memory
     \/ /\ ~Kept(memory[c.item])
        /\ ~Duplicate(memory[c.item].bot, memory[c.item].text, c.item)
        /\ ~AtCapacity(memory[c.item].bot)
        /\ SetRow(c.item, [memory[c.item] EXCEPT !.state = "kept"])

----------------------------------------------------------------------------
(***************************************************************************)
(* The panel: typing, the buttons, and another Bot                         *)
(***************************************************************************)

\* What is typed settles the status, also while a call is under way.
Typed ==
  /\ typed < MaxTyped
  /\ typed' = typed + 1
  /\ panelError' = FALSE /\ panelStatus' = "idle"
  /\ UNCHANGED <<memory, panelBot, requestSequence, calls, flushing, leaving,
                 asked>>

TypeNew(text) == newDraft' = text /\ Typed /\ UNCHANGED panel

TypeItem(i, text) ==
  /\ Kept(panel[i].row)
  /\ panel' = [panel EXCEPT ![i].draft = text]
  /\ Typed /\ UNCHANGED newDraft

Asks == asked < MaxCalls /\ asked' = asked + 1

Send(c, status) ==
  /\ Asks
  /\ calls' = Append(calls, c)
  /\ panelStatus' = status /\ panelError' = FALSE
  /\ UNCHANGED <<memory, panelBot, panel, newDraft, requestSequence, flushing, leaving, typed>>

Fail == panelError' = TRUE /\ panelStatus' = "idle"

Dirty(shown, i) == Kept(shown[i].row) /\ shown[i].draft # shown[i].row.text

\* the button of an item: saveItem
SaveItem(i) ==
  /\ Dirty(panel, i) /\ panelStatus # "saving"
  /\ \/ panel[i].draft = 0 /\ Fail
        /\ UNCHANGED <<memory, panelBot, panel, newDraft, requestSequence, calls, flushing,
                       leaving, typed, asked>>
     \/ /\ panel[i].draft # 0
        /\ Send([ItemCall("update", i) EXCEPT !.text = panel[i].draft], "saving")

AddItem ==
  /\ panelStatus = "idle" /\ newDraft # 0
  /\ Send([NewCall("create", panelBot) EXCEPT !.text = newDraft], "saving")

RemoveItem(i) ==
  /\ Kept(panel[i].row) /\ panelStatus # "saving"
  /\ Send(ItemCall("delete", i), "saving")

RestoreItem(i) ==
  /\ panel[i].row.state = "deleted" /\ panelStatus # "saving"
  /\ Send(ItemCall("restore", i), "saving")

\* offered beside an error
ReloadMemories == panelError /\ Send(NewCall("reload", panelBot), "loading")

\* the effect for another Bot
ShowsBot(b) ==
  /\ leaving /\ b # panelBot /\ requestSequence < MaxSwitches
  /\ leaving' = FALSE
  /\ panelBot' = b
  /\ requestSequence' = requestSequence + 1
  /\ panel' = [i \in Item |-> NotListed] /\ newDraft' = 0
  /\ panelStatus' = "loading" /\ panelError' = FALSE
  /\ calls' = Append(calls, [NewCall("load", b) EXCEPT !.sequence = requestSequence'])
  /\ UNCHANGED <<memory, flushing, typed, asked>>

----------------------------------------------------------------------------
(***************************************************************************)
(* flush.  flushAll goes through the items as they were listed when it     *)
(* began, and compares each with what is typed by now; then it creates     *)
(* what is typed for a new one; then it looks at the list of that moment.  *)
(* Up to the next call it awaits it is one piece: below, "left" are the    *)
(* items it has not come to, others are the calls it does not await.       *)
(***************************************************************************)

RowsNow == [i \in Item |-> panel'[i].row]
ToSave(left) == {i \in Item : Kept(left[i]) /\ panel'[i].draft \notin {Absent, left[i].text}}

FlushOver(ok, others) ==
  /\ flushing' = NoFlush
  /\ calls' = others
  /\ panelStatus' = "idle"
  /\ panelError' = IF ok THEN panelError ELSE TRUE
  /\ leaving' = (leaving \/ ok)
  /\ UNCHANGED asked

FlushCalls(c, left, b, others) ==
  /\ Asks
  /\ flushing' = [on |-> TRUE, bot |-> b, items |-> left]
  /\ calls' = Append(others, [c EXCEPT !.bot = b, !.flush = TRUE])
  /\ panelStatus' = "saving" /\ panelError' = FALSE
  /\ UNCHANGED leaving

FlushItems(left, b, others) ==
  LET i == Least(ToSave(left)) IN
  IF panel'[i].draft = 0 THEN FlushOver(FALSE, others)
  ELSE FlushCalls([NewCall("update", b) EXCEPT !.item = i, !.seen = left[i],
                                               !.text = panel'[i].draft],
                  [j \in Item |-> IF j <= i THEN NoRow ELSE left[j]], b, others)

FlushGoesOn(left, b, others) ==
  IF ToSave(left) # {} THEN FlushItems(left, b, others)
  ELSE IF newDraft' # 0
    THEN FlushCalls([NewCall("create", b) EXCEPT !.text = newDraft'], NoFlush.items, b,
                    others)
  ELSE IF ToSave(RowsNow) # {} THEN FlushItems(RowsNow, b, others)
  ELSE FlushOver(TRUE, others)

\* a second one awaits the first
FlushMemory ==
  /\ ~flushing.on
  /\ UNCHANGED <<memory, panelBot, panel, newDraft, requestSequence, typed>>
  /\ FlushGoesOn(RowsNow, panelBot, calls)

----------------------------------------------------------------------------
(***************************************************************************)
(* The answers                                                             *)
(***************************************************************************)

First(kinds) == calls # <<>> /\ Head(calls).kind \in kinds

\* A flush that awaited the call goes on; nothing else has happened since the answer.
Answered ==
  /\ IF Head(calls).flush
       THEN FlushGoesOn(IF Head(calls).kind = "create" THEN RowsNow ELSE flushing.items,
                        flushing.bot, Tail(calls))
       ELSE /\ calls' = Tail(calls) /\ panelStatus' = "idle"
            /\ UNCHANGED <<panelError, flushing, leaving, asked>>
  /\ UNCHANGED <<panelBot, requestSequence, typed>>

\* the item, where it is listed; what was typed during a save stays
ReplacesItem(i, row, sent) ==
  panel' = [panel EXCEPT ![i] =
              [row |-> IF @.row = NoRow THEN NoRow ELSE row,
               draft |-> IF @.draft \in {sent, Absent} THEN row.text ELSE @.draft]]

ItemSaved ==
  /\ First({"update"}) /\ updateMemory(Head(calls))
  /\ ReplacesItem(Head(calls).item, memory'[Head(calls).item], Head(calls).text)
  /\ UNCHANGED newDraft
  /\ Answered

\* deleted or restored: the draft is replaced as well
ItemMoved ==
  /\ \/ First({"delete"}) /\ deleteMemory(Head(calls))
     \/ First({"restore"}) /\ restoreMemory(Head(calls))
  /\ ReplacesItem(Head(calls).item, memory'[Head(calls).item], panel[Head(calls).item].draft)
  /\ UNCHANGED newDraft
  /\ Answered

\* appended to whatever list is shown
ItemCreated ==
  /\ First({"create"}) /\ createMemory(Head(calls))
  /\ panel' = [panel EXCEPT ![NextItem] = [row |-> memory'[NextItem],
                                           draft |-> memory'[NextItem].text]]
  /\ newDraft' = IF newDraft = Head(calls).text THEN 0 ELSE newDraft
  /\ Answered

Listing(b) ==
  [i \in Item |-> IF memory[i].bot = b THEN [row |-> memory[i], draft |-> memory[i].text]
                  ELSE NotListed]

Overtaken == Head(calls).kind = "load" /\ Head(calls).sequence # requestSequence

\* reloadMemories does not ask whether the Bot is still the one that is shown
Listed ==
  /\ First({"load", "reload"}) /\ ~Overtaken
  /\ panel' = Listing(Head(calls).bot)
  /\ newDraft' = IF First({"reload"}) THEN 0 ELSE newDraft
  /\ UNCHANGED memory
  /\ Answered

ListOvertaken ==
  /\ calls # <<>> /\ Overtaken
  /\ calls' = Tail(calls)
  /\ UNCHANGED <<memory, panelBot, panel, newDraft, panelStatus, panelError, requestSequence,
                 flushing, leaving, typed, asked>>

\* refused by the rows, or failed for another reason: nothing is replaced
CallFails ==
  /\ calls # <<>> /\ ~Overtaken
  /\ Fail
  /\ calls' = Tail(calls)
  /\ flushing' = IF Head(calls).flush THEN NoFlush ELSE flushing
  /\ UNCHANGED <<memory, panelBot, panel, newDraft, requestSequence, leaving, typed, asked>>

----------------------------------------------------------------------------

MemoryNext ==
  \/ \E text \in Texts : TypeNew(text)
  \/ \E i \in Item :
       \/ \E text \in Texts : TypeItem(i, text)
       \/ SaveItem(i) \/ RemoveItem(i) \/ RestoreItem(i)
  \/ AddItem \/ ReloadMemories \/ FlushMemory
  \/ \E b \in Holder : ShowsBot(b)
  \/ ItemSaved \/ ItemMoved \/ ItemCreated \/ Listed \/ ListOvertaken \/ CallFails

MemorySpec == MemoryInit /\ [][MemoryNext]_memoryVars

----------------------------------------------------------------------------

\* A memory is changed only by a call of someone who saw it as it was, and what is typed
\* outlives the answer of a save: only sending it, or its deletion, takes it off the panel.
EditsKnowMemory ==
  [][\A i \in Item :
       /\ (memory[i] # NoRow /\ memory'[i] # memory[i]) => Head(calls).seen = memory[i]
       /\ (/\ panel'[i].draft # panel[i].draft
           /\ panelBot' = panelBot /\ typed' = typed
           /\ First({"update"}))
            => panel[i].draft \in {Head(calls).text, Absent}]_memoryVars

\* A flush that succeeds has stored all that is shown, as it is shown.
FlushStores ==
  [][(~leaving /\ leaving')
       => /\ newDraft' = 0
          /\ \A i \in Item : panel'[i].row # NoRow
               => panel'[i].row = memory'[i] /\ ~Dirty(panel', i)]_memoryVars

\* Claim not kept: the panel lists the memories of the Bot it shows.
PanelListsItsBot == \A i \in Item : panel[i].row # NoRow => panel[i].row.bot = panelBot

\* Claim not kept: what is typed for one Bot is never stored for another.
NotesStayHome ==
  [][\A n \in DOMAIN calls' : asked' # asked /\ n = Len(calls') /\ calls'[n].kind = "create"
       => calls'[n].bot = panelBot]_memoryVars

\* Claim not kept: a flush that succeeds leaves no save under way.
FlushIsFinal ==
  [][(~leaving /\ leaving') => \A n \in DOMAIN calls' : calls'[n].kind # "update"]_memoryVars
=============================================================================
