---------------------------- MODULE WindowProofs ----------------------------
(***************************************************************************)
(* Proofs about the window as MCWindow puts it together, for any set of    *)
(* Bots and conversations and for every bound: the settings of a provider, *)
(* the editor of a profile and the Memory panel here, the conversation in  *)
(* RendererViewProofs.                                                     *)
(***************************************************************************)
EXTENDS MCWindow, RendererViewProofs, FiniteSetTheorems

----------------------------------------------------------------------------
(***************************************************************************)
(* The provider of a run (ProviderService).                                *)
(***************************************************************************)

\* The runtime object of the moment is that of the configuration stored, and a run that has
\* a provider has that one.
ProviderInv ==
  /\ ProviderTypeOK
  /\ current = setup
  /\ turn.made \in {0, setup}
  /\ turn.row = "none" => turn.made = 0

\* The parts of a call and of a run.
LEMMA ProviderRecords ==
  /\ NoLookup \in [object : 0..MaxSaves + 1, sees : BOOLEAN,
                   step : {"none", "start", "inspect", "describe"}]
  /\ NoTurn \in [row : {"none", "created", "dispatched"}, made : 0..MaxSaves + 1]
  /\ NoDescription \in [object : 0..MaxSaves + 1, available : BOOLEAN]
  /\ Setups \subseteq 0..MaxSaves + 1
  /\ 1 \in Setups
BY ProviderBounds DEF NoLookup, NoTurn, NoDescription, Setups

\* A call begins with the runtime object it is given.
LEMMA AskTyped ==
  ASSUME ProviderTypeOK, NEW object \in Setups, NEW step \in {"start", "describe"},
         Ask(object, step)
  PROVE  /\ lookup' \in [1..MaxLookups -> [object : 0..MaxSaves + 1, sees : BOOLEAN,
                                           step : {"none", "start", "inspect", "describe"}]]
         /\ lookups' \in 0..MaxLookups
<1> DEFINE Calls == [object : 0..MaxSaves + 1, sees : BOOLEAN,
                     step : {"none", "start", "inspect", "describe"}]
           call == [NoLookup EXCEPT !.object = object, !.step = step]
<1>1. call \in Calls
  BY ProviderRecords DEF NoLookup
<1>2. lookups \in 0..MaxLookups /\ lookups < MaxLookups /\ lookups' = lookups + 1
  BY DEF ProviderTypeOK, Ask
<1>3. lookups' \in 0..MaxLookups
  BY <1>2, ProviderBounds
<1>4. lookup \in [1..MaxLookups -> Calls] /\ lookup' = [lookup EXCEPT ![lookups + 1] = call]
  BY DEF ProviderTypeOK, Ask
<1>5. lookup' \in [1..MaxLookups -> Calls]
  BY <1>1, <1>4
<1> QED BY <1>3, <1>5

\* A call that goes on, and one that is over.
LEMMA LookupTyped ==
  ASSUME ProviderTypeOK, NEW n \in 1..MaxLookups,
         Inspects(n) \/ Inspected(n) \/ Described(n)
  PROVE  lookup' \in [1..MaxLookups -> [object : 0..MaxSaves + 1, sees : BOOLEAN,
                                        step : {"none", "start", "inspect", "describe"}]]
<1> DEFINE Calls == [object : 0..MaxSaves + 1, sees : BOOLEAN,
                     step : {"none", "start", "inspect", "describe"}]
<1>1. lookup \in [1..MaxLookups -> Calls] /\ signedIn \in BOOLEAN
  BY DEF ProviderTypeOK
<1>2. CASE Inspects(n)
  <2>1. [lookup[n] EXCEPT !.step = "inspect", !.sees = signedIn] \in Calls
    BY <1>1
  <2>2. lookup' = [lookup EXCEPT ![n] = [lookup[n] EXCEPT !.step = "inspect", !.sees = signedIn]]
    BY <1>1, <1>2 DEF Inspects
  <2> QED BY <1>1, <2>1, <2>2
<1>3. CASE Inspected(n)
  <2>1. [lookup[n] EXCEPT !.step = "describe"] \in Calls
    BY <1>1
  <2>2. lookup' = [lookup EXCEPT ![n] = [lookup[n] EXCEPT !.step = "describe"]]
    BY <1>1, <1>3 DEF Inspected, Goes
  <2> QED BY <1>1, <2>1, <2>2
<1>4. CASE Described(n)
  BY <1>1, <1>4, ProviderRecords DEF Described
<1> QED BY <1>2, <1>3, <1>4

\* Every step keeps the types.
LEMMA ProviderTypesKept ==
  ASSUME ProviderTypeOK, current = setup, ProviderNext
  PROVE  ProviderTypeOK'
<1>1. setup \in Setups /\ current \in Setups /\ setup \in Nat
  BY ProviderBounds DEF ProviderTypeOK, Setups
<1>2. CASE SignIn \/ list \/ refresh
  <2>1. CASE SignIn
    BY <2>1 DEF SignIn, ProviderTypeOK
  <2>2. CASE list \/ refresh
    <3>1. \E step \in {"start", "describe"} : Ask(current, step)
      BY <2>2 DEF list, refresh
    <3>2. UNCHANGED <<setup, signedIn, current, found, cached, turn>>
      BY <2>2 DEF list, refresh
    <3> QED BY <1>1, <3>1, <3>2, AskTyped DEF ProviderTypeOK
  <2> QED BY <1>2, <2>1, <2>2
<1>3. CASE Save
  <2>1. setup + 1 \in Setups
    BY <1>1, <1>3, ProviderBounds DEF Save, Setups
  <2>2. lookup' \in [1..MaxLookups -> [object : 0..MaxSaves + 1, sees : BOOLEAN,
                                       step : {"none", "start", "inspect", "describe"}]]
        /\ lookups' \in 0..MaxLookups
    BY <1>3, <2>1, AskTyped DEF Save
  <2> QED BY <1>3, <2>1, <2>2, ProviderRecords DEF Save, ProviderTypeOK
<1>4. CASE RunCreated \/ RunDispatched \/ RunOver
  <2>1. turn' \in [row : {"none", "created", "dispatched"}, made : 0..MaxSaves + 1]
    BY <1>1, <1>4, ProviderRecords DEF RunCreated, RunDispatched, RunOver, NoTurn
  <2>2. UNCHANGED <<setup, signedIn, current, found, cached, lookup, lookups>>
    BY <1>4 DEF RunCreated, RunDispatched, RunOver
  <2> QED BY <2>1, <2>2 DEF ProviderTypeOK
<1>5. ASSUME NEW n \in 1..MaxLookups, Inspects(n) \/ Inspected(n) \/ Described(n)
      PROVE  ProviderTypeOK'
  <2>1. lookup' \in [1..MaxLookups -> [object : 0..MaxSaves + 1, sees : BOOLEAN,
                                       step : {"none", "start", "inspect", "describe"}]]
    BY <1>5, LookupTyped
  <2>2. found' \in [Setups -> {"none", "usable", "unusable"}]
    <3>1. CASE Inspected(n)
      BY <3>1 DEF Inspected, ProviderTypeOK
    <3>2. CASE Inspects(n) \/ Described(n)
      BY <3>2 DEF Inspects, Described, ProviderTypeOK
    <3> QED BY <1>5, <3>1, <3>2
  <2>3. cached' \in [object : 0..MaxSaves + 1, available : BOOLEAN]
    <3>1. lookup[n].object \in 0..MaxSaves + 1
      BY DEF ProviderTypeOK
    <3>2. CASE Described(n)
      BY <3>1, <3>2 DEF Described, describe
    <3>3. CASE Inspects(n) \/ Inspected(n)
      BY <3>3 DEF Inspects, Inspected, ProviderTypeOK
    <3> QED BY <1>5, <3>2, <3>3
  <2>4. UNCHANGED <<setup, signedIn, current, lookups, turn>>
    BY <1>5 DEF Inspects, Inspected, Described
  <2> QED BY <2>1, <2>2, <2>3, <2>4 DEF ProviderTypeOK
<1> QED BY <1>2, <1>3, <1>4, <1>5 DEF ProviderNext

\* Every step keeps the invariant, and a run that goes on keeps its provider.
LEMMA ProviderSteps ==
  ASSUME ProviderInv, [ProviderNext]_providerVars
  PROVE  /\ ProviderInv'
         /\ turn.row # "none" /\ turn'.row # "none"
              => setup' = setup /\ (turn'.made # 0 => turn'.made = setup)
<1>1. CASE UNCHANGED providerVars
  BY <1>1 DEF ProviderInv, ProviderTypeOK, providerVars
<1>2. CASE ProviderNext
  <2>1. ProviderTypeOK'
    BY <1>2, ProviderTypesKept DEF ProviderInv
  <2>2. CASE Save
    BY <2>1, <2>2 DEF ProviderInv, Save, hasActiveRuntimeForProvider
  <2>3. CASE RunCreated \/ RunDispatched \/ RunOver
    BY <2>1, <2>3 DEF ProviderInv, RunCreated, RunDispatched, RunOver, NoTurn
  <2>4. CASE UNCHANGED <<setup, current, turn>>
    BY <2>1, <2>4 DEF ProviderInv
  <2>5. SignIn \/ list \/ refresh => UNCHANGED <<setup, current, turn>>
    BY DEF SignIn, list, refresh
  <2>6. (\E n \in 1..MaxLookups : Inspects(n) \/ Inspected(n) \/ Described(n))
          => UNCHANGED <<setup, current, turn>>
    BY DEF Inspects, Inspected, Described
  <2> QED BY <1>2, <2>2, <2>3, <2>4, <2>5, <2>6 DEF ProviderNext
<1> QED BY <1>1, <1>2

\* At the start.
LEMMA ProviderInitially == ProviderInit => ProviderInv
<1> SUFFICES ASSUME ProviderInit
             PROVE  ProviderInv
  OBVIOUS
<1>1. setup \in Setups /\ current \in Setups /\ signedIn \in BOOLEAN /\ lookups \in 0..MaxLookups
  BY ProviderRecords, ProviderBounds DEF ProviderInit
<1>2. found \in [Setups -> {"none", "usable", "unusable"}]
  BY DEF ProviderInit
<1>3. cached \in [object : 0..MaxSaves + 1, available : BOOLEAN]
  BY ProviderRecords DEF ProviderInit
<1>4. lookup \in [1..MaxLookups -> [object : 0..MaxSaves + 1, sees : BOOLEAN,
                                    step : {"none", "start", "inspect", "describe"}]]
  BY ProviderRecords DEF ProviderInit
<1>5. ProviderTypeOK
  BY <1>1, <1>2, <1>3, <1>4, ProviderRecords DEF ProviderInit, ProviderTypeOK
<1> QED BY <1>5 DEF ProviderInit, ProviderInv, NoTurn

\* The invariant holds in every behaviour.
THEOREM ProviderInvHolds == ProviderSpec => []ProviderInv
<1>1. ProviderInv /\ [ProviderNext]_providerVars => ProviderInv'
  BY ProviderSteps
<1> QED BY <1>1, ProviderInitially, PTL DEF ProviderSpec

\* Saving the settings of a provider spares the runs that use it, however they are
\* interleaved with lists, refreshes and sign-ins (saveCli, hasActiveRuntimeForProvider).
THEOREM ProviderKept == ProviderSpec => RunKeepsProvider
<1>1. ProviderInv /\ [ProviderNext]_providerVars =>
        [turn.row # "none" /\ turn'.row # "none"
           => setup' = setup /\ (turn'.made # 0 => turn'.made = setup)]_providerVars
  BY ProviderSteps
<1> QED BY <1>1, ProviderInvHolds, PTL DEF ProviderSpec, RunKeepsProvider

----------------------------------------------------------------------------
(***************************************************************************)
(* The editor of a profile (ProfileEditor).                                *)
(***************************************************************************)

Saves == [bot : Owner \cup {"none"}, version : Nat, sent : Drafts,
          state : {"none", "sent", "done", "refused"}, again : BOOLEAN]
Tasks == [kind : {"none", "open", "rename", "pick", "select"}, bot : Owner \cup {"none"},
          seen : Rows, step : {"none", "profile", "memory", "go", "done", "refused"},
          name : 0..MaxEdits]

\* A save and a task are of a Bot.
OfABot ==
  /\ saving.state # "none" => saving.bot \in Owner
  /\ task.step # "none" => task.bot \in Owner

\* A text that is there from the start, or that was typed for this Bot.
MadeFor(b, text) == text = 0 \/ (text \in 1..edits /\ home[text] = b)

\* Every text is kept where it belongs; that of savedRef may be of any Bot.
TextsStayHome ==
  /\ MadeFor(selected.bot, draft.text) /\ MadeFor(selected.bot, began)
  /\ \A b \in Owner : MadeFor(b, profile[b].text) /\ MadeFor(b, listed[b].text)
  /\ MadeFor(task.bot, task.seen.text)
  /\ MadeFor(saving.bot, saving.sent.text)
  /\ saved.text \in 0..edits

\* What was typed since the editor began to show its Bot, and is saved, is in the row; a
\* save under way does not take it out again.
TypedIsKept ==
  /\ draft.text # began => draft.text # 0
  /\ (draft.text # began /\ draft.text = saved.text) =>
       /\ profile[selected.bot].text = draft.text
       /\ (saving.state = "sent" /\ saving.bot = selected.bot) => saving.sent.text = draft.text
  /\ saving.state = "done" => profile[saving.bot].text = saving.sent.text

EditorInv == EditorTypeOK /\ OfABot /\ TextsStayHome /\ TypedIsKept

\* The parts of a row, a draft, a save and a task.
LEMMA EditorRecords ==
  /\ NoSave \in Saves /\ NoTask \in Tasks
  /\ NoSave.state = "none" /\ NoTask.step = "none" /\ NoTask.seen.text = 0
  /\ NoSave.sent.text = 0
  /\ \A row \in Rows : toDraft(row) \in Drafts /\ toDraft(row).text = row.text
BY EditorBounds DEF NoSave, NoTask, Saves, Tasks, Rows, Drafts, toDraft

\* The types, named.
LEMMA EditorTypes ==
  EditorTypeOK <=>
    /\ profile \in [Owner -> Rows] /\ listed \in [Owner -> Rows]
    /\ selected \in [bot : Owner, row : Rows]
    /\ draft \in Drafts /\ saved \in Drafts /\ known \in Nat
    /\ timer \in BOOLEAN
    /\ saving \in Saves /\ task \in Tasks
    /\ tasks \in 0..MaxTasks /\ edits \in 0..MaxEdits
    /\ began \in 0..MaxEdits
    /\ home \in [1..MaxEdits -> Owner \cup {"none"}]
    /\ writer \in [Owner -> {"none", "editor", "other"}]
BY DEF EditorTypeOK, Saves, Tasks

\* An edit has the next number.
LEMMA EditTyped ==
  ASSUME EditorTypeOK, NEW b \in Owner, Edited(b)
  PROVE  /\ edits' \in 0..MaxEdits /\ edits + 1 \in 1..MaxEdits /\ edits' = edits + 1
         /\ home' \in [1..MaxEdits -> Owner \cup {"none"}]
         /\ home'[edits + 1] = b
         /\ \A e \in 1..edits : home'[e] = home[e]
<1>1. edits \in Nat /\ edits < MaxEdits /\ edits' = edits + 1 /\ edits + 1 \in 1..MaxEdits
  BY EditorBounds DEF EditorTypeOK, Edited
<1>2. home \in [1..MaxEdits -> Owner \cup {"none"}] /\ home' = [home EXCEPT ![edits + 1] = b]
  BY DEF EditorTypeOK, Edited
<1> QED BY <1>1, <1>2, EditorBounds

\* saveCurrent sends the draft for the Bot that is shown, or waits.
LEMMA SaveCurrentTyped ==
  ASSUME EditorTypeOK, OfABot, SaveCurrent
  PROVE  /\ saving' \in Saves
         /\ saving'.state # "none" => saving'.bot \in Owner
         /\ \/ /\ saving'.bot = saving.bot /\ saving'.sent = saving.sent
               /\ saving'.state = saving.state
            \/ /\ saving'.bot = selected.bot /\ saving'.sent = draft
               /\ saving'.state = "sent"
<1>1. saving \in Saves /\ selected.bot \in Owner /\ known \in Nat /\ draft \in Drafts
  BY EditorTypes
<1>2. CASE draft = saved
  BY <1>1, <1>2 DEF SaveCurrent, OfABot
<1>3. CASE draft # saved /\ saving.state = "none"
  <2>1. saving' = [NoSave EXCEPT !.bot = selected.bot, !.version = known, !.sent = draft,
                                 !.state = "sent"]
    BY <1>3 DEF SaveCurrent
  <2> QED BY <1>1, <2>1, EditorRecords DEF NoSave, Saves
<1>4. CASE draft # saved /\ saving.state # "none"
  <2>1. saving' = [saving EXCEPT !.again = TRUE]
    BY <1>4 DEF SaveCurrent
  <2> QED BY <1>1, <1>4, <2>1 DEF Saves, OfABot
<1> QED BY <1>2, <1>3, <1>4

\* An answer is shown in the list, and as the Bot that is open.
LEMMA ShownTyped ==
  ASSUME EditorTypeOK, NEW b \in Owner, NEW row \in Rows, ShowUpdated(b, row)
  PROVE  /\ listed' \in [Owner -> Rows]
         /\ selected' \in [bot : Owner, row : Rows]
         /\ selected'.bot = selected.bot
         /\ \A o \in Owner : listed'[o] \in {row, listed[o]} /\ (o # b => listed'[o] = listed[o])
<1>1. listed \in [Owner -> Rows] /\ selected \in [bot : Owner, row : Rows]
  BY DEF EditorTypeOK
<1>2. listed' = [listed EXCEPT ![b] = row]
      /\ selected' = IF selected.bot = b THEN [selected EXCEPT !.row = row] ELSE selected
  BY DEF ShowUpdated
<1> QED BY <1>1, <1>2

\* A change is stored under the next version.
LEMMA RowTyped ==
  ASSUME EditorTypeOK, NEW b \in Owner, NEW row \in Rows, NEW who \in {"editor", "other"},
         updateRow(b, row, who)
  PROVE  /\ profile' \in [Owner -> Rows]
         /\ writer' \in [Owner -> {"none", "editor", "other"}]
         /\ profile'[b].text = row.text /\ profile'[b].name = row.name
         /\ \A o \in Owner : o # b => profile'[o] = profile[o]
<1>1. profile \in [Owner -> Rows] /\ writer \in [Owner -> {"none", "editor", "other"}]
  BY DEF EditorTypeOK
<1>2. profile' = [profile EXCEPT ![b] = [row EXCEPT !.version = row.version + 1]]
      /\ writer' = [writer EXCEPT ![b] = who]
  BY DEF updateRow
<1>3. [row EXCEPT !.version = row.version + 1] \in Rows
      /\ [row EXCEPT !.version = row.version + 1].text = row.text
      /\ [row EXCEPT !.version = row.version + 1].name = row.name
  BY DEF Rows
<1> QED BY <1>1, <1>2, <1>3

\* A text goes on being made for its Bot when more is typed.
LEMMA StillMadeFor ==
  ASSUME EditorTypeOK, UNCHANGED <<edits, home>> \/ (\E o \in Owner : Edited(o))
  PROVE  /\ \A b, text : MadeFor(b, text) => MadeFor(b, text)'
         /\ \A text : text \in 0..edits => text \in 0..edits'
<1>1. edits \in Nat
  BY EditorBounds DEF EditorTypeOK
<1>2. CASE UNCHANGED <<edits, home>>
  BY <1>2 DEF MadeFor
<1>3. CASE \E o \in Owner : Edited(o)
  <2>1. edits' = edits + 1 /\ \A e \in 1..edits : home'[e] = home[e]
    BY <1>3, EditTyped
  <2> QED BY <1>1, <2>1 DEF MadeFor
<1> QED BY <1>2, <1>3

\* Typing a name or a text.
LEMMA TypeStep ==
  ASSUME EditorInv, NEW field \in {"name", "text"}, Type(field)
  PROVE  EditorInv'
<1>1. EditorTypeOK /\ OfABot /\ TextsStayHome /\ TypedIsKept /\ selected.bot \in Owner
      /\ draft \in Drafts /\ edits \in Nat
  BY EditorBounds DEF EditorInv, EditorTypeOK
<1>2. /\ edits' \in 0..MaxEdits /\ edits + 1 \in 1..MaxEdits /\ edits' = edits + 1
      /\ home' \in [1..MaxEdits -> Owner \cup {"none"}]
      /\ home'[edits + 1] = selected.bot
  BY <1>1, EditTyped DEF Type
<1>3. draft' = [draft EXCEPT ![field] = edits + 1] /\ timer' = TRUE
      /\ UNCHANGED <<profile, listed, selected, saved, known, saving, task, tasks, writer, began>>
  BY DEF Type
<1>4. draft' \in Drafts /\ draft'.text \in {draft.text, edits + 1}
  BY <1>1, <1>2, <1>3 DEF Drafts
<1>5. EditorTypeOK'
  BY <1>1, <1>2, <1>3, <1>4 DEF EditorTypeOK
<1>6. \A b, text : MadeFor(b, text) => MadeFor(b, text)'
  BY <1>1, StillMadeFor DEF Type
<1>7. edits + 1 \in 1..edits' /\ home'[edits + 1] = selected.bot
  BY <1>1, <1>2
<1>8. TextsStayHome'
  <2>1. MadeFor(selected.bot, draft.text)'
    BY <1>1, <1>3, <1>4, <1>6, <1>7 DEF TextsStayHome, MadeFor
  <2>2. MadeFor(selected.bot, began)' /\ MadeFor(task.bot, task.seen.text)'
        /\ MadeFor(saving.bot, saving.sent.text)'
    BY <1>1, <1>3, <1>6 DEF TextsStayHome, MadeFor
  <2>3. \A b \in Owner : MadeFor(b, profile[b].text)' /\ MadeFor(b, listed[b].text)'
    BY <1>1, <1>3, <1>6 DEF TextsStayHome, MadeFor
  <2>4. (saved.text \in 0..edits)'
    BY <1>1, <1>2, <1>3 DEF TextsStayHome
  <2> QED BY <2>1, <2>2, <2>3, <2>4 DEF TextsStayHome
<1>9. TypedIsKept'
  <2>1. CASE draft'.text = draft.text
    BY <1>1, <1>3, <2>1 DEF TypedIsKept
  <2>2. CASE draft'.text = edits + 1
    <3>1. draft'.text # 0 /\ draft'.text # saved'.text
      BY <1>1, <1>3, <2>2 DEF TextsStayHome
    <3> QED BY <1>1, <1>3, <3>1 DEF TypedIsKept
  <2> QED BY <1>4, <2>1, <2>2
<1> QED BY <1>1, <1>3, <1>5, <1>8, <1>9 DEF EditorInv, OfABot

\* A step that begins a save, or leaves the one under way, and moves a task within its Bot.
LEMMA SavingStep ==
  ASSUME EditorInv, SaveCurrent \/ UNCHANGED saving, timer' \in BOOLEAN,
         task' \in Tasks, tasks' \in 0..MaxTasks,
         task'.step # "none" => task'.bot \in Owner,
         MadeFor(task.bot, task.seen.text)',
         UNCHANGED <<profile, listed, selected, draft, saved, known, edits, home, writer, began>>
  PROVE  EditorInv'
<1>1. EditorTypeOK /\ OfABot /\ TextsStayHome /\ TypedIsKept
  BY DEF EditorInv
<1>2. /\ saving' \in Saves
      /\ saving'.state # "none" => saving'.bot \in Owner
      /\ \/ /\ saving'.bot = saving.bot /\ saving'.sent = saving.sent
            /\ saving'.state = saving.state
         \/ /\ saving'.bot = selected.bot /\ saving'.sent = draft
            /\ saving'.state = "sent"
  BY <1>1, SaveCurrentTyped, EditorTypes DEF OfABot
<1>3. EditorTypeOK'
  BY <1>1, <1>2 DEF EditorTypeOK, Saves, Tasks
<1>4. TextsStayHome'
  BY <1>1, <1>2 DEF TextsStayHome, MadeFor
<1>5. TypedIsKept'
  BY <1>1, <1>2 DEF TypedIsKept
<1> QED BY <1>2, <1>3, <1>4, <1>5 DEF EditorInv, OfABot

\* The pause is over, a flush saves or asks the Memory panel, a task begins.
LEMMA QuietSteps ==
  ASSUME EditorInv,
         \/ TimerFires \/ FlushEditor \/ FlushEnds
         \/ (\E kind \in {"open", "rename", "pick", "select"}, b \in Owner,
                step \in {"profile", "memory", "go"} : StartTask(kind, b, step))
  PROVE  EditorInv'
<1>1. EditorTypeOK /\ OfABot /\ TextsStayHome /\ task \in Tasks /\ tasks \in 0..MaxTasks
      /\ timer \in BOOLEAN
  BY EditorTypes DEF EditorInv
<1>2. CASE TimerFires
  <2>1. /\ SaveCurrent
        /\ UNCHANGED <<profile, listed, selected, draft, saved, known, task, tasks, edits, home,
                       writer, began>>
        /\ timer' \in BOOLEAN
    BY <1>2 DEF TimerFires
  <2>2. (task'.step # "none" => task'.bot \in Owner) /\ MadeFor(task.bot, task.seen.text)'
    BY <1>1, <2>1 DEF OfABot, TextsStayHome, MadeFor
  <2> QED BY <1>1, <2>1, <2>2, SavingStep
<1>3. CASE FlushEditor
  <2>1. /\ SaveCurrent \/ UNCHANGED saving
        /\ UNCHANGED <<profile, listed, selected, draft, saved, known, tasks, edits, home,
                       writer, began>>
        /\ timer' \in BOOLEAN
        /\ task' = task \/ (task' = [task EXCEPT !.step = "memory"] /\ task.step = "profile")
    BY <1>3 DEF FlushEditor, Waiting
  <2>2. /\ task' \in Tasks /\ task'.bot = task.bot /\ task'.seen = task.seen
        /\ task'.step # "none" => task.step # "none"
    BY <1>1, <2>1 DEF Tasks
  <2>3. (task'.step # "none" => task'.bot \in Owner) /\ MadeFor(task.bot, task.seen.text)'
    BY <1>1, <2>1, <2>2 DEF OfABot, TextsStayHome, MadeFor
  <2> QED BY <1>1, <2>1, <2>2, <2>3, SavingStep
<1>4. CASE FlushEnds
  <2>1. UNCHANGED <<profile, listed, selected, draft, saved, known, timer, saving, tasks, edits,
                    home, writer, began>>
    BY <1>4 DEF FlushEnds
  <2>2. task.bot \in Owner
    BY <1>1, <1>4 DEF FlushEnds, OfABot
  <2>3. CASE task' = NoTask
    <3>1. MadeFor(task.bot, task.seen.text)'
      BY <2>3, EditorRecords DEF MadeFor
    <3> QED BY <1>1, <2>1, <2>3, <3>1, EditorRecords, SavingStep
  <2>4. CASE task' # NoTask
    <3> DEFINE seen == CASE task.kind = "rename" -> profile[task.bot]
                         [] task.kind = "select" -> [task.seen EXCEPT !.version = known]
                         [] OTHER -> task.seen
    <3>1. task' = [task EXCEPT !.step = "go", !.seen = seen]
      BY <1>4, <2>4 DEF FlushEnds
    <3>2. seen \in Rows /\ MadeFor(task.bot, seen.text)
      <4>1. task.seen \in Rows /\ profile[task.bot] \in Rows /\ known \in Nat
        BY <1>1, <2>2 DEF EditorTypeOK
      <4>2. CASE task.kind = "rename"
        BY <1>1, <2>2, <4>1, <4>2 DEF TextsStayHome
      <4>3. CASE task.kind = "select"
        <5>1. [task.seen EXCEPT !.version = known] \in Rows
              /\ [task.seen EXCEPT !.version = known].text = task.seen.text
          BY <4>1 DEF Rows
        <5> QED BY <1>1, <4>3, <5>1 DEF TextsStayHome
      <4>4. CASE task.kind \notin {"rename", "select"}
        BY <1>1, <4>1, <4>4 DEF TextsStayHome
      <4> QED BY <4>2, <4>3, <4>4
    <3>3. task' \in Tasks /\ task'.bot = task.bot /\ task'.seen = seen
      BY <1>1, <3>1, <3>2 DEF Tasks
    <3>4. MadeFor(task.bot, task.seen.text)'
      BY <2>1, <3>2, <3>3 DEF MadeFor
    <3> QED BY <1>1, <2>1, <2>2, <3>3, <3>4, SavingStep
  <2> QED BY <2>3, <2>4
<1>5. ASSUME NEW kind \in {"open", "rename", "pick", "select"}, NEW b \in Owner,
             NEW step \in {"profile", "memory", "go"}, StartTask(kind, b, step)
      PROVE  EditorInv'
  <2>1. /\ tasks < MaxTasks /\ tasks' = tasks + 1
        /\ task' = [NoTask EXCEPT !.kind = kind, !.bot = b, !.seen = listed[b], !.step = step]
        /\ UNCHANGED <<profile, listed, selected, draft, saved, known, timer, saving, edits,
                       home, writer, began>>
    BY <1>5 DEF StartTask
  <2>2. listed[b] \in Rows
    BY <1>1 DEF EditorTypeOK
  <2>3. task' \in Tasks /\ task'.bot = b /\ task'.seen = listed[b]
    BY <2>1, <2>2, EditorRecords DEF NoTask, Tasks
  <2>4. tasks' \in 0..MaxTasks
    BY <1>1, <2>1, EditorBounds
  <2>5. MadeFor(task.bot, task.seen.text)'
    BY <1>1, <2>1, <2>3 DEF TextsStayHome, MadeFor
  <2> QED BY <1>1, <2>1, <2>3, <2>4, <2>5, SavingStep
<1> QED BY <1>2, <1>3, <1>4, <1>5

\* The row is changed, or the save is refused.
LEMMA EditCommitsStep ==
  ASSUME EditorInv, EditCommits
  PROVE  /\ EditorInv'
         /\ \A b \in Owner : profile'[b].text \notin {0, profile[b].text}
                               => MadeFor(b, profile'[b].text)
<1>1. EditorTypeOK /\ OfABot /\ TextsStayHome /\ TypedIsKept /\ saving \in Saves
  BY EditorTypes DEF EditorInv
<1>2. /\ saving.state = "sent" /\ saving.bot \in Owner
      /\ UNCHANGED <<listed, selected, draft, saved, known, timer, task, tasks, edits, home, began>>
  BY <1>1 DEF EditCommits, OfABot
<1>3. ASSUME NEW state \in {"done", "refused"}, saving' = [saving EXCEPT !.state = state]
      PROVE  /\ saving' \in Saves /\ saving'.bot = saving.bot /\ saving'.sent = saving.sent
             /\ saving'.state = state
  BY <1>1, <1>3 DEF Saves
<1>4. CASE /\ saving' = [saving EXCEPT !.state = "refused"]
           /\ UNCHANGED <<profile, writer>>
  <2>1. /\ saving' \in Saves /\ saving'.bot = saving.bot /\ saving'.sent = saving.sent
        /\ saving'.state = "refused"
    BY <1>3, <1>4
  <2>2. EditorTypeOK' /\ OfABot'
    BY <1>1, <1>2, <1>4, <2>1 DEF EditorTypeOK, OfABot, Saves
  <2>3. TextsStayHome'
    BY <1>1, <1>2, <1>4, <2>1 DEF TextsStayHome, MadeFor
  <2>4. TypedIsKept'
    BY <1>1, <1>2, <1>4, <2>1 DEF TypedIsKept
  <2> QED BY <1>4, <2>2, <2>3, <2>4 DEF EditorInv
<1>5. CASE saving' # [saving EXCEPT !.state = "refused"] \/ ~UNCHANGED <<profile, writer>>
  <2> DEFINE row == [name |-> saving.sent.name, text |-> saving.sent.text,
                     version |-> saving.version]
  <2>1. /\ updateRow(saving.bot, row, "editor")
        /\ saving' = [saving EXCEPT !.state = "done"]
    BY <1>5 DEF EditCommits
  <2>2. row \in Rows /\ row.text = saving.sent.text
    BY <1>1 DEF Saves, Drafts, Rows
  <2>3. /\ profile' \in [Owner -> Rows]
        /\ writer' \in [Owner -> {"none", "editor", "other"}]
        /\ profile'[saving.bot].text = saving.sent.text
        /\ \A o \in Owner : o # saving.bot => profile'[o] = profile[o]
    BY <1>1, <1>2, <2>1, <2>2, RowTyped
  <2>4. /\ saving' \in Saves /\ saving'.bot = saving.bot /\ saving'.sent = saving.sent
        /\ saving'.state = "done"
    BY <1>3, <2>1
  <2>5. EditorTypeOK' /\ OfABot'
    BY <1>1, <1>2, <2>3, <2>4 DEF EditorTypeOK, OfABot, Saves
  <2>6. \A b \in Owner : MadeFor(b, profile'[b].text)
    BY <1>1, <2>3 DEF TextsStayHome
  <2>7. TextsStayHome'
    BY <1>1, <1>2, <2>4, <2>6 DEF TextsStayHome, MadeFor
  <2>8. TypedIsKept'
    <3>1. selected.bot \in Owner
      BY <1>1 DEF EditorTypeOK
    <3>2. ASSUME draft.text # began, draft.text = saved.text
          PROVE  profile'[selected.bot].text = draft.text
      <4>1. CASE saving.bot = selected.bot
        BY <1>1, <1>2, <2>3, <3>2, <4>1 DEF TypedIsKept
      <4>2. CASE saving.bot # selected.bot
        BY <1>1, <2>3, <3>1, <3>2, <4>2 DEF TypedIsKept
      <4> QED BY <4>1, <4>2
    <3> QED BY <1>1, <1>2, <2>3, <2>4, <3>2 DEF TypedIsKept
  <2> QED BY <2>5, <2>6, <2>7, <2>8 DEF EditorInv
<1> QED BY <1>4, <1>5

\* The answer to a save comes, for whichever Bot is open.
LEMMA SaveAnsweredStep ==
  ASSUME EditorInv, SaveAnswered
  PROVE  EditorInv'
<1> DEFINE row == [name |-> saving.sent.name, text |-> saving.sent.text,
                   version |-> saving.version + 1]
<1>1. EditorTypeOK /\ OfABot /\ TextsStayHome /\ TypedIsKept /\ saving \in Saves
      /\ selected.bot \in Owner /\ draft \in Drafts
  BY EditorTypes DEF EditorInv
<1>2. /\ saving.state = "done" /\ saving.bot \in Owner
      /\ known' = saving.version + 1 /\ saved' = saving.sent
      /\ ShowUpdated(saving.bot, row)
      /\ saving' = IF saving.again /\ draft # saved'
                     THEN [NoSave EXCEPT !.bot = selected.bot, !.version = known', !.sent = draft,
                                         !.state = "sent"]
                     ELSE NoSave
      /\ UNCHANGED <<profile, draft, timer, task, tasks, edits, home, writer, began>>
  BY <1>1 DEF SaveAnswered, OfABot
<1>3. row \in Rows /\ row.text = saving.sent.text /\ known' \in Nat /\ saved' \in Drafts
  BY <1>1, <1>2 DEF Saves, Drafts, Rows
<1>4. /\ listed' \in [Owner -> Rows] /\ selected' \in [bot : Owner, row : Rows]
      /\ selected'.bot = selected.bot
      /\ \A o \in Owner : listed'[o] \in {row, listed[o]}
                          /\ (o # saving.bot => listed'[o] = listed[o])
  BY <1>1, <1>2, <1>3, ShownTyped
<1>5. /\ saving' \in Saves
      /\ \/ saving'.state = "none" /\ saving'.sent.text = 0
         \/ saving'.state = "sent" /\ saving'.bot = selected.bot /\ saving'.sent = draft
  <2>1. CASE saving' = NoSave
    BY <2>1, EditorRecords
  <2>2. CASE saving' = [NoSave EXCEPT !.bot = selected.bot, !.version = known', !.sent = draft,
                                      !.state = "sent"]
    BY <1>1, <1>3, <2>2, EditorRecords DEF NoSave, Saves
  <2> QED BY <1>2, <2>1, <2>2
<1>6. EditorTypeOK' /\ OfABot'
  BY <1>1, <1>2, <1>3, <1>4, <1>5 DEF EditorTypeOK, OfABot, Saves
<1>7. TextsStayHome'
  <2>1. \A b \in Owner : MadeFor(b, listed'[b].text)
    BY <1>1, <1>3, <1>4 DEF TextsStayHome
  <2>2. MadeFor(saving'.bot, saving'.sent.text)
    BY <1>1, <1>5 DEF TextsStayHome, MadeFor
  <2>3. saved'.text \in 0..edits
    <3>1. edits \in Nat
      BY <1>1 DEF EditorTypeOK
    <3> QED BY <1>1, <1>2, <3>1 DEF TextsStayHome, MadeFor
  <2> QED BY <1>1, <1>2, <1>4, <2>1, <2>2, <2>3 DEF TextsStayHome, MadeFor
<1>8. TypedIsKept'
  <2>1. ASSUME draft.text # began, draft.text = saved'.text
        PROVE  profile[selected.bot].text = draft.text
    <3>1. draft.text # 0 /\ draft.text = saving.sent.text
      BY <1>1, <1>2, <2>1 DEF TypedIsKept
    <3>2. saving.bot = selected.bot
      BY <1>1, <3>1 DEF TextsStayHome, MadeFor
    <3> QED BY <1>1, <1>2, <3>1, <3>2 DEF TypedIsKept
  <2> QED BY <1>1, <1>2, <1>4, <1>5, <2>1 DEF TypedIsKept
<1> QED BY <1>6, <1>7, <1>8 DEF EditorInv

\* A refused save is forgotten, and with it a flush that waits for it.
LEMMA SaveRefusedStep ==
  ASSUME EditorInv, SaveRefused
  PROVE  EditorInv'
<1>1. EditorTypeOK /\ OfABot /\ TextsStayHome /\ TypedIsKept
  BY DEF EditorInv
<1>2. /\ saving' = NoSave /\ task' \in {NoTask, task}
      /\ UNCHANGED <<profile, listed, selected, draft, saved, known, timer, tasks, edits, home,
                     writer, began>>
  BY DEF SaveRefused
<1>3. EditorTypeOK'
  BY <1>1, <1>2, EditorRecords DEF EditorTypeOK, Saves, Tasks
<1>4. OfABot' /\ TextsStayHome' /\ TypedIsKept'
  <2>1. OfABot'
    BY <1>1, <1>2, EditorRecords DEF OfABot
  <2>2. TextsStayHome'
    BY <1>1, <1>2, EditorRecords DEF TextsStayHome, MadeFor
  <2>3. TypedIsKept'
    BY <1>1, <1>2, EditorRecords DEF TypedIsKept
  <2> QED BY <2>1, <2>2, <2>3
<1> QED BY <1>3, <1>4 DEF EditorInv

\* Another Bot is shown, with the row of the click.
LEMMA BotOpensStep ==
  ASSUME EditorInv, BotOpens
  PROVE  EditorInv'
<1>1. EditorTypeOK /\ OfABot /\ TextsStayHome /\ TypedIsKept
  BY DEF EditorInv
<1>2. /\ task.bot \in Owner /\ task.seen \in Rows /\ task' = NoTask
      /\ selected' = [bot |-> task.bot, row |-> task.seen]
      /\ SwitchEditor(task.bot, task.seen)
      /\ UNCHANGED <<profile, listed, saving, tasks, edits, home, writer>>
  BY <1>1 DEF BotOpens, OfABot, EditorTypeOK
<1>3. /\ known' = task.seen.version /\ timer' \in BOOLEAN
      /\ \/ task.bot = selected.bot /\ UNCHANGED <<draft, saved, began>>
         \/ /\ draft' = toDraft(task.seen) /\ saved' = toDraft(task.seen)
            /\ began' = task.seen.text
  BY <1>1, <1>2 DEF SwitchEditor, EditorTypeOK
<1>4. toDraft(task.seen) \in Drafts /\ toDraft(task.seen).text = task.seen.text
      /\ task.seen.version \in Nat /\ task.seen.text \in 0..MaxEdits
  BY <1>2, EditorRecords DEF Rows
<1>5. EditorTypeOK'
  BY <1>1, <1>2, <1>3, <1>4, EditorRecords DEF EditorTypeOK, Tasks
<1>6. OfABot'
  BY <1>1, <1>2, EditorRecords DEF OfABot
<1>7. TextsStayHome'
  <2>1. MadeFor(task.bot, draft'.text) /\ MadeFor(task.bot, began')
    BY <1>1, <1>3, <1>4 DEF TextsStayHome
  <2>2. saved'.text \in 0..edits
    <3>1. edits \in Nat
      BY <1>1 DEF EditorTypeOK
    <3> QED BY <1>1, <1>3, <1>4, <3>1 DEF TextsStayHome, MadeFor
  <2> QED BY <1>1, <1>2, <2>1, <2>2, EditorRecords DEF TextsStayHome, MadeFor
<1>8. TypedIsKept'
  <2>1. CASE task.bot = selected.bot /\ UNCHANGED <<draft, saved, began>>
    BY <1>1, <1>2, <2>1 DEF TypedIsKept
  <2>2. CASE draft'.text = began'
    BY <1>1, <1>2, <2>2 DEF TypedIsKept
  <2> QED BY <1>3, <1>4, <2>1, <2>2
<1> QED BY <1>5, <1>6, <1>7, <1>8 DEF EditorInv

\* A rename, the picker or a selection is carried out, or refused: no text changes.
LEMMA CallCommitsStep ==
  ASSUME EditorInv, CallCommits
  PROVE  /\ EditorInv'
         /\ \A b \in Owner : profile'[b].text = profile[b].text
<1>1. EditorTypeOK /\ OfABot /\ TextsStayHome /\ TypedIsKept
  BY DEF EditorInv
<1>2. /\ task.bot \in Owner /\ task \in Tasks /\ profile[task.bot] \in Rows /\ selected.bot \in Owner
      /\ UNCHANGED <<listed, selected, draft, saved, known, timer, saving, tasks, began>>
  BY <1>1, EditorTypes DEF CallCommits, OfABot
<1>3. CASE task' = NoTask /\ UNCHANGED <<profile, edits, home, writer>>
  <2>1. EditorTypeOK'
    BY <1>1, <1>2, <1>3, EditorRecords DEF EditorTypeOK, Tasks
  <2>2. OfABot' /\ TypedIsKept'
    BY <1>1, <1>2, <1>3, EditorRecords DEF OfABot, TypedIsKept
  <2>3. TextsStayHome'
    BY <1>1, <1>2, <1>3, EditorRecords DEF TextsStayHome, MadeFor
  <2> QED BY <1>3, <2>1, <2>2, <2>3 DEF EditorInv
<1>4. ASSUME NEW row \in Rows, row.text = profile[task.bot].text, NEW name \in 0..MaxEdits,
             updateRow(task.bot, row, "other"),
             UNCHANGED <<edits, home>> \/ Edited(task.bot),
             task' = [task EXCEPT !.step = "done", !.name = name, !.seen = profile'[task.bot]]
      PROVE  /\ EditorInv'
             /\ \A b \in Owner : profile'[b].text = profile[b].text
  <2>1. /\ profile' \in [Owner -> Rows]
        /\ writer' \in [Owner -> {"none", "editor", "other"}]
        /\ \A b \in Owner : profile'[b].text = profile[b].text
    BY <1>1, <1>2, <1>4, RowTyped
  <2>2. /\ edits' \in 0..MaxEdits /\ home' \in [1..MaxEdits -> Owner \cup {"none"}]
        /\ \A b, text : MadeFor(b, text) => MadeFor(b, text)'
        /\ \A text : text \in 0..edits => text \in 0..edits'
    <3>1. edits' \in 0..MaxEdits /\ home' \in [1..MaxEdits -> Owner \cup {"none"}]
      BY <1>1, <1>2, <1>4, EditTyped DEF EditorTypeOK
    <3> QED BY <1>1, <1>2, <1>4, <3>1, StillMadeFor
  <2>3. task' \in Tasks /\ task'.bot = task.bot /\ task'.seen = profile'[task.bot]
    BY <1>2, <1>4, <2>1 DEF Tasks
  <2>4. EditorTypeOK'
    BY <1>1, <1>2, <2>1, <2>2, <2>3 DEF EditorTypeOK, Tasks
  <2>5. OfABot' /\ TypedIsKept'
    BY <1>1, <1>2, <2>1, <2>3 DEF OfABot, TypedIsKept
  <2>6. TextsStayHome'
    <3>1. \A b \in Owner : MadeFor(b, profile[b].text)' /\ MadeFor(b, listed[b].text)'
      BY <1>1, <1>2, <2>1, <2>2 DEF TextsStayHome, MadeFor
    <3>2. MadeFor(selected.bot, draft.text)' /\ MadeFor(selected.bot, began)'
          /\ MadeFor(saving.bot, saving.sent.text)' /\ (saved.text \in 0..edits)'
      BY <1>1, <1>2, <2>2 DEF TextsStayHome, MadeFor
    <3>3. MadeFor(task.bot, task.seen.text)'
      BY <1>2, <2>3, <3>1 DEF MadeFor
    <3> QED BY <3>1, <3>2, <3>3 DEF TextsStayHome
  <2> QED BY <2>1, <2>4, <2>5, <2>6 DEF EditorInv
<1>5. CASE ~(task' = NoTask /\ UNCHANGED <<profile, edits, home, writer>>)
  <2>1. CASE task.kind = "rename"
    <3> DEFINE row == [profile[task.bot] EXCEPT !.name = edits + 1]
    <3>1. /\ Edited(task.bot) /\ updateRow(task.bot, row, "other")
          /\ task' = [task EXCEPT !.step = "done", !.name = edits + 1, !.seen = profile'[task.bot]]
      BY <1>5, <2>1 DEF CallCommits
    <3>2. edits + 1 \in 0..MaxEdits
      BY <1>1, <1>2, <3>1, EditTyped, EditorBounds
    <3>3. row \in Rows /\ row.text = profile[task.bot].text
      BY <1>2, <3>2 DEF Rows
    <3> QED BY <1>4, <3>1, <3>2, <3>3
  <2>2. CASE task.kind # "rename"
    <3>1. /\ updateRow(task.bot, profile[task.bot], "other")
          /\ task' = [task EXCEPT !.step = "done", !.seen = profile'[task.bot]]
          /\ UNCHANGED <<edits, home>>
      BY <1>5, <2>2 DEF CallCommits
    <3>2. task' = [task EXCEPT !.step = "done", !.name = task.name, !.seen = profile'[task.bot]]
          /\ task.name \in 0..MaxEdits
      BY <1>2, <3>1 DEF Tasks
    <3> QED BY <1>2, <1>4, <3>1, <3>2
  <2> QED BY <2>1, <2>2
<1> QED BY <1>3, <1>5

\* The answer to a rename, to the picker or to a selection.
LEMMA CallAnsweredStep ==
  ASSUME EditorInv, CallAnswered
  PROVE  EditorInv'
<1>1. EditorTypeOK /\ OfABot /\ TextsStayHome /\ TypedIsKept
  BY DEF EditorInv
<1>2. /\ task.bot \in Owner /\ task.seen \in Rows /\ task' = NoTask
      /\ ShowUpdated(task.bot, task.seen)
      /\ known' \in {task.seen.version, known}
      /\ UNCHANGED <<profile, draft, saved, timer, saving, tasks, edits, home, writer, began>>
  BY <1>1 DEF CallAnswered, OfABot, EditorTypeOK
<1>3. /\ listed' \in [Owner -> Rows] /\ selected' \in [bot : Owner, row : Rows]
      /\ selected'.bot = selected.bot
      /\ \A o \in Owner : listed'[o] \in {task.seen, listed[o]}
                          /\ (o # task.bot => listed'[o] = listed[o])
  BY <1>1, <1>2, ShownTyped
<1>4. EditorTypeOK'
  <2>1. known' \in Nat
    BY <1>1, <1>2 DEF EditorTypeOK, Rows
  <2> QED BY <1>1, <1>2, <1>3, <2>1, EditorRecords DEF EditorTypeOK, Tasks
<1>5. OfABot' /\ TypedIsKept'
  BY <1>1, <1>2, <1>3, EditorRecords DEF OfABot, TypedIsKept
<1>6. TextsStayHome'
  <2>1. \A b \in Owner : MadeFor(b, listed'[b].text)
    BY <1>1, <1>3 DEF TextsStayHome
  <2> QED BY <1>1, <1>2, <1>3, <2>1, EditorRecords DEF TextsStayHome, MadeFor
<1> QED BY <1>4, <1>5, <1>6 DEF EditorInv

\* At the start.
LEMMA EditorInitially == EditorInit => EditorInv
<1> SUFFICES ASSUME EditorInit
             PROVE  EditorInv
  OBVIOUS
<1>1. /\ profile \in [Owner -> Rows] /\ listed \in [Owner -> Rows]
      /\ \A b \in Owner : profile[b].text = 0 /\ listed[b].text = 0
  BY EditorBounds DEF EditorInit, Rows
<1>2. selected \in [bot : Owner, row : Rows]
  BY <1>1 DEF EditorInit
<1>3. draft \in Drafts /\ saved \in Drafts /\ draft.text = 0 /\ saved.text = 0
  BY EditorBounds DEF EditorInit, Drafts
<1>4. /\ home \in [1..MaxEdits -> Owner \cup {"none"}]
      /\ writer \in [Owner -> {"none", "editor", "other"}]
      /\ edits = 0 /\ edits \in 0..MaxEdits /\ tasks \in 0..MaxTasks /\ began = 0
      /\ began \in 0..MaxEdits /\ known \in Nat /\ timer \in BOOLEAN
      /\ saving = NoSave /\ task = NoTask
  <2>1. home = [e \in 1..MaxEdits |-> "none"] /\ writer = [b \in Owner |-> "none"]
    BY DEF EditorInit
  <2>2. edits = 0 /\ tasks = 0 /\ began = 0 /\ known = 1 /\ timer = FALSE
        /\ saving = NoSave /\ task = NoTask
    BY DEF EditorInit
  <2>3. home \in [1..MaxEdits -> Owner \cup {"none"}]
    BY <2>1
  <2>4. writer \in [Owner -> {"none", "editor", "other"}]
    BY <2>1
  <2>5. edits \in 0..MaxEdits /\ tasks \in 0..MaxTasks /\ began \in 0..MaxEdits /\ known \in Nat
    BY <2>2, EditorBounds
  <2>6. timer \in BOOLEAN
    BY <2>2
  <2> QED BY <2>2, <2>3, <2>4, <2>5, <2>6
<1>5. EditorTypeOK
  BY <1>1, <1>2, <1>3, <1>4, EditorRecords, EditorTypes
<1>6. OfABot /\ TypedIsKept
  BY <1>3, <1>4, EditorRecords DEF OfABot, TypedIsKept
<1>7. TextsStayHome
  BY <1>1, <1>3, <1>4, EditorRecords DEF TextsStayHome, MadeFor
<1> QED BY <1>5, <1>6, <1>7 DEF EditorInv

\* Every step keeps the invariant, lets a flush go on only with the text stored, and stores
\* no text of another Bot.
LEMMA EditorSteps ==
  ASSUME EditorInv, [EditorNext]_editorVars
  PROVE  /\ EditorInv'
         /\ Waiting /\ task'.step = "memory" /\ draft.text # began
              => draft.text = profile[selected.bot].text
         /\ \A b \in Owner :
              profile'[b].text \notin {0, profile[b].text} => home[profile'[b].text] = b
<1> DEFINE MovesOn == Waiting /\ task'.step = "memory"
           StoresAll == \A b \in Owner :
                          profile'[b].text \notin {0, profile[b].text} => home[profile'[b].text] = b
<1>1. EditorTypeOK /\ TypedIsKept /\ selected.bot \in Owner
  BY DEF EditorInv, EditorTypeOK
<1>2. CASE UNCHANGED editorVars
  BY <1>2 DEF EditorInv, EditorTypeOK, OfABot, TextsStayHome, MadeFor, TypedIsKept, editorVars,
              Waiting
<1>3. CASE \E field \in {"name", "text"} : Type(field)
  <2>1. ~MovesOn /\ StoresAll
    BY <1>3 DEF Type, Waiting
  <2> QED BY <1>3, <2>1, TypeStep
<1>4. CASE TimerFires \/ FlushEnds
  <2>1. UNCHANGED profile /\ (TimerFires => UNCHANGED task) /\ (FlushEnds => ~Waiting)
    BY <1>4 DEF TimerFires, FlushEnds, Waiting
  <2>2. ~MovesOn
    BY <1>4, <2>1 DEF Waiting
  <2> QED BY <1>4, <2>1, <2>2, QuietSteps
<1>5. CASE FlushEditor
  <2>1. UNCHANGED profile
    BY <1>5 DEF FlushEditor
  <2>2. ASSUME MovesOn, draft.text # began
        PROVE  draft.text = profile[selected.bot].text
    <3>1. draft = saved
      BY <1>5, <2>2 DEF FlushEditor, Waiting
    <3> QED BY <1>1, <2>2, <3>1 DEF TypedIsKept
  <2> QED BY <1>5, <2>1, <2>2, QuietSteps
<1>6. ASSUME NEW kind \in {"open", "rename", "pick", "select"}, NEW b \in Owner,
             NEW step \in {"profile", "memory", "go"}, StartTask(kind, b, step)
      PROVE  EditorInv' /\ ~MovesOn /\ StoresAll
  <2>1. UNCHANGED profile /\ ~Waiting
    BY <1>6, EditorRecords DEF StartTask, Waiting
  <2> QED BY <1>6, <2>1, QuietSteps
<1>7. CASE EditCommits
  <2>1. EditorInv' /\ \A b \in Owner : profile'[b].text \notin {0, profile[b].text}
                                        => MadeFor(b, profile'[b].text)
    BY <1>7, EditCommitsStep
  <2>2. ~MovesOn
    BY <1>7 DEF EditCommits, Waiting
  <2> QED BY <2>1, <2>2 DEF MadeFor
<1>8. CASE SaveAnswered
  <2>1. ~MovesOn /\ StoresAll
    BY <1>8 DEF SaveAnswered, Waiting
  <2> QED BY <1>8, <2>1, SaveAnsweredStep
<1>9. CASE SaveRefused
  <2>1. ~MovesOn /\ StoresAll
    BY <1>9, EditorRecords DEF SaveRefused, Waiting
  <2> QED BY <1>9, <2>1, SaveRefusedStep
<1>10. CASE BotOpens
  <2>1. ~MovesOn /\ StoresAll
    BY <1>10 DEF BotOpens, Waiting
  <2> QED BY <1>10, <2>1, BotOpensStep
<1>11. CASE CallCommits
  <2>1. ~MovesOn
    BY <1>11 DEF CallCommits, Waiting
  <2> QED BY <1>11, <2>1, CallCommitsStep
<1>12. CASE CallAnswered
  <2>1. ~MovesOn /\ StoresAll
    BY <1>12 DEF CallAnswered, Waiting
  <2> QED BY <1>12, <2>1, CallAnsweredStep
<1>13. ASSUME \/ \E b \in Owner : StartOpen(b) \/ StartRename(b)
              \/ StartTask("select", selected.bot, "profile")
              \/ StartTask("pick", selected.bot, "go")
       PROVE  EditorInv' /\ ~MovesOn /\ StoresAll
  BY <1>1, <1>6, <1>13 DEF StartOpen, StartRename
<1> QED BY <1>2, <1>3, <1>4, <1>5, <1>7, <1>8, <1>9, <1>10, <1>11, <1>12, <1>13 DEF EditorNext

\* The invariant holds in every behaviour.
THEOREM EditorInvHolds == EditorSpec => []EditorInv
<1>1. EditorInv /\ [EditorNext]_editorVars => EditorInv'
  BY EditorSteps
<1> QED BY <1>1, EditorInitially, PTL DEF EditorSpec

\* A flush of the editor goes on only with what was typed stored, and a text is stored for no
\* Bot but the one it was typed for (saveCurrent, flush), although one editor serves all Bots
\* and an answer is taken over by whichever it shows.
THEOREM ProfileIsSaved == EditorSpec => FlushSaves
<1>1. EditorInv /\ [EditorNext]_editorVars =>
        [/\ Waiting /\ task'.step = "memory" /\ draft.text # began
              => draft.text = profile[selected.bot].text
         /\ \A b \in Owner :
              profile'[b].text \notin {0, profile[b].text} => home[profile'[b].text] = b]_editorVars
  BY EditorSteps
<1> QED BY <1>1, EditorInvHolds, PTL DEF EditorSpec, FlushSaves

----------------------------------------------------------------------------
(***************************************************************************)
(* The Memory panel (MemoryPanel).                                         *)
(***************************************************************************)

\* What someone knows of an item: nothing, or a row it had, which is the row it has if the
\* version is the same.
Sees(rowsNow, i, row) ==
  row # NoRow =>
    /\ rowsNow[i] # NoRow
    /\ row.version <= rowsNow[i].version
    /\ row.version = rowsNow[i].version => row = rowsNow[i]

\* The panel has an item as it is, or not at all.
Lists(rowsNow, inPanel) ==
  \A i \in Item : /\ inPanel[i].row \in {NoRow, rowsNow[i]}
                  /\ Kept(inPanel[i].row) => inPanel[i].draft # Absent

\* A change of an item goes by a row that it had.
Informed(rowsNow, queue) ==
  \A n \in 1..Len(queue) : queue[n].kind \in {"update", "delete", "restore"} =>
    /\ queue[n].item \in Item /\ queue[n].seen # NoRow
    /\ Sees(rowsNow, queue[n].item, queue[n].seen)

NoFlushIn(queue) == \A n \in 1..Len(queue) : ~queue[n].flush

\* A flush awaits at most one call.
OneFlush(queue, flush) ==
  /\ flush.on => flush.bot \in Holder
  /\ \A n \in 1..Len(queue) : queue[n].flush =>
       flush.on /\ \A m \in 1..Len(queue) : queue[m].flush => m = n

\* The limits of a Bot's memory.
WithinLimits ==
  \A b \in Holder :
    /\ Cardinality(KeptOf(b)) <= MaxKept
    /\ \A i, j \in KeptOf(b) : i # j => memory[i].text # memory[j].text

MemoryInv ==
  /\ MemoryTypeOK
  /\ Lists(memory, panel)
  /\ Informed(memory, calls)
  /\ \A i \in Item : Sees(memory, i, flushing.items[i])
  /\ OneFlush(calls, flushing)

ListedItems == [row : ItemRows, draft : Texts \cup {Absent}]
Flushes == [on : BOOLEAN, bot : Holder \cup {"none"}, items : [Item -> ItemRows]]

\* The bounds, one by one.
LEMMA MemoryNumbers ==
  /\ MaxKept \in Nat /\ MaxKept > 0 /\ MaxText \in Nat /\ MaxText > 0
  /\ MaxItems \in Nat /\ MaxTyped \in Nat /\ MaxCalls \in Nat /\ MaxSwitches \in Nat
  /\ 0 \in Texts /\ 1 \in Texts /\ Absent \notin Texts /\ 0 \notin Item
  /\ Item \in SUBSET Nat /\ IsFiniteSet(Item)
<1>1. /\ MaxKept \in Nat /\ MaxKept > 0 /\ MaxText \in Nat /\ MaxText > 0
      /\ MaxItems \in Nat /\ MaxTyped \in Nat /\ MaxCalls \in Nat /\ MaxSwitches \in Nat
  BY MemoryBounds
<1>2. IsFiniteSet(Item)
  BY <1>1, FS_Interval DEF Item
<1> QED BY <1>1, <1>2 DEF Texts, Absent, Item

\* The parts of an item, of a call and of a flush.
LEMMA MemoryRecords ==
  /\ NoRow \in ItemRows /\ ~Kept(NoRow) /\ NoRow.version = 0
  /\ NotListed \in ListedItems /\ NotListed.row = NoRow
  /\ NoFlush \in Flushes /\ ~NoFlush.on /\ \A i \in Item : NoFlush.items[i] = NoRow
  /\ NoFlush.items \in [Item -> ItemRows]
  /\ \A row \in ItemRows : row.version \in Nat /\ row.text \in Texts
<1>1. NoRow \in ItemRows /\ ~Kept(NoRow) /\ NoRow.version = 0
  BY MemoryNumbers DEF NoRow, ItemRows, Kept
<1>2. NotListed \in ListedItems /\ NotListed.row = NoRow
  BY <1>1 DEF NotListed, ListedItems
<1>3. NoFlush \in Flushes /\ ~NoFlush.on /\ (\A i \in Item : NoFlush.items[i] = NoRow)
      /\ NoFlush.items \in [Item -> ItemRows]
  BY <1>1 DEF NoFlush, Flushes
<1>4. \A row \in ItemRows : row.version \in Nat /\ row.text \in Texts
  BY DEF ItemRows
<1> QED BY <1>1, <1>2, <1>3, <1>4

\* The types, named.
LEMMA MemoryTypes ==
  MemoryTypeOK <=>
    /\ memory \in [Item -> ItemRows] /\ panelBot \in Holder
    /\ panel \in [Item -> ListedItems] /\ newDraft \in Texts
    /\ panelStatus \in {"loading", "saving", "idle"} /\ panelError \in BOOLEAN
    /\ requestSequence \in 0..MaxSwitches /\ typed \in 0..MaxTyped /\ asked \in 0..MaxCalls
    /\ calls \in Seq(MemoryCalls) /\ flushing \in Flushes /\ leaving \in BOOLEAN
    /\ WithinLimits
BY DEF MemoryTypeOK, ListedItems, Flushes, WithinLimits

\* A call of each kind.
LEMMA NewCallTyped ==
  ASSUME MemoryTypeOK, NEW kind \in {"load", "reload", "create", "update", "delete", "restore"},
         NEW b \in Holder
  PROVE  /\ NewCall(kind, b) \in MemoryCalls
         /\ NewCall(kind, b).kind = kind /\ ~NewCall(kind, b).flush
<1>1. requestSequence \in Nat
  BY MemoryNumbers DEF MemoryTypeOK
<1> QED BY <1>1, MemoryNumbers, MemoryRecords DEF NewCall, MemoryCalls

\* A queue and one call more.
LEMMA QueueGrows ==
  ASSUME NEW queue \in Seq(MemoryCalls), NEW c \in MemoryCalls, NEW longer,
         longer = Append(queue, c)
  PROVE  /\ longer \in Seq(MemoryCalls) /\ Len(longer) = Len(queue) + 1 /\ Len(queue) \in Nat
         /\ \A n \in 1..Len(queue) : longer[n] = queue[n]
         /\ longer[Len(queue) + 1] = c
BY AppendProperties, LenProperties

\* The first call, and a queue without it.
LEMMA QueueShrinks ==
  ASSUME NEW queue \in Seq(MemoryCalls), queue # <<>>, NEW shorter, shorter = Tail(queue)
  PROVE  /\ Head(queue) = queue[1] /\ Head(queue) \in MemoryCalls /\ 1 \in 1..Len(queue)
         /\ shorter \in Seq(MemoryCalls) /\ Len(queue) \in Nat /\ Len(shorter) = Len(queue) - 1
         /\ \A n \in 1..Len(shorter) : shorter[n] = queue[n + 1]
<1>1. /\ Head(queue) \in MemoryCalls /\ shorter \in Seq(MemoryCalls)
      /\ Len(shorter) = Len(queue) - 1
      /\ \A n \in 1..Len(shorter) : shorter[n] = queue[n + 1]
  BY HeadTailProperties
<1>2. Len(queue) \in Nat /\ Len(shorter) \in Nat
  BY <1>1, LenProperties
<1>3. Head(queue) = queue[1]
  OBVIOUS
<1> QED BY <1>1, <1>2, <1>3

\* What holds of the calls that are left.
LEMMA RestOfCalls ==
  ASSUME NEW queue \in Seq(MemoryCalls), queue # <<>>, NEW rowsNow, NEW flush,
         Informed(rowsNow, queue), OneFlush(queue, flush)
  PROVE  /\ Informed(rowsNow, Tail(queue)) /\ OneFlush(Tail(queue), flush)
         /\ Head(queue).flush => flush.on /\ flush.bot \in Holder /\ NoFlushIn(Tail(queue))
<1> DEFINE rest == Tail(queue)
<1>1. /\ Head(queue) = queue[1] /\ 1 \in 1..Len(queue)
      /\ Len(queue) \in Nat /\ Len(rest) = Len(queue) - 1
      /\ \A n \in 1..Len(rest) : rest[n] = queue[n + 1]
  BY QueueShrinks
<1>2. \A n \in 1..Len(rest) : n + 1 \in 1..Len(queue) /\ n + 1 # 1 /\ n \in Nat
  BY <1>1
<1>3. Informed(rowsNow, rest)
  BY <1>1, <1>2 DEF Informed
<1>4. OneFlush(rest, flush)
  <2>1. ASSUME NEW n \in 1..Len(rest), rest[n].flush
        PROVE  flush.on /\ \A m \in 1..Len(rest) : rest[m].flush => m = n
    <3>1. flush.on /\ \A m \in 1..Len(queue) : queue[m].flush => m = n + 1
      BY <1>1, <1>2, <2>1 DEF OneFlush
    <3>2. ASSUME NEW m \in 1..Len(rest), rest[m].flush
          PROVE  m = n
      <4>1. m + 1 = n + 1
        BY <1>1, <1>2, <3>1, <3>2
      <4> QED BY <1>2, <4>1
    <3> QED BY <3>1, <3>2
  <2> QED BY <2>1 DEF OneFlush
<1>5. ASSUME Head(queue).flush
      PROVE  flush.on /\ flush.bot \in Holder /\ NoFlushIn(rest)
  <2>1. flush.on /\ \A m \in 1..Len(queue) : queue[m].flush => m = 1
    BY <1>1, <1>5 DEF OneFlush
  <2> QED BY <1>1, <1>2, <2>1 DEF OneFlush, NoFlushIn
<1> QED BY <1>3, <1>4, <1>5

\* The same of a queue with one call more, and of one that a flush has added to.
LEMMA MoreCalls ==
  ASSUME NEW queue \in Seq(MemoryCalls), NEW rowsNow, Informed(rowsNow, queue),
         NEW c \in MemoryCalls,
         c.kind \in {"update", "delete", "restore"} =>
           c.item \in Item /\ c.seen # NoRow /\ Sees(rowsNow, c.item, c.seen)
  PROVE  /\ Append(queue, c) \in Seq(MemoryCalls)
         /\ Informed(rowsNow, Append(queue, c))
         /\ \A flush : OneFlush(queue, flush) /\ ~c.flush => OneFlush(Append(queue, c), flush)
         /\ \A flush : NoFlushIn(queue) /\ flush.on /\ flush.bot \in Holder
                         => OneFlush(Append(queue, c), flush)
<1> DEFINE longer == Append(queue, c)
<1>1. /\ longer \in Seq(MemoryCalls) /\ Len(longer) = Len(queue) + 1 /\ Len(queue) \in Nat
      /\ \A n \in 1..Len(queue) : longer[n] = queue[n]
      /\ longer[Len(queue) + 1] = c
  BY QueueGrows
<1> HIDE DEF longer
<1>2. \A n \in 1..Len(longer) : n \in 1..Len(queue) \/ n = Len(queue) + 1
  BY <1>1
<1>3. Informed(rowsNow, longer)
  BY <1>1, <1>2 DEF Informed
<1>4. ASSUME NEW flush, OneFlush(queue, flush), ~c.flush
      PROVE  OneFlush(longer, flush)
  BY <1>1, <1>2, <1>4 DEF OneFlush
<1>5. ASSUME NEW flush, NoFlushIn(queue), flush.on, flush.bot \in Holder
      PROVE  OneFlush(longer, flush)
  BY <1>1, <1>2, <1>5 DEF OneFlush, NoFlushIn
<1> QED BY <1>1, <1>3, <1>4, <1>5 DEF longer

\* The least of some items.
LEMMA LeastIsOne ==
  ASSUME NEW S \in SUBSET Item, S # {}
  PROVE  Least(S) \in S
<1> DEFINE R == OpToRel(<, Nat)
<1>1. S \in SUBSET Nat
  BY MemoryNumbers
<1>2. PICK i \in S : \A j \in S : <<j, i>> \notin R
  <2>1. IsWellFoundedOn(R, Nat)
    BY NatLessThanWellFounded
  <2> HIDE DEF R
  <2> QED BY <1>1, <2>1, WFMin
<1>3. ASSUME NEW j \in S
      PROVE  i <= j
  <2>1. i \in Nat /\ j \in Nat
    BY <1>1
  <2>2. ~(j < i)
    BY <1>2, <2>1 DEF OpToRel
  <2> QED BY <2>1, <2>2
<1> QED BY <1>3 DEF Least

\* The first unused item.
LEMMA NextIsUnused ==
  ASSUME Unused # {}
  PROVE  NextItem \in Item /\ memory[NextItem] = NoRow
<1>1. Unused \in SUBSET Item
  BY DEF Unused
<1>2. NextItem \in Unused
  BY <1>1, LeastIsOne DEF NextItem
<1> QED BY <1>2 DEF Unused

\* A row that is kept, alike no other of its Bot and within the limit.
LEMMA KeepingWithinLimits ==
  ASSUME MemoryTypeOK, NEW i \in Item, NEW row \in ItemRows, Kept(row),
         memory' = [memory EXCEPT ![i] = row],
         \A j \in KeptOf(row.bot) : j # i => memory[j].text # row.text,
         i \in KeptOf(row.bot) \/ ~AtCapacity(row.bot)
  PROVE  WithinLimits'
<1>1. memory \in [Item -> ItemRows] /\ WithinLimits
  BY MemoryTypes
<1>2. \A b : KeptOf(b) \subseteq Item /\ KeptOf(b)' \subseteq Item
  BY DEF KeptOf
<1>3. SUFFICES ASSUME NEW b \in Holder
               PROVE  /\ Cardinality(KeptOf(b)') <= MaxKept
                      /\ \A j, k \in KeptOf(b)' : j # k => memory'[j].text # memory'[k].text
  BY DEF WithinLimits
<1>4. \A j \in KeptOf(b)' : (j # i /\ j \in KeptOf(b)) \/ (j = i /\ b = row.bot)
  BY <1>1 DEF KeptOf
<1>5. IsFiniteSet(KeptOf(b)) /\ Cardinality(KeptOf(b)) \in Nat /\ Cardinality(KeptOf(b)) <= MaxKept
  BY <1>1, <1>2, MemoryNumbers, FS_Subset, FS_CardinalityType DEF WithinLimits
<1>6. Cardinality(KeptOf(b)') <= MaxKept
  <2>1. CASE b = row.bot /\ i \notin KeptOf(b)
    <3>1. IsFiniteSet(KeptOf(b) \cup {i}) /\ Cardinality(KeptOf(b) \cup {i}) = Cardinality(KeptOf(b)) + 1
      BY <1>5, <2>1, FS_AddElement
    <3>2. KeptOf(b)' \in SUBSET (KeptOf(b) \cup {i})
      BY <1>4
    <3>3. IsFiniteSet(KeptOf(b)') /\ Cardinality(KeptOf(b)') <= Cardinality(KeptOf(b) \cup {i})
      BY <3>1, <3>2, FS_Subset
    <3>4. Cardinality(KeptOf(b)') \in Nat
      BY <3>3, FS_CardinalityType
    <3>5. Cardinality(KeptOf(b)) < MaxKept
      BY <1>5, <2>1, MemoryNumbers DEF AtCapacity
    <3> QED BY <1>5, <3>1, <3>3, <3>4, <3>5, MemoryNumbers
  <2>2. CASE ~(b = row.bot /\ i \notin KeptOf(b))
    <3>1. KeptOf(b)' \in SUBSET KeptOf(b)
      BY <1>4, <2>2
    <3>2. IsFiniteSet(KeptOf(b)') /\ Cardinality(KeptOf(b)') <= Cardinality(KeptOf(b))
      BY <1>5, <3>1, FS_Subset
    <3>3. Cardinality(KeptOf(b)') \in Nat
      BY <3>2, FS_CardinalityType
    <3> QED BY <1>5, <3>2, <3>3, MemoryNumbers
  <2> QED BY <2>1, <2>2
<1>7. \A j, k \in KeptOf(b)' : j # k => memory'[j].text # memory'[k].text
  <2>1. memory'[i] = row /\ \A j \in Item : j # i => memory'[j] = memory[j]
    BY <1>1
  <2>2. \A j, k \in KeptOf(b) : j # k => memory[j].text # memory[k].text
    BY <1>1 DEF WithinLimits
  <2> QED BY <1>2, <1>4, <2>1, <2>2
<1> QED BY <1>6, <1>7

\* A row that is no longer kept.
LEMMA DroppingWithinLimits ==
  ASSUME MemoryTypeOK, NEW i \in Item, NEW row \in ItemRows, ~Kept(row),
         memory' = [memory EXCEPT ![i] = row]
  PROVE  WithinLimits'
<1>1. memory \in [Item -> ItemRows] /\ WithinLimits
  BY MemoryTypes
<1>2. SUFFICES ASSUME NEW b \in Holder
               PROVE  /\ Cardinality(KeptOf(b)') <= MaxKept
                      /\ \A j, k \in KeptOf(b)' : j # k => memory'[j].text # memory'[k].text
  BY DEF WithinLimits
<1>3. \A j \in KeptOf(b)' : j # i /\ j \in KeptOf(b) /\ memory'[j] = memory[j]
  BY <1>1 DEF KeptOf
<1>4. IsFiniteSet(KeptOf(b)) /\ Cardinality(KeptOf(b)) \in Nat /\ Cardinality(KeptOf(b)) <= MaxKept
  <2>1. KeptOf(b) \in SUBSET Item
    BY DEF KeptOf
  <2> QED BY <1>1, <2>1, MemoryNumbers, FS_Subset, FS_CardinalityType DEF WithinLimits
<1>5. KeptOf(b)' \in SUBSET KeptOf(b)
  BY <1>3
<1>6. IsFiniteSet(KeptOf(b)') /\ Cardinality(KeptOf(b)') <= Cardinality(KeptOf(b))
  BY <1>4, <1>5, FS_Subset
<1>7. Cardinality(KeptOf(b)') \in Nat
  BY <1>6, FS_CardinalityType
<1>8. \A j, k \in KeptOf(b) : j # k => memory[j].text # memory[k].text
  BY <1>1 DEF WithinLimits
<1> QED BY <1>3, <1>4, <1>6, <1>7, <1>8, MemoryNumbers

\* A change goes to the next version.
Grows(before, after) ==
  \A i \in Item : after[i] = before[i]
                  \/ (after[i].version = before[i].version + 1 /\ after[i] # NoRow)

\* What was known of an item is known of it as it is now.
LEMMA SeesOn ==
  ASSUME NEW before \in [Item -> ItemRows], NEW after \in [Item -> ItemRows],
         Grows(before, after), NEW i \in Item, NEW row \in ItemRows, Sees(before, i, row)
  PROVE  Sees(after, i, row)
<1>1. before[i].version \in Nat /\ row.version \in Nat
  BY MemoryRecords
<1>2. CASE after[i] = before[i]
  BY <1>2 DEF Sees
<1>3. CASE after[i].version = before[i].version + 1 /\ after[i] # NoRow
  BY <1>1, <1>3 DEF Sees
<1> QED BY <1>2, <1>3 DEF Grows

\* A row under its next version.
LEMMA SetRowTyped ==
  ASSUME MemoryTypeOK, NEW i \in Item, NEW row \in ItemRows, row.version = memory[i].version,
         SetRow(i, row)
  PROVE  \E next \in ItemRows :
           /\ memory' = [memory EXCEPT ![i] = next]
           /\ next.bot = row.bot /\ next.text = row.text /\ next.state = row.state
           /\ memory' \in [Item -> ItemRows]
           /\ Grows(memory, memory')
           /\ \A j \in Item : j # i => memory'[j] = memory[j]
<1> DEFINE next == [row EXCEPT !.version = row.version + 1]
<1>1. memory' = [memory EXCEPT ![i] = next]
  BY DEF SetRow
<1>2. /\ next \in ItemRows /\ next.bot = row.bot /\ next.text = row.text
      /\ next.state = row.state /\ next.version = row.version + 1
  BY DEF ItemRows
<1>3. memory \in [Item -> ItemRows]
  BY MemoryTypes
<1> HIDE DEF next
<1>4. next # NoRow
  <2>1. row.version \in Nat /\ row.version + 1 # 0
    BY MemoryRecords
  <2>2. next.version # NoRow.version
    BY <1>2, <2>1, MemoryRecords
  <2> QED BY <2>2
<1>5. memory' \in [Item -> ItemRows] /\ memory'[i] = next
      /\ \A j \in Item : j # i => memory'[j] = memory[j]
  BY <1>1, <1>2, <1>3
<1>6. Grows(memory, memory')
  BY <1>2, <1>4, <1>5 DEF Grows
<1> QED BY <1>1, <1>2, <1>5, <1>6

\* The four calls that change an item: by a row they know, to the next version and within
\* the limits.
LEMMA RowsChange ==
  ASSUME MemoryTypeOK, NEW c \in MemoryCalls,
         c.kind \in {"update", "delete", "restore"} =>
           c.item \in Item /\ c.seen # NoRow /\ Sees(memory, c.item, c.seen),
         \/ c.kind = "update" /\ updateMemory(c)
         \/ c.kind = "delete" /\ deleteMemory(c)
         \/ c.kind = "restore" /\ restoreMemory(c)
         \/ c.kind = "create" /\ createMemory(c)
  PROVE  /\ memory' \in [Item -> ItemRows]
         /\ Grows(memory, memory')
         /\ WithinLimits'
         /\ \A i \in Item : memory[i] # NoRow /\ memory'[i] # memory[i] => c.seen = memory[i]
         /\ c.kind # "create" => \A i \in Item : i # c.item => memory'[i] = memory[i]
         /\ c.kind = "create" => /\ NextItem \in Item
                                 /\ \A i \in Item : i # NextItem => memory'[i] = memory[i]
<1>1. memory \in [Item -> ItemRows] /\ WithinLimits
  BY MemoryTypes
<1>2. ASSUME c.kind \in {"update", "delete", "restore"}
      PROVE  c.item \in Item /\ memory[c.item] \in ItemRows
             /\ (Unchanged(c) => c.seen = memory[c.item])
  BY <1>1, <1>2 DEF Sees, Unchanged
<1>3. CASE c.kind = "update" /\ updateMemory(c)
  <2> DEFINE i == c.item
             row == [memory[i] EXCEPT !.text = c.text]
  <2>1. i \in Item /\ memory[i] \in ItemRows /\ c.seen = memory[i] /\ Kept(memory[i])
        /\ SetRow(i, row) /\ ~Duplicate(memory[i].bot, c.text, i)
    BY <1>2, <1>3 DEF updateMemory
  <2>2. row \in ItemRows /\ row.version = memory[i].version /\ row.bot = memory[i].bot
        /\ row.text = c.text /\ row.state = memory[i].state
    BY <2>1 DEF ItemRows, MemoryCalls
  <2> HIDE DEF i, row
  <2>3. PICK next \in ItemRows :
           /\ memory' = [memory EXCEPT ![i] = next]
           /\ next.bot = row.bot /\ next.text = row.text /\ next.state = row.state
           /\ memory' \in [Item -> ItemRows]
           /\ Grows(memory, memory')
           /\ \A j \in Item : j # i => memory'[j] = memory[j]
    BY <2>1, <2>2, SetRowTyped
  <2>4. Kept(next) /\ i \in KeptOf(next.bot)
        /\ \A j \in KeptOf(next.bot) : j # i => memory[j].text # next.text
    BY <2>1, <2>2, <2>3 DEF Kept, KeptOf, Duplicate
  <2>5. WithinLimits'
    BY <2>1, <2>3, <2>4, KeepingWithinLimits
  <2> QED BY <1>3, <2>1, <2>3, <2>5 DEF i
<1>4. CASE c.kind = "delete" /\ deleteMemory(c)
  <2> DEFINE i == c.item
             row == [memory[i] EXCEPT !.state = "deleted"]
  <2>1. i \in Item /\ memory[i] \in ItemRows /\ c.seen = memory[i] /\ SetRow(i, row)
    BY <1>2, <1>4 DEF deleteMemory
  <2>2. row \in ItemRows /\ row.version = memory[i].version /\ ~Kept(row)
    BY <2>1 DEF ItemRows, Kept
  <2> HIDE DEF i, row
  <2>3. PICK next \in ItemRows :
           /\ memory' = [memory EXCEPT ![i] = next]
           /\ next.bot = row.bot /\ next.text = row.text /\ next.state = row.state
           /\ memory' \in [Item -> ItemRows]
           /\ Grows(memory, memory')
           /\ \A j \in Item : j # i => memory'[j] = memory[j]
    BY <2>1, <2>2, SetRowTyped
  <2>4. WithinLimits'
    BY <2>1, <2>2, <2>3, DroppingWithinLimits DEF Kept
  <2> QED BY <1>4, <2>1, <2>3, <2>4 DEF i
<1>5. CASE c.kind = "restore" /\ restoreMemory(c) /\ UNCHANGED memory
  <2>1. WithinLimits'
    BY <1>1, <1>5 DEF WithinLimits, KeptOf
  <2> QED BY <1>1, <1>5, <2>1 DEF Grows
<1>6. CASE c.kind = "restore" /\ restoreMemory(c) /\ ~UNCHANGED memory
  <2> DEFINE i == c.item
             row == [memory[i] EXCEPT !.state = "kept"]
  <2>1. i \in Item /\ memory[i] \in ItemRows /\ c.seen = memory[i] /\ ~Kept(memory[i])
        /\ SetRow(i, row) /\ ~Duplicate(memory[i].bot, memory[i].text, i)
        /\ ~AtCapacity(memory[i].bot)
    BY <1>2, <1>6 DEF restoreMemory
  <2>2. row \in ItemRows /\ row.version = memory[i].version /\ row.bot = memory[i].bot
        /\ row.text = memory[i].text /\ Kept(row)
    BY <2>1 DEF ItemRows, Kept
  <2> HIDE DEF i, row
  <2>3. PICK next \in ItemRows :
           /\ memory' = [memory EXCEPT ![i] = next]
           /\ next.bot = row.bot /\ next.text = row.text /\ next.state = row.state
           /\ memory' \in [Item -> ItemRows]
           /\ Grows(memory, memory')
           /\ \A j \in Item : j # i => memory'[j] = memory[j]
    BY <2>1, <2>2, SetRowTyped
  <2>4. Kept(next) /\ \A j \in KeptOf(next.bot) : j # i => memory[j].text # next.text
    BY <2>1, <2>2, <2>3 DEF Kept, KeptOf, Duplicate
  <2>5. WithinLimits'
    BY <2>1, <2>2, <2>3, <2>4, KeepingWithinLimits
  <2> QED BY <1>6, <2>1, <2>3, <2>5 DEF i
<1>7. CASE c.kind = "create" /\ createMemory(c)
  <2> DEFINE i == NextItem
             row == [bot |-> c.bot, text |-> c.text, version |-> 0, state |-> "kept"]
  <2>1. /\ Unused # {} /\ ~Duplicate(c.bot, c.text, 0) /\ ~AtCapacity(c.bot) /\ SetRow(i, row)
    BY <1>7 DEF createMemory
  <2>2. i \in Item /\ memory[i] = NoRow
    BY <2>1, NextIsUnused
  <2>3. row \in ItemRows /\ row.version = memory[i].version /\ row.bot = c.bot
        /\ row.text = c.text /\ Kept(row)
    BY <2>2, MemoryRecords DEF ItemRows, MemoryCalls, Kept
  <2> HIDE DEF i, row
  <2>4. PICK next \in ItemRows :
           /\ memory' = [memory EXCEPT ![i] = next]
           /\ next.bot = row.bot /\ next.text = row.text /\ next.state = row.state
           /\ memory' \in [Item -> ItemRows]
           /\ Grows(memory, memory')
           /\ \A j \in Item : j # i => memory'[j] = memory[j]
    BY <2>1, <2>2, <2>3, SetRowTyped
  <2>5. Kept(next) /\ \A j \in KeptOf(next.bot) : j # i => memory[j].text # next.text
    <3>1. \A j \in KeptOf(next.bot) : j # 0
      BY MemoryNumbers DEF KeptOf
    <3> QED BY <2>1, <2>3, <2>4, <3>1 DEF Kept, Duplicate
  <2>6. WithinLimits'
    BY <2>1, <2>2, <2>3, <2>4, <2>5, KeepingWithinLimits
  <2> QED BY <1>7, <2>2, <2>4, <2>6 DEF i
<1> QED BY <1>3, <1>4, <1>5, <1>6, <1>7

\* What a step leaves of the queue and the flush.
QueueKept ==
  /\ calls' \in Seq(MemoryCalls) /\ Informed(memory', calls') /\ OneFlush(calls', flushing')
  /\ flushing' \in Flushes /\ \A i \in Item : Sees(memory', i, flushing'.items[i])
  /\ panelStatus' \in {"loading", "saving", "idle"} /\ panelError' \in BOOLEAN
  /\ leaving' \in BOOLEAN /\ asked' \in 0..MaxCalls

\* Nothing typed is left.
NothingTyped == newDraft' = 0 /\ \A i \in Item : ~Dirty(panel', i)

\* One call more.
LEMMA AsksTyped ==
  ASSUME MemoryTypeOK, Asks
  PROVE  asked' \in 0..MaxCalls
<1>1. asked \in 0..MaxCalls /\ asked < MaxCalls /\ asked' = asked + 1
  BY DEF MemoryTypeOK, Asks
<1> QED BY <1>1, MemoryNumbers

\* A flush sends a call and awaits it.
LEMMA FlushAwaits ==
  ASSUME MemoryTypeOK, NEW b \in Holder, NEW left \in [Item -> ItemRows],
         NEW rowsNow, \A i \in Item : Sees(rowsNow, i, left[i]),
         NEW others \in Seq(MemoryCalls), Informed(rowsNow, others), NoFlushIn(others),
         NEW c \in MemoryCalls,
         c.kind \in {"update", "delete", "restore"} =>
           c.item \in Item /\ c.seen # NoRow /\ Sees(rowsNow, c.item, c.seen),
         FlushCalls(c, left, b, others), rowsNow = memory'
  PROVE  QueueKept /\ leaving' = leaving
<1> DEFINE call == [c EXCEPT !.bot = b, !.flush = TRUE]
           flush == [on |-> TRUE, bot |-> b, items |-> left]
<1>1. /\ Asks /\ flushing' = flush /\ calls' = Append(others, call)
      /\ panelStatus' = "saving" /\ panelError' = FALSE /\ leaving' = leaving
  BY DEF FlushCalls
<1>2. /\ call \in MemoryCalls /\ call.kind = c.kind /\ call.item = c.item /\ call.seen = c.seen
  BY DEF MemoryCalls
<1>3. flush \in Flushes /\ flush.on /\ flush.bot = b /\ flush.items = left
  BY DEF Flushes
<1> HIDE DEF call, flush
<1>4. calls' \in Seq(MemoryCalls) /\ Informed(rowsNow, calls') /\ OneFlush(calls', flush)
  BY <1>1, <1>2, <1>3, MoreCalls
<1>5. panelStatus' \in {"loading", "saving", "idle"} /\ panelError' \in BOOLEAN
      /\ leaving' \in BOOLEAN /\ asked' \in 0..MaxCalls
  BY <1>1, AsksTyped DEF MemoryTypeOK
<1> QED BY <1>1, <1>3, <1>4, <1>5 DEF QueueKept

\* A flush ends, and others are left under way.
LEMMA FlushEndsHere ==
  ASSUME MemoryTypeOK, NEW others \in Seq(MemoryCalls), NEW rowsNow,
         Informed(rowsNow, others), NoFlushIn(others),
         NEW ok \in BOOLEAN, FlushOver(ok, others), rowsNow = memory'
  PROVE  QueueKept /\ (~ok => leaving' = leaving)
<1>1. /\ flushing' = NoFlush /\ calls' = others /\ panelStatus' = "idle"
      /\ panelError' \in {panelError, TRUE} /\ leaving' = (leaving \/ ok) /\ asked' = asked
  BY DEF FlushOver
<1>2. OneFlush(others, NoFlush)
  BY MemoryRecords DEF OneFlush, NoFlushIn
<1>3. leaving' \in BOOLEAN /\ (~ok => leaving' = leaving)
  <2>1. leaving \in BOOLEAN
    BY DEF MemoryTypeOK
  <2> QED BY <1>1, <2>1
<1>4. panelError' \in BOOLEAN
  <2>1. panelError \in BOOLEAN
    BY DEF MemoryTypeOK
  <2> QED BY <1>1, <2>1
<1>5. \A i \in Item : Sees(memory', i, NoFlush.items[i])
  BY MemoryRecords DEF Sees
<1>6. panelStatus' \in {"loading", "saving", "idle"} /\ asked' \in 0..MaxCalls
  BY <1>1 DEF MemoryTypeOK
<1> QED BY <1>1, <1>2, <1>3, <1>4, <1>5, <1>6, MemoryRecords DEF QueueKept

\* A flush saves the first item whose text differs, or ends at a blank one.
LEMMA FlushSavesItem ==
  ASSUME MemoryTypeOK, NEW b \in Holder, NEW left \in [Item -> ItemRows],
         \A i \in Item : Sees(memory', i, left[i]),
         NEW others \in Seq(MemoryCalls), Informed(memory', others), NoFlushIn(others),
         panel' \in [Item -> ListedItems], ToSave(left) # {},
         FlushItems(left, b, others)
  PROVE  QueueKept /\ leaving' = leaving
<1> DEFINE i == Least(ToSave(left))
           rest == [j \in Item |-> IF j <= i THEN NoRow ELSE left[j]]
           c == [NewCall("update", b) EXCEPT !.item = i, !.seen = left[i], !.text = panel'[i].draft]
<1>1. i \in Item /\ Kept(left[i]) /\ panel'[i].draft \notin {Absent, left[i].text}
  <2>1. ToSave(left) \in SUBSET Item
    BY DEF ToSave
  <2>2. i \in ToSave(left)
    BY <2>1, LeastIsOne
  <2> QED BY <2>2 DEF ToSave
<1>2. left[i] \in ItemRows /\ left[i] # NoRow /\ panel'[i].draft \in Texts
  BY <1>1, MemoryRecords DEF ListedItems
<1>3. CASE panel'[i].draft = 0
  <2>1. FlushOver(FALSE, others)
    BY <1>3 DEF FlushItems
  <2> QED BY <2>1, FlushEndsHere
<1>4. CASE panel'[i].draft # 0
  <2>1. FlushCalls(c, rest, b, others)
    BY <1>4 DEF FlushItems
  <2>2. rest \in [Item -> ItemRows] /\ \A j \in Item : Sees(memory', j, rest[j])
    BY MemoryRecords DEF Sees
  <2>3. c \in MemoryCalls /\ c.kind = "update" /\ c.item = i /\ c.seen = left[i]
    <3>1. NewCall("update", b) \in MemoryCalls /\ NewCall("update", b).kind = "update"
      BY NewCallTyped
    <3>2. i \in 0..MaxItems
      BY <1>1, MemoryNumbers DEF Item
    <3> HIDE DEF i
    <3> QED BY <1>2, <3>1, <3>2 DEF MemoryCalls
  <2>4. c.item \in Item /\ c.seen # NoRow /\ Sees(memory', c.item, c.seen)
    BY <1>1, <1>2, <2>3
  <2> HIDE DEF c, rest, i
  <2> QED BY <2>1, <2>2, <2>3, <2>4, FlushAwaits
<1> QED BY <1>3, <1>4

\* A flush goes on: it saves an item, creates a new one, or ends with nothing typed left.
LEMMA FlushGoes ==
  ASSUME MemoryTypeOK, NEW b \in Holder, NEW left \in [Item -> ItemRows],
         \A i \in Item : Sees(memory', i, left[i]),
         NEW others \in Seq(MemoryCalls), Informed(memory', others), NoFlushIn(others),
         memory' \in [Item -> ItemRows], panel' \in [Item -> ListedItems],
         Lists(memory', panel'), newDraft' \in Texts,
         FlushGoesOn(left, b, others)
  PROVE  QueueKept /\ (~leaving /\ leaving' => NothingTyped)
<1>1. RowsNow \in [Item -> ItemRows] /\ \A i \in Item : Sees(memory', i, RowsNow[i])
  <2>1. \A i \in Item : panel'[i].row \in ItemRows /\ RowsNow[i] = panel'[i].row
    BY DEF ListedItems, RowsNow
  <2>2. ASSUME NEW i \in Item
        PROVE  Sees(memory', i, panel'[i].row)
    <3>1. panel'[i].row \in {NoRow, memory'[i]}
      BY DEF Lists
    <3>2. memory'[i].version \in Nat
      BY MemoryRecords
    <3> QED BY <3>1, <3>2 DEF Sees
  <2> QED BY <2>1, <2>2 DEF RowsNow
<1>2. CASE ToSave(left) # {}
  <2>1. FlushItems(left, b, others)
    BY <1>2 DEF FlushGoesOn
  <2> QED BY <1>2, <2>1, FlushSavesItem
<1>3. CASE ToSave(left) = {} /\ newDraft' # 0
  <2> DEFINE c == [NewCall("create", b) EXCEPT !.text = newDraft']
  <2>1. FlushCalls(c, NoFlush.items, b, others)
    BY <1>3 DEF FlushGoesOn
  <2>2. c \in MemoryCalls /\ c.kind = "create"
    <3>1. NewCall("create", b) \in MemoryCalls /\ NewCall("create", b).kind = "create"
      BY NewCallTyped
    <3> QED BY <3>1 DEF MemoryCalls
  <2>3. NoFlush.items \in [Item -> ItemRows] /\ \A i \in Item : Sees(memory', i, NoFlush.items[i])
    BY MemoryRecords DEF Sees
  <2> HIDE DEF c
  <2>4. QueueKept /\ leaving' = leaving
    BY <2>1, <2>2, <2>3, FlushAwaits
  <2> QED BY <2>4
<1>4. CASE ToSave(left) = {} /\ newDraft' = 0 /\ ToSave(RowsNow) # {}
  <2>1. FlushItems(RowsNow, b, others)
    BY <1>4 DEF FlushGoesOn
  <2> QED BY <1>1, <1>4, <2>1, FlushSavesItem
<1>5. CASE ToSave(left) = {} /\ newDraft' = 0 /\ ToSave(RowsNow) = {}
  <2>1. FlushOver(TRUE, others)
    BY <1>5 DEF FlushGoesOn
  <2>2. QueueKept
    BY <2>1, FlushEndsHere
  <2>3. ASSUME NEW i \in Item
        PROVE  ~Dirty(panel', i)
    BY <1>5 DEF ToSave, RowsNow, Dirty, Lists
  <2> QED BY <1>5, <2>2, <2>3 DEF NothingTyped
<1> QED BY <1>2, <1>3, <1>4, <1>5

\* What an answer changes is known, listed and within the limits; a flush that awaited it
\* goes on.
LEMMA AnsweredStep ==
  ASSUME MemoryInv, calls # <<>>, memory' \in [Item -> ItemRows], Grows(memory, memory'),
         WithinLimits', panel' \in [Item -> ListedItems], Lists(memory', panel'),
         newDraft' \in Texts, Answered
  PROVE  MemoryInv' /\ (~leaving /\ leaving' => NothingTyped)
<1>1. /\ MemoryTypeOK /\ memory \in [Item -> ItemRows] /\ calls \in Seq(MemoryCalls)
      /\ flushing \in Flushes
  BY MemoryTypes DEF MemoryInv
<1>2. /\ Head(calls) \in MemoryCalls /\ Tail(calls) \in Seq(MemoryCalls)
      /\ Informed(memory, Tail(calls)) /\ OneFlush(Tail(calls), flushing)
      /\ Head(calls).flush => flushing.on /\ flushing.bot \in Holder /\ NoFlushIn(Tail(calls))
  BY <1>1, QueueShrinks, RestOfCalls DEF MemoryInv
<1>3. Informed(memory', Tail(calls))
  <2>1. ASSUME NEW n \in 1..Len(Tail(calls)),
               Tail(calls)[n].kind \in {"update", "delete", "restore"}
        PROVE  Sees(memory', Tail(calls)[n].item, Tail(calls)[n].seen)
    <3>1. Tail(calls)[n] \in MemoryCalls
      BY <1>2, LenProperties
    <3>2. Tail(calls)[n].seen \in ItemRows
      BY <3>1 DEF MemoryCalls
    <3>3. Tail(calls)[n].item \in Item /\ Sees(memory, Tail(calls)[n].item, Tail(calls)[n].seen)
      BY <1>2, <2>1 DEF Informed
    <3> QED BY <1>1, <3>2, <3>3, SeesOn
  <2> QED BY <1>2, <2>1 DEF Informed
<1>4. \A i \in Item : flushing.items[i] \in ItemRows /\ Sees(memory', i, flushing.items[i])
  <2>1. \A i \in Item : flushing.items[i] \in ItemRows /\ Sees(memory, i, flushing.items[i])
    BY <1>1 DEF MemoryInv, Flushes
  <2> QED BY <1>1, <2>1, SeesOn
<1>5. UNCHANGED <<panelBot, requestSequence, typed>>
  BY DEF Answered
<1>6. QueueKept /\ (~leaving /\ leaving' => NothingTyped)
  <2>1. CASE ~Head(calls).flush
    <3>1. /\ calls' = Tail(calls) /\ panelStatus' = "idle"
          /\ UNCHANGED <<panelError, flushing, leaving, asked>>
      BY <2>1 DEF Answered
    <3>2. QueueKept
      BY <1>1, <1>2, <1>3, <1>4, <3>1 DEF QueueKept, MemoryTypeOK
    <3> QED BY <3>1, <3>2
  <2>2. CASE Head(calls).flush
    <3>1. CASE Head(calls).kind = "create"
      <4>1. FlushGoesOn(RowsNow, flushing.bot, Tail(calls))
        BY <2>2, <3>1 DEF Answered
      <4>2. RowsNow \in [Item -> ItemRows] /\ \A i \in Item : Sees(memory', i, RowsNow[i])
        <5>1. \A i \in Item : panel'[i].row \in ItemRows /\ RowsNow[i] = panel'[i].row
          BY DEF ListedItems, RowsNow
        <5>2. \A i \in Item : Sees(memory', i, panel'[i].row)
          BY MemoryRecords DEF Lists, Sees
        <5> QED BY <5>1, <5>2 DEF RowsNow
      <4> QED BY <1>1, <1>2, <1>3, <2>2, <4>1, <4>2, FlushGoes
    <3>2. CASE Head(calls).kind # "create"
      <4>1. FlushGoesOn(flushing.items, flushing.bot, Tail(calls))
        BY <2>2, <3>2 DEF Answered
      <4>2. flushing.items \in [Item -> ItemRows]
        BY <1>1 DEF Flushes
      <4> QED BY <1>1, <1>2, <1>3, <1>4, <2>2, <4>1, <4>2, FlushGoes
    <3> QED BY <3>1, <3>2
  <2> QED BY <2>1, <2>2
<1>7. MemoryTypeOK'
  <2>1. /\ panelBot \in Holder /\ requestSequence \in 0..MaxSwitches /\ typed \in 0..MaxTyped
    BY <1>1 DEF MemoryTypeOK
  <2> QED BY <1>5, <1>6, <2>1
          DEF QueueKept, MemoryTypeOK, WithinLimits, ListedItems, Flushes
<1> QED BY <1>6, <1>7 DEF MemoryInv, QueueKept

\* An item is replaced by its row where it is listed.
LEMMA ReplacesTyped ==
  ASSUME MemoryInv, memory' \in [Item -> ItemRows], NEW i \in Item, NEW sent,
         \A j \in Item : j # i => memory'[j] = memory[j],
         ReplacesItem(i, memory'[i], sent)
  PROVE  /\ panel' \in [Item -> ListedItems] /\ Lists(memory', panel')
         /\ \A j \in Item : panel'[j].draft # panel[j].draft => j = i /\ panel[i].draft \in {sent,
              Absent}
<1> DEFINE row == memory'[i]
           item == [row |-> IF panel[i].row = NoRow THEN NoRow ELSE row,
                    draft |-> IF panel[i].draft \in {sent, Absent} THEN row.text
                              ELSE panel[i].draft]
<1>1. panel \in [Item -> ListedItems] /\ Lists(memory, panel)
  BY MemoryTypes DEF MemoryInv
<1>2. panel' = [panel EXCEPT ![i] = item]
  BY DEF ReplacesItem
<1>3. row \in ItemRows /\ row.text \in Texts /\ panel[i] \in ListedItems
  BY <1>1, MemoryRecords
<1>4. item \in ListedItems /\ item.row \in {NoRow, row} /\ item.draft # Absent
  BY <1>3, MemoryRecords, MemoryNumbers DEF ListedItems
<1>5. item.draft # panel[i].draft => panel[i].draft \in {sent, Absent}
  OBVIOUS
<1> HIDE DEF item
<1>6. panel' \in [Item -> ListedItems] /\ panel'[i] = item
      /\ \A j \in Item : j # i => panel'[j] = panel[j]
  BY <1>1, <1>2, <1>4
<1>7. Lists(memory', panel')
  BY <1>1, <1>4, <1>6 DEF Lists
<1> QED BY <1>5, <1>6, <1>7

\* A call that carries out something: a save, a deletion, a restoration or a creation.
LEMMA ItemSteps ==
  ASSUME MemoryInv, ItemSaved \/ ItemMoved \/ ItemCreated
  PROVE  /\ MemoryInv' /\ (~leaving /\ leaving' => NothingTyped)
         /\ \A i \in Item : memory[i] # NoRow /\ memory'[i] # memory[i] => Head(calls).seen = memory[i]
         /\ ItemSaved => \A i \in Item : panel'[i].draft # panel[i].draft
                           => panel[i].draft \in {Head(calls).text, Absent}
         /\ ~ItemSaved => ~First({"update"})
<1> DEFINE c == Head(calls)
<1>1. MemoryTypeOK /\ calls \in Seq(MemoryCalls) /\ calls # <<>> /\ newDraft \in Texts
      /\ panel \in [Item -> ListedItems]
  BY MemoryTypes DEF MemoryInv, ItemSaved, ItemMoved, ItemCreated, First
<1>2. /\ c \in MemoryCalls
      /\ c.kind \in {"update", "delete", "restore"} =>
           c.item \in Item /\ c.seen # NoRow /\ Sees(memory, c.item, c.seen)
  BY <1>1, QueueShrinks DEF MemoryInv, Informed
<1>3. \/ c.kind = "update" /\ updateMemory(c) /\ ItemSaved
      \/ c.kind = "delete" /\ deleteMemory(c) /\ ItemMoved
      \/ c.kind = "restore" /\ restoreMemory(c) /\ ItemMoved
      \/ c.kind = "create" /\ createMemory(c) /\ ItemCreated
  <2>1. ItemSaved => c.kind = "update" /\ updateMemory(c)
    BY DEF ItemSaved, First
  <2>2. ItemMoved => \/ c.kind = "delete" /\ deleteMemory(c)
                     \/ c.kind = "restore" /\ restoreMemory(c)
    BY DEF ItemMoved, First
  <2>3. ItemCreated => c.kind = "create" /\ createMemory(c)
    BY DEF ItemCreated, First
  <2> QED BY <2>1, <2>2, <2>3
<1> HIDE DEF c
<1>4. /\ memory' \in [Item -> ItemRows]
      /\ Grows(memory, memory')
      /\ WithinLimits'
      /\ \A i \in Item : memory[i] # NoRow /\ memory'[i] # memory[i] => c.seen = memory[i]
      /\ c.kind # "create" => \A i \in Item : i # c.item => memory'[i] = memory[i]
      /\ c.kind = "create" => /\ NextItem \in Item
                              /\ \A i \in Item : i # NextItem => memory'[i] = memory[i]
  BY <1>1, <1>2, <1>3, RowsChange
<1>5. CASE c.kind = "update" /\ ItemSaved
  <2>1. ReplacesItem(c.item, memory'[c.item], c.text) /\ UNCHANGED newDraft /\ Answered
    BY <1>5 DEF ItemSaved, c
  <2>2. /\ panel' \in [Item -> ListedItems] /\ Lists(memory', panel')
        /\ \A j \in Item : panel'[j].draft # panel[j].draft => panel[j].draft \in {c.text, Absent}
    BY <1>2, <1>4, <1>5, <2>1, ReplacesTyped
  <2> QED BY <1>1, <1>4, <1>5, <2>1, <2>2, AnsweredStep DEF c
<1>6. CASE c.kind \in {"delete", "restore"} /\ ItemMoved
  <2>1. /\ ReplacesItem(c.item, memory'[c.item], panel[c.item].draft) /\ UNCHANGED newDraft
        /\ Answered
    BY <1>6 DEF ItemMoved, c
  <2>2. panel' \in [Item -> ListedItems] /\ Lists(memory', panel')
    BY <1>2, <1>4, <1>6, <2>1, ReplacesTyped
  <2>3. ~ItemSaved /\ ~First({"update"})
    BY <1>6 DEF ItemSaved, First, c
  <2> QED BY <1>1, <1>4, <2>1, <2>2, <2>3, AnsweredStep DEF c
<1>7. CASE c.kind = "create" /\ ItemCreated
  <2> DEFINE i == NextItem
             item == [row |-> memory'[i], draft |-> memory'[i].text]
  <2>1. /\ panel' = [panel EXCEPT ![i] = item]
        /\ newDraft' \in {0, newDraft} /\ Answered
    BY <1>7 DEF ItemCreated
  <2> HIDE DEF i
  <2>2. item \in ListedItems /\ item.row = memory'[i] /\ item.draft # Absent
    <3>1. i \in Item
      BY <1>4, <1>7 DEF i
    <3>2. memory'[i] \in ItemRows /\ memory'[i].text \in Texts
      BY <1>4, <3>1, MemoryRecords
    <3> QED BY <3>2, MemoryNumbers DEF ListedItems
  <2>3. newDraft' \in Texts
    BY <1>1, <2>1, MemoryNumbers
  <2>4. ~ItemSaved /\ ~First({"update"})
    BY <1>7 DEF ItemSaved, First, c
  <2> HIDE DEF item
  <2>5. i \in Item /\ \A j \in Item : j # i => memory'[j] = memory[j]
    BY <1>4, <1>7 DEF i
  <2>6. panel' \in [Item -> ListedItems] /\ panel'[i] = item
        /\ \A j \in Item : j # i => panel'[j] = panel[j]
    BY <1>1, <2>1, <2>2, <2>5
  <2>7. Lists(memory', panel')
    BY <2>2, <2>5, <2>6 DEF Lists, MemoryInv
  <2> QED BY <1>1, <1>4, <2>1, <2>3, <2>4, <2>6, <2>7, AnsweredStep DEF c
<1> QED BY <1>3, <1>5, <1>6, <1>7

\* A step that changes no row keeps the invariant if the panel and the queue do.
LEMMA RowsStand ==
  ASSUME MemoryInv, memory' = memory,
         panelBot' \in Holder, panel' \in [Item -> ListedItems], Lists(memory, panel'),
         newDraft' \in Texts, requestSequence' \in 0..MaxSwitches, typed' \in 0..MaxTyped,
         QueueKept
  PROVE  MemoryInv'
<1>1. memory \in [Item -> ItemRows] /\ WithinLimits
  BY MemoryTypes DEF MemoryInv
<1>2. WithinLimits'
  BY <1>1 DEF WithinLimits, KeptOf
<1>3. MemoryTypeOK'
  BY <1>1, <1>2 DEF QueueKept, MemoryTypeOK, WithinLimits, ListedItems, Flushes
<1>4. Lists(memory, panel)'
  BY DEF Lists
<1> QED BY <1>3, <1>4 DEF MemoryInv, QueueKept

\* A text typed into the panel.
LEMMA TypingSteps ==
  ASSUME MemoryInv, Typed,
         \/ \E text \in Texts : TypeNew(text)
         \/ \E i \in Item, text \in Texts : TypeItem(i, text)
  PROVE  MemoryInv' /\ memory' = memory /\ leaving' = leaving /\ typed' # typed
<1>1. /\ MemoryTypeOK /\ panel \in [Item -> ListedItems] /\ newDraft \in Texts
      /\ panelBot \in Holder /\ requestSequence \in 0..MaxSwitches /\ typed \in 0..MaxTyped
      /\ calls \in Seq(MemoryCalls) /\ flushing \in Flushes /\ leaving \in BOOLEAN
      /\ asked \in 0..MaxCalls
  BY MemoryTypes DEF MemoryInv
<1>2. /\ typed < MaxTyped /\ typed' = typed + 1 /\ panelError' = FALSE /\ panelStatus' = "idle"
      /\ UNCHANGED <<memory, panelBot, requestSequence, calls, flushing, leaving, asked>>
  BY DEF Typed
<1>3. typed' \in 0..MaxTyped /\ typed' # typed
  BY <1>1, <1>2, MemoryNumbers
<1>4. panelError' \in BOOLEAN
  BY <1>2
<1>5. QueueKept
  BY <1>1, <1>2, <1>4 DEF QueueKept, MemoryInv
<1>6. newDraft' \in Texts /\ panel' \in [Item -> ListedItems] /\ Lists(memory, panel')
  <2>1. CASE \E text \in Texts : TypeNew(text)
    BY <1>1, <2>1 DEF TypeNew, MemoryInv
  <2>2. CASE \E i \in Item, text \in Texts : TypeItem(i, text)
    <3>1. PICK i \in Item, text \in Texts : TypeItem(i, text)
      BY <2>2
    <3> DEFINE item == [panel[i] EXCEPT !.draft = text]
    <3>2. panel' = [panel EXCEPT ![i] = item] /\ newDraft' = newDraft
      BY <3>1 DEF TypeItem
    <3>3. /\ item \in ListedItems /\ item.row = panel[i].row
          /\ item.draft = text /\ text # Absent
      BY <1>1, MemoryNumbers DEF ListedItems
    <3> HIDE DEF item
    <3>4. /\ panel' \in [Item -> ListedItems] /\ panel'[i] = item
          /\ \A j \in Item : j # i => panel'[j] = panel[j]
      BY <1>1, <3>2, <3>3
    <3> QED BY <1>1, <3>2, <3>3, <3>4 DEF Lists, MemoryInv
  <2> QED BY <2>1, <2>2
<1> QED BY <1>1, <1>2, <1>3, <1>5, <1>6, RowsStand

\* A call of a button: what it knows of an item is the row that is listed.
LEMMA SendSteps ==
  ASSUME MemoryInv, NEW c \in MemoryCalls, ~c.flush,
         c.kind \in {"update", "delete", "restore"} =>
           c.item \in Item /\ c.seen # NoRow /\ Sees(memory, c.item, c.seen),
         NEW status \in {"loading", "saving"}, Send(c, status)
  PROVE  MemoryInv' /\ memory' = memory /\ leaving' = leaving /\ panel' = panel
<1>1. /\ MemoryTypeOK /\ panel \in [Item -> ListedItems] /\ newDraft \in Texts
      /\ panelBot \in Holder /\ requestSequence \in 0..MaxSwitches /\ typed \in 0..MaxTyped
      /\ calls \in Seq(MemoryCalls) /\ flushing \in Flushes /\ leaving \in BOOLEAN
  BY MemoryTypes DEF MemoryInv
<1>2. /\ Asks /\ calls' = Append(calls, c) /\ panelStatus' = status /\ panelError' = FALSE
      /\ UNCHANGED <<memory, panelBot, panel, newDraft, requestSequence, flushing, leaving, typed>>
  BY DEF Send
<1>3. asked' \in 0..MaxCalls
  BY <1>1, <1>2, AsksTyped
<1>4. panelError' \in BOOLEAN /\ panelStatus' \in {"loading", "saving", "idle"}
  BY <1>2
<1>5. /\ calls' \in Seq(MemoryCalls) /\ Informed(memory, calls') /\ OneFlush(calls', flushing)
  BY <1>1, <1>2, MoreCalls DEF MemoryInv
<1>6. QueueKept
  BY <1>1, <1>2, <1>3, <1>4, <1>5 DEF QueueKept, MemoryInv
<1> QED BY <1>1, <1>2, <1>6, RowsStand DEF MemoryInv

\* The call of an item's button.
LEMMA ItemCallTyped ==
  ASSUME MemoryInv, NEW i \in Item, panel[i].row # NoRow,
         NEW kind \in {"update", "delete", "restore"}
  PROVE  /\ ItemCall(kind, i) \in MemoryCalls /\ ~ItemCall(kind, i).flush
         /\ ItemCall(kind, i).kind = kind /\ ItemCall(kind, i).item = i
         /\ ItemCall(kind, i).seen # NoRow
         /\ Sees(memory, i, ItemCall(kind, i).seen)
<1>1. MemoryTypeOK /\ panel \in [Item -> ListedItems] /\ memory \in [Item -> ItemRows]
      /\ panelBot \in Holder
  BY MemoryTypes DEF MemoryInv
<1>2. panel[i].row = memory[i] /\ memory[i] \in ItemRows /\ i \in 0..MaxItems
  <2>1. i \in 0..MaxItems
    BY MemoryNumbers DEF Item
  <2> QED BY <1>1, <2>1 DEF MemoryInv, Lists
<1>3. /\ NewCall(kind, panelBot) \in MemoryCalls /\ NewCall(kind, panelBot).kind = kind
      /\ ~NewCall(kind, panelBot).flush
  BY <1>1, NewCallTyped
<1> DEFINE c == NewCall(kind, panelBot)
           d == [c EXCEPT !.item = i, !.seen = panel[i].row]
<1> HIDE DEF c
<1>4. d \in MemoryCalls /\ ~d.flush /\ d.kind = kind /\ d.item = i /\ d.seen = memory[i]
  BY <1>2, <1>3 DEF MemoryCalls, c
<1>5. ItemCall(kind, i) = d
  BY DEF ItemCall, c
<1> HIDE DEF d
<1>6. memory[i].version <= memory[i].version
  <2>1. memory[i].version \in Nat
    BY <1>2, MemoryRecords
  <2> QED BY <2>1
<1> QED BY <1>2, <1>4, <1>5, <1>6 DEF Sees

\* The buttons.
LEMMA ButtonSteps ==
  ASSUME MemoryInv,
         \/ \E i \in Item : SaveItem(i) \/ RemoveItem(i) \/ RestoreItem(i)
         \/ AddItem \/ ReloadMemories
  PROVE  MemoryInv' /\ memory' = memory /\ leaving' = leaving /\ panel' = panel
<1>1. /\ MemoryTypeOK /\ panel \in [Item -> ListedItems] /\ newDraft \in Texts
      /\ panelBot \in Holder /\ requestSequence \in 0..MaxSwitches /\ typed \in 0..MaxTyped
      /\ calls \in Seq(MemoryCalls) /\ flushing \in Flushes /\ leaving \in BOOLEAN
      /\ panelError \in BOOLEAN /\ asked \in 0..MaxCalls
  BY MemoryTypes DEF MemoryInv
<1>2. ASSUME NEW i \in Item, SaveItem(i)
      PROVE  MemoryInv' /\ memory' = memory /\ leaving' = leaving /\ panel' = panel
  <2>1. panel[i].row # NoRow /\ panel[i].draft # Absent
    BY <1>2, MemoryRecords DEF SaveItem, Dirty, MemoryInv, Lists
  <2>2. CASE panel[i].draft = 0 /\ Fail
             /\ UNCHANGED <<memory, panelBot, panel, newDraft, requestSequence, calls, flushing,
                            leaving, typed, asked>>
    <3>1. panelError' \in BOOLEAN /\ panelStatus' \in {"loading", "saving", "idle"}
      BY <2>2 DEF Fail
    <3>2. QueueKept
      BY <1>1, <2>2, <3>1 DEF QueueKept, MemoryInv
    <3> QED BY <1>1, <2>2, <3>2, RowsStand DEF MemoryInv
  <2>3. CASE Send([ItemCall("update", i) EXCEPT !.text = panel[i].draft], "saving")
    <3> DEFINE d == ItemCall("update", i)
               c == [d EXCEPT !.text = panel[i].draft]
    <3>1. /\ d \in MemoryCalls /\ ~d.flush /\ d.kind = "update" /\ d.item = i /\ d.seen # NoRow
          /\ Sees(memory, i, d.seen)
      BY <2>1, ItemCallTyped
    <3>2. panel[i].draft \in Texts
      BY <1>1, <2>1 DEF ListedItems
    <3> HIDE DEF d
    <3>3. c \in MemoryCalls /\ ~c.flush /\ c.item = i /\ c.seen = d.seen
      BY <3>1, <3>2 DEF MemoryCalls
    <3>4. Send(c, "saving")
      BY <2>3 DEF d
    <3> HIDE DEF c
    <3> QED BY <3>1, <3>3, <3>4, SendSteps
  <2> QED BY <1>2, <2>2, <2>3 DEF SaveItem
<1>3. ASSUME NEW i \in Item, NEW kind \in {"delete", "restore"}, panel[i].row # NoRow,
             Send(ItemCall(kind, i), "saving")
      PROVE  MemoryInv' /\ memory' = memory /\ leaving' = leaving /\ panel' = panel
  BY <1>3, ItemCallTyped, SendSteps
<1>4. ASSUME NEW i \in Item, RemoveItem(i) \/ RestoreItem(i)
      PROVE  MemoryInv' /\ memory' = memory /\ leaving' = leaving /\ panel' = panel
  <2>1. CASE RemoveItem(i)
    BY <1>3, <2>1, MemoryRecords DEF RemoveItem
  <2>2. CASE RestoreItem(i)
    BY <1>3, <2>2 DEF RestoreItem, NoRow
  <2> QED BY <1>4, <2>1, <2>2
<1>5. CASE AddItem
  <2> DEFINE d == NewCall("create", panelBot)
             c == [d EXCEPT !.text = newDraft]
  <2>1. d \in MemoryCalls /\ ~d.flush /\ d.kind = "create"
    BY <1>1, NewCallTyped
  <2>2. Send(c, "saving")
    BY <1>5 DEF AddItem
  <2> HIDE DEF d
  <2>3. c \in MemoryCalls /\ ~c.flush /\ c.kind = "create"
    BY <1>1, <2>1 DEF MemoryCalls
  <2> HIDE DEF c
  <2> QED BY <2>2, <2>3, SendSteps
<1>6. CASE ReloadMemories
  <2>1. /\ NewCall("reload", panelBot) \in MemoryCalls /\ ~NewCall("reload", panelBot).flush
        /\ NewCall("reload", panelBot).kind = "reload"
    BY <1>1, NewCallTyped
  <2> QED BY <1>6, <2>1, SendSteps DEF ReloadMemories
<1> QED BY <1>2, <1>4, <1>5, <1>6

\* Another Bot is shown.
LEMMA ShowsBotStep ==
  ASSUME MemoryInv, NEW b \in Holder, ShowsBot(b)
  PROVE  MemoryInv' /\ memory' = memory /\ leaving' = FALSE
<1>1. /\ MemoryTypeOK /\ requestSequence \in 0..MaxSwitches /\ typed \in 0..MaxTyped
      /\ calls \in Seq(MemoryCalls) /\ flushing \in Flushes /\ asked \in 0..MaxCalls
  BY MemoryTypes DEF MemoryInv
<1> DEFINE d == NewCall("load", b)
           c == [d EXCEPT !.sequence = requestSequence']
<1>2. /\ leaving' = FALSE /\ panelBot' = b /\ requestSequence < MaxSwitches
      /\ requestSequence' = requestSequence + 1
      /\ panel' = [i \in Item |-> NotListed] /\ newDraft' = 0
      /\ panelStatus' = "loading" /\ panelError' = FALSE
      /\ calls' = Append(calls, c)
      /\ UNCHANGED <<memory, flushing, typed, asked>>
  BY DEF ShowsBot
<1>3. d \in MemoryCalls /\ ~d.flush /\ d.kind = "load"
  BY <1>1, NewCallTyped
<1>4. requestSequence' \in 0..MaxSwitches /\ requestSequence' \in Nat
  BY <1>1, <1>2, MemoryNumbers
<1> HIDE DEF d
<1>5. c \in MemoryCalls /\ ~c.flush /\ c.kind = "load"
  BY <1>3, <1>4 DEF MemoryCalls
<1> HIDE DEF c
<1>6. calls' \in Seq(MemoryCalls) /\ Informed(memory, calls') /\ OneFlush(calls', flushing)
  BY <1>1, <1>2, <1>5, MoreCalls DEF MemoryInv
<1>7. panelError' \in BOOLEAN /\ leaving' \in BOOLEAN
  BY <1>2
<1>8. QueueKept
  BY <1>1, <1>2, <1>6, <1>7 DEF QueueKept, MemoryInv
<1>9. panel' \in [Item -> ListedItems] /\ Lists(memory, panel') /\ newDraft' \in Texts
  BY <1>2, MemoryRecords, MemoryNumbers DEF Lists
<1> QED BY <1>1, <1>2, <1>4, <1>8, <1>9, RowsStand

\* A flush begins.
LEMMA FlushMemoryStep ==
  ASSUME MemoryInv, FlushMemory
  PROVE  /\ MemoryInv' /\ (~leaving /\ leaving' => NothingTyped)
         /\ memory' = memory /\ panel' = panel
<1>1. /\ MemoryTypeOK /\ panel \in [Item -> ListedItems] /\ memory \in [Item -> ItemRows]
      /\ panelBot \in Holder /\ newDraft \in Texts /\ calls \in Seq(MemoryCalls)
      /\ requestSequence \in 0..MaxSwitches /\ typed \in 0..MaxTyped
  BY MemoryTypes DEF MemoryInv
<1>2. /\ UNCHANGED <<memory, panelBot, panel, newDraft, requestSequence, typed>>
      /\ ~flushing.on /\ FlushGoesOn(RowsNow, panelBot, calls)
  BY DEF FlushMemory
<1>3. NoFlushIn(calls)
  BY <1>2 DEF NoFlushIn, OneFlush, MemoryInv
<1>4. /\ memory' \in [Item -> ItemRows] /\ panel' \in [Item -> ListedItems]
      /\ Lists(memory', panel') /\ newDraft' \in Texts /\ Informed(memory', calls)
  BY <1>1, <1>2 DEF MemoryInv
<1>5. RowsNow \in [Item -> ItemRows] /\ \A i \in Item : Sees(memory', i, RowsNow[i])
  <2>1. \A i \in Item : panel'[i].row \in ItemRows /\ RowsNow[i] = panel'[i].row
    BY <1>4 DEF ListedItems, RowsNow
  <2>2. \A i \in Item : Sees(memory', i, panel'[i].row)
    BY <1>4, MemoryRecords DEF Lists, Sees
  <2> QED BY <2>1, <2>2 DEF RowsNow
<1>6. QueueKept /\ (~leaving /\ leaving' => NothingTyped)
  BY <1>1, <1>2, <1>3, <1>4, <1>5, FlushGoes
<1> QED BY <1>1, <1>2, <1>4, <1>6, RowsStand DEF MemoryInv

\* A list answers: the rows of a Bot as they are.
LEMMA ListedStep ==
  ASSUME MemoryInv, Listed
  PROVE  /\ MemoryInv' /\ (~leaving /\ leaving' => NothingTyped)
         /\ memory' = memory /\ ~First({"update"})
<1>1. /\ memory \in [Item -> ItemRows] /\ newDraft \in Texts /\ WithinLimits
  BY MemoryTypes DEF MemoryInv
<1>2. /\ calls # <<>> /\ Head(calls).kind \in {"load", "reload"}
      /\ panel' = Listing(Head(calls).bot) /\ newDraft' \in {0, newDraft} /\ UNCHANGED memory
      /\ Answered
  BY DEF Listed, First
<1>3. ASSUME NEW b
      PROVE  Listing(b) \in [Item -> ListedItems] /\ Lists(memory, Listing(b))
  <2>1. ASSUME NEW i \in Item
        PROVE  /\ Listing(b)[i] \in ListedItems
               /\ Listing(b)[i].row \in {NoRow, memory[i]}
               /\ Kept(Listing(b)[i].row) => Listing(b)[i].draft # Absent
    <3>1. Listing(b)[i] = IF memory[i].bot = b THEN [row |-> memory[i], draft |-> memory[i].text]
                          ELSE NotListed
      BY DEF Listing
    <3>2. memory[i] \in ItemRows /\ memory[i].text \in Texts
      BY <1>1, MemoryRecords
    <3>3. CASE memory[i].bot = b
      BY <3>1, <3>2, <3>3, MemoryNumbers DEF ListedItems
    <3>4. CASE memory[i].bot # b
      BY <3>1, <3>4, MemoryRecords
    <3> QED BY <3>3, <3>4
  <2>2. Listing(b) = [i \in Item |-> Listing(b)[i]]
    BY DEF Listing
  <2> QED BY <2>1, <2>2 DEF Lists
<1>4. /\ panel' \in [Item -> ListedItems] /\ Lists(memory', panel') /\ Grows(memory, memory')
      /\ memory' \in [Item -> ItemRows] /\ newDraft' \in Texts
  BY <1>1, <1>2, <1>3, MemoryNumbers DEF Grows
<1>5. WithinLimits'
  BY <1>1, <1>2 DEF WithinLimits, KeptOf
<1>6. ~First({"update"})
  BY <1>2 DEF First
<1> QED BY <1>2, <1>4, <1>5, <1>6, AnsweredStep

\* A list that comes late is dropped; a call fails, and the flush that awaited it.
LEMMA DroppingSteps ==
  ASSUME MemoryInv, ListOvertaken \/ CallFails
  PROVE  MemoryInv' /\ memory' = memory /\ leaving' = leaving /\ panel' = panel
<1>1. /\ MemoryTypeOK /\ panel \in [Item -> ListedItems] /\ newDraft \in Texts
      /\ panelBot \in Holder /\ requestSequence \in 0..MaxSwitches /\ typed \in 0..MaxTyped
      /\ calls \in Seq(MemoryCalls) /\ flushing \in Flushes /\ leaving \in BOOLEAN
      /\ panelError \in BOOLEAN /\ asked \in 0..MaxCalls
      /\ panelStatus \in {"loading", "saving", "idle"}
  BY MemoryTypes DEF MemoryInv
<1>2. calls # <<>> /\ calls' = Tail(calls)
      /\ UNCHANGED <<memory, panelBot, panel, newDraft, requestSequence, leaving, typed, asked>>
  BY DEF ListOvertaken, CallFails
<1>3. /\ Tail(calls) \in Seq(MemoryCalls)
      /\ Informed(memory, Tail(calls)) /\ OneFlush(Tail(calls), flushing)
      /\ Head(calls).flush => NoFlushIn(Tail(calls))
  BY <1>1, <1>2, QueueShrinks, RestOfCalls DEF MemoryInv
<1>4. flushing' = flushing \/ (flushing' = NoFlush /\ NoFlushIn(Tail(calls)))
  BY <1>3 DEF ListOvertaken, CallFails
<1>5. /\ flushing' \in Flushes /\ OneFlush(Tail(calls), flushing')
      /\ \A i \in Item : Sees(memory, i, flushing'.items[i])
  <2>1. CASE flushing' = flushing
    BY <1>1, <1>3, <2>1 DEF MemoryInv
  <2>2. CASE flushing' = NoFlush /\ NoFlushIn(Tail(calls))
    BY <2>2, MemoryRecords DEF OneFlush, NoFlushIn, Sees
  <2> QED BY <1>4, <2>1, <2>2
<1>6. panelError' \in BOOLEAN /\ panelStatus' \in {"loading", "saving", "idle"}
  <2>1. CASE ListOvertaken
    BY <1>1, <2>1 DEF ListOvertaken
  <2>2. CASE CallFails
    BY <2>2 DEF CallFails, Fail
  <2> QED BY <2>1, <2>2
<1>7. QueueKept
  BY <1>1, <1>2, <1>3, <1>5, <1>6 DEF QueueKept
<1> QED BY <1>1, <1>2, <1>7, RowsStand DEF MemoryInv

\* The initial states.
LEMMA MemoryInitially ==
  ASSUME MemoryInit
  PROVE  MemoryInv
<1> DEFINE first == [bot |-> panelBot, text |-> 1, version |-> 1, state |-> "kept"]
           load == NewCall("load", panelBot)
<1>1. /\ panelBot \in Holder
      /\ memory = [i \in Item |-> IF i = 1 THEN first ELSE NoRow]
      /\ panel = [i \in Item |-> NotListed] /\ newDraft = 0
      /\ panelStatus = "loading" /\ panelError = FALSE /\ requestSequence = 0
      /\ calls = <<load>> /\ flushing = NoFlush /\ leaving = FALSE /\ typed = 0 /\ asked = 0
  BY DEF MemoryInit
<1>2. first \in ItemRows
  BY <1>1, MemoryNumbers DEF ItemRows
<1>3. load \in MemoryCalls /\ load.kind = "load" /\ ~load.flush
  BY <1>1, MemoryNumbers, MemoryRecords DEF NewCall, MemoryCalls
<1> HIDE DEF first, load
<1>4. memory \in [Item -> ItemRows]
  BY <1>1, <1>2, MemoryRecords
<1>5. WithinLimits
  <2>1. ASSUME NEW b \in Holder
        PROVE  Cardinality(KeptOf(b)) <= MaxKept /\ \A i, j \in KeptOf(b) : i = j
    <3>1. KeptOf(b) \in SUBSET {1}
      BY <1>1, MemoryRecords DEF KeptOf
    <3>2. IsFiniteSet({1}) /\ Cardinality({1}) = 1
      BY FS_Singleton
    <3>3. IsFiniteSet(KeptOf(b)) /\ Cardinality(KeptOf(b)) <= 1
      BY <3>1, <3>2, FS_Subset
    <3>4. Cardinality(KeptOf(b)) \in Nat
      BY <3>3, FS_CardinalityType
    <3> QED BY <3>1, <3>3, <3>4, MemoryNumbers
  <2> QED BY <2>1 DEF WithinLimits
<1>6. /\ calls \in Seq(MemoryCalls) /\ Len(calls) = 1 /\ calls[1] = load
  BY <1>1, <1>3
<1>7. Informed(memory, calls) /\ OneFlush(calls, flushing)
  BY <1>1, <1>3, <1>6, MemoryRecords DEF Informed, OneFlush
<1>8. panel \in [Item -> ListedItems] /\ Lists(memory, panel)
  BY <1>1, MemoryRecords DEF Lists
<1>9. flushing \in Flushes /\ \A i \in Item : Sees(memory, i, flushing.items[i])
  BY <1>1, MemoryRecords DEF Sees
<1>10. MemoryTypeOK
  <2>1. requestSequence \in 0..MaxSwitches /\ typed \in 0..MaxTyped /\ asked \in 0..MaxCalls
        /\ newDraft \in Texts
    BY <1>1, MemoryNumbers
  <2>2. panelError \in BOOLEAN /\ leaving \in BOOLEAN
    BY <1>1
  <2> QED BY <1>1, <1>4, <1>5, <1>6, <1>8, <1>9, <2>1, <2>2, MemoryTypes
<1> QED BY <1>7, <1>8, <1>9, <1>10 DEF MemoryInv

\* Every step: the invariant, what a flush that succeeds has done, whom an edit comes from,
\* and what an answer leaves of what is typed.
LEMMA MemorySteps ==
  ASSUME MemoryInv, [MemoryNext]_memoryVars
  PROVE  /\ MemoryInv'
         /\ ~leaving /\ leaving' => NothingTyped
         /\ \A i \in Item :
              /\ memory[i] # NoRow /\ memory'[i] # memory[i] => Head(calls).seen = memory[i]
              /\ panel'[i].draft # panel[i].draft /\ panelBot' = panelBot /\ typed' = typed
                   /\ First({"update"}) => panel[i].draft \in {Head(calls).text, Absent}
<1>1. leaving \in BOOLEAN
  BY DEF MemoryInv, MemoryTypeOK
<1>2. CASE UNCHANGED memoryVars
  BY <1>2 DEF MemoryInv, MemoryTypeOK, KeptOf, memoryVars
<1>3. CASE \/ \E text \in Texts : TypeNew(text)
           \/ \E i \in Item, text \in Texts : TypeItem(i, text)
  <2>1. Typed
    BY <1>3 DEF TypeNew, TypeItem
  <2> QED BY <1>3, <2>1, TypingSteps
<1>4. CASE \/ \E i \in Item : SaveItem(i) \/ RemoveItem(i) \/ RestoreItem(i)
           \/ AddItem \/ ReloadMemories
  BY <1>4, ButtonSteps
<1>5. CASE \E b \in Holder : ShowsBot(b)
  <2>1. panelBot' # panelBot
    BY <1>5 DEF ShowsBot
  <2> QED BY <1>5, <2>1, ShowsBotStep
<1>6. CASE FlushMemory
  BY <1>6, FlushMemoryStep
<1>7. CASE ItemSaved \/ ItemMoved \/ ItemCreated
  BY <1>7, ItemSteps
<1>8. CASE Listed
  BY <1>8, ListedStep
<1>9. CASE ListOvertaken \/ CallFails
  BY <1>9, DroppingSteps
<1> QED BY <1>2, <1>3, <1>4, <1>5, <1>6, <1>7, <1>8, <1>9 DEF MemoryNext

\* The invariant holds of every state: among others the limits of a Bot's memory, that no
\* two of its memories are alike, and that the panel has an item as it is in the database.
THEOREM MemoryInvHolds == MemorySpec => []MemoryInv
<1>1. MemoryInit => MemoryInv
  BY MemoryInitially
<1>2. MemoryInv /\ [MemoryNext]_memoryVars => MemoryInv'
  BY MemorySteps
<1> QED BY <1>1, <1>2, PTL DEF MemorySpec

\* A memory is changed only by a call of someone who saw it as it was (updateMemory,
\* deleteMemory and restoreMemory compare the versions), and what is typed into an item
\* outlives the answer of a save (saveItem replaces a draft only if it is what was sent).
THEOREM EditsAreInformed == MemorySpec => EditsKnowMemory
<1>1. MemoryInv /\ [MemoryNext]_memoryVars =>
        [\A i \in Item :
           /\ (memory[i] # NoRow /\ memory'[i] # memory[i]) => Head(calls).seen = memory[i]
           /\ (/\ panel'[i].draft # panel[i].draft
               /\ panelBot' = panelBot /\ typed' = typed
               /\ First({"update"}))
                => panel[i].draft \in {Head(calls).text, Absent}]_memoryVars
  BY MemorySteps
<1> QED BY <1>1, MemoryInvHolds, PTL DEF MemorySpec, EditsKnowMemory

\* A flush that succeeds has stored all that is shown, as it is shown (flushAll), although
\* items were typed into, answered and listed anew while it awaited its calls.
THEOREM MemoryIsStored == MemorySpec => FlushStores
<1>1. MemoryInv /\ [MemoryNext]_memoryVars =>
        [(~leaving /\ leaving')
           => /\ newDraft' = 0
              /\ \A i \in Item : panel'[i].row # NoRow
                   => panel'[i].row = memory'[i] /\ ~Dirty(panel', i)]_memoryVars
  <2>1. ASSUME MemoryInv, [MemoryNext]_memoryVars, ~leaving, leaving'
        PROVE  /\ newDraft' = 0
               /\ \A i \in Item : panel'[i].row # NoRow
                    => panel'[i].row = memory'[i] /\ ~Dirty(panel', i)
    <3>1. MemoryInv' /\ NothingTyped
      BY <2>1, MemorySteps
    <3> QED BY <3>1 DEF NothingTyped, MemoryInv, Lists
  <2> QED BY <2>1
<1> QED BY <1>1, MemoryInvHolds, PTL DEF MemorySpec, FlushStores

----------------------------------------------------------------------------
(***************************************************************************)
(* The window as a whole (MCWindow): each part behaves as its own          *)
(* specification says while the others move, so that what was proved of    *)
(* the parts is true of the whole.                                         *)
(***************************************************************************)

\* A step of the window is a step of one part, which the others do not notice.
LEMMA OnePartMoves ==
  ASSUME Next
  PROVE  \/ ViewNext /\ UNCHANGED <<editorVars, providerVars, memoryVars>>
         \/ EditorNext /\ UNCHANGED <<viewVars, providerVars, memoryVars>>
         \/ ProviderNext /\ UNCHANGED <<viewVars, editorVars, memoryVars>>
         \/ MemoryNext /\ UNCHANGED <<viewVars, editorVars, providerVars>>
<1>1. CASE ViewMoves
  <2>1. ViewNext
    BY <1>1 DEF ViewMoves, ViewStep, Moves, ViewNext
  <2>2. UNCHANGED <<editorVars, providerVars, memoryVars>>
    BY <1>1 DEF ViewMoves, ViewStep, Moves
  <2> QED BY <2>1, <2>2
<1>2. CASE EditorMoves
  <2>1. EditorNext
    BY <1>2 DEF EditorMoves, EditorStep, Moves, EditorNext
  <2>2. UNCHANGED <<viewVars, providerVars, memoryVars>>
    BY <1>2 DEF EditorMoves, EditorStep, Moves
  <2> QED BY <2>1, <2>2
<1>3. CASE ProviderMoves
  <2>1. ProviderNext
    BY <1>3 DEF ProviderMoves, ProviderStep, Moves, ProviderNext
  <2>2. UNCHANGED <<viewVars, editorVars, memoryVars>>
    BY <1>3 DEF ProviderMoves, ProviderStep, Moves
  <2> QED BY <2>1, <2>2
<1>4. CASE MemoryMoves
  <2>1. MemoryNext
    BY <1>4 DEF MemoryMoves, MemoryStep, Moves, MemoryNext
  <2>2. UNCHANGED <<viewVars, editorVars, providerVars>>
    BY <1>4 DEF MemoryMoves, MemoryStep, Moves
  <2> QED BY <2>1, <2>2
<1> QED BY <1>1, <1>2, <1>3, <1>4 DEF Next

\* Every part of the window is as it would be alone.
THEOREM WindowHasItsParts == Spec => ViewSpec /\ EditorSpec /\ ProviderSpec /\ MemorySpec
<1>1. Init => ViewInit /\ EditorInit /\ ProviderInit /\ MemoryInit
  BY DEF Init
<1>2. [Next]_vars => /\ [ViewNext]_viewVars /\ [EditorNext]_editorVars
                     /\ [ProviderNext]_providerVars /\ [MemoryNext]_memoryVars
  <2>1. CASE Next
    BY <2>1, OnePartMoves
  <2>2. CASE UNCHANGED vars
    BY <2>2 DEF vars
  <2> QED BY <2>1, <2>2
<1> QED BY <1>1, <1>2, PTL DEF Spec, ViewSpec, EditorSpec, ProviderSpec, MemorySpec

\* Every variable of the window keeps its type; the Memory of a Bot stays within its limits.
THEOREM WindowTypeCorrect == Spec => []WindowTypeOK
<1>1. ViewInv /\ EditorInv /\ ProviderInv /\ MemoryInv => WindowTypeOK
  BY DEF ViewInv, EditorInv, ProviderInv, MemoryInv, WindowTypeOK
<1> QED BY <1>1, WindowHasItsParts, InvHolds, EditorInvHolds, ProviderInvHolds, MemoryInvHolds,
           PTL

\* In the window as a whole, too, the conversation on screen is the one of the main process
\* once its events are delivered, and never goes back.
THEOREM WindowShowsTheChat == Spec => []ViewFollows /\ ViewNeverGoesBack
BY WindowHasItsParts, WindowFollows, ScreenNeverGoesBack, PTL

\* A flush that says it is done has stored what was typed, in the profile's row (saveCurrent)
\* and in the Memory's (flushAll).
THEOREM FlushesKeepAll == Spec => FlushKeepsAll
<1>1. EditorSpec /\ MemorySpec => FlushSaves /\ FlushStores
  BY ProfileIsSaved, MemoryIsStored
<1> QED BY <1>1, WindowHasItsParts DEF FlushKeepsAll

\* A run keeps the provider it was made for (ProviderService refuses to save under a run), and
\* a memory is edited only by who saw it as it is.
THEOREM NothingChanges == Spec => NothingChangesUnderneath
<1>1. ProviderSpec /\ MemorySpec => RunKeepsProvider /\ EditsKnowMemory
  BY ProviderKept, EditsAreInformed
<1> QED BY <1>1, WindowHasItsParts DEF NothingChangesUnderneath
=============================================================================
