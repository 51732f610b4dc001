---------------------------- MODULE ProfileEditor ----------------------------
(***************************************************************************)
(* The editor of a Bot's profile (ProfileInspector.tsx), which saves what  *)
(* is typed after a pause and whenever the window asks for a flush, and    *)
(* the other places that change the same row: renameBot of the sidebar,    *)
(* the model picker of the header, and the selections of the inspector     *)
(* itself (model, MCP servers, workspaces).  database.ts updateBot accepts *)
(* a change only against the row's version.                                *)
(*                                                                         *)
(* One editor serves every Bot, one after the other.  A profile is its     *)
(* name and its text (label, description and instructions); a value is the *)
(* number of the edit that made it, 0 what was there at the start.  One    *)
(* task at a time changes or opens a Bot; overlapping opens are in         *)
(* RendererView, the Memory panel in MemoryPanel.                          *)
(***************************************************************************)
EXTENDS Naturals

CONSTANTS
  Owner,      \* the Bots
  MaxEdits,   \* bound: edits and renames
  MaxTasks    \* bound: renames, picks and opened Bots

ASSUME EditorBounds == MaxEdits \in Nat /\ MaxTasks \in Nat

VARIABLES
  profile,    \* the rows of bots: name, text, version
  listed,     \* the Bots as the window's list has them
  selected,   \* selectedBot: a Bot and its row as the window last had it
  draft,      \* draftRef
  saved,      \* savedRef
  known,      \* versionRef
  timer,      \* timerRef is set
  saving,     \* the update under way, and what savePromiseRef waiters do next
  task,       \* openBot, renameBot or the model picker, and what it awaits
  tasks,      \* how many there have been
  edits,      \* how many edits there have been
  began,      \* history: the text the editor began to show its Bot with
  home,       \* history: the Bot each edit was made for
  writer      \* history: who changed each row last

editorVars == <<profile, listed, selected, draft, saved, known, timer, saving, task, tasks,
                edits, began, home, writer>>

Rows == [name : 0..MaxEdits, text : 0..MaxEdits, version : Nat]
Drafts == [name : 0..MaxEdits, text : 0..MaxEdits]

NoSave == [bot |-> "none", version |-> 0, sent |-> [name |-> 0, text |-> 0],
           state |-> "none", again |-> FALSE]
NoTask == [kind |-> "none", bot |-> "none", seen |-> [name |-> 0, text |-> 0, version |-> 0],
           step |-> "none", name |-> 0]

EditorTypeOK ==
  /\ profile \in [Owner -> Rows] /\ listed \in [Owner -> Rows]
  /\ selected \in [bot : Owner, row : Rows]
  /\ draft \in Drafts /\ saved \in Drafts /\ known \in Nat
  /\ timer \in BOOLEAN
  /\ saving \in [bot : Owner \cup {"none"}, version : Nat, sent : Drafts,
                 state : {"none", "sent", "done", "refused"}, again : BOOLEAN]
  /\ task \in [kind : {"none", "open", "rename", "pick", "select"}, bot : Owner \cup {"none"},
               seen : Rows, step : {"none", "profile", "memory", "go", "done", "refused"},
               name : 0..MaxEdits]
  /\ tasks \in 0..MaxTasks /\ edits \in 0..MaxEdits
  /\ began \in 0..MaxEdits
  /\ home \in [1..MaxEdits -> Owner \cup {"none"}]
  /\ writer \in [Owner -> {"none", "editor", "other"}]

toDraft(row) == [name |-> row.name, text |-> row.text]

EditorInit ==
  /\ profile = [b \in Owner |-> [name |-> 0, text |-> 0, version |-> 1]]
  /\ listed = profile
  /\ \E b \in Owner : selected = [bot |-> b, row |-> profile[b]]
  /\ draft = [name |-> 0, text |-> 0] /\ saved = draft /\ known = 1
  /\ timer = FALSE /\ saving = NoSave /\ task = NoTask /\ tasks = 0
  /\ edits = 0 /\ began = 0 /\ home = [e \in 1..MaxEdits |-> "none"]
  /\ writer = [b \in Owner |-> "none"]

----------------------------------------------------------------------------
(***************************************************************************)
(* The row, and how its changes come back to the window.                   *)
(***************************************************************************)

Accepted(b, version) == profile[b].version = version

\* updateBot of database.ts: the change, under the next version
updateRow(b, row, who) ==
  /\ profile' = [profile EXCEPT ![b] = [row EXCEPT !.version = @ + 1]]
  /\ writer' = [writer EXCEPT ![b] = who]

\* updateBot of App.tsx.  The effect of ProfileInspector on the same Bot takes over the
\* version, and leaves the draft alone.
ShowUpdated(b, row) ==
  /\ listed' = [listed EXCEPT ![b] = row]
  /\ selected' = IF selected.bot = b THEN [selected EXCEPT !.row = row] ELSE selected

\* The effect of ProfileInspector for another Bot, and for the same one.
SwitchEditor(b, row) ==
  IF b = selected.bot
    THEN known' = row.version /\ UNCHANGED <<draft, saved, timer, began>>
    ELSE /\ known' = row.version
         /\ draft' = toDraft(row) /\ saved' = toDraft(row)
         /\ timer' = FALSE /\ began' = row.text

----------------------------------------------------------------------------
(***************************************************************************)
(* Typing and saving.                                                      *)
(***************************************************************************)

Edited(b) == edits < MaxEdits /\ edits' = edits + 1 /\ home' = [home EXCEPT ![edits + 1] = b]

Type(field) ==
  /\ Edited(selected.bot)
  /\ draft' = [draft EXCEPT ![field] = edits + 1]
  /\ timer' = TRUE
  /\ UNCHANGED <<profile, listed, selected, saved, known, saving, task, tasks, writer, began>>

\* saveCurrent: the Bot, the version and the draft are read together, before the await.
SaveCurrent ==
  IF draft = saved THEN UNCHANGED saving
  ELSE IF saving.state = "none"
    THEN saving' = [NoSave EXCEPT !.bot = selected.bot, !.version = known, !.sent = draft,
                                  !.state = "sent"]
    ELSE saving' = [saving EXCEPT !.again = TRUE]

\* the pause is over, or the field lost its focus
TimerFires ==
  /\ timer
  /\ timer' = FALSE
  /\ SaveCurrent
  /\ UNCHANGED <<profile, listed, selected, draft, saved, known, task, tasks, edits, home,
                 writer, began>>

EditCommits ==
  /\ saving.state = "sent"
  /\ \/ /\ Accepted(saving.bot, saving.version)
        /\ updateRow(saving.bot, [name |-> saving.sent.name, text |-> saving.sent.text,
                                  version |-> saving.version], "editor")
        /\ saving' = [saving EXCEPT !.state = "done"]
     \/ saving' = [saving EXCEPT !.state = "refused"] /\ UNCHANGED <<profile, writer>>
  /\ UNCHANGED <<listed, selected, draft, saved, known, timer, task, tasks, edits, home, began>>

\* The answer, taken over whichever Bot the editor has by now.  A saveCurrent that waited
\* for it looks again.
SaveAnswered ==
  /\ saving.state = "done"
  /\ known' = saving.version + 1
  /\ saved' = saving.sent
  /\ ShowUpdated(saving.bot, [name |-> saving.sent.name, text |-> saving.sent.text,
                              version |-> saving.version + 1])
  /\ saving' = IF saving.again /\ draft # saved'
                 THEN [NoSave EXCEPT !.bot = selected.bot, !.version = known', !.sent = draft,
                                     !.state = "sent"]
                 ELSE NoSave
  /\ UNCHANGED <<profile, draft, timer, task, tasks, edits, home, writer, began>>

Waiting == task.step = "profile"

\* a refused save fails every flush that waits for it
SaveRefused ==
  /\ saving.state = "refused"
  /\ saving' = NoSave
  /\ task' = IF Waiting THEN NoTask ELSE task
  /\ UNCHANGED <<profile, listed, selected, draft, saved, known, timer, tasks, edits, home,
                 writer, began>>

----------------------------------------------------------------------------
(***************************************************************************)
(* openBot, renameBot, the picker and the selections.  All flush but the   *)
(* picker, and renameBot of a Bot that is not selected.                    *)
(***************************************************************************)

StartTask(kind, b, step) ==
  /\ task = NoTask /\ tasks < MaxTasks
  /\ tasks' = tasks + 1
  /\ task' = [NoTask EXCEPT !.kind = kind, !.bot = b, !.seen = listed[b], !.step = step]
  /\ UNCHANGED <<profile, listed, selected, draft, saved, known, timer, saving, edits, home,
                 writer, began>>

StartOpen(b) == StartTask("open", b, "profile")
StartRename(b) == StartTask("rename", b, IF b = selected.bot THEN "profile" ELSE "memory")

\* Mutant: a flush that finds a save under way is content with that one.
FlushOnce ==
  /\ Waiting /\ saving.state = "none"
  /\ timer' = FALSE
  /\ task' = [task EXCEPT !.step = "memory"]
  /\ UNCHANGED <<profile, listed, selected, draft, saved, known, saving, tasks, edits, home,
                 writer, began>>

\* flush saves until nothing differs, and then asks the Memory panel.
FlushEditor ==
  /\ Waiting /\ saving.state = "none"
  /\ timer' = FALSE
  /\ IF draft = saved THEN task' = [task EXCEPT !.step = "memory"] /\ UNCHANGED saving
     ELSE SaveCurrent /\ UNCHANGED task
  /\ UNCHANGED <<profile, listed, selected, draft, saved, known, tasks, edits, home, writer,
                 began>>

\* The Memory panel may refuse, and an open that fails later ends alike.  renameBot reads
\* the row again before it calls; a selection goes by the editor's version.
FlushEnds ==
  /\ task.step = "memory"
  /\ \/ task' = NoTask
     \/ task' = [task EXCEPT !.step = "go",
                             !.seen = CASE task.kind = "rename" -> profile[task.bot]
                                        [] task.kind = "select" -> [@ EXCEPT !.version = known]
                                        [] OTHER -> @]
  /\ UNCHANGED <<profile, listed, selected, draft, saved, known, timer, saving, tasks, edits,
                 home, writer, began>>

\* the Bot that was clicked, as the list had it at the click
BotOpens ==
  /\ task.kind = "open" /\ task.step = "go"
  /\ task' = NoTask
  /\ selected' = [bot |-> task.bot, row |-> task.seen]
  /\ SwitchEditor(task.bot, task.seen)
  /\ UNCHANGED <<profile, listed, saving, tasks, edits, home, writer>>

\* renameBot changes the name only; the others change neither name nor text.
CallCommits ==
  /\ task.kind # "open" /\ task.step = "go"
  /\ \/ /\ Accepted(task.bot, task.seen.version)
        /\ IF task.kind = "rename"
             THEN /\ Edited(task.bot)
                  /\ updateRow(task.bot, [profile[task.bot] EXCEPT !.name = edits + 1], "other")
                  /\ task' = [task EXCEPT !.step = "done", !.name = edits + 1,
                                          !.seen = profile'[task.bot]]
             ELSE /\ updateRow(task.bot, profile[task.bot], "other")
                  /\ task' = [task EXCEPT !.step = "done", !.seen = profile'[task.bot]]
                  /\ UNCHANGED <<edits, home>>
     \/ task' = NoTask /\ UNCHANGED <<profile, edits, home, writer>>
  /\ UNCHANGED <<listed, selected, draft, saved, known, timer, saving, tasks, began>>

CallAnswered ==
  /\ task.step = "done"
  /\ task' = NoTask
  /\ ShowUpdated(task.bot, task.seen)
  /\ known' = IF selected.bot = task.bot THEN task.seen.version ELSE known
  /\ UNCHANGED <<profile, draft, saved, timer, saving, tasks, edits, home, writer, began>>

----------------------------------------------------------------------------

EditorNext ==
  \/ \E field \in {"name", "text"} : Type(field)
  \/ TimerFires \/ EditCommits \/ SaveAnswered \/ SaveRefused
  \/ \E b \in Owner : StartOpen(b) \/ StartRename(b)
  \/ StartTask("select", selected.bot, "profile")
  \/ StartTask("pick", selected.bot, "go")
  \/ FlushEditor \/ FlushEnds \/ BotOpens \/ CallCommits \/ CallAnswered

EditorSpec == EditorInit /\ [][EditorNext]_editorVars

----------------------------------------------------------------------------

\* A flush goes on only when the text typed since the editor began to show its Bot is in the
\* row of that Bot; what is typed for one Bot never reaches the row of another.
FlushSaves ==
  [][/\ Waiting /\ task'.step = "memory" /\ draft.text # began
          => draft.text = profile[selected.bot].text
     /\ \A b \in Owner :
          profile'[b].text \notin {0, profile[b].text} => home[profile'[b].text] = b]_editorVars

\* Claim not kept: a Bot is opened with the text that is stored for it, as the editor says.
SavedIsShown ==
  [][BotOpens /\ task.bot # selected.bot
       => draft'.text = profile[task.bot].text]_editorVars

\* Claim not kept: a save of the editor is refused for its version only if something else
\* has changed the Bot since the editor's last save.
ConflictMeansElsewhere ==
  (saving.state = "sent" /\ ~Accepted(saving.bot, saving.version))
    => writer[saving.bot] = "other"

\* Claim not kept: the editor never puts back a name that has been replaced since.
RenameSurvives ==
  [][\A b \in Owner : profile'[b].name >= profile[b].name]_editorVars
=============================================================================
