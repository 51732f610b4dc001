------------------------------ MODULE MCWindow ------------------------------
(***************************************************************************)
(* What the window shows and edits, on small instances: the conversation,  *)
(* a Bot's profile, its Memory, and the settings of a provider.  The parts *)
(* share no variable (the profile's flush asks the Memory panel's, which   *)
(* answers either way), so each is explored while the others rest: focus   *)
(* is the one that moves, from all of its initial states.                  *)
(***************************************************************************)
EXTENDS RendererView, ProfileEditor, ProviderService, MemoryPanel

VARIABLE focus

vars == <<focus, viewVars, editorVars, providerVars, memoryVars>>

Resting(part, state) == focus = part \/ state

Init ==
  /\ focus \in {"view", "editor", "provider", "memory"}
  /\ ViewInit
  /\ EditorInit   /\ Resting("editor", selected.bot = CHOOSE b \in Owner : TRUE)
  /\ ProviderInit /\ Resting("provider", signedIn)
  /\ MemoryInit   /\ Resting("memory", panelBot = CHOOSE b \in Holder : TRUE)

Moves(part, action, others) == focus = part /\ action /\ UNCHANGED <<focus, others>>

ViewStep(action) == Moves("view", action, <<editorVars, providerVars, memoryVars>>)
EditorStep(action) == Moves("editor", action, <<viewVars, providerVars, memoryVars>>)
ProviderStep(action) == Moves("provider", action, <<viewVars, editorVars, memoryVars>>)
MemoryStep(action) == Moves("memory", action, <<viewVars, editorVars, providerVars>>)

ViewMoves ==
  \/ \E c \in Chat, r \in Runs : ViewStep(RunChanges(c, r))
  \/ \E c \in Chat :
       \/ ViewStep(ToolChanges(c))
       \/ ViewStep(OpenChat(c))
       \/ ViewStep(OpenChatAtOnce(c))
       \/ ViewStep(RemoveChat(c))
  \/ ViewStep(Delivers)
  \/ ViewStep(RemovalAnswers)
  \/ ViewStep(RemovalEnds)
  \/ \E n \in 1..MaxOpens, flushed \in BOOLEAN : ViewStep(FlushAnswers(n, flushed))
  \/ \E n \in 1..MaxOpens, r \in Reads : ViewStep(ReadAnswers(n, r))
  \/ \E n \in 1..MaxOpens :
       \/ ViewStep(SessionAnswers(n))
       \/ ViewStep(LoadEnds(n))
       \/ ViewStep(LoadFails(n))
       \/ ViewStep(LoadOvertaken(n))

EditorMoves ==
  \/ \E field \in {"name", "text"} : EditorStep(Type(field))
  \/ EditorStep(TimerFires)
  \/ EditorStep(EditCommits)
  \/ EditorStep(SaveAnswered)
  \/ EditorStep(SaveRefused)
  \/ \E b \in Owner : EditorStep(StartOpen(b))
  \/ \E b \in Owner : EditorStep(StartRename(b))
  \/ EditorStep(StartTask("select", selected.bot, "profile"))
  \/ EditorStep(StartTask("pick", selected.bot, "go"))
  \/ EditorStep(FlushEditor)
  \/ EditorStep(FlushEnds)
  \/ EditorStep(BotOpens)
  \/ EditorStep(CallCommits)
  \/ EditorStep(CallAnswered)

ProviderMoves ==
  \/ ProviderStep(SignIn)
  \/ ProviderStep(list)
  \/ ProviderStep(refresh)
  \/ ProviderStep(Save)
  \/ ProviderStep(RunCreated)
  \/ ProviderStep(RunDispatched)
  \/ ProviderStep(RunOver)
  \/ \E n \in 1..MaxLookups :
       \/ ProviderStep(Inspects(n))
       \/ ProviderStep(Inspected(n))
       \/ ProviderStep(Described(n))

MemoryMoves ==
  \/ \E text \in Texts : MemoryStep(TypeNew(text))
  \/ \E i \in Item :
       \/ \E text \in Texts : MemoryStep(TypeItem(i, text))
       \/ MemoryStep(SaveItem(i))
       \/ MemoryStep(RemoveItem(i))
       \/ MemoryStep(RestoreItem(i))
  \/ MemoryStep(AddItem)
  \/ MemoryStep(ReloadMemories)
  \/ MemoryStep(FlushMemory)
  \/ \E b \in Holder : MemoryStep(ShowsBot(b))
  \/ MemoryStep(ItemSaved)
  \/ MemoryStep(ItemMoved)
  \/ MemoryStep(ItemCreated)
  \/ MemoryStep(Listed)
  \/ MemoryStep(ListOvertaken)
  \/ MemoryStep(CallFails)

Next == ViewMoves \/ EditorMoves \/ ProviderMoves \/ MemoryMoves

Spec == Init /\ [][Next]_vars

\* Every variable of the part that moves keeps its type.
WindowTypeOK ==
  /\ focus = "view" => ViewTypeOK
  /\ focus = "editor" => EditorTypeOK
  /\ focus = "provider" => ProviderTypeOK
  /\ focus = "memory" => MemoryTypeOK

\* A flush that says it is done has stored what was typed, in the profile's row and in the
\* Memory's.
FlushKeepsAll == FlushSaves /\ FlushStores

\* What an action relies on is not changed underneath it: the provider of a run until the
\* run is over, a memory between its being shown and its being edited.
NothingChangesUnderneath == RunKeepsProvider /\ EditsKnowMemory
=============================================================================
