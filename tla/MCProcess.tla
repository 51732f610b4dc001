------------------------------ MODULE MCProcess ------------------------------
(***************************************************************************)
(* The main process around the runs, on small instances: its start, its    *)
(* life with the updater, MCP, and what the drivers do.  These parts share *)
(* no state, so each is explored while the others rest: focus is the one   *)
(* that moves, from all of its initial states.                             *)
(***************************************************************************)
EXTENDS AppLifecycle, McpService, ProviderRun, AppStartup

VARIABLE focus

vars == <<focus, lifeVars, mcpVars, streamVars, startupVars>>

Resting(part, state) == focus = part \/ state

Init ==
  /\ focus \in {"life", "mcp", "stream", "startup"}
  /\ LifeInit   /\ Resting("life", window = "shown")
  /\ McpInit    /\ Resting("mcp", ~server.enabled /\ credentials = "none")
  /\ StreamInit /\ Resting("stream", driver = "http" /\ ~tools)
  /\ StartupInit

LifeStep(action) ==
  focus = "life" /\ action /\ UNCHANGED <<focus, mcpVars, streamVars, startupVars>>
McpStep(action) ==
  focus = "mcp" /\ action /\ UNCHANGED <<focus, lifeVars, streamVars, startupVars>>
DriverStep(action) ==
  focus = "stream" /\ action /\ UNCHANGED <<focus, lifeVars, mcpVars, startupVars>>
StartupStep(action) ==
  focus = "startup" /\ action /\ UNCHANGED <<focus, lifeVars, mcpVars, streamVars>>

LifeMoves ==
  \/ LifeStep(CloseWindow)
  \/ LifeStep(Quit)
  \/ LifeStep(Reload)
  \/ LifeStep(PageReady)
  \/ \E canClose \in BOOLEAN : LifeStep(Confirm(canClose))
  \/ LifeStep(ConfirmationTimesOut)
  \/ LifeStep(ShutdownEnds)
  \/ LifeStep(ShutdownFails)
  \/ LifeStep(ClickRestart)
  \/ LifeStep(RestartSaved)
  \/ LifeStep(Updater(Check))
  \/ LifeStep(Updater(CheckAnswers))
  \/ LifeStep(Updater(CheckFails))
  \/ LifeStep(Updater(Arrives))
  \/ LifeStep(Updater(Resolves))
  \/ LifeStep(Updater(DownloadFails))
  \/ LifeStep(Updater(InstallFails))
  \/ LifeStep(NewVersion)
  \/ LifeStep(Show)
  \/ LifeStep(SwitchRoutines)
  \/ \E c \in Conversation : LifeStep(Work(c))
  \/ LifeStep(ProcessDies)
  \/ LifeStep(StartApp)

McpMoves ==
  \/ McpStep(AddServer)
  \/ McpStep(CancelAuthorization)
  \/ \E o \in Op :
       \/ McpStep(Edit(o))
       \/ McpStep(Delete(o))
       \/ McpStep(Authorize(o))
       \/ McpStep(Call(o))
       \/ McpStep(SaveCommits(o))
       \/ McpStep(SwitchCommits(o))
       \/ McpStep(ProbeConnects(o))
       \/ McpStep(ClearCommits(o))
       \/ McpStep(DeleteCommits(o))
       \/ McpStep(ListenFails(o))
       \/ McpStep(Listens(o))
       \/ McpStep(Redirected(o))
       \/ McpStep(CodeArrives(o))
       \/ McpStep(Exchanges(o))
       \/ McpStep(GivesUp(o))
       \/ McpStep(Connected(o))
       \/ McpStep(ConnectFails(o))
       \/ McpStep(ProbeEnds(o))
       \/ McpStep(AuthorizeEnds(o))
       \/ McpStep(AuthorizeEndsDeleted(o))
       \/ McpStep(Returns(o))
       \/ McpStep(CallFails(o))

DriverMoves ==
  \/ DriverStep(ServiceTakes)
  \/ DriverStep(ServiceEnds)
  \/ \E frame \in Frames : DriverStep(ServiceSends(frame))
  \/ DriverStep(NotConfigured)
  \/ DriverStep(RunStarts)
  \/ DriverStep(AbortRun)
  \/ DriverStep(HttpResponds)
  \/ DriverStep(HttpConnectFails)
  \/ DriverStep(HttpReads)
  \/ DriverStep(HttpReadFails)
  \/ DriverStep(HttpAborts)
  \/ DriverStep(CliReads)
  \/ DriverStep(CliEnds)
  \/ DriverStep(AcpProbes)
  \/ DriverStep(RpcReads)
  \/ DriverStep(RpcProceeds)
  \/ DriverStep(RpcFails)
  \/ DriverStep(Pull)
  \/ DriverStep(PullEnd)

StartupMoves ==
  \/ StartupStep(OpenDatabase)
  \/ StartupStep(BackUp)
  \/ StartupStep(Migrate)
  \/ StartupStep(MigrationsEnd)
  \/ StartupStep(StartFails)
  \/ \E available \in SUBSET Instances : StartupStep(ChooseDefault(available))
  \/ StartupStep(ApplyDefault)
  \/ \E b \in Bot : StartupStep(createBot(b))
  \/ \E b \in Bot, i \in Instances : StartupStep(PickModel(b, i))
  \/ StartupStep(Write)
  \/ \E version \in 1..Schemas : StartupStep(InstallVersion(version))

Next == LifeMoves \/ McpMoves \/ DriverMoves \/ StartupMoves

\* Each part's own fairness: nothing of it is due in a part that rests.
Spec == Init /\ [][Next]_vars /\ LifeFair /\ McpFair /\ StreamFair

\* Every variable of the part that moves keeps its type.
ProcessTypeOK ==
  /\ focus = "life" => LifeTypeOK
  /\ focus = "mcp" => McpTypeOK
  /\ focus = "stream" => StreamTypeOK
  /\ focus = "startup" => StartupTypeOK
=============================================================================
