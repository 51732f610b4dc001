---------------------------- MODULE AppLifecycle ----------------------------
(***************************************************************************)
(* The life of the application's process and its window (index.ts),        *)
(* together with the updater.                                              *)
(*                                                                         *)
(* Closing is a handshake.  The window's close, or a quit, makes the main  *)
(* process ask the page to save what was edited; the page may confirm,     *)
(* refuse, be reloaded, or not answer within a time-out.  After a          *)
(* confirmation the services shut down, and the window closes.  With an    *)
(* enabled routine the window is only hidden.  An installation of an       *)
(* update passes by all of this (allowClose).                              *)
(*                                                                         *)
(* Left out: what the services do while they start and stop (DirectRuntime *)
(* and RoomRun), notifications, the login item, a second window.           *)
(***************************************************************************)
EXTENDS UpdateService

CONSTANTS
  Conversation,  \* the Direct conversations and Rooms
  MaxFlushes,    \* bound: requests to save that the page has not answered
  MaxReloads     \* bound: reloads of the page while a process lives

ASSUME LifeBounds == MaxFlushes \in Nat \ {0} /\ MaxReloads \in Nat

VARIABLES
  process,       \* "up" or "down"
  allowClose,
  closing,       \* closeRequested, pendingClose, quitRequested, and whether the
                 \* confirmation timer is armed
  page,          \* "loading" or "ready" (rendererReady)
  everReady,     \* rendererEverReady
  flushes,       \* app:before-close messages that the page has not answered
  restarts,      \* clicks on "restart to update" whose flush is under way
  shutdown,      \* shutdownPromise: "none", "running", "done"
  window,        \* "shown" or "hidden"
  routinesOn,    \* RoutineService.hasEnabled
  atWork,        \* conversations with an active run or batch
  open,          \* the conversation the page shows
  reloads,       \* bound
  confirmed,     \* history: the page has confirmed a close that was asked for
  ended          \* history: how the last process ended

windowVars == <<process, allowClose, closing, page, everReady, flushes, restarts, shutdown,
                window, routinesOn, atWork, open, reloads, confirmed, ended>>
lifeVars == <<updateVars, windowVars>>

LifeTypeOK ==
  /\ UpdateTypeOK
  /\ process \in {"up", "down"}
  /\ allowClose \in BOOLEAN /\ everReady \in BOOLEAN
  /\ closing \in [requested : BOOLEAN, pending : BOOLEAN, quit : BOOLEAN, armed : BOOLEAN]
  /\ page \in {"loading", "ready"}
  /\ flushes \in 0..MaxFlushes /\ restarts \in 0..2
  /\ shutdown \in {"none", "running", "done"}
  /\ window \in {"shown", "hidden"}
  /\ routinesOn \in BOOLEAN /\ confirmed \in BOOLEAN
  /\ atWork \subseteq Conversation /\ open \in Conversation
  /\ reloads \in 0..MaxReloads
  /\ ended \in {"never", "exit", "crash"}

NotClosing == [requested |-> FALSE, pending |-> FALSE, quit |-> FALSE, armed |-> FALSE]

LifeInit ==
  /\ UpdateInit
  /\ process = "up" /\ allowClose = FALSE /\ closing = NotClosing
  /\ page = "loading" /\ everReady = FALSE /\ flushes = 0 /\ restarts = 0
  /\ shutdown = "none" /\ window \in {"shown", "hidden"}
  /\ routinesOn = FALSE /\ atWork = {} /\ open \in Conversation
  /\ reloads = 0 /\ confirmed = FALSE /\ ended = "never"

Up == process = "up"

\* The process ends; its memory goes with it.  What shutdown and confirmed were stays to be
\* seen by OrderlyExit.
Ends(how) ==
  /\ process' = "down" /\ ended' = how
  /\ allowClose' = FALSE /\ closing' = NotClosing
  /\ page' = "loading" /\ everReady' = FALSE /\ flushes' = 0 /\ restarts' = 0
  /\ window' = "shown" /\ atWork' = {} /\ reloads' = 0
  /\ UpdateStops
  /\ UNCHANGED <<routinesOn, open, confirmed>>

----------------------------------------------------------------------------
(* Closing.                                                                *)

\* requestRendererFlush, from the flags c
RequestFlush(c) ==
  \/ /\ c.requested
     /\ closing' = c
     /\ UNCHANGED flushes
  \/ /\ ~c.requested /\ page = "loading"
     /\ closing' = [c EXCEPT !.pending = TRUE, !.armed = TRUE]
     /\ UNCHANGED flushes
  \/ /\ ~c.requested /\ page = "ready"
     /\ flushes < MaxFlushes
     /\ closing' = [c EXCEPT !.requested = TRUE, !.pending = FALSE, !.armed = TRUE]
     /\ flushes' = flushes + 1

\* the window's close event; with the last window the application quits
CloseWindow ==
  /\ Up /\ window = "shown"
  /\ \/ /\ allowClose \/ ~everReady
        /\ Ends("exit")
        /\ UNCHANGED shutdown
     \/ /\ ~allowClose /\ everReady
        /\ RequestFlush(closing)
        /\ UNCHANGED <<updateVars, process, allowClose, page, everReady, restarts, shutdown,
                       window, routinesOn, atWork, open, reloads, confirmed, ended>>

\* before-quit
Quit ==
  /\ Up
  /\ \/ /\ allowClose \/ ~everReady
        /\ Ends("exit")
        /\ UNCHANGED shutdown
     \/ /\ ~allowClose /\ everReady
        /\ RequestFlush([closing EXCEPT !.quit = TRUE])
        /\ UNCHANGED <<updateVars, process, allowClose, page, everReady, restarts, shutdown,
                       window, routinesOn, atWork, open, reloads, confirmed, ended>>

\* did-start-loading: the page forgets what it was asked, and is asked again later.
Reload ==
  /\ Up /\ page = "ready" /\ reloads < MaxReloads
  /\ page' = "loading" /\ flushes' = 0 /\ restarts' = 0 /\ reloads' = reloads + 1
  /\ closing' = IF closing.requested
                  THEN [closing EXCEPT !.requested = FALSE, !.pending = TRUE, !.armed = TRUE]
                  ELSE closing
  /\ UNCHANGED <<updateVars, process, allowClose, everReady, shutdown, window, routinesOn,
                 atWork, open, confirmed, ended>>

\* rendererReady
PageReady ==
  /\ Up /\ page = "loading"
  /\ page' = "ready" /\ everReady' = TRUE
  /\ IF closing.pending /\ ~closing.requested
       THEN /\ closing' = [closing EXCEPT !.requested = TRUE, !.pending = FALSE, !.armed = TRUE]
            /\ flushes' = 1
       ELSE UNCHANGED <<closing, flushes>>
  /\ UNCHANGED <<updateVars, process, allowClose, restarts, shutdown, window, routinesOn,
                 atWork, open, reloads, confirmed, ended>>

\* finishClose, up to its await: hides the window, or starts or joins the shutdown.
FinishClose ==
  IF ~closing.quit /\ routinesOn
    THEN /\ closing' = [closing EXCEPT !.requested = FALSE, !.pending = FALSE, !.armed = FALSE]
         /\ window' = "hidden"
         /\ UNCHANGED <<shutdown, confirmed>>
    ELSE /\ closing' = [closing EXCEPT !.armed = FALSE]
         /\ shutdown' = "running"
         /\ confirmed' = closing.requested
         /\ UNCHANGED window

\* Mutants: a confirmation counts also when nothing is asked; a refusal is not noted.
ConfirmAnyTime(canClose) ==
  /\ Up /\ flushes > 0
  /\ flushes' = flushes - 1
  /\ \/ /\ canClose
        /\ FinishClose
     \/ /\ ~canClose /\ closing.requested
        /\ closing' = NotClosing
        /\ UNCHANGED <<shutdown, window, confirmed>>
  /\ UNCHANGED <<updateVars, process, allowClose, page, everReady, restarts, routinesOn,
                 atWork, open, reloads, ended>>

ConfirmRefusalLost(canClose) ==
  /\ Up /\ flushes > 0
  /\ flushes' = flushes - 1
  /\ \/ /\ closing.requested /\ canClose
        /\ FinishClose
     \/ /\ closing.requested /\ ~canClose
        /\ closing' = [closing EXCEPT !.armed = FALSE]
        /\ UNCHANGED <<shutdown, window, confirmed>>
     \/ /\ ~closing.requested
        /\ UNCHANGED <<closing, shutdown, window, confirmed>>
  /\ UNCHANGED <<updateVars, process, allowClose, page, everReady, restarts, routinesOn,
                 atWork, open, reloads, ended>>

\* confirmClose: the page's answer; one that comes after the time-out is ignored.
Confirm(canClose) ==
  /\ Up /\ flushes > 0
  /\ flushes' = flushes - 1
  /\ \/ /\ closing.requested /\ canClose
        /\ FinishClose
     \/ /\ closing.requested /\ ~canClose
        /\ closing' = NotClosing
        /\ UNCHANGED <<shutdown, window, confirmed>>
     \/ /\ ~closing.requested
        /\ UNCHANGED <<closing, shutdown, window, confirmed>>
  /\ UNCHANGED <<updateVars, process, allowClose, page, everReady, restarts, routinesOn,
                 atWork, open, reloads, ended>>

\* CLOSE_CONFIRMATION_TIMEOUT_MS: the user is told that the window was not closed.
ConfirmationTimesOut ==
  /\ Up /\ closing.armed
  /\ closing' = NotClosing
  /\ UNCHANGED <<updateVars, process, allowClose, page, everReady, flushes, restarts, shutdown,
                 window, routinesOn, atWork, open, reloads, confirmed, ended>>

\* finishClose after its await: the window may close, and the process ends.
ShutdownEnds ==
  /\ Up /\ shutdown = "running"
  /\ shutdown' = "done"
  /\ Ends("exit")

\* A service's shutdown throws: the window stays open.
ShutdownFails ==
  /\ Up /\ shutdown = "running"
  /\ shutdown' = "none" /\ confirmed' = FALSE
  /\ closing' = [NotClosing EXCEPT !.armed = closing.armed]
  /\ UNCHANGED <<updateVars, process, allowClose, page, everReady, flushes, restarts, window,
                 routinesOn, atWork, open, reloads, ended>>

----------------------------------------------------------------------------
(* Updating.                                                               *)

\* updateRestartBlocked: the page knows the state of the conversation it shows.
RestartBlocked == open \in atWork

\* the button "restart to update": the page saves first
ClickRestart ==
  /\ Up /\ page = "ready" /\ window = "shown"
  /\ status = "downloaded" /\ ~RestartBlocked
  /\ restarts < 2
  /\ restarts' = restarts + 1
  /\ UNCHANGED <<updateVars, process, allowClose, closing, page, everReady, flushes, shutdown,
                 window, routinesOn, atWork, open, reloads, confirmed, ended>>

\* updates:install-and-restart.  A second click finds the updater installing, is refused,
\* and takes allowClose back.
RestartSaved ==
  /\ Up /\ restarts > 0
  /\ restarts' = restarts - 1
  /\ \/ UNCHANGED <<updateVars, allowClose>>      \* the page could not save
     \/ /\ Install
        /\ allowClose' = (operation' = "installing")
     \/ /\ status # "downloaded"
        /\ allowClose' = FALSE
        /\ UNCHANGED updateVars
  /\ UNCHANGED <<process, closing, page, everReady, flushes, shutdown, window, routinesOn,
                 atWork, open, reloads, confirmed, ended>>

\* emitUpdate: an installation that fails takes back the permission to close.
EmitUpdate ==
  allowClose' = IF operation = "installing" /\ status' = "error" THEN FALSE ELSE allowClose

\* A step of the updater while the application lives, with what it announces.
Updater(step) ==
  /\ Up
  /\ step
  /\ EmitUpdate
  /\ UNCHANGED <<process, closing, page, everReady, flushes, restarts, shutdown, window,
                 routinesOn, atWork, open, reloads, confirmed, ended>>

NewVersion == Publish /\ UNCHANGED windowVars

----------------------------------------------------------------------------
(* The rest of the world.                                                  *)

\* activate, or a click on a notification
Show ==
  /\ Up /\ window = "hidden"
  /\ window' = "shown"
  /\ UNCHANGED <<updateVars, process, allowClose, closing, page, everReady, flushes, restarts,
                 shutdown, routinesOn, atWork, open, reloads, confirmed, ended>>

SwitchRoutines ==
  /\ Up
  /\ routinesOn' = ~routinesOn
  /\ UNCHANGED <<updateVars, process, allowClose, closing, page, everReady, flushes, restarts,
                 shutdown, window, atWork, open, reloads, confirmed, ended>>

\* Runs begin (not during a shutdown) and end; the user opens a conversation.
Work(c) ==
  /\ Up
  /\ \/ shutdown = "none" /\ atWork' = atWork \cup {c} /\ UNCHANGED open
     \/ atWork' = atWork \ {c} /\ UNCHANGED open
     \/ page = "ready" /\ open' = c /\ UNCHANGED atWork
  /\ UNCHANGED <<updateVars, process, allowClose, closing, page, everReady, flushes, restarts,
                 shutdown, window, routinesOn, reloads, confirmed, ended>>

ProcessDies ==
  /\ Up
  /\ Ends("crash")
  /\ UNCHANGED shutdown

\* whenReady: the installed version may be any newer one by now, put there by the updater
\* or by the user.
StartApp ==
  /\ ~Up
  /\ \E v \in installed..published : UpdateStarts(v)
  /\ process' = "up" /\ shutdown' = "none" /\ confirmed' = FALSE
  /\ window' \in {"shown", "hidden"}
  /\ UNCHANGED <<allowClose, closing, page, everReady, flushes, restarts, routinesOn, atWork,
                 open, reloads, ended>>

LifeNext ==
  \/ CloseWindow \/ Quit \/ Reload \/ PageReady
  \/ \E canClose \in BOOLEAN : Confirm(canClose)
  \/ ConfirmationTimesOut \/ ShutdownEnds \/ ShutdownFails
  \/ ClickRestart \/ RestartSaved \/ NewVersion
  \/ Updater(Check) \/ Updater(CheckAnswers) \/ Updater(CheckFails) \/ Updater(Arrives)
  \/ Updater(Resolves) \/ Updater(DownloadFails) \/ Updater(InstallFails)
  \/ Show \/ SwitchRoutines \/ (\E c \in Conversation : Work(c))
  \/ ProcessDies \/ StartApp

LifeSpec == LifeInit /\ [][LifeNext]_lifeVars

\* Timers fire; a shutdown ends, one way or the other (SHUTDOWN_DRAIN_MS).
LifeFair ==
  /\ WF_lifeVars(ConfirmationTimesOut)
  /\ WF_lifeVars(ShutdownEnds \/ ShutdownFails)

----------------------------------------------------------------------------

\* A process that was ever ready ends by itself only after the page has confirmed a close
\* that was asked for and the services are shut down, or to install an update: no answer of
\* the page that comes too late, no reload and no installation that failed opens another way
\* out.
OrderlyExit ==
  [][process = "up" /\ process' = "down" /\ ended' = "exit" /\ everReady =>
       (shutdown' = "done" /\ confirmed) \/ operation = "installing"]_lifeVars

\* A close that was asked for is carried out, refused, or given up with a notice, also when
\* the page never answers: the application is never left half closed.
CloseSettles ==
  (closing.requested \/ closing.pending) ~> closing = NotClosing \/ window = "hidden"

(* A claim of the repository that the code does not keep. *)

\* "Running Direct/Room tasks disable 'restart to update'."
RestartSparesRuns ==
  [][operation # "installing" /\ operation' = "installing" => atWork = {}]_lifeVars
=============================================================================
