------------------------- MODULE AppLifecycleProofs -------------------------
(***************************************************************************)
(* Proofs about the application from its start to its close.  Of           *)
(* AppLifecycle with its updater, for any number of versions and           *)
(* conversations: the types, the receipt of a download, and that the       *)
(* application closes in order.  Of AppStartup: that no start loses data.  *)
(***************************************************************************)
EXTENDS AppLifecycle, AppStartup, TLAPS

(***************************************************************************)
(* The inductive invariant.                                                *)
(***************************************************************************)

\* What the updater's status says of its operation, and when there is an updater.
UpdaterAt ==
  /\ status = "off" <=> process = "down"
  /\ process = "down" => operation = "none" /\ fetch = "none"
  /\ fetch = "check" <=> status = "checking"
  /\ operation = "installing" => status \in {"downloaded", "installing"}

\* The permission to close goes with an installation, and a shutdown with a confirmed close.
ClosingAt ==
  /\ allowClose => operation = "installing"
  /\ shutdown = "running" => confirmed

\* Who may close the application, and what it would find on disk at its next start.
Inv ==
  /\ LifeTypeOK
  /\ UpdaterAt
  /\ ReceiptTellsTruth
  /\ ClosingAt

(***************************************************************************)
(* Types, in three parts: the updater, the close flags, the rest.          *)
(***************************************************************************)

Flags == [requested : BOOLEAN, pending : BOOLEAN, quit : BOOLEAN, armed : BOOLEAN]

WindowTypes ==
  /\ process \in {"up", "down"}
  /\ allowClose \in BOOLEAN /\ everReady \in BOOLEAN
  /\ page \in {"loading", "ready"}
  /\ flushes \in 0..MaxFlushes /\ restarts \in 0..2
  /\ shutdown \in {"none", "running", "done"}
  /\ window \in {"shown", "hidden"}
  /\ routinesOn \in BOOLEAN /\ confirmed \in BOOLEAN
  /\ atWork \subseteq Conversation /\ open \in Conversation
  /\ reloads \in 0..MaxReloads
  /\ ended \in {"never", "exit", "crash"}

\* The type invariant, taken apart by the part of the state.
LEMMA LifeTypes ==
  /\ LifeTypeOK <=> UpdateTypeOK /\ closing \in Flags /\ WindowTypes
  /\ LifeTypeOK' <=> UpdateTypeOK' /\ closing' \in Flags /\ WindowTypes'
BY DEF LifeTypeOK, Flags, WindowTypes

\* Setting and clearing close flags gives close flags.
LEMMA FlagUpdates ==
  /\ NotClosing \in Flags
  /\ \A c \in Flags : \A b \in BOOLEAN :
       /\ [c EXCEPT !.pending = TRUE, !.armed = TRUE] \in Flags
       /\ [c EXCEPT !.requested = TRUE, !.pending = FALSE, !.armed = TRUE] \in Flags
       /\ [c EXCEPT !.requested = FALSE, !.pending = TRUE, !.armed = TRUE] \in Flags
       /\ [c EXCEPT !.requested = FALSE, !.pending = FALSE, !.armed = FALSE] \in Flags
       /\ [c EXCEPT !.armed = b] \in Flags
       /\ [c EXCEPT !.quit = b] \in Flags
       /\ c.armed \in BOOLEAN /\ c.requested \in BOOLEAN
BY DEF NotClosing, Flags

\* The updater.
LEMMA UpdateTypesKept ==
  ASSUME Inv, [LifeNext]_lifeVars
  PROVE  UpdateTypeOK'
<1> USE DEF Inv, LifeTypeOK, UpdateTypeOK, lifeVars, updateVars, updateDisk, windowVars, Up,
            None
<1>1. CASE UNCHANGED lifeVars
  BY <1>1
<1>2. CASE CloseWindow
  BY <1>2, SomeVersions DEF CloseWindow, RequestFlush, Ends, UpdateStops
<1>3. CASE Quit
  BY <1>3, SomeVersions DEF Quit, RequestFlush, Ends, UpdateStops
<1>4. CASE Reload
  BY <1>4 DEF Reload
<1>5. CASE PageReady
  BY <1>5 DEF PageReady
<1>6. ASSUME NEW canClose \in BOOLEAN, Confirm(canClose)
      PROVE  UpdateTypeOK'
  BY <1>6 DEF Confirm, FinishClose
<1>7. CASE ConfirmationTimesOut
  BY <1>7 DEF ConfirmationTimesOut
<1>8. CASE ShutdownEnds
  BY <1>8, SomeVersions DEF ShutdownEnds, Ends, UpdateStops
<1>9. CASE ShutdownFails
  BY <1>9 DEF ShutdownFails
<1>10. CASE ClickRestart
  BY <1>10 DEF ClickRestart
<1>11. CASE RestartSaved
  BY <1>11, SomeVersions DEF RestartSaved, Install, Fails
<1>12. CASE NewVersion
  BY <1>12, SomeVersions DEF NewVersion, Publish
<1>13. CASE Updater(Check)
  BY <1>13, SomeVersions DEF Updater, EmitUpdate, Check
<1>14. CASE Updater(CheckAnswers)
  BY <1>14, SomeVersions DEF Updater, EmitUpdate, CheckAnswers
<1>15. CASE Updater(CheckFails)
  BY <1>15, SomeVersions DEF Updater, EmitUpdate, CheckFails, Fails
<1>16. CASE Updater(Arrives)
  BY <1>16, SomeVersions DEF Updater, EmitUpdate, Arrives, Downloaded
<1>17. CASE Updater(Resolves)
  <2>1. Resolves
    BY <1>17 DEF Updater
  <2>2. /\ installed' \in 1..Versions /\ published' \in 1..Versions
        /\ fetch' \in {"none", "check", "download", "arrived"}
    BY <2>1 DEF Resolves
  <2>3. wanted' \in None..Versions
    BY <2>1, SomeVersions DEF Resolves
  <2>4. operation' \in {"none", "checking", "downloading", "installing"}
    BY <2>1 DEF Resolves
  <2>5. CASE status = "downloaded"
    BY <2>1, <2>2, <2>3, <2>4, <2>5 DEF Resolves
  <2>6. CASE status # "downloaded"
    <3>1. Downloaded
      BY <2>1, <2>6 DEF Resolves
    <3> QED BY <2>2, <2>3, <2>4, <3>1 DEF Downloaded
  <2> QED BY <2>5, <2>6
<1>18. CASE Updater(DownloadFails)
  BY <1>18, SomeVersions DEF Updater, EmitUpdate, DownloadFails, Fails
<1>19. CASE Updater(InstallFails)
  BY <1>19, SomeVersions DEF Updater, EmitUpdate, InstallFails, Fails
<1>20. CASE Show
  BY <1>20 DEF Show
<1>21. CASE SwitchRoutines
  BY <1>21 DEF SwitchRoutines
<1>22. ASSUME NEW c \in Conversation, Work(c)
      PROVE  UpdateTypeOK'
  BY <1>22 DEF Work
<1>23. CASE ProcessDies
  BY <1>23, SomeVersions DEF ProcessDies, Ends, UpdateStops
<1>24. CASE StartApp
  <2>1. PICK v \in installed..published : UpdateStarts(v)
    BY <1>24 DEF StartApp
  <2>2. v \in 1..Versions
    BY <2>1, SomeVersions
  <2>3. receipt' \in None..Versions /\ offered' \in None..Versions
    BY <2>1, <2>2, SomeVersions DEF UpdateStarts
  <2>4. requested' \in BOOLEAN /\ status' \in {"idle", "updated", "install-interrupted"}
    BY <2>1 DEF UpdateStarts
  <2> QED BY <2>1, <2>2, <2>3, <2>4 DEF UpdateStarts
<1> QED BY <1>1, <1>2, <1>3, <1>4, <1>5, <1>6, <1>7, <1>8, <1>9, <1>10, <1>11, <1>12, <1>13,
     <1>14, <1>15, <1>16, <1>17, <1>18, <1>19, <1>20, <1>21, <1>22, <1>23, <1>24
  DEF LifeNext

\* The close flags.
LEMMA FlagsKept ==
  ASSUME LifeTypeOK, [LifeNext]_lifeVars
  PROVE  closing' \in Flags
<1>0. closing \in Flags
  BY LifeTypes
<1> USE <1>0 DEF windowVars, lifeVars, Up
<1>1. CASE UNCHANGED lifeVars
  BY <1>1
<1>2. CASE CloseWindow
  BY <1>2, FlagUpdates DEF CloseWindow, RequestFlush, Ends, UpdateStops
<1>3. CASE Quit
  BY <1>3, FlagUpdates DEF Quit, RequestFlush, Ends, UpdateStops
<1>4. CASE Reload
  BY <1>4, FlagUpdates DEF Reload
<1>5. CASE PageReady
  BY <1>5, FlagUpdates DEF PageReady
<1>6. ASSUME NEW canClose \in BOOLEAN, Confirm(canClose)
      PROVE  closing' \in Flags
  BY <1>6, FlagUpdates DEF Confirm, FinishClose
<1>7. CASE ConfirmationTimesOut
  BY <1>7, FlagUpdates DEF ConfirmationTimesOut
<1>8. CASE ShutdownEnds
  BY <1>8, FlagUpdates DEF ShutdownEnds, Ends, UpdateStops
<1>9. CASE ShutdownFails
  <2>1. [NotClosing EXCEPT !.armed = closing.armed] \in Flags
    BY LifeTypes, FlagUpdates
  <2> QED BY <1>9, <2>1 DEF ShutdownFails
<1>10. CASE ClickRestart
  BY <1>10 DEF ClickRestart
<1>11. CASE RestartSaved
  BY <1>11 DEF RestartSaved, Install, Fails
<1>12. CASE NewVersion
  BY <1>12 DEF NewVersion, Publish
<1>13. CASE Updater(Check)
  BY <1>13 DEF Updater, EmitUpdate, Check
<1>14. CASE Updater(CheckAnswers)
  BY <1>14 DEF Updater, EmitUpdate, CheckAnswers
<1>15. CASE Updater(CheckFails)
  BY <1>15 DEF Updater, EmitUpdate, CheckFails, Fails
<1>16. CASE Updater(Arrives)
  BY <1>16 DEF Updater, EmitUpdate, Arrives, Downloaded
<1>17. CASE Updater(Resolves)
  BY <1>17 DEF Updater, EmitUpdate, Resolves, Downloaded
<1>18. CASE Updater(DownloadFails)
  BY <1>18 DEF Updater, EmitUpdate, DownloadFails, Fails
<1>19. CASE Updater(InstallFails)
  BY <1>19 DEF Updater, EmitUpdate, InstallFails, Fails
<1>20. CASE Show
  BY <1>20 DEF Show
<1>21. CASE SwitchRoutines
  BY <1>21 DEF SwitchRoutines
<1>22. ASSUME NEW c \in Conversation, Work(c)
      PROVE  closing' \in Flags
  BY <1>22 DEF Work
<1>23. CASE ProcessDies
  BY <1>23, FlagUpdates DEF ProcessDies, Ends, UpdateStops
<1>24. CASE StartApp
  BY <1>24 DEF StartApp, UpdateStarts
<1> QED BY <1>1, <1>2, <1>3, <1>4, <1>5, <1>6, <1>7, <1>8, <1>9, <1>10, <1>11, <1>12, <1>13,
     <1>14, <1>15, <1>16, <1>17, <1>18, <1>19, <1>20, <1>21, <1>22, <1>23, <1>24
  DEF LifeNext

\* The process ends, and the next one starts from nothing.
LEMMA EndTypes ==
  ASSUME WindowTypes, NEW how \in {"exit", "crash"}, Ends(how), shutdown' \in {"none", "running",
           "done"}
  PROVE  WindowTypes'
<1>1. flushes' \in 0..MaxFlushes /\ reloads' \in 0..MaxReloads /\ restarts' \in 0..2
  BY LifeBounds DEF Ends
<1>2. process' \in {"up", "down"} /\ page' \in {"loading", "ready"} /\ window' \in {"shown",
        "hidden"}
  BY DEF Ends
<1>3. allowClose' \in BOOLEAN /\ everReady' \in BOOLEAN
  BY Zenon DEF Ends
<1>4. routinesOn' \in BOOLEAN /\ confirmed' \in BOOLEAN /\ open' \in Conversation
  BY DEF Ends, WindowTypes
<1>5. atWork' \subseteq Conversation /\ ended' \in {"never", "exit", "crash"}
  BY DEF Ends
<1> QED BY <1>1, <1>2, <1>3, <1>4, <1>5 DEF WindowTypes

\* The rest.
LEMMA WindowTypesKept ==
  ASSUME LifeTypeOK, [LifeNext]_lifeVars
  PROVE  WindowTypes'
<1>0. WindowTypes
  BY LifeTypes
<1> USE <1>0 DEF WindowTypes, windowVars, lifeVars, Up
<1>1. CASE UNCHANGED lifeVars
  BY <1>1
<1>2. CASE CloseWindow
  <2>1. CASE Ends("exit") /\ UNCHANGED shutdown
    BY <2>1, EndTypes
  <2>2. CASE ~Ends("exit")
    <3>1. flushes' \in 0..MaxFlushes
      BY <1>2, <2>2, LifeBounds DEF CloseWindow, RequestFlush
    <3>2. UNCHANGED <<process, allowClose, page, everReady, restarts, shutdown, window, routinesOn,
                      atWork, open, reloads, confirmed, ended>>
      BY <1>2, <2>2 DEF CloseWindow
    <3> QED BY <3>1, <3>2
  <2> QED BY <1>2, <2>1, <2>2 DEF CloseWindow
<1>3. CASE Quit
  <2>1. CASE Ends("exit") /\ UNCHANGED shutdown
    BY <2>1, EndTypes
  <2>2. CASE ~Ends("exit")
    <3>1. flushes' \in 0..MaxFlushes
      BY <1>3, <2>2, LifeBounds DEF Quit, RequestFlush
    <3>2. UNCHANGED <<process, allowClose, page, everReady, restarts, shutdown, window, routinesOn,
                      atWork, open, reloads, confirmed, ended>>
      BY <1>3, <2>2 DEF Quit
    <3> QED BY <3>1, <3>2
  <2> QED BY <1>3, <2>1, <2>2 DEF Quit
<1>4. CASE Reload
  BY <1>4, LifeBounds DEF Reload
<1>5. CASE PageReady
  BY <1>5, LifeBounds DEF PageReady
<1>6. ASSUME NEW canClose \in BOOLEAN, Confirm(canClose)
      PROVE  WindowTypes'
  <2>1. flushes' \in 0..MaxFlushes
    BY <1>6, LifeBounds DEF Confirm
  <2>2. confirmed' \in BOOLEAN
    BY <1>6, LifeTypes, FlagUpdates, Zenon DEF Confirm, FinishClose
  <2>3. shutdown' \in {"none", "running", "done"} /\ window' \in {"shown", "hidden"}
    BY <1>6 DEF Confirm, FinishClose
  <2> QED BY <1>6, <2>1, <2>2, <2>3 DEF Confirm
<1>7. CASE ConfirmationTimesOut
  BY <1>7 DEF ConfirmationTimesOut
<1>8. CASE ShutdownEnds
  BY <1>8, EndTypes DEF ShutdownEnds
<1>9. CASE ShutdownFails
  BY <1>9 DEF ShutdownFails
<1>10. CASE ClickRestart
  BY <1>10 DEF ClickRestart
<1>11. CASE RestartSaved
  <2>1. allowClose' \in BOOLEAN
    BY <1>11, Zenon DEF RestartSaved
  <2>2. restarts' \in 0..2
    BY <1>11 DEF RestartSaved
  <2> QED BY <1>11, <2>1, <2>2 DEF RestartSaved
<1>12. CASE NewVersion
  BY <1>12 DEF NewVersion, Publish
<1>13. CASE Updater(Check)
  BY <1>13 DEF Updater, EmitUpdate, Check
<1>14. CASE Updater(CheckAnswers)
  BY <1>14 DEF Updater, EmitUpdate, CheckAnswers
<1>15. CASE Updater(CheckFails)
  BY <1>15 DEF Updater, EmitUpdate, CheckFails, Fails
<1>16. CASE Updater(Arrives)
  BY <1>16 DEF Updater, EmitUpdate, Arrives, Downloaded
<1>17. CASE Updater(Resolves)
  BY <1>17 DEF Updater, EmitUpdate, Resolves, Downloaded
<1>18. CASE Updater(DownloadFails)
  BY <1>18 DEF Updater, EmitUpdate, DownloadFails, Fails
<1>19. CASE Updater(InstallFails)
  BY <1>19 DEF Updater, EmitUpdate, InstallFails, Fails
<1>20. CASE Show
  BY <1>20 DEF Show
<1>21. CASE SwitchRoutines
  BY <1>21 DEF SwitchRoutines
<1>22. ASSUME NEW c \in Conversation, Work(c)
      PROVE  WindowTypes'
  BY <1>22 DEF Work
<1>23. CASE ProcessDies
  BY <1>23, EndTypes DEF ProcessDies
<1>24. CASE StartApp
  BY <1>24 DEF StartApp, UpdateStarts
<1> QED BY <1>1, <1>2, <1>3, <1>4, <1>5, <1>6, <1>7, <1>8, <1>9, <1>10, <1>11, <1>12, <1>13,
     <1>14, <1>15, <1>16, <1>17, <1>18, <1>19, <1>20, <1>21, <1>22, <1>23, <1>24
  DEF LifeNext

\* The updater's events and promises follow its operation.
LEMMA UpdaterKept ==
  ASSUME Inv, [LifeNext]_lifeVars
  PROVE  UpdaterAt'
<1> USE DEF Inv, UpdaterAt, LifeTypeOK, UpdateTypeOK, lifeVars, updateVars, updateDisk,
            windowVars, Up, None
<1>1. CASE UNCHANGED lifeVars
  BY <1>1
<1>2. CASE CloseWindow
  BY <1>2 DEF CloseWindow, RequestFlush, Ends, UpdateStops
<1>3. CASE Quit
  BY <1>3 DEF Quit, RequestFlush, Ends, UpdateStops
<1>4. CASE Reload
  BY <1>4 DEF Reload
<1>5. CASE PageReady
  BY <1>5 DEF PageReady
<1>6. ASSUME NEW canClose \in BOOLEAN, Confirm(canClose)
      PROVE  UpdaterAt'
  BY <1>6 DEF Confirm, FinishClose
<1>7. CASE ConfirmationTimesOut
  BY <1>7 DEF ConfirmationTimesOut
<1>8. CASE ShutdownEnds
  BY <1>8 DEF ShutdownEnds, Ends, UpdateStops
<1>9. CASE ShutdownFails
  BY <1>9 DEF ShutdownFails
<1>10. CASE ClickRestart
  BY <1>10 DEF ClickRestart
<1>11. CASE RestartSaved
  BY <1>11 DEF RestartSaved, Install, Fails
<1>12. CASE NewVersion
  BY <1>12 DEF NewVersion, Publish
<1>13. CASE Updater(Check)
  BY <1>13 DEF Updater, EmitUpdate, Check
<1>14. CASE Updater(CheckAnswers)
  BY <1>14 DEF Updater, EmitUpdate, CheckAnswers
<1>15. CASE Updater(CheckFails)
  BY <1>15 DEF Updater, EmitUpdate, CheckFails, Fails
<1>16. CASE Updater(Arrives)
  BY <1>16 DEF Updater, EmitUpdate, Arrives, Downloaded
<1>17. CASE Updater(Resolves)
  BY <1>17 DEF Updater, EmitUpdate, Resolves, Downloaded
<1>18. CASE Updater(DownloadFails)
  BY <1>18 DEF Updater, EmitUpdate, DownloadFails, Fails
<1>19. CASE Updater(InstallFails)
  BY <1>19 DEF Updater, EmitUpdate, InstallFails, Fails
<1>20. CASE Show
  BY <1>20 DEF Show
<1>21. CASE SwitchRoutines
  BY <1>21 DEF SwitchRoutines
<1>22. ASSUME NEW c \in Conversation, Work(c)
      PROVE  UpdaterAt'
  BY <1>22 DEF Work
<1>23. CASE ProcessDies
  BY <1>23 DEF ProcessDies, Ends, UpdateStops
<1>24. CASE StartApp
  BY <1>24 DEF StartApp, UpdateStarts
<1> QED BY <1>1, <1>2, <1>3, <1>4, <1>5, <1>6, <1>7, <1>8, <1>9, <1>10, <1>11, <1>12, <1>13,
     <1>14, <1>15, <1>16, <1>17, <1>18, <1>19, <1>20, <1>21, <1>22, <1>23, <1>24
  DEF LifeNext

\* The receipt follows the status, in whichever order event and promise come.
LEMMA ReceiptKept ==
  ASSUME Inv, [LifeNext]_lifeVars
  PROVE  ReceiptTellsTruth'
<1> USE DEF Inv, UpdaterAt, ReceiptTellsTruth, LifeTypeOK, UpdateTypeOK, lifeVars, updateVars,
            updateDisk, windowVars, Up, None
<1>1. CASE UNCHANGED lifeVars
  BY <1>1
<1>2. CASE CloseWindow
  BY <1>2 DEF CloseWindow, RequestFlush, Ends, UpdateStops
<1>3. CASE Quit
  BY <1>3 DEF Quit, RequestFlush, Ends, UpdateStops
<1>4. CASE Reload
  BY <1>4 DEF Reload
<1>5. CASE PageReady
  BY <1>5 DEF PageReady
<1>6. ASSUME NEW canClose \in BOOLEAN, Confirm(canClose)
      PROVE  ReceiptTellsTruth'
  BY <1>6 DEF Confirm, FinishClose
<1>7. CASE ConfirmationTimesOut
  BY <1>7 DEF ConfirmationTimesOut
<1>8. CASE ShutdownEnds
  BY <1>8 DEF ShutdownEnds, Ends, UpdateStops
<1>9. CASE ShutdownFails
  BY <1>9 DEF ShutdownFails
<1>10. CASE ClickRestart
  BY <1>10 DEF ClickRestart
<1>11. CASE RestartSaved
  BY <1>11 DEF RestartSaved, Install, Fails
<1>12. CASE NewVersion
  BY <1>12 DEF NewVersion, Publish
<1>13. CASE Updater(Check)
  BY <1>13 DEF Updater, EmitUpdate, Check
<1>14. CASE Updater(CheckAnswers)
  BY <1>14 DEF Updater, EmitUpdate, CheckAnswers
<1>15. CASE Updater(CheckFails)
  BY <1>15 DEF Updater, EmitUpdate, CheckFails, Fails
<1>16. CASE Updater(Arrives)
  BY <1>16 DEF Updater, EmitUpdate, Arrives, Downloaded
<1>17. CASE Updater(Resolves)
  BY <1>17 DEF Updater, EmitUpdate, Resolves, Downloaded
<1>18. CASE Updater(DownloadFails)
  BY <1>18 DEF Updater, EmitUpdate, DownloadFails, Fails
<1>19. CASE Updater(InstallFails)
  BY <1>19 DEF Updater, EmitUpdate, InstallFails, Fails
<1>20. CASE Show
  BY <1>20 DEF Show
<1>21. CASE SwitchRoutines
  BY <1>21 DEF SwitchRoutines
<1>22. ASSUME NEW c \in Conversation, Work(c)
      PROVE  ReceiptTellsTruth'
  BY <1>22 DEF Work
<1>23. CASE ProcessDies
  BY <1>23 DEF ProcessDies, Ends, UpdateStops
<1>24. CASE StartApp
  BY <1>24 DEF StartApp, UpdateStarts
<1> QED BY <1>1, <1>2, <1>3, <1>4, <1>5, <1>6, <1>7, <1>8, <1>9, <1>10, <1>11, <1>12, <1>13,
     <1>14, <1>15, <1>16, <1>17, <1>18, <1>19, <1>20, <1>21, <1>22, <1>23, <1>24
  DEF LifeNext

\* The permission to close is given and taken back with the installation.
LEMMA ClosingKept ==
  ASSUME Inv, [LifeNext]_lifeVars
  PROVE  ClosingAt'
<1> USE DEF Inv, UpdaterAt, ClosingAt, LifeTypeOK, UpdateTypeOK, lifeVars, updateVars,
            updateDisk, windowVars, Up, None
<1>1. CASE UNCHANGED lifeVars
  BY <1>1
<1>2. CASE CloseWindow
  BY <1>2 DEF CloseWindow, RequestFlush, Ends, UpdateStops
<1>3. CASE Quit
  BY <1>3 DEF Quit, RequestFlush, Ends, UpdateStops
<1>4. CASE Reload
  BY <1>4 DEF Reload
<1>5. CASE PageReady
  BY <1>5 DEF PageReady
<1>6. ASSUME NEW canClose \in BOOLEAN, Confirm(canClose)
      PROVE  ClosingAt'
  BY <1>6 DEF Confirm, FinishClose
<1>7. CASE ConfirmationTimesOut
  BY <1>7 DEF ConfirmationTimesOut
<1>8. CASE ShutdownEnds
  BY <1>8 DEF ShutdownEnds, Ends, UpdateStops
<1>9. CASE ShutdownFails
  BY <1>9 DEF ShutdownFails
<1>10. CASE ClickRestart
  BY <1>10 DEF ClickRestart
<1>11. CASE RestartSaved
  <2>1. CASE UNCHANGED <<updateVars, allowClose>>
    BY <1>11, <2>1 DEF RestartSaved
  <2>2. CASE Install /\ allowClose' = (operation' = "installing")
    <3>1. UNCHANGED <<shutdown, process, everReady>>
      BY <1>11 DEF RestartSaved
    <3>2. fetch' = fetch
      BY <2>2 DEF Install
    <3>3. (operation' = "installing" /\ status' = "installing")
          \/ (operation' = "none" /\ status' = "error")
      BY <2>2 DEF Install, Fails
    <3> QED BY <1>11, <2>2, <3>1, <3>2, <3>3 DEF RestartSaved
  <2>3. CASE status # "downloaded" /\ allowClose' = FALSE /\ UNCHANGED updateVars
    BY <1>11, <2>3 DEF RestartSaved
  <2> QED BY <1>11, <2>1, <2>2, <2>3 DEF RestartSaved
<1>12. CASE NewVersion
  BY <1>12 DEF NewVersion, Publish
<1>13. CASE Updater(Check)
  BY <1>13 DEF Updater, EmitUpdate, Check
<1>14. CASE Updater(CheckAnswers)
  BY <1>14 DEF Updater, EmitUpdate, CheckAnswers
<1>15. CASE Updater(CheckFails)
  BY <1>15 DEF Updater, EmitUpdate, CheckFails, Fails
<1>16. CASE Updater(Arrives)
  BY <1>16 DEF Updater, EmitUpdate, Arrives, Downloaded
<1>17. CASE Updater(Resolves)
  BY <1>17 DEF Updater, EmitUpdate, Resolves, Downloaded
<1>18. CASE Updater(DownloadFails)
  BY <1>18 DEF Updater, EmitUpdate, DownloadFails, Fails
<1>19. CASE Updater(InstallFails)
  BY <1>19 DEF Updater, EmitUpdate, InstallFails, Fails
<1>20. CASE Show
  BY <1>20 DEF Show
<1>21. CASE SwitchRoutines
  BY <1>21 DEF SwitchRoutines
<1>22. ASSUME NEW c \in Conversation, Work(c)
      PROVE  ClosingAt'
  BY <1>22 DEF Work
<1>23. CASE ProcessDies
  BY <1>23 DEF ProcessDies, Ends, UpdateStops
<1>24. CASE StartApp
  BY <1>24 DEF StartApp, UpdateStarts
<1> QED BY <1>1, <1>2, <1>3, <1>4, <1>5, <1>6, <1>7, <1>8, <1>9, <1>10, <1>11, <1>12, <1>13,
     <1>14, <1>15, <1>16, <1>17, <1>18, <1>19, <1>20, <1>21, <1>22, <1>23, <1>24
  DEF LifeNext

\* The program starts in the invariant.
LEMMA InitInv == LifeInit => Inv
<1> SUFFICES ASSUME LifeInit
             PROVE  Inv
  OBVIOUS
<1> USE DEF LifeInit, UpdateInit, None
<1>1. LifeTypeOK
  <2>1. UpdateTypeOK
    <3>1. 1 \in 1..Versions /\ 0 \in 0..Versions
      BY SomeVersions
    <3> QED BY <3>1 DEF UpdateTypeOK
  <2>2. closing \in Flags
    BY FlagUpdates
  <2>3. WindowTypes
    <3>1. flushes \in 0..MaxFlushes /\ reloads \in 0..MaxReloads /\ restarts \in 0..2
      BY LifeBounds
    <3> QED BY <3>1 DEF WindowTypes
  <2> QED BY <2>1, <2>2, <2>3, LifeTypes
<1>2. UpdaterAt /\ ReceiptTellsTruth /\ ClosingAt
  BY DEF UpdaterAt, ReceiptTellsTruth, ClosingAt
<1> QED BY <1>1, <1>2 DEF Inv

\* The updater and the handshake of a close agree in every reachable state.
THEOREM InvHolds == LifeSpec => []Inv
<1>1. LifeInit => Inv
  BY InitInv
<1>2. Inv /\ [LifeNext]_lifeVars => Inv'
  BY UpdateTypesKept, FlagsKept, WindowTypesKept, LifeTypes, UpdaterKept, ReceiptKept, ClosingKept
       DEF Inv
<1> QED BY <1>1, <1>2, PTL DEF LifeSpec

\* Every variable of the life cycle and of the updater keeps its type.
THEOREM TypeCorrect == LifeSpec => []LifeTypeOK
<1>1. Inv => LifeTypeOK
  BY DEF Inv
<1> QED BY <1>1, InvHolds, PTL

\* A version that is ready to install is newer than the one that runs and recorded in the
\* receipt, for every order of the updater's events and promises, restarts and crashes.
THEOREM ReceiptIsTrue == LifeSpec => []ReceiptTellsTruth
<1>1. Inv => ReceiptTellsTruth
  BY DEF Inv
<1> QED BY <1>1, InvHolds, PTL

\* A process that was ever ready exits only after a confirmed close and a shutdown, or to
\* install an update.
THEOREM ExitIsOrderly == LifeSpec => OrderlyExit
<1> DEFINE Orderly == process = "up" /\ process' = "down" /\ ended' = "exit" /\ everReady =>
                        (shutdown' = "done" /\ confirmed) \/ operation = "installing"
<1>1. Inv /\ [LifeNext]_lifeVars => [Orderly]_lifeVars
  <2> SUFFICES ASSUME Inv, LifeNext, process = "up", process' = "down", ended' = "exit", everReady
               PROVE  (shutdown' = "done" /\ confirmed) \/ operation = "installing"
    OBVIOUS
  <2>1. CloseWindow \/ Quit \/ ShutdownEnds
    <3>1. ~ProcessDies /\ ~StartApp
      BY DEF ProcessDies, StartApp, Ends
    <3>2. \A step : ~Updater(step)
      BY DEF Updater
    <3>3. ~(Reload \/ PageReady \/ ConfirmationTimesOut \/ ShutdownFails \/ ClickRestart \/ RestartSaved)
      BY DEF Reload, PageReady, ConfirmationTimesOut, ShutdownFails, ClickRestart, RestartSaved
    <3>4. ~(NewVersion \/ Show \/ SwitchRoutines \/ \E c \in Conversation : Work(c))
      BY DEF NewVersion, windowVars, Show, SwitchRoutines, Work
    <3>5. ~ \E canClose \in BOOLEAN : Confirm(canClose)
      BY DEF Confirm
    <3> QED BY <3>1, <3>2, <3>3, <3>4, <3>5 DEF LifeNext
  <2>2. CASE CloseWindow \/ Quit
    BY <2>2 DEF CloseWindow, Quit, Inv, ClosingAt
  <2>3. CASE ShutdownEnds
    BY <2>3 DEF ShutdownEnds, Ends, Inv, ClosingAt
  <2> QED BY <2>1, <2>2, <2>3
<1>2. LifeSpec => [][Orderly]_lifeVars
  BY <1>1, InvHolds, PTL DEF LifeSpec
<1> QED BY <1>2 DEF OrderlyExit

----------------------------------------------------------------------------
(***************************************************************************)
(* The start (AppStartup), for any number of Bots, of migrations and of    *)
(* changes that the user makes.                                            *)
(***************************************************************************)

\* What was last worked with is kept: by the database, by a backup that was checked, or
\* because there was no database yet.
CopyIsThere == used \in backups \/ used.schema = 0

\* How far a start is.  BackupFirst alone is not inductive: at a migration it has to be known
\* that the copy was made, at an opened database that nothing is left to copy, and at the
\* first opening that a database without the table has no schema.
StartAt ==
  /\ tabled \/ (schema = 0 /\ phase = "down")
  /\ phase = "migrating" /\ schema < target => CopyIsThere
  /\ phase = "open" => used = Here

StartupInv == StartupTypeOK /\ StartAt /\ BackupFirst

\* The assumption in the form the provers use.
LEMMA StartupNumbers == Schemas \in Nat /\ Schemas > 0 /\ MaxData \in Nat
BY StartupBounds

\* initialize takes an instance that is available.
LEMMA PreferredIsAvailable ==
  ASSUME NEW available \in SUBSET Instances, available # {}
  PROVE  Preferred(available) \in available
<1> DEFINE P(i) == /\ "codex" \in available => i = "codex"
                   /\ "codex" \notin available /\ "claude" \in available => i = "claude"
<1>1. \E i \in available : P(i)
  <2>1. CASE "codex" \in available
    BY <2>1
  <2>2. CASE "codex" \notin available /\ "claude" \in available
    BY <2>2
  <2>3. CASE "codex" \notin available /\ "claude" \notin available
    BY <2>3
  <2> QED BY <2>1, <2>2, <2>3
<1> QED BY <1>1 DEF Preferred

----------------------------------------------------------------------------

\* The program starts in the invariant: nothing is there, and nothing can be lost.
LEMMA StartupInitially ==
  ASSUME StartupInit
  PROVE  StartupInv
<1>1. StartupTypeOK
  <2>1. /\ used \in Copies /\ backups \subseteq Copies
        /\ schema \in 0..Schemas /\ content \in 0..MaxData /\ target \in 1..Schemas
    BY StartupNumbers DEF StartupInit, Copies, Here
  <2>2. /\ phase \in {"down", "backing up", "migrating", "scanning", "defaulting", "open"}
        /\ tabled \in BOOLEAN /\ defaultFor \in Instances \cup {NoModel}
    BY DEF StartupInit
  <2>3. modelOf \in [Bot -> Instances \cup {NoModel, NoBot}]
    BY DEF StartupInit
  <2> QED BY <2>1, <2>2, <2>3 DEF StartupTypeOK
<1>2. StartAt /\ BackupFirst
  BY DEF StartupInit, StartAt, BackupFirst, Here
<1> QED BY <1>1, <1>2 DEF StartupInv

\* Every step keeps the types.
LEMMA StartupTypesKept ==
  ASSUME StartupTypeOK, [StartupNext]_startupVars
  PROVE  StartupTypeOK'
<1> USE StartupNumbers DEF StartupTypeOK
<1>1. CASE UNCHANGED startupVars
  BY <1>1 DEF startupVars
<1>2. CASE OpenDatabase
  BY <1>2, Zenon DEF OpenDatabase
<1>3. CASE BackUp
  <2>1. Here \in Copies
    BY DEF Here, Copies
  <2> QED BY <1>3, <2>1 DEF BackUp
<1>4. CASE Migrate
  <2>1. schema' \in 0..Schemas
    BY <1>4 DEF Migrate
  <2> QED BY <1>4, <2>1 DEF Migrate
<1>5. CASE MigrationsEnd
  BY <1>5 DEF MigrationsEnd
<1>6. CASE StartFails
  BY <1>6 DEF StartFails
<1>7. ASSUME NEW available \in SUBSET Instances, ChooseDefault(available)
      PROVE  StartupTypeOK'
  <2>1. Here \in Copies
    BY DEF Here, Copies
  <2>2. CASE defaultFor = NoModel /\ available # {}
    BY <1>7, <2>2, PreferredIsAvailable DEF ChooseDefault
  <2>3. CASE ~(defaultFor = NoModel /\ available # {})
    BY <1>7, <2>1, <2>3 DEF ChooseDefault
  <2> QED BY <2>2, <2>3
<1>8. CASE ApplyDefault
  <2>1. Here \in Copies
    BY DEF Here, Copies
  <2> QED BY <1>8, <2>1 DEF ApplyDefault
<1>9. ASSUME NEW b \in Bot, createBot(b)
      PROVE  StartupTypeOK'
  BY <1>9 DEF createBot
<1>10. ASSUME NEW b \in Bot, NEW i \in Instances, PickModel(b, i)
       PROVE  StartupTypeOK'
  BY <1>10 DEF PickModel
<1>11. CASE Write
  <2>1. content' \in 0..MaxData
    BY <1>11 DEF Write
  <2>2. used' \in Copies
    BY <1>11, <2>1 DEF Write, Copies
  <2> QED BY <1>11, <2>1, <2>2 DEF Write
<1>12. ASSUME NEW version \in 1..Schemas, InstallVersion(version)
       PROVE  StartupTypeOK'
  BY <1>12 DEF InstallVersion
<1> QED BY <1>1, <1>2, <1>3, <1>4, <1>5, <1>6, <1>7, <1>8, <1>9, <1>10, <1>11, <1>12
  DEF StartupNext

\* Every step keeps what was last worked with: a migration finds the copy made.
LEMMA StartKept ==
  ASSUME StartupInv, [StartupNext]_startupVars
  PROVE  StartAt' /\ BackupFirst'
<1> USE DEF StartupInv, StartupTypeOK, StartAt, BackupFirst, CopyIsThere, Here
<1>1. CASE UNCHANGED startupVars
  BY <1>1 DEF startupVars
<1>2. CASE OpenDatabase
  <2>1. CASE NeedsBackup
    <3>1. phase' = "backing up" /\ tabled' = TRUE
      BY <1>2, <2>1 DEF OpenDatabase, NeedsBackup
    <3> QED BY <1>2, <3>1 DEF OpenDatabase
  <2>2. CASE ~NeedsBackup
    <3>1. phase' = "migrating" /\ tabled' = TRUE
      BY <1>2, <2>2 DEF OpenDatabase
    <3>2. schema < target => schema = 0
      BY <2>2 DEF NeedsBackup
    <3> QED BY <1>2, <3>1, <3>2 DEF OpenDatabase
  <2> QED BY <2>1, <2>2
<1>3. CASE BackUp
  BY <1>3 DEF BackUp
<1>4. CASE Migrate
  BY <1>4, StartupNumbers DEF Migrate
<1>5. CASE MigrationsEnd
  BY <1>5 DEF MigrationsEnd
<1>6. CASE StartFails
  BY <1>6 DEF StartFails
<1>7. ASSUME NEW available \in SUBSET Instances, ChooseDefault(available)
      PROVE  StartAt' /\ BackupFirst'
  BY <1>7 DEF ChooseDefault
<1>8. CASE ApplyDefault
  BY <1>8 DEF ApplyDefault
<1>9. ASSUME NEW b \in Bot, createBot(b)
      PROVE  StartAt' /\ BackupFirst'
  BY <1>9 DEF createBot
<1>10. ASSUME NEW b \in Bot, NEW i \in Instances, PickModel(b, i)
       PROVE  StartAt' /\ BackupFirst'
  BY <1>10 DEF PickModel
<1>11. CASE Write
  BY <1>11 DEF Write
<1>12. ASSUME NEW version \in 1..Schemas, InstallVersion(version)
       PROVE  StartAt' /\ BackupFirst'
  BY <1>12 DEF InstallVersion
<1> QED BY <1>1, <1>2, <1>3, <1>4, <1>5, <1>6, <1>7, <1>8, <1>9, <1>10, <1>11, <1>12
  DEF StartupNext

----------------------------------------------------------------------------

\* The invariant holds of every start, crash and change of version.
THEOREM StartupInvHolds == StartupSpec => []StartupInv
<1>1. StartupInv /\ [StartupNext]_startupVars => StartupInv'
  BY StartupTypesKept, StartKept DEF StartupInv
<1> QED BY StartupInitially, <1>1, PTL DEF StartupSpec

\* Every variable keeps its type.
THEOREM StartupTypeCorrect == StartupSpec => []StartupTypeOK
<1>1. StartupInv => StartupTypeOK
  BY DEF StartupInv
<1> QED BY StartupInvHolds, <1>1, PTL

\* AppRepository copies before the first migration and migrates one commit at a time: what the
\* user last worked with is never lost, for any sequence of starts that die anywhere and of
\* versions installed between them.
THEOREM NothingIsLost == StartupSpec => []BackupFirst
<1>1. StartupInv => BackupFirst
  BY DEF StartupInv
<1> QED BY StartupInvHolds, <1>1, PTL
=============================================================================
