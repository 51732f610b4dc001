---------------------------- MODULE UpdateService ----------------------------
(***************************************************************************)
(* The updater (update-service.ts): check, download, install, and the      *)
(* receipt that tells the next start what became of a download.            *)
(*                                                                         *)
(* electron-updater reports twice, by events and by the promise of the     *)
(* call.  A check's promise settles in the same task as its event; a       *)
(* download's may settle later, when the user has already asked to         *)
(* restart (Arrives, then Resolves).                                       *)
(*                                                                         *)
(* Left out: progress, times, the number of attempts, the development      *)
(* channel (which does nothing).  The two settings that hold the receipt   *)
(* count as one.  Versions are numbers; the feed only moves on.            *)
(***************************************************************************)
EXTENDS Naturals

CONSTANT Versions   \* bound: the versions that are ever published

ASSUME SomeVersions == Versions \in Nat \ {0}

VARIABLES
  installed,   \* the application on disk
  published,   \* the newest version on the feed
  receipt,     \* update.pendingReceipt: its version, or None
  requested,   \* the receipt's requestedAt is set
  status,      \* UpdateState.status; "off" while the process is down
  offered,     \* UpdateState.availableVersion, or None
  operation,   \* UpdateService.operation
  fetch,       \* what the updater awaits; "arrived": the update was announced,
               \* and downloadUpdate has not resolved yet
  wanted       \* the version performCheck downloads

updateDisk == <<installed, published, receipt, requested>>
updateVars == <<updateDisk, status, offered, operation, fetch, wanted>>

None == 0

UpdateTypeOK ==
  /\ installed \in 1..Versions
  /\ published \in 1..Versions
  /\ receipt \in None..Versions
  /\ requested \in BOOLEAN
  /\ status \in {"off", "idle", "checking", "up-to-date", "downloading", "downloaded",
                 "installing", "updated", "install-interrupted", "error"}
  /\ offered \in None..Versions
  /\ operation \in {"none", "checking", "downloading", "installing"}
  /\ fetch \in {"none", "check", "download", "arrived"}
  /\ wanted \in None..Versions

----------------------------------------------------------------------------

\* Mutant: only a later version clears the receipt.
UpdateStartsLater(version) ==
  /\ installed' = version
  /\ IF receipt # None /\ version > receipt
       THEN status' = "updated" /\ offered' = version /\ receipt' = None /\ requested' = FALSE
       ELSE /\ status' = IF receipt = None THEN "idle" ELSE "install-interrupted"
            /\ offered' = receipt
            /\ UNCHANGED <<receipt, requested>>
  /\ UNCHANGED <<published, operation, fetch, wanted>>

\* initialState: a receipt is cleared once its version, or a later one, is running.
UpdateStarts(version) ==
  /\ installed' = version
  /\ IF receipt # None /\ version >= receipt
       THEN status' = "updated" /\ offered' = version /\ receipt' = None /\ requested' = FALSE
       ELSE /\ status' = IF receipt = None THEN "idle" ELSE "install-interrupted"
            /\ offered' = receipt
            /\ UNCHANGED <<receipt, requested>>
  /\ UNCHANGED <<published, operation, fetch, wanted>>

\* the process ends, and with it what the updater awaits
UpdateStops ==
  /\ status' = "off" /\ offered' = None /\ operation' = "none"
  /\ fetch' = "none" /\ wanted' = None
  /\ UNCHANGED updateDisk

UpdateInit ==
  /\ installed = 1 /\ published = 1
  /\ receipt = None /\ requested = FALSE
  /\ status = "idle" /\ offered = None /\ operation = "none"
  /\ fetch = "none" /\ wanted = None

Publish ==
  /\ published < Versions
  /\ published' = published + 1
  /\ UNCHANGED <<installed, receipt, requested, status, offered, operation, fetch, wanted>>

\* check, by a timer or the user: joins the check or the download that is under way
Check ==
  /\ status \notin {"off", "downloaded", "installing"}
  /\ fetch = "none"
  /\ operation' = "checking" /\ status' = "checking" /\ fetch' = "check"
  /\ UNCHANGED <<updateDisk, offered, wanted>>

\* performCheck after its await: only a newer version is downloaded.
CheckAnswers ==
  /\ fetch = "check"
  /\ IF published > installed
       THEN /\ operation' = "downloading" /\ status' = "downloading" /\ fetch' = "download"
            /\ offered' = published /\ wanted' = published
       ELSE /\ operation' = "none" /\ status' = "up-to-date" /\ fetch' = "none"
            /\ offered' = None
            /\ UNCHANGED wanted
  /\ UNCHANGED updateDisk

\* fail
Fails == operation' = "none" /\ status' = "error"

CheckFails ==
  /\ fetch = "check"
  /\ Fails
  /\ fetch' = "none"
  /\ UNCHANGED <<updateDisk, offered, wanted>>

\* writeDownloadedReceipt, and the state that goes with it
Downloaded ==
  /\ status' = "downloaded" /\ offered' = wanted
  /\ receipt' = wanted /\ requested' = FALSE

\* the update-downloaded event
Arrives ==
  /\ fetch = "download"
  /\ Downloaded
  /\ fetch' = "arrived"
  /\ UNCHANGED <<installed, published, operation, wanted>>

\* downloadUpdate resolves, before or after an installation was asked for
Resolves ==
  /\ fetch \in {"download", "arrived"}
  /\ IF status = "downloaded" THEN UNCHANGED <<status, offered, receipt, requested>>
     ELSE Downloaded
  /\ operation' = IF operation = "downloading" THEN "none" ELSE operation
  /\ fetch' = "none" /\ wanted' = None
  /\ UNCHANGED <<installed, published>>

\* The error event, and the rejection that follows it: the error counts for the operation
\* that goes on.
DownloadFails ==
  /\ fetch \in {"download", "arrived"}
  /\ Fails
  /\ fetch' = "none" /\ wanted' = None
  /\ UNCHANGED <<updateDisk, offered>>

\* installAndRestart; quitAndInstall may throw
Install ==
  /\ status = "downloaded"
  /\ requested' = (requested \/ receipt = offered)
  /\ \/ operation' = "installing" /\ status' = "installing"
     \/ Fails
  /\ UNCHANGED <<installed, published, receipt, offered, fetch, wanted>>

\* an error event while the application is about to quit
InstallFails ==
  /\ operation = "installing"
  /\ Fails
  /\ UNCHANGED <<updateDisk, offered, fetch, wanted>>

----------------------------------------------------------------------------

\* What the updater says is what the receipt will say at the next start: a version that is
\* ready to install is newer than this one and recorded, whichever of event and promise came
\* first and whether a restart was asked for in between; a receipt is never left for a version
\* that runs.  One operation at a time awaits the updater.
ReceiptTellsTruth ==
  /\ status \in {"downloaded", "installing"} => offered > installed /\ receipt = offered
  /\ status # "off" /\ receipt # None => receipt > installed
  /\ status = "install-interrupted" => receipt = offered
  /\ operation = "checking" <=> fetch = "check"
  /\ operation = "downloading" => fetch \in {"download", "arrived"}
  /\ fetch \in {"download", "arrived"} => wanted > installed
=============================================================================
