-------------------------------- MODULE Updates --------------------------------
(***************************************************************************)
(* The update of resticpal by itself, from the tray that finds a newer     *)
(* version to the installer the service runs:                              *)
(*                                                                         *)
(*   apps/resticpal-tray/src/main.rs      timers, the check thread, what   *)
(*                                        the user is offered              *)
(*   apps/resticpal-service/src/updater.rs  download, verification, msiexec*)
(*   .../runtime/ipc.rs, lifecycle.rs     InstallUpdate and its outcome    *)
(*                                                                         *)
(* Three threads take part (the tray's window, its check thread and the    *)
(* service's update worker), and two processes the repository does not     *)
(* contain: msiexec, which the worker starts and may kill, and the Windows *)
(* Installer transaction behind it, which a killed msiexec leaves running. *)
(* The other work of the service is left to module ServiceRuntime: here it *)
(* only makes a request be rejected.                                       *)
(***************************************************************************)
EXTENDS Naturals

CONSTANT MaxEvents  \* bound on the events of the world: see World

ASSUME UpdatesAssumption == MaxEvents \in Nat

VARIABLES
    published,  \* a version newer than the installed one is in the signed feed
    automatic,  \* updates.automatic_install of the effective configuration
    tray,       \* UPDATE_AVAILABLE, the retry timer, the posted message, and whether a
                \* notice or the menu's entry offers the update on the screen
    check,      \* the check thread; running is UPDATE_CHECK_RUNNING
    service,    \* update_install_active and update_hold_until
    worker,     \* the update worker: its step, its outcome and its deadline
    staged,     \* the files of the Updates directory
    installer,  \* msiexec, its transaction, and the content it was started on
    events

vars == <<published, automatic, tray, check, service, worker, staged, installer, events>>

serviceVars == <<service, worker, staged, installer>>
trayVars == <<tray, check>>

-----------------------------------------------------------------------------
None == "none"

Contents == {"signed", "other"}   \* what the signature covers, and anything else

Outcomes == {"Completed", "Failed", "Indeterminate"}

NoTray == [available |-> FALSE, retry |-> FALSE, message |-> FALSE, offered |-> FALSE]

NoInstaller == [client |-> None, transaction |-> None, of |-> None, ours |-> FALSE]

WorkerIdle == [pc |-> "idle", outcome |-> None, expired |-> FALSE]

Trays == [available : BOOLEAN, retry : BOOLEAN, message : BOOLEAN, offered : BOOLEAN]
Checks == [running : BOOLEAN, pc : {"idle", "feed", "setting", "request", "prompt", "end"}]
Services == [active : BOOLEAN, held : BOOLEAN]
Workers == [pc : {"idle", "queued", "stage", "download", "rename", "verify", "launch", "wait",
                  "report"},
            outcome : Outcomes \cup {None}, expired : BOOLEAN]
Stagings == [partial : Contents \cup {None}, msi : Contents \cup {None}]
Installers == [client : {None, "running", "succeeded", "failed"}, transaction : {None, "running"},
               of : Contents \cup {None}, ours : BOOLEAN]

(* Every variable keeps its type. *)
TypeOK ==
    /\ published \in BOOLEAN /\ automatic \in BOOLEAN
    /\ tray \in Trays /\ check \in Checks
    /\ service \in Services /\ worker \in Workers
    /\ worker.pc = "report" => worker.outcome \in Outcomes
    /\ staged \in Stagings /\ installer \in Installers
    /\ events \in 0 .. MaxEvents

-----------------------------------------------------------------------------
(* The check thread of the tray *)

(* start_update_check: one check at a time. *)
StartCheck(c) == IF c.running THEN c ELSE [running |-> TRUE, pc |-> "feed"]

(* check_update_sources: an update in either feed, else a feed without one, *)
(* else no feed at all.                                                     *)
FeedUpdate ==
    /\ check.pc = "feed" /\ published
    /\ check' = [check EXCEPT !.pc = "setting"]
    /\ UNCHANGED <<published, automatic, tray, serviceVars, events>>

FeedCurrent ==
    /\ check.pc = "feed" /\ ~published
    /\ check' = [check EXCEPT !.pc = "end"]
    /\ tray' = [tray EXCEPT !.available = FALSE]
    /\ UNCHANGED <<published, automatic, serviceVars, events>>

FeedUnavailable ==
    /\ check.pc = "feed"
    /\ check' = [check EXCEPT !.pc = "end"]
    /\ UNCHANGED <<published, automatic, tray, serviceVars, events>>

(* available_update_action(automatic_update_setting()) *)
SettingRead ==
    /\ check.pc = "setting"
    /\ IF automatic
          THEN /\ check' = [check EXCEPT !.pc = "request"]
               /\ tray' = [tray EXCEPT !.available = FALSE]
          ELSE /\ check' = [check EXCEPT !.pc = "prompt"]
               /\ tray' = [tray EXCEPT !.available = TRUE]
    /\ UNCHANGED <<published, automatic, serviceVars, events>>

SettingUnavailable ==
    /\ check.pc = "setting"
    /\ check' = [check EXCEPT !.pc = "end"]
    /\ tray' = [tray EXCEPT !.available = FALSE, !.retry = TRUE]
    /\ UNCHANGED <<published, automatic, serviceVars, events>>

(* The prompt is shown at most once a day. *)
Prompt ==
    /\ check.pc = "prompt"
    /\ check' = [check EXCEPT !.pc = "end"]
    /\ \E due \in BOOLEAN : tray' = [tray EXCEPT !.message = @ \/ due]
    /\ UNCHANGED <<published, automatic, serviceVars, events>>

(* begin_update_install, and the event that starts the worker. *)
CanInstall == automatic /\ published /\ ~service.active /\ ~service.held

Accepted ==
    /\ service' = [active |-> TRUE, held |-> TRUE]
    /\ worker' = [WorkerIdle EXCEPT !.pc = "queued"]

(* request_automatic_update: accepted or not, and whether or not the answer *)
(* came in time, a follow-up is scheduled.                                  *)
InstallAccepted ==
    /\ check.pc = "request" /\ CanInstall
    /\ Accepted
    /\ check' = [check EXCEPT !.pc = "end"]
    /\ tray' = [tray EXCEPT !.retry = TRUE]
    /\ UNCHANGED <<published, automatic, staged, installer, events>>

InstallNotAccepted ==
    /\ check.pc = "request"
    /\ check' = [check EXCEPT !.pc = "end"]
    /\ tray' = [tray EXCEPT !.retry = TRUE]
    /\ UNCHANGED <<published, automatic, serviceVars, events>>

(* Mutant: the thread returns without giving the flag back. *)
EndCheckKeepsFlag ==
    /\ check.pc = "end"
    /\ check' = [check EXCEPT !.pc = "idle"]
    /\ UNCHANGED <<published, automatic, tray, serviceVars, events>>

EndCheck ==
    /\ check.pc = "end"
    /\ check' = [running |-> FALSE, pc |-> "idle"]
    /\ UNCHANGED <<published, automatic, tray, serviceVars, events>>

CheckThread ==
    \/ FeedUpdate \/ FeedCurrent \/ FeedUnavailable
    \/ SettingRead \/ SettingUnavailable \/ Prompt
    \/ InstallAccepted \/ InstallNotAccepted \/ EndCheck

-----------------------------------------------------------------------------
(* The window thread of the tray *)

PeriodicTimer ==
    /\ check' = StartCheck(check)
    /\ UNCHANGED <<published, automatic, tray, serviceVars, events>>

RetryTimer ==
    /\ tray.retry
    /\ tray' = [tray EXCEPT !.retry = FALSE]
    /\ check' = StartCheck(check)
    /\ UNCHANGED <<published, automatic, serviceVars, events>>

(* user_update_action: the setting is read again before anything is shown.  *)
(* By hand, the update is shown; automatic, a check of its own and a retry  *)
(* in any case; unknown, a retry.                                           *)
UserUpdateAction(t, shown) ==
    \/ /\ ~automatic
       /\ tray' = [t EXCEPT !.offered = @ \/ shown]
       /\ UNCHANGED check
    \/ /\ automatic
       /\ check' = StartCheck(check)
       /\ tray' = [t EXCEPT !.available = FALSE, !.retry = TRUE]
    \/ /\ tray' = [t EXCEPT !.available = FALSE, !.retry = TRUE]
       /\ UNCHANGED check

(* show_context_menu: only the flag decides whether the menu has an entry.  *)
UserOpensMenu ==
    /\ tray.available
    /\ \E shown \in BOOLEAN : UserUpdateAction(tray, shown)
    /\ UNCHANGED <<published, automatic, serviceVars, events>>

(* handle_user_update_request: a click on a notice or on the menu's entry   *)
(* counts, whatever became of the flag since; another notice may be left.   *)
UserAsks ==
    /\ tray.offered
    /\ \E left \in BOOLEAN : UserUpdateAction([tray EXCEPT !.offered = left], FALSE)
    /\ UNCHANGED <<published, automatic, serviceVars, events>>

(* The notice is shown, unless the shell refuses it. *)
OnUpdateAvailable ==
    /\ tray.message
    /\ \E shown \in BOOLEAN : UserUpdateAction([tray EXCEPT !.message = FALSE], shown)
    /\ UNCHANGED <<published, automatic, serviceVars, events>>

-----------------------------------------------------------------------------
(* The update worker of the service *)

To(pc) == worker' = [worker EXCEPT !.pc = pc]

Report(outcome) == worker' = [worker EXCEPT !.pc = "report", !.outcome = outcome]

WorkerRest == UNCHANGED <<published, automatic, trayVars, service, events>>

(* UpdateInstallRequested: a backup that is still registered, or a thread   *)
(* that cannot be started, ends the update before it began.                 *)
StartUpdateWorker ==
    /\ worker.pc = "queued"
    /\ \/ To("stage") /\ UNCHANGED service
       \/ /\ worker' = WorkerIdle
          /\ service' = [active |-> FALSE, held |-> FALSE]
    /\ UNCHANGED <<published, automatic, trayVars, staged, installer, events>>

(* What an earlier run left in the directory is removed first. *)
Stage ==
    /\ worker.pc = "stage"
    /\ \/ To("download") /\ staged' = [partial |-> None, msi |-> None]
       \/ Report("Failed") /\ UNCHANGED staged
       \/ Report("Failed") /\ staged' = [staged EXCEPT !.partial = None]
    /\ WorkerRest /\ UNCHANGED installer

Download ==
    /\ worker.pc = "download"
    /\ \/ /\ \E content \in Contents : staged' = [staged EXCEPT !.partial = content]
          /\ To("rename")
       \/ /\ \E left \in Contents \cup {None} : staged' = [staged EXCEPT !.partial = left]
          /\ Report("Failed")
    /\ WorkerRest /\ UNCHANGED installer

Rename ==
    /\ worker.pc = "rename"
    /\ \/ /\ staged' = [partial |-> None, msi |-> staged.partial]
          /\ To("verify")
       \/ Report("Failed") /\ UNCHANGED staged
    /\ WorkerRest /\ UNCHANGED installer

(* Mutant: the signature is not checked. *)
AnyContent(content) == content # None

Verified(content) == content = "signed"

(* The file is opened without sharing writes or deletion and stays open     *)
(* until the installer is done; then the log of the previous one goes.      *)
Verify ==
    /\ worker.pc = "verify"
    /\ \/ Verified(staged.msi) /\ To("launch") /\ UNCHANGED staged
       \/ /\ Report("Failed")
          /\ \E left \in {None, staged.msi} : staged' = [staged EXCEPT !.msi = left]
    /\ WorkerRest /\ UNCHANGED installer

(* Windows Installer refuses a second transaction: that msiexec fails at once. *)
LaunchMsi ==
    /\ worker.pc = "launch"
    /\ \/ /\ ~worker.expired
          /\ installer' = [client |-> IF installer.transaction = None THEN "running" ELSE "failed",
                           transaction |-> "running",
                           of |-> staged.msi, ours |-> installer.transaction = None]
          /\ To("wait")
       \/ Report("Failed") /\ UNCHANGED installer
    /\ WorkerRest /\ UNCHANGED staged

(* Mutant: a killed msiexec counts as a failed one. *)
TimeoutFails == "Failed"

(* installer_state_is_indeterminate *)
TimeoutOutcome == "Indeterminate"

Exited == installer.client \in {"succeeded", "failed"}

InstallerExited ==
    /\ worker.pc = "wait" /\ Exited
    /\ Report(IF installer.client = "succeeded" THEN "Completed" ELSE "Failed")
    /\ WorkerRest /\ UNCHANGED <<staged, installer>>

(* The deadline: a killed msiexec is a timeout, one that cannot be killed   *)
(* and has not ended meanwhile cannot be said to be stopped.                *)
InstallerTimeout ==
    /\ worker.pc = "wait" /\ worker.expired /\ ~Exited
    /\ \/ /\ installer' = [installer EXCEPT !.client = None]
          /\ Report(TimeoutOutcome)
       \/ Report("Indeterminate") /\ UNCHANGED installer
    /\ WorkerRest /\ UNCHANGED staged

(* Asking for the state of the process fails: kill it, or fail to. *)
InstallerTermination ==
    /\ worker.pc = "wait"
    /\ \/ installer' = [installer EXCEPT !.client = None]
       \/ UNCHANGED installer
    /\ Report("Indeterminate")
    /\ WorkerRest /\ UNCHANGED staged

DeadlinePasses ==
    /\ worker.pc \notin {"idle", "queued", "report"} /\ ~worker.expired
    /\ worker' = [worker EXCEPT !.expired = TRUE]
    /\ WorkerRest /\ UNCHANGED <<staged, installer>>

(* finish_update_install *)
FinishUpdateInstall ==
    /\ worker.pc = "report"
    /\ service' = CASE worker.outcome = "Completed"     -> [service EXCEPT !.active = FALSE]
                    [] worker.outcome = "Failed"        -> [active |-> FALSE, held |-> FALSE]
                    [] worker.outcome = "Indeterminate" -> [service EXCEPT !.active = TRUE]
    /\ worker' = WorkerIdle
    /\ UNCHANGED <<published, automatic, trayVars, staged, installer, events>>

(* The hold's deadline is past at an evaluation; it is looked at only when  *)
(* no installation is active.                                               *)
HoldExpires ==
    /\ service.held /\ ~service.active
    /\ service' = [service EXCEPT !.held = FALSE]
    /\ UNCHANGED <<published, automatic, trayVars, worker, staged, installer, events>>

Worker ==
    \/ StartUpdateWorker \/ Stage \/ Download \/ Rename \/ Verify \/ LaunchMsi
    \/ InstallerExited \/ InstallerTimeout \/ InstallerTermination
    \/ FinishUpdateInstall

-----------------------------------------------------------------------------
(* msiexec and Windows Installer *)

(* The transaction fails, or succeeds and leaves the files in use for the   *)
(* next boot (3010): the running version is the old one in both cases.      *)
TransactionEnds ==
    /\ installer.transaction = "running"
    /\ \E result \in {"succeeded", "failed"} :
           installer' = [installer EXCEPT !.transaction = None,
                                          !.client = IF @ = "running" THEN result ELSE @]
    /\ UNCHANGED <<published, automatic, trayVars, service, worker, staged, events>>

(* The transaction replaces the service and the tray and starts the new ones. *)
Upgrades ==
    /\ installer.transaction = "running"
    /\ installer' = [installer EXCEPT !.transaction = None, !.client = None, !.ours = FALSE]
    /\ published' = FALSE
    /\ service' = [active |-> FALSE, held |-> FALSE]
    /\ worker' = WorkerIdle
    /\ tray' = NoTray
    /\ check' = [running |-> TRUE, pc |-> "feed"]
    /\ UNCHANGED <<automatic, staged, events>>

-----------------------------------------------------------------------------
(* The rest of the world *)

Publish ==
    /\ ~published
    /\ events < MaxEvents /\ events' = events + 1
    /\ published' = TRUE
    /\ UNCHANGED <<automatic, trayVars, serviceVars>>

(* An administrator or a management policy changes the setting. *)
ChangeSetting ==
    /\ events < MaxEvents /\ events' = events + 1
    /\ automatic' = ~automatic
    /\ UNCHANGED <<published, trayVars, serviceVars>>

(* The service stops, at any point of an update, and starts again. *)
ServiceRestarts ==
    /\ events < MaxEvents /\ events' = events + 1
    /\ service' = [active |-> FALSE, held |-> FALSE]
    /\ worker' = WorkerIdle
    /\ installer' = [installer EXCEPT !.ours = FALSE]
    /\ UNCHANGED <<published, automatic, trayVars, staged>>

TrayRestarts ==
    /\ events < MaxEvents /\ events' = events + 1
    /\ tray' = NoTray
    /\ check' = [running |-> TRUE, pc |-> "feed"]
    /\ UNCHANGED <<published, automatic, serviceVars>>

World == Publish \/ ChangeSetting \/ ServiceRestarts \/ TrayRestarts

-----------------------------------------------------------------------------
Init ==
    /\ published \in BOOLEAN /\ automatic \in BOOLEAN
    /\ tray = NoTray
    /\ check = [running |-> TRUE, pc |-> "feed"]
    /\ service = [active |-> FALSE, held |-> FALSE]
    /\ worker = WorkerIdle
    /\ staged \in Stagings
    /\ installer = NoInstaller
    /\ events = 0

Next ==
    \/ CheckThread \/ PeriodicTimer \/ RetryTimer
    \/ UserOpensMenu \/ UserAsks \/ OnUpdateAvailable
    \/ Worker \/ DeadlinePasses \/ HoldExpires \/ TransactionEnds \/ Upgrades \/ World

Spec == Init /\ [][Next]_vars

(* Threads and timers run, deadlines pass and a transaction ends.  A feed,  *)
(* a setting and a request that are asked for again and again are answered  *)
(* at some time.                                                            *)
Fairness ==
    /\ WF_vars(CheckThread) /\ WF_vars(PeriodicTimer)
    /\ SF_vars(FeedUpdate) /\ SF_vars(SettingRead) /\ SF_vars(InstallAccepted)
    /\ WF_vars(Worker) /\ WF_vars(HoldExpires) /\ WF_vars(TransactionEnds \/ Upgrades)
    /\ WF_vars(DeadlinePasses)

FairSpec == Spec /\ Fairness

-----------------------------------------------------------------------------
(* The service starts the installer only on the content the package's       *)
(* signature covers, whatever the download delivered and whatever an        *)
(* interrupted update left in the directory.  (updater.rs,                  *)
(* download_verify_and_launch.)                                             *)
InstallsSignedContent == installer.of \in {"signed", None}

(* Backups stay paused until the installer this service started is known to *)
(* be done: while msiexec or its transaction may be running, the hold of    *)
(* the update is not released, also when msiexec was killed at the deadline *)
(* or could not be.  (updater.rs:787, lifecycle.rs:42, "Keep the hold       *)
(* fail-closed until service restart".)                                     *)
BackupsWaitForInstaller ==
    (installer.ours /\ (installer.client = "running" \/ installer.transaction = "running"))
        => service.active \/ service.held

(* As long as an update stays published and automatic updates stay enabled, *)
(* it is handed to the service again and again, whatever the tray's checks  *)
(* and retries did before and however an installation failed.               *)
(* (start_update_check, check_update_silently, schedule_update_retry.)      *)
UpdateIsRequested == <>[](published /\ automatic) => []<>service.active

=============================================================================
