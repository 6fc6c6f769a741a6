--------------------------------- MODULE Tray ---------------------------------
(***************************************************************************)
(* The tray program's window thread (apps/resticpal-tray/src/main.rs): the *)
(* menu that runs or cancels a backup, the watch that follows the backup   *)
(* and announces its end, and the balloons of module Balloons.             *)
(*                                                                         *)
(* One thread dispatches every message, but the open menu pumps messages   *)
(* too, so handlers nest.  Requests to the service block the thread for at *)
(* most two seconds, and may be handled although the client has given up.  *)
(* The service is reduced to what the tray sees of it: module              *)
(* ServiceRuntime has the rest.                                            *)
(***************************************************************************)
EXTENDS Balloons

CONSTANTS
    FastPollTicks,  \* BACKUP_FAST_POLL_TICKS
    MaxAttempts,    \* bound on backup attempts of the service
    MaxRestarts,    \* bound on restarts of the service
    MaxMessages     \* bound on the shell's messages that wait for the window thread

ASSUME TrayAssumption ==
    /\ FastPollTicks \in Nat \ {0}
    /\ {MaxAttempts, MaxRestarts, MaxMessages} \subseteq Nat

VARIABLES
    service,    \* [state, last_attempt]: what GetStatus reports
    attempts,   \* attempts the service has begun; the identity of the latest one
    ended,      \* the latest attempt that came to an end
    ui,         \* what the window thread is doing outside the message loop
    watch,      \* the backup monitor and its timer
    asked,      \* the latest attempt the watched request cannot have been about
    restarts

vars == <<service, attempts, ended, ui, watch, asked, restarts, balloon, messages>>

-----------------------------------------------------------------------------
(* What the tray tells apart: "Idle" is idle or waiting, "Ended" any result *)
(* of a backup.                                                             *)
States == {"Unconfigured", "Idle", "Running", "Ended"}

(* last_attempt is a time; 0 stands for its absence. *)
Attempt == 0 .. MaxAttempts

Unknown == [known |-> FALSE, attempt |-> 0]

NoWatch ==
    [armed |-> FALSE, baseline |-> Unknown, observed |-> FALSE, ticks |-> 0,
     expired |-> FALSE]

InLoop == [pc |-> "loop", command |-> None, baseline |-> Unknown]

Baselines == [known : BOOLEAN, attempt : Attempt]
Statuses == [state : States, last_attempt : Attempt]
WindowThreads == [pc : {"loop", "menu", "send", "exited"}, command : {"run", "cancel", None},
                  baseline : Baselines]
Watches == [armed : BOOLEAN, baseline : Baselines, observed : BOOLEAN,
            ticks : 0 .. FastPollTicks, expired : BOOLEAN]

(* The types of the window's state and of what it sees of the service.     *)
TypeOK ==
    /\ BalloonTypeOK
    /\ service \in Statuses
    /\ attempts \in Attempt /\ ended \in Attempt
    /\ ui \in WindowThreads
    /\ watch \in Watches
    /\ asked \in Attempt
    /\ restarts \in 0 .. MaxRestarts

(* The thread dispatches messages in its loop and in the menu's. *)
Pumping == ui.pc \in {"loop", "menu"}

-----------------------------------------------------------------------------
(* The service, as the tray sees it *)

BackupStarts ==
    /\ service.state \notin {"Unconfigured", "Running"}
    /\ attempts < MaxAttempts
    /\ service' = [state |-> "Running", last_attempt |-> attempts + 1]
    /\ attempts' = attempts + 1
    /\ UNCHANGED <<ended, ui, watch, asked, restarts, balloon, messages>>

BackupEnds ==
    /\ service.state = "Running"
    /\ service' = [service EXCEPT !.state = "Ended"]
    /\ ended' = attempts
    /\ UNCHANGED <<attempts, ui, watch, asked, restarts, balloon, messages>>

(* An evaluation finds a condition that keeps a due backup waiting; the     *)
(* device is removed from management, or set up.                            *)
Reevaluates ==
    /\ service.state # "Running"
    /\ \E state \in {"Idle", "Unconfigured"} : service' = [service EXCEPT !.state = state]
    /\ UNCHANGED <<attempts, ended, ui, watch, asked, restarts, balloon, messages>>

(* A restarted service has no last_attempt and reports none of the terminal *)
(* states.                                                                  *)
ServiceRestarts ==
    /\ restarts < MaxRestarts
    /\ restarts' = restarts + 1
    /\ \E state \in {"Unconfigured", "Idle"} : service' = [state |-> state, last_attempt |-> 0]
    /\ UNCHANGED <<attempts, ended, ui, watch, asked, balloon, messages>>

-----------------------------------------------------------------------------
(* Running and cancelling a backup from the menu *)

OpenMenu ==
    /\ ui.pc = "loop" /\ balloon.icon
    /\ \E answered \in BOOLEAN :
           LET running == answered /\ service.state = "Running"
           IN  ui' = [InLoop EXCEPT !.pc = "menu",
                                    !.command = IF running THEN "cancel" ELSE "run"]
    /\ UNCHANGED <<service, attempts, ended, watch, asked, restarts, balloon, messages>>

CloseMenu ==
    /\ ui.pc = "menu"
    /\ ui' = InLoop
    /\ UNCHANGED <<service, attempts, ended, watch, asked, restarts, balloon, messages>>

Baseline(answered) ==
    IF answered THEN [known |-> TRUE, attempt |-> service.last_attempt] ELSE Unknown

(* send_backup_action first asks for the latest attempt... *)
ChooseBackup ==
    /\ ui.pc = "menu"
    /\ \E answered \in BOOLEAN :
           ui' = [ui EXCEPT !.pc = "send",
                            !.baseline = IF ui.command = "run" THEN Baseline(answered) ELSE Unknown]
    /\ UNCHANGED <<service, attempts, ended, watch, asked, restarts, balloon, messages>>

(* run_now and cancel_backup, module RuntimeRequests. *)
Accepted(command) ==
    IF command = "run" THEN service.state \notin {"Unconfigured", "Running"}
                       ELSE service.state = "Running"

StartMonitor(baseline, observed) ==
    [armed |-> TRUE, baseline |-> baseline, observed |-> observed, ticks |-> 0,
     expired |-> FALSE]

(* The earliest attempt this request can be about is the one after this.    *)
NotAbout ==
    CASE ui.command = "cancel" -> attempts - 1
      [] ui.command = "run" /\ ui.baseline.known -> ui.baseline.attempt
      [] OTHER -> attempts

(* ... and then sends the request.  A request that is rejected, or whose    *)
(* answer is late (although the service may have taken it), only shows an   *)
(* error: a watch already running goes on.                                  *)
SendAction ==
    /\ ui.pc = "send"
    /\ ui' = InLoop
    /\ \/ /\ Accepted(ui.command)
          /\ watch' = StartMonitor(ui.baseline, ui.command = "cancel")
          /\ asked' = NotAbout
          /\ \E shell \in ShellAnswers : balloon' = Notify(balloon, "Default", shell)
       \/ UNCHANGED <<watch, asked, balloon>>
    /\ UNCHANGED <<service, attempts, ended, restarts, messages>>

-----------------------------------------------------------------------------
(* The watch *)

(* Mutant: an unknown baseline counts as no attempt. *)
AttemptChangedUnknown ==
    /\ service.last_attempt # 0
    /\ service.last_attempt # watch.baseline.attempt

AttemptChanged ==
    /\ watch.baseline.known
    /\ service.last_attempt # 0
    /\ service.last_attempt # watch.baseline.attempt

Ended == service.state = "Ended" /\ (watch.observed \/ AttemptChanged)

Ticked == [watch EXCEPT !.ticks = IF @ >= FastPollTicks THEN @ ELSE @ + 1]

(* The tick at which polling slows down. *)
SlowsDown == watch.ticks = FastPollTicks - 1

Finish(b, shell) ==
    /\ watch' = NoWatch
    /\ asked' = 0
    /\ balloon' = Notify(b, "Default", shell)

(* Mutant: only an answered poll looks at the clock. *)
PollNeverUnavailable ==
    /\ watch.armed /\ Pumping
    /\ watch' = Ticked /\ UNCHANGED balloon
    /\ UNCHANGED <<service, attempts, ended, ui, asked, restarts, messages>>

(* The request, or the update of the icon's tooltip, fails. *)
PollUnanswered ==
    /\ watch.armed /\ Pumping
    /\ IF watch.expired
          THEN \E shell \in ShellAnswers : Finish(balloon, shell)
          ELSE watch' = Ticked /\ UNCHANGED <<asked, balloon>>
    /\ UNCHANGED <<service, attempts, ended, ui, restarts, messages>>

PollExpired ==
    /\ watch.armed /\ Pumping /\ watch.expired
    /\ balloon.icon
    /\ \E shell \in ShellAnswers : Finish(balloon, shell)
    /\ UNCHANGED <<service, attempts, ended, ui, restarts, messages>>

(* A request that stays queued is mentioned once, when polling slows down.  *)
WaitingNotice(shell) ==
    IF SlowsDown /\ ~watch.observed /\ ~AttemptChanged /\ service.state # "Running"
    THEN Notify(balloon, "Default", shell)
    ELSE balloon

(* BACKUP_STARTED_NOTIFICATION_SHOWN always equals the observed flag.       *)
StartedNotice(shell) ==
    IF watch.observed THEN balloon ELSE Notify(balloon, "Default", shell)

PollStatus ==
    /\ watch.armed /\ Pumping /\ ~watch.expired
    /\ balloon.icon
    /\ \E shell \in ShellAnswers :
           \/ /\ service.state = "Running"
              /\ watch' = [Ticked EXCEPT !.observed = TRUE]
              /\ balloon' = StartedNotice(shell)
              /\ UNCHANGED asked
           \/ /\ Ended \/ service.state = "Unconfigured"
              /\ Finish(WaitingNotice(shell), shell)
           \/ /\ ~Ended /\ service.state \notin {"Running", "Unconfigured"}
              /\ watch' = Ticked
              /\ balloon' = WaitingNotice(shell)
              /\ UNCHANGED asked
    /\ UNCHANGED <<service, attempts, ended, ui, restarts, messages>>

(* BACKUP_MONITOR_TIMEOUT passes. *)
TwoHoursPass ==
    /\ watch.armed /\ ~watch.expired
    /\ watch' = [watch EXCEPT !.expired = TRUE]
    /\ UNCHANGED <<service, attempts, ended, ui, asked, restarts, balloon, messages>>

-----------------------------------------------------------------------------
(* Balloons *)

Shell ==
    /\ Len(messages) < MaxMessages
    /\ ShellShows \/ ShellDrops \/ ShellEnds \/ ExplorerRestarts
    /\ UNCHANGED <<service, attempts, ended, ui, watch, asked, restarts>>

Callback ==
    /\ Pumping
    /\ OnShown \/ OnDismissed \/ OnClicked \/ OnTaskbarCreated
    /\ UNCHANGED <<service, attempts, ended, ui, watch, asked, restarts>>

(* UPDATE_AVAILABLE_MESSAGE with updates installed by hand. *)
UpdateNotice ==
    /\ Pumping
    /\ \E shell \in ShellAnswers : balloon' = Notify(balloon, "Updates", shell)
    /\ UNCHANGED <<service, attempts, ended, ui, watch, asked, restarts, messages>>

(* WM_DESTROY *)
Exit ==
    /\ ui.pc = "menu"
    /\ ui' = [InLoop EXCEPT !.pc = "exited"]
    /\ watch' = NoWatch
    /\ asked' = 0
    /\ balloon' = [Clear(balloon) EXCEPT !.icon = FALSE, !.queue = <<>>, !.showing = None]
    /\ messages' = <<>>
    /\ UNCHANGED <<service, attempts, ended, restarts>>

-----------------------------------------------------------------------------
Init ==
    /\ BalloonInit
    /\ service \in [state : {"Unconfigured", "Idle"}, last_attempt : {0}]
    /\ attempts = 0 /\ ended = 0
    /\ ui = InLoop
    /\ watch = NoWatch
    /\ asked = 0 /\ restarts = 0

Service == BackupStarts \/ BackupEnds \/ Reevaluates \/ ServiceRestarts

Poll == PollUnanswered \/ PollExpired \/ PollStatus

Window ==
    \/ OpenMenu \/ CloseMenu \/ ChooseBackup \/ SendAction \/ Exit
    \/ Callback \/ UpdateNotice

Next == Service \/ Window \/ Poll \/ TwoHoursPass \/ Shell

Spec == Init /\ [][Next]_vars

(* Time passes and the timer's messages are dispatched. *)
FairSpec == Spec /\ WF_vars(Poll) /\ WF_vars(TwoHoursPass)

-----------------------------------------------------------------------------
(* The watch takes a backup for ended only when an attempt ended that the   *)
(* request can be about: one begun after the attempt the service reported   *)
(* before the request or, when it reported nothing, after the request; for  *)
(* a cancellation, the attempt it cancelled or a later one.  The result of  *)
(* an earlier backup is never announced again as the result of this one,    *)
(* with the service restarted or unreachable in between.                    *)
(* (poll_backup_status, BackupAttemptBaseline.)                             *)
AnnouncesRequestedBackup == (watch.armed /\ Ended) => ended > asked

(* Every watch ends, unless the user asks again: with the backup, with the  *)
(* service unable to run it, or after two hours, whether or not the service *)
(* answers.                                                                 *)
WatchEnds == watch.armed ~> (~watch.armed \/ ui.pc = "send")

=============================================================================
