---------------------------- MODULE UpdatesProofs ----------------------------
(***************************************************************************)
(* Proofs about the self-update, for any number of events of the world.    *)
(*                                                                         *)
(* BackupsWaitForInstaller is not inductive: the hold alone may run out,   *)
(* so while an installer of this service may be working the installation   *)
(* itself has to be marked active, and the worker's step and outcome have  *)
(* to say that no installer is working whenever the mark is taken away.    *)
(***************************************************************************)
EXTENDS Updates, TLAPS

(* The provers that try a leaf which names none, in this order.            *)
USE SMT, Zenon, Z3T(30)

AtWork ==
    installer.ours /\ (installer.client = "running" \/ installer.transaction = "running")

BeforeLaunch == {"queued", "stage", "download", "rename", "verify", "launch"}

(* The worker works under the mark, and nothing of ours runs before it     *)
(* launches or once it reports a known end.                                *)
UpdateInv ==
    /\ AtWork => service.active
    /\ worker.pc # "idle" => service.active
    /\ worker.pc \in BeforeLaunch => ~AtWork
    /\ worker.pc = "report" => worker.outcome \in Outcomes
    /\ worker.pc = "report" /\ worker.outcome \in {"Completed", "Failed"} => ~AtWork
    /\ installer.ours /\ Exited => installer.transaction # "running"

(* What is launched was verified, and stays what it was.                   *)
SignedInv ==
    /\ worker.pc = "launch" => staged.msi = "signed"
    /\ installer.of \in {"signed", None}

-----------------------------------------------------------------------------
(* Types                                                                   *)

(* To and Report move the worker and change nothing else of it.            *)
LEMMA ToShape ==
    ASSUME worker \in Workers, NEW pc, To(pc)
    PROVE  worker'.pc = pc /\ worker'.outcome = worker.outcome
BY DEF To, Workers

LEMMA ReportShape ==
    ASSUME worker \in Workers, NEW outcome, Report(outcome)
    PROVE  worker'.pc = "report" /\ worker'.outcome = outcome
BY DEF Report, Workers

LEMMA ToType ==
    ASSUME worker \in Workers, NEW pc \in {"stage", "download", "rename", "verify", "launch", "wait"},
           To(pc)
    PROVE  worker' \in Workers
BY DEF To, Workers

LEMMA ReportType ==
    ASSUME worker \in Workers, NEW outcome \in Outcomes, Report(outcome)
    PROVE  worker' \in Workers
BY Zenon DEF Report, Workers

(* The values of a fresh start have their types.                           *)
LEMMA DefaultTypes ==
    /\ NoTray \in Trays
    /\ [running |-> TRUE, pc |-> "feed"] \in Checks
    /\ [running |-> FALSE, pc |-> "idle"] \in Checks
    /\ \A a, h \in BOOLEAN : [active |-> a, held |-> h] \in Services
    /\ WorkerIdle \in Workers /\ WorkerIdle.pc = "idle"
    /\ [WorkerIdle EXCEPT !.pc = "queued"] \in Workers
    /\ [WorkerIdle EXCEPT !.pc = "queued"].pc = "queued"
    /\ NoInstaller \in Installers
BY Zenon DEF NoTray, Trays, Checks, Services, WorkerIdle, Workers, NoInstaller, Installers,
   Outcomes, Contents, None

(* Moving the check thread, and setting a flag of the tray.                *)
LEMMA CheckTypes ==
    ASSUME NEW c \in Checks
    PROVE  /\ \A p \in {"setting", "request", "prompt", "end"} : [c EXCEPT !.pc = p] \in Checks
           /\ StartCheck(c) \in Checks
<1>1. \A p \in {"setting", "request", "prompt", "end"} : [c EXCEPT !.pc = p] \in Checks
  BY DEF Checks
<1>2. StartCheck(c) \in Checks
  BY DefaultTypes DEF StartCheck
<1> QED
  BY <1>1, <1>2

LEMMA TrayTypes ==
    ASSUME NEW t \in Trays, NEW b \in BOOLEAN
    PROVE  /\ [t EXCEPT !.available = b] \in Trays
           /\ [t EXCEPT !.retry = b] \in Trays
           /\ [t EXCEPT !.message = b] \in Trays
           /\ [t EXCEPT !.offered = b] \in Trays
           /\ [t EXCEPT !.available = FALSE, !.retry = b] \in Trays
BY Zenon DEF Trays

(* The state the tray and the service start in has the types.              *)
LEMMA TypeInit == Init => TypeOK
<1> SUFFICES ASSUME Init PROVE TypeOK
  OBVIOUS
<1>1. 0 \in 0..MaxEvents
  BY UpdatesAssumption
<1>2. service \in Services
  BY DefaultTypes, Zenon DEF Init
<1> QED
  BY <1>1, <1>2, DefaultTypes DEF Init, TypeOK

(* The check thread of the tray keeps the types.                           *)
LEMMA CheckThreadType == ASSUME TypeOK, CheckThread PROVE TypeOK'
<1>1. CASE FeedUpdate
  BY <1>1, CheckTypes, Zenon DEF FeedUpdate, TypeOK, serviceVars
<1>2. CASE FeedCurrent
  BY <1>2, CheckTypes, TrayTypes, Zenon DEF FeedCurrent, TypeOK, serviceVars
<1>3. CASE FeedUnavailable
  BY <1>3, CheckTypes, Zenon DEF FeedUnavailable, TypeOK, serviceVars
<1>4. CASE SettingRead
  BY <1>4, CheckTypes, TrayTypes, ZenonT(30) DEF SettingRead, TypeOK, serviceVars
<1>5. CASE SettingUnavailable
  BY <1>5, CheckTypes, TrayTypes, Zenon DEF SettingUnavailable, TypeOK, serviceVars
<1>6. CASE Prompt
  <2>1. PICK due \in BOOLEAN : tray' = [tray EXCEPT !.message = @ \/ due]
    BY <1>6 DEF Prompt
  <2>2. (tray.message \/ due) \in BOOLEAN
    OBVIOUS
  <2>3. tray' \in Trays
    BY <2>1, <2>2, TrayTypes, Zenon DEF TypeOK
  <2> QED
    BY <1>6, <2>3, CheckTypes, ZenonT(30) DEF Prompt, TypeOK, serviceVars
<1>7. CASE InstallAccepted
  BY <1>7, CheckTypes, TrayTypes, DefaultTypes, ZenonT(30) DEF InstallAccepted, Accepted, TypeOK
<1>8. CASE InstallNotAccepted
  BY <1>8, CheckTypes, TrayTypes, Zenon DEF InstallNotAccepted, TypeOK, serviceVars
<1>9. CASE EndCheck
  BY <1>9, DefaultTypes DEF EndCheck, TypeOK, serviceVars
<1> QED
  BY <1>1, <1>2, <1>3, <1>4, <1>5, <1>6, <1>7, <1>8, <1>9 DEF CheckThread

(* So do the timers and the user's clicks.                                 *)
LEMMA WindowType ==
    ASSUME TypeOK,
           PeriodicTimer \/ RetryTimer \/ UserOpensMenu \/ UserAsks \/ OnUpdateAvailable
    PROVE  TypeOK'
<1>1. CASE PeriodicTimer
  BY <1>1, CheckTypes, ZenonT(30) DEF PeriodicTimer, TypeOK, serviceVars
<1>2. CASE RetryTimer
  BY <1>2, CheckTypes, TrayTypes, Zenon DEF RetryTimer, TypeOK, serviceVars
<1>3. ASSUME NEW t \in Trays, NEW shown \in BOOLEAN, UserUpdateAction(t, shown)
      PROVE  tray' \in Trays /\ check' \in Checks
  <2>1. (t.offered \/ shown) \in BOOLEAN
    OBVIOUS
  <2> QED
    BY <1>3, <2>1, CheckTypes, TrayTypes, ZenonT(30) DEF UserUpdateAction, TypeOK
<1>4. CASE UserOpensMenu
  BY <1>4, <1>3, Zenon DEF UserOpensMenu, TypeOK, serviceVars
<1>5. CASE UserAsks
  BY <1>5, <1>3, TrayTypes, Zenon DEF UserAsks, TypeOK, serviceVars
<1>6. CASE OnUpdateAvailable
  BY <1>6, <1>3, TrayTypes, Zenon DEF OnUpdateAvailable, TypeOK, serviceVars
<1> QED
  BY <1>1, <1>2, <1>4, <1>5, <1>6

(* So does the update worker.                                              *)
LEMMA WorkerType == ASSUME TypeOK, Worker PROVE TypeOK'
<1> USE DEF TypeOK, WorkerRest, trayVars
<1>1. CASE StartUpdateWorker
  <2>1. service' \in Services /\ worker' \in Workers /\ worker'.pc # "report"
    <3>1. CASE To("stage") /\ UNCHANGED service
      BY <3>1, ToShape, ToType
    <3>2. CASE worker' = WorkerIdle /\ service' = [active |-> FALSE, held |-> FALSE]
      BY <3>2, DefaultTypes, Zenon
    <3> QED
      BY <1>1, <3>1, <3>2 DEF StartUpdateWorker
  <2> QED
    BY <1>1, <2>1 DEF StartUpdateWorker
<1>2. CASE Stage
  <2>1. staged' \in Stagings
    BY <1>2 DEF Stage, Stagings, Contents, None
  <2> QED
    BY <1>2, <2>1, ToShape, ToType, ReportShape, ReportType DEF Stage, Outcomes
<1>3. CASE Download
  <2>1. staged' \in Stagings
    BY <1>3 DEF Download, Stagings, Contents, None
  <2> QED
    BY <1>3, <2>1, ToShape, ToType, ReportShape, ReportType DEF Download, Outcomes
<1>4. CASE Rename
  <2>1. staged' \in Stagings
    BY <1>4 DEF Rename, Stagings, Contents, None
  <2> QED
    BY <1>4, <2>1, ToShape, ToType, ReportShape, ReportType DEF Rename, Outcomes
<1>5. CASE Verify
  <2>1. staged' \in Stagings
    BY <1>5 DEF Verify, Stagings, Contents, None
  <2> QED
    BY <1>5, <2>1, ToShape, ToType, ReportShape, ReportType DEF Verify, Outcomes
<1>6. CASE LaunchMsi
  <2>1. staged.msi \in Contents \cup {None}
    BY DEF Stagings
  <2>2. \A c \in {"running", "failed"}, b \in BOOLEAN :
          [client |-> c, transaction |-> "running", of |-> staged.msi, ours |-> b] \in Installers
    BY <2>1 DEF Installers
  <2>3. installer' \in Installers
    BY <1>6, <2>2, Zenon DEF LaunchMsi
  <2> QED
    BY <1>6, <2>3, ToShape, ToType, ReportShape, ReportType DEF LaunchMsi, Outcomes
<1>7. CASE InstallerExited
  BY <1>7, ReportShape, ReportType DEF InstallerExited, Outcomes
<1>8. CASE InstallerTimeout
  <2>1. installer' \in Installers
    BY <1>8 DEF InstallerTimeout, Installers, None
  <2> QED
    BY <1>8, <2>1, ReportShape, ReportType DEF InstallerTimeout, TimeoutOutcome, Outcomes
<1>9. CASE InstallerTermination
  <2>1. installer' \in Installers
    BY <1>9 DEF InstallerTermination, Installers, None
  <2> QED
    BY <1>9, <2>1, ReportShape, ReportType DEF InstallerTermination, Outcomes
<1>10. CASE FinishUpdateInstall
  <2>1. worker.outcome \in Outcomes
    BY <1>10 DEF FinishUpdateInstall
  <2>2. service' \in Services
    BY <1>10, <2>1, Zenon DEF FinishUpdateInstall, Services, Outcomes
  <2> QED
    BY <1>10, <2>2, DefaultTypes, Zenon DEF FinishUpdateInstall
<1> QED
  BY <1>1, <1>2, <1>3, <1>4, <1>5, <1>6, <1>7, <1>8, <1>9, <1>10 DEF Worker

(* So do deadlines, Windows Installer and the events of the world.         *)
LEMMA WorldType ==
    ASSUME TypeOK, DeadlinePasses \/ HoldExpires \/ TransactionEnds \/ Upgrades \/ World
    PROVE  TypeOK'
<1> USE DEF TypeOK, trayVars, serviceVars
<1>1. CASE DeadlinePasses
  <2>1. worker' \in Workers /\ worker'.pc = worker.pc /\ worker'.outcome = worker.outcome
    BY <1>1, Zenon DEF DeadlinePasses, Workers
  <2> QED
    BY <1>1, <2>1 DEF DeadlinePasses, WorkerRest
<1>2. CASE HoldExpires
  <2>1. service' \in Services
    BY <1>2, Zenon DEF HoldExpires, Services
  <2> QED
    BY <1>2, <2>1 DEF HoldExpires
<1>3. CASE TransactionEnds
  <2>1. installer' \in Installers
    BY <1>3, Zenon DEF TransactionEnds, Installers, None
  <2> QED
    BY <1>3, <2>1 DEF TransactionEnds
<1>4. CASE Upgrades
  <2>1. installer' \in Installers
    BY <1>4, Zenon DEF Upgrades, Installers, None
  <2> QED
    BY <1>4, <2>1, DefaultTypes, Zenon DEF Upgrades
<1>5. CASE World
  <2>1. events' \in 0..MaxEvents
    BY <1>5, UpdatesAssumption DEF World, Publish, ChangeSetting, ServiceRestarts, TrayRestarts
  <2>2. CASE Publish \/ ChangeSetting
    BY <2>1, <2>2, Zenon DEF Publish, ChangeSetting
  <2>3. CASE ServiceRestarts
    <3>1. installer' \in Installers
      BY <2>3, Zenon DEF ServiceRestarts, Installers
    <3> QED
      BY <2>1, <2>3, <3>1, DefaultTypes, Zenon DEF ServiceRestarts
  <2>4. CASE TrayRestarts
    BY <2>1, <2>4, DefaultTypes DEF TrayRestarts
  <2> QED
    BY <1>5, <2>2, <2>3, <2>4 DEF World
<1> QED
  BY <1>1, <1>2, <1>3, <1>4, <1>5

(* Every step keeps the types.                                             *)
LEMMA TypeStep == TypeOK /\ [Next]_vars => TypeOK'
<1> SUFFICES ASSUME TypeOK, [Next]_vars PROVE TypeOK'
  OBVIOUS
<1>1. CASE UNCHANGED vars
  BY <1>1 DEF TypeOK, vars
<1> QED
  BY <1>1, CheckThreadType, WindowType, WorkerType, WorldType DEF Next

(* Every variable of the update keeps its type.                            *)
THEOREM TypeCorrect == Spec => []TypeOK
BY TypeInit, TypeStep, PTL DEF Spec

-----------------------------------------------------------------------------
(* The invariants                                                          *)

(* Nothing is installed when the service starts.                           *)
LEMMA UpdateInit == Init => UpdateInv /\ SignedInv
BY DEF Init, UpdateInv, SignedInv, AtWork, Exited, NoInstaller, WorkerIdle, BeforeLaunch, None

(* What the tray and the user do concerns neither invariant.               *)
LEMMA TraySteps ==
    ASSUME \/ FeedUpdate \/ FeedCurrent \/ FeedUnavailable \/ SettingRead
           \/ SettingUnavailable \/ Prompt \/ InstallNotAccepted \/ EndCheck
           \/ PeriodicTimer \/ RetryTimer \/ UserOpensMenu \/ UserAsks \/ OnUpdateAvailable
           \/ Publish \/ ChangeSetting \/ TrayRestarts
    PROVE  UNCHANGED <<service, worker, staged, installer>>
BY DEF FeedUpdate, FeedCurrent, FeedUnavailable, SettingRead, SettingUnavailable, Prompt,
   InstallNotAccepted, EndCheck, PeriodicTimer, RetryTimer, UserOpensMenu, UserAsks,
   OnUpdateAvailable, Publish, ChangeSetting, TrayRestarts, serviceVars

(* Every step keeps the mark as long as an installer may be working.       *)
LEMMA UpdateStep == TypeOK /\ UpdateInv /\ [Next]_vars => UpdateInv'
<1> SUFFICES ASSUME TypeOK, UpdateInv, [Next]_vars PROVE UpdateInv'
  OBVIOUS
<1>0. ASSUME UNCHANGED <<service, worker, installer>> PROVE UpdateInv'
  BY <1>0 DEF UpdateInv, AtWork, Exited
<1>1. CASE InstallAccepted
  <2>1. service' = [active |-> TRUE, held |-> TRUE] /\ worker'.pc = "queued"
        /\ UNCHANGED installer /\ ~service.active
    BY <1>1, DefaultTypes DEF InstallAccepted, Accepted, CanInstall
  <2> QED
    BY <2>1 DEF UpdateInv, AtWork, Exited, BeforeLaunch
<1>2. CASE StartUpdateWorker
  <2>1. worker.pc = "queued" /\ UNCHANGED installer
    BY <1>2 DEF StartUpdateWorker
  <2>2. CASE To("stage") /\ UNCHANGED service
    BY <2>1, <2>2, ToShape DEF TypeOK, UpdateInv, AtWork, Exited, BeforeLaunch
  <2>3. CASE worker' = WorkerIdle /\ service' = [active |-> FALSE, held |-> FALSE]
    BY <2>1, <2>3, DefaultTypes DEF UpdateInv, AtWork, Exited, BeforeLaunch
  <2> QED
    BY <1>2, <2>2, <2>3 DEF StartUpdateWorker
<1>3. CASE Stage \/ Download \/ Rename \/ Verify
  <2>1. /\ worker.pc \in BeforeLaunch /\ UNCHANGED <<service, installer>>
        /\ \/ \E pc \in BeforeLaunch : To(pc)
           \/ Report("Failed")
    BY <1>3 DEF Stage, Download, Rename, Verify, BeforeLaunch, WorkerRest
  <2>2. CASE \E pc \in BeforeLaunch : To(pc)
    BY <2>1, <2>2, ToShape DEF TypeOK, UpdateInv, AtWork, Exited, BeforeLaunch
  <2>3. CASE Report("Failed")
    BY <2>1, <2>3, ReportShape DEF TypeOK, UpdateInv, AtWork, Exited, BeforeLaunch, Outcomes
  <2> QED
    BY <2>1, <2>2, <2>3
<1>4. CASE LaunchMsi
  <2>1. worker.pc = "launch" /\ UNCHANGED service
    BY <1>4 DEF LaunchMsi, WorkerRest
  <2>2. CASE Report("Failed") /\ UNCHANGED installer
    BY <2>1, <2>2, ReportShape DEF TypeOK, UpdateInv, AtWork, Exited, BeforeLaunch, Outcomes
  <2>3. CASE To("wait") /\ installer' = [client |-> IF installer.transaction = None THEN "running" ELSE "failed",
                                       transaction |-> "running", of |-> staged.msi,
                                       ours |-> installer.transaction = None]
    <3>1. worker'.pc = "wait"
      BY <2>3, ToShape DEF TypeOK
    <3>2. installer'.ours = (installer.transaction = None)
          /\ installer'.client = IF installer.transaction = None THEN "running" ELSE "failed"
      BY <2>3
    <3> QED
      BY <2>1, <3>1, <3>2, Zenon DEF UpdateInv, AtWork, Exited, BeforeLaunch
  <2> QED
    BY <1>4, <2>2, <2>3 DEF LaunchMsi
<1>5. CASE InstallerExited
  <2>1. /\ worker.pc = "wait" /\ Exited /\ UNCHANGED <<service, installer>>
        /\ worker'.pc = "report" /\ worker'.outcome \in {"Completed", "Failed"}
    BY <1>5, ReportShape DEF InstallerExited, WorkerRest, TypeOK
  <2> QED
    BY <2>1 DEF UpdateInv, AtWork, Exited, BeforeLaunch, Outcomes
<1>6. CASE InstallerTimeout \/ InstallerTermination
  <2>1. /\ worker.pc = "wait" /\ UNCHANGED service
        /\ worker'.pc = "report" /\ worker'.outcome = "Indeterminate"
        /\ installer' = [installer EXCEPT !.client = None] \/ UNCHANGED installer
    BY <1>6, ReportShape DEF InstallerTimeout, InstallerTermination, TimeoutOutcome, WorkerRest, TypeOK
  <2>2. CASE UNCHANGED installer
    BY <2>1, <2>2 DEF UpdateInv, AtWork, Exited, BeforeLaunch, Outcomes
  <2>3. CASE installer' = [installer EXCEPT !.client = None]
    <3>1. installer'.client = "none" /\ installer'.ours = installer.ours
          /\ installer'.transaction = installer.transaction
      BY <2>3 DEF TypeOK, Installers, None
    <3> QED
      BY <2>1, <3>1 DEF UpdateInv, AtWork, Exited, BeforeLaunch, Outcomes
  <2> QED
    BY <2>1, <2>2, <2>3
<1>7. CASE FinishUpdateInstall
  <2>1. worker.pc = "report" /\ worker.outcome \in Outcomes /\ UNCHANGED installer
        /\ worker'.pc = "idle"
    BY <1>7, DefaultTypes DEF FinishUpdateInstall, TypeOK
  <2>2. worker.outcome = "Indeterminate" => service'.active
    BY <1>7 DEF FinishUpdateInstall, TypeOK, Services
  <2> QED
    BY <2>1, <2>2 DEF UpdateInv, AtWork, Exited, BeforeLaunch, Outcomes
<1>8. CASE DeadlinePasses
  <2>1. UNCHANGED <<service, installer>> /\ worker'.pc = worker.pc /\ worker'.outcome = worker.outcome
    BY <1>8 DEF DeadlinePasses, WorkerRest, TypeOK, Workers
  <2> QED
    BY <2>1 DEF UpdateInv, AtWork, Exited
<1>9. CASE HoldExpires
  <2>1. UNCHANGED <<worker, installer>> /\ service'.active = service.active
    BY <1>9 DEF HoldExpires, TypeOK, Services
  <2> QED
    BY <2>1 DEF UpdateInv, AtWork, Exited
<1>10. CASE TransactionEnds
  <2>1. /\ UNCHANGED <<service, worker>>
        /\ installer'.transaction = "none" /\ installer'.ours = installer.ours
        /\ installer'.client # "running"
    BY <1>10 DEF TransactionEnds, TypeOK, Installers, None
  <2> QED
    BY <2>1 DEF UpdateInv, AtWork, Exited
<1>11. CASE Upgrades \/ ServiceRestarts
  <2>1. worker'.pc = "idle" /\ ~installer'.ours
    BY <1>11, DefaultTypes, Zenon DEF Upgrades, ServiceRestarts, TypeOK, Installers
  <2> QED
    BY <2>1 DEF UpdateInv, AtWork, BeforeLaunch
<1>12. CASE UNCHANGED vars
  BY <1>0, <1>12 DEF vars
<1> QED
  BY <1>0, <1>1, <1>2, <1>3, <1>4, <1>5, <1>6, <1>7, <1>8, <1>9, <1>10, <1>11, <1>12, TraySteps
     DEF Next, Worker, CheckThread, World

(* Every step launches verified content only.                              *)
LEMMA SignedStep == TypeOK /\ SignedInv /\ [Next]_vars => SignedInv'
<1> SUFFICES ASSUME TypeOK, SignedInv, [Next]_vars PROVE SignedInv'
  OBVIOUS
<1>0. ASSUME UNCHANGED <<worker, staged, installer>> PROVE SignedInv'
  BY <1>0 DEF SignedInv
<1>1. ASSUME worker'.pc # "launch", UNCHANGED installer PROVE SignedInv'
  BY <1>1 DEF SignedInv
<1>2. CASE InstallAccepted
  BY <1>1, <1>2, DefaultTypes DEF InstallAccepted, Accepted
<1>3. CASE StartUpdateWorker
  <2>1. worker'.pc \in {"stage", "idle"}
    BY <1>3, ToShape, DefaultTypes DEF StartUpdateWorker, TypeOK
  <2> QED
    BY <1>1, <1>3, <2>1 DEF StartUpdateWorker
<1>4. CASE Stage \/ Download \/ Rename
  <2>1. worker'.pc \in {"download", "rename", "verify", "report"}
    BY <1>4, ToShape, ReportShape DEF Stage, Download, Rename, TypeOK
  <2> QED
    BY <1>1, <1>4, <2>1 DEF Stage, Download, Rename
<1>5. CASE Verify
  <2>1. CASE Verified(staged.msi) /\ To("launch") /\ UNCHANGED staged
    BY <1>5, <2>1 DEF Verify, Verified, SignedInv
  <2>2. CASE Report("Failed")
    BY <1>1, <1>5, <2>2, ReportShape DEF Verify, TypeOK
  <2> QED
    BY <1>5, <2>1, <2>2 DEF Verify
<1>6. CASE LaunchMsi
  <2>1. worker'.pc # "launch"
    BY <1>6, ToShape, ReportShape DEF LaunchMsi, TypeOK
  <2>2. installer' # installer => installer'.of = staged.msi
    BY <1>6 DEF LaunchMsi
  <2> QED
    BY <1>6, <2>1, <2>2 DEF LaunchMsi, SignedInv
<1>7. CASE InstallerExited \/ InstallerTimeout \/ InstallerTermination
  <2>1. worker'.pc = "report"
    BY <1>7, ReportShape DEF InstallerExited, InstallerTimeout, InstallerTermination, TypeOK
  <2>2. installer'.of = installer.of
    BY <1>7 DEF InstallerExited, InstallerTimeout, InstallerTermination, TypeOK, Installers
  <2> QED
    BY <2>1, <2>2 DEF SignedInv
<1>8. CASE FinishUpdateInstall
  BY <1>1, <1>8, DefaultTypes DEF FinishUpdateInstall
<1>9. CASE DeadlinePasses
  <2>1. worker'.pc = worker.pc
    BY <1>9 DEF DeadlinePasses, TypeOK, Workers
  <2> QED
    BY <1>9, <2>1 DEF DeadlinePasses, SignedInv
<1>10. CASE HoldExpires
  BY <1>0, <1>10 DEF HoldExpires
<1>11. CASE TransactionEnds
  <2>1. installer'.of = installer.of
    BY <1>11 DEF TransactionEnds, TypeOK, Installers
  <2> QED
    BY <1>11, <2>1 DEF TransactionEnds, SignedInv
<1>12. CASE Upgrades \/ ServiceRestarts
  <2>1. worker'.pc = "idle" /\ installer'.of = installer.of
    BY <1>12, DefaultTypes, Zenon DEF Upgrades, ServiceRestarts, TypeOK, Installers
  <2> QED
    BY <2>1 DEF SignedInv
<1>13. CASE UNCHANGED vars
  BY <1>0, <1>13 DEF vars
<1> QED
  BY <1>0, <1>2, <1>3, <1>4, <1>5, <1>6, <1>7, <1>8, <1>9, <1>10, <1>11, <1>12, <1>13, TraySteps
     DEF Next, Worker, CheckThread, World

(* Backups stay paused until the installer this service started is known   *)
(* to be done, however an installation is timed out, killed, interrupted   *)
(* or asked for again (wait_for_installer, finish_update_install).         *)
THEOREM WaitCorrect == Spec => []BackupsWaitForInstaller
<1>1. UpdateInv => BackupsWaitForInstaller
  BY DEF UpdateInv, AtWork, BackupsWaitForInstaller
<1> QED
  BY <1>1, TypeCorrect, UpdateInit, UpdateStep, PTL DEF Spec

(* The installer is only ever started on content the signature covers      *)
(* (download_verify_and_launch).                                           *)
THEOREM SignedCorrect == Spec => []InstallsSignedContent
<1>1. SignedInv => InstallsSignedContent
  BY DEF SignedInv, InstallsSignedContent
<1> QED
  BY <1>1, TypeCorrect, UpdateInit, SignedStep, PTL DEF Spec
=============================================================================
