------------------------------ MODULE TrayProofs ------------------------------
(***************************************************************************)
(* Proofs about the tray's watch and its balloon routes, for every number  *)
(* of attempts, restarts, fast ticks and pending balloons.                 *)
(* AnnouncesRequestedBackup rests on what the service's status can say: a  *)
(* running or ended backup is the latest attempt, the attempt the watched  *)
(* request cannot have been about is never above the latest one, and a     *)
(* watch sees a backup running only when it began after that attempt.      *)
(* ClickOpensItsPage rests on InStep: the messages under way, read in      *)
(* order, use up the pending routes of their own balloons, and the routes  *)
(* that are left are those of the shell's queue.                           *)
(***************************************************************************)
EXTENDS Tray, TLAPS

(* The provers that try a leaf which names none, in this order.            *)
USE SMT, Zenon, Z3T(30)

(* Waiting for an attempt after the one asked about.                       *)
WatchInv ==
    /\ service.state \in {"Running", "Ended"} => service.last_attempt = attempts
    /\ service.state = "Running" => attempts > 0
    /\ service.state = "Ended" => ended = attempts
    /\ service.last_attempt <= attempts
    /\ ui.baseline.attempt <= attempts
    /\ ui.pc = "send" => ui.command # None
    /\ ui.pc = "send" /\ ui.command = "cancel" => ~ui.baseline.known
    /\ ui.pc = "menu" => ui.command # None
    /\ watch.armed => asked <= attempts
    /\ watch.armed /\ service.state = "Running" => asked < attempts
    /\ watch.armed /\ watch.observed => asked < attempts
    /\ watch.armed /\ watch.baseline.known => asked = watch.baseline.attempt

TrayInv == TypeOK /\ WatchInv

-----------------------------------------------------------------------------
(* Balloons keep their type                                                *)

(* No routes are routes.                                                   *)
LEMMA NoRoutes == <<>> \in Seq(Destinations)
OBVIOUS

(* Reserving, giving back and using up a route.                            *)
LEMMA NotifyType ==
    ASSUME NEW b \in Balloon, NEW d \in Destinations, NEW accepted \in BOOLEAN
    PROVE  Notify(b, d, accepted) \in Balloon
<1>1. b.pending \in Seq(Destinations) /\ b.queue \in Seq(Destinations)
  BY DEF Balloon
<1>2. Append(b.pending, d) \in Seq(Destinations) /\ Append(b.queue, d) \in Seq(Destinations)
  BY <1>1
<1> DEFINE p == Append(b.pending, d)
           reserved == [b EXCEPT !.pending = p]
<1>3. reserved \in Balloon /\ reserved.queue = b.queue /\ reserved.pending = p
  BY <1>2, Zenon DEF Balloon
<1>4. [reserved EXCEPT !.queue = Append(@, d)] \in Balloon
  BY <1>2, <1>3, Zenon DEF Balloon
<1>5. CancelLatest(reserved) \in Balloon
  <2>1. SubSeq(p, 1, Len(p) - 1) \in Seq(Destinations) /\ p # <<>>
    BY <1>1, <1>2
  <2> HIDE DEF p
  <2> QED
    BY <1>3, <2>1, Zenon DEF CancelLatest, Balloon
<1> HIDE DEF p
<1> QED
  BY <1>4, <1>5 DEF Notify, p

(* The callbacks.                                                          *)
LEMMA RouteType ==
    ASSUME NEW b \in Balloon
    PROVE  Shown(b) \in Balloon /\ Dismissed(b) \in Balloon /\ Clear(b) \in Balloon
<1>1. b.pending \in Seq(Destinations)
  BY DEF Balloon
<1>2. b.pending # <<>> => Tail(b.pending) \in Seq(Destinations) /\ Head(b.pending) \in Destinations
  BY <1>1
<1>3. PopFront(b) \in Balloon
  BY <1>2, Zenon DEF PopFront, Balloon
<1>4. Shown(b) \in Balloon
  BY <1>2, <1>3, Zenon DEF Shown, Balloon
<1>5. Dismissed(b) \in Balloon
  BY <1>3 DEF Dismissed, Balloon
<1>6. Clear(b) \in Balloon
  BY NoRoutes, Zenon DEF Clear, Balloon
<1> QED
  BY <1>4, <1>5, <1>6

(* The shell and the window procedure keep the types of their queues.      *)
LEMMA BalloonStep ==
    ASSUME BalloonTypeOK,
           \/ ShellShows \/ ShellDrops \/ ShellEnds \/ ExplorerRestarts
           \/ OnShown \/ OnDismissed \/ OnClicked \/ OnTaskbarCreated
    PROVE  BalloonTypeOK'
<1> USE DEF BalloonTypeOK
<1>1. /\ balloon.queue \in Seq(Destinations) /\ balloon.showing \in Destinations \cup {None}
      /\ balloon.queue # <<>> => /\ Tail(balloon.queue) \in Seq(Destinations)
                                 /\ Head(balloon.queue) \in Destinations
  BY DEF Balloon
<1>2. ASSUME NEW event \in {"show", "dismiss", "click"}, NEW of \in Destinations, Post(event, of)
      PROVE  messages' \in Seq(Callbacks)
  BY <1>2 DEF Post, Callbacks
<1>3. CASE ShellShows
  BY <1>1, <1>2, <1>3, Zenon DEF ShellShows, Balloon
<1>4. CASE ShellDrops
  BY <1>1, <1>2, <1>4, Zenon DEF ShellDrops, Balloon
<1>5. CASE ShellEnds
  BY <1>1, <1>2, <1>5, Zenon DEF ShellEnds, Balloon
<1>6. CASE ExplorerRestarts
  <2>1. messages' \in Seq(Callbacks)
    BY <1>6 DEF ExplorerRestarts, Post, Callbacks
  <2> QED
    BY <1>6, <2>1, NoRoutes, Zenon DEF ExplorerRestarts, Balloon
<1>7. ASSUME NEW event, Dispatch(event) PROVE messages' \in Seq(Callbacks)
  BY <1>7 DEF Dispatch
<1>8. CASE OnShown \/ OnDismissed \/ OnClicked
  BY <1>7, <1>8, RouteType DEF OnShown, OnDismissed, OnClicked
<1>9. CASE OnTaskbarCreated
  <2>1. Clear(balloon) \in Balloon
    BY RouteType
  <2>2. balloon' \in Balloon
    BY <1>9, <2>1, Zenon DEF OnTaskbarCreated, Balloon
  <2> QED
    BY <1>7, <1>9, <2>2 DEF OnTaskbarCreated
<1> QED
  BY <1>3, <1>4, <1>5, <1>6, <1>8, <1>9

-----------------------------------------------------------------------------
(* The invariant is inductive                                              *)

(* The constant records have their types.                                  *)
LEMMA TrayDefaults ==
    /\ Unknown \in Baselines /\ ~Unknown.known /\ Unknown.attempt = 0
    /\ NoWatch \in Watches /\ ~NoWatch.armed
    /\ InLoop \in WindowThreads /\ InLoop.baseline.attempt = 0 /\ InLoop.pc = "loop"
<1>1. Unknown \in Baselines /\ ~Unknown.known /\ Unknown.attempt = 0
  BY TrayAssumption DEF Unknown, Baselines, Attempt
<1>2. NoWatch \in Watches /\ ~NoWatch.armed
  BY <1>1, TrayAssumption DEF NoWatch, Watches
<1>3. InLoop \in WindowThreads /\ InLoop.baseline.attempt = 0 /\ InLoop.pc = "loop"
  BY <1>1 DEF InLoop, WindowThreads
<1> QED
  BY <1>1, <1>2, <1>3

(* It holds when the tray starts.                                          *)
LEMMA TrayInit == Init => TrayInv
<1> SUFFICES ASSUME Init PROVE TrayInv
  OBVIOUS
<1>1. BalloonTypeOK
  BY NoRoutes DEF Init, BalloonInit, BalloonTypeOK, Balloon, Destinations
<1>2. service \in Statuses /\ service.state \in {"Unconfigured", "Idle"} /\ service.last_attempt = 0
  BY TrayAssumption DEF Init, Statuses, States, Attempt
<1>3. attempts = 0 /\ ended = 0 /\ asked = 0 /\ restarts = 0
  BY DEF Init
<1> QED
  BY <1>1, <1>2, <1>3, TrayDefaults, TrayAssumption DEF Init, TrayInv, TypeOK, WatchInv, Attempt

(* The service's steps keep it.                                            *)
LEMMA ServiceStep == ASSUME TrayInv, Service PROVE TrayInv'
<1>1. UNCHANGED <<ui, watch, asked, balloon, messages>>
  BY DEF Service, BackupStarts, BackupEnds, Reevaluates, ServiceRestarts
<1>2. attempts \in Nat /\ asked \in Nat /\ service \in Statuses /\ restarts \in Nat
      /\ service.last_attempt \in Nat /\ ui.baseline.attempt \in Nat
  BY TrayAssumption DEF TrayInv, TypeOK, Attempt, Statuses, WindowThreads, Baselines
<1>3. CASE BackupStarts
  <2>1. attempts' = attempts + 1 /\ attempts' \in Attempt /\ UNCHANGED <<ended, restarts>>
    BY <1>2, <1>3, TrayAssumption DEF BackupStarts, Attempt
  <2>2. service' \in Statuses /\ service'.state = "Running" /\ service'.last_attempt = attempts'
    BY <1>3, <2>1 DEF BackupStarts, Statuses, States
  <2>3. TypeOK'
    BY <1>1, <2>1, <2>2 DEF TrayInv, TypeOK, BalloonTypeOK
  <2>4. WatchInv'
    BY <1>1, <1>2, <2>1, <2>2 DEF TrayInv, WatchInv
  <2> QED
    BY <2>3, <2>4 DEF TrayInv
<1>4. CASE BackupEnds
  <2>1. service' \in Statuses /\ service'.state = "Ended"
        /\ service'.last_attempt = service.last_attempt
    BY <1>2, <1>4 DEF BackupEnds, Statuses, States
  <2>2. service.state = "Running" /\ ended' = attempts /\ UNCHANGED <<attempts, restarts>>
    BY <1>4 DEF BackupEnds
  <2>3. TypeOK'
    BY <1>1, <2>1, <2>2 DEF TrayInv, TypeOK, BalloonTypeOK
  <2>4. WatchInv'
    BY <1>1, <2>1, <2>2 DEF TrayInv, WatchInv
  <2> QED
    BY <2>3, <2>4 DEF TrayInv
<1>5. CASE Reevaluates \/ ServiceRestarts
  <2>1. /\ service' \in Statuses /\ service'.state \in {"Idle", "Unconfigured"}
        /\ service'.last_attempt \in {0, service.last_attempt}
    BY <1>2, <1>5, TrayAssumption DEF Reevaluates, ServiceRestarts, Statuses, States, Attempt
  <2>2. UNCHANGED <<attempts, ended>> /\ restarts' \in 0 .. MaxRestarts
    BY <1>2, <1>5, TrayAssumption DEF Reevaluates, ServiceRestarts, TrayInv, TypeOK
  <2>3. TypeOK'
    BY <1>1, <2>1, <2>2 DEF TrayInv, TypeOK, BalloonTypeOK
  <2>4. WatchInv'
    BY <1>1, <1>2, <2>1, <2>2 DEF TrayInv, WatchInv
  <2> QED
    BY <2>3, <2>4 DEF TrayInv
<1> QED
  BY <1>3, <1>4, <1>5 DEF Service

(* So do the menu and the requests it sends.                               *)
LEMMA MenuStep ==
    ASSUME TrayInv, OpenMenu \/ CloseMenu \/ ChooseBackup \/ SendAction \/ Exit
    PROVE  TrayInv'
<1>1. attempts \in Nat /\ asked \in Nat /\ service \in Statuses /\ ui \in WindowThreads
      /\ service.last_attempt \in Attempt /\ ui.baseline \in Baselines /\ balloon \in Balloon
      /\ service.last_attempt <= attempts /\ attempts \in Attempt
  BY TrayAssumption
     DEF TrayInv, TypeOK, Attempt, Statuses, WindowThreads, Baselines, BalloonTypeOK, WatchInv
<1>2. ASSUME ui' \in WindowThreads, ui'.baseline.attempt <= attempts,
             ui'.pc \in {"send", "menu"} => ui'.command # None,
             ui'.pc = "send" /\ ui'.command = "cancel" => ~ui'.baseline.known,
             UNCHANGED <<service, attempts, ended, watch, asked, restarts, balloon, messages>>
      PROVE  TrayInv'
  BY <1>2 DEF TrayInv, TypeOK, BalloonTypeOK, WatchInv
<1>3. CASE OpenMenu
  <2>1. PICK command \in {"run", "cancel"} : ui' = [InLoop EXCEPT !.pc = "menu", !.command = command]
    BY <1>3 DEF OpenMenu
  <2>2. ui' \in WindowThreads /\ ui'.baseline = InLoop.baseline /\ ui'.pc = "menu"
        /\ ui'.command # None
    BY <2>1, TrayDefaults, Zenon DEF WindowThreads, None
  <2>3. ui'.baseline.attempt <= attempts
    BY <1>1, <2>2, TrayDefaults
  <2>4. UNCHANGED <<service, attempts, ended, watch, asked, restarts, balloon, messages>>
    BY <1>3 DEF OpenMenu
  <2> QED
    BY <1>2, <2>2, <2>3, <2>4
<1>4. CASE CloseMenu
  BY <1>1, <1>2, <1>4, TrayDefaults DEF CloseMenu
<1>5. CASE ChooseBackup
  <2>1. PICK baseline : /\ ui' = [ui EXCEPT !.pc = "send", !.baseline = baseline]
                        /\ baseline \in {Unknown, [known |-> TRUE, attempt |-> service.last_attempt]}
                        /\ ui.command # "run" => baseline = Unknown
    BY <1>5 DEF ChooseBackup, Baseline
  <2>2. baseline \in Baselines /\ baseline.attempt <= attempts
    <3>1. CASE baseline = Unknown
      BY <1>1, <3>1, TrayDefaults
    <3>2. CASE baseline = [known |-> TRUE, attempt |-> service.last_attempt]
      BY <1>1, <3>2 DEF Baselines
    <3> QED
      BY <2>1, <3>1, <3>2
  <2>3. ui' \in WindowThreads /\ ui'.baseline = baseline /\ ui'.command = ui.command
    BY <1>1, <2>1, <2>2, Zenon DEF WindowThreads
  <2>4. ui.command # None
    BY <1>5 DEF ChooseBackup, TrayInv, WatchInv
  <2> QED
    BY <1>2, <1>5, <2>1, <2>2, <2>3, <2>4, TrayDefaults DEF ChooseBackup
<1>6. CASE SendAction
  <2>1. ui' = InLoop /\ UNCHANGED <<service, attempts, ended, restarts, messages>>
    BY <1>6 DEF SendAction
  <2>2. CASE UNCHANGED <<watch, asked, balloon>>
    BY <1>1, <1>2, <2>1, <2>2, TrayDefaults
  <2>3. CASE /\ Accepted(ui.command)
             /\ watch' = StartMonitor(ui.baseline, ui.command = "cancel")
             /\ asked' = NotAbout
             /\ \E shell \in ShellAnswers : balloon' = Notify(balloon, "Default", shell)
    <3>1. ShellAnswers \subseteq BOOLEAN /\ "Default" \in Destinations
      BY <1>1 DEF ShellAnswers, Balloon, Destinations
    <3>2. balloon' \in Balloon
      BY <1>1, <2>3, <3>1, NotifyType
    <3>3. /\ watch' \in Watches /\ watch'.armed /\ watch'.baseline = ui.baseline
          /\ watch'.observed = (ui.command = "cancel")
      BY <1>1, <2>3, TrayAssumption DEF StartMonitor, Watches
    <3>4. /\ ui.command = "cancel" => service.state = "Running" /\ attempts > 0
          /\ ui.command = "cancel" => ~ui.baseline.known
          /\ ui.command = "run" => service.state # "Running"
          /\ ui.command \in {"run", "cancel"} /\ ui.baseline.attempt <= attempts
      BY <1>1, <1>6, <2>3 DEF SendAction, Accepted, TrayInv, WatchInv, WindowThreads
    <3>5. /\ asked' \in Attempt /\ asked' <= attempts
          /\ ui.command = "cancel" => asked' < attempts
          /\ ui.command = "run" /\ ui.baseline.known => asked' = ui.baseline.attempt
      BY <1>1, <2>3, <3>4, TrayAssumption DEF NotAbout, Attempt, Baselines
    <3>6. TypeOK'
      BY <2>1, <3>2, <3>3, <3>5, TrayDefaults DEF TrayInv, TypeOK, BalloonTypeOK
    <3>7. /\ watch'.observed => asked' < attempts
          /\ service.state = "Running" => asked' < attempts
          /\ watch'.baseline.known => asked' = watch'.baseline.attempt
      BY <3>3, <3>4, <3>5, Zenon
    <3>8. WatchInv'
      BY <1>1, <2>1, <3>5, <3>7, TrayDefaults DEF TrayInv, WatchInv
    <3> QED
      BY <3>6, <3>8 DEF TrayInv
  <2> QED
    BY <1>6, <2>2, <2>3 DEF SendAction
<1>7. CASE Exit
  <2>1. Clear(balloon) \in Balloon
    BY <1>1, RouteType
  <2>2. balloon' \in Balloon
    BY <1>7, <2>1, NoRoutes, Zenon DEF Exit, Balloon
  <2>3. ui' \in WindowThreads /\ ui'.baseline.attempt = 0 /\ ui'.pc = "exited"
    BY <1>7, TrayDefaults DEF Exit, WindowThreads
  <2>4. watch' = NoWatch /\ asked' = 0 /\ messages' = <<>>
        /\ UNCHANGED <<service, attempts, ended, restarts>>
    BY <1>7 DEF Exit
  <2>5. TypeOK'
    BY <1>1, <2>2, <2>3, <2>4, TrayDefaults, TrayAssumption DEF TrayInv, TypeOK, BalloonTypeOK, Attempt
  <2> QED
    BY <1>1, <2>3, <2>4, <2>5, TrayDefaults DEF TrayInv, WatchInv
<1> QED
  BY <1>3, <1>4, <1>5, <1>6, <1>7

(* The watch: what a tick, an end and a running backup make of it.         *)
LEMMA WatchShapes ==
    ASSUME watch \in Watches
    PROVE  /\ Ticked \in Watches /\ Ticked.baseline = watch.baseline
           /\ Ticked.observed = watch.observed /\ Ticked.armed = watch.armed
           /\ [Ticked EXCEPT !.observed = TRUE] \in Watches
           /\ [Ticked EXCEPT !.observed = TRUE].baseline = watch.baseline
<1> DEFINE ticks == IF watch.ticks >= FastPollTicks THEN watch.ticks ELSE watch.ticks + 1
<1>1. ticks \in 0 .. FastPollTicks
  BY TrayAssumption DEF Watches
<1>2. Ticked = [watch EXCEPT !.ticks = ticks]
  BY DEF Ticked
<1> HIDE DEF ticks
<1>3. /\ Ticked \in Watches /\ Ticked.baseline = watch.baseline
      /\ Ticked.observed = watch.observed /\ Ticked.armed = watch.armed
  BY <1>1, <1>2 DEF Watches
<1> HIDE DEF Ticked
<1> QED
  BY <1>3, Zenon DEF Watches

(* Polls and the passing of time keep the invariant.                       *)
LEMMA PollStep == ASSUME TrayInv, Poll \/ TwoHoursPass PROVE TrayInv'
<1>1. UNCHANGED <<service, attempts, ended, ui, restarts, messages>> /\ watch.armed
  BY DEF Poll, PollUnanswered, PollExpired, PollStatus, TwoHoursPass
<1>2. balloon \in Balloon /\ watch \in Watches /\ 0 \in Attempt /\ attempts \in Nat
      /\ ShellAnswers \subseteq BOOLEAN /\ "Default" \in Destinations
  BY TrayAssumption
     DEF TrayInv, TypeOK, BalloonTypeOK, Attempt, ShellAnswers, Balloon, Destinations
<1>3. \A b \in Balloon, shell \in ShellAnswers : Notify(b, "Default", shell) \in Balloon
  BY <1>2, NotifyType
<1>4. ASSUME watch' = NoWatch, asked' = 0, balloon' \in Balloon PROVE TrayInv'
  <2>1. TypeOK'
    BY <1>1, <1>2, <1>4, TrayDefaults DEF TrayInv, TypeOK, BalloonTypeOK
  <2>2. WatchInv'
    BY <1>1, <1>4, TrayDefaults DEF TrayInv, WatchInv
  <2> QED
    BY <2>1, <2>2 DEF TrayInv
<1>5. ASSUME NEW b \in Balloon, NEW shell \in ShellAnswers, Finish(b, shell) PROVE TrayInv'
  BY <1>3, <1>4, <1>5 DEF Finish
<1>6. ASSUME watch' \in Watches, asked' = asked, balloon' \in Balloon,
             watch'.baseline = watch.baseline,
             watch'.observed = watch.observed
      PROVE  TrayInv'
  <2>1. TypeOK'
    BY <1>1, <1>6 DEF TrayInv, TypeOK, BalloonTypeOK
  <2>2. WatchInv'
    BY <1>1, <1>6 DEF TrayInv, WatchInv
  <2> QED
    BY <2>1, <2>2 DEF TrayInv
<1>7. CASE PollUnanswered
  BY <1>2, <1>5, <1>6, <1>7, WatchShapes DEF PollUnanswered
<1>8. CASE PollExpired
  BY <1>2, <1>5, <1>8 DEF PollExpired
<1>9. CASE PollStatus
  <2>1. PICK shell \in ShellAnswers :
           \/ /\ service.state = "Running"
              /\ watch' = [Ticked EXCEPT !.observed = TRUE]
              /\ balloon' = StartedNotice(shell)
              /\ UNCHANGED asked
           \/ Finish(WaitingNotice(shell), shell)
           \/ /\ watch' = Ticked
              /\ balloon' = WaitingNotice(shell)
              /\ UNCHANGED asked
    BY <1>9 DEF PollStatus
  <2>2. StartedNotice(shell) \in Balloon /\ WaitingNotice(shell) \in Balloon
    BY <1>2, <1>3 DEF StartedNotice, WaitingNotice
  <2> HIDE DEF Ticked
  <2>3. CASE /\ service.state = "Running"
             /\ watch' = [Ticked EXCEPT !.observed = TRUE]
             /\ balloon' = StartedNotice(shell)
             /\ UNCHANGED asked
    <3>1. watch' \in Watches /\ watch'.baseline = watch.baseline
      BY <1>2, <2>3, WatchShapes
    <3>2. TypeOK'
      BY <1>1, <2>2, <2>3, <3>1 DEF TrayInv, TypeOK, BalloonTypeOK
    <3>3. WatchInv'
      BY <1>1, <2>3, <3>1 DEF TrayInv, WatchInv
    <3> QED
      BY <3>2, <3>3 DEF TrayInv
  <2>4. CASE watch' = Ticked /\ balloon' = WaitingNotice(shell) /\ UNCHANGED asked
    BY <1>2, <1>6, <2>2, <2>4, WatchShapes
  <2> QED
    BY <1>5, <2>1, <2>2, <2>3, <2>4
<1>10. CASE TwoHoursPass
  <2>1. watch' \in Watches /\ watch'.baseline = watch.baseline /\ watch'.observed = watch.observed
    BY <1>2, <1>10, Zenon DEF TwoHoursPass, Watches
  <2> QED
    BY <1>2, <1>6, <1>10, <2>1 DEF TwoHoursPass
<1> QED
  BY <1>7, <1>8, <1>9, <1>10 DEF Poll

(* The invariant holds in every state.                                     *)
LEMMA TrayInvariant == Spec => []TrayInv
<1>1. TrayInv /\ [Next]_vars => TrayInv'
  <2> SUFFICES ASSUME TrayInv, [Next]_vars PROVE TrayInv'
    OBVIOUS
  <2>1. ASSUME BalloonTypeOK', restarts' \in 0 .. MaxRestarts,
               UNCHANGED <<service, attempts, ended, ui, watch, asked>>
        PROVE  TrayInv'
    BY <2>1 DEF TrayInv, TypeOK, WatchInv
  <2>2. BalloonTypeOK /\ balloon \in Balloon /\ restarts \in 0 .. MaxRestarts
    BY DEF TrayInv, TypeOK, BalloonTypeOK
  <2>3. CASE Shell
    BY <2>1, <2>2, <2>3, BalloonStep DEF Shell
  <2>4. CASE Callback
    BY <2>1, <2>2, <2>4, BalloonStep DEF Callback
  <2>5. CASE UpdateNotice
    <3>1. balloon' \in Balloon
      BY <2>2, <2>5, NotifyType, ZenonT(30) DEF UpdateNotice, ShellAnswers, Balloon, Destinations
    <3> QED
      BY <2>1, <2>2, <2>5, <3>1 DEF UpdateNotice, BalloonTypeOK
  <2>6. CASE UNCHANGED vars
    BY <2>1, <2>2, <2>6 DEF vars, BalloonTypeOK
  <2> QED
    BY <2>3, <2>4, <2>5, <2>6, ServiceStep, MenuStep, PollStep DEF Next, Window
<1> QED
  BY <1>1, TrayInit, PTL DEF Spec

-----------------------------------------------------------------------------
(* The tray's routes stay in step with the shell                           *)

(* What the tray will have as its visible balloon before callback i: what  *)
(* the callback before it leaves.                                          *)
Open(b, m, i) ==
    IF i = 1 THEN b.active ELSE IF m[i - 1].event = "show" THEN m[i - 1].of ELSE None

(* Callback i takes a route off the queue.                                 *)
Uses(b, m, i) == m[i].event = "show" \/ (m[i].event = "dismiss" /\ Open(b, m, i) = None)

Restarted(m) == m # <<>> /\ m[Len(m)].event = "taskbarCreated"

CallbacksInStep(b, m) ==
    /\ \A i \in 1 .. Len(m) :
         /\ m[i].event = "taskbarCreated" => i = Len(m)
         /\ m[i].event = "show" => Open(b, m, i) = None
         /\ m[i].event = "click" => Open(b, m, i) = m[i].of
         /\ m[i].event = "dismiss" => Open(b, m, i) \in {None, m[i].of}
    /\ Restarted(m) => ~b.icon /\ b.queue = <<>> /\ b.showing = None
    /\ ~Restarted(m) => Open(b, m, Len(m) + 1) = b.showing

Counts(b, m, used) ==
    /\ used[0] = 0
    /\ \A i, j \in 0 .. Len(m) : i <= j => used[i] <= used[j]
    /\ \A i \in 1 .. Len(m) :
         IF Uses(b, m, i) THEN used[i] = used[i - 1] + 1 /\ b.pending[used[i]] = m[i].of
                          ELSE used[i] = used[i - 1]
    /\ ~Restarted(m) => /\ Len(b.pending) = used[Len(m)] + Len(b.queue)
                        /\ \A k \in 1 .. Len(b.queue) : b.queue[k] = b.pending[used[Len(m)] + k]

InStep(b, m) ==
    /\ CallbacksInStep(b, m)
    /\ \E used \in [0 .. Len(m) -> 0 .. Len(b.pending)] : Counts(b, m, used)

(* The shell's step from b to c that posts callback e.                     *)
Posts(b, c, e) ==
    /\ c.active = b.active /\ c.pending = b.pending
    /\ e.event = "show" => b.showing = None
    /\ e.event = "click" => b.showing = e.of
    /\ e.event = "dismiss" => b.showing \in {None, e.of}
    /\ e.event = "taskbarCreated" => ~c.icon /\ c.queue = <<>> /\ c.showing = None
    /\ e.event # "taskbarCreated" => c.showing = IF e.event = "show" THEN e.of ELSE None
    /\ IF e.event = "show" \/ (e.event = "dismiss" /\ b.showing = None)
       THEN b.queue # <<>> /\ e.of = Head(b.queue) /\ c.queue = Tail(b.queue)
       ELSE e.event # "taskbarCreated" => c.queue = b.queue

(* The window procedure's step from b to c for the first callback of m.    *)
Takes(b, c, m) ==
    /\ c.icon = b.icon /\ c.queue = b.queue /\ c.showing = b.showing
    /\ c.active = Open(b, m, 2)
    /\ c.pending = IF Uses(b, m, 1) THEN Tail(b.pending) ELSE b.pending

(* Arithmetic of shifted positions.                                        *)
LEMMA Shifted ==
    /\ \A u, k \in Nat : u + (k + 1) = (u + 1) + k
    /\ \A u, o, p \in Nat : o <= u /\ u + 1 <= p => (u + 1) - o \in 1 .. p - o
OBVIOUS

(* Moving one from the second part to the first keeps the sum.             *)
LEMMA MovedOne ==
    ASSUME NEW u \in Nat, NEW q \in Nat, NEW r \in Nat, q = r - 1
    PROVE  u + r = (u + 1) + q
OBVIOUS

(* Taking from the sum is taking from its first part.                      *)
LEMMA TakenFromSum ==
    ASSUME NEW u \in Nat, NEW o \in Nat, NEW q \in Nat
    PROVE  (u + q) - o = (u - o) + q
OBVIOUS

(* A callback the shell posts keeps the two in step.                       *)
LEMMA PostInStep ==
    ASSUME NEW b \in Balloon, NEW c \in Balloon, NEW m \in Seq(Callbacks), NEW e \in Callbacks,
           InStep(b, m), ~Restarted(m), Posts(b, c, e)
    PROVE  InStep(c, Append(m, e))
<1> DEFINE n == Len(m)
           m2 == Append(m, e)
<1>1. n \in Nat /\ Len(m2) = n + 1 /\ m2[n + 1] = e /\ \A i \in 1 .. n : m2[i] = m[i]
  OBVIOUS
<1>2. b.pending \in Seq(Destinations) /\ b.queue \in Seq(Destinations) /\ Len(b.pending) \in Nat
      /\ Len(b.queue) \in Nat
  BY DEF Balloon
<1>0. /\ c.active = b.active /\ c.pending = b.pending
      /\ e.event = "show" => b.showing = None
      /\ e.event = "click" => b.showing = e.of
      /\ e.event = "dismiss" => b.showing \in {None, e.of}
      /\ e.event = "taskbarCreated" => ~c.icon /\ c.queue = <<>> /\ c.showing = None
      /\ e.event # "taskbarCreated" => c.showing = IF e.event = "show" THEN e.of ELSE None
  BY DEF Posts
<1>3. Restarted(m2) <=> e.event = "taskbarCreated"
  BY <1>1 DEF Restarted
<1> HIDE DEF n, m2
<1>4. /\ \A i \in 1 .. n + 1 : Open(c, m2, i) = Open(b, m, i)
      /\ Open(c, m2, n + 2) = IF e.event = "show" THEN e.of ELSE None
  BY <1>0, <1>1 DEF Open
<1>5. Open(b, m, n + 1) = b.showing
  BY DEF InStep, CallbacksInStep, n
<1>6. CallbacksInStep(c, m2)
  <2>1. ASSUME NEW i \in 1 .. n + 1
        PROVE  /\ m2[i].event = "taskbarCreated" => i = n + 1
               /\ m2[i].event = "show" => Open(c, m2, i) = None
               /\ m2[i].event = "click" => Open(c, m2, i) = m2[i].of
               /\ m2[i].event = "dismiss" => Open(c, m2, i) \in {None, m2[i].of}
    <3>1. CASE i = n + 1
      BY <1>0, <1>1, <1>4, <1>5, <3>1
    <3>2. CASE i \in 1 .. n
      <4>1. m[i].event # "taskbarCreated"
        BY <3>2, <1>1 DEF InStep, CallbacksInStep, Restarted, n
      <4> QED
        BY <1>1, <1>4, <3>2, <4>1 DEF InStep, CallbacksInStep, n
    <3> QED
      BY <1>1, <3>1, <3>2
  <2> QED
    BY <2>1, <1>0, <1>1, <1>3, <1>4 DEF CallbacksInStep
<1>7. PICK used \in [0 .. n -> 0 .. Len(b.pending)] : Counts(b, m, used)
  BY DEF InStep, n
<1>8. used[n] \in Nat /\ Len(b.pending) = used[n] + Len(b.queue)
  BY <1>1, <1>7 DEF Counts, n
<1>14. \A k \in 1 .. Len(b.queue) : b.queue[k] = b.pending[used[n] + k]
  BY <1>7 DEF Counts, n
<1>9. Uses(c, m2, n + 1) <=> e.event = "show" \/ (e.event = "dismiss" /\ b.showing = None)
  <2>1. m2[n + 1] = e /\ Open(c, m2, n + 1) = b.showing
    <3>1. n + 1 \in 1 .. n + 1
      BY <1>1
    <3> QED
      BY <1>1, <1>4, <1>5, <3>1, Zenon
  <2> QED
    BY <2>1, Zenon DEF Uses
<1> DEFINE last == IF Uses(c, m2, n + 1) THEN used[n] + 1 ELSE used[n]
           used2 == [i \in 0 .. n + 1 |-> IF i = n + 1 THEN last ELSE used[i]]
<1>10. /\ last \in 0 .. Len(b.pending) /\ used[n] <= last
       /\ Uses(c, m2, n + 1) => last = used[n] + 1 /\ b.pending[last] = e.of
       /\ ~Uses(c, m2, n + 1) => last = used[n]
       /\ e.event # "taskbarCreated" =>
             /\ Len(b.pending) = last + Len(c.queue)
             /\ \A k \in 1 .. Len(c.queue) : c.queue[k] = b.pending[last + k]
  <2>1. CASE Uses(c, m2, n + 1)
    <3>1. b.queue # <<>> /\ e.of = Head(b.queue) /\ c.queue = Tail(b.queue)
      BY <1>9, <2>1 DEF Posts
    <3>2. Len(b.queue) > 0 /\ e.of = b.queue[1] /\ Len(c.queue) = Len(b.queue) - 1
          /\ \A k \in 1 .. Len(c.queue) : c.queue[k] = b.queue[k + 1]
      BY <1>2, <3>1
    <3>3. last = used[n] + 1 /\ last \in Nat
      BY <1>8, <2>1
    <3> HIDE DEF last
    <3>4. b.pending[last] = e.of
      <4>1. 1 \in 1 .. Len(b.queue)
        BY <1>2, <3>2
      <4> QED
        BY <1>14, <3>2, <3>3, <4>1
    <3>6. Len(b.pending) = last + Len(c.queue) /\ Len(c.queue) \in Nat
      <4>1. Len(c.queue) \in Nat /\ Len(c.queue) = Len(b.queue) - 1
        BY <3>2 DEF Balloon
      <4>2. used[n] + Len(b.queue) = (used[n] + 1) + Len(c.queue)
        BY <1>2, <1>8, <4>1, MovedOne, Zenon
      <4> QED
        BY <1>8, <3>3, <4>1, <4>2, Zenon
    <3>5. ASSUME NEW k \in 1 .. Len(c.queue) PROVE c.queue[k] = b.pending[last + k]
      <4>1. k \in Nat /\ 1 <= k /\ k <= Len(c.queue) /\ Len(c.queue) \in Nat
        BY DEF Balloon
      <4>2. k + 1 \in 1 .. Len(b.queue)
        BY <1>2, <3>2, <4>1
      <4>3. used[n] + (k + 1) = last + k
        BY <1>8, <3>3, <4>1, Shifted, Zenon
      <4> QED
        BY <1>14, <3>2, <4>2, <4>3
    <3>7. last \in 0 .. Len(b.pending) /\ used[n] <= last
      BY <1>2, <1>8, <3>3, <3>6
    <3> QED
      BY <2>1, <3>3, <3>4, <3>5, <3>6, <3>7, Zenon
  <2>2. CASE ~Uses(c, m2, n + 1)
    <3>1. last = used[n] /\ last \in 0 .. Len(b.pending) /\ used[n] <= last
      BY <1>2, <1>8, <2>2
    <3>2. e.event # "taskbarCreated" => c.queue = b.queue
      BY <1>9, <2>2 DEF Posts
    <3> QED
      BY <1>8, <1>14, <2>2, <3>1, <3>2
  <2> QED
    BY <2>1, <2>2
<1> HIDE DEF last
<1>11. /\ used2 \in [0 .. n + 1 -> 0 .. Len(c.pending)] /\ used2[n + 1] = last
       /\ \A i \in 0 .. n : used2[i] = used[i]
  BY <1>0, <1>1, <1>7, <1>10
<1> HIDE DEF used2
<1>12. \A i \in 1 .. n : Uses(c, m2, i) <=> Uses(b, m, i)
  BY <1>1, <1>4 DEF Uses
<1>13. Counts(c, m2, used2)
  <2>1. used2[0] = 0
    BY <1>1, <1>7, <1>11 DEF Counts
  <2>2. ASSUME NEW i \in 0 .. n + 1, NEW j \in 0 .. n + 1, i <= j PROVE used2[i] <= used2[j]
    <3>1. \A k, l \in 0 .. n : k <= l => used[k] <= used[l]
      BY <1>7 DEF Counts, n
    <3>2. CASE j \in 0 .. n
      BY <1>1, <1>11, <2>2, <3>1, <3>2
    <3>3. CASE j = n + 1 /\ i \in 0 .. n
      <4>1. used[i] <= used[n] /\ used[i] \in Nat
        BY <1>1, <1>2, <1>7, <3>1, <3>3
      <4> QED
        BY <1>2, <1>8, <1>10, <1>11, <3>3, <4>1
    <3>4. CASE i = n + 1 /\ j = n + 1
      BY <1>2, <1>10, <1>11, <3>4
    <3> QED
      BY <1>1, <2>2, <3>2, <3>3, <3>4
  <2>3. ASSUME NEW i \in 1 .. n + 1
        PROVE  IF Uses(c, m2, i)
               THEN used2[i] = used2[i - 1] + 1 /\ c.pending[used2[i]] = m2[i].of
               ELSE used2[i] = used2[i - 1]
    <3>1. CASE i = n + 1
      <4>1. used2[i] = last /\ used2[i - 1] = used[n] /\ m2[i] = e
        <5>1. i - 1 = n /\ n \in 0 .. n
          BY <1>1, <3>1
        <5> QED
          BY <1>1, <1>11, <3>1, <5>1, Zenon
      <4> QED
        BY <1>0, <1>10, <3>1, <4>1
    <3>2. CASE i \in 1 .. n
      <4>1. used2[i] = used[i] /\ used2[i - 1] = used[i - 1]
        BY <1>1, <1>11, <3>2
      <4>2. IF Uses(b, m, i) THEN used[i] = used[i - 1] + 1 /\ b.pending[used[i]] = m[i].of
                             ELSE used[i] = used[i - 1]
        BY <1>7, <3>2 DEF Counts, n
      <4> QED
        BY <1>0, <1>1, <1>12, <3>2, <4>1, <4>2
    <3> QED
      BY <1>1, <3>1, <3>2
  <2> QED
    BY <1>0, <1>1, <1>3, <1>10, <1>11, <2>1, <2>2, <2>3, ZenonT(30) DEF Counts
<1> QED
  BY <1>1, <1>6, <1>11, <1>13, Zenon DEF InStep, m2

(* The window procedure takes the first callback.                          *)
LEMMA DispatchInStep ==
    ASSUME NEW b \in Balloon, NEW c \in Balloon, NEW m \in Seq(Callbacks), m # <<>>,
           InStep(b, m), m[1].event # "taskbarCreated",
           Takes(b, c, m)
    PROVE  InStep(c, Tail(m))
<1> DEFINE n == Len(Tail(m))
           t == Tail(m)
           one == IF Uses(b, m, 1) THEN 1 ELSE 0
<1>1. n \in Nat /\ Len(m) = n + 1 /\ Len(t) = n /\ \A i \in 1 .. n : t[i] = m[i + 1]
  OBVIOUS
<1>0. /\ c.icon = b.icon /\ c.queue = b.queue /\ c.showing = b.showing
      /\ c.active = Open(b, m, 2)
  BY DEF Takes
<1>2. Restarted(t) <=> Restarted(m)
  <2>1. t \in Seq(Callbacks) /\ (t = <<>> <=> Len(t) = 0)
    <3>1. t \in Seq(Callbacks)
      OBVIOUS
    <3> HIDE DEF t
    <3> QED
      BY <3>1
  <2>2. CASE n = 0
    BY <1>1, <2>1, <2>2 DEF Restarted
  <2>3. CASE n > 0
    BY <1>1, <2>1, <2>3 DEF Restarted
  <2> QED
    BY <1>1, <2>2, <2>3
<1> HIDE DEF n, t
<1>3. \A i \in 1 .. n + 1 : Open(c, t, i) = Open(b, m, i + 1)
  <2>1. ASSUME NEW i \in 1 .. n + 1, i # 1 PROVE Open(c, t, i) = Open(b, m, i + 1)
    BY <1>1, <2>1 DEF Open
  <2>2. Open(c, t, 1) = Open(b, m, 2)
    BY <1>0 DEF Open
  <2> QED
    BY <1>1, <2>1, <2>2
<1>4. \A i \in 1 .. n : Uses(c, t, i) <=> Uses(b, m, i + 1)
  BY <1>1, <1>3 DEF Uses
<1>5. CallbacksInStep(c, t)
  <2>1. ASSUME NEW i \in 1 .. n
        PROVE  /\ t[i].event = "taskbarCreated" => i = n
               /\ t[i].event = "show" => Open(c, t, i) = None
               /\ t[i].event = "click" => Open(c, t, i) = t[i].of
               /\ t[i].event = "dismiss" => Open(c, t, i) \in {None, t[i].of}
    <3>1. i + 1 \in 1 .. Len(m) /\ t[i] = m[i + 1] /\ Open(c, t, i) = Open(b, m, i + 1)
      BY <1>1, <1>3
    <3> QED
      BY <1>1, <3>1 DEF InStep, CallbacksInStep
  <2>2. Open(c, t, n + 1) = Open(b, m, Len(m) + 1)
    BY <1>1, <1>3
  <2> QED
    BY <1>0, <1>1, <1>2, <2>1, <2>2 DEF InStep, CallbacksInStep
<1>6. PICK used \in [0 .. n + 1 -> 0 .. Len(b.pending)] : Counts(b, m, used)
  BY <1>1 DEF InStep
<1>7. b.pending \in Seq(Destinations) /\ Len(b.pending) \in Nat
  BY DEF Balloon
<1>8. /\ used[1] = one /\ one \in Nat /\ one <= Len(b.pending)
      /\ \A i \in 1 .. n + 1 : used[i] \in Nat /\ one <= used[i] /\ used[i] <= Len(b.pending)
  <2>1. used[0] = 0 /\ used[1] = used[0] + one
    BY <1>1, <1>6 DEF Counts
  <2>2. \A i \in 1 .. n + 1 : used[1] <= used[i]
    BY <1>1, <1>6 DEF Counts
  <2> QED
    BY <1>1, <1>6, <1>7, <2>1, <2>2
<1>9. /\ c.pending \in Seq(Destinations) /\ Len(c.pending) = Len(b.pending) - one
      /\ \A k \in 1 .. Len(c.pending) : c.pending[k] = b.pending[k + one]
  <2>1. CASE Uses(b, m, 1)
    <3>1. b.pending # <<>> /\ c.pending = Tail(b.pending) /\ one = 1
      <4>1. one = 1 /\ Len(b.pending) >= 1
        BY <1>7, <1>8, <2>1
      <4>2. c.pending = Tail(b.pending)
        BY <2>1 DEF Takes
      <4> QED
        BY <1>7, <4>1, <4>2
    <3>2. /\ Tail(b.pending) \in Seq(Destinations) /\ Len(Tail(b.pending)) = Len(b.pending) - 1
          /\ \A k \in 1 .. Len(Tail(b.pending)) : Tail(b.pending)[k] = b.pending[k + 1]
      BY <1>7, <3>1
    <3> QED
      BY <3>1, <3>2, Zenon
  <2>2. CASE ~Uses(b, m, 1)
    <3>1. c.pending = b.pending /\ one = 0
      BY <2>2 DEF Takes
    <3>2. \A k \in Nat : k + 0 = k
      OBVIOUS
    <3>3. Len(b.pending) - 0 = Len(b.pending) /\ \A k \in 1 .. Len(b.pending) : k \in Nat
      BY <1>7
    <3> QED
      BY <1>7, <3>1, <3>2, <3>3, ZenonT(30)
  <2> QED
    BY <2>1, <2>2, Zenon
<1> HIDE DEF one
<1> DEFINE used2 == [i \in 0 .. n |-> used[i + 1] - one]
<1>10. used2 \in [0 .. n -> 0 .. Len(c.pending)]
  <2>1. ASSUME NEW i \in 0 .. n PROVE used[i + 1] - one \in 0 .. Len(c.pending)
    <3>1. i + 1 \in 1 .. n + 1
      BY <1>1
    <3>2. /\ used[i + 1] \in Nat /\ one <= used[i + 1] /\ used[i + 1] <= Len(b.pending)
          /\ one \in Nat /\ Len(c.pending) = Len(b.pending) - one
      BY <1>8, <1>9, <3>1, Zenon
    <3> QED
      BY <1>7, <3>2
  <2> QED
    BY <2>1
<1>11. \A i \in 0 .. n : used2[i] = used[i + 1] - one
  OBVIOUS
<1> HIDE DEF used2
<1>12. Counts(c, t, used2)
  <2>1. used2[0] = 0
    <3>1. used2[0] = used[1] - one
      BY <1>1, <1>11
    <3> QED
      BY <1>8, <3>1
  <2>2. ASSUME NEW i \in 0 .. n, NEW j \in 0 .. n, i <= j PROVE used2[i] <= used2[j]
    <3>1. i + 1 \in 1 .. n + 1 /\ j + 1 \in 1 .. n + 1 /\ i + 1 <= j + 1
      BY <1>1, <2>2
    <3>2. used[i + 1] <= used[j + 1]
      BY <1>1, <1>6, <3>1 DEF Counts
    <3> QED
      BY <1>8, <1>11, <3>1, <3>2
  <2>3. ASSUME NEW i \in 1 .. n
        PROVE  IF Uses(c, t, i)
               THEN used2[i] = used2[i - 1] + 1 /\ c.pending[used2[i]] = t[i].of
               ELSE used2[i] = used2[i - 1]
    <3>1. i + 1 \in 1 .. n + 1 /\ i \in 1 .. n + 1 /\ (i + 1) - 1 = i /\ (i - 1) + 1 = i
      BY <1>1
    <3>2. used2[i] = used[i + 1] - one /\ used2[i - 1] = used[i] - one
      <4>1. i \in 0 .. n /\ i - 1 \in 0 .. n
        BY <1>1
      <4>2. used2[i - 1] = used[(i - 1) + 1] - one
        BY <1>11, <4>1, Zenon
      <4> QED
        BY <1>11, <3>1, <4>1, <4>2, Zenon
    <3>3. IF Uses(b, m, i + 1)
          THEN used[i + 1] = used[i] + 1 /\ b.pending[used[i + 1]] = m[i + 1].of
          ELSE used[i + 1] = used[i]
      BY <1>1, <1>6, <3>1 DEF Counts
    <3>4. CASE Uses(b, m, i + 1)
      <4>1. /\ used[i] \in Nat /\ used[i + 1] \in Nat /\ one \in Nat /\ one <= used[i]
            /\ used[i + 1] <= Len(b.pending)
        BY <1>8, <3>1
      <4>2. used[i + 1] = used[i] + 1 /\ b.pending[used[i + 1]] = m[i + 1].of
        BY <3>3, <3>4
      <4>3. used2[i] = used2[i - 1] + 1 /\ used2[i] + one = used[i + 1]
        BY <3>2, <4>1, <4>2
      <4>4. used2[i] \in 1 .. Len(c.pending)
        <5>1. Len(c.pending) = Len(b.pending) - one
          BY <1>9
        <5>2. (used[i] + 1) - one \in 1 .. Len(b.pending) - one
          BY <1>7, <4>1, <4>2, Shifted, Zenon
        <5> QED
          BY <3>2, <4>2, <5>1, <5>2, Zenon
      <4>5. c.pending[used2[i]] = m[i + 1].of
        BY <1>9, <4>2, <4>3, <4>4, Zenon
      <4> QED
        BY <1>1, <1>4, <3>4, <4>3, <4>5
    <3>5. CASE ~Uses(b, m, i + 1)
      BY <1>4, <3>2, <3>3, <3>5
    <3> QED
      BY <3>4, <3>5
  <2>4. ASSUME ~Restarted(t)
        PROVE  /\ Len(c.pending) = used2[n] + Len(c.queue)
               /\ \A k \in 1 .. Len(c.queue) : c.queue[k] = c.pending[used2[n] + k]
    <3>1. /\ Len(b.pending) = used[n + 1] + Len(b.queue)
          /\ \A k \in 1 .. Len(b.queue) : b.queue[k] = b.pending[used[n + 1] + k]
      BY <1>1, <1>2, <1>6, <2>4 DEF Counts
    <3>2. used2[n] = used[n + 1] - one /\ used2[n] \in Nat /\ Len(c.queue) \in Nat
          /\ used[n + 1] \in Nat
      BY <1>1, <1>8, <1>10, <1>11 DEF Balloon
    <3>3. Len(c.pending) = used2[n] + Len(c.queue)
      <4>1. Len(c.pending) = Len(b.pending) - one /\ one \in Nat
        BY <1>8, <1>9
      <4>2. Len(b.pending) = used[n + 1] + Len(c.queue)
        BY <1>0, <3>1
      <4>3. (used[n + 1] + Len(c.queue)) - one = (used[n + 1] - one) + Len(c.queue)
        BY <3>2, <4>1, TakenFromSum
      <4> QED
        BY <3>2, <4>1, <4>2, <4>3, Zenon
    <3>4. ASSUME NEW k \in 1 .. Len(c.queue) PROVE c.queue[k] = c.pending[used2[n] + k]
      <4>1. k \in Nat /\ 1 <= k /\ k <= Len(c.queue) /\ one \in Nat
        BY <1>8, <3>2
      <4>2. used2[n] + k \in 1 .. Len(c.pending)
        <5>1. \A u, q \in Nat : k <= q => u + k \in 1 .. u + q
          BY <4>1
        <5> QED
          BY <3>2, <3>3, <4>1, <5>1, Zenon
      <4>3. (used2[n] + k) + one = used[n + 1] + k
        BY <3>2, <4>1
      <4> QED
        BY <1>0, <1>9, <3>1, <4>2, <4>3, Zenon
    <3> QED
      BY <3>3, <3>4
  <2> QED
    BY <1>1, <2>1, <2>2, <2>3, <2>4 DEF Counts
<1> QED
  BY <1>1, <1>5, <1>10, <1>12, Zenon DEF InStep, t

(* A notification adds a route exactly when the shell takes the balloon.   *)
LEMMA NotifyInStep ==
    ASSUME NEW b \in Balloon, NEW m \in Seq(Callbacks), InStep(b, m),
           NEW d \in Destinations, NEW accepted \in {b.icon, FALSE}
    PROVE  InStep(Notify(b, d, accepted), m) /\ Notify(b, d, accepted).icon = b.icon
<1> DEFINE p == Append(b.pending, d)
           q == Append(b.queue, d)
           reserved == [b EXCEPT !.pending = p]
           c == [reserved EXCEPT !.queue = q]
<1>1. /\ b.pending \in Seq(Destinations) /\ b.queue \in Seq(Destinations)
      /\ Len(b.pending) \in Nat /\ Len(b.queue) \in Nat /\ b.icon \in BOOLEAN
  BY DEF Balloon
<1>2. /\ p \in Seq(Destinations) /\ Len(p) = Len(b.pending) + 1 /\ p[Len(b.pending) + 1] = d
      /\ \A k \in 1 .. Len(b.pending) : p[k] = b.pending[k]
      /\ q \in Seq(Destinations) /\ Len(q) = Len(b.queue) + 1 /\ q[Len(b.queue) + 1] = d
      /\ \A k \in 1 .. Len(b.queue) : q[k] = b.queue[k]
      /\ p # <<>> /\ SubSeq(p, 1, Len(p) - 1) = b.pending
  BY <1>1
<1> HIDE DEF p, q
<1>3. CancelLatest(reserved) = b
  BY <1>2, ZenonT(30) DEF CancelLatest, Balloon
<1>4. /\ c.pending = p /\ c.queue = q /\ c.icon = b.icon /\ c.active = b.active
      /\ c.showing = b.showing
  BY DEF Balloon
<1>5. Notify(b, d, accepted) \in {b, c} /\ (Notify(b, d, accepted) = c => accepted \/ b = c)
  BY <1>3 DEF Notify, p, q
<1> HIDE DEF c, reserved
<1>6. CASE accepted
  <2>1. b.icon /\ ~Restarted(m)
    BY <1>6 DEF InStep, CallbacksInStep
  <2>2. \A i \in 1 .. Len(m) + 1 : Open(c, m, i) = Open(b, m, i)
    BY <1>4 DEF Open
  <2>3. \A i \in 1 .. Len(m) : Uses(c, m, i) <=> Uses(b, m, i)
    BY <2>2 DEF Uses
  <2>4. CallbacksInStep(c, m)
    BY <1>4, <2>1, <2>2 DEF InStep, CallbacksInStep
  <2>5. PICK used \in [0 .. Len(m) -> 0 .. Len(b.pending)] : Counts(b, m, used)
    BY DEF InStep
  <2>6. used \in [0 .. Len(m) -> 0 .. Len(c.pending)]
    BY <1>1, <1>2, <1>4, <2>5
  <2>7. \A i \in 0 .. Len(m) : used[i] \in 0 .. Len(b.pending)
    BY <2>5
  <2>8. used[0] = 0 /\ \A i, j \in 0 .. Len(m) : i <= j => used[i] <= used[j]
    BY <2>5 DEF Counts
  <2>9. ASSUME NEW i \in 1 .. Len(m)
        PROVE  IF Uses(c, m, i)
               THEN used[i] = used[i - 1] + 1 /\ c.pending[used[i]] = m[i].of
               ELSE used[i] = used[i - 1]
    <3>1. CASE Uses(b, m, i)
      <4>1. used[i] = used[i - 1] + 1 /\ b.pending[used[i]] = m[i].of
        BY <2>5, <3>1 DEF Counts
      <4>2. used[i] \in 1 .. Len(b.pending)
        BY <1>1, <2>7, <4>1
      <4> QED
        BY <1>2, <1>4, <2>3, <3>1, <4>1, <4>2
    <3>2. CASE ~Uses(b, m, i)
      BY <2>3, <2>5, <3>2 DEF Counts
    <3> QED
      BY <3>1, <3>2
  <2>10. /\ Len(b.pending) = used[Len(m)] + Len(b.queue)
         /\ \A k \in 1 .. Len(b.queue) : b.queue[k] = b.pending[used[Len(m)] + k]
         /\ used[Len(m)] \in Nat
    BY <1>1, <2>1, <2>5 DEF Counts
  <2>11. Len(c.pending) = used[Len(m)] + Len(c.queue)
    <3>1. \A u, n \in Nat : (u + n) + 1 = u + (n + 1)
      OBVIOUS
    <3> QED
      BY <1>1, <1>2, <1>4, <2>10, <3>1, Zenon
  <2>12. ASSUME NEW k \in 1 .. Len(c.queue) PROVE c.queue[k] = c.pending[used[Len(m)] + k]
    <3>1. CASE k = Len(b.queue) + 1
      <4>1. used[Len(m)] + k = Len(b.pending) + 1
        BY <1>1, <2>10, <3>1
      <4> QED
        BY <1>2, <1>4, <3>1, <4>1
    <3>2. CASE k \in 1 .. Len(b.queue)
      <4>1. used[Len(m)] + k \in 1 .. Len(b.pending)
        BY <1>1, <2>10, <3>2
      <4> QED
        BY <1>2, <1>4, <2>10, <3>2, <4>1, Zenon
    <3> QED
      BY <1>1, <1>2, <1>4, <3>1, <3>2
  <2>13. Counts(c, m, used)
    BY <2>8, <2>9, <2>11, <2>12 DEF Counts
  <2>14. InStep(c, m)
    BY <2>4, <2>6, <2>13 DEF InStep
  <2> QED
    BY <1>4, <1>5, <2>14
<1>7. CASE ~accepted
  BY <1>5, <1>7
<1> QED
  BY <1>1, <1>6, <1>7

(* The first callback finds the tray as it was when the shell posted it.   *)
LEMMA FirstCallback ==
    ASSUME NEW b \in Balloon, NEW m \in Seq(Callbacks), m # <<>>, InStep(b, m)
    PROVE  /\ m[1].event = "taskbarCreated" => Len(m) = 1
           /\ m[1].event = "show" => b.active = None
           /\ m[1].event = "click" => b.active = m[1].of
           /\ m[1].event = "dismiss" => b.active \in {None, m[1].of}
           /\ Uses(b, m, 1) => b.pending # <<>> /\ Head(b.pending) = m[1].of
<1>1. 1 \in 1 .. Len(m) /\ Len(m) \in Nat /\ b.pending \in Seq(Destinations)
  BY DEF Balloon
<1>2. Open(b, m, 1) = b.active
  BY DEF Open
<1>3. PICK used \in [0 .. Len(m) -> 0 .. Len(b.pending)] : Counts(b, m, used)
  BY DEF InStep
<1>4. ASSUME Uses(b, m, 1) PROVE b.pending # <<>> /\ Head(b.pending) = m[1].of
  <2>1. used[0] = 0 /\ used[1] = used[0] + 1 /\ b.pending[used[1]] = m[1].of
    BY <1>1, <1>3, <1>4 DEF Counts
  <2>2. used[1] \in 0 .. Len(b.pending) /\ used[1] = 1
    BY <1>1, <1>3, <2>1
  <2> QED
    BY <1>1, <2>1, <2>2
<1> QED
  BY <1>1, <1>2, <1>4, Zenon DEF InStep, CallbacksInStep

(* No routes and no callbacks are in step with a shell without balloons.   *)
LEMMA NothingInStep ==
    ASSUME NEW b, b.active = None, b.pending = <<>>, b.queue = <<>>, b.showing = None
    PROVE  InStep(b, <<>>)
<1> DEFINE used == [i \in 0 .. 0 |-> 0]
<1>1. used \in [0 .. 0 -> 0 .. 0] /\ used[0] = 0
  OBVIOUS
<1> HIDE DEF used
<1>2. Counts(b, <<>>, used)
  BY <1>1 DEF Counts, Restarted
<1>3. CallbacksInStep(b, <<>>)
  BY DEF CallbacksInStep, Restarted, Open
<1> QED
  BY <1>1, <1>2, <1>3 DEF InStep

(* The shell, Explorer and the window procedure keep the routes in step,   *)
(* when Explorer's restarts do not overlap.                                *)
LEMMA ShellInStep ==
    ASSUME BalloonTypeOK, BalloonTypeOK', InStep(balloon, messages), ~RestartsOverlap,
           ShellShows \/ ShellDrops \/ ShellEnds \/ ExplorerRestarts
    PROVE  InStep(balloon, messages)'
<1>1. /\ balloon \in Balloon /\ balloon' \in Balloon /\ messages \in Seq(Callbacks)
      /\ balloon.queue \in Seq(Destinations) /\ balloon.showing \in Destinations \cup {None}
  BY DEF BalloonTypeOK, Balloon
<1>2. ASSUME NEW e \in Callbacks, messages' = Append(messages, e), ~Restarted(messages),
             Posts(balloon, balloon', e)
      PROVE  InStep(balloon, messages)'
  BY <1>1, <1>2, PostInStep
<1>3. balloon.icon \/ balloon.showing # None => ~Restarted(messages)
  BY DEF InStep, CallbacksInStep
<1>4. \A d \in Destinations : d # None
  BY DEF Destinations, None
<1>5. CASE ShellShows
  <2> DEFINE e == [event |-> "show", of |-> Head(balloon.queue)]
  <2>1. e \in Callbacks /\ e.event = "show" /\ e.of = Head(balloon.queue)
    BY <1>1, <1>5 DEF ShellShows, Callbacks
  <2>2. messages' = Append(messages, e) /\ balloon.icon
    BY <1>5 DEF ShellShows, Post
  <2> HIDE DEF e
  <2>3. /\ balloon.showing = None /\ balloon.queue # <<>>
        /\ balloon'.active = balloon.active /\ balloon'.pending = balloon.pending
        /\ balloon'.showing = Head(balloon.queue) /\ balloon'.queue = Tail(balloon.queue)
    BY <1>1, <1>5 DEF ShellShows, Balloon
  <2>4. Posts(balloon, balloon', e)
    BY <2>1, <2>3 DEF Posts
  <2> QED
    BY <1>2, <1>3, <2>1, <2>2, <2>4
<1>6. CASE ShellDrops
  <2> DEFINE e == [event |-> "dismiss", of |-> Head(balloon.queue)]
  <2>1. e \in Callbacks /\ e.event = "dismiss" /\ e.of = Head(balloon.queue)
    BY <1>1, <1>6 DEF ShellDrops, Callbacks
  <2>2. messages' = Append(messages, e) /\ balloon.icon
    BY <1>6 DEF ShellDrops, Post
  <2> HIDE DEF e
  <2>3. /\ balloon.showing = None /\ balloon.queue # <<>>
        /\ balloon'.active = balloon.active /\ balloon'.pending = balloon.pending
        /\ balloon'.showing = None /\ balloon'.queue = Tail(balloon.queue)
    BY <1>1, <1>6 DEF ShellDrops, Balloon
  <2>4. Posts(balloon, balloon', e)
    BY <2>1, <2>3 DEF Posts
  <2> QED
    BY <1>2, <1>3, <2>1, <2>2, <2>4
<1>7. CASE ShellEnds
  <2>1. PICK event \in {"dismiss", "click"} : Post(event, balloon.showing)
    BY <1>7 DEF ShellEnds
  <2> DEFINE e == [event |-> event, of |-> balloon.showing]
  <2>2. e \in Callbacks /\ e.event \in {"dismiss", "click"} /\ e.of = balloon.showing
    BY <1>1, <1>7, <2>1 DEF ShellEnds, Callbacks
  <2>3. messages' = Append(messages, e) /\ balloon.showing # None
    BY <1>7, <2>1 DEF ShellEnds, Post
  <2> HIDE DEF e
  <2>4. /\ balloon'.active = balloon.active /\ balloon'.pending = balloon.pending
        /\ balloon'.showing = None /\ balloon'.queue = balloon.queue
    BY <1>1, <1>7 DEF ShellEnds, Balloon
  <2>5. Posts(balloon, balloon', e)
    BY <2>2, <2>3, <2>4 DEF Posts
  <2> QED
    BY <1>2, <1>3, <2>2, <2>3, <2>5
<1>8. CASE ExplorerRestarts
  <2> DEFINE e == [event |-> "taskbarCreated", of |-> None]
  <2>1. e \in Callbacks /\ e.event = "taskbarCreated"
    BY DEF Callbacks
  <2>2. messages' = Append(messages, e)
    BY <1>8 DEF ExplorerRestarts, Post
  <2> HIDE DEF e
  <2>3. /\ balloon'.active = balloon.active /\ balloon'.pending = balloon.pending
        /\ balloon'.showing = None /\ balloon'.queue = <<>> /\ ~balloon'.icon
    BY <1>1, <1>8 DEF ExplorerRestarts, Balloon
  <2>4. Posts(balloon, balloon', e)
    BY <2>1, <2>3 DEF Posts
  <2>5. ~Restarted(messages)
    BY <1>1, <1>8 DEF ExplorerRestarts, Restarted
  <2> QED
    BY <1>2, <2>1, <2>2, <2>4, <2>5
<1> QED
  BY <1>5, <1>6, <1>7, <1>8

(* So does the window procedure with each callback.                        *)
LEMMA CallbackInStep ==
    ASSUME BalloonTypeOK, BalloonTypeOK', InStep(balloon, messages),
           OnShown \/ OnDismissed \/ OnClicked \/ OnTaskbarCreated
    PROVE  InStep(balloon, messages)'
<1>1. /\ balloon \in Balloon /\ balloon' \in Balloon /\ messages \in Seq(Callbacks)
      /\ balloon.pending \in Seq(Destinations)
  BY DEF BalloonTypeOK, Balloon
<1>2. messages # <<>> /\ messages' = Tail(messages) /\ Head(messages) = messages[1]
  BY <1>1 DEF OnShown, OnDismissed, OnClicked, OnTaskbarCreated, Dispatch
<1>3. /\ messages[1].event = "taskbarCreated" => Len(messages) = 1
      /\ messages[1].event = "show" => balloon.active = None
      /\ messages[1].event = "click" => balloon.active = messages[1].of
      /\ messages[1].event = "dismiss" => balloon.active \in {None, messages[1].of}
      /\ Uses(balloon, messages, 1) =>
            balloon.pending # <<>> /\ Head(balloon.pending) = messages[1].of
  BY <1>1, <1>2, FirstCallback
<1>4. /\ Open(balloon, messages, 2) =
             IF messages[1].event = "show" THEN messages[1].of ELSE None
      /\ Uses(balloon, messages, 1) <=>
             \/ messages[1].event = "show"
             \/ messages[1].event = "dismiss" /\ balloon.active = None
  BY DEF Open, Uses
<1>5. messages[1] \in Callbacks
  BY <1>1, <1>2
<1>6. messages[1].event \in {"show", "dismiss", "click"} => messages[1].of # None
  BY <1>5 DEF Callbacks, Destinations, None
<1>7. ASSUME Takes(balloon, balloon', messages), messages[1].event # "taskbarCreated"
      PROVE  InStep(balloon, messages)'
  BY <1>1, <1>2, <1>7, DispatchInStep
<1>8. CASE OnShown
  <2>1. messages[1].event = "show" /\ balloon' = Shown(balloon)
    BY <1>2, <1>8 DEF OnShown, Dispatch
  <2>2. balloon' = [[balloon EXCEPT !.pending = Tail(@)] EXCEPT !.active = Head(balloon.pending)]
    BY <1>3, <1>4, <2>1 DEF Shown, PopFront
  <2>3. /\ balloon'.icon = balloon.icon /\ balloon'.queue = balloon.queue
        /\ balloon'.showing = balloon.showing /\ balloon'.active = Head(balloon.pending)
        /\ balloon'.pending = Tail(balloon.pending)
    BY <1>1, <2>2 DEF Balloon
  <2>4. Takes(balloon, balloon', messages)
    BY <1>3, <1>4, <2>1, <2>3 DEF Takes
  <2> QED
    BY <1>7, <2>1, <2>4
<1>9. CASE OnDismissed \/ OnClicked
  <2>1. messages[1].event \in {"dismiss", "click"} /\ balloon' = Dismissed(balloon)
    BY <1>2, <1>9 DEF OnDismissed, OnClicked, Dispatch
  <2>2. CASE balloon.active = None
    <3>1. messages[1].event = "dismiss"
      BY <1>3, <1>6, <2>1, <2>2
    <3>2. balloon' = [balloon EXCEPT !.pending = Tail(@)]
      BY <1>3, <1>4, <2>1, <2>2, <3>1 DEF Dismissed, PopFront
    <3>3. /\ balloon'.icon = balloon.icon /\ balloon'.queue = balloon.queue
          /\ balloon'.showing = balloon.showing /\ balloon'.active = None
          /\ balloon'.pending = Tail(balloon.pending)
      BY <1>1, <2>2, <3>2 DEF Balloon
    <3>4. Takes(balloon, balloon', messages)
      BY <1>4, <2>2, <3>1, <3>3 DEF Takes
    <3> QED
      BY <1>7, <3>1, <3>4
  <2>3. CASE balloon.active # None
    <3>1. balloon' = [balloon EXCEPT !.active = None]
      BY <2>1, <2>3 DEF Dismissed
    <3>2. /\ balloon'.icon = balloon.icon /\ balloon'.queue = balloon.queue
          /\ balloon'.showing = balloon.showing /\ balloon'.active = None
          /\ balloon'.pending = balloon.pending
      BY <1>1, <3>1 DEF Balloon
    <3>3. Takes(balloon, balloon', messages)
      BY <1>4, <2>1, <2>3, <3>2 DEF Takes
    <3> QED
      BY <1>7, <2>1, <3>3
  <2> QED
    BY <2>2, <2>3
<1>10. CASE OnTaskbarCreated
  <2>1. messages[1].event = "taskbarCreated"
    BY <1>2, <1>10 DEF OnTaskbarCreated, Dispatch
  <2>2. Restarted(messages) /\ messages' = <<>>
    BY <1>1, <1>2, <1>3, <2>1 DEF Restarted
  <2>3. balloon.queue = <<>> /\ balloon.showing = None
    BY <2>2 DEF InStep, CallbacksInStep
  <2>4. /\ balloon'.active = None /\ balloon'.pending = <<>>
        /\ balloon'.queue = balloon.queue /\ balloon'.showing = balloon.showing
    BY <1>1, <1>10 DEF OnTaskbarCreated, Clear, Balloon
  <2> QED
    BY <2>2, <2>3, <2>4, NothingInStep
<1> QED
  BY <1>8, <1>9, <1>10

(* Every step of the tray keeps the routes in step.                        *)
LEMMA InStepStep ==
    ASSUME TrayInv, TrayInv', InStep(balloon, messages), ~RestartsOverlap, [Next]_vars
    PROVE  InStep(balloon, messages)'
<1>1. BalloonTypeOK /\ BalloonTypeOK' /\ balloon \in Balloon /\ messages \in Seq(Callbacks)
      /\ "Default" \in Destinations /\ "Updates" \in Destinations
  BY DEF TrayInv, TypeOK, BalloonTypeOK, Destinations
<1>2. CASE UNCHANGED <<balloon, messages>>
  BY <1>2
<1>3. \A b \in Balloon : \A d \in Destinations, shell \in {b.icon, FALSE} :
          InStep(b, messages) => /\ InStep(Notify(b, d, shell), messages)
                                 /\ Notify(b, d, shell).icon = b.icon
  BY <1>1, NotifyInStep, Zenon
<1>4. \A d \in Destinations, shell \in ShellAnswers :
          InStep(Notify(balloon, d, shell), messages)
  BY <1>1, <1>3, Zenon DEF ShellAnswers
<1>5. \A shell \in ShellAnswers :
          /\ StartedNotice(shell) \in {balloon, Notify(balloon, "Default", shell)}
          /\ WaitingNotice(shell) \in {balloon, Notify(balloon, "Default", shell)}
  BY DEF StartedNotice, WaitingNotice
<1>6. \A shell \in ShellAnswers : /\ InStep(WaitingNotice(shell), messages)
                                  /\ WaitingNotice(shell) \in Balloon
                                  /\ WaitingNotice(shell).icon = balloon.icon
  <2>1. ASSUME NEW shell \in ShellAnswers
        PROVE  /\ Notify(balloon, "Default", shell) \in Balloon
               /\ Notify(balloon, "Default", shell).icon = balloon.icon
    <3>1. shell \in {balloon.icon, FALSE} /\ shell \in BOOLEAN
      BY <1>1, Zenon DEF ShellAnswers, Balloon
    <3> QED
      BY <1>1, <1>3, <3>1, NotifyType, Zenon
  <2> QED
    BY <1>1, <1>4, <1>5, <2>1
<1>7. ASSUME NEW b \in Balloon, b.icon = balloon.icon, InStep(b, messages),
             NEW shell \in ShellAnswers, Finish(b, shell), UNCHANGED messages
      PROVE  InStep(balloon, messages)'
  BY <1>1, <1>3, <1>7, Zenon DEF Finish, ShellAnswers
<1>8. CASE Service \/ OpenMenu \/ CloseMenu \/ ChooseBackup \/ TwoHoursPass \/ UNCHANGED vars
  BY <1>2, <1>8, Zenon
     DEF Service, BackupStarts, BackupEnds, Reevaluates, ServiceRestarts, OpenMenu, CloseMenu,
         ChooseBackup, TwoHoursPass, vars
<1>9. CASE SendAction
  BY <1>1, <1>2, <1>4, <1>9 DEF SendAction
<1>10. CASE UpdateNotice
  BY <1>1, <1>4, <1>10 DEF UpdateNotice
<1>11. CASE Exit
  <2>1. messages' = <<>> /\ balloon'.active = None /\ balloon'.pending = <<>>
        /\ balloon'.queue = <<>> /\ balloon'.showing = None
    BY <1>1, <1>11 DEF Exit, Clear, Balloon
  <2> QED
    BY <2>1, NothingInStep
<1>12. CASE PollUnanswered
  BY <1>1, <1>2, <1>7, <1>12 DEF PollUnanswered
<1>13. CASE PollExpired
  BY <1>1, <1>7, <1>13, Zenon DEF PollExpired
<1>14. CASE PollStatus
  <2>1. PICK shell \in ShellAnswers :
           \/ balloon' = StartedNotice(shell)
           \/ Finish(WaitingNotice(shell), shell)
           \/ balloon' = WaitingNotice(shell)
    BY <1>14 DEF PollStatus
  <2>2. UNCHANGED messages
    BY <1>14 DEF PollStatus
  <2>3. CASE Finish(WaitingNotice(shell), shell)
    BY <1>6, <1>7, <2>2, <2>3
  <2>4. CASE balloon' = StartedNotice(shell) \/ balloon' = WaitingNotice(shell)
    BY <1>1, <1>4, <1>5, <2>2, <2>4
  <2> QED
    BY <2>1, <2>3, <2>4
<1>15. CASE Shell
  BY <1>1, <1>15, ShellInStep DEF Shell
<1>16. CASE Callback
  BY <1>1, <1>16, CallbackInStep DEF Callback
<1> QED
  BY <1>8, <1>9, <1>10, <1>11, <1>12, <1>13, <1>14, <1>15, <1>16 DEF Next, Window, Poll

-----------------------------------------------------------------------------
(* The tray's state always has its type.                                   *)
THEOREM TypeCorrect == Spec => []TypeOK
<1>1. TrayInv => TypeOK
  BY DEF TrayInv
<1> QED
  BY <1>1, TrayInvariant, PTL

(* The tray never takes the end of an earlier backup for the end of the    *)
(* one that was asked for, however often the service restarts or does not  *)
(* answer in between.                                                      *)
THEOREM AnnouncementCorrect == Spec => []AnnouncesRequestedBackup
<1>1. TrayInv => AnnouncesRequestedBackup
  <2> SUFFICES ASSUME TrayInv, watch.armed, Ended PROVE ended > asked
    BY DEF AnnouncesRequestedBackup
  <2>1. service.state = "Ended" /\ ended = attempts /\ service.last_attempt = attempts
    BY DEF Ended, TrayInv, WatchInv
  <2>2. attempts \in Nat /\ asked \in Nat /\ asked <= attempts
    BY TrayAssumption DEF TrayInv, TypeOK, WatchInv, Attempt
  <2>3. CASE watch.observed
    BY <2>1, <2>2, <2>3 DEF TrayInv, WatchInv
  <2>4. CASE AttemptChanged
    BY <2>1, <2>2, <2>4 DEF AttemptChanged, TrayInv, WatchInv
  <2> QED
    BY <2>3, <2>4 DEF Ended
<1> QED
  BY <1>1, TrayInvariant, PTL

(* A click on a balloon opens the page the balloon was about, with any      *)
(* number of balloons waiting, callbacks under way and restarts of          *)
(* Explorer, as long as those restarts do not overlap.                      *)
THEOREM ClicksCorrect ==
    ASSUME ~RestartsOverlap
    PROVE  Spec => []ClickOpensItsPage
<1>1. Init => InStep(balloon, messages)
  BY NothingInStep DEF Init, BalloonInit
<1>2. TrayInv /\ TrayInv' /\ InStep(balloon, messages) /\ [Next]_vars => InStep(balloon, messages)'
  BY InStepStep
<1>3. TrayInv /\ InStep(balloon, messages) => ClickOpensItsPage
  <2> SUFFICES ASSUME TrayInv, InStep(balloon, messages), messages # <<>>,
                      Head(messages).event = "click"
               PROVE  Route(balloon) = Head(messages).of
    BY DEF ClickOpensItsPage
  <2>1. balloon \in Balloon /\ messages \in Seq(Callbacks) /\ Head(messages) = messages[1]
        /\ messages[1] \in Callbacks
    BY DEF TrayInv, TypeOK, BalloonTypeOK
  <2>2. balloon.active = messages[1].of
    BY <2>1, FirstCallback
  <2>3. messages[1].of # None
    BY <2>1 DEF Callbacks, Destinations, None
  <2> QED
    BY <2>1, <2>2, <2>3 DEF Route
<1> QED
  BY <1>1, <1>2, <1>3, TrayInvariant, PTL DEF Spec
=============================================================================
