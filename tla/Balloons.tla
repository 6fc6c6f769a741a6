------------------------------- MODULE Balloons -------------------------------
(***************************************************************************)
(* The notifications of the tray program and where a click on one of them  *)
(* leads (apps/resticpal-tray/src/main.rs).                                *)
(*                                                                         *)
(* The tray hands a balloon to the Windows shell and keeps its destination *)
(* in a queue of its own (BalloonRouteState).  The shell's callbacks say   *)
(* that a balloon was shown, hidden, timed out or clicked, never which     *)
(* one, so the queue has to stay in step with the shell.  Between the      *)
(* shell and the tray is the window's message queue.  The shell is outside *)
(* the repository: it shows balloons one at a time and in order, may drop  *)
(* one unseen, and loses all of them, and the icon, when Explorer restarts.*)
(***************************************************************************)
EXTENDS Naturals, Sequences

CONSTANTS
    MaxPendingBalloonRoutes,  \* MAX_PENDING_BALLOON_ROUTES
    RestartsOverlap           \* Explorer may restart before its last restart was dispatched

ASSUME BalloonAssumption == MaxPendingBalloonRoutes \in Nat \ {0} /\ RestartsOverlap \in BOOLEAN

VARIABLES
    balloon,   \* [pending, active] the tray's routes; [icon, queue, showing] the shell's
    messages   \* callbacks posted to the window and not yet dispatched

Destinations == {"Default", "Updates"}

None == "none"

Callbacks ==
    [event : {"show", "dismiss", "click"}, of : Destinations]
        \cup {[event |-> "taskbarCreated", of |-> None]}

Balloon == [pending : Seq(Destinations), active : Destinations \cup {None}, icon : BOOLEAN,
            queue : Seq(Destinations), showing : Destinations \cup {None}]

(* The routes and the shell's balloons are destinations.                   *)
BalloonTypeOK == balloon \in Balloon /\ messages \in Seq(Callbacks)

BalloonInit ==
    /\ balloon = [pending |-> <<>>, active |-> None, icon |-> TRUE, queue |-> <<>>,
                  showing |-> None]
    /\ messages = <<>>

-----------------------------------------------------------------------------
(* BalloonRouteState *)

PopFront(b) == IF b.pending = <<>> THEN b ELSE [b EXCEPT !.pending = Tail(@)]

CancelLatest(b) ==
    [b EXCEPT !.pending = IF @ = <<>> THEN @ ELSE SubSeq(@, 1, Len(@) - 1)]

Shown(b) ==
    IF b.pending = <<>> THEN b ELSE [PopFront(b) EXCEPT !.active = Head(b.pending)]

(* Mutant: a balloon that was never shown leaves its route behind. *)
DismissedOnlyActive(b) == [b EXCEPT !.active = None]

Dismissed(b) == IF b.active = None THEN PopFront(b) ELSE [b EXCEPT !.active = None]

Route(b) ==
    CASE b.active # None                       -> b.active
      [] b.active = None /\ b.pending # <<>>   -> Head(b.pending)
      [] OTHER                                 -> "Default"

Clear(b) == [b EXCEPT !.pending = <<>>, !.active = None]

(* show_tray_notification: reserve a route, hand the balloon to the shell,  *)
(* take the route back when the shell refuses.  A full queue drops the      *)
(* notification without an error.                                           *)
Notify(b, destination, accepted) ==
    LET reserved == [b EXCEPT !.pending = Append(@, destination)]
    IN  CASE Len(b.pending) >= MaxPendingBalloonRoutes -> b
          [] Len(b.pending) < MaxPendingBalloonRoutes /\ accepted ->
                 [reserved EXCEPT !.queue = Append(@, destination)]
          [] OTHER -> CancelLatest(reserved)

(* The shell may refuse a balloon, and does while it has no icon of ours.  *)
ShellAnswers == {balloon.icon, FALSE}

-----------------------------------------------------------------------------
(* The shell *)

Post(event, of) == messages' = Append(messages, [event |-> event, of |-> of])

ShellShows ==
    /\ balloon.icon /\ balloon.showing = None /\ balloon.queue # <<>>
    /\ balloon' = [balloon EXCEPT !.showing = Head(balloon.queue), !.queue = Tail(@)]
    /\ Post("show", Head(balloon.queue))

(* A balloon that is not shown at all (quiet hours, a newer one) is reported *)
(* as hidden.                                                               *)
ShellDrops ==
    /\ balloon.icon /\ balloon.showing = None /\ balloon.queue # <<>>
    /\ balloon' = [balloon EXCEPT !.queue = Tail(@)]
    /\ Post("dismiss", Head(balloon.queue))

ShellEnds ==
    /\ balloon.showing # None
    /\ balloon' = [balloon EXCEPT !.showing = None]
    /\ \E event \in {"dismiss", "click"} : Post(event, balloon.showing)

ExplorerRestarts ==
    /\ RestartsOverlap \/ \A i \in DOMAIN messages : messages[i].event # "taskbarCreated"
    /\ balloon' = [balloon EXCEPT !.icon = FALSE, !.queue = <<>>, !.showing = None]
    /\ Post("taskbarCreated", None)

-----------------------------------------------------------------------------
(* The window procedure's side of those callbacks.  A click opens the page  *)
(* Route names and uses the route up, as a dismissal does.                  *)
Dispatch(event) ==
    /\ messages # <<>> /\ Head(messages).event = event
    /\ messages' = Tail(messages)

OnShown ==
    /\ Dispatch("show")
    /\ balloon' = Shown(balloon)

OnDismissed ==
    /\ Dispatch("dismiss")
    /\ balloon' = Dismissed(balloon)

OnClicked ==
    /\ Dispatch("click")
    /\ balloon' = Dismissed(balloon)

(* The routes go whether or not the icon can be added.  An icon that is     *)
(* there already is not added again and stays.                              *)
OnTaskbarCreated ==
    /\ Dispatch("taskbarCreated")
    /\ \E added \in BOOLEAN : balloon' = [Clear(balloon) EXCEPT !.icon = @ \/ added]

-----------------------------------------------------------------------------
(* A click on a balloon opens the page that balloon was about, although the *)
(* callback does not say which balloon it is: an update notice opens the    *)
(* update page, a backup notice does not.  (main.rs, BalloonRouteState.)    *)
(* It takes that Explorer's restarts do not overlap: the second of two      *)
(* waiting messages clears the routes of balloons accepted since the first. *)
ClickOpensItsPage ==
    (messages # <<>> /\ Head(messages).event = "click") => Route(balloon) = Head(messages).of

=============================================================================
