----------------------------- MODULE ResticTask -----------------------------
(***************************************************************************)
(* What a restic worker promises to the event loop that started it, with   *)
(* the process handling left out.  A task (a backup with its lock cleanup  *)
(* and its retention, or one repository operation) has at most one restic  *)
(* at a time, reports once, and reports only after its restic has ended.   *)
(* The one exception is a restic that did not die within the termination   *)
(* grace: the task abandons it, starts no other restic, and reports.       *)
(* Executor implements this specification (executor.rs).                   *)
(***************************************************************************)
EXTENDS FiniteSets

VARIABLES phase,  \* "idle", "working" or "abandoning"
          live,   \* a restic process of the task is running
          left    \* what is left of earlier tasks: "dying" after a failed
                  \* termination, "orphan" after a crash before the job took it

avars == <<phase, live, left>>

AInit == phase = "idle" /\ live = FALSE /\ left = {}

Begin == phase = "idle" /\ phase' = "working" /\ UNCHANGED <<live, left>>

Launch == phase = "working" /\ ~live /\ live' = TRUE /\ UNCHANGED <<phase, left>>

End == live /\ live' = FALSE /\ UNCHANGED <<phase, left>>

\* The grace is over: the task goes on without its restic.
Abandon ==
  /\ phase = "working"
  /\ phase' = "abandoning"
  /\ live' = FALSE
  /\ left' = IF live THEN left \cup {"dying"} ELSE left

\* The event loop gets the outcome; nothing of the task runs any more.
Report == phase # "idle" /\ ~live /\ phase' = "idle" /\ UNCHANGED <<live, left>>

LeftDies == \E l \in left : left' = left \ {l} /\ UNCHANGED <<phase, live>>

\* The service stops; a restic the job already held is killed with the handle.
Stop ==
  /\ phase' = "idle"
  /\ live' = FALSE
  /\ \/ left' = left
     \/ live /\ \E l \in {"dying", "orphan"} : left' = left \cup {l}

ANext == Begin \/ Launch \/ End \/ Abandon \/ Report \/ LeftDies \/ Stop

ASpec == AInit /\ [][ANext]_avars
=============================================================================
