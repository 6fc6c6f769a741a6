----------------------------- MODULE MCExecutor -----------------------------
(***************************************************************************)
(* The executor with a progress channel of one event.  Nothing else needs  *)
(* a bound: tasks may follow each other for ever.                          *)
(***************************************************************************)
EXTENDS Executor
=============================================================================
