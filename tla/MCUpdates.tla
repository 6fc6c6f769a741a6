------------------------------ MODULE MCUpdates ------------------------------
(* Model-checking instance of Updates: see MCUpdates.cfg. *)
EXTENDS Updates
=============================================================================
