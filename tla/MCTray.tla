-------------------------------- MODULE MCTray --------------------------------
(* Model-checking instance of Tray: see MCTray.cfg. *)
EXTENDS Tray
=============================================================================
