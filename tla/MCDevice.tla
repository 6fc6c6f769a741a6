------------------------------- MODULE MCDevice -------------------------------
(* Instance of Device for TLC.                                             *)
EXTENDS Device
=============================================================================
