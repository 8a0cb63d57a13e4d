-------------------------- MODULE MCStopperService --------------------------
(* Small instances of StopperService for TLC. *)
EXTENDS StopperService
=============================================================================
