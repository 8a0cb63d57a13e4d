----------------------------- MODULE MCStopper -----------------------------
(* Small instances of Stopper for TLC. *)
EXTENDS Stopper
=============================================================================
