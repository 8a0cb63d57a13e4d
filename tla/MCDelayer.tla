----------------------------- MODULE MCDelayer -----------------------------
(* Small instances of Delayer for TLC. *)
EXTENDS Delayer
=============================================================================
