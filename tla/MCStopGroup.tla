---------------------------- MODULE MCStopGroup ----------------------------
(* Small instances of StopGroup for TLC. *)
EXTENDS StopGroup
=============================================================================
