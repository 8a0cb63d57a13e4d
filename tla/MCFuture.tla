----------------------------- MODULE MCFuture ------------------------------
(* Small instances of Future for TLC: a future and the one Then(root). *)
EXTENDS Future, TLC

CONSTANTS root, child

ThenParent == child :> root
=============================================================================
