---------------------------- MODULE ShutdownGate ----------------------------
(***************************************************************************)
(* What a xsync.Stopper promises the callers of TurnOff, whatever it does  *)
(* to keep the promise: a gate that lets exactly one of them in to run its *)
(* shutdown function, turns every other one away once somebody is in, and  *)
(* is closed for good when the one that was let in leaves.                 *)
(***************************************************************************)
CONSTANT Callers

VARIABLES
    phase,      \* "open", "closing" while the one admitted is inside, "closed"
    place       \* where each caller is

gateVars == <<phase, place>>

GateTypeOK ==
    /\ phase \in {"open", "closing", "closed"}
    /\ place \in [Callers -> {"outside", "inside", "refused", "left"}]

Init ==
    /\ phase = "open"
    /\ place = [c \in Callers |-> "outside"]

Enter(c) ==
    /\ phase = "open"
    /\ place[c] = "outside"
    /\ phase' = "closing"
    /\ place' = [place EXCEPT ![c] = "inside"]

Refuse(c) ==
    /\ phase # "open"
    /\ place[c] = "outside"
    /\ place' = [place EXCEPT ![c] = "refused"]
    /\ UNCHANGED phase

Leave(c) ==
    /\ phase = "closing"
    /\ place[c] = "inside"
    /\ phase' = "closed"
    /\ place' = [place EXCEPT ![c] = "left"]

Next == \E c \in Callers : Enter(c) \/ Refuse(c) \/ Leave(c)

Spec == Init /\ [][Next]_gateVars
=============================================================================
