----------------------------- MODULE WriteOnce -----------------------------
(***************************************************************************)
(* What a set of xsync.Future values promises: each is a cell that is      *)
(* written at most once and never changes afterwards, and everybody who    *)
(* waits for it gets exactly what was written, or gives up.                *)
(***************************************************************************)
CONSTANTS Futures, Getters, Results, Empty, GaveUp

VARIABLES
    cell,   \* the result of each future, Empty before it is written
    got     \* what each getter has obtained, Empty before it returns

onceVars == <<cell, got>>

Init ==
    /\ cell = [f \in Futures |-> Empty]
    /\ got = [g \in Getters |-> Empty]

Write(f) ==
    /\ cell[f] = Empty
    /\ \E r \in Results : cell' = [cell EXCEPT ![f] = r]
    /\ UNCHANGED got

Read(g) ==
    /\ got[g] = Empty
    /\ \E f \in Futures : /\ cell[f] # Empty
                          /\ got' = [got EXCEPT ![g] = cell[f]]
    /\ UNCHANGED cell

GiveUp(g) ==
    /\ got[g] = Empty
    /\ got' = [got EXCEPT ![g] = GaveUp]
    /\ UNCHANGED cell

Next ==
    \/ \E f \in Futures : Write(f)
    \/ \E g \in Getters : Read(g) \/ GiveUp(g)

Spec == Init /\ [][Next]_onceVars
=============================================================================
