------------------------------- MODULE BitSet -------------------------------
(***************************************************************************)
(* What a bitmap promises: a set of the numbers below its size.  An        *)
(* operation with an argument that is not one of them panics and leaves    *)
(* the set as it is.                                                       *)
(***************************************************************************)
EXTENDS Integers

CONSTANT size

VARIABLES
    set,    \* the numbers in the set
    call    \* the last operation: its name, its arguments, its result

Members == 0..(size - 1)

Init == set = {} /\ call = [op |-> "none", args |-> {}, result |-> "ok"]

Panic ==
    /\ ~ call'.args \subseteq Members
    /\ call'.result = "panic"
    /\ UNCHANGED set

Valid == call'.args \subseteq Members

\* Set and MSet.
Insert ==
    /\ call'.op = "set" /\ Valid /\ call'.result = "ok"
    /\ set' = set \union call'.args

Clear ==
    /\ call'.op = "clear" /\ Valid /\ call'.result = "ok"
    /\ set' = set \ call'.args

IsSet ==
    /\ call'.op = "isSet" /\ Valid
    /\ call'.result = IF call'.args \subseteq set THEN "true" ELSE "false"
    /\ UNCHANGED set

Next == Panic \/ Insert \/ Clear \/ IsSet

Spec == Init /\ [][Next]_<<set, call>>
=============================================================================
