------------------------------- MODULE Bitmap -------------------------------
(***************************************************************************)
(* A bitmap: bytes under a mutex, and the operations that find a bit in    *)
(* them.  Each takes the mutex once, after it has validated its arguments  *)
(* against the size, which never changes: each is one step.  A byte is the *)
(* set of its bits that are 1.                                             *)
(***************************************************************************)
EXTENDS Integers, Sequences, Functions

CONSTANTS
    size,       \* the size in bits
    Indexes     \* the arguments operations are called with, for TLC

VARIABLES
    bits,   \* the bytes
    call    \* the last operation: its name, its arguments, its result

vars == <<bits, call>>

Bytes == 0..((size + 7) \div 8 - 1)

BitmapAssumption == size \in Nat /\ Indexes \subseteq Int

IsValid(index) == 0 <= index /\ index < size

BitOf(index, b) == index % 8 \in b[index \div 8]

Raise(b, index) == [b EXCEPT ![index \div 8] = @ \union {index % 8}]

Lower(b, index) == [b EXCEPT ![index \div 8] = @ \ {index % 8}]

\* The loop of MSet.
RaiseAll(b, indexes) ==
    [byte \in Bytes |-> b[byte] \union
        {indexes[i] % 8 : i \in {j \in DOMAIN indexes : indexes[j] \div 8 = byte}}]

Init ==
    /\ bits = [byte \in Bytes |-> {}]
    /\ call = [op |-> "none", args |-> {}, result |-> "ok"]

Called(op, args, result) ==
    call' = [op |-> op, args |-> args, result |-> result]

-----------------------------------------------------------------------------
(* Faults. *)

\* The bits before an index out of range are set: ImplementsBitSet.
MSetAsItGoes(indexes) ==
    /\ indexes # <<>>
    /\ bits' = RaiseAll(bits, SelectSeq(indexes, IsValid))
    /\ Called("set", Range(indexes),
              IF \A i \in DOMAIN indexes : IsValid(indexes[i]) THEN "ok" ELSE "panic")

-----------------------------------------------------------------------------
\* validateIndex panics before anything is done.
Refused(op, args) ==
    /\ \E index \in args : ~IsValid(index)
    /\ Called(op, args, "panic")
    /\ UNCHANGED bits

Set(index) ==
    \/ Refused("set", {index})
    \/ /\ IsValid(index)
       /\ bits' = Raise(bits, index)
       /\ Called("set", {index}, "ok")

MSet(indexes) ==
    /\ indexes # <<>>
    /\ \/ Refused("set", Range(indexes))
       \/ /\ \A i \in DOMAIN indexes : IsValid(indexes[i])
          /\ bits' = RaiseAll(bits, indexes)
          /\ Called("set", Range(indexes), "ok")

Clear(index) ==
    \/ Refused("clear", {index})
    \/ /\ IsValid(index)
       /\ bits' = Lower(bits, index)
       /\ Called("clear", {index}, "ok")

IsSet(index) ==
    \/ Refused("isSet", {index})
    \/ /\ IsValid(index)
       /\ Called("isSet", {index}, IF BitOf(index, bits) THEN "true" ELSE "false")
       /\ UNCHANGED bits

Next ==
    \/ \E index \in Indexes : Set(index) \/ Clear(index) \/ IsSet(index)
    \/ \E i, j \in Indexes : MSet(<<i, j>>)

Spec == Init /\ [][Next]_vars
-----------------------------------------------------------------------------
\* The types of the variables.
TypeOK ==
    /\ bits \in [Bytes -> SUBSET (0..7)]
    /\ call.op \in {"none", "set", "clear", "isSet"}
    /\ call.result \in {"ok", "panic", "true", "false"}

\* The set of a bitmap.
set == {index \in 0..(size - 1) : BitOf(index, bits)}

Abstract == INSTANCE BitSet

\* The bytes hold exactly the numbers that were set and not cleared, a number
\* read back is one that is held, and an operation with one argument out of
\* range does nothing with the others (Set, MSet, Clear, IsSet).
ImplementsBitSet == Abstract!Spec
=============================================================================
