---------------------------- MODULE MCUtilities ----------------------------
(* A small instance of Utilities for TLC. *)
EXTENDS Utilities, TLC

\* Two of the low halves of the hashes of a are equal, and so is one of b.
SpotHashes == ("a" :> <<1, 9>>) @@ ("b" :> <<5, 14>>) @@ ("c" :> <<3, 12>>)

PoolThresholds == <<1>>

\* Around the bounds of the bytes and of the size.
BitIndexes == {-1, 0, 7, 8, 9, 10}

\* The word whose bits have the value n.
Word(n) == [i \in 0..4 |-> (n \div 2^i) % 2]

\* Words with the sign bit and without it, and values at and above the size.
Words == ("x" :> <<Word(26), Word(13)>>) @@ ("y" :> <<Word(16), Word(31)>>)

Defaults == <<2, 4>>

ValidAndNot == {<<3, 5>>, <<5, 3>>}
=============================================================================
