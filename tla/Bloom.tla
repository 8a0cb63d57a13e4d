-------------------------------- MODULE Bloom --------------------------------
(***************************************************************************)
(* A Bloom filter over a bitmap, used by several goroutines.  Add and      *)
(* Contains ask the bitmap for one bit after the other, MAdd for all at    *)
(* once; others get in between.  A hash is a word: the multiplications     *)
(* give any word (Product), and the last step of every hash function xors  *)
(* it with itself shifted.  A word is a function from positions to bits,   *)
(* the last position being the sign.                                       *)
(***************************************************************************)
EXTENDS Integers, Sequences, Folds

CONSTANTS
    size,       \* the size in bits
    Width,      \* the bits of a word, 64 in the code
    Shift,      \* by how many bits a word is shifted, 33 in the code
    Elements,
    HashFuncs,  \* how many hash functions there are
    Product,    \* the word each function has of each element before its end
    Users       \* goroutines, each with one call of the filter

BloomAssumption ==
    /\ size \in Nat \ {0} /\ Width \in Nat \ {0} /\ Shift \in Nat \ {0}
    /\ HashFuncs \in Nat \ {0}
    /\ Product \in [Elements -> [1..HashFuncs -> [0..(Width - 1) -> {0, 1}]]]

VARIABLES
    bits, call,     \* of the bitmap
    user,           \* what each goroutine calls, and where it is
    added           \* history: the elements whose Add or MAdd has returned

vars == <<bits, call, user, added>>

Bits == INSTANCE Bitmap WITH Indexes <- {}

-----------------------------------------------------------------------------
(* Faults. *)

\* >> shifts in zeros, as it would for unsigned words: NoFalseNegative, for a
\* negative index makes the bitmap panic.
ShiftedLogically(w) ==
    [i \in DOMAIN w |-> IF i + Shift < Width THEN w[i + Shift] ELSE 0]

-----------------------------------------------------------------------------
\* w >> Shift of a signed word.
Shifted(w) ==
    [i \in DOMAIN w |-> IF i + Shift < Width THEN w[i + Shift] ELSE w[Width - 1]]

\* w ^ (w >> Shift)
Mixed(w) == [i \in DOMAIN w |-> IF w[i] = Shifted(w)[i] THEN 0 ELSE 1]

IntOf(w) ==
    MapThenFoldSet(+, 0, LAMBDA i : IF i = Width - 1 THEN -w[i] * 2^i ELSE w[i] * 2^i,
                   LAMBDA S : CHOOSE i \in S : TRUE, DOMAIN w)

Words == [0..(Width - 1) -> {0, 1}]

\* % has the sign of its left side.
Rem(a, b) == IF a >= 0 THEN a % b ELSE -((-a) % b)

Index(d, f) == Rem(IntOf(Mixed(Product[d][f])), size)

\* The indexes of MAdd, element by element.
IndexesOf(ds) ==
    [i \in 1..(Len(ds) * HashFuncs) |->
        Index(ds[((i - 1) \div HashFuncs) + 1], ((i - 1) % HashFuncs) + 1)]

Idle == [op |-> "none", data |-> <<>>, fn |-> 0, known |-> FALSE, at |-> "idle"]

Init ==
    /\ Bits!Init
    /\ user = [u \in Users |-> Idle]
    /\ added = {}

\* A call begins.  known is history: the element had been added before.
Start(u) ==
    /\ user[u].at = "idle"
    /\ \E d, e \in Elements, op \in {"Add", "MAdd", "Contains"} :
          user' = [user EXCEPT ![u] =
                     [op |-> op, data |-> IF op = "MAdd" THEN <<d, e>> ELSE <<d>>,
                      fn |-> 1, known |-> d \in added, at |-> "running"]]
    /\ UNCHANGED <<bits, call, added>>

Running(u, op) == user[u].at = "running" /\ user[u].op = op

\* After an operation of the bitmap: panicked, over, or on to the next hash.
Continue(u, over) ==
    LET at == IF call'.result = "panic" THEN "panicked"
              ELSE IF call'.result = "false" THEN "absent"
              ELSE IF over THEN "returned" ELSE "running"
    IN  /\ user' = [user EXCEPT ![u].at = at, ![u].fn = @ + 1]
        /\ added' = IF at = "returned" /\ user[u].op # "Contains"
                    THEN added \union {user[u].data[i] : i \in DOMAIN user[u].data}
                    ELSE added

Add(u) ==
    /\ Running(u, "Add")
    /\ Bits!Set(Index(user[u].data[1], user[u].fn))
    /\ Continue(u, user[u].fn = HashFuncs)

MAdd(u) ==
    /\ Running(u, "MAdd")
    /\ Bits!MSet(IndexesOf(user[u].data))
    /\ Continue(u, TRUE)

Contains(u) ==
    /\ Running(u, "Contains")
    /\ Bits!IsSet(Index(user[u].data[1], user[u].fn))
    /\ Continue(u, user[u].fn = HashFuncs)

Next == \E u \in Users : Start(u) \/ Add(u) \/ MAdd(u) \/ Contains(u)

Spec == Init /\ [][Next]_vars
-----------------------------------------------------------------------------
\* The types of the variables.
TypeOK ==
    /\ Bits!TypeOK
    /\ user \in [Users ->
          [op : {"none", "Add", "MAdd", "Contains"}, data : Seq(Elements),
           fn : 0..(HashFuncs + 1), known : BOOLEAN,
           at : {"idle", "running", "returned", "absent", "panicked"}]]
    /\ added \in SUBSET Elements

\* Contains finds every element whose Add or MAdd had returned when it was
\* called, whatever others do between its reads; and no hash, negative before
\* its last step or not, makes the bitmap panic.
NoFalseNegative ==
    \A u \in Users :
        /\ user[u].at # "panicked"
        /\ user[u].at = "absent" => ~user[u].known
=============================================================================
