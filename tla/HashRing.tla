------------------------------ MODULE HashRing ------------------------------
(***************************************************************************)
(* The two rings of consistenthash.  A node is put on the ring at several  *)
(* virtual spots; a key belongs to the node of the first spot at or after  *)
(* it.  Every operation holds the ring's lock and is one step.  The        *)
(* Int64HashRing keeps the whole 64-bit hash of a spot and takes its keys  *)
(* as they are; the HashRing keeps the low 32 bits of the hashes, its      *)
(* keys' too.  2^64 is Size here, and 2^32 is Low.                         *)
(***************************************************************************)
EXTENDS Integers, Sequences, Functions

CONSTANTS
    Nodes,      \* names of nodes
    Spots,      \* virtualSpots
    Hash,       \* the 64-bit hash of each virtual spot of each node
    Size,       \* the number of 64-bit hashes
    Low,        \* the number of 32-bit hashes
    MaxPoints   \* bound on the points of a ring, for TLC

RingAssumption ==
    /\ Spots \in Nat /\ MaxPoints \in Nat
    /\ Low \in Nat \ {0} /\ Size \in Nat /\ Low <= Size
    /\ Hash \in [Nodes -> [1..Spots -> 0..(Size - 1)]]

VARIABLES
    kind,   \* which of the two rings it is
    nodes   \* the points of the ring

vars == <<kind, nodes>>

Hashes == IF kind = "string" THEN 0..(Low - 1) ELSE 0..(Size - 1)

Point == [name : Nodes, hash : Hashes]

NoNode == "no node"

\* sort.Interface of the points.
Sorted(s) == \A i, j \in DOMAIN s : i < j => s[i].hash <= s[j].hash

\* binary.BigEndian.Uint32 of the last four bytes of the hash, in a HashRing.
Cut(h) == IF kind = "string" THEN h % Low ELSE h

SpotsOf(n) == [i \in 1..Spots |-> [name |-> n, hash |-> Cut(Hash[n][i])]]

\* The ways to arrange m points.
Orders == [m \in 0..MaxPoints |-> Bijection(1..m, 1..m)]

\* The outcomes of sort.Sort, which does not keep the order of equal points.
Arranged(s) ==
    {t \in {[i \in DOMAIN s |-> s[p[i]]] : p \in Orders[Len(s)]} : Sorted(t)}

(* A fault: the last point takes a removed one's place: OnlyItsKeysMove. *)
WithoutBySwap(n, s) ==
    {LET kept == SelectSeq(s, LAMBDA p : p.name # n)
     IN  [i \in DOMAIN kept |-> kept[Len(kept) + 1 - i]]}

\* The points that are not of node n, in their order.
Without(n, s) ==
    LET kept == {i \in DOMAIN s : s[i].name # n}
    IN  {[i \in DOMAIN f |-> s[f[i]]] :
            f \in UNION {{g \in [1..m -> kept] :
                            /\ \A i \in kept : \E j \in 1..m : g[j] = i
                            /\ \A i, j \in 1..m : i < j => g[i] < g[j]} :
                         m \in 0..Len(s)}}

\* The keys: any int64, or the hash of a string.
Keys == IF kind = "string" THEN 0..(Size - 1)
        ELSE -(Size \div 2)..((Size - 1) \div 2)

\* Where GetNode starts to look.  The conversion of -key in uint64 arithmetic
\* is right for the least key too, whose negation is itself.
TargetHash(key) ==
    IF key >= 0 THEN Cut(key) ELSE (Size - 1) - (-key) + 1

\* sort.Search returns an index with the condition false before it and true
\* at it; the last one stands for none.
SearchFrom(target, s) ==
    CHOOSE i \in 1..(Len(s) + 1) :
        /\ i > 1 => s[i - 1].hash < target
        /\ i <= Len(s) => s[i].hash >= target

GetNode(key) ==
    LET idx == SearchFrom(TargetHash(key), nodes)
    IN  IF nodes = <<>> THEN NoNode
        ELSE nodes[IF idx = Len(nodes) + 1 THEN 1 ELSE idx].name

Init == kind \in {"int64", "string"} /\ nodes = <<>>

-----------------------------------------------------------------------------
(* A fault: the new points are not sorted in: OwnerIsClosest. *)
AddNodeUnsorted(n) ==
    /\ Len(nodes) + Spots <= MaxPoints
    /\ nodes' = nodes \o SpotsOf(n)
    /\ UNCHANGED kind

-----------------------------------------------------------------------------
\* A node may be added again: its points are then there twice.
AddNode(n) ==
    /\ Len(nodes) + Spots <= MaxPoints
    /\ nodes' \in Arranged(nodes \o SpotsOf(n))
    /\ UNCHANGED kind

RemoveNode(n) ==
    /\ nodes' \in Without(n, nodes)
    /\ UNCHANGED kind

Next == \E n \in Nodes : AddNode(n) \/ RemoveNode(n)

Spec == Init /\ [][Next]_vars
-----------------------------------------------------------------------------
\* The types of the variables.
TypeOK == kind \in {"int64", "string"} /\ nodes \in Seq(Point)

\* Where a key lies on the ring: int64 keys count on from the last to the
\* first hash.
Place(key) == IF key < 0 THEN key + Size ELSE Cut(key)

\* How far a point is ahead of a place, round the ring.
Ahead(place, hash) ==
    IF hash >= place THEN hash - place ELSE hash - place + Size

\* The nodes with a point at the least distance ahead of a key.
Closest(key) ==
    {nodes[i].name : i \in {j \in DOMAIN nodes : \A l \in DOMAIN nodes :
        Ahead(Place(key), nodes[j].hash) <= Ahead(Place(key), nodes[l].hash)}}

\* GetNode returns a node that is closest ahead of the key, for every key,
\* negative ones and ones after the last point included, after whatever nodes
\* were added, added again and removed.
OwnerIsClosest ==
    \A key \in Keys :
        IF nodes = <<>> THEN GetNode(key) = NoNode
        ELSE GetNode(key) \in Closest(key)

\* What a step may do to the owner of a key.
Moves ==
    \A key \in Keys :
        GetNode(key)' # GetNode(key) =>
            \/ GetNode(key)' \notin {nodes[i].name : i \in DOMAIN nodes}
            \/ GetNode(key) \notin {nodes[i].name : i \in DOMAIN nodes}'
            \/ {GetNode(key), GetNode(key)'} \subseteq Closest(key)

\* AddNode and RemoveNode move a key only to a node that comes or from one that
\* goes, unless two nodes are equally close to it: sort.Sort may then have put
\* either of them first.
OnlyItsKeysMove == [][Moves]_vars
=============================================================================
