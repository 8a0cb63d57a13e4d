--------------------------- MODULE UtilitiesProofs ---------------------------
(***************************************************************************)
(* Proofs about the utilities that do not call each other: one section per *)
(* utility, with the inductive invariant of its module, and at the end the *)
(* theorems about the specification in which one of them is chosen.        *)
(***************************************************************************)
EXTENDS Utilities, FiniteSetTheorems, WellFoundedInduction, TLAPS
-----------------------------------------------------------------------------
(***************************************************************************)
(* The rings: one point of every spot for every node, in the order of the  *)
(* hashes.                                                                 *)
(***************************************************************************)
\* The points without their order.
Points(s) == {s[i] : i \in DOMAIN s}

NamesOf(P) == {p.name : p \in P}

\* The names of the points with the least distance ahead of a place.
Nearest(P, place) ==
    {p.name : p \in {q \in P : \A r \in P : Ring!Ahead(place, q.hash) <= Ring!Ahead(place, r.hash)}}

\* A node that has a point has one of every spot, and no other.
Complete ==
    \A n \in NamesOf(Points(nodes)) :
        {p \in Points(nodes) : p.name = n} = Points(Ring!SpotsOf(n))

RingIInv == Ring!TypeOK /\ Ring!Sorted(nodes) /\ Complete
-----------------------------------------------------------------------------
\* A set of natural numbers that is not empty has a least one.
LEMMA LeastNat ==
    ASSUME NEW T, T \subseteq Nat, T # {}
    PROVE  \E x \in T : \A y \in T : x <= y
<1>. DEFINE R == {ss \in Nat \X Nat : ss[1] < ss[2]}
<1>1. OpToRel(<, Nat) = R
  BY DEF OpToRel
<1>2. IsWellFoundedOn(R, Nat)
  BY ONLY <1>1, NatLessThanWellFounded, Zenon
<1>. HIDE DEF R
<1>3. PICK x \in T : \A y \in T : ~ (<<y, x>> \in R)
  BY <1>2, WFMin
<1>4. \A a, b \in Nat : a < b => <<a, b>> \in R
  BY DEF R
<1>5. ASSUME NEW y \in T PROVE x <= y
  <2>1. x \in Nat /\ y \in Nat
    OBVIOUS
  <2>2. ~ (y < x)
    BY <1>3, <1>4, <2>1
  <2>. QED
    BY <2>1, <2>2
<1>. QED
  BY <1>5

\* The binary search finds an index.
LEMMA SearchFinds ==
    ASSUME NEW s \in Seq(Ring!Point), NEW target \in Int,
           \A i \in DOMAIN s : s[i].hash \in Int
    PROVE  /\ Ring!SearchFrom(target, s) \in 1..(Len(s) + 1)
           /\ Ring!SearchFrom(target, s) > 1 => s[Ring!SearchFrom(target, s) - 1].hash < target
           /\ Ring!SearchFrom(target, s) <= Len(s) => s[Ring!SearchFrom(target, s)].hash >= target
<1>. DEFINE T == {i \in 1..(Len(s) + 1) : i <= Len(s) => s[i].hash >= target}
<1>1. PICK x \in T : \A y \in T : x <= y
  <2>1. T \subseteq Nat /\ Len(s) + 1 \in T
    OBVIOUS
  <2>. QED
    BY <2>1, LeastNat
<1>2. x > 1 => s[x - 1].hash < target
  <2>. SUFFICES ASSUME x > 1 PROVE s[x - 1].hash < target
    OBVIOUS
  <2>1. x - 1 \in DOMAIN s /\ x - 1 \notin T
    BY <1>1
  <2>. QED
    BY <2>1
<1>3. /\ x \in 1..(Len(s) + 1)
      /\ x > 1 => s[x - 1].hash < target
      /\ x <= Len(s) => s[x].hash >= target
  BY <1>1, <1>2
<1>. QED
  BY <1>3 DEF Ring!SearchFrom
-----------------------------------------------------------------------------
\* The hashes lie on the ring.
LEMMA HashesOnRing ==
    ASSUME Ring!RingAssumption, Ring!TypeOK
    PROVE  /\ \A i \in DOMAIN nodes : nodes[i] \in Ring!Point /\ nodes[i].hash \in 0..(Size - 1)
           /\ \A key \in Ring!Keys : /\ Ring!TargetHash(key) = Ring!Place(key)
                                /\ Ring!Place(key) \in 0..(Size - 1)
           /\ \A n \in Nodes : Ring!SpotsOf(n) \in Seq(Ring!Point)
<1>. USE DEF Ring!RingAssumption, Ring!TypeOK
<1>1. \A i \in DOMAIN nodes : nodes[i] \in Ring!Point
  OBVIOUS
<1>2. Ring!Hashes \subseteq 0..(Size - 1)
  BY DEF Ring!Hashes
<1>3. ASSUME NEW h \in 0..(Size - 1) PROVE Ring!Cut(h) \in Ring!Hashes
  <2>1. Low \in Int /\ Low > 0 /\ h \in Int
    OBVIOUS
  <2>2. h % Low \in 0..(Low - 1)
    BY ONLY <2>1
  <2>. QED
    BY <2>2 DEF Ring!Cut, Ring!Hashes
<1>4. ASSUME NEW key \in Ring!Keys
      PROVE  Ring!TargetHash(key) = Ring!Place(key) /\ Ring!Place(key) \in 0..(Size - 1)
  <2>1. CASE key >= 0
    <3>1. key \in 0..(Size - 1)
      BY <2>1 DEF Ring!Keys
    <3>2. Ring!TargetHash(key) = Ring!Cut(key) /\ Ring!Place(key) = Ring!Cut(key)
      BY <2>1, <3>1 DEF Ring!TargetHash, Ring!Place
    <3>. QED
      BY <3>1, <3>2, <1>2, <1>3
  <2>2. CASE ~(key >= 0)
    <3>1. key \in Int /\ key < 0 /\ -(Size \div 2) <= key
      BY <2>2 DEF Ring!Keys
    <3>. QED
      BY <2>2, <3>1 DEF Ring!TargetHash, Ring!Place
  <2>. QED
    BY <2>1, <2>2
<1>5. ASSUME NEW n \in Nodes PROVE Ring!SpotsOf(n) \in Seq(Ring!Point)
  <2>1. \A i \in 1..Spots : [name |-> n, hash |-> Ring!Cut(Hash[n][i])] \in Ring!Point
    BY <1>3 DEF Ring!Point
  <2>. QED
    BY <2>1 DEF Ring!SpotsOf
<1>. QED
  BY <1>1, <1>2, <1>4, <1>5 DEF Ring!Point

\* On a sorted ring the search ends at a node that is closest to the key.
LEMMA SortedOwner ==
    Ring!RingAssumption /\ Ring!TypeOK /\ Ring!Sorted(nodes) => Ring!OwnerIsClosest
<1>. SUFFICES ASSUME Ring!RingAssumption, Ring!TypeOK, Ring!Sorted(nodes),
                     NEW key \in Ring!Keys, nodes # <<>>
              PROVE  Ring!GetNode(key) \in Ring!Closest(key)
  BY DEF Ring!OwnerIsClosest, Ring!GetNode
<1>. DEFINE p == Ring!Place(key)
           idx == Ring!SearchFrom(p, nodes)
           found == IF idx = Len(nodes) + 1 THEN 1 ELSE idx
<1>1. /\ p \in 0..(Size - 1) /\ Ring!TargetHash(key) = p
      /\ \A i \in DOMAIN nodes : nodes[i].hash \in 0..(Size - 1)
      /\ Size \in Nat /\ nodes \in Seq(Ring!Point)
  BY HashesOnRing DEF Ring!RingAssumption, Ring!TypeOK
<1>. HIDE DEF p
<1>2. /\ idx \in 1..(Len(nodes) + 1)
      /\ idx > 1 => nodes[idx - 1].hash < p
      /\ idx <= Len(nodes) => nodes[idx].hash >= p
  BY <1>1, SearchFinds
<1>. HIDE DEF idx
<1>3. Ring!GetNode(key) = nodes[found].name
  BY <1>1 DEF Ring!GetNode, idx
<1>4. found \in DOMAIN nodes
  BY <1>1, <1>2
<1>5. ASSUME NEW l \in DOMAIN nodes
      PROVE  Ring!Ahead(p, nodes[found].hash) <= Ring!Ahead(p, nodes[l].hash)
  <2>1. CASE idx = Len(nodes) + 1
    <3>1. nodes[Len(nodes)].hash < p
      BY <1>1, <1>2, <2>1, <1>4
    <3>2. nodes[l].hash <= nodes[Len(nodes)].hash /\ nodes[1].hash <= nodes[l].hash
      BY <1>1 DEF Ring!Sorted
    <3>. QED
      BY <1>1, <1>4, <2>1, <3>1, <3>2 DEF Ring!Ahead
  <2>2. CASE idx <= Len(nodes)
    <3>1. nodes[l].hash >= p => nodes[idx].hash <= nodes[l].hash
      <4>1. l < idx => nodes[l].hash <= nodes[idx - 1].hash
        BY <1>1, <1>2, <2>2 DEF Ring!Sorted
      <4>2. l >= idx => nodes[idx].hash <= nodes[l].hash
        BY <1>1, <1>2, <2>2 DEF Ring!Sorted
      <4>. QED
        BY <1>1, <1>2, <2>2, <4>1, <4>2
    <3>. QED
      BY <1>1, <1>2, <1>4, <2>2, <3>1 DEF Ring!Ahead
  <2>. QED
    BY <1>1, <1>2, <2>1, <2>2
<1>. QED
  BY <1>3, <1>4, <1>5 DEF Ring!Closest, p
-----------------------------------------------------------------------------
\* Sorting loses no point and adds none.
LEMMA ArrangedPoints ==
    ASSUME MaxPoints \in Nat, NEW s \in Seq(Ring!Point), Len(s) <= MaxPoints,
           NEW t \in Ring!Arranged(s)
    PROVE  t \in Seq(Ring!Point) /\ Ring!Sorted(t) /\ Points(t) = Points(s)
<1>1. PICK p \in Ring!Bijection(1..Len(s), 1..Len(s)) : t = [i \in 1..Len(s) |-> s[p[i]]]
  <2>1. Ring!Orders[Len(s)] = Ring!Bijection(1..Len(s), 1..Len(s))
    BY DEF Ring!Orders
  <2>. QED
    BY <2>1 DEF Ring!Arranged
<1>2. /\ p \in [1..Len(s) -> 1..Len(s)]
      /\ \A j \in 1..Len(s) : \E i \in 1..Len(s) : p[i] = j
  BY DEF Ring!Bijection, Ring!Surjection
<1>3. t \in Seq(Ring!Point) /\ DOMAIN t = 1..Len(s)
  BY <1>1, <1>2
<1>4. Points(t) = Points(s)
  <2>1. ASSUME NEW i \in DOMAIN t PROVE t[i] \in Points(s)
    <3>1. p[i] \in DOMAIN s /\ t[i] = s[p[i]]
      BY <1>1, <1>2, <1>3
    <3>. QED
      BY <3>1 DEF Points
  <2>2. ASSUME NEW j \in DOMAIN s PROVE s[j] \in Points(t)
    <3>1. PICK i \in 1..Len(s) : p[i] = j
      BY <1>2
    <3>2. i \in DOMAIN t /\ t[i] = s[j]
      BY <1>1, <1>3, <3>1
    <3>. QED
      BY <3>2 DEF Points
  <2>. QED
    BY <2>1, <2>2 DEF Points
<1>. QED
  BY <1>3, <1>4 DEF Ring!Arranged

\* RemoveNode keeps the other points, in their order.
LEMMA WithoutPoints ==
    ASSUME NEW n, NEW s \in Seq(Ring!Point), Ring!Sorted(s), NEW t \in Ring!Without(n, s)
    PROVE  /\ t \in Seq(Ring!Point) /\ Ring!Sorted(t)
           /\ Points(t) = {p \in Points(s) : p.name # n}
<1>. DEFINE kept == {i \in DOMAIN s : s[i].name # n}
<1>1. PICK m \in 0..Len(s) : \E f \in [1..m -> kept] :
         /\ \A i \in kept : \E j \in 1..m : f[j] = i
         /\ \A i, j \in 1..m : i < j => f[i] < f[j]
         /\ t = [i \in 1..m |-> s[f[i]]]
  <2>. DEFINE Picks(k) == {g \in [1..k -> kept] :
                             /\ \A i \in kept : \E j \in 1..k : g[j] = i
                             /\ \A i, j \in 1..k : i < j => g[i] < g[j]}
  <2>1. t \in {[i \in DOMAIN f |-> s[f[i]]] : f \in UNION {Picks(k) : k \in 0..Len(s)}}
    BY Zenon DEF Ring!Without
  <2>2. PICK m \in 0..Len(s) : \E f \in Picks(m) : t = [i \in DOMAIN f |-> s[f[i]]]
    <3>. HIDE DEF Picks
    <3>. QED
      BY <2>1, Zenon
  <2>3. PICK f \in Picks(m) : t = [i \in DOMAIN f |-> s[f[i]]]
    BY <2>2, Zenon
  <2>4. DOMAIN f = 1..m
    OBVIOUS
  <2>. QED
    BY <2>3, <2>4
<1>2. PICK f \in [1..m -> kept] :
         /\ \A i \in kept : \E j \in 1..m : f[j] = i
         /\ \A i, j \in 1..m : i < j => f[i] < f[j]
         /\ t = [i \in 1..m |-> s[f[i]]]
  BY <1>1
<1>3. /\ t \in Seq(Ring!Point) /\ DOMAIN t = 1..m
      /\ \A i \in 1..m : f[i] \in DOMAIN s /\ s[f[i]].name # n /\ t[i] = s[f[i]]
  BY <1>2
<1>4. Ring!Sorted(t)
  BY <1>2, <1>3 DEF Ring!Sorted
<1>5. Points(t) = {p \in Points(s) : p.name # n}
  <2>1. ASSUME NEW i \in DOMAIN t PROVE t[i] \in Points(s) /\ t[i].name # n
    <3>1. f[i] \in DOMAIN s /\ s[f[i]].name # n /\ t[i] = s[f[i]]
      BY <1>3
    <3>. QED
      BY <3>1 DEF Points
  <2>2. ASSUME NEW j \in DOMAIN s, s[j].name # n PROVE s[j] \in Points(t)
    <3>1. PICK i \in 1..m : f[i] = j
      BY <1>2, <2>2
    <3>2. i \in DOMAIN t /\ t[i] = s[j]
      BY <1>3, <3>1
    <3>. QED
      BY <3>2 DEF Points
  <2>. QED
    BY <2>1, <2>2 DEF Points
<1>. QED
  BY <1>3, <1>4, <1>5
-----------------------------------------------------------------------------
\* What the operations make of the points.
LEMMA AddNodePoints ==
    ASSUME Ring!RingAssumption, Ring!TypeOK, NEW n \in Nodes, Ring!AddNode(n)
    PROVE  /\ nodes' \in Seq(Ring!Point) /\ Ring!Sorted(nodes')
           /\ Points(nodes') = Points(nodes) \union Points(Ring!SpotsOf(n))
<1>. DEFINE s == nodes \o Ring!SpotsOf(n)
<1>1. /\ nodes \in Seq(Ring!Point)
      /\ Ring!SpotsOf(n) \in Seq(Ring!Point) /\ Len(Ring!SpotsOf(n)) = Spots
      /\ MaxPoints \in Nat /\ Spots \in Nat
  BY HashesOnRing DEF Ring!RingAssumption, Ring!TypeOK, Ring!SpotsOf
<1>2. s \in Seq(Ring!Point) /\ Len(s) <= MaxPoints
  BY <1>1 DEF Ring!AddNode
<1>3. nodes' \in Seq(Ring!Point) /\ Ring!Sorted(nodes') /\ Points(nodes') = Points(s)
  <2>. HIDE DEF s
  <2>1. nodes' \in Ring!Arranged(s)
    BY DEF Ring!AddNode, s
  <2>. QED
    BY <1>1, <1>2, <2>1, ArrangedPoints
<1>4. Points(s) = Points(nodes) \union Points(Ring!SpotsOf(n))
  <2>1. ASSUME NEW i \in DOMAIN s
        PROVE  s[i] \in Points(nodes) \union Points(Ring!SpotsOf(n))
    BY <1>1 DEF Points
  <2>2. ASSUME NEW i \in DOMAIN nodes PROVE nodes[i] \in Points(s)
    BY <1>1 DEF Points
  <2>3. ASSUME NEW i \in DOMAIN Ring!SpotsOf(n) PROVE Ring!SpotsOf(n)[i] \in Points(s)
    <3>1. Len(nodes) + i \in DOMAIN s /\ s[Len(nodes) + i] = Ring!SpotsOf(n)[i]
      BY <1>1
    <3>. QED
      BY <3>1 DEF Points
  <2>. QED
    BY <2>1, <2>2, <2>3 DEF Points
<1>. QED
  BY <1>3, <1>4

\* RemoveNode takes the points of its node away and leaves the rest sorted.
LEMMA RemoveNodePoints ==
    ASSUME Ring!TypeOK, Ring!Sorted(nodes), NEW n \in Nodes, Ring!RemoveNode(n)
    PROVE  /\ nodes' \in Seq(Ring!Point) /\ Ring!Sorted(nodes')
           /\ Points(nodes') = {p \in Points(nodes) : p.name # n}
  BY WithoutPoints DEF Ring!TypeOK, Ring!RemoveNode

\* The inductive invariant is preserved.
LEMMA RingNextIInv ==
    ASSUME Ring!RingAssumption, RingIInv, [Ring!Next]_Ring!vars
    PROVE  RingIInv'
<1>. USE DEF RingIInv
<1>1. ASSUME NEW n \in Nodes, Ring!AddNode(n) PROVE RingIInv'
  <2>1. /\ nodes' \in Seq(Ring!Point) /\ Ring!Sorted(nodes') /\ kind' = kind
        /\ Points(nodes') = Points(nodes) \union Points(Ring!SpotsOf(n))
    BY <1>1, AddNodePoints DEF Ring!AddNode
  <2>2. \A k : Ring!SpotsOf(k)' = Ring!SpotsOf(k)
    BY <2>1 DEF Ring!SpotsOf, Ring!Cut
  <2>3. Ring!TypeOK' /\ Ring!Sorted(nodes)'
    BY <2>1 DEF Ring!TypeOK, Ring!Sorted, Ring!Point, Ring!Hashes
  <2>4. \A p \in Points(Ring!SpotsOf(n)) : p.name = n
    BY DEF Points, Ring!SpotsOf
  <2>5. Complete'
    <3>. SUFFICES ASSUME NEW k \in NamesOf(Points(nodes'))
                  PROVE  {p \in Points(nodes') : p.name = k} = Points(Ring!SpotsOf(k))
      BY <2>2 DEF Complete
    <3>. PICK q \in Points(nodes') : q.name = k
      BY DEF NamesOf
    <3>1. CASE q.name = n
      <4>1. \A p \in Points(nodes) : p.name = n => p \in Points(Ring!SpotsOf(n))
        BY DEF Complete, NamesOf
      <4>. QED
        BY <2>1, <2>4, <3>1, <4>1
    <3>2. CASE q.name # n
      <4>1. q \in Points(nodes)
        BY <2>1, <2>4, <3>2
      <4>2. {p \in Points(nodes) : p.name = q.name} = Points(Ring!SpotsOf(q.name))
        BY <4>1 DEF Complete, NamesOf
      <4>. QED
        BY <2>1, <2>4, <3>2, <4>2
    <3>. QED
      BY <3>1, <3>2
  <2>. QED
    BY <2>3, <2>5
<1>2. ASSUME NEW n \in Nodes, Ring!RemoveNode(n) PROVE RingIInv'
  <2>1. /\ nodes' \in Seq(Ring!Point) /\ Ring!Sorted(nodes') /\ kind' = kind
        /\ Points(nodes') = {p \in Points(nodes) : p.name # n}
    BY <1>2, RemoveNodePoints DEF Ring!RemoveNode
  <2>2. \A k : Ring!SpotsOf(k)' = Ring!SpotsOf(k)
    BY <2>1 DEF Ring!SpotsOf, Ring!Cut
  <2>3. Ring!TypeOK' /\ Ring!Sorted(nodes)'
    BY <2>1 DEF Ring!TypeOK, Ring!Sorted, Ring!Point, Ring!Hashes
  <2>4. Complete'
    <3>. SUFFICES ASSUME NEW k \in NamesOf(Points(nodes'))
                  PROVE  {p \in Points(nodes') : p.name = k} = Points(Ring!SpotsOf(k))
      BY <2>2 DEF Complete
    <3>. PICK q \in Points(nodes') : q.name = k
      BY DEF NamesOf
    <3>1. q \in Points(nodes) /\ q.name # n
      BY <2>1
    <3>2. {p \in Points(nodes) : p.name = q.name} = Points(Ring!SpotsOf(q.name))
      BY <3>1 DEF Complete, NamesOf
    <3>. QED
      BY <2>1, <3>1, <3>2
  <2>. QED
    BY <2>3, <2>4
<1>3. CASE UNCHANGED Ring!vars
  <2>1. nodes' = nodes /\ kind' = kind
    BY <1>3 DEF Ring!vars
  <2>2. \A k : Ring!SpotsOf(k)' = Ring!SpotsOf(k)
    BY <2>1 DEF Ring!SpotsOf, Ring!Cut
  <2>3. Ring!TypeOK' /\ Ring!Sorted(nodes)'
    BY <2>1 DEF Ring!TypeOK, Ring!Sorted, Ring!Point, Ring!Hashes
  <2>4. Complete'
    BY <2>1, <2>2 DEF Complete, NamesOf, Points
  <2>. QED
    BY <2>3, <2>4
<1>. QED
  BY <1>1, <1>2, <1>3 DEF Ring!Next
-----------------------------------------------------------------------------
\* Which nodes are closest depends on the points only.
LEMMA ClosestNearest ==
    ASSUME NEW key
    PROVE  Ring!Closest(key) = Nearest(Points(nodes), Ring!Place(key))
  BY DEF Ring!Closest, Nearest, Points

\* Every step moves only keys of the node it is about.
LEMMA NextMoves ==
    ASSUME Ring!RingAssumption, RingIInv, RingIInv', [Ring!Next]_Ring!vars, NEW key \in Ring!Keys,
           Ring!GetNode(key)' \in NamesOf(Points(nodes)),
           Ring!GetNode(key) \in NamesOf(Points(nodes'))
    PROVE  {Ring!GetNode(key), Ring!GetNode(key)'} \subseteq Ring!Closest(key)
<1>. DEFINE P == Points(nodes)
           Q == Points(nodes')
           at == Ring!Place(key)
           o == Ring!GetNode(key)
           m == Ring!GetNode(key)'
<1>1. kind' = kind
  BY DEF Ring!Next, Ring!AddNode, Ring!RemoveNode, Ring!vars
<1>2. key \in Ring!Keys' /\ Ring!Place(key)' = at
  BY <1>1 DEF Ring!Keys, Ring!Place, Ring!Cut
<1>3. nodes # <<>> /\ nodes' # <<>>
  BY DEF NamesOf, Points
<1>4. o \in Nearest(P, at)
  BY <1>3, SortedOwner, ClosestNearest DEF RingIInv, Ring!OwnerIsClosest
<1>5. m \in Nearest(Q, at)
  <2>1. (Ring!RingAssumption /\ Ring!TypeOK /\ Ring!Sorted(nodes) => Ring!OwnerIsClosest)'
    BY SortedOwner, PTL
  <2>2. m \in Ring!Closest(key)'
    BY <1>2, <1>3, <2>1 DEF Ring!OwnerIsClosest, RingIInv, Ring!RingAssumption
  <2>3. Ring!Closest(key)' = {p.name : p \in {q \in Q : \A r \in Q :
                            Ring!Ahead(at, q.hash) <= Ring!Ahead(at, r.hash)}}
    BY <1>2 DEF Ring!Closest, Points, Ring!Ahead
  <2>. QED
    BY <2>2, <2>3 DEF Nearest
<1>. HIDE DEF P, Q, at, o, m
<1>6. ASSUME NEW n \in Nodes, Ring!AddNode(n) PROVE m \in Nearest(P, at)
  <2>1. Q = P \union Points(Ring!SpotsOf(n))
    BY <1>6, AddNodePoints DEF P, Q, RingIInv
  <2>2. PICK q \in Q : q.name = m /\ \A r \in Q : Ring!Ahead(at, q.hash) <= Ring!Ahead(at, r.hash)
    BY <1>5 DEF Nearest
  <2>3. m \in NamesOf(P)
    BY DEF m, P
  <2>4. q \in P
    <3>1. CASE q \in Points(Ring!SpotsOf(n))
      <4>1. m = n
        BY <2>2, <3>1 DEF Points, Ring!SpotsOf
      <4>. QED
        BY <2>3, <3>1, <4>1 DEF RingIInv, Complete, P
    <3>. QED
      BY <2>1, <3>1
  <2>. QED
    BY <2>1, <2>2, <2>4 DEF Nearest
<1>7. ASSUME NEW n \in Nodes, Ring!RemoveNode(n) PROVE m \in Nearest(P, at)
  <2>1. Q = {p \in P : p.name # n}
    BY <1>7, RemoveNodePoints DEF P, Q, RingIInv
  <2>2. PICK q \in Q : q.name = m /\ \A r \in Q : Ring!Ahead(at, q.hash) <= Ring!Ahead(at, r.hash)
    BY <1>5 DEF Nearest
  <2>3. PICK w \in P : w.name = o /\ \A r \in P : Ring!Ahead(at, w.hash) <= Ring!Ahead(at, r.hash)
    BY <1>4 DEF Nearest
  <2>4. o # n
    BY <2>1 DEF o, Q, NamesOf
  <2>5. Ring!Ahead(at, q.hash) <= Ring!Ahead(at, w.hash)
    BY <2>1, <2>2, <2>3, <2>4
  <2>6. /\ at \in Int /\ Size \in Int
        /\ \A r \in P : r.hash \in Int
    BY HashesOnRing DEF RingIInv, P, Points, at, Ring!RingAssumption
  <2>7. \A r \in P : Ring!Ahead(at, q.hash) <= Ring!Ahead(at, r.hash)
    <3>1. \A r \in P : Ring!Ahead(at, r.hash) \in Int
      BY <2>6 DEF Ring!Ahead
    <3>. QED
      BY <2>1, <2>3, <2>5, <3>1
  <2>. QED
    BY <2>1, <2>2, <2>7 DEF Nearest
<1>8. ASSUME UNCHANGED Ring!vars PROVE m = o
  <2>1. nodes' = nodes /\ kind' = kind
    BY <1>8 DEF Ring!vars
  <2>2. Ring!TargetHash(key)' = Ring!TargetHash(key)
    BY <2>1 DEF Ring!TargetHash, Ring!Cut
  <2>. QED
    BY <2>1, <2>2 DEF o, m, Ring!GetNode, Ring!SearchFrom
<1>. QED
  BY <1>4, <1>6, <1>7, <1>8, ClosestNearest DEF Ring!Next, o, m, P, at
-----------------------------------------------------------------------------
\* The inductive invariant holds in every reachable state.
LEMMA InitRingIInv == Ring!Init => RingIInv
BY DEF Ring!Init, RingIInv, Ring!TypeOK, Ring!Sorted, Complete, NamesOf, Points

\* Every state of a ring used alone satisfies the invariant.
LEMMA RingInvariance == Ring!Spec => []RingIInv
<1>. USE RingAssumption
<1>1. Ring!Init => RingIInv
  BY InitRingIInv
<1>2. RingIInv /\ [Ring!Next]_Ring!vars => RingIInv'
  BY RingNextIInv
<1>. QED
  BY <1>1, <1>2, PTL DEF Ring!Spec

\* GetNode of either ring returns a node closest ahead of the key, for every key
\* and every history of AddNode and RemoveNode.
LEMMA OwnerClosest == Ring!Spec => []Ring!OwnerIsClosest
<1>. USE RingAssumption
<1>1. RingIInv => Ring!OwnerIsClosest
  BY SortedOwner DEF RingIInv
<1>. QED
  BY <1>1, RingInvariance, PTL

\* AddNode and RemoveNode move a key only to a node that comes or from one that
\* goes, ties apart.
LEMMA KeysMove == Ring!Spec => Ring!OnlyItsKeysMove
<1>. USE RingAssumption
<1>1. NamesOf(Points(nodes)) = {nodes[i].name : i \in DOMAIN nodes}
  BY DEF NamesOf, Points
<1>2. NamesOf(Points(nodes')) = {nodes[i].name : i \in DOMAIN nodes}'
  BY DEF NamesOf, Points
<1>3. RingIInv /\ RingIInv' /\ [Ring!Next]_Ring!vars => Ring!Moves
  BY <1>1, <1>2, NextMoves DEF Ring!Moves
<1>. QED
  BY <1>3, RingInvariance, PTL DEF Ring!Spec, Ring!OnlyItsKeysMove
-----------------------------------------------------------------------------
(***************************************************************************)
(* Sums of counters.  SumOf is a fold, whose function of subsets exists    *)
(* and is what the recursion says, by induction over their cardinalities.  *)
(***************************************************************************)
One(s) == CHOOSE x \in s : TRUE

IsPartial(f, h) ==
    h = [s \in SUBSET DOMAIN f |-> IF s = {} THEN 0 ELSE f[One(s)] + h[s \ {One(s)}]]

\* A sum is the last entry of a table of the sums over the subsets.
LEMMA SumIsPartial ==
    ASSUME NEW f
    PROVE  Pool!SumOf(f) = (CHOOSE h : IsPartial(f, h))[DOMAIN f]
BY Zenon DEF Pool!SumOf, Pool!FoldSet, Pool!MapThenFoldSet, IsPartial, One

\* The element the fold takes is one of the set.
LEMMA OneIn == \A s : s # {} => One(s) \in s
BY DEF One

\* A smaller subset, and its cardinality.
LEMMA OneLess ==
    ASSUME NEW D, IsFiniteSet(D), NEW s \in SUBSET D
    PROVE  /\ Cardinality(s) \in Nat /\ Cardinality(s) <= Cardinality(D)
           /\ Cardinality(s) = 0 <=> s = {}
           /\ s # {} => /\ s \ {One(s)} \in SUBSET D
                        /\ Cardinality(s \ {One(s)}) = Cardinality(s) - 1
<1>1. IsFiniteSet(s) /\ Cardinality(s) <= Cardinality(D)
  BY FS_Subset
<1>2. Cardinality(s) \in Nat
  BY <1>1, FS_CardinalityType
<1>3. Cardinality(s) = 0 <=> s = {}
  BY <1>1, FS_EmptySet
<1>4. ASSUME s # {} PROVE Cardinality(s \ {One(s)}) = Cardinality(s) - 1
  BY <1>1, <1>4, OneIn, FS_RemoveElement
<1>. QED
  BY <1>1, <1>2, <1>3, <1>4

\* What a function of the subsets of D is, up to cardinality n.
UpTo(D, f, h, n) ==
    \A s \in SUBSET D : Cardinality(s) <= n =>
        h[s] = IF s = {} THEN 0 ELSE f[One(s)] + h[s \ {One(s)}]

\* By induction over n, a function that is right for subsets of up to n members.
LEMMA PartialUpTo ==
    ASSUME NEW D, IsFiniteSet(D), NEW f \in [D -> Nat], NEW n \in Nat
    PROVE  \E h \in [SUBSET D -> Nat] : UpTo(D, f, h, n)
<1>. DEFINE P(h, m) == \A s \in SUBSET D : Cardinality(s) <= m =>
                h[s] = IF s = {} THEN 0 ELSE f[One(s)] + h[s \ {One(s)}]
            T == {m \in Nat : ~ \E h \in [SUBSET D -> Nat] : P(h, m)}
<1>1. 0 \notin T
  <2>. DEFINE h == [s \in SUBSET D |-> 0]
  <2>1. h \in [SUBSET D -> Nat]
    OBVIOUS
  <2>2. ASSUME NEW s \in SUBSET D, Cardinality(s) <= 0 PROVE s = {}
    <3>1. Cardinality(s) \in Nat /\ (Cardinality(s) = 0 <=> s = {})
      BY OneLess
    <3>. QED
      BY <2>2, <3>1
  <2>3. P(h, 0)
    BY <2>2
  <2>. QED
    BY <2>1, <2>3
<1>2. ASSUME NEW m \in Nat, m \notin T PROVE m + 1 \notin T
  <2>1. PICK h \in [SUBSET D -> Nat] : P(h, m)
    BY <1>2
  <2>. DEFINE g == [s \in SUBSET D |-> IF Cardinality(s) <= m THEN h[s]
                                       ELSE f[One(s)] + h[s \ {One(s)}]]
  <2>2. ASSUME NEW s \in SUBSET D PROVE g[s] \in Nat
    <3>1. CASE Cardinality(s) <= m
      BY <3>1
    <3>2. CASE ~ (Cardinality(s) <= m)
      <4>1. s # {}
        <5>1. Cardinality(s) = 0 <=> s = {}
          BY OneLess
        <5>. QED
          BY <3>2, <5>1
      <4>2. f[One(s)] \in Nat /\ h[s \ {One(s)}] \in Nat
        BY <4>1, OneIn, OneLess
      <4>. QED
        BY <3>2, <4>2
    <3>. QED
      BY <3>1, <3>2
  <2>3. ASSUME NEW s \in SUBSET D, Cardinality(s) <= m + 1
        PROVE  g[s] = IF s = {} THEN 0 ELSE f[One(s)] + g[s \ {One(s)}]
    <3>1. Cardinality(s) \in Nat
      BY OneLess
    <3>2. CASE s = {}
      <4>1. Cardinality(s) <= m
        BY <3>2, OneLess
      <4>. QED
        BY <2>1, <3>2, <4>1
    <3>3. CASE s # {}
      <4>1. /\ s \ {One(s)} \in SUBSET D /\ Cardinality(s \ {One(s)}) = Cardinality(s) - 1
        BY <3>3, OneLess
      <4>2. g[s \ {One(s)}] = h[s \ {One(s)}]
        BY <2>3, <3>1, <4>1
      <4>3. g[s] = f[One(s)] + h[s \ {One(s)}]
        BY <2>1, <3>3
      <4>. QED
        BY <3>3, <4>2, <4>3
    <3>. QED
      BY <3>2, <3>3
  <2>4. g \in [SUBSET D -> Nat]
    BY <2>2
  <2>. HIDE DEF g
  <2>. QED
    BY <2>3, <2>4
<1>3. T = {}
  <2>. SUFFICES ASSUME T # {} PROVE FALSE
    OBVIOUS
  <2>1. PICK m \in T : \A k \in T : m <= k
    BY LeastNat
  <2>2. m \in Nat /\ m # 0
    BY <1>1
  <2>. HIDE DEF T
  <2>3. m - 1 \in Nat /\ m - 1 \notin T /\ (m - 1) + 1 = m
    BY <2>1, <2>2
  <2>. QED
    BY <1>2, <2>3
<1>4. \E h \in [SUBSET D -> Nat] : P(h, n)
  BY <1>3
<1>. QED
  BY <1>4 DEF UpTo

\* What the fold adds up.
SumsOf(f, h) ==
    /\ h = [s \in SUBSET DOMAIN f |-> h[s]]
    /\ h[{}] = 0
    /\ \A s \in SUBSET DOMAIN f : s # {} => h[s] = f[One(s)] + h[s \ {One(s)}]

\* A sum has such a table: by the least cardinality that would have none.
LEMMA SumByRecursion ==
    ASSUME NEW D, IsFiniteSet(D), NEW f \in [D -> Nat]
    PROVE  \E h : SumsOf(f, h) /\ Pool!SumOf(f) = h[D]
<1>1. PICK h \in [SUBSET D -> Nat] : UpTo(D, f, h, Cardinality(D))
  <2>1. Cardinality(D) \in Nat
    BY FS_CardinalityType
  <2>. QED
    BY <2>1, PartialUpTo
<1>2. \A s \in SUBSET D : h[s] = IF s = {} THEN 0 ELSE f[One(s)] + h[s \ {One(s)}]
  BY <1>1, OneLess DEF UpTo
<1>3. IsPartial(f, h)
  <2>1. h = [s \in SUBSET D |-> h[s]]
    OBVIOUS
  <2>2. [s \in SUBSET D |-> h[s]]
          = [s \in SUBSET D |-> IF s = {} THEN 0 ELSE f[One(s)] + h[s \ {One(s)}]]
    BY <1>2
  <2>3. D = DOMAIN f
    OBVIOUS
  <2>. QED
    BY <2>1, <2>2, <2>3 DEF IsPartial
<1>. DEFINE g == CHOOSE g : IsPartial(f, g)
<1>4. IsPartial(f, g)
  BY <1>3
<1>. HIDE DEF g
<1>5. SumsOf(f, g)
  <2>1. \A s \in SUBSET DOMAIN f : g[s] = IF s = {} THEN 0 ELSE f[One(s)] + g[s \ {One(s)}]
    BY <1>4 DEF IsPartial
  <2>2. g = [s \in SUBSET DOMAIN f |-> g[s]]
    BY <1>4, <2>1 DEF IsPartial
  <2>. QED
    BY <2>1, <2>2 DEF SumsOf
<1>6. Pool!SumOf(f) = g[D]
  BY SumIsPartial DEF g
<1>. QED
  BY <1>5, <1>6

\* One more of one counter is one more of the sum.
LEMMA SumOfOneMore ==
    ASSUME NEW D, IsFiniteSet(D), NEW f \in [D -> Nat], NEW d \in D
    PROVE  /\ Pool!SumOf(f) \in Nat
           /\ Pool!SumOf([f EXCEPT ![d] = @ + 1]) = Pool!SumOf(f) + 1
<1>. DEFINE g == [f EXCEPT ![d] = @ + 1]
<1>1. g \in [D -> Nat] /\ DOMAIN f = D /\ DOMAIN g = D
      /\ g[d] = f[d] + 1 /\ \A x \in D \ {d} : g[x] = f[x]
  OBVIOUS
<1>. HIDE DEF g
<1>2. PICK h : SumsOf(f, h) /\ Pool!SumOf(f) = h[D]
  BY SumByRecursion
<1>3. PICK k : SumsOf(g, k) /\ Pool!SumOf(g) = k[D]
  BY <1>1, SumByRecursion
<1>. DEFINE Same(s) == h[s] \in Nat /\ k[s] = h[s] + (IF d \in s THEN 1 ELSE 0)
            T == {Cardinality(s) : s \in {r \in SUBSET D : ~ Same(r)}}
<1>4. ASSUME NEW s \in SUBSET D, s # {}, Same(s \ {One(s)}) PROVE Same(s)
  <2>1. One(s) \in s /\ One(s) \in D /\ s \ {One(s)} \in SUBSET D
    BY <1>4, OneIn
  <2>2. h[s] = f[One(s)] + h[s \ {One(s)}] /\ k[s] = g[One(s)] + k[s \ {One(s)}]
    BY <1>1, <1>2, <1>3, <1>4 DEF SumsOf
  <2>3. f[One(s)] \in Nat /\ g[One(s)] = f[One(s)] + (IF One(s) = d THEN 1 ELSE 0)
    BY <1>1, <2>1
  <2>4. d \in s <=> d \in s \ {One(s)} \/ One(s) = d
    BY <2>1
  <2>5. ~ (d \in s \ {One(s)} /\ One(s) = d)
    OBVIOUS
  <2>. QED
    BY <1>4, <2>2, <2>3, <2>4, <2>5
<1>5. Same({})
  BY <1>2, <1>3 DEF SumsOf
<1>. HIDE DEF Same
<1>6. T = {}
  <2>. SUFFICES ASSUME T # {} PROVE FALSE
    OBVIOUS
  <2>1. T \subseteq Nat
    <3>1. ASSUME NEW s \in SUBSET D PROVE Cardinality(s) \in Nat
      BY OneLess
    <3>. QED
      BY <3>1
  <2>2. PICK n \in T : \A m \in T : n <= m
    BY <2>1, LeastNat
  <2>3. PICK s \in SUBSET D : ~ Same(s) /\ n = Cardinality(s)
    OBVIOUS
  <2>4. s # {}
    BY <1>5, <2>3
  <2>5. ~ Same(s \ {One(s)}) /\ s \ {One(s)} \in SUBSET D
        /\ Cardinality(s \ {One(s)}) = n - 1 /\ n \in Nat
    BY <1>4, <2>1, <2>3, <2>4, OneLess
  <2>6. n - 1 \in T
    BY <2>5
  <2>. HIDE DEF T
  <2>. QED
    BY <2>2, <2>5, <2>6
<1>7. Same(D)
  <2>. SUFFICES ASSUME ~ Same(D) PROVE FALSE
    OBVIOUS
  <2>1. Cardinality(D) \in T
    OBVIOUS
  <2>. QED
    BY <1>6, <2>1
<1>. QED
  BY <1>2, <1>3, <1>7 DEF Same, g
-----------------------------------------------------------------------------
\* A numeral without its sign bit is no negative number: IntOf is a fold too.
LEMMA PowerOfTwo == \A i \in Nat : 2^i \in Nat
<1>. SUFFICES ASSUME NEW i \in Nat PROVE 2^i \in Nat
  OBVIOUS
<1>1. IsFiniteSet(1..i) /\ Cardinality(1..i) = i
  <2>1. 1 \in Int /\ i \in Int /\ (1 > i => i = 0)
    OBVIOUS
  <2>. QED
    BY <2>1, FS_Interval
<1>2. IsFiniteSet(SUBSET (1..i)) /\ Cardinality(SUBSET (1..i)) = 2^i
  BY <1>1, FS_SUBSET
<1>3. Cardinality(SUBSET (1..i)) \in Nat
  BY <1>2, FS_CardinalityType
<1>. QED
  BY <1>2, <1>3

\* A sum of natural numbers is one.
LEMMA SumsAreNatural ==
    ASSUME NEW D, IsFiniteSet(D), NEW f \in [D -> Nat], NEW h, SumsOf(f, h)
    PROVE  h[D] \in Nat
<1>. DEFINE T == {Cardinality(s) : s \in {r \in SUBSET D : h[r] \notin Nat}}
<1>1. ASSUME NEW s \in SUBSET D, s # {}, h[s \ {One(s)}] \in Nat PROVE h[s] \in Nat
  <2>1. h[s] = f[One(s)] + h[s \ {One(s)}] /\ One(s) \in D
    BY <1>1, OneIn DEF SumsOf
  <2>. QED
    BY <1>1, <2>1
<1>2. T = {}
  <2>. SUFFICES ASSUME T # {} PROVE FALSE
    OBVIOUS
  <2>1. T \subseteq Nat
    <3>1. ASSUME NEW s \in SUBSET D PROVE Cardinality(s) \in Nat
      BY OneLess
    <3>. QED
      BY <3>1
  <2>2. PICK n \in T : \A m \in T : n <= m
    BY <2>1, LeastNat
  <2>3. PICK s \in SUBSET D : h[s] \notin Nat /\ n = Cardinality(s)
    OBVIOUS
  <2>4. s # {}
    <3>1. h[{}] = 0
      BY DEF SumsOf
    <3>. QED
      BY <2>3, <3>1
  <2>5. h[s \ {One(s)}] \notin Nat /\ s \ {One(s)} \in SUBSET D
        /\ Cardinality(s \ {One(s)}) = n - 1 /\ n \in Nat
    BY <1>1, <2>1, <2>3, <2>4, OneLess
  <2>6. n - 1 \in T
    BY <2>5
  <2>. HIDE DEF T
  <2>. QED
    BY <2>2, <2>5, <2>6
<1>3. ASSUME h[D] \notin Nat PROVE FALSE
  <2>1. Cardinality(D) \in T
    BY <1>3
  <2>. QED
    BY <1>2, <2>1
<1>. QED
  BY <1>3

Digit(w, i) == IF i = Width - 1 THEN -w[i] * 2^i ELSE w[i] * 2^i

IsNumeral(w, h) ==
    h = [s \in SUBSET DOMAIN w |-> IF s = {} THEN 0 ELSE Digit(w, One(s)) + h[s \ {One(s)}]]

\* The number a word stands for is the last entry of such a table too.
LEMMA IntIsNumeral ==
    ASSUME NEW w
    PROVE  Filter!IntOf(w) = (CHOOSE h : IsNumeral(w, h))[DOMAIN w]
BY Zenon DEF Filter!IntOf, Filter!MapThenFoldSet, IsNumeral, One, Digit

\* A word whose sign bit is down stands for a natural number.
LEMMA NumeralNotNegative ==
    ASSUME NEW w \in Filter!Words, w[Width - 1] = 0
    PROVE  Filter!IntOf(w) \in Nat
<1>1. Width \in Nat \ {0}
  BY BloomAssumption DEF Filter!BloomAssumption
<1>. DEFINE D == 0..(Width - 1)
            f == [i \in D |-> Digit(w, i)]
<1>2. DOMAIN w = D /\ IsFiniteSet(D)
  BY <1>1, FS_Interval DEF Filter!Words
<1>3. ASSUME NEW i \in D PROVE Digit(w, i) \in Nat
  <2>1. i \in Nat /\ w[i] \in {0, 1} /\ 2^i \in Nat
    BY <1>1, PowerOfTwo DEF Filter!Words
  <2>2. i = Width - 1 => w[i] = 0
    OBVIOUS
  <2>. DEFINE p == 2^i
  <2>3. 0 * p = 0 /\ -0 * p = 0 /\ 1 * p = p
    BY <2>1
  <2>4. CASE w[i] = 0
    BY <2>3, <2>4 DEF Digit
  <2>5. CASE w[i] = 1
    BY <2>1, <2>2, <2>3, <2>5 DEF Digit
  <2>. QED
    BY <2>1, <2>4, <2>5
<1>4. f \in [D -> Nat] /\ DOMAIN f = D /\ \A i \in D : f[i] = Digit(w, i)
  BY <1>3
<1>. HIDE DEF f
<1>5. PICK h : SumsOf(f, h)
  BY <1>2, <1>4, SumByRecursion
<1>6. IsNumeral(w, h)
  <2>1. h = [s \in SUBSET D |-> h[s]]
    BY <1>4, <1>5 DEF SumsOf
  <2>2. ASSUME NEW s \in SUBSET D
        PROVE  h[s] = IF s = {} THEN 0 ELSE Digit(w, One(s)) + h[s \ {One(s)}]
    <3>1. CASE s = {}
      BY <1>5, <3>1 DEF SumsOf
    <3>2. CASE s # {}
      <4>1. h[s] = f[One(s)] + h[s \ {One(s)}]
        BY <1>4, <1>5, <3>2 DEF SumsOf
      <4>2. f[One(s)] = Digit(w, One(s))
        BY <1>4, <3>2, OneIn
      <4>. QED
        BY <3>2, <4>1, <4>2
    <3>. QED
      BY <3>1, <3>2
  <2>3. h = [s \in SUBSET D |-> IF s = {} THEN 0 ELSE Digit(w, One(s)) + h[s \ {One(s)}]]
    BY <2>1, <2>2
  <2>. QED
    BY <1>2, <2>3, Zenon DEF IsNumeral
<1>. DEFINE g == CHOOSE g : IsNumeral(w, g)
<1>7. IsNumeral(w, g)
  BY <1>6
<1>. HIDE DEF g
<1>8. SumsOf(f, g)
  <2>1. \A s \in SUBSET D : g[s] = IF s = {} THEN 0 ELSE Digit(w, One(s)) + g[s \ {One(s)}]
    BY <1>2, <1>7 DEF IsNumeral
  <2>2. g = [s \in SUBSET D |-> g[s]]
    BY <1>2, <1>7, <2>1 DEF IsNumeral
  <2>3. \A s \in SUBSET D : s # {} => f[One(s)] = Digit(w, One(s))
    BY <1>4, OneIn
  <2>. HIDE DEF D
  <2>4. g[{}] = 0
    BY <2>1
  <2>5. \A s \in SUBSET D : s # {} => g[s] = f[One(s)] + g[s \ {One(s)}]
    BY <2>1, <2>3
  <2>. QED
    BY <1>4, <2>2, <2>4, <2>5 DEF SumsOf
<1>9. g[D] \in Nat
  BY <1>2, <1>4, <1>8, SumsAreNatural
<1>. QED
  BY <1>2, <1>9, IntIsNumeral DEF g
-----------------------------------------------------------------------------
(***************************************************************************)
(* The bitmap: a number is a bit of a byte, and the bytes are a set.       *)
(***************************************************************************)
BytesIInv == bits \in [Bits!Bytes -> SUBSET (0..7)]
-----------------------------------------------------------------------------
\* The byte and the bit of a number below the size.
LEMMA BitPlace ==
    ASSUME Bits!BitmapAssumption, NEW index \in 0..(size - 1)
    PROVE  index \div 8 \in Bits!Bytes /\ index % 8 \in 0..7
<1>1. index \in Int /\ 0 <= index /\ index <= size - 1 /\ size \in Int
  BY DEF Bits!BitmapAssumption
<1>2. 0 <= index \div 8 /\ index \div 8 <= (size + 7) \div 8 - 1 /\ index \div 8 \in Int
  BY <1>1
<1>3. (size + 7) \div 8 \in Int
  BY <1>1
<1>. QED
  BY <1>1, <1>2, <1>3 DEF Bits!Bytes

\* No two numbers share a bit.
LEMMA BitsApart ==
    ASSUME NEW i \in Nat, NEW j \in Nat, i \div 8 = j \div 8, i % 8 = j % 8
    PROVE  i = j
  OBVIOUS

\* The arguments that are valid are the members of the set.
LEMMA ValidMembers ==
    ASSUME Bits!BitmapAssumption, NEW index \in Int
    PROVE  Bits!IsValid(index) <=> index \in Bits!Abstract!Members
  BY DEF Bits!BitmapAssumption, Bits!IsValid, Bits!Abstract!Members
-----------------------------------------------------------------------------
\* What raising and lowering a bit do to the set.
LEMMA RaiseInserts ==
    ASSUME Bits!BitmapAssumption, BytesIInv, NEW index \in 0..(size - 1),
           bits' = Bits!Raise(bits, index)
    PROVE  BytesIInv' /\ Bits!set' = Bits!set \union {index}
<1>1. index \div 8 \in Bits!Bytes /\ index % 8 \in 0..7
  BY BitPlace
<1>2. BytesIInv'
  BY <1>1 DEF BytesIInv, Bits!Raise
<1>3. ASSUME NEW j \in 0..(size - 1)
      PROVE  Bits!BitOf(j, bits)' <=> Bits!BitOf(j, bits) \/ j = index
  <2>1. j \div 8 \in Bits!Bytes
    BY BitPlace
  <2>2. j \in Nat /\ index \in Nat
    BY DEF Bits!BitmapAssumption
  <2>3. j \div 8 = index \div 8 /\ j % 8 = index % 8 => j = index
    BY <2>2, BitsApart
  <2>. QED
    BY <1>1, <2>1, <2>3 DEF Bits!BitOf, Bits!Raise, BytesIInv
<1>. QED
  BY <1>2, <1>3 DEF Bits!set

\* Lowering a bit takes its number out of the set, and no other.
LEMMA LowerRemoves ==
    ASSUME Bits!BitmapAssumption, BytesIInv, NEW index \in 0..(size - 1),
           bits' = Bits!Lower(bits, index)
    PROVE  BytesIInv' /\ Bits!set' = Bits!set \ {index}
<1>1. index \div 8 \in Bits!Bytes /\ index % 8 \in 0..7
  BY BitPlace
<1>2. BytesIInv'
  BY <1>1 DEF BytesIInv, Bits!Lower
<1>3. ASSUME NEW j \in 0..(size - 1)
      PROVE  Bits!BitOf(j, bits)' <=> Bits!BitOf(j, bits) /\ j # index
  <2>1. j \div 8 \in Bits!Bytes
    BY BitPlace
  <2>2. j \in Nat /\ index \in Nat
    BY DEF Bits!BitmapAssumption
  <2>3. j \div 8 = index \div 8 /\ j % 8 = index % 8 => j = index
    BY <2>2, BitsApart
  <2>. QED
    BY <1>1, <2>1, <2>3 DEF Bits!BitOf, Bits!Lower, BytesIInv
<1>. QED
  BY <1>2, <1>3 DEF Bits!set

\* What the loop of MSet does to it.
LEMMA RaiseAllInserts ==
    ASSUME Bits!BitmapAssumption, BytesIInv, NEW indexes,
           \A i \in DOMAIN indexes : indexes[i] \in 0..(size - 1),
           bits' = Bits!RaiseAll(bits, indexes)
    PROVE  BytesIInv' /\ Bits!set' = Bits!set \union Bits!Range(indexes)
<1>1. \A i \in DOMAIN indexes : indexes[i] \div 8 \in Bits!Bytes /\ indexes[i] % 8 \in 0..7
  BY BitPlace
<1>2. BytesIInv'
  BY <1>1 DEF BytesIInv, Bits!RaiseAll
<1>3. ASSUME NEW j \in 0..(size - 1)
      PROVE  Bits!BitOf(j, bits)' <=> Bits!BitOf(j, bits) \/ j \in Bits!Range(indexes)
  <2>1. j \div 8 \in Bits!Bytes
    BY BitPlace
  <2>2. j \in Nat /\ \A i \in DOMAIN indexes : indexes[i] \in Nat
    BY DEF Bits!BitmapAssumption
  <2>3. \A i \in DOMAIN indexes :
           j \div 8 = indexes[i] \div 8 /\ j % 8 = indexes[i] % 8 => j = indexes[i]
    BY <2>2, BitsApart
  <2>4. Bits!BitOf(j, bits)' <=>
           \/ Bits!BitOf(j, bits)
           \/ \E i \in DOMAIN indexes :
                 indexes[i] \div 8 = j \div 8 /\ indexes[i] % 8 = j % 8
    BY <2>1 DEF Bits!BitOf, Bits!RaiseAll
  <2>5. (\E i \in DOMAIN indexes :
            indexes[i] \div 8 = j \div 8 /\ indexes[i] % 8 = j % 8)
        <=> j \in Bits!Range(indexes)
    BY <2>3 DEF Bits!Range
  <2>. QED
    BY <2>4, <2>5
<1>4. Bits!Range(indexes) \subseteq 0..(size - 1)
  BY DEF Bits!Range
<1>. QED
  BY <1>2, <1>3, <1>4 DEF Bits!set
-----------------------------------------------------------------------------
\* Each operation keeps the bytes and is a step of the set.
LEMMA RefusedRefines ==
    ASSUME Bits!BitmapAssumption, BytesIInv, NEW op, NEW args \in SUBSET Int, Bits!Refused(op, args)
    PROVE  BytesIInv' /\ Bits!Abstract!Next
<1>. USE DEF Bits!BitmapAssumption
<1>1. ~ args \subseteq Bits!Abstract!Members
  BY ValidMembers DEF Bits!Refused
<1>2. Bits!set' = Bits!set /\ BytesIInv'
  BY DEF Bits!Refused, Bits!set, Bits!BitOf, BytesIInv
<1>. QED
  BY <1>1, <1>2 DEF Bits!Refused, Bits!Called, Bits!Abstract!Next, Bits!Abstract!Panic

\* Set is refused, or puts its number into the set.
LEMMA SetRefines ==
    ASSUME Bits!BitmapAssumption, BytesIInv, NEW index \in Int, Bits!Set(index)
    PROVE  BytesIInv' /\ Bits!Abstract!Next
<1>. USE DEF Bits!BitmapAssumption
<1>1. CASE Bits!Refused("set", {index})
  BY RefusedRefines, <1>1
<1>2. CASE /\ Bits!IsValid(index) /\ bits' = Bits!Raise(bits, index)
           /\ Bits!Called("set", {index}, "ok")
  <2>1. index \in Bits!Abstract!Members
    BY <1>2, ValidMembers
  <2>2. BytesIInv' /\ Bits!set' = Bits!set \union {index}
    BY <1>2, <2>1, RaiseInserts DEF Bits!Abstract!Members
  <2>. QED
    BY <1>2, <2>1, <2>2
       DEF Bits!Called, Bits!Abstract!Next, Bits!Abstract!Insert, Bits!Abstract!Valid
<1>. QED
  BY <1>1, <1>2 DEF Bits!Set

\* Clear is refused, or takes its number out of the set.
LEMMA ClearRefines ==
    ASSUME Bits!BitmapAssumption, BytesIInv, NEW index \in Int, Bits!Clear(index)
    PROVE  BytesIInv' /\ Bits!Abstract!Next
<1>. USE DEF Bits!BitmapAssumption
<1>1. CASE Bits!Refused("clear", {index})
  BY RefusedRefines, <1>1
<1>2. CASE /\ Bits!IsValid(index) /\ bits' = Bits!Lower(bits, index)
           /\ Bits!Called("clear", {index}, "ok")
  <2>1. index \in Bits!Abstract!Members
    BY <1>2, ValidMembers
  <2>2. BytesIInv' /\ Bits!set' = Bits!set \ {index}
    BY <1>2, <2>1, LowerRemoves DEF Bits!Abstract!Members
  <2>. QED
    BY <1>2, <2>1, <2>2
       DEF Bits!Called, Bits!Abstract!Next, Bits!Abstract!Clear, Bits!Abstract!Valid
<1>. QED
  BY <1>1, <1>2 DEF Bits!Clear

\* IsSet is refused, or answers as the set does.
LEMMA IsSetRefines ==
    ASSUME Bits!BitmapAssumption, BytesIInv, NEW index \in Int, Bits!IsSet(index)
    PROVE  BytesIInv' /\ Bits!Abstract!Next
<1>. USE DEF Bits!BitmapAssumption
<1>1. CASE Bits!Refused("isSet", {index})
  BY RefusedRefines, <1>1
<1>2. CASE /\ Bits!IsValid(index)
           /\ Bits!Called("isSet", {index}, IF Bits!BitOf(index, bits) THEN "true" ELSE "false")
           /\ UNCHANGED bits
  <2>1. index \in Bits!Abstract!Members
    BY <1>2, ValidMembers
  <2>2. Bits!set' = Bits!set /\ BytesIInv'
    BY <1>2 DEF Bits!set, Bits!BitOf, BytesIInv
  <2>3. Bits!BitOf(index, bits) <=> {index} \subseteq Bits!set
    BY <2>1 DEF Bits!set, Bits!Abstract!Members
  <2>. QED
    BY <1>2, <2>1, <2>2, <2>3
       DEF Bits!Called, Bits!Abstract!Next, Bits!Abstract!IsSet, Bits!Abstract!Valid
<1>. QED
  BY <1>1, <1>2 DEF Bits!IsSet

\* MSet is refused whole, or puts all its numbers into the set.
LEMMA MSetRefines ==
    ASSUME Bits!BitmapAssumption, BytesIInv,
           NEW indexes, \A k \in DOMAIN indexes : indexes[k] \in Int,
           Bits!MSet(indexes)
    PROVE  BytesIInv' /\ Bits!Abstract!Next
<1>. USE DEF Bits!BitmapAssumption
<1>1. Bits!Range(indexes) \in SUBSET Int
  BY DEF Bits!Range
<1>2. CASE Bits!Refused("set", Bits!Range(indexes))
  BY RefusedRefines, <1>1, <1>2
<1>3. CASE /\ \A k \in DOMAIN indexes : Bits!IsValid(indexes[k])
           /\ bits' = Bits!RaiseAll(bits, indexes)
           /\ Bits!Called("set", Bits!Range(indexes), "ok")
  <2>1. \A k \in DOMAIN indexes : indexes[k] \in Bits!Abstract!Members
    BY <1>1, <1>3, ValidMembers
  <2>2. BytesIInv' /\ Bits!set' = Bits!set \union Bits!Range(indexes)
    BY <1>3, <2>1, RaiseAllInserts DEF Bits!Abstract!Members
  <2>3. Bits!Range(indexes) \subseteq Bits!Abstract!Members
    BY <2>1 DEF Bits!Range
  <2>. QED
    BY <1>3, <2>2, <2>3
       DEF Bits!Called, Bits!Abstract!Next, Bits!Abstract!Insert, Bits!Abstract!Valid
<1>. QED
  BY <1>2, <1>3 DEF Bits!MSet
-----------------------------------------------------------------------------
(***************************************************************************)
(* The Bloom filter: the bits of what was added are up.                    *)
(***************************************************************************)
IsUp(d, f) == Filter!Bits!BitOf(Filter!Index(d, f), bits)

\* The bits of what was added, and of what is being added, are up.
AddedUp ==
    /\ \A d \in added, f \in 1..HashFuncs : IsUp(d, f)
    /\ \A u \in Users :
          user[u].op = "Add" => \A f \in 1..(user[u].fn - 1) : IsUp(user[u].data[1], f)

CallType ==
    [op : {"none", "Add", "MAdd", "Contains"}, data : Seq(Elements),
     fn : 0..(HashFuncs + 1), known : BOOLEAN,
     at : {"idle", "running", "returned", "absent", "panicked"}]

\* The data of a call, which hash it is at, and what is known of it.
CallOk(r, A) ==
    /\ r.op = "none" => r.at = "idle" /\ r.fn = 0
    /\ r.at = "running" => r.fn \in 1..HashFuncs
    /\ r.op = "MAdd" => Len(r.data) = 2
    /\ r.op \in {"Add", "Contains"} => Len(r.data) = 1
    /\ r.known => r.data # <<>> /\ r.data[1] \in A

Calls == \A u \in Users : CallOk(user[u], added)

FilterIInv == Filter!TypeOK /\ AddedUp /\ Calls /\ Filter!NoFalseNegative
-----------------------------------------------------------------------------
\* The last step of a hash function clears the sign: a word shifted to the right
\* keeps its sign, and xor of equal signs is 0.
LEMMA MixedClearsSign ==
    ASSUME Filter!BloomAssumption, NEW w \in Filter!Words
    PROVE  Filter!Mixed(w) \in Filter!Words /\ Filter!Mixed(w)[Width - 1] = 0
<1>1. Width - 1 \in 0..(Width - 1) /\ ~(Width - 1 + Shift < Width)
  BY DEF Filter!BloomAssumption
<1>2. DOMAIN w = 0..(Width - 1)
  BY DEF Filter!Words
<1>3. Filter!Shifted(w)[Width - 1] = w[Width - 1]
  BY <1>1, <1>2 DEF Filter!Shifted
<1>. QED
  BY <1>1, <1>2, <1>3 DEF Filter!Mixed, Filter!Words

\* So that every index is one of the bitmap.
LEMMA IndexInRange ==
    ASSUME Filter!BloomAssumption, NEW d \in Elements, NEW f \in 1..HashFuncs
    PROVE  Filter!Index(d, f) \in 0..(size - 1)
<1>. DEFINE w == Product[d][f]
           n == Filter!IntOf(Filter!Mixed(w))
<1>1. w \in Filter!Words
  BY DEF Filter!BloomAssumption, Filter!Words
<1>2. n \in Nat
  BY <1>1, MixedClearsSign, NumeralNotNegative
<1>. HIDE DEF n
<1>3. size \in Int /\ size > 0 /\ n \in Int /\ n >= 0
  BY <1>2 DEF Filter!BloomAssumption
<1>4. n % size \in 0..(size - 1)
  BY ONLY <1>3
<1>. QED
  BY <1>3, <1>4 DEF Filter!Index, Filter!Rem, n

\* The indexes of MAdd are those of its elements.
LEMMA IndexesOfTwo ==
    ASSUME HashFuncs \in Nat \ {0}, NEW ds \in Seq(Elements), Len(ds) = 2
    PROVE  /\ \A i \in DOMAIN Filter!IndexesOf(ds) : \E j \in 1..2, f \in 1..HashFuncs :
                 Filter!IndexesOf(ds)[i] = Filter!Index(ds[j], f)
           /\ \A j \in 1..2, f \in 1..HashFuncs : \E i \in DOMAIN Filter!IndexesOf(ds) :
                 Filter!IndexesOf(ds)[i] = Filter!Index(ds[j], f)
<1>. DEFINE H == HashFuncs
<1>1. DOMAIN Filter!IndexesOf(ds) = 1..(2 * H)
  BY DEF Filter!IndexesOf
<1>2. ASSUME NEW f \in 1..H PROVE Filter!IndexesOf(ds)[f] = Filter!Index(ds[1], f)
  <2>1. ((f - 1) \div H) + 1 = 1 /\ ((f - 1) % H) + 1 = f /\ f \in 1..(2 * H)
    OBVIOUS
  <2>2. Filter!IndexesOf(ds)[f] = Filter!Index(ds[((f - 1) \div H) + 1], ((f - 1) % H) + 1)
    BY <2>1 DEF Filter!IndexesOf
  <2>. QED
    BY <2>1, <2>2, Zenon
<1>3. ASSUME NEW f \in 1..H PROVE Filter!IndexesOf(ds)[H + f] = Filter!Index(ds[2], f)
  <2>. DEFINE i == H + f
  <2>1. ((i - 1) \div H) + 1 = 2 /\ ((i - 1) % H) + 1 = f /\ i \in 1..(2 * H)
    OBVIOUS
  <2>2. Filter!IndexesOf(ds)[i] = Filter!Index(ds[((i - 1) \div H) + 1], ((i - 1) % H) + 1)
    BY <2>1 DEF Filter!IndexesOf
  <2>. QED
    BY <2>1, <2>2, Zenon
<1>4. ASSUME NEW i \in 1..(2 * H)
      PROVE  \E j \in 1..2, f \in 1..H : Filter!IndexesOf(ds)[i] = Filter!Index(ds[j], f)
  <2>1. CASE i <= H
    BY <1>2, <2>1
  <2>2. CASE i > H
    <3>1. i - H \in 1..H /\ H + (i - H) = i
      BY <2>2
    <3>. QED
      BY <1>3, <3>1
  <2>. QED
    BY <2>1, <2>2
<1>5. ASSUME NEW j \in 1..2, NEW f \in 1..H
      PROVE  \E i \in 1..(2 * H) : Filter!IndexesOf(ds)[i] = Filter!Index(ds[j], f)
  <2>1. f \in 1..(2 * H) /\ H + f \in 1..(2 * H)
    OBVIOUS
  <2>. QED
    BY <1>2, <1>3, <2>1
<1>. QED
  BY <1>1, <1>4, <1>5
-----------------------------------------------------------------------------
\* What the operations of the bitmap do with valid arguments: they do not panic,
\* and lower no bit.
LEMMA SetKeeps ==
    ASSUME size \in Nat, Filter!Bits!TypeOK, NEW index \in 0..(size - 1), Filter!Bits!Set(index)
    PROVE  /\ Filter!Bits!TypeOK' /\ call'.result = "ok" /\ Filter!Bits!BitOf(index, bits')
           /\ \A j \in 0..(size - 1) : Filter!Bits!BitOf(j, bits) => Filter!Bits!BitOf(j, bits')
<1>1. /\ Filter!Bits!IsValid(index) /\ bits' = Filter!Bits!Raise(bits, index)
      /\ Filter!Bits!Called("set", {index}, "ok")
  BY DEF Filter!Bits!Set, Filter!Bits!Refused, Filter!Bits!IsValid
<1>2. /\ \A j \in 0..(size - 1) : j \div 8 \in Filter!Bits!Bytes
      /\ index % 8 \in 0..7
  BY DEF Filter!Bits!Bytes
<1>. QED
  BY <1>1, <1>2
     DEF Filter!Bits!TypeOK, Filter!Bits!Raise, Filter!Bits!BitOf, Filter!Bits!Called

\* MSet of numbers in range raises their bits, and is not refused.
LEMMA MSetKeeps ==
    ASSUME size \in Nat, Filter!Bits!TypeOK, NEW indexes, Filter!Bits!MSet(indexes),
           \A i \in DOMAIN indexes : indexes[i] \in 0..(size - 1)
    PROVE  /\ Filter!Bits!TypeOK' /\ call'.result = "ok"
           /\ \A i \in DOMAIN indexes : Filter!Bits!BitOf(indexes[i], bits')
           /\ \A j \in 0..(size - 1) : Filter!Bits!BitOf(j, bits) => Filter!Bits!BitOf(j, bits')
<1>1. /\ bits' = Filter!Bits!RaiseAll(bits, indexes)
      /\ \E args : Filter!Bits!Called("set", args, "ok")
  <2>1. \A i \in DOMAIN indexes : Filter!Bits!IsValid(indexes[i])
    BY DEF Filter!Bits!IsValid
  <2>2. ~ \E index \in Filter!Bits!Range(indexes) : ~Filter!Bits!IsValid(index)
    BY <2>1 DEF Filter!Bits!Range
  <2>. QED
    BY <2>1, <2>2 DEF Filter!Bits!MSet, Filter!Bits!Refused
<1>2. /\ \A j \in 0..(size - 1) : j \div 8 \in Filter!Bits!Bytes /\ j % 8 \in 0..7
      /\ \A i \in DOMAIN indexes :
            indexes[i] \div 8 \in Filter!Bits!Bytes /\ indexes[i] % 8 \in 0..7
  BY DEF Filter!Bits!Bytes
<1>. QED
  BY <1>1, <1>2
     DEF Filter!Bits!TypeOK, Filter!Bits!RaiseAll, Filter!Bits!BitOf, Filter!Bits!Called

\* IsSet changes no bit, and false is the answer for a bit that is down.
LEMMA IsSetReads ==
    ASSUME size \in Nat, Filter!Bits!TypeOK, NEW index \in 0..(size - 1), Filter!Bits!IsSet(index)
    PROVE  /\ Filter!Bits!TypeOK' /\ bits' = bits /\ call'.result \in {"true", "false"}
           /\ call'.result = "false" => ~Filter!Bits!BitOf(index, bits)
  BY DEF Filter!Bits!IsSet, Filter!Bits!Refused, Filter!Bits!IsValid,
         Filter!Bits!Called, Filter!Bits!TypeOK
-----------------------------------------------------------------------------
\* A call goes on to its next hash, or ends.
LEMMA CallContinues ==
    ASSUME HashFuncs \in Nat, NEW A, NEW B, A \subseteq B,
           NEW r \in CallType, CallOk(r, A), r.at = "running", NEW s,
           s.at \in {"absent", "returned", "running"},
           s.at = "running" => r.fn < HashFuncs, s.fn = r.fn + 1,
           s.op = r.op, s.data = r.data, s.known = r.known
    PROVE  CallOk(s, B)
<1>1. r.op \in {"Add", "MAdd", "Contains"} /\ r.fn \in 1..HashFuncs
  BY DEF CallOk, CallType
<1>2. s.at = "running" => s.fn \in 1..HashFuncs
  BY <1>1
<1>3. s.known => s.data # <<>> /\ s.data[1] \in B
  BY Zenon DEF CallOk
<1>4. /\ s.op = "MAdd" => Len(s.data) = 2
      /\ s.op \in {"Add", "Contains"} => Len(s.data) = 1
      /\ s.op # "none"
  BY <1>1 DEF CallOk
<1>. QED
  BY <1>2, <1>3, <1>4 DEF CallOk

\* What Continue does after an operation that did not panic.
LEMMA ContinueKeeps ==
    ASSUME Filter!TypeOK, Calls, HashFuncs \in Nat,
           NEW u \in Users, user[u].at = "running", NEW over \in BOOLEAN,
           Filter!Continue(u, over), call'.result \in {"ok", "true", "false"},
           ~over => user[u].fn < HashFuncs
    PROVE  /\ \A v \in Users \ {u} : user'[v] = user[v]
           /\ user'[u].op = user[u].op /\ user'[u].data = user[u].data
           /\ user'[u].known = user[u].known /\ user'[u].fn = user[u].fn + 1
           /\ user'[u].at = IF call'.result = "false" THEN "absent"
                            ELSE IF over THEN "returned" ELSE "running"
           /\ added' = IF user'[u].at = "returned" /\ user[u].op # "Contains"
                       THEN added \union {user[u].data[i] : i \in DOMAIN user[u].data}
                       ELSE added
           /\ user' \in [Users -> CallType] /\ added' \in SUBSET Elements
           /\ Calls'
<1>. DEFINE at == IF call'.result = "panic" THEN "panicked"
                  ELSE IF call'.result = "false" THEN "absent"
                  ELSE IF over THEN "returned" ELSE "running"
<1>1. /\ at = IF call'.result = "false" THEN "absent"
              ELSE IF over THEN "returned" ELSE "running"
      /\ at \in {"absent", "returned", "running"}
      /\ at = "running" => user[u].fn < HashFuncs
  OBVIOUS
<1>2. /\ user' = [user EXCEPT ![u].at = at, ![u].fn = @ + 1]
      /\ added' = IF at = "returned" /\ user[u].op # "Contains"
                  THEN added \union {user[u].data[i] : i \in DOMAIN user[u].data}
                  ELSE added
  BY DEF Filter!Continue
<1>. HIDE DEF at
<1>3. user \in [Users -> CallType] /\ added \subseteq Elements
  BY DEF Filter!TypeOK, CallType
<1>4. /\ \A v \in Users \ {u} : user'[v] = user[v]
      /\ user'[u] = [user[u] EXCEPT !.at = at, !.fn = @ + 1]
      /\ DOMAIN user' = Users /\ user' = [v \in Users |-> user'[v]]
  BY <1>2, <1>3
<1>5. added' \in SUBSET Elements /\ added \subseteq added'
  BY <1>2, <1>3 DEF CallType
<1>6. /\ user'[u] \in CallType /\ CallOk(user'[u], added')
      /\ user'[u].op = user[u].op /\ user'[u].data = user[u].data
      /\ user'[u].known = user[u].known
      /\ user'[u].fn = user[u].fn + 1 /\ user'[u].at = at
  <2>1. user[u] \in CallType /\ CallOk(user[u], added)
    BY <1>3 DEF Calls
  <2>2. user[u].fn \in 1..HashFuncs
    BY <2>1 DEF CallOk
  <2>3. /\ user'[u].op = user[u].op /\ user'[u].data = user[u].data
        /\ user'[u].known = user[u].known
        /\ user'[u].fn = user[u].fn + 1 /\ user'[u].at = at
    BY <1>4, <2>1 DEF CallType
  <2>4. user'[u] \in CallType
    <3>1. user[u].fn + 1 \in 0..(HashFuncs + 1)
      BY <2>2
    <3>. QED
      BY <1>1, <1>4, <2>1, <3>1 DEF CallType
  <2>5. CallOk(user'[u], added')
    BY <1>1, <1>5, <2>1, <2>3, CallContinues
  <2>. QED
    BY <2>3, <2>4, <2>5
<1>7. ASSUME NEW v \in Users PROVE user'[v] \in CallType /\ CallOk(user'[v], added')
  <2>1. CASE v = u
    BY <1>6, <2>1
  <2>2. CASE v # u
    <3>1. user'[v] = user[v] /\ user[v] \in CallType /\ CallOk(user[v], added)
      BY <1>3, <1>4, <2>2 DEF Calls
    <3>. QED
      BY <1>5, <3>1, Zenon DEF CallOk
  <2>. QED
    BY <2>1, <2>2
<1>8. user' \in [Users -> CallType]
  BY <1>4, <1>7
<1>9. Calls'
  BY <1>7 DEF Calls, CallOk
<1>. QED
  BY <1>1, <1>2, <1>4, <1>5, <1>6, <1>8, <1>9

\* Bits that go up keep what is up so.
LEMMA UpStaysUp ==
    ASSUME Filter!TypeOK, AddedUp, Calls, NEW u \in Users,
           \A d \in Elements, f \in 1..HashFuncs : Filter!Index(d, f) \in 0..(size - 1),
           \A j \in 0..(size - 1) : Filter!Bits!BitOf(j, bits) => Filter!Bits!BitOf(j, bits'),
           \A v \in Users \ {u} : user'[v] = user[v],
           user'[u].op = "Add" => \A f \in 1..(user'[u].fn - 1) :
                                     Filter!Bits!BitOf(Filter!Index(user'[u].data[1], f), bits'),
           \A d \in added' \ added, f \in 1..HashFuncs :
              Filter!Bits!BitOf(Filter!Index(d, f), bits'),
           HashFuncs \in Nat
    PROVE  AddedUp'
<1>1. \A d \in Elements, f \in 1..HashFuncs :
         Filter!Bits!BitOf(Filter!Index(d, f), bits) => Filter!Bits!BitOf(Filter!Index(d, f), bits')
  OBVIOUS
<1>2. ASSUME NEW d \in added', NEW f \in 1..HashFuncs
      PROVE  Filter!Bits!BitOf(Filter!Index(d, f), bits')
  <2>1. CASE d \in added
    <3>1. d \in Elements /\ IsUp(d, f)
      BY <2>1 DEF AddedUp, Filter!TypeOK
    <3>. QED
      BY <1>1, <3>1 DEF IsUp
  <2>. QED
    BY <2>1
<1>3. ASSUME NEW v \in Users, user'[v].op = "Add", NEW f \in 1..(user'[v].fn - 1)
      PROVE  Filter!Bits!BitOf(Filter!Index(user'[v].data[1], f), bits')
  <2>1. CASE v # u
    <3>1. user'[v] = user[v]
      BY <2>1
    <3>2. user[v].op = "Add" /\ f \in 1..(user[v].fn - 1)
      BY <1>3, <3>1
    <3>3. user[v].data[1] \in Elements /\ f \in 1..HashFuncs
      <4>1. user[v] \in CallType /\ Len(user[v].data) = 1
        BY <3>2 DEF Filter!TypeOK, CallType, Calls, CallOk
      <4>. QED
        BY <3>2, <4>1 DEF CallType
    <3>4. IsUp(user[v].data[1], f)
      BY <3>2 DEF AddedUp
    <3>. QED
      BY <1>1, <3>1, <3>3, <3>4 DEF IsUp
  <2>. QED
    BY <1>3, <2>1
<1>. QED
  BY <1>2, <1>3 DEF AddedUp, IsUp

\* Every step preserves the inductive invariant.
LEMMA FilterNextIInv ==
    ASSUME Filter!BloomAssumption, FilterIInv, [Filter!Next]_Filter!vars
    PROVE  FilterIInv'
<1>. USE DEF FilterIInv
<1>1. /\ size \in Nat /\ HashFuncs \in Nat \ {0} /\ Filter!Bits!TypeOK
      /\ \A d \in Elements, f \in 1..HashFuncs : Filter!Index(d, f) \in 0..(size - 1)
      /\ added \subseteq Elements
      /\ user \in [Users -> CallType]
  BY IndexInRange DEF Filter!BloomAssumption, Filter!TypeOK, CallType
<1>2. ASSUME NEW u \in Users, Filter!Start(u) PROVE FilterIInv'
  <2>1. PICK d \in Elements, e \in Elements, op \in {"Add", "MAdd", "Contains"} :
           user' = [user EXCEPT ![u] =
              [op |-> op, data |-> IF op = "MAdd" THEN <<d, e>> ELSE <<d>>,
               fn |-> 1, known |-> d \in added, at |-> "running"]]
    BY <1>2 DEF Filter!Start
  <2>2. UNCHANGED <<bits, call, added>>
    BY <1>2 DEF Filter!Start
  <2>. DEFINE r == [op |-> op, data |-> IF op = "MAdd" THEN <<d, e>> ELSE <<d>>,
                    fn |-> 1, known |-> d \in added, at |-> "running"]
  <2>3. (\A v \in Users \ {u} : user'[v] = user[v]) /\ user'[u] = r
    BY <1>1, <2>1
  <2>4. r \in CallType
    BY <1>1 DEF CallType
  <2>5. CallOk(r, added)
    <3>1. r.data = IF op = "MAdd" THEN <<d, e>> ELSE <<d>>
      OBVIOUS
    <3>2. r.known => r.data # <<>> /\ r.data[1] \in added
      BY <3>1
    <3>3. r.op = "MAdd" => Len(r.data) = 2
      BY <3>1
    <3>4. r.op \in {"Add", "Contains"} => Len(r.data) = 1
      BY <3>1
    <3>5. r.op # "none" /\ r.fn \in 1..HashFuncs
      BY <1>1
    <3>. HIDE DEF r
    <3>. QED
      BY <3>2, <3>3, <3>4, <3>5, Zenon DEF CallOk
  <2>6. r.op # "none" /\ r.at = "running" /\ r.fn = 1
    OBVIOUS
  <2>. HIDE DEF r
  <2>7. user' \in [Users -> CallType]
    <3>. HIDE DEF CallType
    <3>. QED
      BY <1>1, <2>1, <2>4 DEF r
  <2>8. Filter!TypeOK'
    BY <1>1, <2>2, <2>7 DEF Filter!TypeOK, CallType, Filter!Bits!TypeOK
  <2>9. AddedUp'
    BY <1>1, <2>2, <2>3, <2>6, UpStaysUp DEF Filter!Bits!BitOf
  <2>10. Calls'
    BY <2>2, <2>3, <2>5 DEF Calls, CallOk
  <2>11. Filter!NoFalseNegative'
    BY <2>3, <2>6 DEF Filter!NoFalseNegative
  <2>. QED
    BY <2>8, <2>9, <2>10, <2>11
<1>3. ASSUME NEW u \in Users, Filter!Add(u) PROVE FilterIInv'
  <2>. DEFINE index == Filter!Index(user[u].data[1], user[u].fn)
              over == user[u].fn = HashFuncs
  <2>1. /\ user[u].at = "running" /\ user[u].op = "Add"
        /\ Filter!Bits!Set(index) /\ Filter!Continue(u, over)
    BY <1>3 DEF Filter!Add, Filter!Running
  <2>2. /\ Len(user[u].data) = 1 /\ user[u].fn \in 1..HashFuncs
        /\ user[u].data \in Seq(Elements)
    BY <1>1, <2>1 DEF Calls, CallOk, CallType
  <2>3. user[u].data[1] \in Elements /\ DOMAIN user[u].data = {1}
    BY <2>2
  <2>4. index \in 0..(size - 1)
    BY <1>1, <2>2, <2>3
  <2>5. /\ Filter!Bits!TypeOK' /\ call'.result = "ok" /\ Filter!Bits!BitOf(index, bits')
        /\ \A j \in 0..(size - 1) : Filter!Bits!BitOf(j, bits) => Filter!Bits!BitOf(j, bits')
    BY <1>1, <2>1, <2>4, SetKeeps
  <2>6. over \in BOOLEAN /\ (~over => user[u].fn < HashFuncs)
    BY <1>1, <2>2
  <2>7. /\ \A v \in Users \ {u} : user'[v] = user[v]
        /\ user'[u].op = "Add" /\ user'[u].data = user[u].data
        /\ user'[u].known = user[u].known /\ user'[u].fn = user[u].fn + 1
        /\ user'[u].at \in {"returned", "running"}
        /\ user'[u].at = "returned" <=> over
        /\ added' = IF user'[u].at = "returned" THEN added \union {user[u].data[1]}
                    ELSE added
        /\ user' \in [Users -> CallType] /\ added' \in SUBSET Elements
        /\ Calls'
    <3>. HIDE DEF over
    <3>. QED
      BY <1>1, <2>1, <2>3, <2>5, <2>6, ContinueKeeps
  <2>8. Filter!TypeOK'
    BY <2>5, <2>7 DEF Filter!TypeOK, CallType
  <2>9. \A f \in 1..user[u].fn : Filter!Bits!BitOf(Filter!Index(user[u].data[1], f), bits')
    <3>. SUFFICES ASSUME NEW f \in 1..user[u].fn, f # user[u].fn
                  PROVE  Filter!Bits!BitOf(Filter!Index(user[u].data[1], f), bits')
      BY <2>5
    <3>1. f \in 1..(user[u].fn - 1) /\ f \in 1..HashFuncs
      BY <1>1, <2>2
    <3>2. IsUp(user[u].data[1], f)
      BY <2>1, <3>1 DEF AddedUp
    <3>. QED
      BY <1>1, <2>3, <2>5, <3>1, <3>2 DEF IsUp
  <2>10. AddedUp'
    <3>1. \A d \in added' \ added, f \in 1..HashFuncs : Filter!Bits!BitOf(Filter!Index(d, f), bits')
      BY <2>7, <2>9
    <3>2. \A f \in 1..(user'[u].fn - 1) :
             Filter!Bits!BitOf(Filter!Index(user'[u].data[1], f), bits')
      BY <2>2, <2>7, <2>9
    <3>. QED
      BY <1>1, <2>5, <2>7, <3>1, <3>2, UpStaysUp
  <2>11. Filter!NoFalseNegative'
    BY <2>7 DEF Filter!NoFalseNegative
  <2>. QED
    BY <2>7, <2>8, <2>10, <2>11
<1>4. ASSUME NEW u \in Users, Filter!MAdd(u) PROVE FilterIInv'
  <2>. DEFINE ds == user[u].data
              indexes == Filter!IndexesOf(ds)
  <2>1. /\ user[u].at = "running" /\ user[u].op = "MAdd"
        /\ Filter!Bits!MSet(indexes) /\ Filter!Continue(u, TRUE)
    BY <1>4 DEF Filter!MAdd, Filter!Running
  <2>2. ds \in Seq(Elements) /\ Len(ds) = 2
    BY <1>1, <2>1 DEF Calls, CallOk, CallType
  <2>3. ds[1] \in Elements /\ ds[2] \in Elements /\ DOMAIN ds = 1..2
    BY <2>2
  <2>4. \A i \in DOMAIN indexes : indexes[i] \in 0..(size - 1)
    <3>. HIDE DEF ds
    <3>1. HashFuncs \in Nat \ {0}
      BY DEF Filter!BloomAssumption
    <3>2. \A i \in DOMAIN indexes : \E j \in 1..2, f \in 1..HashFuncs :
             indexes[i] = Filter!Index(ds[j], f)
      BY <2>2, <3>1, IndexesOfTwo
    <3>3. ASSUME NEW j \in 1..2, NEW f \in 1..HashFuncs
          PROVE  Filter!Index(ds[j], f) \in 0..(size - 1)
      <4>1. ds[j] \in Elements
        BY <2>3
      <4>. QED
        BY <4>1, IndexInRange
    <3>. QED
      BY <3>2, <3>3, Zenon
  <2>5. /\ Filter!Bits!TypeOK' /\ call'.result = "ok"
        /\ \A i \in DOMAIN indexes : Filter!Bits!BitOf(indexes[i], bits')
        /\ \A j \in 0..(size - 1) : Filter!Bits!BitOf(j, bits) => Filter!Bits!BitOf(j, bits')
    <3>. HIDE DEF indexes
    <3>. QED
      BY <1>1, <2>1, <2>4, MSetKeeps
  <2>6. ASSUME NEW j \in 1..2, NEW f \in 1..HashFuncs
        PROVE  Filter!Bits!BitOf(Filter!Index(ds[j], f), bits')
    <3>1. PICK i \in DOMAIN Filter!IndexesOf(ds) : Filter!IndexesOf(ds)[i] = Filter!Index(ds[j], f)
      <4>. HIDE DEF ds
      <4>. QED
        BY <1>1, <2>2, IndexesOfTwo
    <3>2. Filter!Bits!BitOf(Filter!IndexesOf(ds)[i], bits')
      BY <2>5
    <3>. QED
      BY <3>1, <3>2, Zenon
  <2>7. /\ \A v \in Users \ {u} : user'[v] = user[v]
        /\ user'[u].op = "MAdd" /\ user'[u].known = user[u].known
        /\ user'[u].at = "returned"
        /\ added' = added \union {ds[i] : i \in 1..2}
        /\ user' \in [Users -> CallType] /\ added' \in SUBSET Elements
        /\ Calls'
    BY <1>1, <2>1, <2>3, <2>5, ContinueKeeps
  <2>8. Filter!TypeOK'
    BY <2>5, <2>7 DEF Filter!TypeOK, CallType
  <2>9. AddedUp'
    <3>1. \A d \in added' \ added, f \in 1..HashFuncs : Filter!Bits!BitOf(Filter!Index(d, f), bits')
      BY <2>6, <2>7
    <3>. QED
      BY <1>1, <2>5, <2>7, <3>1, UpStaysUp
  <2>10. Filter!NoFalseNegative'
    BY <2>7 DEF Filter!NoFalseNegative
  <2>. QED
    BY <2>7, <2>8, <2>9, <2>10
<1>5. ASSUME NEW u \in Users, Filter!Contains(u) PROVE FilterIInv'
  <2>. DEFINE index == Filter!Index(user[u].data[1], user[u].fn)
              over == user[u].fn = HashFuncs
  <2>1. /\ user[u].at = "running" /\ user[u].op = "Contains"
        /\ Filter!Bits!IsSet(index) /\ Filter!Continue(u, over)
    BY <1>5 DEF Filter!Contains, Filter!Running
  <2>2. /\ Len(user[u].data) = 1 /\ user[u].fn \in 1..HashFuncs
        /\ user[u].data \in Seq(Elements)
    BY <1>1, <2>1 DEF Calls, CallOk, CallType
  <2>3. user[u].data[1] \in Elements
    BY <2>2
  <2>4. index \in 0..(size - 1)
    BY <1>1, <2>2, <2>3
  <2>5. /\ Filter!Bits!TypeOK' /\ bits' = bits /\ call'.result \in {"true", "false"}
        /\ call'.result = "false" => ~Filter!Bits!BitOf(index, bits)
    BY <1>1, <2>1, <2>4, IsSetReads
  <2>6. over \in BOOLEAN /\ (~over => user[u].fn < HashFuncs)
    BY <1>1, <2>2
  <2>7. /\ \A v \in Users \ {u} : user'[v] = user[v]
        /\ user'[u].op = "Contains" /\ user'[u].known = user[u].known
        /\ user'[u].at # "panicked"
        /\ user'[u].at = "absent" <=> call'.result = "false"
        /\ added' = added
        /\ user' \in [Users -> CallType] /\ added' \in SUBSET Elements
        /\ Calls'
    <3>. HIDE DEF over
    <3>. QED
      BY <1>1, <2>1, <2>5, <2>6, ContinueKeeps
  <2>8. Filter!TypeOK'
    BY <2>5, <2>7 DEF Filter!TypeOK, CallType
  <2>9. AddedUp'
    BY <1>1, <2>5, <2>7, UpStaysUp
  <2>10. user[u].known => call'.result # "false"
    <3>. SUFFICES ASSUME user[u].known PROVE Filter!Bits!BitOf(index, bits)
      BY <2>5
    <3>1. user[u].data[1] \in added
      BY DEF Calls, CallOk
    <3>. QED
      BY <2>2, <3>1 DEF AddedUp, IsUp
  <2>11. Filter!NoFalseNegative'
    BY <2>7, <2>10 DEF Filter!NoFalseNegative
  <2>. QED
    BY <2>7, <2>8, <2>9, <2>11
<1>6. CASE UNCHANGED Filter!vars
  BY <1>6
     DEF Filter!vars, Filter!TypeOK, AddedUp, IsUp, Calls, CallOk,
         Filter!NoFalseNegative,
              Filter!Bits!TypeOK, Filter!Bits!BitOf
<1>. QED
  BY <1>2, <1>3, <1>4, <1>5, <1>6 DEF Filter!Next

\* The empty filter satisfies the invariant.
LEMMA InitFilterIInv ==
    ASSUME Filter!Init
    PROVE  FilterIInv
BY BloomAssumption
   DEF Filter!Init, Filter!Idle, Filter!Bits!Init, Filter!Bits!TypeOK, FilterIInv,
       Filter!TypeOK, AddedUp, Calls, CallOk, Filter!NoFalseNegative, Filter!BloomAssumption
-----------------------------------------------------------------------------
(***************************************************************************)
(* The pool: an object is with one client or in one layer, or dropped.     *)
(***************************************************************************)
Apart ==
    /\ \A c \in Clients : client[c].at = "free" <=> client[c].obj = Pool!NoObject
    /\ \A c, d \in Clients :
          client[c].obj = client[d].obj /\ client[c].obj # Pool!NoObject => c = d
    /\ \A c \in Clients, l \in Pool!Layers : client[c].obj \notin pools[l]
    /\ \A l, m \in Pool!Layers : l # m => pools[l] \intersect pools[m] = {}

Clean ==
    /\ \A l \in Pool!Layers : \A o \in pools[l] : object[o].clean
    /\ \A c \in Clients : client[c].at \in {"taken", "reset"} => object[client[c].obj].clean

HitsLoaded == Len(stats.hits) <= Len(thresholdsOfPool) + 1

FreshIInv == Pool!TypeOK /\ Apart /\ Clean /\ HitsLoaded

\* There is a layer, and every size has one.
LEMMA LayersAndSizes ==
    /\ Len(thresholdsOfPool) \in Nat /\ Pool!Layers = 1..(Len(thresholdsOfPool) + 1)
    /\ 1 \in Pool!Layers
    /\ Pool!Min(Sizes) \in Sizes
    /\ \A s \in Sizes : Pool!getPoolIndex(s) \in Pool!Layers
    /\ Pool!NoObject \notin Objects
<1>1. /\ Len(thresholdsOfPool) \in Nat /\ thresholdsOfPool \in Seq(Nat)
      /\ Sizes \in SUBSET Nat /\ Sizes # {} /\ Pool!NoObject \notin Objects
  BY PoolAssumption DEF Pool!PoolAssumption
<1>2. Pool!Layers = 1..(Len(thresholdsOfPool) + 1)
  BY DEF Pool!Layers
<1>3. ASSUME NEW S \in SUBSET Nat, S # {} PROVE Pool!Min(S) \in S
  <2>1. \E n \in S : \A m \in S : n <= m
    BY <1>3, LeastNat
  <2>. QED
    BY <2>1, Zenon DEF Pool!Min
<1>4. ASSUME NEW s \in Sizes PROVE Pool!getPoolIndex(s) \in Pool!Layers
  <2>. DEFINE I == {i \in DOMAIN thresholdsOfPool : s <= thresholdsOfPool[i]}
                       \union {Len(thresholdsOfPool) + 1}
  <2>1. I \in SUBSET Nat /\ I # {} /\ I \subseteq Pool!Layers
    BY <1>1, <1>2
  <2>2. Pool!Min(I) \in I
    BY <1>3, <2>1
  <2>3. Pool!getPoolIndex(s) = Pool!Min(I)
    BY DEF Pool!getPoolIndex
  <2>. HIDE DEF I
  <2>. QED
    BY <2>1, <2>2, <2>3
<1>5. 1 \in Pool!Layers
  BY <1>1, <1>2
<1>. QED
  BY <1>1, <1>2, <1>3, <1>4, <1>5

\* Reset: the client keeps its object, which is clean then.
LEMMA ResetKeeps ==
    ASSUME FreshIInv, NEW c \in Clients, Pool!Reset(c)
    PROVE  FreshIInv'
<1>. DEFINE Cl == [at : {"free", "taken", "using", "putting", "reset"},
                  obj : Objects \union {Pool!NoObject}, layer : Pool!Layers]
            Ob == [size : Sizes, clean : BOOLEAN]
<1>1. client \in [Clients -> Cl] /\ object \in [Objects -> Ob]
  BY DEF FreshIInv, Pool!TypeOK
<1>2. Apart /\ Clean /\ HitsLoaded
  BY DEF FreshIInv
<1>3. client[c].at = "putting" /\ UNCHANGED <<pools, hits, misses, puts, stats>>
  BY DEF Pool!Reset
<1>4. client[c].obj \in Objects
  BY <1>1, <1>2, <1>3 DEF Apart
<1>5. object[client[c].obj].size \in Sizes
  BY <1>1, <1>4
<1>6. PICK l \in Pool!Layers : client' = [client EXCEPT ![c].at = "reset", ![c].layer = l]
  BY <1>5, LayersAndSizes DEF Pool!Reset
<1>7. /\ client' \in [Clients -> Cl]
      /\ client'[c].at = "reset" /\ client'[c].obj = client[c].obj
      /\ \A d \in Clients \ {c} : client'[d] = client[d]
  BY <1>1, <1>6
<1>8. object' = [object EXCEPT ![client[c].obj].clean = TRUE]
  BY DEF Pool!Reset
<1>9. /\ object' \in [Objects -> Ob] /\ object'[client[c].obj].clean = TRUE
      /\ \A o \in Objects \ {client[c].obj} : object'[o] = object[o]
  BY <1>1, <1>4, <1>8
<1>10. Pool!TypeOK'
  BY <1>3, <1>7, <1>9 DEF FreshIInv, Pool!TypeOK
<1>11. Apart'
  <2>1. \A d \in Clients : /\ client'[d].obj = client[d].obj
                           /\ client'[d].at = "free" <=> client[d].at = "free"
    BY <1>3, <1>7
  <2>. QED
    BY <1>2, <1>3, <2>1 DEF Apart
<1>12. Clean'
  <2>1. ASSUME NEW o \in Objects, object[o].clean PROVE object'[o].clean
    BY <1>9, <2>1
  <2>2. ASSUME NEW l2 \in Pool!Layers, NEW o \in pools[l2] PROVE object'[o].clean
    <3>1. o \in Objects /\ object[o].clean
      BY <1>2 DEF Clean, FreshIInv, Pool!TypeOK
    <3>. QED
      BY <2>1, <3>1
  <2>3. ASSUME NEW d \in Clients, client'[d].at \in {"taken", "reset"}
        PROVE  object'[client'[d].obj].clean
    <3>1. CASE d = c
      BY <1>7, <1>9, <3>1
    <3>2. CASE d # c
      <4>1. client'[d] = client[d]
        BY <1>7, <3>2
      <4>2. client[d].obj \in Objects /\ object[client[d].obj].clean
        BY <1>1, <1>2, <2>3, <4>1 DEF Apart, Clean
      <4>. QED
        BY <2>1, <4>1, <4>2
    <3>. QED
      BY <3>1, <3>2
  <2>. QED
    BY <1>3, <2>2, <2>3 DEF Clean
<1>. QED
  BY <1>2, <1>3, <1>10, <1>11, <1>12 DEF FreshIInv, HitsLoaded

\* Every step of the clients, the collector and the reader keeps objects fresh.
LEMMA NextFreshIInv ==
    FreshIInv /\ [Pool!Next]_(Pool!vars) => FreshIInv'
<1>. SUFFICES ASSUME FreshIInv, [Pool!Next]_(Pool!vars) PROVE FreshIInv'
  OBVIOUS
<1>0. /\ Pool!TypeOK /\ Apart /\ Clean /\ HitsLoaded
      /\ 1 \in Pool!Layers /\ Pool!NoObject \notin Objects
      /\ Pool!Min(Sizes) \in Sizes
      /\ \A s \in Sizes : Pool!getPoolIndex(s) \in Pool!Layers
  BY LayersAndSizes DEF FreshIInv
<1>. USE DEF FreshIInv, Pool!TypeOK
\* Where a client goes with the object that it has.
<1>a. ASSUME NEW c \in Clients, NEW from, NEW to, Pool!ClientGoto(c, from, to)
      PROVE  /\ client[c].at = from
             /\ client' = [client EXCEPT ![c] = [at |-> to, obj |-> client[c].obj,
                                                 layer |-> client[c].layer]]
  <2>1. client[c] = [at |-> client[c].at, obj |-> client[c].obj, layer |-> client[c].layer]
    BY <1>0, Zenon
  <2>2. [client[c] EXCEPT !.at = to]
           = [at |-> to, obj |-> client[c].obj, layer |-> client[c].layer]
    BY <2>1
  <2>. QED
    BY <1>a, <2>2 DEF Pool!ClientGoto
<1>b. ASSUME NEW c \in Clients
      PROVE  client[c].obj \in Objects \union {Pool!NoObject} /\ client[c].layer \in Pool!Layers
  BY <1>0
<1>c. /\ stats.puts \in Nat /\ stats.hits \in Seq(Nat) /\ stats.misses \in Seq(Nat)
      /\ stats = [puts |-> stats.puts, hits |-> stats.hits, misses |-> stats.misses]
  BY <1>0, Zenon
<1>f. Apart /\ Clean
  BY <1>0
<1>d. ASSUME Pool!TypeOK', Apart', Clean', stats' = stats PROVE FreshIInv'
  BY <1>0, <1>d DEF HitsLoaded
\* A client that takes an object has one.
<1>. DEFINE Client == [at : {"free", "taken", "using", "putting", "reset"},
                      obj : Objects \union {Pool!NoObject}, layer : Pool!Layers]
<1>e. ASSUME NEW c \in Clients, NEW o \in Objects, NEW l \in Pool!Layers,
             client' = [client EXCEPT ![c] = [at |-> "taken", obj |-> o, layer |-> l]]
      PROVE  client' \in [Clients -> Client]
  <2>1. [at |-> "taken", obj |-> o, layer |-> l] \in Client
    OBVIOUS
  <2>2. client \in [Clients -> Client]
    BY <1>0
  <2>. HIDE DEF Client
  <2>. QED
    BY <1>e, <2>1, <2>2
<1>1. ASSUME NEW c \in Clients, Pool!TakePooled(c) PROVE FreshIInv'
  <2>1. PICK l \in Pool!Layers, o \in Objects :
           /\ o \in pools[l]
           /\ client[c].at = "free"
           /\ client' = [client EXCEPT ![c] = [at |-> "taken", obj |-> o, layer |-> l]]
           /\ pools' = [pools EXCEPT ![l] = @ \ {o}]
    BY <1>0, <1>1 DEF Pool!TakePooled
  <2>2. UNCHANGED <<hits, misses, puts, object, stats>>
    BY <1>1 DEF Pool!TakePooled
  <2>3. o \in Objects
    BY <1>0, <2>1
  <2>4. Pool!TypeOK'
    <3>1. client' \in [Clients -> Client]
      BY <1>e, <2>1, <2>3, Zenon
    <3>2. pools' \in [Pool!Layers -> SUBSET Objects]
      BY <1>0, <2>1
    <3>. QED
      BY <1>0, <2>2, <3>1, <3>2
  <2>5. /\ client'[c].at = "taken" /\ client'[c].obj = o
        /\ \A d \in Clients \ {c} : client'[d] = client[d]
    BY <1>0, <2>1
  <2>6. /\ pools'[l] = pools[l] \ {o}
        /\ \A m \in Pool!Layers \ {l} : pools'[m] = pools[m]
    BY <1>0, <2>1
  <2>7. /\ o # Pool!NoObject /\ object[o].clean
        /\ \A d \in Clients : client[d].obj # o
        /\ \A m \in Pool!Layers \ {l} : o \notin pools[m]
    BY <1>0, <2>1, <2>3 DEF Apart, Clean
  <2>8. \A m \in Pool!Layers : o \notin pools'[m] /\ pools'[m] \subseteq pools[m]
    BY <2>6, <2>7
  <2>9. Apart'
    <3>1. /\ \A d \in Clients : client'[d].at = "free" <=> client'[d].obj = Pool!NoObject
          /\ \A d, e \in Clients :
                client'[d].obj = client'[e].obj /\ client'[d].obj # Pool!NoObject => d = e
      BY <1>f, <2>1, <2>5, <2>7 DEF Apart
    <3>2. \A d \in Clients, m \in Pool!Layers : client'[d].obj \notin pools'[m]
      BY <1>f, <2>5, <2>7, <2>8 DEF Apart
    <3>3. \A m, n \in Pool!Layers : m # n => pools'[m] \intersect pools'[n] = {}
      BY <1>f, <2>8 DEF Apart
    <3>. QED
      BY <3>1, <3>2, <3>3 DEF Apart
  <2>10. Clean'
    <3>1. \A m \in Pool!Layers : \A x \in pools'[m] : object[x].clean
      BY <1>f, <2>8 DEF Clean
    <3>2. \A d \in Clients :
             client'[d].at \in {"taken", "reset"} => object[client'[d].obj].clean
      BY <1>f, <2>5, <2>7 DEF Clean
    <3>. QED
      BY <2>2, <3>1, <3>2 DEF Clean
  <2>. QED
    BY <1>d, <2>4, <2>9, <2>10, <2>2
<1>2. ASSUME NEW c \in Clients, Pool!TakeNew(c) PROVE FreshIInv'
  <2>1. PICK l \in Pool!Layers, o \in Objects \ Pool!InUse :
           /\ client[c].at = "free"
           /\ client' = [client EXCEPT ![c] = [at |-> "taken", obj |-> o, layer |-> l]]
           /\ misses' = [misses EXCEPT ![l] = @ + 1]
           /\ object' = [object EXCEPT ![o] = [size |-> Pool!Min(Sizes), clean |-> TRUE]]
    BY <1>0, <1>2 DEF Pool!TakeNew
  <2>2. UNCHANGED <<pools, hits, puts, stats>>
    BY <1>2 DEF Pool!TakeNew
  <2>3. /\ \A m \in Pool!Layers : o \notin pools[m]
        /\ \A d \in Clients : client[d].obj # o
    <3>1. o \notin Pool!InUse
      BY <2>1
    <3>2. ASSUME NEW m \in Pool!Layers, o \in pools[m] PROVE FALSE
      <4>1. pools[m] \in {pools[k] : k \in Pool!Layers}
        OBVIOUS
      <4>. QED
        BY <3>1, <3>2, <4>1, Zenon DEF Pool!InUse
    <3>3. ASSUME NEW d \in Clients, client[d].obj = o PROVE FALSE
      <4>1. client[d].obj \in {client[k].obj : k \in Clients}
        OBVIOUS
      <4>2. o \in {client[k].obj : k \in Clients}
        BY <3>3, <4>1, Zenon
      <4>. QED
        BY <3>1, <4>2, Zenon DEF Pool!InUse
    <3>. QED
      BY <3>2, <3>3
  <2>4. Pool!TypeOK'
    <3>1. client' \in [Clients -> Client]
      BY <1>e, <2>1, Zenon
    <3>2. misses' \in [Pool!Layers -> Nat]
      BY <1>0, <2>1
    <3>3. object' \in [Objects -> [size : Sizes, clean : BOOLEAN]]
      BY <1>0, <2>1
    <3>. QED
      BY <1>0, <2>2, <3>1, <3>2, <3>3
  <2>5. /\ client'[c].at = "taken" /\ client'[c].obj = o
        /\ \A d \in Clients \ {c} : client'[d] = client[d]
    BY <1>0, <2>1
  <2>6. o # Pool!NoObject
    BY <1>0, <2>1
  <2>7. /\ object'[o].clean
        /\ \A x \in Objects \ {o} : object'[x] = object[x]
    BY <1>0, <2>1
  <2>8. Apart'
    <3>1. /\ \A d \in Clients : client'[d].at = "free" <=> client'[d].obj = Pool!NoObject
          /\ \A d, e \in Clients :
                client'[d].obj = client'[e].obj /\ client'[d].obj # Pool!NoObject => d = e
      BY <1>f, <2>1, <2>3, <2>5, <2>6 DEF Apart
    <3>2. \A d \in Clients, m \in Pool!Layers : client'[d].obj \notin pools[m]
      BY <1>f, <2>3, <2>5 DEF Apart
    <3>. QED
      BY <1>f, <2>2, <3>1, <3>2 DEF Apart
  <2>9. Clean'
    <3>1. \A m \in Pool!Layers : \A x \in pools[m] : object'[x].clean
      BY <1>0, <2>3, <2>7 DEF Clean
    <3>2. ASSUME NEW d \in Clients, client'[d].at \in {"taken", "reset"}
          PROVE  object'[client'[d].obj].clean
      <4>1. CASE d = c
        BY <2>5, <2>7, <4>1
      <4>2. CASE d # c
        <5>1. client'[d] = client[d]
          BY <2>5, <4>2
        <5>2. client[d].obj \in Objects \ {o} /\ object[client[d].obj].clean
          BY <1>b, <1>f, <2>3, <3>2, <5>1 DEF Apart, Clean
        <5>. QED
          BY <2>7, <5>1, <5>2
      <4>. QED
        BY <4>1, <4>2
    <3>. QED
      BY <2>2, <3>1, <3>2 DEF Clean
  <2>. QED
    BY <1>d, <2>4, <2>8, <2>9, <2>2
<1>3. ASSUME NEW c \in Clients, Pool!CountHit(c) PROVE FreshIInv'
  <2>1. /\ client[c].at = "taken"
        /\ client' = [client EXCEPT ![c] = [at |-> "using", obj |-> client[c].obj,
                                            layer |-> client[c].layer]]
    BY <1>3, <1>a DEF Pool!CountHit
  <2>2. /\ hits' = [hits EXCEPT ![client[c].layer] = @ + 1]
        /\ UNCHANGED <<pools, misses, puts, object, stats>>
    BY <1>3 DEF Pool!CountHit
  <2>3. Pool!TypeOK'
    BY <1>0, <1>b, <2>1, <2>2
  <2>4. Apart'
    BY <1>0, <2>1, <2>2 DEF Apart
  <2>5. Clean'
    BY <1>0, <2>1, <2>2 DEF Clean
  <2>. QED
    BY <1>d, <2>2, <2>3, <2>4, <2>5
<1>4. ASSUME NEW c \in Clients, Pool!Use(c) PROVE FreshIInv'
  <2>1. PICK s \in Sizes :
           object' = [object EXCEPT ![client[c].obj] = [size |-> s, clean |-> FALSE]]
    BY <1>4 DEF Pool!Use
  <2>. USE <1>4 DEF Pool!Use
  <2>2. Pool!TypeOK'
    BY <1>0, <2>1
  <2>3. Apart'
    BY <1>0 DEF Apart
  <2>4. Clean'
    BY <1>0, <2>1 DEF Clean, Apart
  <2>. QED
    BY <1>d, <2>2, <2>3, <2>4
<1>5. ASSUME NEW c \in Clients, Pool!CountPut(c) PROVE FreshIInv'
  <2>1. /\ client[c].at = "using"
        /\ client' = [client EXCEPT ![c] = [at |-> "putting", obj |-> client[c].obj,
                                            layer |-> client[c].layer]]
    BY <1>5, <1>a DEF Pool!CountPut
  <2>2. /\ puts' = puts + 1 /\ UNCHANGED <<pools, hits, misses, object, stats>>
    BY <1>5 DEF Pool!CountPut
  <2>3. Pool!TypeOK'
    BY <1>0, <1>b, <2>1, <2>2
  <2>4. Apart'
    BY <1>0, <2>1, <2>2 DEF Apart
  <2>5. Clean'
    BY <1>0, <2>1, <2>2 DEF Clean
  <2>. QED
    BY <1>d, <2>3, <2>4, <2>5, <2>2
<1>6. ASSUME NEW c \in Clients, Pool!Reset(c) PROVE FreshIInv'
  BY <1>6, ResetKeeps
<1>7. ASSUME NEW c \in Clients, Pool!PutInPool(c) PROVE FreshIInv'
  <2>1. client[c].obj \in Objects /\ client[c].layer \in Pool!Layers
        /\ object[client[c].obj].clean
    BY <1>0, <1>7 DEF Apart, Clean, Pool!PutInPool
  <2>. USE <1>7 DEF Pool!PutInPool, Pool!Free
  <2>2. Pool!TypeOK'
    BY <1>0, <2>1
  <2>3. Apart'
    BY <1>0, <2>1 DEF Apart
  <2>4. Clean'
    BY <1>0, <2>1 DEF Clean
  <2>. QED
    BY <1>d, <2>2, <2>3, <2>4
<1>8. CASE Pool!Collect
  BY <1>0, <1>8 DEF Pool!Collect, Apart, Clean, HitsLoaded
<1>9. CASE Pool!LoadPuts
  BY <1>0, <1>9 DEF Pool!LoadPuts, Apart, Clean, HitsLoaded
<1>10. CASE Pool!LoadHits
  <2>1. Len(stats.hits) + 1 \in Pool!Layers
    BY <1>c, <1>10, LayersAndSizes DEF Pool!LoadHits
  <2>2. hits[Len(stats.hits) + 1] \in Nat
    BY <1>0, <2>1
  <2>3. Append(stats.hits, hits[Len(stats.hits) + 1]) \in Seq(Nat)
    BY <1>c, <2>2
  <2>4. stats' = [stats EXCEPT !.hits = Append(stats.hits, hits[Len(stats.hits) + 1])]
        /\ UNCHANGED <<pools, hits, misses, puts, object, client>>
    BY <1>10 DEF Pool!LoadHits
  <2>5. stats' \in [puts : Nat, hits : Seq(Nat), misses : Seq(Nat)]
    BY <1>c, <2>3, <2>4
  <2>6. Len(stats'.hits) <= Len(thresholdsOfPool) + 1
    BY <1>c, <2>1, <2>4, LayersAndSizes
  <2>. QED
    BY <1>0, <2>4, <2>5, <2>6 DEF Apart, Clean, HitsLoaded
<1>11. CASE Pool!LoadMisses
  <2>1. Len(stats.misses) + 1 \in Pool!Layers
    BY <1>0, <1>c, <1>11, LayersAndSizes DEF Pool!LoadMisses, HitsLoaded
  <2>2. misses[Len(stats.misses) + 1] \in Nat
    BY <1>0, <2>1
  <2>3. Append(stats.misses, misses[Len(stats.misses) + 1]) \in Seq(Nat)
    BY <1>c, <2>2
  <2>4. stats' = [stats EXCEPT !.misses = Append(stats.misses, misses[Len(stats.misses) + 1])]
        /\ UNCHANGED <<pools, hits, misses, puts, object, client>>
    BY <1>11 DEF Pool!LoadMisses
  <2>5. stats' \in [puts : Nat, hits : Seq(Nat), misses : Seq(Nat)]
        /\ stats'.hits = stats.hits
    BY <1>c, <2>3, <2>4
  <2>. QED
    BY <1>0, <2>4, <2>5 DEF Apart, Clean, HitsLoaded
<1>12. CASE UNCHANGED Pool!vars
  BY <1>0, <1>12 DEF Pool!vars, Apart, Clean, HitsLoaded
<1>. QED
  BY <1>1, <1>2, <1>3, <1>4, <1>5, <1>6, <1>7, <1>8, <1>9, <1>10, <1>11, <1>12
     DEF Pool!Next

\* The empty pools satisfy the invariant.
LEMMA InitFreshIInv == Pool!Init => FreshIInv
<1>. SUFFICES ASSUME Pool!Init PROVE FreshIInv
  OBVIOUS
<1>. USE DEF Pool!Init, Pool!Free
<1>1. /\ pools \in [Pool!Layers -> SUBSET Objects]
      /\ hits \in [Pool!Layers -> Nat] /\ misses \in [Pool!Layers -> Nat] /\ puts \in Nat
  OBVIOUS
<1>2. object \in [Objects -> [size : Sizes, clean : BOOLEAN]]
  BY LayersAndSizes
<1>3. client \in [Clients -> [at : {"free", "taken", "using", "putting", "reset"},
                              obj : Objects \union {Pool!NoObject}, layer : Pool!Layers]]
  BY LayersAndSizes
<1>4. stats \in [puts : Nat, hits : Seq(Nat), misses : Seq(Nat)]
  OBVIOUS
<1>5. Apart /\ Clean /\ HitsLoaded
  BY LayersAndSizes DEF Apart, Clean, HitsLoaded
<1>. QED
  BY <1>1, <1>2, <1>3, <1>4, <1>5 DEF FreshIInv, Pool!TypeOK

\* The property, of the multi-pool alone.
LEMMA PoolObjectsAreFresh == FreshIInv => Pool!ObjectsAreFresh
<1>. SUFFICES ASSUME FreshIInv PROVE Pool!ObjectsAreFresh
  OBVIOUS
<1>. QED
  BY DEF FreshIInv, Pool!ObjectsAreFresh, Apart, Clean
-----------------------------------------------------------------------------
(***************************************************************************)
(* The statistics: an object is put only after its hit was counted, and    *)
(* the hits still to be loaded only grow.                                  *)
(***************************************************************************)
Using == {c \in Clients : client[c].at = "using"}

\* The hits as GetStats will return them if nothing happens in between.
Mix == [l \in Pool!Layers |-> IF l <= Len(stats.hits) THEN stats.hits[l] ELSE hits[l]]

PutsAfterHits ==
    /\ IsFiniteSet(Using)
    /\ puts + Cardinality(Using) <= Pool!SumOf(hits)
    /\ stats.puts <= Pool!SumOf(Mix)

PoolIInv == FreshIInv /\ PutsAfterHits

\* What the counters and the reader's copies are.
LEMMA Counters ==
    ASSUME FreshIInv
    PROVE  /\ IsFiniteSet(Pool!Layers)
           /\ hits \in [Pool!Layers -> Nat] /\ Mix \in [Pool!Layers -> Nat] /\ puts \in Nat
           /\ stats.puts \in Nat /\ stats.hits \in Seq(Nat)
           /\ Len(stats.hits) <= Len(thresholdsOfPool) + 1
<1>1. IsFiniteSet(Pool!Layers)
  BY LayersAndSizes, FS_Interval
<1>2. hits \in [Pool!Layers -> Nat] /\ puts \in Nat
      /\ stats \in [puts : Nat, hits : Seq(Nat), misses : Seq(Nat)]
  BY DEF FreshIInv, Pool!TypeOK
<1>3. stats.puts \in Nat /\ stats.hits \in Seq(Nat)
  BY <1>2
<1>4. ASSUME NEW l \in Pool!Layers
      PROVE  (IF l <= Len(stats.hits) THEN stats.hits[l] ELSE hits[l]) \in Nat
  <2>1. l \in Nat \ {0}
    BY LayersAndSizes
  <2>. QED
    BY <1>2, <1>3, <2>1
<1>5. Mix \in [Pool!Layers -> Nat]
  BY <1>4 DEF Mix
<1>. QED
  BY <1>1, <1>2, <1>3, <1>5 DEF FreshIInv, HitsLoaded

\* The order in which GetStats reads keeps the copies of the puts below the hits.
LEMMA NextPoolIInv ==
    PoolIInv /\ [Pool!Next]_(Pool!vars) => PoolIInv'
<1>. SUFFICES ASSUME PoolIInv, [Pool!Next]_(Pool!vars) PROVE PoolIInv'
  OBVIOUS
<1>0. FreshIInv /\ PutsAfterHits /\ FreshIInv'
  BY NextFreshIInv DEF PoolIInv
<1>a. /\ IsFiniteSet(Using) /\ Cardinality(Using) \in Nat
      /\ Pool!SumOf(hits) \in Nat /\ Pool!SumOf(Mix) \in Nat
  <2>1. IsFiniteSet(Using) /\ IsFiniteSet(Pool!Layers) /\ 1 \in Pool!Layers
        /\ hits \in [Pool!Layers -> Nat] /\ Mix \in [Pool!Layers -> Nat]
    BY <1>0, Counters, LayersAndSizes DEF PutsAfterHits
  <2>2. Cardinality(Using) \in Nat
    BY <2>1, FS_CardinalityType
  <2>. QED
    BY <2>1, <2>2, SumOfOneMore
<1>b. client \in [Clients -> [at : {"free", "taken", "using", "putting", "reset"},
                              obj : Objects \union {Pool!NoObject}, layer : Pool!Layers]]
  BY <1>0 DEF FreshIInv, Pool!TypeOK
\* A step that counts neither.
<1>1. ASSUME \A d \in Clients : client'[d].at = "using" <=> client[d].at = "using",
             UNCHANGED <<hits, puts, stats>>
      PROVE  PoolIInv'
  <2>1. Using' = Using
    BY <1>1 DEF Using
  <2>2. Mix' = Mix
    BY <1>1 DEF Mix
  <2>. QED
    BY <1>0, <1>1, <2>1, <2>2 DEF PoolIInv, PutsAfterHits
<1>2. ASSUME NEW c \in Clients, Pool!TakePooled(c) \/ Pool!TakeNew(c) PROVE PoolIInv'
  <2>1. PICK o, l : /\ client[c].at = "free"
                    /\ client' = [client EXCEPT ![c] = [at |-> "taken", obj |-> o, layer |-> l]]
    BY <1>2 DEF Pool!TakePooled, Pool!TakeNew
  <2>2. \A d \in Clients : client'[d].at = "using" <=> client[d].at = "using"
    BY <1>b, <2>1
  <2>3. UNCHANGED <<hits, puts, stats>>
    BY <1>2 DEF Pool!TakePooled, Pool!TakeNew
  <2>. QED
    BY <1>1, <2>2, <2>3
<1>3. ASSUME NEW c \in Clients, Pool!CountHit(c) PROVE PoolIInv'
  <2>1. /\ client[c].at = "taken" /\ client' = [client EXCEPT ![c].at = "using"]
        /\ hits' = [hits EXCEPT ![client[c].layer] = @ + 1] /\ UNCHANGED <<puts, stats>>
    BY <1>3 DEF Pool!CountHit, Pool!ClientGoto
  <2>2. client'[c].at = "using" /\ \A d \in Clients \ {c} : client'[d] = client[d]
    BY <1>b, <2>1
  <2>3. Using' = Using \union {c} /\ c \notin Using
    BY <2>1, <2>2 DEF Using
  <2>4. IsFiniteSet(Using') /\ Cardinality(Using') = Cardinality(Using) + 1
    BY <1>a, <2>3, FS_AddElement
  <2>. DEFINE l == client[c].layer
  <2>5. l \in Pool!Layers
    BY <1>b
  <2>6. Pool!SumOf(hits') = Pool!SumOf(hits) + 1
    BY <1>0, <2>1, <2>5, Counters, SumOfOneMore
  <2>7. Pool!SumOf(Mix') \in Nat /\ Pool!SumOf(Mix') >= Pool!SumOf(Mix)
    <3>1. Mix \in [Pool!Layers -> Nat] /\ hits \in [Pool!Layers -> Nat]
          /\ IsFiniteSet(Pool!Layers)
      BY <1>0, Counters
    <3>2. CASE l <= Len(stats.hits)
      <4>1. \A m \in Pool!Layers : ~ (m <= Len(stats.hits)) => hits'[m] = hits[m]
        BY <2>1, <2>5, <3>1, <3>2
      <4>2. Mix' = Mix
        BY <2>1, <4>1 DEF Mix
      <4>. QED
        BY <1>a, <4>2
    <3>3. CASE ~ (l <= Len(stats.hits))
      <4>1. \A m \in Pool!Layers : hits'[m] = IF m = l THEN hits[m] + 1 ELSE hits[m]
        BY <2>1, <2>5, <3>1
      <4>. HIDE DEF l
      <4>2. Mix' = [Mix EXCEPT ![l] = @ + 1]
        BY <2>1, <2>5, <3>3, <4>1 DEF Mix
      <4>3. Pool!SumOf([Mix EXCEPT ![l] = @ + 1]) = Pool!SumOf(Mix) + 1
        BY <2>5, <3>1, SumOfOneMore
      <4>. QED
        BY <1>a, <4>2, <4>3
    <3>. QED
      BY <3>2, <3>3
  <2>8. puts \in Nat /\ stats.puts \in Nat
    BY <1>0, Counters
  <2>. HIDE DEF l
  <2>. QED
    BY <1>0, <1>a, <2>1, <2>4, <2>6, <2>7, <2>8 DEF PoolIInv, PutsAfterHits
<1>4. ASSUME NEW c \in Clients, Pool!Use(c) PROVE PoolIInv'
  BY <1>1, <1>4 DEF Pool!Use
<1>5. ASSUME NEW c \in Clients, Pool!CountPut(c) PROVE PoolIInv'
  <2>1. /\ client[c].at = "using" /\ client' = [client EXCEPT ![c].at = "putting"]
        /\ puts' = puts + 1 /\ UNCHANGED <<hits, stats>>
    BY <1>5 DEF Pool!CountPut, Pool!ClientGoto
  <2>2. client'[c].at = "putting" /\ \A d \in Clients \ {c} : client'[d] = client[d]
    BY <1>b, <2>1
  <2>3. Using' = Using \ {c} /\ c \in Using
    BY <2>1, <2>2 DEF Using
  <2>4. IsFiniteSet(Using') /\ Cardinality(Using') = Cardinality(Using) - 1
    BY <1>a, <2>3, FS_RemoveElement
  <2>5. Mix' = Mix
    BY <2>1 DEF Mix
  <2>6. puts \in Nat
    BY <1>0, Counters
  <2>. QED
    BY <1>0, <1>a, <2>1, <2>4, <2>5, <2>6 DEF PoolIInv, PutsAfterHits
<1>6. ASSUME NEW c \in Clients, Pool!Reset(c) PROVE PoolIInv'
  <2>1. PICK l : client' = [client EXCEPT ![c].at = "reset", ![c].layer = l]
    BY <1>6 DEF Pool!Reset
  <2>2. client'[c].at = "reset" /\ \A d \in Clients \ {c} : client'[d] = client[d]
    BY <1>b, <2>1
  <2>. QED
    BY <1>1, <1>6, <2>2 DEF Pool!Reset
<1>7. ASSUME NEW c \in Clients, Pool!PutInPool(c) PROVE PoolIInv'
  <2>1. client[c].at = "reset" /\ client' = [client EXCEPT ![c] = Pool!Free]
        /\ UNCHANGED <<hits, puts, stats>>
    BY <1>7 DEF Pool!PutInPool
  <2>2. client'[c].at = "free" /\ \A d \in Clients \ {c} : client'[d] = client[d]
    BY <1>b, <2>1 DEF Pool!Free
  <2>. QED
    BY <1>1, <2>1, <2>2
<1>8. CASE Pool!Collect
  BY <1>1, <1>8 DEF Pool!Collect
\* The reader of the statistics.
<1>9. ASSUME UNCHANGED <<hits, puts, client>>, stats'.puts <= Pool!SumOf(Mix')
      PROVE  PoolIInv'
  <2>1. Using' = Using
    BY <1>9 DEF Using
  <2>. QED
    BY <1>0, <1>9, <2>1 DEF PoolIInv, PutsAfterHits
<1>10. CASE Pool!LoadPuts
  <2>1. /\ stats'.puts = puts /\ stats'.hits = <<>> /\ UNCHANGED <<hits, puts, client>>
    BY <1>10 DEF Pool!LoadPuts
  <2>2. hits \in [Pool!Layers -> Nat] /\ puts \in Nat
    BY <1>0, Counters
  <2>3. Mix' = hits
    <3>1. \A l \in Pool!Layers : ~ (l <= Len(stats'.hits))
      BY <2>1, LayersAndSizes
    <3>2. Mix' = [l \in Pool!Layers |-> hits[l]]
      BY <2>1, <3>1 DEF Mix
    <3>. QED
      BY <2>2, <3>2
  <2>. QED
    BY <1>0, <1>9, <1>a, <2>1, <2>2, <2>3 DEF PutsAfterHits
<1>11. CASE Pool!LoadHits
  <2>1. stats.hits \in Seq(Nat) /\ stats \in [puts : Nat, hits : Seq(Nat), misses : Seq(Nat)]
    BY <1>0 DEF FreshIInv, Pool!TypeOK
  <2>2. stats' = [stats EXCEPT !.hits = Append(stats.hits, hits[Len(stats.hits) + 1])]
        /\ UNCHANGED <<hits, puts, client>>
    BY <1>11 DEF Pool!LoadHits
  <2>3. stats'.puts = stats.puts
        /\ stats'.hits = Append(stats.hits, hits[Len(stats.hits) + 1])
    BY <2>1, <2>2
  <2>4. Mix' = Mix
    <3>1. ASSUME NEW l \in Pool!Layers
          PROVE  (IF l <= Len(stats'.hits) THEN stats'.hits[l] ELSE hits'[l])
                   = IF l <= Len(stats.hits) THEN stats.hits[l] ELSE hits[l]
      BY <2>1, <2>2, <2>3, LayersAndSizes
    <3>. QED
      BY <3>1 DEF Mix
  <2>. QED
    BY <1>0, <1>9, <2>2, <2>3, <2>4 DEF PutsAfterHits
<1>12. CASE Pool!LoadMisses
  <2>1. stats \in [puts : Nat, hits : Seq(Nat), misses : Seq(Nat)]
    BY <1>0 DEF FreshIInv, Pool!TypeOK
  <2>2. stats'.puts = stats.puts /\ stats'.hits = stats.hits /\ UNCHANGED <<hits, puts, client>>
    BY <1>12, <2>1 DEF Pool!LoadMisses
  <2>3. Mix' = Mix
    BY <2>2 DEF Mix
  <2>. QED
    BY <1>0, <1>9, <2>2, <2>3 DEF PutsAfterHits
<1>13. CASE UNCHANGED Pool!vars
  BY <1>1, <1>13 DEF Pool!vars
<1>. QED
  BY <1>2, <1>3, <1>4, <1>5, <1>6, <1>7, <1>8, <1>10, <1>11, <1>12, <1>13 DEF Pool!Next

\* Nothing is counted at first.
LEMMA InitPoolIInv == Pool!Init => PoolIInv
<1>. SUFFICES ASSUME Pool!Init PROVE PoolIInv
  OBVIOUS
<1>1. FreshIInv
  BY InitFreshIInv
<1>2. Using = {}
  BY DEF Using, Pool!Init, Pool!Free
<1>3. IsFiniteSet(Using) /\ Cardinality(Using) = 0
  BY <1>2, FS_EmptySet
<1>4. Pool!SumOf(hits) \in Nat /\ Pool!SumOf(Mix) \in Nat
  BY <1>1, Counters, LayersAndSizes, SumOfOneMore
<1>5. puts = 0 /\ stats.puts = 0
  BY DEF Pool!Init
<1>. QED
  BY <1>1, <1>3, <1>4, <1>5 DEF PoolIInv, PutsAfterHits

\* The property, of the multi-pool alone.
LEMMA PoolPutsWereHits == PoolIInv => Pool!PutsWereHits
<1>. SUFFICES ASSUME PoolIInv, Len(stats.hits) = Len(thresholdsOfPool) + 1
              PROVE  stats.puts <= Pool!SumOf(stats.hits)
  BY DEF Pool!PutsWereHits
<1>1. stats.hits \in Seq(Nat)
  BY Counters DEF PoolIInv
<1>2. stats.hits = [l \in Pool!Layers |-> stats.hits[l]]
  <2>1. DOMAIN stats.hits = Pool!Layers
    BY <1>1, LayersAndSizes
  <2>2. stats.hits = [l \in DOMAIN stats.hits |-> stats.hits[l]]
    BY <1>1
  <2>. QED
    BY <2>1, <2>2, Zenon
<1>3. \A l \in Pool!Layers : l <= Len(stats.hits)
  BY LayersAndSizes
<1>4. Mix = stats.hits
  BY <1>2, <1>3 DEF Mix
<1>. QED
  BY <1>4 DEF PoolIInv, PutsAfterHits
-----------------------------------------------------------------------------
(***************************************************************************)
(* Compress and Decompress: nobody else has a call's buffer, which is      *)
(* empty when it gets it.                                                  *)
(***************************************************************************)
Output(c) == <<<<c, "first">>, <<c, "rest">>>>

Bytes == Seq(Callers \X {"first", "rest"})

Holding == {"write", "close", "clone", "reset", "put"}

Job == [op : {"none", "Compress", "Decompress"}, len : {0} \union Lengths, weak : Nat,
        level : {"none", "default", "fast"}, buffer : Buffers \union {Codec!NoBuffer},
        ret : [kind : {"nothing", "input", "copy"}, bytes : Bytes, of : {Codec!NoBuffer}],
        at : {"start", "loadWeak", "loadStrong", "get", "returned", "failed"} \union Holding]

CodecTypes ==
    /\ thresholds \in Nat \X Nat
    /\ once \in [begun : BOOLEAN, toStore : Seq(Nat)] /\ Len(once.toStore) <= 2
    /\ bufferPool \in SUBSET Buffers
    /\ content \in [Buffers -> Bytes]
    /\ job \in [Callers -> Job]

\* What is in a buffer, and what a call has to return.
Hands ==
    /\ \A c \in Callers : job[c].at \in Holding <=> job[c].buffer \in Buffers
    /\ \A c, d \in Callers :
          job[c].buffer \in Buffers /\ job[c].buffer = job[d].buffer => c = d
    /\ \A b \in Buffers \ Codec!InHand : content[b] = <<>>

JobOk(j, c, bytes) ==
    /\ j.at \in {"write", "put"} => bytes = <<>>
    /\ j.at = "close" => bytes = <<<<c, "first">>>>
    /\ j.at = "clone" => bytes = Output(c)
    /\ j.at \in {"loadWeak", "loadStrong", "get", "write", "close", "clone"}
          => j.ret = Codec!Nothing
    /\ j.at \in {"reset", "put"} => j.ret \in {Codec!Nothing, Codec!CopyOf(Output(c))}
    /\ j.at = "returned" =>
          \/ j.ret \in {Codec!Input, Codec!CopyOf(Output(c))}
          \/ j.len = 0 /\ j.ret = Codec!CopyOf(<<>>)

Jobs == \A c \in Callers : JobOk(job[c], c, content[job[c].buffer])

CodecIInv == CodecTypes /\ Hands /\ Jobs
-----------------------------------------------------------------------------
\* A step of one call keeps the others' buffers as they are.
LEMMA JobGoesOn ==
    ASSUME CodecIInv, NEW c \in Callers, job' \in [Callers -> Job],
           content' \in [Buffers -> Bytes],
           \A d \in Callers \ {c} : job'[d] = job[d],
           job'[c].at \in Holding <=> job'[c].buffer \in Buffers,
           job'[c].buffer \in Buffers =>
               job'[c].buffer = job[c].buffer \/ job'[c].buffer \notin Codec!InHand,
           job[c].buffer \in Buffers /\ job'[c].buffer # job[c].buffer =>
               content'[job[c].buffer] = <<>>,
           \A b \in Buffers : b # job'[c].buffer => content'[b] = content[b],
           JobOk(job'[c], c, content'[job'[c].buffer])
    PROVE  Hands' /\ Jobs'
<1>. USE DEF CodecIInv, CodecTypes, Hands, Codec!InHand
<1>1. ASSUME NEW d \in Callers \ {c} PROVE job'[d] = job[d]
  OBVIOUS
<1>2. \A d \in Callers : job'[d].at \in Holding <=> job'[d].buffer \in Buffers
  BY <1>1
<1>3. ASSUME NEW d \in Callers, NEW e \in Callers,
             job'[d].buffer \in Buffers, job'[d].buffer = job'[e].buffer
      PROVE  d = e
  <2>1. CASE d = c /\ e # c
    BY <1>1, <1>3, <2>1
  <2>2. CASE d # c /\ e = c
    BY <1>1, <1>3, <2>2
  <2>3. CASE d # c /\ e # c
    BY <1>1, <1>3, <2>3
  <2>. QED
    BY <2>1, <2>2, <2>3
<1>4. ASSUME NEW b \in Buffers, b \notin {job'[d].buffer : d \in Callers}
      PROVE  content'[b] = <<>>
  <2>1. content'[b] = content[b] /\ \A d \in Callers \ {c} : job[d].buffer # b
    BY <1>1, <1>4
  <2>2. CASE b = job[c].buffer
    BY <1>4, <2>2
  <2>3. CASE b # job[c].buffer
    BY <2>1, <2>3
  <2>. QED
    BY <2>2, <2>3
<1>5. ASSUME NEW d \in Callers PROVE JobOk(job'[d], d, content'[job'[d].buffer])
  <2>1. CASE d = c
    BY <2>1
  <2>2. CASE d # c /\ job[d].buffer \in Buffers
    <3>1. job'[d] = job[d] /\ job[d].buffer # job'[c].buffer
      BY <1>1, <1>3, <2>2
    <3>2. content'[job[d].buffer] = content[job[d].buffer]
      BY <2>2, <3>1
    <3>3. JobOk(job[d], d, content[job[d].buffer])
      BY DEF Jobs
    <3>. QED
      BY <3>1, <3>2, <3>3, Zenon
  <2>3. CASE d # c /\ job[d].buffer \notin Buffers
    <3>1. job'[d] = job[d] /\ job[d].at \notin Holding
      BY <1>1, <2>3
    <3>2. JobOk(job[d], d, content[job[d].buffer])
      BY DEF Jobs
    <3>. QED
      BY <3>1, <3>2 DEF JobOk, Holding
  <2>. QED
    BY <2>1, <2>2, <2>3
<1>6. Hands'
  BY <1>2, <1>3, <1>4
<1>7. Jobs'
  BY <1>5 DEF Jobs, JobOk, Output
<1>. QED
  BY <1>6, <1>7

\* What the steps write, as sequences.
LEMMA Parts ==
    ASSUME NEW c \in Callers
    PROVE  /\ <<>> \in Bytes /\ <<<<c, "first">>>> \in Bytes /\ Output(c) \in Bytes
           /\ Append(<<>>, <<c, "first">>) = <<<<c, "first">>>>
           /\ Append(<<<<c, "first">>>>, <<c, "rest">>) = Output(c)
<1>1. ASSUME NEW S, NEW x \in S, NEW y \in S
      PROVE  <<>> \in Seq(S) /\ <<x>> \in Seq(S) /\ <<x, y>> \in Seq(S)
  OBVIOUS
<1>2. ASSUME NEW x, NEW y PROVE Append(<<>>, x) = <<x>>
  OBVIOUS
<1>3. ASSUME NEW x, NEW y PROVE Append(<<x>>, y) = <<x, y>>
  <2>1. /\ Append(<<x>>, y) = [i \in 1..2 |-> Append(<<x>>, y)[i]]
        /\ <<x, y>> = [i \in 1..2 |-> <<x, y>>[i]]
    OBVIOUS
  <2>2. \A i \in 1..2 : Append(<<x>>, y)[i] = <<x, y>>[i]
    OBVIOUS
  <2>. QED
    BY <2>1, <2>2, Zenon
<1>4. <<c, "first">> \in Callers \X {"first", "rest"}
      /\ <<c, "rest">> \in Callers \X {"first", "rest"}
  OBVIOUS
<1>5. <<>> \in Bytes /\ <<<<c, "first">>>> \in Bytes /\ Output(c) \in Bytes
  BY <1>1, <1>4, Zenon DEF Bytes, Output
<1>6. Append(<<>>, <<c, "first">>) = <<<<c, "first">>>>
  BY <1>2, Zenon
<1>7. Append(<<<<c, "first">>>>, <<c, "rest">>) = Output(c)
  BY <1>3, Zenon DEF Output
<1>. QED
  BY <1>5, <1>6, <1>7

\* What a copy of some bytes is.
LEMMA Returned ==
    ASSUME NEW bytes \in Bytes
    PROVE  /\ Codec!CopyOf(bytes) \in [kind : {"nothing", "input", "copy"}, bytes : Bytes,
                                       of : {Codec!NoBuffer}]
           /\ Codec!CopyOf(bytes) # Codec!Nothing
BY DEF Codec!CopyOf, Codec!Nothing

\* The results that are made of no bytes.
LEMMA NothingReturned ==
    {Codec!Nothing, Codec!Input, Codec!CopyOf(<<>>)}
        \subseteq [kind : {"nothing", "input", "copy"}, bytes : Bytes, of : {Codec!NoBuffer}]
<1>1. <<>> \in Bytes
  BY DEF Bytes
<1>. QED
  BY <1>1 DEF Codec!Nothing, Codec!Input, Codec!CopyOf

\* Init stores two thresholds, one after the other.
LEMMA StoresThreshold ==
    ASSUME CodecTypes, Codec!StoreThreshold
    PROVE  /\ thresholds' \in Nat \X Nat
           /\ once' \in [begun : BOOLEAN, toStore : Seq(Nat)] /\ Len(once'.toStore) <= 2
<1>1. once \in [begun : BOOLEAN, toStore : Seq(Nat)] /\ thresholds \in Nat \X Nat
      /\ Len(once.toStore) <= 2
  BY DEF CodecTypes
<1>2. once.begun \in BOOLEAN /\ once = [begun |-> once.begun, toStore |-> once.toStore]
  BY <1>1, Zenon
<1>3. once.toStore \in Seq(Nat) /\ once.toStore # <<>>
  BY <1>1 DEF Codec!StoreThreshold
<1>4. Head(once.toStore) \in Nat /\ Tail(once.toStore) \in Seq(Nat)
      /\ Len(Tail(once.toStore)) <= 2
  BY <1>1, <1>3
<1>5. once' = [once EXCEPT !.toStore = Tail(once.toStore)]
  BY DEF Codec!StoreThreshold
<1>6. once' \in [begun : BOOLEAN, toStore : Seq(Nat)] /\ once'.toStore = Tail(once.toStore)
  BY <1>1, <1>4, <1>5, Zenon
<1>7. thresholds' = [thresholds EXCEPT ![3 - Len(once.toStore)] = Head(once.toStore)]
  BY DEF Codec!StoreThreshold
<1>8. thresholds' \in Nat \X Nat
  BY <1>1, <1>4, <1>7
<1>. QED
  BY <1>4, <1>6, <1>8

\* What the steps of a call that has a buffer have in common.
BufferStep(c, bytes, at, ret) ==
    /\ bytes \in Bytes /\ at \in Holding /\ job[c].at \in Holding
    /\ ret \in {Codec!Nothing, Codec!CopyOf(Output(c))}
    /\ at \in {"write", "put"} => bytes = <<>>
    /\ at = "close" => bytes = <<<<c, "first">>>>
    /\ at = "clone" => bytes = Output(c)
    /\ at \in {"write", "close", "clone"} => ret = Codec!Nothing
    /\ job' = [job EXCEPT ![c].ret = ret, ![c].at = at]
    /\ content' = [content EXCEPT ![job[c].buffer] = bytes]
    /\ UNCHANGED <<thresholds, once, bufferPool>>

\* Every step of a caller keeps the buffers apart and the results as they were.
LEMMA NextCodecIInv ==
    CodecIInv /\ [Codec!Next]_(Codec!vars) => CodecIInv'
<1>. SUFFICES ASSUME CodecIInv, [Codec!Next]_(Codec!vars) PROVE CodecIInv'
  OBVIOUS
<1>0. /\ CodecTypes /\ Hands /\ Jobs
      /\ job \in [Callers -> Job] /\ content \in [Buffers -> Bytes]
  BY DEF CodecIInv, CodecTypes
<1>1. ASSUME UNCHANGED <<bufferPool, content, job>>,
             thresholds' \in Nat \X Nat,
             once' \in [begun : BOOLEAN, toStore : Seq(Nat)] /\ Len(once'.toStore) <= 2
      PROVE  CodecIInv'
  BY <1>0, <1>1 DEF CodecIInv, CodecTypes, Hands, Jobs, JobOk, Codec!InHand
\* The calls: enough is what JobGoesOn asks for.
<1>2. ASSUME NEW c \in Callers, UNCHANGED <<thresholds, once>>, bufferPool' \in SUBSET Buffers,
             job' \in [Callers -> Job], content' \in [Buffers -> Bytes],
             Hands' /\ Jobs'
      PROVE  CodecIInv'
  BY <1>0, <1>2 DEF CodecIInv, CodecTypes
<1>3. ASSUME NEW s \in Settings, Codec!CallInit(s[1], s[2]) PROVE CodecIInv'
  <2>1. s[1] \in Int /\ s[2] \in Int
    BY CodecAssumption DEF Codec!CodecAssumption
  <2>2. UNCHANGED <<thresholds, bufferPool, content, job>>
    BY <1>3 DEF Codec!CallInit
  <2>3. once' \in [begun : BOOLEAN, toStore : Seq(Nat)] /\ Len(once'.toStore) <= 2
    BY <1>3, <2>1 DEF Codec!CallInit
  <2>. QED
    BY <1>0, <1>1, <2>2, <2>3 DEF CodecTypes
<1>4. CASE Codec!StoreThreshold
  BY <1>0, <1>1, <1>4, StoresThreshold DEF Codec!StoreThreshold
<1>. USE DEF Holding
<1>5. ASSUME NEW c \in Callers, NEW op \in {"Compress", "Decompress"}, NEW len \in Lengths,
             Codec!Call(c, op, len)
      PROVE  CodecIInv'
  <2>1. PICK at \in {"returned", "loadWeak", "get", "failed"} :
           /\ job' = [job EXCEPT ![c].op = op, ![c].len = len, ![c].at = at,
                      ![c].ret = IF len = 0 THEN Codec!CopyOf(<<>>) ELSE Codec!Nothing]
           /\ len = 0 <=> at = "returned"
    BY <1>5 DEF Codec!Call
  <2>2. /\ job'[c] = [job[c] EXCEPT !.op = op, !.len = len, !.at = at,
                      !.ret = IF len = 0 THEN Codec!CopyOf(<<>>) ELSE Codec!Nothing]
        /\ \A d \in Callers \ {c} : job'[d] = job[d]
        /\ DOMAIN job' = Callers /\ job' = [d \in Callers |-> job'[d]]
    BY <1>0, <2>1
  <2>3. job[c] \in Job /\ job[c].at = "start" /\ job[c].buffer \notin Buffers
    BY <1>0, <1>5 DEF Codec!Call, Hands
  <2>4. job'[c] \in Job /\ job'[c].at = at /\ job'[c].len = len
        /\ job'[c].buffer = job[c].buffer
        /\ job'[c].ret = IF len = 0 THEN Codec!CopyOf(<<>>) ELSE Codec!Nothing
    BY <2>2, <2>3, NothingReturned DEF Job
  <2>5. job' \in [Callers -> Job]
    BY <1>0, <2>2, <2>4
  <2>6. UNCHANGED <<thresholds, once, bufferPool, content>>
    BY <1>5 DEF Codec!Call
  <2>7. JobOk(job'[c], c, content'[job'[c].buffer])
    BY <2>1, <2>4 DEF JobOk
  <2>8. Hands' /\ Jobs'
    BY <1>0, <2>2, <2>3, <2>4, <2>5, <2>6, <2>7, JobGoesOn
  <2>. QED
    BY <1>0, <1>2, <2>5, <2>6, <2>8 DEF CodecTypes
<1>6. ASSUME NEW c \in Callers, Codec!LoadWeak(c) PROVE CodecIInv'
  <2>1. /\ job'[c] = [job[c] EXCEPT !.weak = thresholds[1], !.at = "loadStrong"]
        /\ \A d \in Callers \ {c} : job'[d] = job[d]
        /\ DOMAIN job' = Callers /\ job' = [d \in Callers |-> job'[d]]
    BY <1>0, <1>6 DEF Codec!LoadWeak
  <2>2. job[c] \in Job /\ job[c].at = "loadWeak" /\ job[c].buffer \notin Buffers
        /\ thresholds[1] \in Nat /\ job[c].ret = Codec!Nothing
    BY <1>0, <1>6 DEF Codec!LoadWeak, Hands, Jobs, JobOk, CodecTypes
  <2>3. job'[c] \in Job /\ job'[c].at = "loadStrong" /\ job'[c].buffer = job[c].buffer
        /\ job'[c].ret = job[c].ret
    BY <2>1, <2>2 DEF Job
  <2>4. job' \in [Callers -> Job]
    BY <1>0, <2>1, <2>3
  <2>5. UNCHANGED <<thresholds, once, bufferPool, content>>
    BY <1>6 DEF Codec!LoadWeak
  <2>6. JobOk(job'[c], c, content'[job'[c].buffer])
    BY <2>2, <2>3 DEF JobOk
  <2>7. Hands' /\ Jobs'
    BY <1>0, <2>1, <2>2, <2>3, <2>4, <2>5, <2>6, JobGoesOn
  <2>. QED
    BY <1>0, <1>2, <2>4, <2>5, <2>7 DEF CodecTypes
<1>7. ASSUME NEW c \in Callers, Codec!LoadStrong(c) PROVE CodecIInv'
  <2>1. /\ \/ job'[c] = [job[c] EXCEPT !.ret = Codec!Input, !.at = "returned"]
           \/ job'[c] = [job[c] EXCEPT !.at = "get", !.level =
                           IF job[c].len >= thresholds[2] THEN "default" ELSE "fast"]
        /\ \A d \in Callers \ {c} : job'[d] = job[d]
        /\ DOMAIN job' = Callers /\ job' = [d \in Callers |-> job'[d]]
    BY <1>0, <1>7 DEF Codec!LoadStrong, Codec!Returns
  <2>2. job[c] \in Job /\ job[c].at = "loadStrong" /\ job[c].buffer \notin Buffers
        /\ job[c].ret = Codec!Nothing
    BY <1>0, <1>7 DEF Codec!LoadStrong, Hands, Jobs, JobOk
  <2>3. /\ job'[c] \in Job /\ job'[c].buffer = job[c].buffer
        /\ \/ job'[c].at = "get" /\ job'[c].ret = job[c].ret
           \/ job'[c].at = "returned" /\ job'[c].ret = Codec!Input
    BY <2>1, <2>2, NothingReturned DEF Job
  <2>4. job' \in [Callers -> Job]
    BY <1>0, <2>1, <2>3
  <2>5. UNCHANGED <<thresholds, once, bufferPool, content>>
    BY <1>7 DEF Codec!LoadStrong
  <2>6. JobOk(job'[c], c, content'[job'[c].buffer])
    BY <2>2, <2>3 DEF JobOk
  <2>7. Hands' /\ Jobs'
    BY <1>0, <2>1, <2>2, <2>3, <2>4, <2>5, <2>6, JobGoesOn
  <2>. QED
    BY <1>0, <1>2, <2>4, <2>5, <2>7 DEF CodecTypes
<1>8. ASSUME NEW c \in Callers, Codec!GetBuffer(c) PROVE CodecIInv'
  <2>1. PICK b \in Buffers \ Codec!InHand :
           /\ b \in bufferPool \/ content[b] = <<>>
           /\ job' = [job EXCEPT ![c].buffer = b, ![c].at = "write"]
           /\ bufferPool' = bufferPool \ {b}
    BY <1>8 DEF Codec!GetBuffer
  <2>2. /\ job'[c] = [job[c] EXCEPT !.buffer = b, !.at = "write"]
        /\ \A d \in Callers \ {c} : job'[d] = job[d]
        /\ DOMAIN job' = Callers /\ job' = [d \in Callers |-> job'[d]]
    BY <1>0, <2>1
  <2>3. job[c] \in Job /\ job[c].at = "get" /\ job[c].buffer \notin Buffers
        /\ job[c].ret = Codec!Nothing
    BY <1>0, <1>8 DEF Codec!GetBuffer, Hands, Jobs, JobOk
  <2>4. job'[c] \in Job /\ job'[c].at = "write" /\ job'[c].buffer = b
        /\ job'[c].ret = job[c].ret
    BY <2>2, <2>3 DEF Job
  <2>5. job' \in [Callers -> Job]
    BY <1>0, <2>2, <2>4
  <2>6. UNCHANGED <<thresholds, once, content>>
    BY <1>8 DEF Codec!GetBuffer
  <2>7. content[b] = <<>>
    BY <1>0, <2>1 DEF Hands
  <2>8. JobOk(job'[c], c, content'[job'[c].buffer])
    BY <2>3, <2>4, <2>6, <2>7 DEF JobOk
  <2>9. Hands' /\ Jobs'
    BY <1>0, <2>1, <2>2, <2>3, <2>4, <2>5, <2>6, <2>8, JobGoesOn
  <2>10. bufferPool' \in SUBSET Buffers
    BY <1>0, <2>1 DEF CodecTypes
  <2>. QED
    BY <1>2, <2>5, <2>6, <2>9, <2>10, <1>0
<1>9. ASSUME NEW c \in Callers, NEW bytes, NEW at, NEW ret, BufferStep(c, bytes, at, ret)
      PROVE  CodecIInv'
  <2>1. /\ job'[c] = [job[c] EXCEPT !.ret = ret, !.at = at]
        /\ \A d \in Callers \ {c} : job'[d] = job[d]
        /\ DOMAIN job' = Callers /\ job' = [d \in Callers |-> job'[d]]
    BY <1>0, <1>9 DEF BufferStep
  <2>2. job[c] \in Job /\ job[c].buffer \in Buffers
    BY <1>0, <1>9 DEF Hands, BufferStep
  <2>3. ret \in [kind : {"nothing", "input", "copy"}, bytes : Bytes, of : {Codec!NoBuffer}]
    BY <1>9, NothingReturned, Returned, Parts DEF BufferStep
  <2>4. job'[c] \in Job /\ job'[c].at = at /\ job'[c].buffer = job[c].buffer
        /\ job'[c].ret = ret
    BY <1>9, <2>1, <2>2, <2>3 DEF Job, BufferStep
  <2>5. job' \in [Callers -> Job]
    BY <1>0, <2>1, <2>4
  <2>6. /\ content' \in [Buffers -> Bytes] /\ content'[job[c].buffer] = bytes
        /\ \A b \in Buffers : b # job[c].buffer => content'[b] = content[b]
    BY <1>0, <1>9, <2>2 DEF BufferStep
  <2>7. JobOk(job'[c], c, content'[job'[c].buffer])
    BY <1>9, <2>4, <2>6 DEF JobOk, BufferStep
  <2>8. Hands' /\ Jobs'
    BY <1>0, <1>9, <2>1, <2>2, <2>4, <2>5, <2>6, <2>7, JobGoesOn DEF BufferStep
  <2>. QED
    BY <1>0, <1>2, <1>9, <2>5, <2>6, <2>8 DEF CodecTypes, BufferStep
<1>10. ASSUME NEW c \in Callers, job[c].at \in Holding
       PROVE  /\ job[c].buffer \in Buffers /\ content[job[c].buffer] \in Bytes
              /\ [job EXCEPT ![c].ret = job[c].ret] = job
              /\ \A at : [job EXCEPT ![c].at = at]
                            = [job EXCEPT ![c].ret = job[c].ret, ![c].at = at]
              /\ JobOk(job[c], c, content[job[c].buffer])
              /\ [content EXCEPT ![job[c].buffer] = content[job[c].buffer]] = content
  <2>1. job[c].buffer \in Buffers /\ job[c] \in Job
    BY <1>0, <1>10 DEF Hands
  <2>2. content[job[c].buffer] \in Bytes
        /\ [content EXCEPT ![job[c].buffer] = content[job[c].buffer]] = content
    BY <1>0, <2>1
  <2>3. [job[c] EXCEPT !.ret = job[c].ret] = job[c]
    BY <2>1 DEF Job
  <2>4. [job EXCEPT ![c].ret = job[c].ret] = job
    BY <1>0, <2>3
  <2>5. ASSUME NEW at
        PROVE  [job EXCEPT ![c].at = at] = [job EXCEPT ![c].ret = job[c].ret, ![c].at = at]
    BY <2>4, Zenon
  <2>6. JobOk(job[c], c, content[job[c].buffer])
    BY <1>0 DEF Jobs
  <2>. QED
    BY <2>1, <2>2, <2>4, <2>5, <2>6
<1>11. ASSUME NEW c \in Callers, Codec!Write(c) PROVE CodecIInv'
  <2>1. PICK at \in {"close", "reset"} : job' = [job EXCEPT ![c].at = at]
    BY <1>11 DEF Codec!Write
  <2>2. job[c].at = "write"
    BY <1>11 DEF Codec!Write
  <2>3. content[job[c].buffer] = <<>> /\ job[c].ret = Codec!Nothing
    BY <1>10, <2>2 DEF JobOk
  <2>4. content' = [content EXCEPT ![job[c].buffer] = <<<<c, "first">>>>]
        /\ UNCHANGED <<thresholds, once, bufferPool>>
    BY <2>3, <1>11, Parts DEF Codec!Write
  <2>5. job' = [job EXCEPT ![c].ret = Codec!Nothing, ![c].at = at]
    BY <1>10, <2>1, <2>2, <2>3
  <2>6. <<<<c, "first">>>> \in Bytes
    BY Parts
  <2>8. BufferStep(c, <<<<c, "first">>>>, at, Codec!Nothing)
    BY <2>2, <2>3, <2>4, <2>5, <2>6 DEF Holding, BufferStep
  <2>. QED
    BY <1>9, <2>8
<1>12. ASSUME NEW c \in Callers, Codec!Close(c) PROVE CodecIInv'
  <2>1. PICK at \in {"clone", "reset"} : job' = [job EXCEPT ![c].at = at]
    BY <1>12 DEF Codec!Close
  <2>2. job[c].at = "close"
    BY <1>12 DEF Codec!Close
  <2>3. content[job[c].buffer] = <<<<c, "first">>>> /\ job[c].ret = Codec!Nothing
    BY <1>10, <2>2 DEF JobOk
  <2>4. Append(<<<<c, "first">>>>, <<c, "rest">>) = Output(c)
    BY Parts
  <2>5. content' = [content EXCEPT ![job[c].buffer] = Output(c)]
        /\ UNCHANGED <<thresholds, once, bufferPool>>
    BY <1>12, <2>3, <2>4 DEF Codec!Close
  <2>6. job' = [job EXCEPT ![c].ret = Codec!Nothing, ![c].at = at]
    BY <1>10, <2>1, <2>2, <2>3
  <2>7. Output(c) \in Bytes
    BY Parts
  <2>8. BufferStep(c, Output(c), at, Codec!Nothing)
    BY <2>2, <2>3, <2>5, <2>6, <2>7 DEF Holding, BufferStep
  <2>. QED
    BY <1>9, <2>8
<1>13. ASSUME NEW c \in Callers, Codec!Clone(c) PROVE CodecIInv'
  <2>1. job[c].at = "clone"
    BY <1>13 DEF Codec!Clone
  <2>2. content[job[c].buffer] = Output(c)
    BY <1>10, <2>1 DEF JobOk
  <2>3. content' = [content EXCEPT ![job[c].buffer] = Output(c)]
        /\ UNCHANGED <<thresholds, once, bufferPool>>
    BY <1>10, <1>13, <2>1, <2>2 DEF Codec!Clone
  <2>4. job' = [job EXCEPT ![c].ret = Codec!CopyOf(Output(c)), ![c].at = "reset"]
    BY <1>13, <2>2 DEF Codec!Clone, Codec!Returns
  <2>5. Output(c) \in Bytes
    BY Parts
  <2>8. BufferStep(c, Output(c), "reset", Codec!CopyOf(Output(c)))
    BY <2>1, <2>3, <2>4, <2>5 DEF Holding, BufferStep
  <2>. QED
    BY <1>9, <2>8
<1>14. ASSUME NEW c \in Callers, Codec!ResetBuffer(c) PROVE CodecIInv'
  <2>1. job[c].at = "reset"
    BY <1>14 DEF Codec!ResetBuffer
  <2>2. PICK ret \in {Codec!Nothing, Codec!CopyOf(Output(c))} : ret = job[c].ret
    BY <1>10, <2>1 DEF JobOk
  <2>3. content' = [content EXCEPT ![job[c].buffer] = <<>>]
        /\ UNCHANGED <<thresholds, once, bufferPool>>
    BY <1>14 DEF Codec!ResetBuffer
  <2>4. job' = [job EXCEPT ![c].ret = ret, ![c].at = "put"]
    BY <1>10, <1>14, <2>1, <2>2 DEF Codec!ResetBuffer
  <2>5. <<>> \in Bytes
    BY Parts
  <2>8. BufferStep(c, <<>>, "put", ret)
    BY <2>1, <2>2, <2>3, <2>4, <2>5 DEF Holding, BufferStep
  <2>. QED
    BY <1>9, <2>8
<1>15. ASSUME NEW c \in Callers, Codec!PutBuffer(c) PROVE CodecIInv'
  <2>1. /\ job'[c] = [job[c] EXCEPT !.buffer = Codec!NoBuffer,
                        !.at = IF job[c].ret = Codec!Nothing THEN "failed" ELSE "returned"]
        /\ \A d \in Callers \ {c} : job'[d] = job[d]
        /\ DOMAIN job' = Callers /\ job' = [d \in Callers |-> job'[d]]
    BY <1>0, <1>15 DEF Codec!PutBuffer
  <2>2. job[c].at = "put"
    BY <1>15 DEF Codec!PutBuffer
  <2>3. job[c] \in Job /\ job[c].buffer \in Buffers /\ content[job[c].buffer] = <<>>
        /\ job[c].ret \in {Codec!Nothing, Codec!CopyOf(Output(c))}
    BY <1>0, <1>10, <2>2 DEF JobOk
  <2>4. /\ job'[c] \in Job /\ job'[c].buffer = Codec!NoBuffer
        /\ job'[c].ret = job[c].ret
        /\ job'[c].at = IF job[c].ret = Codec!Nothing THEN "failed" ELSE "returned"
    BY <2>1, <2>3 DEF Job
  <2>5. job' \in [Callers -> Job]
    BY <1>0, <2>1, <2>4
  <2>6. UNCHANGED <<thresholds, once, content>> /\ bufferPool' \in SUBSET Buffers
    BY <1>0, <1>15, <2>3 DEF Codec!PutBuffer, CodecTypes
  <2>7. Codec!NoBuffer \notin Buffers
    BY CodecAssumption DEF Codec!CodecAssumption
  <2>8. JobOk(job'[c], c, content'[job'[c].buffer])
    BY <2>3, <2>4 DEF JobOk
  <2>9. Hands' /\ Jobs'
    BY <1>0, <2>1, <2>3, <2>4, <2>5, <2>6, <2>7, <2>8, JobGoesOn
  <2>. QED
    BY <1>2, <2>5, <2>6, <2>9, <1>0
<1>16. CASE UNCHANGED Codec!vars
  BY <1>0, <1>1, <1>16 DEF Codec!vars, CodecTypes
<1>. QED
  BY <1>3, <1>4, <1>5, <1>6, <1>7, <1>8, <1>11, <1>12, <1>13, <1>14, <1>15, <1>16
     DEF Codec!Next

\* At first no caller has a buffer.
LEMMA InitCodecIInv == Codec!Init => CodecIInv
<1>. SUFFICES ASSUME Codec!Init PROVE CodecIInv
  OBVIOUS
<1>. USE DEF Codec!Init
<1>1. thresholds \in Nat \X Nat
  BY CodecAssumption DEF Codec!CodecAssumption
<1>2. /\ once \in [begun : BOOLEAN, toStore : Seq(Nat)] /\ Len(once.toStore) <= 2
      /\ bufferPool \in SUBSET Buffers
      /\ content \in [Buffers -> Bytes]
  BY DEF Bytes
<1>3. ASSUME NEW c \in Callers
      PROVE  /\ job[c] \in Job /\ job[c].at = "start" /\ job[c].buffer = Codec!NoBuffer
  BY DEF Job, Bytes, Codec!Nothing
<1>4. job \in [Callers -> Job]
  BY <1>3
<1>5. Codec!NoBuffer \notin Buffers
  BY CodecAssumption DEF Codec!CodecAssumption
<1>6. Hands
  BY <1>2, <1>3, <1>5 DEF Hands, Holding
<1>7. Jobs
  BY <1>3 DEF Jobs, JobOk
<1>. QED
  BY <1>1, <1>2, <1>4, <1>6, <1>7 DEF CodecIInv, CodecTypes

\* The types, as Compress states them.
LEMMA CodecTypesOK == CodecIInv => Codec!TypeOK
<1>. SUFFICES ASSUME CodecIInv PROVE Codec!TypeOK
  OBVIOUS
<1>1. CodecTypes
  BY DEF CodecIInv
<1>2. ASSUME NEW c \in Callers PROVE job[c] \in Job
  BY <1>1 DEF CodecTypes
<1>3. ASSUME NEW c \in Callers
      PROVE  /\ job[c].op \in {"none", "Compress", "Decompress"}
             /\ job[c].len \in {0} \union Lengths /\ job[c].weak \in Nat
             /\ job[c].level \in {"none", "default", "fast"}
             /\ job[c].buffer \in Buffers \union {Codec!NoBuffer}
  BY <1>2 DEF Job
<1>. QED
  BY <1>1, <1>3 DEF CodecTypes, Codec!TypeOK, Bytes

\* A result is the input or a copy, and no buffer of the pool is a result.
LEMMA CodecResultsStay == CodecIInv => ResultsStay
<1>. SUFFICES ASSUME CodecIInv PROVE ResultsStay
  OBVIOUS
<1>1. ASSUME NEW c \in Callers, job[c].at = "returned"
      PROVE  \/ job[c].ret \in {Codec!Input, Codec!CopyOf(Output(c))}
             \/ job[c].len = 0 /\ job[c].ret = Codec!CopyOf(<<>>)
  BY <1>1 DEF CodecIInv, Jobs, JobOk
<1>. QED
  BY <1>1 DEF ResultsStay, Codec!ResultsStay, Codec!Input, Codec!CopyOf, Output
-----------------------------------------------------------------------------
(***************************************************************************)
(* The locale: what is current, or about to be, is in the map already.     *)
(***************************************************************************)
Loaded ==
    /\ current \in locales
    /\ \A s \in Setters :
          /\ setter[s].at = "store" => setter[s].lang \in locales
          /\ setter[s].at \in {"write", "writing"} => setter[s].lang \in Languages
    /\ \A f \in Formatters :
          formatter[f].at \in {"current", "names"} => formatter[f].layout \in locales

TimeIInv == Time!TypeOK /\ Loaded /\ Time!TextInOneLanguage

\* A text being rendered holds words of the tables loaded for its language.
LEMMA NextTimeIInv ==
    TimeIInv /\ [Time!Next]_(Time!vars) => TimeIInv'
<1>. SUFFICES ASSUME TimeIInv, [Time!Next]_(Time!vars) PROVE TimeIInv'
  OBVIOUS
<1>. USE LocaleAssumption DEF TimeIInv, Time!TypeOK, Loaded, Time!TextInOneLanguage,
    Time!Access, Time!IsCode, Time!SetterGoto, Time!LocaleAssumption, Time!Writing
<1>1. ASSUME NEW s \in Setters, NEW lang \in Languages \union {Invalid}, Time!CallInit(s, lang)
      PROVE  TimeIInv'
  <2>. DEFINE Types(t) == t \in [Setters ->
          [op : {"none", "Init", "SetLocale"}, lang : Languages \union {Invalid},
           at : {"start", "lookup", "load", "default", "write", "writing", "store",
                 "returned", "failed"}]]
  <2>1. Types(setter) /\ UNCHANGED <<locales, current, formatter, fatal>>
    BY <1>1 DEF Time!CallInit
  <2>2. location' \in BOOLEAN
    BY <1>1 DEF Time!CallInit
  <2>3. /\ Types(setter') /\ setter'[s].at \in {"lookup", "failed"}
        /\ \A q \in Setters \ {s} : setter'[q] = setter[q]
    <3>1. CASE setter' = [setter EXCEPT ![s] =
                  [op |-> "Init", lang |-> lang,
                   at |-> IF lang \in Languages THEN "lookup" ELSE "failed"]]
      BY <2>1, <3>1
    <3>2. CASE setter' = [setter EXCEPT ![s].at = "failed"]
      BY <2>1, <3>2
    <3>. QED
      BY <1>1, <3>1, <3>2 DEF Time!CallInit
  <2>. QED
    BY <2>1, <2>2, <2>3
<1>2. ASSUME NEW s \in Setters, NEW lang \in Languages \union {Invalid},
             Time!CallSetLocale(s, lang)
      PROVE  TimeIInv'
  BY <1>2 DEF Time!CallSetLocale
<1>3. ASSUME NEW s \in Setters, Time!Lookup(s) PROVE TimeIInv'
  BY <1>3 DEF Time!Lookup
<1>4. ASSUME NEW s \in Setters, Time!Load(s) PROVE TimeIInv'
  <2>1. PICK to \in {"store", "write", "default", "failed"} :
           /\ setter' = [setter EXCEPT ![s].at = to]
           /\ to = "store" => setter[s].lang \in locales
           /\ to = "write" => setter[s].lang \in Languages
    BY <1>4 DEF Time!Load, Time!NotLoaded
  <2>2. /\ \A q \in Setters \ {s} : setter'[q] = setter[q]
        /\ setter'[s].at = to /\ setter'[s].lang = setter[s].lang
    BY <2>1
  <2>3. Time!TypeOK'
    BY <1>4, <2>1 DEF Time!Load
  <2>4. Loaded' /\ Time!TextInOneLanguage'
    BY <1>4, <2>1, <2>2 DEF Time!Load
  <2>. QED
    BY <2>3, <2>4
<1>5. ASSUME NEW s \in Setters, Time!UseDefault(s) PROVE TimeIInv'
  BY <1>5 DEF Time!UseDefault
<1>6. ASSUME NEW s \in Setters, Time!BeginWrite(s) PROVE TimeIInv'
  BY <1>6 DEF Time!BeginWrite
<1>7. ASSUME NEW s \in Setters, Time!EndWrite(s) PROVE TimeIInv'
  BY <1>7 DEF Time!EndWrite
<1>8. ASSUME NEW s \in Setters, Time!Store(s) PROVE TimeIInv'
  BY <1>8 DEF Time!Store
<1>9. ASSUME NEW f \in Formatters, Time!GetLayout(f) PROVE TimeIInv'
  BY <1>9 DEF Time!GetLayout
<1>10. ASSUME NEW f \in Formatters, Time!GetCurrent(f) PROVE TimeIInv'
  BY <1>10 DEF Time!GetCurrent
<1>11. ASSUME NEW f \in Formatters, Time!GetNames(f) PROVE TimeIInv'
  BY <1>11 DEF Time!GetNames
<1>12. CASE UNCHANGED Time!vars
  BY <1>12 DEF Time!vars
<1>. QED
  BY <1>1, <1>2, <1>3, <1>4, <1>5, <1>6, <1>7, <1>8, <1>9, <1>10, <1>11, <1>12
     DEF Time!Next

\* Nothing is rendered at first.
LEMMA InitTimeIInv == Time!Init => TimeIInv
<1>. SUFFICES ASSUME Time!Init PROVE TimeIInv
  OBVIOUS
<1>. USE LocaleAssumption DEF Time!Init, Time!LocaleAssumption
<1>1. Time!TypeOK
  BY DEF Time!TypeOK
<1>2. Loaded /\ Time!TextInOneLanguage
  BY DEF Loaded, Time!TextInOneLanguage
<1>. QED
  BY <1>1, <1>2 DEF TimeIInv
-----------------------------------------------------------------------------
(***************************************************************************)
(* Go and Timeout: how far a goroutine is tells how its function ended and *)
(* what is on the channels of its call.                                    *)
(***************************************************************************)
Outcomes ==
    /\ \A c \in Goroutines!Calls :
          /\ routine[c] \in {"none", "running"} <=> outcome[c] = "none"
          /\ routine[c] = "send" => c \in Timeouts /\ outcome[c] = "error"
          /\ routine[c] = "close" => c \in Timeouts /\ outcome[c] \in {"nil", "error"}
          /\ routine[c] = "filter" /\ c \in Timeouts => outcome[c] = "panic"
          /\ c \in logged => routine[c] = "ended"
    /\ \A c \in Timeouts :
          /\ routine[c] = "none" => caller[c] = "idle"
          /\ caller[c] # "returned" => result[c] = "none"
          /\ routine[c] \in {"none", "running", "send"} =>
                errChan[c] = 0 /\ result[c] # "error"
          /\ errChan[c] > 0 => outcome[c] = "error"
          /\ c \in done => routine[c] = "ended" /\ outcome[c] \in {"nil", "error"}

GoIInv == Goroutines!TypeOK /\ Outcomes /\ Goroutines!FailuresAccountedFor

\* A goroutine sends its one error and closes done once, in this order, and no
\* filter of Go takes a panic of Timeout.
LEMMA NextGoIInv ==
    GoIInv /\ [Goroutines!Next]_(Goroutines!vars) => GoIInv'
<1>. SUFFICES ASSUME GoIInv, [Goroutines!Next]_(Goroutines!vars) PROVE GoIInv'
  OBVIOUS
<1>. USE DEF GoIInv, Goroutines!TypeOK, Outcomes, Goroutines!FailuresAccountedFor,
    Goroutines!Calls, Goroutines!RoutineGoto, Goroutines!ErrChanSize
<1>1. ASSUME NEW c \in Goroutines!Calls, Goroutines!Start(c) PROVE GoIInv'
  BY <1>1 DEF Goroutines!Start
<1>2. ASSUME NEW c \in Goroutines!Calls, Goroutines!EndFn(c) PROVE GoIInv'
  BY <1>2 DEF Goroutines!EndFn, Goroutines!Ends
<1>3. ASSUME NEW c \in Goroutines!Calls, Goroutines!Send(c) PROVE GoIInv'
  BY <1>3 DEF Goroutines!Send
<1>4. ASSUME NEW c \in Goroutines!Calls, Goroutines!CloseDone(c) PROVE GoIInv'
  BY <1>4 DEF Goroutines!CloseDone
<1>5. ASSUME NEW c \in Goroutines!Calls, Goroutines!FilterTakes(c) PROVE GoIInv'
  BY <1>5, CallsAssumption DEF Goroutines!FilterTakes, Goroutines!CallsAssumption
<1>6. ASSUME NEW c \in Goroutines!Calls, Goroutines!Log(c) PROVE GoIInv'
  BY <1>6 DEF Goroutines!Log
<1>7. ASSUME NEW c \in Timeouts, Goroutines!SelectError(c) PROVE GoIInv'
  BY <1>7 DEF Goroutines!SelectError, Goroutines!SelectReturns
<1>8. ASSUME NEW c \in Timeouts, Goroutines!SelectDone(c) PROVE GoIInv'
  BY <1>8 DEF Goroutines!SelectDone, Goroutines!SelectReturns
<1>9. ASSUME NEW c \in Timeouts, Goroutines!SelectDeadline(c) PROVE GoIInv'
  BY <1>9 DEF Goroutines!SelectDeadline, Goroutines!SelectReturns
<1>10. CASE UNCHANGED Goroutines!vars
  BY <1>10 DEF Goroutines!vars
<1>. QED
  BY <1>1, <1>2, <1>3, <1>4, <1>5, <1>6, <1>7, <1>8, <1>9, <1>10
     DEF Goroutines!Next, Goroutines!RoutineRuns, Goroutines!CallerRuns

\* No function has run at first.
LEMMA InitGoIInv == Goroutines!Init => GoIInv
BY DEF Goroutines!Init, GoIInv, Goroutines!TypeOK, Outcomes,
   Goroutines!FailuresAccountedFor, Goroutines!Calls, Goroutines!ErrChanSize
-----------------------------------------------------------------------------
(***************************************************************************)
(* The utilities under one specification.  A step is one of the utility    *)
(* that was chosen, and leaves the variables of the others as they are.    *)
(***************************************************************************)
LEMMA StepsOfOne ==
    [Next]_vars => /\ [Ring!Next]_(Ring!vars) /\ [Pool!Next]_(Pool!vars)
                   /\ [Codec!Next]_(Codec!vars) /\ [Time!Next]_(Time!vars)
                   /\ [Goroutines!Next]_(Goroutines!vars)
<1>. USE DEF ringVars, filterVars, poolVars, codecVars, timeVars, goVars, Ring!vars,
             Pool!vars, Codec!vars, Time!vars, Goroutines!vars
<1>1. CASE RingMoves
  BY <1>1 DEF RingMoves
<1>2. CASE BitmapMoves
  BY <1>2 DEF BitmapMoves
<1>3. CASE FilterMoves
  BY <1>3 DEF FilterMoves
<1>4. CASE PoolMoves
  BY <1>4 DEF PoolMoves
<1>5. CASE CodecMoves
  BY <1>5 DEF CodecMoves
<1>6. CASE TimeMoves
  BY <1>6 DEF TimeMoves
<1>7. CASE GoroutinesMove
  BY <1>7 DEF GoroutinesMove, OnlyGoroutines
<1>8. CASE UNCHANGED vars
  BY <1>8 DEF vars
<1>. QED
  BY <1>1, <1>2, <1>3, <1>4, <1>5, <1>6, <1>7, <1>8 DEF Next

\* The bitmap of a filter is a bitmap.
LEMMA SameOperations ==
    /\ Filter!Bits!Bytes = Bits!Bytes
    /\ \A index : /\ Filter!Bits!Set(index) <=> Bits!Set(index)
                  /\ Filter!Bits!IsSet(index) <=> Bits!IsSet(index)
                  /\ Filter!Bits!MSet(index) <=> Bits!MSet(index)
<1>1. Filter!Bits!Bytes = Bits!Bytes
  BY DEF Filter!Bits!Bytes, Bits!Bytes
<1>2. ASSUME NEW index PROVE Filter!Bits!Set(index) <=> Bits!Set(index)
  BY Zenon
     DEF Filter!Bits!Set, Filter!Bits!Refused, Filter!Bits!IsValid, Filter!Bits!Raise,
     Filter!Bits!Called, Bits!Set, Bits!Refused, Bits!IsValid, Bits!Raise, Bits!Called
<1>3. ASSUME NEW index PROVE Filter!Bits!IsSet(index) <=> Bits!IsSet(index)
  BY Zenon DEF Filter!Bits!IsSet, Filter!Bits!Refused, Filter!Bits!IsValid,
     Filter!Bits!BitOf, Filter!Bits!Called, Bits!IsSet, Bits!Refused, Bits!IsValid,
     Bits!BitOf, Bits!Called
<1>4. ASSUME NEW index PROVE Filter!Bits!MSet(index) <=> Bits!MSet(index)
  BY Zenon
     DEF Filter!Bits!MSet, Filter!Bits!Refused, Filter!Bits!IsValid, Filter!Bits!Range,
     Filter!Bits!RaiseAll, Filter!Bits!Bytes, Filter!Bits!Called, Bits!MSet, Bits!Refused,
     Bits!IsValid, Bits!Range, Bits!RaiseAll, Bits!Bytes, Bits!Called
<1>. QED
  BY <1>1, <1>2, <1>3, <1>4

NoUser == user = [u \in Users |-> Filter!Idle] /\ added = {}

\* A bitmap on its own has no users.
BitsIInv ==
    /\ component \in Components
    /\ Filter!Bits!TypeOK
    /\ component = "bitmap" => NoUser
    /\ component # "bitmap" => FilterIInv

\* The result of a call of the bitmap is one of four.
LEMMA CallTypes ==
    ASSUME Bits!Next, call.op \in {"none", "set", "clear", "isSet"}
    PROVE  /\ call'.op \in {"none", "set", "clear", "isSet"}
           /\ call'.result \in {"ok", "panic", "true", "false"}
<1>. DEFINE Typed == /\ call'.op \in {"none", "set", "clear", "isSet"}
                     /\ call'.result \in {"ok", "panic", "true", "false"}
<1>1. ASSUME NEW op \in {"set", "clear", "isSet"}, NEW args,
             NEW r \in {"ok", "panic", "true", "false"}, Bits!Called(op, args, r)
      PROVE  Typed
  <2>1. call'.op = op /\ call'.result = r
    BY <1>1 DEF Bits!Called
  <2>. QED
    BY <2>1
<1>. HIDE DEF Typed
<1>2. ASSUME NEW index, Bits!Set(index) \/ Bits!Clear(index) PROVE Typed
  <2>1. \/ Bits!Called("set", {index}, "panic") \/ Bits!Called("set", {index}, "ok")
        \/ Bits!Called("clear", {index}, "panic") \/ Bits!Called("clear", {index}, "ok")
    BY <1>2 DEF Bits!Set, Bits!Clear, Bits!Refused
  <2>. QED
    BY <1>1, <2>1
<1>3. ASSUME NEW index, Bits!IsSet(index) PROVE Typed
  <2>1. \/ Bits!Called("isSet", {index}, "panic")
        \/ Bits!Called("isSet", {index}, IF Bits!BitOf(index, bits) THEN "true" ELSE "false")
    BY <1>3, Zenon DEF Bits!IsSet, Bits!Refused
  <2>2. Bits!Called("isSet", {index}, "panic") => Typed
    BY <1>1
  <2>3. CASE Bits!BitOf(index, bits)
    BY <1>1, <2>1, <2>2, <2>3
  <2>4. CASE ~ Bits!BitOf(index, bits)
    BY <1>1, <2>1, <2>2, <2>4
  <2>. QED
    BY <2>3, <2>4
<1>4. ASSUME NEW indexes, Bits!MSet(indexes) PROVE Typed
  <2>1. \/ Bits!Called("set", Bits!Range(indexes), "panic")
        \/ Bits!Called("set", Bits!Range(indexes), "ok")
    BY <1>4, Zenon DEF Bits!MSet, Bits!Refused
  <2>. QED
    BY <1>1, <2>1
<1>. QED
  BY <1>2, <1>3, <1>4 DEF Bits!Next, Typed

\* Every operation of the bitmap is a step of the set.
LEMMA OperationRefines ==
    ASSUME BytesIInv
    PROVE  /\ \A index \in Int : Bits!Set(index) \/ Bits!Clear(index) \/ Bits!IsSet(index)
                                    => BytesIInv' /\ Bits!Abstract!Next
           /\ \A indexes : (\A k \in DOMAIN indexes : indexes[k] \in Int) /\ Bits!MSet(indexes)
                                    => BytesIInv' /\ Bits!Abstract!Next
<1>1. ASSUME NEW index \in Int, Bits!Set(index) \/ Bits!Clear(index) \/ Bits!IsSet(index)
      PROVE  BytesIInv' /\ Bits!Abstract!Next
  BY <1>1, BitmapAssumption, SetRefines, ClearRefines, IsSetRefines
<1>2. ASSUME NEW indexes, \A k \in DOMAIN indexes : indexes[k] \in Int, Bits!MSet(indexes)
      PROVE  BytesIInv' /\ Bits!Abstract!Next
  BY <1>2, BitmapAssumption, MSetRefines
<1>. QED
  BY <1>1, <1>2

\* An entry of a sequence is a member of its set.
LEMMA MemberOf ==
    ASSUME NEW S, NEW q \in Seq(S), NEW k \in 1..Len(q)
    PROVE  q[k] \in S
OBVIOUS

\* What a call of the filter gives the bitmap.
LEMMA FilterStepRefines ==
    ASSUME FilterIInv, Filter!Next
    PROVE  [Bits!Abstract!Next]_<<Bits!set, call>>
<1>1. BytesIInv /\ HashFuncs \in Nat \ {0} /\ user \in [Users -> CallType] /\ Calls
  BY BloomAssumption, SameOperations
     DEF FilterIInv, Filter!TypeOK, Filter!Bits!TypeOK, BytesIInv, CallType,
         Filter!BloomAssumption
<1>2. ASSUME NEW d \in Elements, NEW f \in 1..HashFuncs PROVE Filter!Index(d, f) \in Int
  <2>1. Filter!Index(d, f) \in 0..(size - 1)
    BY BloomAssumption, IndexInRange
  <2>. QED
    BY <2>1, BloomAssumption DEF Filter!BloomAssumption
<1>3. ASSUME NEW u \in Users, Filter!Start(u) PROVE UNCHANGED <<Bits!set, call>>
  BY <1>3 DEF Filter!Start, Bits!set, Bits!BitOf
<1>4. ASSUME NEW u \in Users, Filter!Add(u) \/ Filter!Contains(u) PROVE Bits!Abstract!Next
  <2>1. user[u] \in CallType /\ CallOk(user[u], added)
        /\ user[u].at = "running" /\ user[u].op \in {"Add", "Contains"}
    BY <1>1, <1>4 DEF Calls, Filter!Add, Filter!Contains, Filter!Running
  <2>2. user[u].fn \in 1..HashFuncs /\ user[u].data[1] \in Elements
    <3>1. user[u].fn \in 1..HashFuncs /\ Len(user[u].data) = 1
      BY <2>1 DEF CallOk
    <3>2. user[u].data \in Seq(Elements)
      BY <2>1 DEF CallType
    <3>. QED
      BY <3>1, <3>2
  <2>. DEFINE index == Filter!Index(user[u].data[1], user[u].fn)
  <2>3. index \in Int
    BY <1>2, <2>2
  <2>4. Filter!Bits!Set(index) \/ Filter!Bits!IsSet(index)
    BY <1>4 DEF Filter!Add, Filter!Contains
  <2>. HIDE DEF index
  <2>5. Bits!Set(index) \/ Bits!IsSet(index)
    BY <2>4, SameOperations
  <2>. QED
    BY <1>1, <2>3, <2>5, OperationRefines
<1>5. ASSUME NEW u \in Users, Filter!MAdd(u) PROVE Bits!Abstract!Next
  <2>1. user[u] \in CallType /\ CallOk(user[u], added) /\ user[u].op = "MAdd"
    BY <1>1, <1>5 DEF Calls, Filter!MAdd, Filter!Running
  <2>. DEFINE ds == user[u].data
  <2>2. ds \in Seq(Elements) /\ Len(ds) = 2
    BY <2>1 DEF CallType, CallOk
  <2>3. Bits!MSet(Filter!IndexesOf(ds))
    BY <1>5, SameOperations DEF Filter!MAdd
  <2>. HIDE DEF ds
  <2>4. ASSUME NEW i \in DOMAIN Filter!IndexesOf(ds) PROVE Filter!IndexesOf(ds)[i] \in Int
    <3>1. PICK j \in 1..2, f \in 1..HashFuncs :
             Filter!IndexesOf(ds)[i] = Filter!Index(ds[j], f)
      BY <1>1, <2>2, <2>4, IndexesOfTwo
    <3>2. ds[j] \in Elements
      BY <2>2, MemberOf
    <3>. QED
      BY <1>2, <3>1, <3>2
  <2>. QED
    BY <1>1, <2>3, <2>4, OperationRefines
<1>. QED
  BY <1>3, <1>4, <1>5 DEF Filter!Next

\* A step of the bitmap is one of the set; the steps of others change no bit of it.
LEMMA NextBitsIInv ==
    BitsIInv /\ [Next]_vars => BitsIInv' /\ [Bits!Abstract!Next]_<<Bits!set, call>>
<1>. SUFFICES ASSUME BitsIInv, [Next]_vars
              PROVE  BitsIInv' /\ [Bits!Abstract!Next]_<<Bits!set, call>>
  OBVIOUS
<1>1. BytesIInv
  BY SameOperations DEF BitsIInv, Filter!Bits!TypeOK, BytesIInv
<1>2. component' = component
  BY DEF Next, RingMoves, BitmapMoves, FilterMoves, PoolMoves, CodecMoves, TimeMoves,
         GoroutinesMove, OnlyGoroutines, vars
<1>3. CASE BitmapMoves
  <2>1. component = "bitmap" /\ Bits!Next /\ UNCHANGED <<user, added>>
    BY <1>3 DEF BitmapMoves
  <2>2. BytesIInv' /\ Bits!Abstract!Next
    <3>1. Indexes \subseteq Int
      BY BitmapAssumption DEF Bits!BitmapAssumption
    <3>2. ASSUME NEW index \in Indexes,
                 Bits!Set(index) \/ Bits!Clear(index) \/ Bits!IsSet(index)
          PROVE  BytesIInv' /\ Bits!Abstract!Next
      BY <1>1, <3>1, <3>2, OperationRefines
    <3>3. ASSUME NEW i \in Indexes, NEW j \in Indexes, Bits!MSet(<<i, j>>)
          PROVE  BytesIInv' /\ Bits!Abstract!Next
      <4>1. \A k \in DOMAIN <<i, j>> : <<i, j>>[k] \in Int
        BY <3>1
      <4>. QED
        BY <1>1, <3>3, <4>1, OperationRefines
    <3>. QED
      BY <2>1, <3>2, <3>3 DEF Bits!Next
  <2>3. Filter!Bits!TypeOK'
    BY <2>1, <2>2, CallTypes, SameOperations DEF BitsIInv, Filter!Bits!TypeOK, BytesIInv
  <2>4. NoUser'
    BY <2>1 DEF BitsIInv, NoUser
  <2>. QED
    BY <1>2, <2>1, <2>2, <2>3, <2>4 DEF BitsIInv
<1>4. CASE FilterMoves
  <2>1. component = "filter" /\ Filter!Next /\ FilterIInv
    BY <1>4 DEF FilterMoves, BitsIInv
  <2>2. FilterIInv'
    BY <2>1, BloomAssumption, FilterNextIInv
  <2>3. [Bits!Abstract!Next]_<<Bits!set, call>>
    BY <2>1, FilterStepRefines
  <2>. QED
    BY <1>2, <2>1, <2>2, <2>3 DEF BitsIInv, FilterIInv, Filter!TypeOK
<1>5. ASSUME UNCHANGED filterVars
      PROVE  BitsIInv' /\ [Bits!Abstract!Next]_<<Bits!set, call>>
  <2>1. UNCHANGED <<bits, call, user, added>>
    BY <1>5 DEF filterVars
  <2>2. UNCHANGED <<Bits!set, call>>
    BY <2>1 DEF Bits!set, Bits!BitOf
  <2>3. Filter!Bits!TypeOK' /\ (component = "bitmap" => NoUser')
    BY <2>1 DEF BitsIInv, Filter!Bits!TypeOK, NoUser
  <2>4. component # "bitmap" => FilterIInv'
    <3>1. UNCHANGED Filter!vars
      BY <2>1 DEF Filter!vars
    <3>. QED
      BY <3>1, BloomAssumption, FilterNextIInv DEF BitsIInv
  <2>. QED
    BY <1>2, <2>2, <2>3, <2>4 DEF BitsIInv
<1>6. ASSUME ~ BitmapMoves, ~ FilterMoves PROVE UNCHANGED filterVars
  BY <1>6 DEF Next, RingMoves, PoolMoves, CodecMoves, TimeMoves, GoroutinesMove,
         OnlyGoroutines, vars
<1>. QED
  BY <1>3, <1>4, <1>5, <1>6

\* The zero bytes are the empty set.
LEMMA InitBitsIInv == Init => BitsIInv /\ Bits!Abstract!Init
<1>. SUFFICES ASSUME Init PROVE BitsIInv /\ Bits!Abstract!Init
  OBVIOUS
<1>1. component \in Components /\ Filter!Init /\ Filter!Bits!Init
  BY DEF Init, Filter!Init
<1>2. FilterIInv
  BY <1>1, InitFilterIInv
<1>3. NoUser
  BY <1>1 DEF Filter!Init, NoUser
<1>4. Bits!Abstract!Init
  <2>1. \A index \in 0..(size - 1) : ~ Bits!BitOf(index, bits)
    BY <1>1, BitmapAssumption, BitPlace, SameOperations DEF Filter!Bits!Init, Bits!BitOf
  <2>. QED
    BY <1>1, <2>1 DEF Filter!Bits!Init, Bits!Abstract!Init, Bits!set
<1>. QED
  BY <1>1, <1>2, <1>3, <1>4 DEF BitsIInv, FilterIInv, Filter!TypeOK

\* The bitmap keeps its invariant.
LEMMA BitsInvariance == Spec => []BitsIInv
<1>1. BitsIInv /\ [Next]_vars => BitsIInv'
  BY NextBitsIInv
<1>. QED
  BY <1>1, InitBitsIInv, PTL DEF Spec
-----------------------------------------------------------------------------
(***************************************************************************)
(* The properties, of every behaviour of the specification.                *)
(***************************************************************************)
\* GetNode of either ring returns a node closest ahead of the key, for every key
\* and every history of AddNode and RemoveNode.
THEOREM OwnerIsAlwaysClosest == Spec => []OwnerIsClosest
<1>1. Spec => Ring!Spec
  <2>1. Init => Ring!Init
    BY DEF Init
  <2>2. [Next]_vars => [Ring!Next]_(Ring!vars)
    BY StepsOfOne
  <2>. QED
    BY <2>1, <2>2, PTL DEF Spec, Ring!Spec
<1>. QED
  BY <1>1, OwnerClosest, PTL DEF OwnerIsClosest

\* AddNode and RemoveNode move a key only to a node that comes or from one that
\* goes, ties apart.
THEOREM OnlyItsKeysEverMove == Spec => OnlyItsKeysMove
<1>1. Spec => Ring!Spec
  <2>1. Init => Ring!Init
    BY DEF Init
  <2>2. [Next]_vars => [Ring!Next]_(Ring!vars)
    BY StepsOfOne
  <2>. QED
    BY <2>1, <2>2, PTL DEF Spec, Ring!Spec
<1>. QED
  BY <1>1, KeysMove, PTL DEF OnlyItsKeysMove

\* The bytes of a bitmap of any size, alone or under a filter, hold exactly the
\* numbers that were set and not cleared, and operations that panic change none.
THEOREM BitmapIsASet == Spec => ImplementsBitSet
<1>1. BitsIInv /\ [Next]_vars => [Bits!Abstract!Next]_<<Bits!set, call>>
  BY NextBitsIInv
<1>2. Init => Bits!Abstract!Init
  BY InitBitsIInv
<1>. QED
  BY <1>1, <1>2, BitsInvariance, PTL
     DEF Spec, ImplementsBitSet, Bits!ImplementsBitSet, Bits!Abstract!Spec

\* Contains misses nothing that was added before it was called, and no hash makes
\* the bitmap panic, whatever the size, the words and the goroutines.
THEOREM FindsWhatWasAdded == Spec => []NoFalseNegative
<1>1. BitsIInv => NoFalseNegative
  <2>1. ASSUME NoUser PROVE Filter!NoFalseNegative
    BY <2>1 DEF NoUser, Filter!NoFalseNegative, Filter!Idle
  <2>. QED
    BY <2>1 DEF BitsIInv, FilterIInv, NoFalseNegative
<1>. QED
  BY <1>1, BitsInvariance, PTL

\* The pool's invariant, in a specification where only one utility moves.
LEMMA PoolInvariance == Spec => []PoolIInv
<1>1. Init => PoolIInv
  BY InitPoolIInv DEF Init
<1>2. PoolIInv /\ [Next]_vars => PoolIInv'
  BY NextPoolIInv, StepsOfOne
<1>. QED
  BY <1>1, <1>2, PTL DEF Spec

\* Get hands out an object as Reset left it, that no other client has and no
\* layer, whatever the sizes and the clients do between their steps.
THEOREM ObjectsAreAlwaysFresh == Spec => []ObjectsAreFresh
<1>1. PoolIInv => ObjectsAreFresh
  BY PoolObjectsAreFresh DEF PoolIInv, ObjectsAreFresh
<1>. QED
  BY <1>1, PoolInvariance, PTL

\* GetStats never counts more puts than hits, although it loads its counters one
\* after the other while clients count.
THEOREM PutsAlwaysWereHits == Spec => []PutsWereHits
<1>1. PoolIInv => PutsWereHits
  BY PoolPutsWereHits DEF PutsWereHits
<1>. QED
  BY <1>1, PoolInvariance, PTL

\* The compression keeps its invariant.
LEMMA CodecInvariance == Spec => []CodecIInv
<1>1. Init => CodecIInv
  BY InitCodecIInv DEF Init
<1>2. CodecIInv /\ [Next]_vars => CodecIInv'
  BY NextCodecIInv, StepsOfOne
<1>. QED
  BY <1>1, <1>2, PTL DEF Spec

\* What Compress and Decompress returned is the call's own whole output, whoever
\* gets the buffer next.
THEOREM ResultsAlwaysStay == Spec => []ResultsStay
<1>1. CodecIInv => ResultsStay
  BY CodecResultsStay
<1>. QED
  BY <1>1, CodecInvariance, PTL

\* The formatting of times keeps its invariant.
LEMMA TimeInvariance == Spec => []TimeIInv
<1>1. Init => TimeIInv
  BY InitTimeIInv DEF Init
<1>2. TimeIInv /\ [Next]_vars => TimeIInv'
  BY NextTimeIInv, StepsOfOne
<1>. QED
  BY <1>1, <1>2, PTL DEF Spec

\* Whatever locale becomes current while a date is formatted, its text is in one
\* language.
THEOREM TextsAreInOneLanguage == Spec => []TextInOneLanguage
<1>1. TimeIInv => TextInOneLanguage
  BY DEF TimeIInv, TextInOneLanguage
<1>. QED
  BY <1>1, TimeInvariance, PTL

\* The routines keep their invariant.
LEMMA GoInvariance == Spec => []GoIInv
<1>1. Init => GoIInv
  BY InitGoIInv DEF Init
<1>2. GoIInv /\ [Next]_vars => GoIInv'
  BY NextGoIInv, StepsOfOne
<1>. QED
  BY <1>1, <1>2, PTL DEF Spec

\* What becomes of the error and of the panic of a function that Timeout runs,
\* for any number of calls of Go and Timeout.
THEOREM FailuresAlwaysAccountedFor == Spec => []FailuresAccountedFor
<1>1. GoIInv => FailuresAccountedFor
  BY DEF GoIInv, FailuresAccountedFor
<1>. QED
  BY <1>1, GoInvariance, PTL

\* The variables of all utilities keep their types.
THEOREM TypeCorrect == Spec => []TypeOK
<1>1. RingIInv /\ BitsIInv /\ PoolIInv /\ CodecIInv /\ TimeIInv /\ GoIInv => TypeOK
  <2>. SUFFICES ASSUME RingIInv, BitsIInv, PoolIInv, CodecIInv, TimeIInv, GoIInv
              PROVE TypeOK
    OBVIOUS
  <2>1. component \in Components /\ Ring!TypeOK /\ Pool!TypeOK /\ Time!TypeOK
        /\ Goroutines!TypeOK
    BY DEF RingIInv, BitsIInv, PoolIInv, FreshIInv, TimeIInv, GoIInv
  <2>2. Filter!TypeOK
    <3>1. CASE component = "bitmap"
      <4>1. NoUser /\ Filter!Bits!TypeOK /\ HashFuncs \in Nat
        BY <3>1, BloomAssumption DEF BitsIInv, Filter!BloomAssumption
      <4>2. Filter!Idle \in [op : {"none", "Add", "MAdd", "Contains"}, data : Seq(Elements),
                            fn : 0..(HashFuncs + 1), known : BOOLEAN,
                            at : {"idle", "running", "returned", "absent", "panicked"}]
        BY <4>1 DEF Filter!Idle
      <4>. QED
        BY <4>1, <4>2 DEF NoUser, Filter!TypeOK
    <3>2. CASE component # "bitmap"
      BY <3>2 DEF BitsIInv, FilterIInv
    <3>. QED
      BY <3>1, <3>2
  <2>3. Codec!TypeOK
    BY CodecTypesOK
  <2>. QED
    BY <2>1, <2>2, <2>3 DEF TypeOK
<1>2. Spec => []RingIInv
  <2>1. Init => RingIInv
    BY InitRingIInv DEF Init
  <2>2. RingIInv /\ [Next]_vars => RingIInv'
    BY RingNextIInv, StepsOfOne, RingAssumption
  <2>. QED
    BY <2>1, <2>2, PTL DEF Spec
<1>. QED
  BY <1>1, <1>2, BitsInvariance, PoolInvariance, CodecInvariance, TimeInvariance,
     GoInvariance, PTL
=============================================================================
