------------------------------ MODULE MultiPool ------------------------------
(***************************************************************************)
(* multipool.MultiLayerPool: a sync.Pool per layer of sizes, and counters. *)
(* Clients get an object, use it, which may change its size, and put it    *)
(* back; the objects they put are those they got.  A reader takes the      *)
(* statistics, one counter after the other.                                *)
(***************************************************************************)
EXTENDS Integers, Sequences, FiniteSetsExt

CONSTANTS
    Clients,
    Objects,    \* identities of objects; a dropped one's may be used again
    Sizes,
    thresholds, \* the sizes at which the layers end, in ascending order
    MaxGets     \* bound on the objects handed out, for TLC

NoObject == "no object"

PoolAssumption ==
    /\ Sizes \subseteq Nat /\ Sizes # {} /\ thresholds \in Seq(Nat)
    /\ MaxGets \in Nat /\ NoObject \notin Objects

Layers == 1..(Len(thresholds) + 1)

VARIABLES
    pools,      \* the objects in each pool
    hits, misses, puts,
    object,     \* the size of each object, and whether it is as Reset left it
    client,     \* where each client is, with which object, for which layer
    stats       \* what GetStats has loaded, and where it is

vars == <<pools, hits, misses, puts, object, client, stats>>

getPoolIndex(size) ==
    Min({i \in DOMAIN thresholds : size <= thresholds[i]} \union {Len(thresholds) + 1})

Free == [at |-> "free", obj |-> NoObject, layer |-> 1]

Init ==
    /\ pools = [l \in Layers |-> {}]
    /\ hits = [l \in Layers |-> 0] /\ misses = [l \in Layers |-> 0] /\ puts = 0
    /\ object \in [Objects -> [size : {Min(Sizes)}, clean : {TRUE}]]
    /\ client = [c \in Clients |-> Free]
    /\ stats = [puts |-> 0, hits |-> <<>>, misses |-> <<>>]

InUse == (UNION {pools[l] : l \in Layers}) \union {client[c].obj : c \in Clients}

SumOf(f) == FoldSet(LAMBDA i, s : f[i] + s, 0, DOMAIN f)

ClientGoto(c, from, to) ==
    /\ client[c].at = from
    /\ client' = [client EXCEPT ![c].at = to]

-----------------------------------------------------------------------------
(* Faults. *)

\* The object is in the pool before it is reset: ObjectsAreFresh.
ResetAfterPut(c) ==
    /\ ClientGoto(c, "putting", "reset")
    /\ pools' = [pools EXCEPT ![getPoolIndex(object[client[c].obj].size)] =
                    @ \union {client[c].obj}]
    /\ UNCHANGED <<hits, misses, puts, object, stats>>

\* TotalPuts is loaded after the counters of the layers: PutsWereHits.
LoadPutsLast ==
    /\ Len(stats.misses) = Len(thresholds) + 1
    /\ stats' = [stats EXCEPT !.puts = puts]
    /\ UNCHANGED <<pools, hits, misses, puts, object, client>>

-----------------------------------------------------------------------------
\* Get asks the pool of the size's layer, which hands out any object it has.
TakePooled(c) ==
    /\ SumOf(hits) < MaxGets
    /\ \E s \in Sizes : \E o \in pools[getPoolIndex(s)] :
          /\ client[c].at = "free"
          /\ client' = [client EXCEPT ![c] = [at |-> "taken", obj |-> o,
                                              layer |-> getPoolIndex(s)]]
          /\ pools' = [pools EXCEPT ![getPoolIndex(s)] = @ \ {o}]
    /\ UNCHANGED <<hits, misses, puts, object, stats>>

\* The pool calls New, whether or not other processors have objects for it.
TakeNew(c) ==
    /\ SumOf(hits) < MaxGets
    /\ \E s \in Sizes, o \in Objects \ InUse :
          /\ client[c].at = "free"
          /\ client' = [client EXCEPT ![c] = [at |-> "taken", obj |-> o,
                                              layer |-> getPoolIndex(s)]]
          /\ misses' = [misses EXCEPT ![getPoolIndex(s)] = @ + 1]
          /\ object' = [object EXCEPT ![o] = [size |-> Min(Sizes), clean |-> TRUE]]
    /\ UNCHANGED <<pools, hits, puts, stats>>

\* hits counts the objects of New too.
CountHit(c) ==
    /\ ClientGoto(c, "taken", "using")
    /\ hits' = [hits EXCEPT ![client[c].layer] = @ + 1]
    /\ UNCHANGED <<pools, misses, puts, object, stats>>

\* The client writes to its object.
Use(c) ==
    /\ client[c].at = "using"
    /\ \E s \in Sizes :
          object' = [object EXCEPT ![client[c].obj] = [size |-> s, clean |-> FALSE]]
    /\ UNCHANGED <<pools, hits, misses, puts, client, stats>>

CountPut(c) ==
    /\ ClientGoto(c, "using", "putting")
    /\ puts' = puts + 1
    /\ UNCHANGED <<pools, hits, misses, object, stats>>

\* The size is taken, then the object is reset, which may leave it its size.
Reset(c) ==
    /\ client[c].at = "putting"
    /\ client' = [client EXCEPT ![c].at = "reset",
                     ![c].layer = getPoolIndex(object[client[c].obj].size)]
    /\ object' = [object EXCEPT ![client[c].obj].clean = TRUE]
    /\ UNCHANGED <<pools, hits, misses, puts, stats>>

PutInPool(c) ==
    /\ client[c].at = "reset"
    /\ client' = [client EXCEPT ![c] = Free]
    /\ pools' = [pools EXCEPT ![client[c].layer] = @ \union {client[c].obj}]
    /\ UNCHANGED <<hits, misses, puts, object, stats>>

\* The garbage collector empties pools.
Collect ==
    /\ \E l \in Layers : pools[l] # {} /\ pools' = [pools EXCEPT ![l] = {}]
    /\ UNCHANGED <<hits, misses, puts, object, client, stats>>

\* GetStats: first the puts, then layer by layer the hits and the misses.
LoadPuts ==
    /\ stats' = [puts |-> puts, hits |-> <<>>, misses |-> <<>>]
    /\ UNCHANGED <<pools, hits, misses, puts, object, client>>

LoadHits ==
    /\ Len(stats.hits) = Len(stats.misses) /\ Len(stats.hits) < Len(thresholds) + 1
    /\ stats' = [stats EXCEPT !.hits = Append(@, hits[Len(@) + 1])]
    /\ UNCHANGED <<pools, hits, misses, puts, object, client>>

LoadMisses ==
    /\ Len(stats.misses) < Len(stats.hits)
    /\ stats' = [stats EXCEPT !.misses = Append(@, misses[Len(@) + 1])]
    /\ UNCHANGED <<pools, hits, misses, puts, object, client>>

Next ==
    \/ \E c \in Clients :
          \/ TakePooled(c) \/ TakeNew(c) \/ CountHit(c) \/ Use(c)
          \/ CountPut(c) \/ Reset(c) \/ PutInPool(c)
    \/ Collect
    \/ LoadPuts \/ LoadHits \/ LoadMisses

Spec == Init /\ [][Next]_vars
-----------------------------------------------------------------------------
\* The types of the variables.
TypeOK ==
    /\ pools \in [Layers -> SUBSET Objects]
    /\ hits \in [Layers -> Nat] /\ misses \in [Layers -> Nat] /\ puts \in Nat
    /\ object \in [Objects -> [size : Sizes, clean : BOOLEAN]]
    /\ client \in [Clients -> [at : {"free", "taken", "using", "putting", "reset"},
                               obj : Objects \union {NoObject}, layer : Layers]]
    /\ stats \in [puts : Nat, hits : Seq(Nat), misses : Seq(Nat)]

\* Get hands out objects that are as Reset left them and that nobody else has:
\* no other client, no pool.
ObjectsAreFresh ==
    \A c \in Clients :
        /\ client[c].at = "taken" => object[client[c].obj].clean
        /\ client[c].at # "free" =>
              /\ \A d \in Clients \ {c} : client[d].obj # client[c].obj
              /\ \A l \in Layers : client[c].obj \notin pools[l]

\* In the statistics the objects put back are never more than those handed out,
\* whatever is got and put while the counters are read: TotalPuts is read before
\* the hits, and an object is put only after its hit was counted.
PutsWereHits ==
    Len(stats.hits) = Len(thresholds) + 1 => stats.puts <= SumOf(stats.hits)
=============================================================================
