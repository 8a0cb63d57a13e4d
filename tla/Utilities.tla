------------------------------ MODULE Utilities ------------------------------
(***************************************************************************)
(* The utilities that do not call each other, under one specification: one *)
(* of them is chosen at the start, and only that one moves.  The bitmap is *)
(* used on its own or by a Bloom filter.                                   *)
(***************************************************************************)
EXTENDS Integers, Sequences

CONSTANTS
    Nodes, Spots, Hash, Size, Low, MaxPoints,                   \* HashRing
    size, Indexes,                                              \* Bitmap
    Width, Shift, Elements, HashFuncs, Product, Users,          \* Bloom
    Clients, Objects, Sizes, thresholdsOfPool, MaxGets,         \* MultiPool
    Callers, Buffers, Lengths, DefaultThresholds, Settings,     \* Compress
    Setters, Formatters, Languages, English, Invalid,           \* Locale
    Gos, Timeouts                                               \* Routines

VARIABLES
    component,
    kind, nodes,
    bits, call, user, added,
    pools, hits, misses, puts, object, client, stats,
    thresholds, once, bufferPool, content, job,
    locales, current, location, setter, formatter, fatal,
    routine, outcome, logged, errChan, done, caller, result

Ring == INSTANCE HashRing
Bits == INSTANCE Bitmap
Filter == INSTANCE Bloom
Pool == INSTANCE MultiPool WITH thresholds <- thresholdsOfPool
Codec == INSTANCE Compress
Time == INSTANCE Locale
Goroutines == INSTANCE Routines

ASSUME RingAssumption == Ring!RingAssumption
ASSUME BitmapAssumption == Bits!BitmapAssumption
ASSUME BloomAssumption == Filter!BloomAssumption
ASSUME PoolAssumption == Pool!PoolAssumption
ASSUME CodecAssumption == Codec!CodecAssumption
ASSUME LocaleAssumption == Time!LocaleAssumption
ASSUME CallsAssumption == Goroutines!CallsAssumption

ringVars == <<kind, nodes>>
filterVars == <<bits, call, user, added>>
poolVars == <<pools, hits, misses, puts, object, client, stats>>
codecVars == <<thresholds, once, bufferPool, content, job>>
timeVars == <<locales, current, location, setter, formatter, fatal>>
goVars == <<routine, outcome, logged, errChan, done, caller, result>>

vars == <<component, ringVars, filterVars, poolVars, codecVars, timeVars, goVars>>

Components == {"ring", "bitmap", "filter", "pool", "codec", "time", "goroutines"}

Init ==
    /\ component \in Components
    /\ Ring!Init /\ (component # "ring" => kind = "string")
    /\ Filter!Init
    /\ Pool!Init
    /\ Codec!Init
    /\ Time!Init
    /\ Goroutines!Init

RingMoves ==
    /\ component = "ring" /\ Ring!Next
    /\ UNCHANGED <<component, filterVars, poolVars, codecVars, timeVars, goVars>>

BitmapMoves ==
    /\ component = "bitmap" /\ Bits!Next
    /\ UNCHANGED <<component, ringVars, user, added, poolVars, codecVars, timeVars, goVars>>

FilterMoves ==
    /\ component = "filter" /\ Filter!Next
    /\ UNCHANGED <<component, ringVars, poolVars, codecVars, timeVars, goVars>>

PoolMoves ==
    /\ component = "pool" /\ Pool!Next
    /\ UNCHANGED <<component, ringVars, filterVars, codecVars, timeVars, goVars>>

CodecMoves ==
    /\ component = "codec" /\ Codec!Next
    /\ UNCHANGED <<component, ringVars, filterVars, poolVars, timeVars, goVars>>

TimeMoves ==
    /\ component = "time" /\ Time!Next
    /\ UNCHANGED <<component, ringVars, filterVars, poolVars, codecVars, goVars>>

OnlyGoroutines ==
    /\ component = "goroutines"
    /\ UNCHANGED <<component, ringVars, filterVars, poolVars, codecVars, timeVars>>

GoroutinesMove == OnlyGoroutines /\ Goroutines!Next

Next ==
    \/ RingMoves \/ BitmapMoves \/ FilterMoves \/ PoolMoves
    \/ CodecMoves \/ TimeMoves \/ GoroutinesMove

Spec == Init /\ [][Next]_vars

\* The fairness of Routines; the other utilities promise nothing in time.
FairSpec ==
    /\ Spec
    /\ \A c \in Gos \union Timeouts : WF_vars(OnlyGoroutines /\ Goroutines!RoutineRuns(c))
    /\ \A c \in Timeouts : WF_vars(OnlyGoroutines /\ Goroutines!CallerRuns(c))
-----------------------------------------------------------------------------
\* The types of the variables of all utilities.
TypeOK ==
    /\ component \in Components
    /\ Ring!TypeOK /\ Filter!TypeOK /\ Pool!TypeOK /\ Codec!TypeOK /\ Time!TypeOK
    /\ Goroutines!TypeOK

\* GetNode of either ring returns a node closest ahead of the key.
OwnerIsClosest == Ring!OwnerIsClosest

\* AddNode and RemoveNode move only keys of the node they are about.
OnlyItsKeysMove == Ring!OnlyItsKeysMove

\* The bytes of a bitmap hold what a set would, alone and under a filter.
ImplementsBitSet == Bits!ImplementsBitSet

\* Contains of a Bloom filter finds what was added before; nothing panics.
NoFalseNegative == Filter!NoFalseNegative

\* Get of a MultiLayerPool hands out objects reset and held by nobody else.
ObjectsAreFresh == Pool!ObjectsAreFresh

\* GetStats counts no more puts than hits.
PutsWereHits == Pool!PutsWereHits

\* What Compress and Decompress returned stays as it is.
ResultsStay == Codec!ResultsStay

\* FormatDate mixes no two languages.
TextInOneLanguage == Time!TextInOneLanguage

\* An error of Timeout's function is returned or left in the channel, a panic
\* of it is logged.
FailuresAccountedFor == Goroutines!FailuresAccountedFor

\* No goroutine of xsync's Go and Timeout is stuck, nor is the caller.
NobodyIsStuck == Goroutines!NobodyIsStuck
=============================================================================
