------------------------------- MODULE Future -------------------------------
(***************************************************************************)
(* xsync.Future: goroutines complete, cancel, chain (Then) and wait for a  *)
(* set of futures.  Complete writes the fields one at a time under the     *)
(* mutex and closes the channel last.  A value may be wider than a machine *)
(* word, so it is stored in two steps: Cancel and Then read it with no     *)
(* lock and may see half of a store.                                       *)
(***************************************************************************)
EXTENDS Naturals

CONSTANTS
    Futures,
    Parent,         \* [future returned by Then -> the future it waits for]
    Completers,     \* goroutines that call Complete, on any future
    Cancellers,     \* goroutines that call Cancel, on any future
    Getters,        \* goroutines that call Get or GetWithContext
    Words,          \* the words values are made of
    Zero,           \* the word of the zero value
    Errors          \* errors other than nil that Complete and fn are given

Chained == DOMAIN Parent

ASSUME ParentAssumption == Parent \in [Chained -> Futures]
                           /\ Chained \subseteq Futures
ASSUME WordsAssumption == Zero \in Words
ASSUME ErrorsAssumption == {"nil", "cancelled", "ctx", "none"} \intersect Errors = {}

\* The goroutines that end up in Complete; that of Then is named by its future.
Writers == Completers \union Cancellers \union Chained

ASSUME WritersAssumption ==
    /\ Completers \intersect (Cancellers \union Chained) = {}
    /\ Cancellers \intersect Chained = {}

VARIABLES
    value, err, complete,   \* the fields of each future
    done,                   \* times its channel was closed
    mu,                     \* {} or the writer that holds its mutex
    pc,                     \* where each writer is
    target,                 \* the future each writer completes
    arg,                    \* the value and error it completes it with
    getter,                 \* where each getter is
    source,                 \* the future each getter waits for
    got                     \* the value and error it has returned

future == <<value, err, complete, done, mu>>
vars == <<future, pc, target, arg, getter, source, got>>

Values == [hi : Words, lo : Words]
Of(w) == [hi |-> w, lo |-> w]
ErrorsOrNil == Errors \union {"nil", "cancelled"}
Results == [value : Values, err : ErrorsOrNil]
Result(v, e) == [value |-> v, err |-> e]

Empty == Result(Of(Zero), "none")
GaveUp == Result(Of(Zero), "ctx")

Init ==
    /\ value = [f \in Futures |-> Of(Zero)]
    /\ err = [f \in Futures |-> "nil"]
    /\ complete = [f \in Futures |-> FALSE]
    /\ done = [f \in Futures |-> 0]
    /\ mu = [f \in Futures |-> {}]
    /\ pc = [p \in Writers |-> IF p \in Chained THEN "get" ELSE "start"]
    /\ target \in [Writers -> Futures]
    /\ \A p \in Chained : target[p] = p
    /\ arg = [p \in Writers |-> Result(Of(Zero), "nil")]
    /\ getter = [g \in Getters |-> "start"]
    /\ source \in [Getters -> Futures]
    /\ got = [g \in Getters |-> Empty]

Goto(p, from, to) == pc[p] = from /\ pc' = [pc EXCEPT ![p] = to]

waiters == <<getter, source, got>>

-----------------------------------------------------------------------------
(***************************************************************************)
(* Faults.  Each is an action the way a plausible bug would make it, and   *)
(* takes no part in Spec: put in the place of the action it is named after *)
(* it breaks the properties its comment names.                             *)
(***************************************************************************)
\* No early return of a complete future: ValuesAreSound.
LockUntested(p) ==
    /\ mu[target[p]] = {}
    /\ Goto(p, "lock", "storeHi")
    /\ mu' = [mu EXCEPT ![target[p]] = {p}]
    /\ UNCHANGED <<value, err, complete, done, target, arg, waiters>>

\* The mutex is kept: GettersReturn.
UnlockForgotten(p) ==
    /\ Goto(p, "unlock", "end")
    /\ UNCHANGED <<future, target, arg, waiters>>

\* An error of the parent is not passed on: ChainCompletesOrPanics.
ThenGetDropsError(p) ==
    /\ p \in Chained
    /\ done[Parent[p]] > 0 /\ mu[Parent[p]] = {}
    /\ Goto(p, "get", IF err[Parent[p]] = "nil" THEN "fn" ELSE "end")
    /\ UNCHANGED <<future, target, arg, waiters>>

\* Get does not wait for done: ImplementsWriteOnce.
WakeEarly(g) ==
    /\ getter[g] = "start"
    /\ getter' = [getter EXCEPT ![g] = "read"]
    /\ UNCHANGED <<future, pc, target, arg, source, got>>

\* The end of one getter's context fails the future: TypeOK.
ContextEndsForAll(g) ==
    /\ getter[g] = "start"
    /\ getter' = [getter EXCEPT ![g] = "returned"]
    /\ err' = [err EXCEPT ![source[g]] = "ctx"]
    /\ got' = [got EXCEPT ![g] = GaveUp]
    /\ UNCHANGED <<value, complete, done, mu, pc, target, arg, source>>
-----------------------------------------------------------------------------
\* Complete(value, err) called with any value and error.
CallComplete(p) ==
    /\ p \in Completers
    /\ Goto(p, "start", "lock")
    /\ \E w \in Words, e \in Errors \union {"nil"} :
          arg' = [arg EXCEPT ![p] = Result(Of(w), e)]
    /\ UNCHANGED <<future, target, waiters>>

\* Cancel reads f.value outside the mutex before it calls Complete.
CallCancel(p) ==
    /\ p \in Cancellers
    /\ Goto(p, "start", "lock")
    /\ arg' = [arg EXCEPT ![p] = Result(value[target[p]], "cancelled")]
    /\ UNCHANGED <<future, target, waiters>>

\* f.mu.Lock(), and the early return of a future already complete.
Lock(p) ==
    LET f == target[p] IN
    /\ mu[f] = {}
    /\ Goto(p, "lock", IF complete[f] THEN "end" ELSE "storeHi")
    /\ mu' = IF complete[f] THEN mu ELSE [mu EXCEPT ![f] = {p}]
    /\ UNCHANGED <<value, err, complete, done, target, arg, waiters>>

StoreHi(p) ==
    /\ Goto(p, "storeHi", "storeLo")
    /\ value' = [value EXCEPT ![target[p]].hi = arg[p].value.hi]
    /\ UNCHANGED <<err, complete, done, mu, target, arg, waiters>>

StoreLo(p) ==
    /\ Goto(p, "storeLo", "storeErr")
    /\ value' = [value EXCEPT ![target[p]].lo = arg[p].value.lo]
    /\ UNCHANGED <<err, complete, done, mu, target, arg, waiters>>

StoreErr(p) ==
    /\ Goto(p, "storeErr", "close")
    /\ err' = [err EXCEPT ![target[p]] = arg[p].err]
    /\ complete' = [complete EXCEPT ![target[p]] = TRUE]
    /\ UNCHANGED <<value, done, mu, target, arg, waiters>>

\* close(f.done)
CloseDone(p) ==
    /\ Goto(p, "close", "unlock")
    /\ done' = [done EXCEPT ![target[p]] = @ + 1]
    /\ UNCHANGED <<value, err, complete, mu, target, arg, waiters>>

\* defer f.mu.Unlock()
Unlock(p) ==
    /\ Goto(p, "unlock", "end")
    /\ mu' = [mu EXCEPT ![target[p]] = {}]
    /\ UNCHANGED <<value, err, complete, done, target, arg, waiters>>

-----------------------------------------------------------------------------
\* The goroutine of Then: Get on the parent, then the error is passed on with
\* result.value, read with no lock, or fn is called with the value.
ThenGet(p) ==
    LET f == Parent[p] IN
    /\ p \in Chained
    /\ done[f] > 0 /\ mu[f] = {}
    /\ Goto(p, "get", IF err[f] = "nil" THEN "fn" ELSE "lock")
    /\ arg' = IF err[f] = "nil" THEN arg
              ELSE [arg EXCEPT ![p] = Result(value[p], err[f])]
    /\ UNCHANGED <<future, target, waiters>>

\* fn returns a value and an error.
ThenFn(p) ==
    /\ Goto(p, "fn", "lock")
    /\ \E w \in Words, e \in Errors \union {"nil"} :
          arg' = [arg EXCEPT ![p] = Result(Of(w), e)]
    /\ UNCHANGED <<future, target, waiters>>

\* fn panics: Run swallows the panic, nobody completes the future.
ThenPanics(p) ==
    /\ Goto(p, "fn", "panicked")
    /\ UNCHANGED <<future, target, arg, waiters>>

-----------------------------------------------------------------------------
GetterGoto(g, from, to) ==
    getter[g] = from /\ getter' = [getter EXCEPT ![g] = to]

\* The done case of Get and GetWithContext.
Wake(g) ==
    /\ done[source[g]] > 0
    /\ GetterGoto(g, "start", "read")
    /\ UNCHANGED <<future, pc, target, arg, source, got>>

\* It reads both fields under the read lock.
Read(g) ==
    LET f == source[g] IN
    /\ mu[f] = {}
    /\ GetterGoto(g, "read", "returned")
    /\ got' = [got EXCEPT ![g] = Result(value[f], err[f])]
    /\ UNCHANGED <<future, pc, target, arg, source>>

\* The context of GetWithContext ends, which select may prefer to done.
ContextEnds(g) ==
    /\ GetterGoto(g, "start", "returned")
    /\ got' = [got EXCEPT ![g] = GaveUp]
    /\ UNCHANGED <<future, pc, target, arg, source>>

-----------------------------------------------------------------------------
Complete(p) == Lock(p) \/ StoreHi(p) \/ StoreLo(p) \/ StoreErr(p)
               \/ CloseDone(p) \/ Unlock(p)

WriterRuns(p) == Complete(p) \/ ThenGet(p) \/ ThenFn(p) \/ ThenPanics(p)

Next ==
    \/ \E p \in Writers : CallComplete(p) \/ CallCancel(p) \/ WriterRuns(p)
    \/ \E g \in Getters : Wake(g) \/ Read(g) \/ ContextEnds(g)

Spec == Init /\ [][Next]_vars

\* Every goroutine that can run runs, and fn ends.  Nobody has to complete or
\* cancel a future, and a context need not end.
FairSpec ==
    /\ Spec
    /\ \A p \in Writers : WF_vars(WriterRuns(p))
    /\ \A g \in Getters : WF_vars(Wake(g) \/ Read(g))
-----------------------------------------------------------------------------
\* The types of the variables.
TypeOK ==
    /\ value \in [Futures -> Values]
    /\ err \in [Futures -> ErrorsOrNil]
    /\ complete \in [Futures -> BOOLEAN]
    /\ done \in [Futures -> Nat]
    /\ mu \in [Futures -> SUBSET Writers]
    /\ pc \in [Writers -> {"start", "lock", "storeHi", "storeLo", "storeErr",
                           "close", "unlock", "end", "get", "fn", "panicked"}]
    /\ target \in [Writers -> Futures]
    /\ arg \in [Writers -> Results]
    /\ getter \in [Getters -> {"start", "read", "returned"}]
    /\ source \in [Getters -> Futures]
    /\ got \in [Getters -> Results \union {Empty, GaveUp}]

\* The channel of a future is closed at most once (Complete returns early).
ClosedOnce == \A f \in Futures : done[f] <= 1

\* A future that was cancelled holds the zero value, although Cancel reads the
\* value with no lock and may read one that is just being stored; so does a
\* future to which Then passed the cancellation on.
CancelledIsZero ==
    \A f \in Futures :
        done[f] > 0 /\ err[f] = "cancelled" => value[f] = Of(Zero)

\* Nobody gets half of a value, although Cancel and Then may read one.
NoTornResult ==
    \A g \in Getters : got[g] # Empty => got[g].value.hi = got[g].value.lo

\* The reads outside the lock do no harm to what futures hold and return.
ValuesAreSound == CancelledIsZero /\ NoTornResult

cell == [f \in Futures |->
            IF done[f] = 0 THEN Empty ELSE Result(value[f], err[f])]

Once == INSTANCE WriteOnce

\* Every future is a cell written once, and whoever waits for one gets what was
\* written (Complete, Get, GetWithContext).
ImplementsWriteOnce == Once!Spec

\* A getter that waits returns once its future is complete.
GettersReturn ==
    \A g \in Getters : (done[source[g]] > 0) ~> (getter[g] = "returned")

\* A completed parent leads to the completion of the future Then returned,
\* unless fn panicked.
ChainCompletesOrPanics ==
    \A p \in Chained :
        (done[Parent[p]] > 0) ~> (done[p] > 0 \/ pc[p] = "panicked")

\* future.go:93, the future of Then "will be completed with the result of the
\* given function".
ChainCompletes ==
    \A p \in Chained : (done[Parent[p]] > 0) ~> (done[p] > 0)
=============================================================================
