------------------------------ MODULE Stopper ------------------------------
(***************************************************************************)
(* The shutdown path of xsync.Stopper: any number of goroutines call       *)
(* TurnOff (Stop is TurnOff with a function that returns nil), the state   *)
(* word is read and swapped atomically but the two channels are closed in  *)
(* steps of their own, and under a timeout the shutdown function runs in a *)
(* goroutine that TurnOff may stop waiting for.                            *)
(*                                                                         *)
(* The named result err of TurnOff is written by that goroutine and by     *)
(* "return ErrTurnOffTimeout" with no synchronisation once TurnOff has     *)
(* given up.  It is an interface, two machine words, so each side stores   *)
(* it in two steps.                                                        *)
(***************************************************************************)
EXTENDS Naturals, FiniteSets

CONSTANTS
    Callers,    \* goroutines that may call TurnOff, each at most once
    Timeouts    \* whether NewStopper may be given a timeout > 0, or none

ASSUME TimeoutsAssumption == Timeouts \subseteq BOOLEAN

Idle == 0
Triggered == 1
Stopping == 2
Stopped == 3

VARIABLES
    timed,          \* NewStopper was given a timeout > 0
    state,          \* the atomic state word
    trigger,        \* times the trigger channel was closed
    stoppedChan,    \* times the stopped channel was closed
    mu,             \* {} or the caller that holds the mutex
    seen,           \* currentState in toStoppingState of each caller
    pc,             \* where each caller is in TurnOff
    gaveUp,         \* the callers whose select took the deadline
    body,           \* how far the shutdown function of each caller is
    pending,        \* the error its function leaves to be stored in err
    err,            \* the named result of each call, word by word
    ret             \* what each call returned

vars == <<timed, state, trigger, stoppedChan, mu, seen, pc, gaveUp, body,
          pending, err, ret>>

Words == {"nil", "timeout", "failed", "joined"}
Whole(w) == [tab |-> w, data |-> w]

Init ==
    /\ timed \in Timeouts
    /\ state = Idle
    /\ trigger = 0
    /\ stoppedChan = 0
    /\ mu = {}
    /\ seen = [c \in Callers |-> Idle]
    /\ pc = [c \in Callers |-> "start"]
    /\ gaveUp = {}
    /\ body = [c \in Callers |-> "none"]
    /\ pending = [c \in Callers |-> "nil"]
    /\ err = [c \in Callers |-> Whole("nil")]
    /\ ret = [c \in Callers |-> Whole("nil")]

Goto(c, from, to) == pc[c] = from /\ pc' = [pc EXCEPT ![c] = to]

result == <<gaveUp, pending, err, ret>>

-----------------------------------------------------------------------------
(***************************************************************************)
(* Faults.  Each is an action the way a plausible bug would make it, and   *)
(* takes no part in Spec: put in the place of the action it is named after *)
(* it breaks the properties its comment names.                             *)
(***************************************************************************)
\* An atomic add for the compare-and-swap: TypeOK.
TriggerStopByAdd(c) ==
    /\ state' = state + 1
    /\ Goto(c, "start", "close")
    /\ UNCHANGED <<timed, trigger, stoppedChan, mu, seen, body, result>>

\* The channel is not closed: ServiceWindsDown of StopperService.
TriggerStopSilently(c) ==
    /\ state' = IF state = Idle THEN Triggered ELSE state
    /\ Goto(c, "start", "lock")
    /\ UNCHANGED <<timed, trigger, stoppedChan, mu, seen, body, result>>

\* No test for a shutdown in progress: ImplementsGate.
LoadStateUntested(c) ==
    /\ mu = {}
    /\ Goto(c, "lock", "swap")
    /\ mu' = {c}
    /\ seen' = [seen EXCEPT ![c] = state]
    /\ UNCHANGED <<timed, state, trigger, stoppedChan, body, result>>

\* The mutex is not taken: NoStepGoesWrong.
LoadStateUnlocked(c) ==
    /\ Goto(c, "lock", IF state >= Stopping THEN "return" ELSE "swap")
    /\ seen' = [seen EXCEPT ![c] = state]
    /\ UNCHANGED <<timed, state, trigger, stoppedChan, mu, body, result>>

\* The early return does not unlock: ShutdownCompletes.
LoadStateKeepsLock(c) ==
    /\ mu = {}
    /\ Goto(c, "lock", IF state >= Stopping THEN "return" ELSE "swap")
    /\ mu' = {c}
    /\ seen' = [seen EXCEPT ![c] = state]
    /\ UNCHANGED <<timed, state, trigger, stoppedChan, body, result>>

\* Nobody waits for the function: StoppedAfterBody.
StartBodyDetached(c) ==
    /\ Goto(c, "run", "deferred")
    /\ body' = [body EXCEPT ![c] = "running"]
    /\ UNCHANGED <<timed, state, trigger, stoppedChan, mu, seen, result>>

\* done is closed before the error is stored: ResultIsOfBody.
SelectDoneEarly(c) ==
    /\ body[c] \in {"joined", "storing", "closing", "finished"}
    /\ Goto(c, "select", "deferred")
    /\ UNCHANGED <<timed, state, trigger, stoppedChan, mu, seen, body,
                   result>>
-----------------------------------------------------------------------------
\* triggerStop: the compare-and-swap, then the close in a step of its own.
TriggerStop(c) ==
    /\ \/ /\ state = Idle
          /\ state' = Triggered
          /\ Goto(c, "start", "close")
       \/ /\ state # Idle
          /\ Goto(c, "start", "lock")
          /\ UNCHANGED state
    /\ UNCHANGED <<timed, trigger, stoppedChan, mu, seen, body, result>>

CloseTrigger(c) ==
    /\ Goto(c, "close", "lock")
    /\ trigger' = trigger + 1
    /\ UNCHANGED <<timed, state, stoppedChan, mu, seen, body, result>>

\* toStoppingState up to its test: lock, load, give up if already stopping.
LoadState(c) ==
    /\ mu = {}
    /\ \/ /\ state >= Stopping
          /\ Goto(c, "lock", "return")
          /\ UNCHANGED <<mu, seen>>
       \/ /\ state < Stopping
          /\ Goto(c, "lock", "swap")
          /\ mu' = {c}
          /\ seen' = [seen EXCEPT ![c] = state]
    /\ UNCHANGED <<timed, state, trigger, stoppedChan, body, result>>

\* The compare-and-swap of toStoppingState, then the deferred unlock.
SwapToStopping(c) ==
    /\ Goto(c, "swap", IF state = seen[c] THEN "run" ELSE "return")
    /\ state' = IF state = seen[c] THEN Stopping ELSE state
    /\ mu' = {}
    /\ UNCHANGED <<timed, trigger, stoppedChan, seen, body, result>>

\* f() in the caller's own goroutine, or Go("stopper.turnoff", ...).
StartBody(c) ==
    /\ Goto(c, "run", IF timed THEN "select" ELSE "wait")
    /\ body' = [body EXCEPT ![c] = "running"]
    /\ UNCHANGED <<timed, state, trigger, stoppedChan, mu, seen, result>>

\* return f(): an error becomes the result, a panic unwinds through the
\* deferred toStoppedState.
FinishInline(c) ==
    /\ body[c] = "running"
    /\ Goto(c, "wait", "deferred")
    /\ \E outcome \in {"finished", "panicked", "failed"} :
          /\ body' = [body EXCEPT ![c] = IF outcome = "panicked"
                                          THEN "panicked" ELSE "finished"]
          /\ pending' = [pending EXCEPT ![c] = IF outcome = "failed"
                                                THEN "failed" ELSE "nil"]
          /\ err' = [err EXCEPT ![c] = Whole(pending'[c])]
    /\ UNCHANGED <<timed, state, trigger, stoppedChan, mu, seen, gaveUp, ret>>

\* The goroutine: f returns nil or panics (Run swallows the panic, the
\* deferred close(done) still happens), or it returns an error to be joined.
FinishSpawned(c) ==
    /\ timed
    /\ body[c] = "running"
    /\ body' = [body EXCEPT ![c] = "closing"]
    /\ UNCHANGED <<timed, state, trigger, stoppedChan, mu, seen, pc, result>>

\* errors.Join(err, sterr) reads err, which TurnOff may be storing.
JoinError(c) ==
    /\ timed
    /\ body[c] = "running"
    /\ body' = [body EXCEPT ![c] = "joined"]
    /\ pending' = [pending EXCEPT ![c] =
                      IF err[c].tab = "nil" THEN "failed" ELSE "joined"]
    /\ UNCHANGED <<timed, state, trigger, stoppedChan, mu, seen, pc, gaveUp,
                   err, ret>>

StoreJoinedTab(c) ==
    /\ body[c] = "joined"
    /\ body' = [body EXCEPT ![c] = "storing"]
    /\ err' = [err EXCEPT ![c].tab = pending[c]]
    /\ UNCHANGED <<timed, state, trigger, stoppedChan, mu, seen, pc, gaveUp,
                   pending, ret>>

StoreJoinedData(c) ==
    /\ body[c] = "storing"
    /\ body' = [body EXCEPT ![c] = "closing"]
    /\ err' = [err EXCEPT ![c].data = pending[c]]
    /\ UNCHANGED <<timed, state, trigger, stoppedChan, mu, seen, pc, gaveUp,
                   pending, ret>>

\* The deferred close(done).
CloseDone(c) ==
    /\ body[c] = "closing"
    /\ body' = [body EXCEPT ![c] = "finished"]
    /\ UNCHANGED <<timed, state, trigger, stoppedChan, mu, seen, pc, result>>

\* The select of TurnOff.  The deadline may pass at any time, also when done
\* is closed: select then chooses either case.
SelectDone(c) ==
    /\ body[c] = "finished"
    /\ Goto(c, "select", "deferred")
    /\ UNCHANGED <<timed, state, trigger, stoppedChan, mu, seen, body,
                   result>>

SelectTimeout(c) ==
    /\ Goto(c, "select", "timeout")
    /\ gaveUp' = gaveUp \union {c}
    /\ UNCHANGED <<timed, state, trigger, stoppedChan, mu, seen, body,
                   pending, err, ret>>

\* return ErrTurnOffTimeout stores the named result before the defers run.
StoreTimeoutTab(c) ==
    /\ Goto(c, "timeout", "timeoutData")
    /\ err' = [err EXCEPT ![c].tab = "timeout"]
    /\ UNCHANGED <<timed, state, trigger, stoppedChan, mu, seen, gaveUp, body,
                   pending, ret>>

StoreTimeoutData(c) ==
    /\ Goto(c, "timeoutData", "deferred")
    /\ err' = [err EXCEPT ![c].data = "timeout"]
    /\ UNCHANGED <<timed, state, trigger, stoppedChan, mu, seen, gaveUp, body,
                   pending, ret>>

\* defer s.toStoppedState()
ToStoppedState(c) ==
    /\ Goto(c, "deferred", IF state = Stopping THEN "closeStopped" ELSE "return")
    /\ state' = IF state = Stopping THEN Stopped ELSE state
    /\ UNCHANGED <<timed, trigger, stoppedChan, mu, seen, body, result>>

CloseStopped(c) ==
    /\ Goto(c, "closeStopped", "return")
    /\ stoppedChan' = stoppedChan + 1
    /\ UNCHANGED <<timed, state, trigger, mu, seen, body, result>>

\* The result words are loaded after the defers have run.
Return(c) ==
    /\ Goto(c, "return", IF body[c] = "panicked" THEN "unwound" ELSE "done")
    /\ ret' = [ret EXCEPT ![c] = err[c]]
    /\ UNCHANGED <<timed, state, trigger, stoppedChan, mu, seen, gaveUp, body,
                   pending, err>>

\* What the goroutine that called TurnOff does after the call.
Caller(c) ==
    \/ CloseTrigger(c) \/ LoadState(c) \/ SwapToStopping(c) \/ StartBody(c)
    \/ SelectDone(c) \/ SelectTimeout(c)
    \/ StoreTimeoutTab(c) \/ StoreTimeoutData(c)
    \/ ToStoppedState(c) \/ CloseStopped(c) \/ Return(c)

\* What the goroutine of a timed shutdown function does once f has returned.
Spawned(c) ==
    StoreJoinedTab(c) \/ StoreJoinedData(c) \/ CloseDone(c)

BodyEnds(c) == FinishInline(c) \/ FinishSpawned(c) \/ JoinError(c)

Next == \E c \in Callers :
            TriggerStop(c) \/ Caller(c) \/ BodyEnds(c) \/ Spawned(c)

Spec == Init /\ [][Next]_vars

(***************************************************************************)
(* The scheduler runs every goroutine that can run, and a context with a   *)
(* deadline expires.  Nothing makes anybody call TurnOff.  A shutdown      *)
(* function that runs under a timeout may hang forever; one that runs      *)
(* inline is assumed to end.                                               *)
(***************************************************************************)
Fairness ==
    \A c \in Callers : WF_vars(Caller(c)) /\ WF_vars(FinishInline(c))

FairSpec == Spec /\ Fairness
-----------------------------------------------------------------------------
PCs == {"start", "close", "lock", "swap", "run", "wait", "select", "timeout",
        "timeoutData", "deferred", "closeStopped", "return", "done", "unwound"}

Bodies == {"none", "running", "panicked", "joined", "storing", "closing",
           "finished"}

\* The types of the variables.
TypeOK ==
    /\ timed \in BOOLEAN
    /\ state \in Idle..Stopped
    /\ trigger \in Nat /\ stoppedChan \in Nat
    /\ mu \in SUBSET Callers
    /\ seen \in [Callers -> Idle..Stopped]
    /\ pc \in [Callers -> PCs]
    /\ gaveUp \in SUBSET Callers
    /\ body \in [Callers -> Bodies]
    /\ pending \in [Callers -> Words]
    /\ err \in [Callers -> [tab : Words, data : Words]]
    /\ ret \in [Callers -> [tab : Words, data : Words]]

\* The callers TurnOff has let through to run their function.
Winners == {c \in Callers : pc[c] = "run" \/ body[c] # "none"}

Returned(c) == pc[c] \in {"done", "unwound"}

\* At most one of any number of concurrent TurnOff calls runs its function
\* (toStoppingState).
OneWinner == \A c, d \in Winners : c = d

\* The compare-and-swap in toStoppingState cannot fail: TurnOff triggers
\* before it gets there, and only the holder of the mutex moves the state on.
\* If it could, TurnOff would return nil with nobody shutting down.
SwapCannotFail == \A c \in Callers : pc[c] = "swap" => state = seen[c]

\* Neither channel is closed twice, which would panic (triggerStop,
\* toStoppedState).
ClosedOnce == trigger <= 1 /\ stoppedChan <= 1

\* No step of TurnOff goes wrong: neither the swap nor a close, however many
\* calls there are and wherever they are.
NoStepGoesWrong == SwapCannotFail /\ ClosedOnce

\* TurnOff returns without having run its function only when another call has
\* been let in ("Already stopping or stopped").
RefusedOnlyByWinner ==
    \A c \in Callers :
        pc[c] \in {"return", "done"} /\ c \notin Winners => Winners \ {c} # {}

\* WaitStopped is released only once the shutdown function is over, or was
\* given up on at the deadline.
StoppedAfterBody ==
    stoppedChan > 0 =>
        \E c \in Winners : c \in gaveUp \/ body[c] \in {"finished", "panicked"}

\* A TurnOff that did not time out returns exactly what its function returned:
\* no half-written error, no error of the deadline.
ResultIsOfBody ==
    \A c \in Callers \ gaveUp :
        pc[c] = "done" => /\ ret[c] = Whole(pending[c])
                          /\ pending[c] \in {"nil", "failed"}

\* The gate the detailed steps implement.
PlaceOf(p, b) ==
    CASE p \in {"start", "close", "lock", "swap"} -> "outside"
      [] p \in {"run", "wait", "select", "timeout", "timeoutData", "deferred"}
            -> "inside"
      [] p \in {"closeStopped", "return", "done", "unwound"}
            -> IF b = "none" THEN "refused" ELSE "left"

place == [c \in Callers |-> PlaceOf(pc[c], body[c])]

phase == IF state < Stopping THEN "open"
         ELSE IF state = Stopping THEN "closing" ELSE "closed"

Gate == INSTANCE ShutdownGate

\* The stopper is a gate that admits one caller, refuses the others only once
\* it has admitted one, and closes when that one leaves.
ImplementsGate == Gate!Spec

\* Every call of TurnOff returns, with a timeout even when its function hangs.
EveryCallReturns ==
    \A c \in Callers : (pc[c] # "start") ~> Returned(c)

\* A call of TurnOff leads to both channels being closed: everybody who waits
\* on StopTriggered or WaitStopped is released.
ShutdownIsAnnounced ==
    \A c \in Callers :
        (pc[c] # "start") ~> (trigger = 1 /\ stoppedChan = 1)

\* A call of TurnOff ends, and leaves nobody waiting.
ShutdownCompletes == EveryCallReturns /\ ShutdownIsAnnounced
-----------------------------------------------------------------------------
(***************************************************************************)
(* What a comment of the package says, and the code does not keep.         *)
(***************************************************************************)

\* stopper.go:19, "ErrTurnOffTimeout is returned when the turn off function
\* timed out".
TimeoutIsReported ==
    \A c \in gaveUp : pc[c] = "done" => ret[c] = Whole("timeout")
=============================================================================
