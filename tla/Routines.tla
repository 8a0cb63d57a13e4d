------------------------------ MODULE Routines ------------------------------
(***************************************************************************)
(* xsync's goroutine helpers: Go starts a function whose panic is turned   *)
(* into an error and whose error is logged unless a filter takes it;       *)
(* Timeout starts one with Go, through a wrapper that hands the error over *)
(* a channel, and waits for the error, the end, or the deadline.           *)
(***************************************************************************)
EXTENDS Naturals

CONSTANTS
    Gos,        \* calls of Go
    Timeouts    \* calls of Timeout

Calls == Gos \union Timeouts

CallsAssumption == Gos \intersect Timeouts = {}

VARIABLES
    routine,    \* where the goroutine of each call is
    outcome,    \* how its function ended
    logged,     \* the calls something was logged for
    errChan,    \* errors in the channel of each Timeout
    done,       \* the Timeout calls whose done channel is closed
    caller,     \* where each caller of Timeout is
    result      \* what Timeout returned

vars == <<routine, outcome, logged, errChan, done, caller, result>>

ErrChanSize == 1

Init ==
    /\ routine = [c \in Calls |-> "none"]
    /\ outcome = [c \in Calls |-> "none"]
    /\ logged = {}
    /\ errChan = [c \in Timeouts |-> 0]
    /\ done = {}
    /\ caller = [c \in Timeouts |-> "idle"]
    /\ result = [c \in Timeouts |-> "none"]

RoutineGoto(c, from, to) ==
    routine[c] = from /\ routine' = [routine EXCEPT ![c] = to]

\* fn ends.  Run turns a panic into an error for Go; the wrapper of Timeout
\* does not get past fn then.
Ends(c, o) ==
    /\ RoutineGoto(c, "running",
          CASE o = "panic" -> "filter"
            [] o = "error" -> IF c \in Timeouts THEN "send" ELSE "filter"
            [] o = "nil"   -> IF c \in Timeouts THEN "close" ELSE "ended")
    /\ outcome' = [outcome EXCEPT ![c] = o]
    /\ UNCHANGED <<logged, errChan, caller, result>>

\* The select of Timeout: any case that is ready, the deadline at any time.
SelectReturns(c, r) ==
    /\ caller[c] = "selecting"
    /\ caller' = [caller EXCEPT ![c] = "returned"]
    /\ result' = [result EXCEPT ![c] = r]
    /\ UNCHANGED <<routine, outcome, logged, done>>

-----------------------------------------------------------------------------
(***************************************************************************)
(* Faults.  Each is an action the way a plausible bug would make it, and   *)
(* takes no part in Spec: put in the place of the action it is named after *)
(* it breaks the properties its comment names.                             *)
(***************************************************************************)
\* errChan has no room: NobodyIsStuck.
SendUnbuffered(c) ==
    /\ c \in Timeouts
    /\ caller[c] = "selecting"
    /\ RoutineGoto(c, "send", "close")
    /\ errChan' = [errChan EXCEPT ![c] = @ + 1]
    /\ UNCHANGED <<outcome, logged, done, caller, result>>

\* done is closed by a defer, which runs when fn panics too: FailuresAccountedFor.
EndFnDeferredClose(c) ==
    \E o \in {"nil", "error", "panic"} :
        /\ Ends(c, o)
        /\ done' = IF o = "panic" THEN done \union ({c} \intersect Timeouts) ELSE done

-----------------------------------------------------------------------------
\* The call of Go or Timeout; Timeout goes on to its select.
Start(c) ==
    /\ RoutineGoto(c, "none", "running")
    /\ caller' = IF c \in Timeouts THEN [caller EXCEPT ![c] = "selecting"]
                 ELSE caller
    /\ UNCHANGED <<outcome, logged, errChan, done, result>>

\* A panic closes no channel: the caller learns nothing of it.
EndFn(c) ==
    \E o \in {"nil", "error", "panic"} : Ends(c, o) /\ UNCHANGED done

\* errChan <- err, in the goroutine of Timeout.
Send(c) ==
    /\ c \in Timeouts
    /\ errChan[c] < ErrChanSize
    /\ RoutineGoto(c, "send", "close")
    /\ errChan' = [errChan EXCEPT ![c] = @ + 1]
    /\ UNCHANGED <<outcome, logged, done, caller, result>>

\* close(done); the wrapper returns nil, so Go has nothing to log.
CloseDone(c) ==
    /\ RoutineGoto(c, "close", "ended")
    /\ done' = done \union {c}
    /\ UNCHANGED <<outcome, logged, errChan, caller, result>>

\* A filter of Go takes the error.  Timeout passes no filters on.
FilterTakes(c) ==
    /\ c \in Gos
    /\ RoutineGoto(c, "filter", "ended")
    /\ UNCHANGED <<outcome, logged, errChan, done, caller, result>>

\* No filter takes it, or one panics: the error or that panic is logged.
Log(c) ==
    /\ RoutineGoto(c, "filter", "ended")
    /\ logged' = logged \union {c}
    /\ UNCHANGED <<outcome, errChan, done, caller, result>>

\* case err := <-errChan, case <-done, case <-ctx.Done()
SelectError(c) ==
    /\ errChan[c] > 0
    /\ SelectReturns(c, "error")
    /\ errChan' = [errChan EXCEPT ![c] = @ - 1]

SelectDone(c) ==
    /\ c \in done
    /\ SelectReturns(c, "nil")
    /\ UNCHANGED errChan

SelectDeadline(c) ==
    /\ SelectReturns(c, "deadline")
    /\ UNCHANGED errChan

RoutineRuns(c) == Send(c) \/ CloseDone(c) \/ FilterTakes(c) \/ Log(c)

CallerRuns(c) == SelectError(c) \/ SelectDone(c) \/ SelectDeadline(c)

Next ==
    \/ \E c \in Calls : Start(c) \/ EndFn(c) \/ RoutineRuns(c)
    \/ \E c \in Timeouts : CallerRuns(c)

Spec == Init /\ [][Next]_vars

\* Goroutines run and deadlines pass; fn may hang.
FairSpec ==
    /\ Spec
    /\ \A c \in Calls : WF_vars(RoutineRuns(c))
    /\ \A c \in Timeouts : WF_vars(CallerRuns(c))
-----------------------------------------------------------------------------
\* The types of the variables.
TypeOK ==
    /\ routine \in [Calls -> {"none", "running", "send", "close", "filter",
                              "ended"}]
    /\ outcome \in [Calls -> {"none", "nil", "error", "panic"}]
    /\ logged \in SUBSET Calls
    /\ errChan \in [Timeouts -> 0..ErrChanSize]
    /\ done \in SUBSET Timeouts
    /\ caller \in [Timeouts -> {"idle", "selecting", "returned"}]
    /\ result \in [Timeouts -> {"none", "nil", "error", "deadline"}]

\* What becomes of a failure of the function of a Timeout.  Its error is sent
\* once, and then either returned by Timeout or left in the channel.  nil means
\* that the function succeeded, or that it failed and the select took done with
\* the error waiting beside it, since both are ready by then: such an error is
\* lost, neither returned nor logged.  A panic is always logged and is never a
\* nil or an error of Timeout, and nothing else is logged.
FailuresAccountedFor ==
    \A c \in Timeouts :
        /\ outcome[c] = "error" /\ routine[c] \in {"close", "ended"} =>
              (errChan[c] = 1 <=> result[c] # "error")
        /\ result[c] = "error" => outcome[c] = "error"
        /\ result[c] = "nil" => \/ outcome[c] = "nil"
                               \/ (outcome[c] = "error" /\ errChan[c] = 1)
        /\ outcome[c] = "panic" /\ routine[c] = "ended" => c \in logged
        /\ c \in logged => outcome[c] = "panic"

\* Neither side of the channels waits for the other for ever: a goroutine whose
\* fn has ended ends, even when its caller has given up on it; and Timeout
\* returns even when fn hangs or panics.
NobodyIsStuck ==
    /\ \A c \in Calls : (outcome[c] # "none") ~> (routine[c] = "ended")
    /\ \A c \in Timeouts : (caller[c] = "selecting") ~> (caller[c] = "returned")
=============================================================================
