--------------------------- MODULE StopperService ---------------------------
(***************************************************************************)
(* A service built on one xsync.Stopper, the way the package is meant to   *)
(* be used: goroutines started by Go, some of them loops that end when     *)
(* StopTriggered is closed; goroutines of GoWaitStop whose stop function   *)
(* calls TurnOff; and outsiders that call TurnOff.  The two halves of the  *)
(* Stopper share no state, they meet only in what these functions do.      *)
(***************************************************************************)
EXTENDS StopGroup

CONSTANTS
    Loops,      \* the workers whose function waits for StopTriggered
    Outsiders,  \* other goroutines that may call TurnOff
    Timeouts    \* whether the stopper has a timeout

ASSUME LoopsAssumption == Loops \subseteq Workers
ASSUME OutsidersAssumption == Outsiders \intersect Waiters = {}

VARIABLES timed, state, trigger, stoppedChan, mu, seen, pc, gaveUp, body, pending,
          err, ret

Off == INSTANCE Stopper WITH Callers <- Waiters \union Outsiders

offVars == <<timed, state, trigger, stoppedChan, mu, seen, pc, gaveUp, body,
             pending, err, ret>>
serviceVars == <<vars, offVars>>

ServiceInit == Init /\ Off!Init

\* A goroutine of the group takes a step that concerns the group only.
GroupRuns ==
    /\ \/ \E w \in Workers : Go(w) \/ WorkerRuns(w)
       \/ \E g \in Waiters : GoWaitStop(g) \/ WaiterWaits(g)
    /\ UNCHANGED offVars

\* A function ends; a loop ends only once StopTriggered is closed.
FnEnds(w) ==
    /\ w \in Loops => trigger > 0
    /\ EndFn(w)
    /\ UNCHANGED offVars

\* A stop function begins by calling TurnOff, and ends when that returns.
EnterStop(g) ==
    /\ waiter[g] = "stopping"
    /\ Off!TriggerStop(g)
    /\ UNCHANGED vars

LeaveStop(g) ==
    /\ Off!Returned(g)
    /\ RunStop(g)
    /\ UNCHANGED offVars

\* An outsider calls TurnOff whenever it likes.
CallTurnOff(o) == Off!TriggerStop(o) /\ UNCHANGED vars

TurnOffRuns(c) ==
    /\ Off!Caller(c) \/ Off!BodyEnds(c) \/ Off!Spawned(c)
    /\ UNCHANGED vars

ServiceNext ==
    \/ GroupRuns
    \/ \E w \in Workers : FnEnds(w)
    \/ \E g \in Waiters : EnterStop(g) \/ LeaveStop(g)
    \/ \E o \in Outsiders : CallTurnOff(o)
    \/ \E c \in Waiters \union Outsiders : TurnOffRuns(c)

ServiceSpec == ServiceInit /\ [][ServiceNext]_serviceVars

(***************************************************************************)
(* Every goroutine that can run runs, loops leave once told to, and the    *)
(* shutdown functions return.  The other functions may run forever.        *)
(***************************************************************************)
ServiceFairSpec ==
    /\ ServiceSpec
    /\ \A w \in Workers : WF_serviceVars(WorkerRuns(w) /\ UNCHANGED offVars)
    /\ \A w \in Loops : WF_serviceVars(FnEnds(w))
    /\ \A g \in Waiters :
          /\ WF_serviceVars(WaiterWaits(g) /\ UNCHANGED offVars)
          /\ WF_serviceVars(EnterStop(g) \/ LeaveStop(g))
    /\ \A c \in Waiters \union Outsiders : WF_serviceVars(TurnOffRuns(c))
-----------------------------------------------------------------------------
Called(c) == pc[c] # "start"

\* Under a quick stop, the end of one function winds the service down: the stop
\* function is run, TurnOff closes StopTriggered, every loop leaves.
QuickStopWindsDown ==
    \A g \in Waiters, w \in Loops :
        (~Final /\ Ended # {} /\ waiter[g] # "new" /\ worker[w] # "new")
            ~> (waiter[g] = "stopped" /\ stoppedChan = 1 /\ worker[w] = "done")

\* A TurnOff from outside makes every loop leave, under either kind of stop.
TurnOffWindsDown ==
    \A o \in Outsiders, w \in Loops :
        (Called(o) /\ worker[w] # "new") ~> worker[w] = "done"

\* However the shutdown begins, from inside or outside, no loop outlives it.
ServiceWindsDown == QuickStopWindsDown /\ TurnOffWindsDown

\* Under a final stop, a stop function does not break the loops it waits for:
\* when it is the first to trigger, no loop was in the group, unless the wait
\* group has been misused.  A service of loops with a final stop needs an
\* outsider to be shut down.
FinalStopBreaksNoLoop ==
    \A g \in Waiters :
        /\ Called(g)
        /\ \A c \in (Waiters \union Outsiders) \ {g} : ~Called(c)
        => covered[g] \intersect Loops = {} \/ misused
=============================================================================
