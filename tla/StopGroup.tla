----------------------------- MODULE StopGroup -----------------------------
(***************************************************************************)
(* The goroutines a xsync.Stopper looks after: Go runs a function, and     *)
(* GoWaitStop runs a stop function once a function has ended (quick stop)  *)
(* or once, after that, the wait group is empty (final stop).  GoAndStop   *)
(* is GoWaitStop followed by Go.                                           *)
(*                                                                         *)
(* Add(1) runs inside the new goroutine, so it races with Done and Wait    *)
(* and the steps of sync.WaitGroup matter.  They are those of Go 1.24: a   *)
(* word with a counter and a number of waiters, a semaphore, and the       *)
(* checks that panic on misuse, which leave the word as they found it: the *)
(* counter may then be wrong for good, or below zero.  A panic is          *)
(* swallowed by Run.                                                       *)
(***************************************************************************)
EXTENDS Integers, FiniteSets

CONSTANTS
    Workers,    \* goroutines started by Go
    Waiters     \* goroutines started by GoWaitStop

VARIABLES
    stopType,           \* the option the stopper was created with
    innerStopTrigger,   \* whether the channel is closed
    counter,            \* the counter of innerStopWg
    waiting,            \* its number of waiters
    sema,               \* the wake-ups it has handed out
    toWake,             \* the waiters each goroutine of Go has to wake up
    worker,             \* where each goroutine of Go is
    waiter,             \* where each goroutine of GoWaitStop is
    covered,            \* history: the workers that counted when a waiter began to wait
    late,               \* history: whether one registered after another had ended
    misused             \* history: whether an Add(1) has panicked

wg == <<counter, waiting, sema, toWake>>
history == <<covered, late, misused>>
vars == <<stopType, innerStopTrigger, wg, worker, waiter, history>>

Final == stopType = "final"

Init ==
    /\ stopType \in {"quick", "final"}
    /\ innerStopTrigger = FALSE
    /\ counter = 0 /\ waiting = 0 /\ sema = 0
    /\ toWake = [w \in Workers |-> 0]
    /\ worker = [w \in Workers |-> "new"]
    /\ waiter = [g \in Waiters |-> "new"]
    /\ covered = [g \in Waiters |-> {}]
    /\ late = FALSE /\ misused = FALSE

WorkerGoto(w, from, to) ==
    worker[w] = from /\ worker' = [worker EXCEPT ![w] = to]

WaiterGoto(g, from, to) ==
    waiter[g] = from /\ waiter' = [waiter EXCEPT ![g] = to]

\* The workers whose function is over, and the ones that hold the group.
Ended == {w \in Workers : worker[w] \in {"leaving", "recheck", "wake",
                                         "closing", "done"}}
Counted == {w \in Workers : worker[w] \in {"running", "leaving"}}

-----------------------------------------------------------------------------
(***************************************************************************)
(* Faults.  Each is an action the way a plausible bug would make it, and   *)
(* takes no part in Spec: put in the place of the action it is named after *)
(* it breaks the properties its comment names.                             *)
(***************************************************************************)
\* Add(1) is forgotten: TypeOK.
GoUnregistered(w) ==
    /\ WorkerGoto(w, "new", "running")
    /\ UNCHANGED <<stopType, innerStopTrigger, wg, waiter, history>>

\* Done() is forgotten: StopFunctionsRun.
EndFnWithoutDone(w) ==
    /\ WorkerGoto(w, "running", "closing")
    /\ UNCHANGED <<stopType, innerStopTrigger, wg, waiter, history>>

\* The wait for innerStopTrigger is forgotten: StopAfterFunctions.
TriggeredAtOnce(g) ==
    /\ WaiterGoto(g, "triggerWait", IF Final THEN "groupWait" ELSE "stopping")
    /\ UNCHANGED <<stopType, innerStopTrigger, wg, worker, history>>

\* One function may still run: FinalStopBreaksNoLoop of StopperService.
WaitOffByOne(g) ==
    /\ WaiterGoto(g, "groupWait", IF counter <= 1 THEN "stopping" ELSE "asleep")
    /\ waiting' = IF counter <= 1 THEN waiting ELSE waiting + 1
    /\ covered' = [covered EXCEPT ![g] = Counted]
    /\ UNCHANGED <<stopType, innerStopTrigger, counter, sema, toWake, worker, late, misused>>
-----------------------------------------------------------------------------
\* The call of Go; the goroutine runs some time later.
Go(w) ==
    /\ WorkerGoto(w, "new", IF Final THEN "spawned" ELSE "running")
    /\ UNCHANGED <<stopType, innerStopTrigger, wg, waiter, history>>

(***************************************************************************)
(* innerStopWg.Add(delta), which is Done() for -1.  It panics when the     *)
(* counter falls below 0, or when it adds the first one while somebody     *)
(* waits; when it leaves 0 while somebody waits it has to wake them up.    *)
(***************************************************************************)
Panics(delta) ==
    LET v == counter + delta
    IN  v < 0 \/ (delta > 0 /\ v = delta /\ waiting > 0)

Add(w, delta, from, returned, recheck) ==
    LET wakes == counter + delta = 0 /\ waiting > 0
    IN  /\ WorkerGoto(w, from, IF Panics(delta) THEN "closing"
                               ELSE IF wakes THEN recheck ELSE returned)
        /\ counter' = counter + delta
        /\ toWake' = [toWake EXCEPT ![w] = IF wakes THEN waiting ELSE 0]
        /\ UNCHANGED <<stopType, innerStopTrigger, waiting, sema, waiter, covered>>

\* When Add(1) panics the function never runs and the deferred close does.
Register(w) ==
    /\ Add(w, 1, "spawned", "running", "recheckAdd")
    /\ late' = (late \/ Ended # {})
    /\ misused' = (misused \/ Panics(1))

\* fn returns nil or an error, or panics: the defers run all the same.
EndFn(w) ==
    /\ WorkerGoto(w, "running", IF Final THEN "leaving" ELSE "closing")
    /\ UNCHANGED <<stopType, innerStopTrigger, wg, waiter, history>>

\* innerStopWg.Done(), deferred.
Done(w) ==
    /\ Add(w, -1, "leaving", "closing", "recheck")
    /\ UNCHANGED <<late, misused>>

\* It panics when the word has changed since: nobody is woken up.
Recheck(w) ==
    LET same == counter = 0 /\ waiting = toWake[w]
    IN  /\ \/ WorkerGoto(w, "recheck", IF same THEN "wake" ELSE "closing")
           \/ WorkerGoto(w, "recheckAdd", IF same THEN "wakeAdd" ELSE "closing")
        /\ UNCHANGED <<stopType, innerStopTrigger, wg, waiter, history>>

\* The word is set to 0 whatever it is by now.
WakeWaiters(w) ==
    /\ \/ WorkerGoto(w, "wake", "closing")
       \/ WorkerGoto(w, "wakeAdd", "running")
    /\ counter' = 0
    /\ waiting' = 0
    /\ sema' = sema + toWake[w]
    /\ toWake' = [toWake EXCEPT ![w] = 0]
    /\ UNCHANGED <<stopType, innerStopTrigger, waiter, history>>

\* innerStopTriggerOnce.Do(close): the last of the defers.
CloseTrigger(w) ==
    /\ WorkerGoto(w, "closing", "done")
    /\ innerStopTrigger' = TRUE
    /\ UNCHANGED <<stopType, wg, waiter, history>>

-----------------------------------------------------------------------------
\* The call of GoWaitStop.
GoWaitStop(g) ==
    /\ WaiterGoto(g, "new", "triggerWait")
    /\ UNCHANGED <<stopType, innerStopTrigger, wg, worker, history>>

\* <-s.innerStopTrigger
Triggered(g) ==
    /\ innerStopTrigger
    /\ WaiterGoto(g, "triggerWait", IF Final THEN "groupWait" ELSE "stopping")
    /\ UNCHANGED <<stopType, innerStopTrigger, wg, worker, history>>

\* innerStopWg.Wait(): returns at once when the counter is 0.
Wait(g) ==
    /\ WaiterGoto(g, "groupWait", IF counter = 0 THEN "stopping" ELSE "asleep")
    /\ waiting' = IF counter = 0 THEN waiting ELSE waiting + 1
    /\ covered' = [covered EXCEPT ![g] = Counted]
    /\ UNCHANGED <<stopType, innerStopTrigger, counter, sema, toWake, worker, late, misused>>

\* Woken up, it panics when the group is already in use again.
WakeUp(g) ==
    /\ sema > 0
    /\ sema' = sema - 1
    /\ WaiterGoto(g, "asleep", "awake")
    /\ UNCHANGED <<stopType, innerStopTrigger, counter, waiting, toWake, worker, history>>

CheckReuse(g) ==
    /\ WaiterGoto(g, "awake",
                  IF counter = 0 /\ waiting = 0 THEN "stopping" ELSE "panicked")
    /\ UNCHANGED <<stopType, innerStopTrigger, wg, worker, history>>

\* The stop function.
RunStop(g) ==
    /\ WaiterGoto(g, "stopping", "stopped")
    /\ UNCHANGED <<stopType, innerStopTrigger, wg, worker, history>>

-----------------------------------------------------------------------------
WorkerRuns(w) == Register(w) \/ Done(w) \/ Recheck(w) \/ WakeWaiters(w)
                 \/ CloseTrigger(w)

WaiterWaits(g) == Triggered(g) \/ Wait(g) \/ WakeUp(g) \/ CheckReuse(g)

WaiterRuns(g) == WaiterWaits(g) \/ RunStop(g)

Next ==
    \/ \E w \in Workers : Go(w) \/ EndFn(w) \/ WorkerRuns(w)
    \/ \E g \in Waiters : GoWaitStop(g) \/ WaiterRuns(g)

Spec == Init /\ [][Next]_vars

(***************************************************************************)
(* Every goroutine that can run runs.  A function may run forever under a  *)
(* quick stop; under a final stop, which waits for them, functions end.    *)
(***************************************************************************)
FairSpec ==
    /\ Spec
    /\ \A w \in Workers : WF_vars(WorkerRuns(w)) /\ WF_vars(Final /\ EndFn(w))
    /\ \A g \in Waiters : WF_vars(WaiterRuns(g))
-----------------------------------------------------------------------------
\* The types of the variables; the counter stays a natural number unless the
\* wait group has been misused.
TypeOK ==
    /\ stopType \in {"quick", "final"}
    /\ innerStopTrigger \in BOOLEAN
    /\ counter \in Int /\ (misused \/ counter >= 0)
    /\ waiting \in Nat /\ sema \in Nat /\ toWake \in [Workers -> Nat]
    /\ worker \in [Workers -> {"new", "spawned", "recheckAdd", "wakeAdd", "running",
                               "leaving", "recheck", "wake", "closing", "done"}]
    /\ waiter \in [Waiters -> {"new", "triggerWait", "groupWait", "asleep",
                               "awake", "stopping", "stopped", "panicked"}]
    /\ covered \in [Waiters -> SUBSET Workers]
    /\ late \in BOOLEAN /\ misused \in BOOLEAN

StopRuns(g) == waiter[g] \in {"stopping", "stopped"}

\* A stop function runs only after a function of Go has ended, for nothing else
\* closes innerStopTrigger, and under a final stop after every function that was
\* in the group when its Wait began, unless an Add(1) has panicked.
StopAfterFunctions ==
    \A g \in Waiters :
        StopRuns(g) => /\ \E w \in Ended : worker[w] = "done"
                       /\ covered[g] \subseteq Ended \/ misused

\* Under a quick stop, the end of one function leads to every stop function,
\* though the other functions may run forever.
QuickStopRuns ==
    \A g \in Waiters :
        (~Final /\ Ended # {} /\ waiter[g] # "new") ~> waiter[g] = "stopped"

\* Under a final stop, the end of the functions leads to every stop function,
\* unless a function was registered after another one had ended: Add(1) runs in
\* the new goroutine and may make the wait group panic.
FinalStopRuns ==
    \A g \in Waiters :
        (Final /\ Ended # {} /\ waiter[g] # "new")
            ~> (waiter[g] = "stopped" \/ late)

\* GoWaitStop keeps its promise under either kind of stop.
StopFunctionsRun == QuickStopRuns /\ FinalStopRuns
=============================================================================
