------------------------ MODULE StopperServiceProofs ------------------------
(***************************************************************************)
(* Proofs about the goroutines a Stopper looks after (StopGroup) and about *)
(* a service built on one (StopperService), for any number of functions,   *)
(* loops and stop functions.                                               *)
(*                                                                         *)
(* The wait group is right as long as no Add(1) has panicked: its counter  *)
(* is the number of functions in the group (Exact), and nobody who slept   *)
(* in Wait goes on before the counter is 0 again (Covers).  The service    *)
(* adds who has called TurnOff when (Calls).                               *)
(***************************************************************************)
EXTENDS StopperService, FiniteSetTheorems, TLAPS

Waking == {"recheck", "wake"}
WakingByAdd == {"recheckAdd", "wakeAdd"}

\* Under a quick stop nobody touches the wait group.
Quick ==
    ~Final =>
        /\ counter = 0 /\ waiting = 0 /\ ~misused
        /\ \A w \in Workers :
              worker[w] \notin {"spawned", "leaving"} \union Waking \union WakingByAdd
        /\ \A g \in Waiters :
              waiter[g] \notin {"groupWait", "asleep", "awake"} /\ covered[g] = {}

\* The counter counts; at most one function wakes the waiters up, while nobody
\* else can change the word.
Exact ==
    Final /\ ~misused =>
        /\ IsFiniteSet(Counted) /\ counter = Cardinality(Counted)
        /\ \A w \in Workers : worker[w] \in Waking => counter = 0 /\ waiting > 0
        /\ \A v, w \in Workers : worker[v] \in Waking /\ worker[w] \in Waking => v = w
        /\ \A w \in Workers : worker[w] \notin WakingByAdd

\* A stop function waits for innerStopTrigger, which the end of a function closes.
Triggers ==
    /\ innerStopTrigger => \E w \in Workers : worker[w] = "done"
    /\ \A g \in Waiters : waiter[g] \notin {"new", "triggerWait"} => innerStopTrigger

\* A function that is waited for ends before the wait is over.
Covers ==
    \A g \in Waiters :
        /\ covered[g] \subseteq Counted \union Ended
        /\ StopRuns(g) => covered[g] \subseteq Ended \/ misused

GroupIInv == TypeOK /\ Quick /\ Exact /\ Triggers /\ Covers
-----------------------------------------------------------------------------
\* The parts hold initially.
LEMMA InitGroupIInv == Init => GroupIInv
<1>. SUFFICES ASSUME Init PROVE GroupIInv
  OBVIOUS
<1>. USE DEF Init
<1>1. Counted = {} /\ Ended = {}
  BY DEF Counted, Ended
<1>2. TypeOK
  <2>1. counter \in Int /\ counter >= 0 /\ waiting \in Nat /\ sema \in Nat
    OBVIOUS
  <2>2. toWake \in [Workers -> Nat] /\ covered \in [Waiters -> SUBSET Workers]
    OBVIOUS
  <2>. QED
    BY <2>1, <2>2 DEF TypeOK
<1>3. Quick /\ Triggers
  BY DEF Quick, Triggers, Final, Waking, WakingByAdd
<1>4. Exact
  BY <1>1, FS_EmptySet DEF Exact, Waking, WakingByAdd
<1>5. Covers
  BY DEF Covers, StopRuns
<1>. QED
  BY <1>2, <1>3, <1>4, <1>5 DEF GroupIInv

\* A quick stop leaves the wait group alone.
LEMMA NextQuick ==
    TypeOK /\ Quick /\ [Next]_vars => Quick'
<1>. SUFFICES ASSUME TypeOK, Quick, [Next]_vars PROVE Quick'
  OBVIOUS
<1>. USE DEF TypeOK, Quick, Final, Waking, WakingByAdd, Counted, WorkerGoto, WaiterGoto, wg, history
<1>1. ASSUME NEW w \in Workers, Go(w) PROVE Quick'
  BY <1>1 DEF Go
<1>2. ASSUME NEW w \in Workers, Register(w) PROVE Quick'
  BY <1>2 DEF Register, Add, Panics
<1>3. ASSUME NEW w \in Workers, EndFn(w) PROVE Quick'
  BY <1>3 DEF EndFn
<1>4. ASSUME NEW w \in Workers, Done(w) PROVE Quick'
  BY <1>4 DEF Done, Add, Panics
<1>5. ASSUME NEW w \in Workers, Recheck(w) PROVE Quick'
  BY <1>5 DEF Recheck
<1>6. ASSUME NEW w \in Workers, WakeWaiters(w) PROVE Quick'
  BY <1>6 DEF WakeWaiters
<1>7. ASSUME NEW w \in Workers, CloseTrigger(w) PROVE Quick'
  BY <1>7 DEF CloseTrigger
<1>8. ASSUME NEW g \in Waiters, GoWaitStop(g) PROVE Quick'
  BY <1>8 DEF GoWaitStop
<1>9. ASSUME NEW g \in Waiters, Triggered(g) PROVE Quick'
  BY <1>9 DEF Triggered
<1>10. ASSUME NEW g \in Waiters, Wait(g) PROVE Quick'
  BY <1>10 DEF Wait
<1>11. ASSUME NEW g \in Waiters, WakeUp(g) PROVE Quick'
  BY <1>11 DEF WakeUp
<1>12. ASSUME NEW g \in Waiters, CheckReuse(g) PROVE Quick'
  BY <1>12 DEF CheckReuse
<1>13. ASSUME NEW g \in Waiters, RunStop(g) PROVE Quick'
  BY <1>13 DEF RunStop
<1>14. CASE UNCHANGED vars
  BY <1>14 DEF vars
<1>. QED
  BY <1>1, <1>2, <1>3, <1>4, <1>5, <1>6, <1>7, <1>8, <1>9, <1>10, <1>11, <1>12, <1>13, <1>14
     DEF Next, WorkerRuns, WaiterRuns, WaiterWaits

\* The counter keeps counting.
LEMMA NextExact ==
    TypeOK /\ Quick /\ Exact /\ [Next]_vars => Exact'
<1>. SUFFICES ASSUME TypeOK, Quick, Exact, [Next]_vars PROVE Exact'
  OBVIOUS
<1>. USE DEF TypeOK, Quick, Exact, Final, Waking, WakingByAdd, Counted, WorkerGoto, WaiterGoto, wg, history
<1>1. ASSUME NEW w \in Workers, Go(w) PROVE Exact'
  <2>. SUFFICES ASSUME Final PROVE Exact'
    BY <1>1 DEF Go
  <2>1. Counted' = Counted
    BY <1>1 DEF Go
  <2>. QED
    BY <1>1, <2>1 DEF Go
<1>2. ASSUME NEW w \in Workers, Register(w) PROVE Exact'
  <2>1. CASE Panics(1)
    <3>1. misused'
      BY <1>2, <2>1 DEF Register
    <3>. QED
      BY <3>1
  <2>2. CASE ~Panics(1) /\ Final /\ ~misused
    <3>. counter \in Nat
      BY <2>2, FS_CardinalityType
    <3>1. worker' = [worker EXCEPT ![w] = "running"] /\ worker[w] = "spawned"
      <4>1. counter + 1 # 0
        OBVIOUS
      <4>2. worker[w] = "spawned"
        BY <1>2 DEF Register, Add
      <4>. QED
        BY <1>2, <2>2, <4>1, <4>2 DEF Register, Add
    <3>2. Counted' = Counted \union {w} /\ w \notin Counted
      BY <3>1
    <3>3. counter' = counter + 1 /\ waiting' = waiting /\ stopType' = stopType
      BY <1>2 DEF Register, Add
    <3>4. IsFiniteSet(Counted') /\ counter' = Cardinality(Counted')
      <4>1. IsFiniteSet(Counted) /\ counter = Cardinality(Counted)
        BY <2>2
      <4>2. /\ IsFiniteSet(Counted \union {w})
            /\ Cardinality(Counted \union {w}) = Cardinality(Counted) + 1
        BY <3>2, <4>1, FS_AddElement, Zenon
      <4>. QED
        BY <3>2, <3>3, <4>1, <4>2
    <3>5. \A v \in Workers : worker[v] \notin Waking
      BY <1>2, <2>2, FS_CardinalityType DEF Panics
    <3>6. \A v \in Workers : worker'[v] \notin Waking \union WakingByAdd
      BY <2>2, <3>1, <3>5
    <3>. QED
      BY <3>4, <3>6
  <2>3. CASE ~Final \/ misused
    <3>1. stopType' = stopType /\ (misused => misused')
      BY <1>2 DEF Register, Add
    <3>. QED
      BY <2>3, <3>1
  <2>. QED
    BY <2>1, <2>2, <2>3
<1>3. ASSUME NEW w \in Workers, EndFn(w) PROVE Exact'
  <2>. SUFFICES ASSUME Final PROVE Exact'
    BY <1>3 DEF EndFn
  <2>1. Counted' = Counted
    BY <1>3 DEF EndFn
  <2>. QED
    BY <1>3, <2>1 DEF EndFn
<1>4. ASSUME NEW w \in Workers, Done(w) PROVE Exact'
  <2>. SUFFICES ASSUME Final, ~misused PROVE Exact'
    BY <1>4 DEF Done, Add
  <2>1. worker[w] = "leaving" /\ w \in Counted /\ Cardinality(Counted) \in Nat
    BY <1>4, FS_CardinalityType DEF Done, Add
  <2>2. counter >= 1
    <3>1. Counted # {}
      BY <2>1
    <3>. QED
      BY <2>1, <3>1, FS_EmptySet
  <2>3. /\ counter' = counter - 1 /\ waiting' = waiting
        /\ misused' = misused /\ stopType' = stopType
    BY <1>4 DEF Done, Add
  <2>. ~Panics(-1)
    BY <2>2 DEF Panics
  <2>4. worker' = [worker EXCEPT ![w] =
                      IF counter = 1 /\ waiting > 0 THEN "recheck" ELSE "closing"]
    BY <1>4, <2>2 DEF Done, Add
  <2>5. Counted' = Counted \ {w}
    BY <2>1, <2>4
  <2>6. IsFiniteSet(Counted') /\ counter' = Cardinality(Counted')
    <3>1. IsFiniteSet(Counted) /\ counter = Cardinality(Counted)
      OBVIOUS
    <3>2. /\ IsFiniteSet(Counted \ {w})
          /\ Cardinality(Counted \ {w}) = Cardinality(Counted) - 1
      BY <2>1, <3>1, FS_RemoveElement, Zenon
    <3>. QED
      BY <2>3, <2>5, <3>1, <3>2
  <2>7. \A v \in Workers : worker[v] \notin Waking \union WakingByAdd
    BY <2>2
  <2>8. \A v \in Workers : worker'[v] \in Waking => v = w /\ counter = 1 /\ waiting > 0
    BY <2>4, <2>7
  <2>9. \A v \in Workers : worker'[v] \notin WakingByAdd
    BY <2>4, <2>7
  <2>. QED
    BY <2>3, <2>6, <2>8, <2>9
<1>5. ASSUME NEW w \in Workers, Recheck(w) PROVE Exact'
  <2>1. Counted' = Counted
    BY <1>5 DEF Recheck
  <2>2. \A v \in Workers : worker'[v] \in Waking => worker[v] \in Waking \union WakingByAdd
    BY <1>5 DEF Recheck
  <2>3. \A v \in Workers : worker'[v] \in WakingByAdd => worker[v] \in WakingByAdd
    BY <1>5 DEF Recheck
  <2>. QED
    BY <1>5, <2>1, <2>2, <2>3 DEF Recheck
<1>6. ASSUME NEW w \in Workers, WakeWaiters(w) PROVE Exact'
  <2>. SUFFICES ASSUME Final, ~misused PROVE Exact'
    BY <1>6 DEF WakeWaiters
  <2>1. worker[w] = "wake" /\ worker' = [worker EXCEPT ![w] = "closing"]
    BY <1>6 DEF WakeWaiters
  <2>2. counter = 0 /\ counter' = 0 /\ Counted' = Counted
    BY <1>6, <2>1 DEF WakeWaiters
  <2>3. \A v \in Workers : worker'[v] \notin Waking \union WakingByAdd
    BY <2>1
  <2>. QED
    BY <1>6, <2>2, <2>3 DEF WakeWaiters
<1>7. ASSUME NEW w \in Workers, CloseTrigger(w) PROVE Exact'
  <2>1. Counted' = Counted
    BY <1>7 DEF CloseTrigger
  <2>. QED
    BY <1>7, <2>1 DEF CloseTrigger
<1>8. ASSUME NEW g \in Waiters, GoWaitStop(g) PROVE Exact'
  BY <1>8 DEF GoWaitStop
<1>9. ASSUME NEW g \in Waiters, Triggered(g) PROVE Exact'
  BY <1>9 DEF Triggered
<1>10. ASSUME NEW g \in Waiters, Wait(g) PROVE Exact'
  BY <1>10 DEF Wait
<1>11. ASSUME NEW g \in Waiters, WakeUp(g) PROVE Exact'
  BY <1>11 DEF WakeUp
<1>12. ASSUME NEW g \in Waiters, CheckReuse(g) PROVE Exact'
  BY <1>12 DEF CheckReuse
<1>13. ASSUME NEW g \in Waiters, RunStop(g) PROVE Exact'
  BY <1>13 DEF RunStop
<1>14. CASE UNCHANGED vars
  BY <1>14 DEF vars
<1>. QED
  BY <1>1, <1>2, <1>3, <1>4, <1>5, <1>6, <1>7, <1>8, <1>9, <1>10, <1>11, <1>12, <1>13, <1>14
     DEF Next, WorkerRuns, WaiterRuns, WaiterWaits

\* Only the end of a function triggers.
LEMMA NextTriggers ==
    TypeOK /\ Triggers /\ [Next]_vars => Triggers'
<1>. SUFFICES ASSUME TypeOK, Triggers, [Next]_vars PROVE Triggers'
  OBVIOUS
<1>. USE DEF TypeOK, Triggers, WorkerGoto, WaiterGoto, wg, history
<1>1. ASSUME NEW w \in Workers, Go(w) PROVE Triggers'
  BY <1>1 DEF Go
<1>2. ASSUME NEW w \in Workers, Register(w) PROVE Triggers'
  BY <1>2 DEF Register, Add, Panics
<1>3. ASSUME NEW w \in Workers, EndFn(w) PROVE Triggers'
  BY <1>3 DEF EndFn
<1>4. ASSUME NEW w \in Workers, Done(w) PROVE Triggers'
  BY <1>4 DEF Done, Add, Panics
<1>5. ASSUME NEW w \in Workers, Recheck(w) PROVE Triggers'
  BY <1>5 DEF Recheck
<1>6. ASSUME NEW w \in Workers, WakeWaiters(w) PROVE Triggers'
  BY <1>6 DEF WakeWaiters
<1>7. ASSUME NEW w \in Workers, CloseTrigger(w) PROVE Triggers'
  BY <1>7 DEF CloseTrigger
<1>8. ASSUME NEW g \in Waiters, GoWaitStop(g) PROVE Triggers'
  BY <1>8 DEF GoWaitStop
<1>9. ASSUME NEW g \in Waiters, Triggered(g) PROVE Triggers'
  BY <1>9 DEF Triggered
<1>10. ASSUME NEW g \in Waiters, Wait(g) PROVE Triggers'
  BY <1>10 DEF Wait
<1>11. ASSUME NEW g \in Waiters, WakeUp(g) PROVE Triggers'
  BY <1>11 DEF WakeUp
<1>12. ASSUME NEW g \in Waiters, CheckReuse(g) PROVE Triggers'
  BY <1>12 DEF CheckReuse
<1>13. ASSUME NEW g \in Waiters, RunStop(g) PROVE Triggers'
  BY <1>13 DEF RunStop
<1>14. CASE UNCHANGED vars
  BY <1>14 DEF vars
<1>. QED
  BY <1>1, <1>2, <1>3, <1>4, <1>5, <1>6, <1>7, <1>8, <1>9, <1>10, <1>11, <1>12, <1>13, <1>14
     DEF Next, WorkerRuns, WaiterRuns, WaiterWaits

\* A goroutine that finds the counter at 0 in Wait waits for nobody.
LEMMA NobodyCounted ==
    ASSUME Quick, Exact, counter = 0, NEW g \in Waiters,
           waiter[g] \in {"groupWait", "asleep", "awake"}
    PROVE  Counted = {} \/ misused
  BY FS_EmptySet DEF Quick, Exact

\* What a stop function waits for has ended.
LEMMA NextCovers ==
    TypeOK /\ Quick /\ Exact /\ Covers /\ [Next]_vars => Covers'
<1>. SUFFICES ASSUME TypeOK, Quick, Exact, Covers, [Next]_vars PROVE Covers'
  OBVIOUS
<1>. USE DEF TypeOK, Covers, StopRuns, Counted, Ended, Final, WorkerGoto, WaiterGoto, wg, history
<1>1. ASSUME NEW w \in Workers, Go(w) PROVE Covers'
  BY <1>1 DEF Go
<1>2. ASSUME NEW w \in Workers, Register(w) PROVE Covers'
  BY <1>2 DEF Register, Add, Panics
<1>3. ASSUME NEW w \in Workers, EndFn(w) PROVE Covers'
  BY <1>3 DEF EndFn
<1>4. ASSUME NEW w \in Workers, Done(w) PROVE Covers'
  BY <1>4 DEF Done, Add, Panics
<1>5. ASSUME NEW w \in Workers, Recheck(w) PROVE Covers'
  BY <1>5 DEF Recheck
<1>6. ASSUME NEW w \in Workers, WakeWaiters(w) PROVE Covers'
  BY <1>6 DEF WakeWaiters
<1>7. ASSUME NEW w \in Workers, CloseTrigger(w) PROVE Covers'
  BY <1>7 DEF CloseTrigger
<1>8. ASSUME NEW g \in Waiters, GoWaitStop(g) PROVE Covers'
  BY <1>8 DEF GoWaitStop
<1>9. ASSUME NEW g \in Waiters, Triggered(g) PROVE Covers'
  BY <1>9 DEF Triggered, Quick
<1>10. ASSUME NEW g \in Waiters, Wait(g) PROVE Covers'
  <2>1. counter = 0 => Counted = {} \/ misused
    BY <1>10, NobodyCounted DEF Wait
  <2>2. covered' = [covered EXCEPT ![g] = Counted] /\ worker' = worker /\ misused' = misused
    BY <1>10 DEF Wait
  <2>3. waiter' = [waiter EXCEPT ![g] = IF counter = 0 THEN "stopping" ELSE "asleep"]
    BY <1>10 DEF Wait
  <2>. QED
    BY <2>1, <2>2, <2>3
<1>11. ASSUME NEW g \in Waiters, WakeUp(g) PROVE Covers'
  BY <1>11 DEF WakeUp
<1>12. ASSUME NEW g \in Waiters, CheckReuse(g) PROVE Covers'
  <2>1. counter = 0 => Counted = {} \/ misused
    BY <1>12, NobodyCounted DEF CheckReuse
  <2>. QED
    BY <1>12, <2>1 DEF CheckReuse
<1>13. ASSUME NEW g \in Waiters, RunStop(g) PROVE Covers'
  BY <1>13 DEF RunStop
<1>14. CASE UNCHANGED vars
  BY <1>14 DEF vars
<1>. QED
  BY <1>1, <1>2, <1>3, <1>4, <1>5, <1>6, <1>7, <1>8, <1>9, <1>10, <1>11, <1>12, <1>13, <1>14
     DEF Next, WorkerRuns, WaiterRuns, WaiterWaits

\* A number of functions is not below 0.
LEMMA CounterNat ==
    Quick /\ Exact => misused \/ counter \in Nat
  BY FS_CardinalityType DEF Quick, Exact

\* The types are kept.
LEMMA NextTypes ==
    TypeOK /\ Quick' /\ Exact' /\ [Next]_vars => TypeOK'
<1>. SUFFICES ASSUME TypeOK, Quick', Exact', [Next]_vars PROVE TypeOK'
  OBVIOUS
<1>0. misused' \/ counter' \in Nat
  <2>1. (Quick /\ Exact => misused \/ counter \in Nat)'
    BY CounterNat, PTL
  <2>. QED
    BY <2>1
<1>. USE DEF TypeOK, Final, WorkerGoto, WaiterGoto, wg, history
<1>1. ASSUME NEW w \in Workers, Go(w) PROVE TypeOK'
  BY <1>1 DEF Go
<1>2. ASSUME NEW w \in Workers, Register(w) PROVE TypeOK'
  BY <1>2 DEF Register, Add, Panics
<1>3. ASSUME NEW w \in Workers, EndFn(w) PROVE TypeOK'
  BY <1>3 DEF EndFn
<1>4. ASSUME NEW w \in Workers, Done(w) PROVE TypeOK'
  <2>1. counter' \in Int /\ (misused' \/ counter' >= 0)
    BY <1>0, <1>4 DEF Done, Add
  <2>2. toWake' \in [Workers -> Nat]
    BY <1>4 DEF Done, Add
  <2>. QED
    BY <1>4, <2>1, <2>2 DEF Done, Add
<1>5. ASSUME NEW w \in Workers, Recheck(w) PROVE TypeOK'
  BY <1>5 DEF Recheck
<1>6. ASSUME NEW w \in Workers, WakeWaiters(w) PROVE TypeOK'
  BY <1>6 DEF WakeWaiters
<1>7. ASSUME NEW w \in Workers, CloseTrigger(w) PROVE TypeOK'
  BY <1>7 DEF CloseTrigger
<1>8. ASSUME NEW g \in Waiters, GoWaitStop(g) PROVE TypeOK'
  BY <1>8 DEF GoWaitStop
<1>9. ASSUME NEW g \in Waiters, Triggered(g) PROVE TypeOK'
  BY <1>9 DEF Triggered
<1>10. ASSUME NEW g \in Waiters, Wait(g) PROVE TypeOK'
  <2>. Counted \in SUBSET Workers
    BY DEF Counted
  <2>. QED
    BY <1>10 DEF Wait
<1>11. ASSUME NEW g \in Waiters, WakeUp(g) PROVE TypeOK'
  BY <1>11 DEF WakeUp
<1>12. ASSUME NEW g \in Waiters, CheckReuse(g) PROVE TypeOK'
  BY <1>12 DEF CheckReuse
<1>13. ASSUME NEW g \in Waiters, RunStop(g) PROVE TypeOK'
  BY <1>13 DEF RunStop
<1>14. CASE UNCHANGED vars
  BY <1>14 DEF vars
<1>. QED
  BY <1>1, <1>2, <1>3, <1>4, <1>5, <1>6, <1>7, <1>8, <1>9, <1>10, <1>11, <1>12, <1>13, <1>14
     DEF Next, WorkerRuns, WaiterRuns, WaiterWaits

-----------------------------------------------------------------------------
\* Every step of the group keeps the parts.
LEMMA NextGroupIInv == GroupIInv /\ [Next]_vars => GroupIInv'
  BY NextQuick, NextExact, NextTriggers, NextCovers, NextTypes DEF GroupIInv

\* The parts hold in every reachable state of the group, for any number of
\* goroutines of Go and GoWaitStop.
THEOREM GroupInvariance == Spec => []GroupIInv
  BY InitGroupIInv, NextGroupIInv, PTL DEF Spec

\* The variables keep their types, and the counter of the wait group does not
\* fall below 0 unless an Add(1) has panicked.
THEOREM GroupTypeCorrect == Spec => []TypeOK
<1>1. GroupIInv => TypeOK
  BY DEF GroupIInv
<1>. QED
  BY <1>1, GroupInvariance, PTL

\* A stop function runs after a function of Go has ended, and under a final stop
\* after all that were in the group when its Wait began.
THEOREM StopsAfterFunctions == Spec => []StopAfterFunctions
<1>1. GroupIInv => StopAfterFunctions
  <2>. SUFFICES ASSUME GroupIInv, NEW g \in Waiters, StopRuns(g)
                PROVE  /\ \E w \in Ended : worker[w] = "done"
                       /\ covered[g] \subseteq Ended \/ misused
    BY DEF StopAfterFunctions
  <2>1. innerStopTrigger
    BY DEF GroupIInv, Triggers, StopRuns
  <2>2. PICK w \in Workers : worker[w] = "done"
    BY <2>1 DEF GroupIInv, Triggers
  <2>3. w \in Ended
    BY <2>2 DEF Ended
  <2>. QED
    BY <2>2, <2>3 DEF GroupIInv, Covers
<1>. QED
  BY <1>1, GroupInvariance, PTL
-----------------------------------------------------------------------------
Callers == Waiters \union Outsiders

Triggering == trigger > 0

\* Who has called TurnOff: somebody, once the trigger channel is closed; not yet
\* a stop function that waits; and somebody else, once a stop function runs that
\* has waited for a loop.
Calls ==
    /\ pc \in [Callers -> Off!PCs] /\ trigger \in Nat
    /\ Triggering => \E c \in Callers : Called(c)
    /\ \A w \in Loops \intersect Ended : Triggering \/ misused
    /\ \A g \in Waiters : Called(g) => StopRuns(g)
    /\ \A g \in Waiters :
          StopRuns(g) /\ covered[g] \intersect Loops # {}
              => misused \/ \E c \in Callers \ {g} : Called(c)

ServiceIInv == GroupIInv /\ Calls
-----------------------------------------------------------------------------
\* What the service does, the goroutines of the stopper do, or nothing.
LEMMA ServiceStepsGroup == [ServiceNext]_serviceVars => [Next]_vars
<1>. SUFFICES ASSUME [ServiceNext]_serviceVars PROVE Next \/ UNCHANGED vars
  OBVIOUS
<1>1. CASE GroupRuns
  BY <1>1 DEF GroupRuns, Next, WaiterRuns
<1>2. ASSUME NEW w \in Workers, FnEnds(w) PROVE Next
  BY <1>2 DEF FnEnds, Next
<1>3. ASSUME NEW g \in Waiters, EnterStop(g) PROVE UNCHANGED vars
  BY <1>3 DEF EnterStop
<1>4. ASSUME NEW g \in Waiters, LeaveStop(g) PROVE Next
  BY <1>4 DEF LeaveStop, Next, WaiterRuns
<1>5. ASSUME NEW o \in Outsiders, CallTurnOff(o) PROVE UNCHANGED vars
  BY <1>5 DEF CallTurnOff
<1>6. ASSUME NEW c \in Waiters \union Outsiders, TurnOffRuns(c) PROVE UNCHANGED vars
  BY <1>6 DEF TurnOffRuns
<1>7. CASE UNCHANGED serviceVars
  BY <1>7 DEF serviceVars
<1>. QED
  BY <1>1, <1>2, <1>3, <1>4, <1>5, <1>6, <1>7 DEF ServiceNext

\* The same of its calls of TurnOff.
LEMMA ServiceStepsOff == [ServiceNext]_serviceVars => [Off!Next]_(Off!vars)
<1>. SUFFICES ASSUME [ServiceNext]_serviceVars PROVE Off!Next \/ UNCHANGED Off!vars
  OBVIOUS
<1>. USE DEF offVars, Off!vars
<1>1. CASE GroupRuns
  BY <1>1 DEF GroupRuns
<1>2. ASSUME NEW w \in Workers, FnEnds(w) PROVE UNCHANGED Off!vars
  BY <1>2 DEF FnEnds
<1>3. ASSUME NEW g \in Waiters, EnterStop(g) PROVE Off!Next
  BY <1>3 DEF EnterStop, Off!Next
<1>4. ASSUME NEW g \in Waiters, LeaveStop(g) PROVE UNCHANGED Off!vars
  BY <1>4 DEF LeaveStop
<1>5. ASSUME NEW o \in Outsiders, CallTurnOff(o) PROVE Off!Next
  BY <1>5 DEF CallTurnOff, Off!Next
<1>6. ASSUME NEW c \in Waiters \union Outsiders, TurnOffRuns(c) PROVE Off!Next
  BY <1>6 DEF TurnOffRuns, Off!Next
<1>7. CASE UNCHANGED serviceVars
  BY <1>7 DEF serviceVars
<1>. QED
  BY <1>1, <1>2, <1>3, <1>4, <1>5, <1>6, <1>7 DEF ServiceNext
-----------------------------------------------------------------------------
\* A call of TurnOff is a call for good.
LEMMA TriggerStopCalls ==
    ASSUME pc \in [Callers -> Off!PCs], trigger \in Nat, NEW c \in Callers,
           Off!TriggerStop(c)
    PROVE  /\ pc' \in [Callers -> Off!PCs] /\ trigger' = trigger
           /\ \A d \in Callers : Called(d)' <=> Called(d) \/ d = c
  BY DEF Off!TriggerStop, Off!Goto, Off!PCs, Called

\* Within TurnOff nobody new calls it, and the trigger is closed by a caller.
LEMMA TurnOffCalls ==
    ASSUME pc \in [Callers -> Off!PCs], trigger \in Nat, NEW c \in Callers,
           TurnOffRuns(c)
    PROVE  /\ pc' \in [Callers -> Off!PCs] /\ trigger' \in Nat
           /\ trigger' = trigger \/ (trigger' > 0 /\ Called(c))
           /\ trigger > 0 => trigger' > 0
           /\ \A d \in Callers : Called(d)' <=> Called(d)
<1>. USE DEF Off!Goto, Off!PCs, Called
<1>1. CASE Off!CloseTrigger(c)
  BY <1>1 DEF Off!CloseTrigger
<1>2. CASE Off!LoadState(c) \/ Off!SwapToStopping(c) \/ Off!StartBody(c)
  BY <1>2 DEF Off!LoadState, Off!SwapToStopping, Off!StartBody
<1>3. CASE Off!SelectDone(c) \/ Off!SelectTimeout(c)
           \/ Off!StoreTimeoutTab(c) \/ Off!StoreTimeoutData(c)
  BY <1>3 DEF Off!SelectDone, Off!SelectTimeout, Off!StoreTimeoutTab, Off!StoreTimeoutData
<1>4. CASE Off!ToStoppedState(c) \/ Off!CloseStopped(c) \/ Off!Return(c)
  BY <1>4 DEF Off!ToStoppedState, Off!CloseStopped, Off!Return
<1>5. CASE Off!FinishInline(c)
  BY <1>5 DEF Off!FinishInline
<1>6. CASE Off!FinishSpawned(c) \/ Off!JoinError(c) \/ Off!StoreJoinedTab(c)
           \/ Off!StoreJoinedData(c) \/ Off!CloseDone(c)
  BY <1>6 DEF Off!FinishSpawned, Off!JoinError, Off!StoreJoinedTab,
              Off!StoreJoinedData, Off!CloseDone
<1>. QED
  BY <1>1, <1>2, <1>3, <1>4, <1>5, <1>6
     DEF TurnOffRuns, Off!Caller, Off!BodyEnds, Off!Spawned

\* What a step of the goroutines does to the ends of functions and to the sets
\* that stop functions wait for.
LEMMA GroupSteps ==
    ASSUME GroupIInv, [Next]_vars
    PROVE  /\ misused => misused'
           /\ Ended \subseteq Ended'
           /\ \A g \in Waiters : StopRuns(g) => StopRuns(g)' /\ covered'[g] = covered[g]
<1>. USE DEF GroupIInv, TypeOK, StopRuns, Ended, WorkerGoto, WaiterGoto, wg, history
<1>1. ASSUME NEW w \in Workers, Go(w) \/ EndFn(w) \/ CloseTrigger(w) PROVE Ended \subseteq Ended'
  BY <1>1 DEF Go, EndFn, CloseTrigger
<1>2. ASSUME NEW w \in Workers, Register(w) \/ Done(w) PROVE Ended \subseteq Ended'
  BY <1>2 DEF Register, Done, Add
<1>3. ASSUME NEW w \in Workers, Recheck(w) \/ WakeWaiters(w) PROVE Ended \subseteq Ended'
  BY <1>3 DEF Recheck, WakeWaiters
<1>4. ASSUME NEW w \in Workers, Go(w) \/ EndFn(w) \/ WorkerRuns(w)
      PROVE  /\ misused => misused'
             /\ waiter' = waiter /\ covered' = covered
  BY <1>4 DEF Go, EndFn, WorkerRuns, Register, Done, Add, Recheck, WakeWaiters, CloseTrigger
<1>5. ASSUME NEW g \in Waiters, GoWaitStop(g) \/ Triggered(g) \/ WakeUp(g)
                                \/ CheckReuse(g) \/ RunStop(g)
      PROVE  /\ worker' = worker /\ misused' = misused
             /\ \A h \in Waiters : StopRuns(h) => StopRuns(h)' /\ covered'[h] = covered[h]
  BY <1>5 DEF GoWaitStop, Triggered, WakeUp, CheckReuse, RunStop
<1>6. ASSUME NEW g \in Waiters, Wait(g)
      PROVE  /\ worker' = worker /\ misused' = misused
             /\ \A h \in Waiters : StopRuns(h) => StopRuns(h)' /\ covered'[h] = covered[h]
  BY <1>6 DEF Wait
<1>7. CASE UNCHANGED vars
  BY <1>7 DEF vars
<1>. QED
  BY <1>1, <1>2, <1>3, <1>4, <1>5, <1>6, <1>7 DEF Next, WorkerRuns, WaiterRuns, WaiterWaits

\* Add(1) wakes nobody up unless one has panicked before.
LEMMA NoWakingByAdd ==
    GroupIInv => misused \/ \A w \in Workers : worker[w] \notin WakingByAdd
  BY DEF GroupIInv, Quick, Exact

\* The functions of GroupRuns that end are no loops, unless Add(1) panics.
LEMMA GroupEnds ==
    ASSUME GroupIInv, GroupRuns
    PROVE  \A w \in Ended' : w \in Ended \/ misused'
<1>. USE DEF GroupIInv, TypeOK, Ended, WorkerGoto, WaiterGoto, wg, history
<1>1. ASSUME NEW w \in Workers, Go(w) \/ CloseTrigger(w) PROVE Ended' \subseteq Ended
  BY <1>1 DEF Go, CloseTrigger
<1>2. ASSUME NEW w \in Workers, Register(w) PROVE \A v \in Ended' : v \in Ended \/ misused'
  BY <1>2 DEF Register, Add
<1>3. ASSUME NEW w \in Workers, Done(w) PROVE Ended' \subseteq Ended
  BY <1>3 DEF Done, Add
<1>4. ASSUME NEW w \in Workers, Recheck(w) \/ WakeWaiters(w)
      PROVE  \A v \in Ended' : v \in Ended \/ misused'
  BY <1>4, NoWakingByAdd DEF Recheck, WakeWaiters, WakingByAdd
<1>5. ASSUME NEW g \in Waiters, GoWaitStop(g) \/ WaiterWaits(g) PROVE worker' = worker
  BY <1>5 DEF GoWaitStop, WaiterWaits, Triggered, Wait, WakeUp, CheckReuse
<1>. QED
  BY <1>1, <1>2, <1>3, <1>4, <1>5 DEF GroupRuns, WorkerRuns

\* Every step keeps Calls.
LEMMA NextCalls ==
    ServiceIInv /\ GroupIInv' /\ [ServiceNext]_serviceVars => Calls'
<1>. SUFFICES ASSUME GroupIInv, Calls, GroupIInv', [ServiceNext]_serviceVars PROVE Calls'
  BY DEF ServiceIInv
<1>. USE OutsidersAssumption, LoopsAssumption
<1>. DEFINE Loop(w) == w \in Loops \intersect Ended' => Triggering' \/ misused'
           Early(g) == Called(g)' => StopRuns(g)'
           Somebody == Triggering' => \E c \in Callers : Called(c)'
<1>1. /\ misused => misused'
      /\ Ended \subseteq Ended'
      /\ \A g \in Waiters : StopRuns(g) => StopRuns(g)' /\ covered'[g] = covered[g]
  BY GroupSteps, ServiceStepsGroup
\* Enough is that the parts but the last one hold after the step.
<1>2. ASSUME pc' \in [Callers -> Off!PCs], trigger' \in Nat, Somebody,
             \A w \in Loops : Loop(w), \A g \in Waiters : Early(g),
             \A c \in Callers : Called(c) => Called(c)',
             \A g \in Waiters : StopRuns(g)' /\ ~StopRuns(g) => ~Called(g)'
      PROVE  Calls'
  <2>1. ASSUME NEW g \in Waiters, StopRuns(g)', NEW w \in covered'[g] \intersect Loops, ~misused'
        PROVE  \E c \in Callers \ {g} : Called(c)'
    <3>1. CASE StopRuns(g)
      <4>1. \E c \in Callers \ {g} : Called(c)
        BY <1>1, <2>1, <3>1 DEF Calls
      <4>. QED
        BY <1>2, <4>1
    <3>2. CASE ~StopRuns(g)
      <4>1. w \in Ended'
        BY <2>1 DEF GroupIInv, Covers
      <4>2. \E c \in Callers : Called(c)'
        BY <1>2, <2>1, <4>1
      <4>. QED
        BY <1>2, <2>1, <3>2, <4>2
    <3>. QED
      BY <3>1, <3>2
  <2>2. ASSUME NEW g \in Waiters, StopRuns(g)', covered'[g] \intersect Loops # {}
        PROVE  misused' \/ \E c \in Callers \ {g} : Called(c)'
    BY <2>1, <2>2
  <2>. QED
    BY <1>2, <2>2 DEF Calls
\* A step of the goroutines.
<1>3. ASSUME UNCHANGED offVars, \A w \in Loops : Loop(w) PROVE Calls'
  <2>1. pc' = pc /\ trigger' = trigger /\ \A c : Called(c)' <=> Called(c)
    BY <1>3 DEF offVars, Called
  <2>2. \A g \in Waiters : Early(g)
    BY <1>1, <2>1 DEF Calls
  <2>3. \A g \in Waiters : StopRuns(g)' /\ ~StopRuns(g) => ~Called(g)'
    BY <2>1 DEF Calls
  <2>4. pc' \in [Callers -> Off!PCs] /\ trigger' \in Nat /\ Somebody
    BY <2>1 DEF Calls, Triggering
  <2>. QED
    BY <1>2, <1>3, <2>1, <2>2, <2>3, <2>4
\* A step of TurnOff.
<1>4. ASSUME UNCHANGED vars, pc' \in [Callers -> Off!PCs], trigger' \in Nat,
             Triggering => Triggering', Somebody,
             \A g \in Waiters : Early(g), \A c \in Callers : Called(c) => Called(c)'
      PROVE  Calls'
  <2>1. /\ Ended' = Ended /\ misused' = misused
        /\ \A g : StopRuns(g)' <=> StopRuns(g)
    BY <1>4 DEF vars, wg, history, Ended, StopRuns
  <2>2. \A w \in Loops : Loop(w)
    BY <1>4, <2>1 DEF Calls
  <2>. QED
    BY <1>2, <1>4, <2>1, <2>2
<1>5. ASSUME NEW c \in Callers, Off!TriggerStop(c), UNCHANGED vars,
             c \in Waiters => waiter[c] = "stopping"
      PROVE  Calls'
  <2>1. /\ pc' \in [Callers -> Off!PCs] /\ trigger' = trigger
        /\ \A d \in Callers : Called(d)' <=> Called(d) \/ d = c
    BY <1>5, TriggerStopCalls DEF Calls
  <2>2. Somebody /\ (Triggering => Triggering') /\ trigger' \in Nat
    BY <2>1 DEF Calls, Triggering
  <2>3. \A g : StopRuns(g)' <=> StopRuns(g)
    BY <1>5 DEF vars, StopRuns
  <2>4. \A g \in Waiters : Early(g)
    BY <1>5, <2>1, <2>3 DEF Calls, StopRuns, Callers
  <2>. QED
    BY <1>4, <1>5, <2>1, <2>2, <2>4
<1>6. CASE GroupRuns
  <2>1. UNCHANGED offVars /\ trigger' = trigger
    BY <1>6 DEF GroupRuns, offVars
  <2>2. \A w \in Loops : Loop(w)
    BY <1>1, <1>6, <2>1, GroupEnds DEF Calls, Triggering
  <2>. QED
    BY <1>3, <2>1, <2>2
<1>7. ASSUME NEW v \in Workers, FnEnds(v) PROVE Calls'
  <2>1. UNCHANGED offVars /\ trigger' = trigger
    BY <1>7 DEF FnEnds, offVars
  <2>2. \A w \in Ended' : w \in Ended \/ w = v
    BY <1>7 DEF FnEnds, EndFn, WorkerGoto, Ended, GroupIInv, TypeOK
  <2>3. \A w \in Loops : Loop(w)
    BY <1>1, <1>7, <2>1, <2>2 DEF Calls, Triggering, FnEnds
  <2>. QED
    BY <1>3, <2>1, <2>3
<1>8. ASSUME NEW g \in Waiters, EnterStop(g) PROVE Calls'
  BY <1>5, <1>8 DEF EnterStop, Callers
<1>9. ASSUME NEW g \in Waiters, LeaveStop(g) PROVE Calls'
  <2>1. UNCHANGED offVars /\ trigger' = trigger /\ Ended' = Ended
    BY <1>9 DEF LeaveStop, RunStop, offVars, Ended
  <2>2. \A w \in Loops : Loop(w)
    BY <1>1, <2>1 DEF Calls, Triggering
  <2>. QED
    BY <1>3, <2>1, <2>2
<1>10. ASSUME NEW o \in Outsiders, CallTurnOff(o) PROVE Calls'
  BY <1>5, <1>10 DEF CallTurnOff, Callers
<1>11. ASSUME NEW c \in Callers, TurnOffRuns(c) PROVE Calls'
  <2>1. /\ pc' \in [Callers -> Off!PCs] /\ trigger' \in Nat
        /\ trigger' = trigger \/ (trigger' > 0 /\ Called(c))
        /\ trigger > 0 => trigger' > 0
        /\ \A d \in Callers : Called(d)' <=> Called(d)
    BY <1>11, TurnOffCalls DEF Calls
  <2>2. UNCHANGED vars
    BY <1>11 DEF TurnOffRuns
  <2>3. Somebody
    BY <2>1 DEF Calls, Triggering
  <2>4. \A g \in Waiters : Early(g)
    BY <2>1, <2>2 DEF Calls, vars, StopRuns, Callers
  <2>. QED
    BY <1>4, <2>1, <2>2, <2>3, <2>4 DEF Triggering
<1>12. CASE UNCHANGED serviceVars
  <2>1. UNCHANGED offVars /\ trigger' = trigger /\ Ended' = Ended
    BY <1>12 DEF serviceVars, offVars, vars, Ended
  <2>2. \A w \in Loops : Loop(w)
    BY <1>1, <2>1 DEF Calls, Triggering
  <2>. QED
    BY <1>3, <2>1, <2>2
<1>. QED
  BY <1>6, <1>7, <1>8, <1>9, <1>10, <1>11, <1>12 DEF ServiceNext, Callers
-----------------------------------------------------------------------------
\* The goroutines of a service are those of a stopper, whatever they call.
THEOREM ServiceIsAGroup == ServiceSpec => Spec
<1>1. ServiceInit => Init
  BY DEF ServiceInit
<1>. QED
  BY <1>1, ServiceStepsGroup, PTL DEF ServiceSpec, Spec

\* So are its calls of TurnOff.
THEOREM ServiceTurnsOff == ServiceSpec => Off!Spec
<1>1. ServiceInit => Off!Init
  BY DEF ServiceInit
<1>. QED
  BY <1>1, ServiceStepsOff, PTL DEF ServiceSpec, Off!Spec

\* The group, the calls of TurnOff and the loops that still run fit together in
\* every reachable state of the service.
THEOREM ServiceInvariance == ServiceSpec => []ServiceIInv
<1>1. ServiceInit => Calls
  <2>. SUFFICES ASSUME Init, Off!Init PROVE Calls
    BY DEF ServiceInit
  <2>1. pc \in [Callers -> Off!PCs] /\ trigger \in Nat /\ ~Triggering
    BY DEF Off!Init, Off!PCs, Callers, Triggering
  <2>2. \A c \in Callers : ~Called(c)
    BY DEF Off!Init, Called, Callers
  <2>3. Ended = {} /\ \A g \in Waiters : ~StopRuns(g) /\ ~Called(g)
    BY <2>2 DEF Init, Ended, StopRuns, Callers
  <2>. QED
    BY <2>1, <2>2, <2>3 DEF Calls
<1>2. ServiceIInv /\ GroupIInv' /\ [ServiceNext]_serviceVars => Calls'
  BY NextCalls
<1>3. ServiceSpec => []GroupIInv
  BY ServiceIsAGroup, GroupInvariance, PTL
<1>. QED
  BY <1>1, <1>2, <1>3, PTL DEF ServiceSpec, ServiceIInv

\* Under a final stop, a stop function that is the first to call TurnOff has
\* waited for no loop: it does not break what it waits for.
THEOREM StopBreaksNoLoop == ServiceSpec => []FinalStopBreaksNoLoop
<1>1. ServiceIInv => FinalStopBreaksNoLoop
  BY DEF ServiceIInv, Calls, Callers, FinalStopBreaksNoLoop
<1>. QED
  BY <1>1, ServiceInvariance, PTL
=============================================================================
