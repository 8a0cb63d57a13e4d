--------------------------- MODULE DelayerProofs ---------------------------
(***************************************************************************)
(* The delayer sends no tick once stopped, runs one timer at a time and    *)
(* sends at most one tick for a timer, for any bounds on the clock and on  *)
(* the calls.  The last one follows a timer from the call that arms it to  *)
(* the goroutine it lets go on, of those that wait for it, and to the tick *)
(* that one offers: never is it in two of these places.                    *)
(***************************************************************************)
EXTENDS Delayer, TLAPS

\* The goroutines whose timer has fired and that have not sent the tick yet.
Fired == {h \in Handlers : handler[h] = "fired"}

\* A timer that is not made yet is nowhere; one that runs has offered no tick
\* and let nobody go on; one that has fired let one goroutine go on.
Unmade ==
    /\ timer <= sets
    /\ \A h \in Handlers : waitsFor[h] <= sets
    /\ \A t \in Handlers : t > sets => t \notin armed /\ offers[t] = 0

Spent ==
    /\ \A t \in armed : offers[t] = 0
    /\ \A h \in Fired : /\ waitsFor[h] \in Handlers \ armed
                         /\ offers[waitsFor[h]] = 0
    /\ \A h, k \in Fired : waitsFor[h] = waitsFor[k] => h = k
    /\ OneTickPerTimer

\* Timers are waited for in the order they were made in; one that has fired and
\* is still the delayer's has fired at the expiry time or after it.
Ordered ==
    /\ expiryTime > now => stopped \/ timer # NoTimer
    /\ timer # NoTimer => \A h \in Handlers : waitsFor[h] <= timer
    /\ timer # NoTimer =>
          \A h \in Fired : waitsFor[h] = timer => expiryTime <= now

IInv ==
    TypeOK /\ NoTickWhenStopped /\ OneTimerArmed /\ Unmade /\ Spent /\ Ordered
        /\ EarlyTickIsStale
-----------------------------------------------------------------------------
\* The types, the Boolean ones apart from those that need arithmetic.
Flags == stopped \in BOOLEAN /\ answered \in BOOLEAN

Ranges ==
    /\ now \in Nat /\ expiryTime \in Times
    /\ timer \in 0..MaxSets /\ tick \in 0..1
    /\ armed \in SUBSET Handlers /\ deadline \in [Handlers -> Times]
    /\ handler \in [Handlers -> {"none", "started", "waiting", "fired", "done"}]
    /\ waitsFor \in [Handlers -> 0..MaxSets]
    /\ sets \in 0..MaxSets /\ offers \in [Handlers -> Nat]
    /\ lastOp \in {"none", "set", "reset", "close"}

LEMMA TypeParts == TypeOK <=> Flags /\ Ranges
  BY DEF TypeOK, Flags, Ranges

\* The types hold initially and every step keeps them.
LEMMA InitTypeOK == Init => TypeOK
<1>1. 0 \in Times /\ 0 \in 0..MaxSets
  BY BoundsAssumption DEF Times
<1>2. Init => Flags
  BY DEF Init, Flags
<1>3. Init => Ranges
  BY <1>1 DEF Init, Ranges, NoTimer
<1>. QED
  BY <1>2, <1>3, TypeParts

LEMMA NextFlags == Flags /\ [Next]_vars => Flags'
<1>. SUFFICES ASSUME Flags, [Next]_vars PROVE Flags'
  OBVIOUS
<1>. USE DEF Flags, fields, history
<1>1. CASE ClockAdvances
  BY <1>1 DEF ClockAdvances
<1>2. ASSUME NEW t \in Times, SetPast(t) PROVE Flags'
  BY <1>2 DEF SetPast
<1>3. ASSUME NEW t \in Times, SetFuture(t) PROVE Flags'
  BY <1>3 DEF SetFuture
<1>4. CASE Reset
  BY <1>4 DEF Reset
<1>5. CASE Close
  BY <1>5 DEF Close
<1>6. CASE Receive
  BY <1>6 DEF Receive
<1>7. ASSUME NEW h \in Handlers, ReadTimer(h) PROVE Flags'
  BY <1>7 DEF ReadTimer
<1>8. ASSUME NEW h \in Handlers, TimerFires(h) PROVE Flags'
  BY <1>8 DEF TimerFires
<1>9. ASSUME NEW h \in Handlers, SendTick(h) PROVE Flags'
  BY <1>9 DEF SendTick
<1>10. CASE UNCHANGED vars
  BY <1>10 DEF vars
<1>. QED
  BY <1>1, <1>2, <1>3, <1>4, <1>5, <1>6, <1>7, <1>8, <1>9, <1>10
     DEF Next, SetExpiryTime, HandlerRuns

LEMMA NextRanges == Ranges /\ [Next]_vars => Ranges'
<1>. SUFFICES ASSUME Ranges, [Next]_vars PROVE Ranges'
  OBVIOUS
<1>a. /\ 0 \in Times /\ 0 \in 0..MaxSets
      /\ sets < MaxSets => sets + 1 \in Handlers /\ sets + 1 \in 0..MaxSets
  BY BoundsAssumption DEF Ranges, Times, Handlers
<1>. USE <1>a
     DEF Ranges, NoTimer, clock, fields, timers, routines, history
<1>1. CASE ClockAdvances
  BY <1>1 DEF ClockAdvances
<1>2. ASSUME NEW t \in Times, SetPast(t) PROVE Ranges'
  BY <1>2 DEF SetPast
<1>3. ASSUME NEW t \in Times, SetFuture(t) PROVE Ranges'
  BY <1>3 DEF SetFuture
<1>4. CASE Reset
  BY <1>4 DEF Reset
<1>5. CASE Close
  BY <1>5 DEF Close
<1>6. CASE Receive
  BY <1>6 DEF Receive
<1>7. ASSUME NEW h \in Handlers, ReadTimer(h) PROVE Ranges'
  BY <1>7 DEF ReadTimer
<1>8. ASSUME NEW h \in Handlers, TimerFires(h) PROVE Ranges'
  BY <1>8 DEF TimerFires
<1>9. ASSUME NEW h \in Handlers, SendTick(h) PROVE Ranges'
  <2>1. offers' \in [Handlers -> Nat]
    <3>1. CASE waitsFor[h] \in Handlers
      BY <1>9, <3>1 DEF SendTick
    <3>2. CASE waitsFor[h] \notin Handlers
      BY <1>9, <3>2 DEF SendTick
    <3>. QED
      BY <3>1, <3>2
  <2>2. tick' \in 0..1
    BY <1>9 DEF SendTick
  <2>. QED
    BY <1>9, <2>1, <2>2 DEF SendTick
<1>10. CASE UNCHANGED vars
  BY <1>10 DEF vars
<1>. QED
  BY <1>1, <1>2, <1>3, <1>4, <1>5, <1>6, <1>7, <1>8, <1>9, <1>10
     DEF Next, SetExpiryTime, HandlerRuns

LEMMA NextTypeOK == TypeOK /\ [Next]_vars => TypeOK'
<1>1. TypeOK' <=> Flags' /\ Ranges'
  BY DEF TypeOK, Flags, Ranges
<1>. QED
  BY <1>1, TypeParts, NextFlags, NextRanges
-----------------------------------------------------------------------------
\* Every step keeps the channel empty once stopped, and one timer armed.
LEMMA NextStopped == NoTickWhenStopped /\ [Next]_vars => NoTickWhenStopped'
  BY DEF NoTickWhenStopped, Next, SetExpiryTime, HandlerRuns, ClockAdvances,
         SetPast, SetFuture, Reset, Close, Receive, ReadTimer, TimerFires,
         SendTick, clock, fields, timers, routines, history, vars

LEMMA NextArmed ==
    TypeOK /\ OneTimerArmed /\ [Next]_vars => OneTimerArmed'
<1>. SUFFICES ASSUME TypeOK, OneTimerArmed, [Next]_vars
              PROVE  OneTimerArmed'
  OBVIOUS
<1>. USE DEF OneTimerArmed, clock, fields, timers, routines, history
<1>1. CASE ClockAdvances \/ Receive \/ UNCHANGED vars
  BY <1>1 DEF ClockAdvances, Receive, vars
<1>2. ASSUME NEW t \in Times, SetPast(t) PROVE OneTimerArmed'
  BY <1>2 DEF SetPast
<1>3. ASSUME NEW t \in Times, SetFuture(t) PROVE OneTimerArmed'
  <2>1. sets + 1 \in Handlers
    BY <1>3, BoundsAssumption DEF SetFuture, TypeOK, Handlers
  <2>2. /\ armed' = {sets + 1} /\ timer' = sets + 1 /\ expiryTime' = t
        /\ deadline' = [deadline EXCEPT ![sets + 1] = t]
    BY <1>3 DEF SetFuture
  <2>. QED
    BY <2>1, <2>2 DEF TypeOK
<1>4. CASE Reset \/ Close
  BY <1>4 DEF Reset, Close
<1>5. ASSUME NEW h \in Handlers, HandlerRuns(h) PROVE OneTimerArmed'
  BY <1>5 DEF HandlerRuns, ReadTimer, TimerFires, SendTick
<1>. QED
  BY <1>1, <1>2, <1>3, <1>4, <1>5 DEF Next, SetExpiryTime
-----------------------------------------------------------------------------
\* Every step keeps the timers to come out of sight.
LEMMA NextUnmade ==
    TypeOK /\ Spent /\ Unmade /\ [Next]_vars => Unmade'
<1>. SUFFICES ASSUME TypeOK, Spent, Unmade, [Next]_vars
              PROVE  Unmade'
  OBVIOUS
<1>. USE BoundsAssumption
     DEF TypeOK, Spent, Fired, Unmade, Handlers, NoTimer,
         clock, fields, timers, routines, history
<1>1. CASE ClockAdvances \/ Receive \/ UNCHANGED vars
  BY <1>1 DEF ClockAdvances, Receive, vars
<1>2. ASSUME NEW t \in Times, SetPast(t) PROVE Unmade'
  BY <1>2 DEF SetPast
<1>3. ASSUME NEW t \in Times, SetFuture(t) PROVE Unmade'
  BY <1>3 DEF SetFuture
<1>4. CASE Reset \/ Close
  BY <1>4 DEF Reset, Close
<1>5. ASSUME NEW h \in Handlers, ReadTimer(h) PROVE Unmade'
  BY <1>5 DEF ReadTimer
<1>6. ASSUME NEW h \in Handlers, TimerFires(h) PROVE Unmade'
  BY <1>6 DEF TimerFires
<1>7. ASSUME NEW h \in Handlers, SendTick(h) PROVE Unmade'
  BY <1>7 DEF SendTick
<1>. QED
  BY <1>1, <1>2, <1>3, <1>4, <1>5, <1>6, <1>7
     DEF Next, SetExpiryTime, HandlerRuns

\* Every step keeps a timer in one place.
LEMMA NextSpent ==
    TypeOK /\ OneTimerArmed /\ Unmade /\ Spent /\ [Next]_vars => Spent'
<1>. SUFFICES ASSUME TypeOK, OneTimerArmed, Unmade, Spent, [Next]_vars
              PROVE  Spent'
  OBVIOUS
<1>. USE BoundsAssumption
     DEF TypeOK, Unmade, Spent, Fired, OneTickPerTimer, OneTimerArmed, Handlers,
         NoTimer, clock, fields, timers, routines, history
<1>1. CASE ClockAdvances \/ Receive \/ UNCHANGED vars
  BY <1>1 DEF ClockAdvances, Receive, vars
<1>2. ASSUME NEW t \in Times, SetPast(t) PROVE Spent'
  BY <1>2 DEF SetPast
<1>3. ASSUME NEW t \in Times, SetFuture(t) PROVE Spent'
  BY <1>3 DEF SetFuture
<1>4. CASE Reset \/ Close
  BY <1>4 DEF Reset, Close
<1>5. ASSUME NEW h \in Handlers, ReadTimer(h) PROVE Spent'
  BY <1>5 DEF ReadTimer
<1>6. ASSUME NEW h \in Handlers, TimerFires(h) PROVE Spent'
  BY <1>6 DEF TimerFires
<1>7. ASSUME NEW h \in Handlers, SendTick(h) PROVE Spent'
  BY <1>7 DEF SendTick
<1>. QED
  BY <1>1, <1>2, <1>3, <1>4, <1>5, <1>6, <1>7
     DEF Next, SetExpiryTime, HandlerRuns

\* Every step keeps the timers in order.
LEMMA NextOrdered ==
    TypeOK /\ OneTimerArmed /\ Unmade /\ Ordered /\ [Next]_vars => Ordered'
<1>. SUFFICES ASSUME TypeOK, OneTimerArmed, Unmade, Ordered, [Next]_vars
              PROVE  Ordered'
  OBVIOUS
<1>. USE BoundsAssumption
     DEF TypeOK, Unmade, Ordered, Fired, Handlers, Times, NoTimer,
         clock, fields, timers, routines, history
<1>1. CASE ClockAdvances \/ Receive \/ UNCHANGED vars
  <2>1. CASE ClockAdvances
    BY <2>1 DEF ClockAdvances
  <2>2. CASE Receive
    BY <2>2 DEF Receive
  <2>3. CASE UNCHANGED vars
    BY <2>3 DEF vars
  <2>. QED
    BY <1>1, <2>1, <2>2, <2>3
<1>2. ASSUME NEW t \in Times, SetPast(t) PROVE Ordered'
  BY <1>2 DEF SetPast
<1>3. ASSUME NEW t \in Times, SetFuture(t) PROVE Ordered'
  BY <1>3 DEF SetFuture
<1>4. CASE Reset \/ Close
  BY <1>4 DEF Reset, Close
<1>5. ASSUME NEW h \in Handlers, ReadTimer(h) PROVE Ordered'
  <2>1. /\ handler' = [handler EXCEPT ![h] = IF timer = NoTimer THEN "done" ELSE "waiting"]
        /\ waitsFor' = [waitsFor EXCEPT ![h] = timer] /\ handler[h] = "started"
        /\ UNCHANGED <<now, expiryTime, timer, stopped>>
    BY <1>5 DEF ReadTimer
  <2>2. timer # NoTimer => \A k \in Handlers : waitsFor'[k] <= timer
    BY <2>1
  <2>3. \A k \in Fired' : k \in Fired /\ waitsFor'[k] = waitsFor[k]
    BY <2>1
  <2>. QED
    BY <2>1, <2>2, <2>3
<1>6. ASSUME NEW h \in Handlers, TimerFires(h) PROVE Ordered'
  BY <1>6 DEF TimerFires, OneTimerArmed
<1>7. ASSUME NEW h \in Handlers, SendTick(h) PROVE Ordered'
  BY <1>7 DEF SendTick
<1>. QED
  BY <1>1, <1>2, <1>3, <1>4, <1>5, <1>6, <1>7
     DEF Next, SetExpiryTime, HandlerRuns

\* A step that leaves tick and expiry time alone loses no goroutine that is done.
LEMMA NextStale ==
    TypeOK /\ NoTickWhenStopped /\ Unmade /\ Spent /\ Ordered /\ EarlyTickIsStale
        /\ [Next]_vars => EarlyTickIsStale'
<1>. SUFFICES ASSUME TypeOK, NoTickWhenStopped, Unmade, Spent, Ordered,
                     EarlyTickIsStale, [Next]_vars, tick' = 1, expiryTime' > now'
              PROVE  \E h \in Handlers :
                        handler'[h] = "done" /\ waitsFor'[h] \in 1..(timer' - 1)
  BY DEF EarlyTickIsStale
<1>. USE DEF EarlyTickIsStale, clock, fields, timers, routines, history
<1>1. CASE ClockAdvances \/ UNCHANGED vars
  BY <1>1 DEF TypeOK, Times, ClockAdvances, vars
<1>2. ASSUME NEW t \in Times, SetPast(t) PROVE FALSE
  BY <1>2 DEF SetPast, TypeOK, Times
<1>3. CASE Reset \/ Close \/ Receive \/ \E t \in Times : SetFuture(t)
  BY <1>3 DEF Reset, Close, Receive, SetFuture
<1>4. ASSUME NEW h \in Handlers, ReadTimer(h) \/ TimerFires(h)
      PROVE  \E k \in Handlers :
                handler'[k] = "done" /\ waitsFor'[k] \in 1..(timer' - 1)
  <2>1. PICK k \in Handlers : handler[k] = "done" /\ waitsFor[k] \in 1..(timer - 1)
    BY <1>4 DEF ReadTimer, TimerFires
  <2>2. k # h
    BY <1>4, <2>1 DEF ReadTimer, TimerFires
  <2>. QED
    BY <1>4, <2>1, <2>2 DEF ReadTimer, TimerFires, TypeOK
<1>5. ASSUME NEW h \in Handlers, SendTick(h)
      PROVE  \E k \in Handlers :
                handler'[k] = "done" /\ waitsFor'[k] \in 1..(timer' - 1)
  <2>1. CASE stopped
    BY <1>5, <2>1 DEF SendTick, NoTickWhenStopped
  <2>2. CASE ~stopped
    <3>1. timer # NoTimer
      BY <1>5, <2>2 DEF SendTick, Ordered
    <3>2. waitsFor[h] \in Handlers /\ waitsFor[h] <= timer
      BY <1>5, <3>1 DEF SendTick, Spent, Fired, Ordered
    <3>3. waitsFor[h] # timer
      BY <1>5, <3>1 DEF SendTick, Fired, Ordered, TypeOK, Times
    <3>4. handler'[h] = "done" /\ waitsFor'[h] \in 1..(timer' - 1)
      BY <1>5, <3>2, <3>3, BoundsAssumption DEF SendTick, TypeOK, Handlers
    <3>. QED
      BY <3>4
  <2>. QED
    BY <2>1, <2>2
<1>. QED
  BY <1>1, <1>2, <1>3, <1>4, <1>5 DEF Next, SetExpiryTime, HandlerRuns
-----------------------------------------------------------------------------
\* The inductive invariant holds in every reachable state.
THEOREM Invariance == Spec => []IInv
<1>1. Init => IInv
  <2>. SUFFICES ASSUME Init PROVE IInv
    OBVIOUS
  <2>1. NoTickWhenStopped /\ OneTimerArmed
    BY DEF Init, NoTickWhenStopped, OneTimerArmed
  <2>2. Unmade
    BY DEF Init, Unmade, NoTimer, Handlers
  <2>3. Spent
    BY DEF Init, Spent, Fired, OneTickPerTimer
  <2>4. Ordered /\ EarlyTickIsStale
    BY DEF Init, Ordered, EarlyTickIsStale, Fired, NoTimer
  <2>. QED
    BY InitTypeOK, <2>1, <2>2, <2>3, <2>4 DEF IInv
<1>2. IInv /\ [Next]_vars => IInv'
  BY NextTypeOK, NextStopped, NextArmed, NextUnmade, NextSpent,
     NextOrdered, NextStale DEF IInv
<1>. QED
  BY <1>1, <1>2, PTL DEF Spec

\* The variables keep their types.
THEOREM TypeCorrect == Spec => []TypeOK
<1>1. IInv => TypeOK
  BY DEF IInv
<1>. QED
  BY <1>1, Invariance, PTL

\* No tick is left or sent once Reset or Close has stopped the delayer.
THEOREM StoppedIsSilent == Spec => []NoTickWhenStopped
<1>1. IInv => NoTickWhenStopped
  BY DEF IInv
<1>. QED
  BY <1>1, Invariance, PTL

\* At most one timer runs, and it is the one of the expiry time.
THEOREM ArmsOneTimer == Spec => []OneTimerArmed
<1>1. IInv => OneTimerArmed
  BY DEF IInv
<1>. QED
  BY <1>1, Invariance, PTL

\* There is a tick only when one is due, but for the one of a goroutine whose
\* timer had fired before the expiry time was moved on.
THEOREM TicksDue == Spec => []TicksAreDue
<1>1. IInv => TicksAreDue
  BY DEF IInv, TicksAreDue
<1>. QED
  BY <1>1, Invariance, PTL

\* However goroutines and operations interleave, a timer leads to one tick at
\* most.
THEOREM TicksBounded == Spec => []OneTickPerTimer
<1>1. IInv => OneTickPerTimer
  BY DEF IInv, Spent
<1>. QED
  BY <1>1, Invariance, PTL
=============================================================================
