------------------------------ MODULE Delayer ------------------------------
(***************************************************************************)
(* xsync's delayer: SetExpiryTime arms a timer and starts a goroutine that *)
(* waits for it and puts a tick in a channel of one place; Reset and Close *)
(* stop it.  Each operation holds the write lock from end to end and is    *)
(* one step.  The goroutine (handleExpiry) is not: it reads the timer,     *)
(* waits with no lock, and takes the read lock again to send the tick, so  *)
(* any operation may come in between.                                      *)
(*                                                                         *)
(* Timers are those of Go 1.23 and later (go.mod asks for 1.24): after     *)
(* Stop, a tick of the timer that nobody received is never received.       *)
(***************************************************************************)
EXTENDS Naturals, FiniteSets

CONSTANTS
    MaxTime,    \* the clock runs from 1 to MaxTime
    MaxSets     \* how often SetExpiryTime is called

ASSUME BoundsAssumption == MaxTime \in Nat /\ MaxSets \in Nat

Times == 0..MaxTime     \* 0 is the zero time.Time
Handlers == 1..MaxSets  \* the n-th SetExpiryTime starts the n-th goroutine
NoTimer == 0            \* and creates the n-th timer; 0 is nil

VARIABLES
    now,        \* the clock
    expiryTime, timer, tick, stopped,   \* the fields of the delayer
    armed,      \* the timers that run
    deadline,   \* when each timer expires
    handler,    \* where each goroutine is
    waitsFor,   \* the timer it has read
    sets,       \* SetExpiryTime calls so far
    offers,     \* ticks offers to the channel for each timer
    answered,   \* a tick was offers at or after the current expiry time
    lastOp      \* the last operation

clock == <<now>>
fields == <<expiryTime, timer, tick, stopped>>
timers == <<armed, deadline>>
routines == <<handler, waitsFor>>
history == <<sets, offers, answered, lastOp>>
vars == <<clock, fields, timers, routines, history>>

Init ==
    /\ now = 1
    /\ expiryTime = 0 /\ timer = NoTimer /\ tick = 0 /\ stopped = FALSE
    /\ armed = {} /\ deadline = [h \in Handlers |-> 0]
    /\ handler = [h \in Handlers |-> "none"]
    /\ waitsFor = [h \in Handlers |-> NoTimer]
    /\ sets = 0 /\ offers = [h \in Handlers |-> 0]
    /\ answered = FALSE /\ lastOp = "none"

-----------------------------------------------------------------------------
(***************************************************************************)
(* Faults.  Each is an action the way a plausible bug would make it, and   *)
(* takes no part in Spec: put in the place of the action it is named after *)
(* it breaks the properties its comment names.                             *)
(***************************************************************************)
\* A new tick is put behind an old one, in a larger channel: TypeOK.
SetPastUndrained(newTime) ==
    /\ sets < MaxSets
    /\ newTime <= now
    /\ armed' = armed \ {timer}
    /\ stopped' = FALSE /\ tick' = tick + 1 /\ expiryTime' = newTime
    /\ sets' = sets + 1 /\ answered' = TRUE
    /\ lastOp' = "set"
    /\ UNCHANGED <<clock, timer, deadline, routines, offers>>

\* The timer in use is not stopped: OneTimerArmed.
SetFutureLeaksTimer(newTime) ==
    /\ sets < MaxSets
    /\ newTime > now
    /\ stopped' = FALSE /\ tick' = 0 /\ timer' = sets + 1
    /\ armed' = armed \union {sets + 1}
    /\ deadline' = [deadline EXCEPT ![sets + 1] = newTime]
    /\ expiryTime' = newTime
    /\ handler' = [handler EXCEPT ![sets + 1] = "started"]
    /\ sets' = sets + 1 /\ answered' = FALSE /\ lastOp' = "set"
    /\ UNCHANGED <<clock, waitsFor, offers>>

\* A delayer that was reset stays stopped: TickArrives.
SetFutureStaysStopped(newTime) ==
    /\ sets < MaxSets
    /\ newTime > now
    /\ tick' = 0 /\ timer' = sets + 1
    /\ armed' = (armed \ {timer}) \union {sets + 1}
    /\ deadline' = [deadline EXCEPT ![sets + 1] = newTime]
    /\ expiryTime' = newTime
    /\ handler' = [handler EXCEPT ![sets + 1] = "started"]
    /\ sets' = sets + 1 /\ answered' = FALSE /\ lastOp' = "set"
    /\ UNCHANGED <<clock, waitsFor, offers, stopped>>

\* Every goroutine that waits for the timer gets its tick: OneTickPerTimer.
TimerFiresForAll(h) ==
    /\ handler[h] = "waiting"
    /\ waitsFor[h] # NoTimer /\ deadline[waitsFor[h]] <= now
    /\ handler' = [handler EXCEPT ![h] = "fired"]
    /\ UNCHANGED <<clock, fields, timers, waitsFor, history>>

\* The tick is sent whether or not the delayer was stopped: TicksAreDue.
SendTickUnchecked(h) ==
    /\ handler[h] = "fired"
    /\ handler' = [handler EXCEPT ![h] = "done"]
    /\ tick' = 1 /\ offers' = [offers EXCEPT ![waitsFor[h]] = @ + 1]
    /\ answered' = (answered \/ expiryTime <= now)
    /\ UNCHANGED <<clock, expiryTime, timer, stopped, timers, waitsFor, sets,
                   lastOp>>
-----------------------------------------------------------------------------
\* Time passes.
ClockAdvances ==
    /\ now < MaxTime
    /\ now' = now + 1
    /\ UNCHANGED <<fields, timers, routines, history>>

\* SetExpiryTime(newTime) with a time that has passed: the timer is stopped but
\* kept, an old tick is replaced by a new one.
SetPast(newTime) ==
    /\ sets < MaxSets
    /\ newTime <= now
    /\ armed' = armed \ {timer}
    /\ stopped' = FALSE
    /\ tick' = 1
    /\ expiryTime' = newTime
    /\ sets' = sets + 1 /\ answered' = TRUE
    /\ lastOp' = "set"
    /\ UNCHANGED <<clock, timer, deadline, routines, offers>>

\* SetExpiryTime(newTime) with a time to come: a new timer and a new goroutine.
SetFuture(newTime) ==
    /\ sets < MaxSets
    /\ newTime > now
    /\ stopped' = FALSE
    /\ tick' = 0
    /\ timer' = sets + 1
    /\ armed' = (armed \ {timer}) \union {sets + 1}
    /\ deadline' = [deadline EXCEPT ![sets + 1] = newTime]
    /\ expiryTime' = newTime
    /\ handler' = [handler EXCEPT ![sets + 1] = "started"]
    /\ sets' = sets + 1 /\ answered' = FALSE /\ lastOp' = "set"
    /\ UNCHANGED <<clock, waitsFor, offers>>

Reset ==
    /\ armed' = armed \ {timer}
    /\ timer' = NoTimer
    /\ expiryTime' = 0
    /\ stopped' = TRUE
    /\ tick' = 0
    /\ lastOp' = "reset"
    /\ UNCHANGED <<clock, deadline, routines, sets, offers, answered>>

\* Close keeps the expiry time, and its send on stopCh does not block: it
\* reaches one goroutine that is in its select, or none.  A goroutine that has
\* read the timer may not have got there yet.
Close ==
    /\ armed' = armed \ {timer}
    /\ timer' = NoTimer
    /\ stopped' = TRUE
    /\ tick' = 0
    /\ \/ UNCHANGED handler
       \/ \E h \in Handlers :
             handler[h] = "waiting" /\ handler' = [handler EXCEPT ![h] = "done"]
    /\ lastOp' = "close"
    /\ UNCHANGED <<clock, expiryTime, deadline, waitsFor, sets, offers, answered>>

\* Somebody receives from the channel of Wait.
Receive ==
    /\ tick = 1
    /\ tick' = 0
    /\ UNCHANGED <<clock, expiryTime, timer, stopped, timers, routines, history>>

-----------------------------------------------------------------------------
\* handleExpiry reads the timer, which need not be the one it was started for.
ReadTimer(h) ==
    /\ handler[h] = "started"
    /\ handler' = [handler EXCEPT ![h] = IF timer = NoTimer THEN "done"
                                         ELSE "waiting"]
    /\ waitsFor' = [waitsFor EXCEPT ![h] = timer]
    /\ UNCHANGED <<clock, fields, timers, history>>

\* case <-timer.C
TimerFires(h) ==
    /\ handler[h] = "waiting"
    /\ waitsFor[h] \in armed
    /\ deadline[waitsFor[h]] <= now
    /\ armed' = armed \ {waitsFor[h]}
    /\ handler' = [handler EXCEPT ![h] = "fired"]
    /\ UNCHANGED <<clock, fields, deadline, waitsFor, history>>

\* Under the read lock, unless stopped, a tick is offers to the channel.
SendTick(h) ==
    /\ handler[h] = "fired"
    /\ handler' = [handler EXCEPT ![h] = "done"]
    /\ tick' = IF stopped THEN tick ELSE 1
    /\ offers' = IF stopped THEN offers
                 ELSE [offers EXCEPT ![waitsFor[h]] = @ + 1]
    /\ answered' = (answered \/ (~stopped /\ expiryTime <= now))
    /\ UNCHANGED <<clock, expiryTime, timer, stopped, timers, waitsFor, sets,
                   lastOp>>

-----------------------------------------------------------------------------
HandlerRuns(h) == ReadTimer(h) \/ TimerFires(h) \/ SendTick(h)

SetExpiryTime == \E newTime \in Times : SetPast(newTime) \/ SetFuture(newTime)

Next ==
    \/ ClockAdvances
    \/ SetExpiryTime
    \/ Reset \/ Close \/ Receive
    \/ \E h \in Handlers : HandlerRuns(h)

Spec == Init /\ [][Next]_vars

\* The clock runs and so does every goroutine that can.  Nobody has to call an
\* operation or to receive the tick.
FairSpec ==
    /\ Spec
    /\ WF_vars(ClockAdvances)
    /\ \A h \in Handlers : WF_vars(HandlerRuns(h))
-----------------------------------------------------------------------------
\* The types of the variables.
TypeOK ==
    /\ now \in Nat /\ expiryTime \in Times
    /\ timer \in 0..MaxSets /\ tick \in 0..1 /\ stopped \in BOOLEAN
    /\ armed \in SUBSET Handlers /\ deadline \in [Handlers -> Times]
    /\ handler \in [Handlers -> {"none", "started", "waiting", "fired", "done"}]
    /\ waitsFor \in [Handlers -> 0..MaxSets]
    /\ sets \in 0..MaxSets /\ offers \in [Handlers -> Nat] /\ answered \in BOOLEAN
    /\ lastOp \in {"none", "set", "reset", "close"}

\* After Reset and after Close no tick is in the channel and none gets there,
\* whatever goroutines are still on their way.
NoTickWhenStopped == stopped => tick = 0

\* No two timers run at once: only the one the delayer holds can be running,
\* and it expires at the expiry time.
OneTimerArmed == \A t \in armed : t = timer /\ deadline[t] = expiryTime

\* A timer never leads to two ticks, although two goroutines may wait for it
\* (handleExpiry reads the timer late), whatever is set, reset or closed.
OneTickPerTimer == \A t \in Handlers : offers[t] <= 1

\* Once the expiry time is set, a tick is offers at or after it, unless the
\* delayer is set again, reset or closed first.
TickArrives ==
    \A n \in 1..MaxSets :
        (sets = n /\ lastOp = "set")
            ~> (answered \/ sets > n \/ lastOp # "set")

\* A tick that is in the channel before the expiry time has come is of a
\* goroutine whose timer had fired before SetExpiryTime moved the time on, the
\* one gap handleExpiry leaves: no tick is early otherwise.
EarlyTickIsStale ==
    tick = 1 /\ expiryTime > now =>
        \E h \in Handlers : handler[h] = "done" /\ waitsFor[h] \in 1..(timer - 1)

\* There is a tick only when one is due, but for that gap.
TicksAreDue == NoTickWhenStopped /\ EarlyTickIsStale
=============================================================================
