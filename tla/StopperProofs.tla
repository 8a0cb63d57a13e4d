--------------------------- MODULE StopperProofs ---------------------------
(***************************************************************************)
(* Stopper is correct for any set of callers, with and without a timeout.  *)
(* The inductive invariant has three parts, each inductive with the help   *)
(* of the ones before it: who holds the mutex and who has won (Admission), *)
(* which channel is about to be closed (Channels), and what the words of   *)
(* the result are at each step of the shutdown function (Result).          *)
(***************************************************************************)
EXTENDS Stopper, TLAPS

Outside == {"start", "close", "lock", "swap"}
Inside == {"run", "wait", "select", "timeout", "timeoutData", "deferred"}

\* The mutex is held exactly by the caller between load and swap, whose swap
\* will succeed; a winner has moved the state on, and there is only one.
Admission ==
    /\ \A c \in Callers : c \in mu <=> pc[c] = "swap"
    /\ \A c, d \in mu : c = d
    /\ \A c \in Callers : pc[c] # "start" => state >= Triggered
    /\ \A c \in Callers : pc[c] = "swap" => state = seen[c] /\ state < Stopping
    /\ \A c \in Callers : pc[c] \in Outside \union {"run"} => body[c] = "none"
    /\ \A c \in Callers : pc[c] \in (Inside \ {"run"})
                                    \union {"closeStopped", "unwound"}
                              => body[c] # "none"
    /\ \A c, d \in Winners : c = d
    /\ state >= Stopping <=> Winners # {}
    /\ \A c \in Winners : state = Stopping <=> pc[c] \in Inside
    /\ \A c \in Callers :
          pc[c] \in {"return", "done"} => state >= Stopping

\* A channel about to be closed is still open.
Channels ==
    /\ state = Idle => trigger = 0
    /\ \A c \in Callers : pc[c] = "close" => trigger = 0
    /\ \A c, d \in Callers : pc[c] = "close" /\ pc[d] = "close" => c = d
    /\ state < Stopped => stoppedChan = 0
    /\ \A c \in Callers : pc[c] = "closeStopped" => stoppedChan = 0
    /\ ClosedOnce

\* As long as TurnOff waits for its function, nobody else writes err.
Result ==
    /\ \A c \in Callers : pc[c] \in {"timeout", "timeoutData"} => c \in gaveUp
    /\ \A c \in Winners \ gaveUp :
          pc[c] \in {"deferred", "closeStopped", "return", "done", "unwound"}
              => body[c] \in {"finished", "panicked"}
    /\ \A c \in Callers \ gaveUp :
          /\ pending[c] \in {"nil", "failed"}
          /\ body[c] \in {"none", "running"} => pending[c] = "nil"
          /\ body[c] \in {"none", "running", "joined"} => err[c] = Whole("nil")
          /\ body[c] = "storing" => err[c].tab = pending[c]
          /\ body[c] \in {"closing", "finished"} => err[c] = Whole(pending[c])
          /\ pc[c] = "done" => ret[c] = Whole(pending[c])
    /\ \A c \in gaveUp : body[c] # "none"

IInv == TypeOK /\ Admission /\ Channels /\ Result
-----------------------------------------------------------------------------

\* The types hold initially and every step of TurnOff keeps them.
LEMMA InitTypeOK == Init => TypeOK
  BY TimeoutsAssumption
  DEF Init, TypeOK, Whole, Words, PCs, Bodies, Idle, Stopped

LEMMA NextTypeOK == TypeOK /\ [Next]_vars => TypeOK'
<1>. SUFFICES ASSUME TypeOK, [Next]_vars PROVE TypeOK'
  OBVIOUS
<1>. USE DEF TypeOK, Goto, result, Whole, Words, PCs, Bodies,
             Idle, Triggered, Stopping, Stopped
<1>1. ASSUME NEW c \in Callers, TriggerStop(c) PROVE TypeOK'
  BY <1>1 DEF TriggerStop
<1>2. ASSUME NEW c \in Callers, CloseTrigger(c) PROVE TypeOK'
  BY <1>2 DEF CloseTrigger
<1>3. ASSUME NEW c \in Callers, LoadState(c) PROVE TypeOK'
  BY <1>3 DEF LoadState
<1>4. ASSUME NEW c \in Callers, SwapToStopping(c) PROVE TypeOK'
  BY <1>4 DEF SwapToStopping
<1>5. ASSUME NEW c \in Callers, StartBody(c) PROVE TypeOK'
  BY <1>5 DEF StartBody
<1>6. ASSUME NEW c \in Callers, FinishInline(c) PROVE TypeOK'
  BY <1>6 DEF FinishInline
<1>7. ASSUME NEW c \in Callers, FinishSpawned(c) PROVE TypeOK'
  BY <1>7 DEF FinishSpawned
<1>8. ASSUME NEW c \in Callers, JoinError(c) PROVE TypeOK'
  BY <1>8 DEF JoinError
<1>9. ASSUME NEW c \in Callers, StoreJoinedTab(c) PROVE TypeOK'
  BY <1>9 DEF StoreJoinedTab
<1>10. ASSUME NEW c \in Callers, StoreJoinedData(c) PROVE TypeOK'
  BY <1>10 DEF StoreJoinedData
<1>11. ASSUME NEW c \in Callers, CloseDone(c) PROVE TypeOK'
  BY <1>11 DEF CloseDone
<1>12. ASSUME NEW c \in Callers, SelectDone(c) PROVE TypeOK'
  BY <1>12 DEF SelectDone
<1>13. ASSUME NEW c \in Callers, SelectTimeout(c) PROVE TypeOK'
  BY <1>13 DEF SelectTimeout
<1>14. ASSUME NEW c \in Callers, StoreTimeoutTab(c) PROVE TypeOK'
  BY <1>14 DEF StoreTimeoutTab
<1>15. ASSUME NEW c \in Callers, StoreTimeoutData(c) PROVE TypeOK'
  BY <1>15 DEF StoreTimeoutData
<1>16. ASSUME NEW c \in Callers, ToStoppedState(c) PROVE TypeOK'
  BY <1>16 DEF ToStoppedState
<1>17. ASSUME NEW c \in Callers, CloseStopped(c) PROVE TypeOK'
  BY <1>17 DEF CloseStopped
<1>18. ASSUME NEW c \in Callers, Return(c) PROVE TypeOK'
  BY <1>18 DEF Return
<1>19. CASE UNCHANGED vars
  BY <1>19 DEF vars
<1>. QED
  BY <1>1, <1>2, <1>3, <1>4, <1>5, <1>6, <1>7, <1>8, <1>9, <1>10, <1>11, <1>12, <1>13, <1>14, <1>15, <1>16, <1>17, <1>18, <1>19
     DEF Next, Caller, BodyEnds, Spawned

-----------------------------------------------------------------------------
\* Admission holds initially: nobody has called TurnOff.
LEMMA InitAdmission == Init => Admission
  BY DEF Init, Admission, Winners, Inside, Outside, Idle, Triggered, Stopping

\* Every step keeps Admission.
LEMMA NextAdmission == TypeOK /\ Admission /\ [Next]_vars => Admission'
<1>. SUFFICES ASSUME TypeOK, Admission, [Next]_vars PROVE Admission'
  OBVIOUS
<1>. USE DEF TypeOK, Admission, Winners, Inside, Outside, Goto, result,
             Idle, Triggered, Stopping, Stopped
<1>1. ASSUME NEW c \in Callers, TriggerStop(c) PROVE Admission'
  <2>1. pc[c] = "start" /\ mu' = mu /\ seen' = seen /\ body' = body
    BY <1>1 DEF TriggerStop
  <2>2. CASE state = Idle
    <3>1. pc' = [pc EXCEPT ![c] = "close"] /\ state' = Triggered
      BY <1>1, <2>2 DEF TriggerStop
    <3>. QED
      BY <2>1, <2>2, <3>1
  <2>3. CASE state # Idle
    <3>1. pc' = [pc EXCEPT ![c] = "lock"] /\ state' = state
      BY <1>1, <2>3 DEF TriggerStop
    <3>2. state >= Triggered
      BY <2>3
    <3>. QED
      BY <2>1, <3>1, <3>2
  <2>. QED
    BY <2>2, <2>3
<1>2. ASSUME NEW c \in Callers, CloseTrigger(c) PROVE Admission'
  BY <1>2 DEF CloseTrigger
<1>3. ASSUME NEW c \in Callers, LoadState(c) PROVE Admission'
  <2>1. CASE state >= Stopping
    <3>1. pc' = [pc EXCEPT ![c] = "return"] /\ mu' = mu /\ pc[c] = "lock"
      BY <1>3, <2>1 DEF LoadState
    <3>2. state' = state /\ body' = body /\ seen' = seen
      BY <1>3, <2>1 DEF LoadState
    <3>. QED
      BY <2>1, <3>1, <3>2
  <2>2. CASE state < Stopping
    <3>1. pc' = [pc EXCEPT ![c] = "swap"] /\ pc[c] = "lock"
      BY <1>3, <2>2 DEF LoadState
    <3>2. mu = {} /\ mu' = {c} /\ seen' = [seen EXCEPT ![c] = state]
      BY <1>3, <2>2 DEF LoadState
    <3>3. state' = state /\ body' = body
      BY <1>3, <2>2 DEF LoadState
    <3>. QED
      BY <2>2, <3>1, <3>2, <3>3
  <2>. QED
    BY <2>1, <2>2
<1>4. ASSUME NEW c \in Callers, SwapToStopping(c) PROVE Admission'
  BY <1>4 DEF SwapToStopping
<1>5. ASSUME NEW c \in Callers, StartBody(c) PROVE Admission'
  BY <1>5 DEF StartBody
<1>6. ASSUME NEW c \in Callers, FinishInline(c) PROVE Admission'
  BY <1>6 DEF FinishInline
<1>7. ASSUME NEW c \in Callers, FinishSpawned(c) PROVE Admission'
  BY <1>7 DEF FinishSpawned
<1>8. ASSUME NEW c \in Callers, JoinError(c) PROVE Admission'
  BY <1>8 DEF JoinError
<1>9. ASSUME NEW c \in Callers, StoreJoinedTab(c) PROVE Admission'
  BY <1>9 DEF StoreJoinedTab
<1>10. ASSUME NEW c \in Callers, StoreJoinedData(c) PROVE Admission'
  BY <1>10 DEF StoreJoinedData
<1>11. ASSUME NEW c \in Callers, CloseDone(c) PROVE Admission'
  BY <1>11 DEF CloseDone
<1>12. ASSUME NEW c \in Callers, SelectDone(c) PROVE Admission'
  BY <1>12 DEF SelectDone
<1>13. ASSUME NEW c \in Callers, SelectTimeout(c) PROVE Admission'
  BY <1>13 DEF SelectTimeout
<1>14. ASSUME NEW c \in Callers, StoreTimeoutTab(c) PROVE Admission'
  BY <1>14 DEF StoreTimeoutTab
<1>15. ASSUME NEW c \in Callers, StoreTimeoutData(c) PROVE Admission'
  BY <1>15 DEF StoreTimeoutData
<1>16. ASSUME NEW c \in Callers, ToStoppedState(c) PROVE Admission'
  BY <1>16 DEF ToStoppedState
<1>17. ASSUME NEW c \in Callers, CloseStopped(c) PROVE Admission'
  BY <1>17 DEF CloseStopped
<1>18. ASSUME NEW c \in Callers, Return(c) PROVE Admission'
  BY <1>18 DEF Return
<1>19. CASE UNCHANGED vars
  BY <1>19 DEF vars
<1>. QED
  BY <1>1, <1>2, <1>3, <1>4, <1>5, <1>6, <1>7, <1>8, <1>9, <1>10, <1>11, <1>12, <1>13, <1>14, <1>15, <1>16, <1>17, <1>18, <1>19
     DEF Next, Caller, BodyEnds, Spawned

-----------------------------------------------------------------------------
\* Channels holds initially: both are open.
LEMMA InitChannels == Init => Channels
  BY DEF Init, Channels, ClosedOnce, Idle, Stopped

\* Every step keeps Channels.
LEMMA NextChannels ==
    TypeOK /\ Admission /\ Channels /\ [Next]_vars => Channels'
<1>. SUFFICES ASSUME TypeOK, Admission, Channels, [Next]_vars
              PROVE  Channels'
  OBVIOUS
<1>. USE DEF TypeOK, Admission, Channels, ClosedOnce, Winners, Inside, Outside,
             Goto, result, Idle, Triggered, Stopping, Stopped
<1>1. ASSUME NEW c \in Callers, TriggerStop(c) PROVE Channels'
  BY <1>1 DEF TriggerStop
<1>2. ASSUME NEW c \in Callers, CloseTrigger(c) PROVE Channels'
  BY <1>2 DEF CloseTrigger
<1>3. ASSUME NEW c \in Callers, LoadState(c) PROVE Channels'
  BY <1>3 DEF LoadState
<1>4. ASSUME NEW c \in Callers, SwapToStopping(c) PROVE Channels'
  BY <1>4 DEF SwapToStopping
<1>5. ASSUME NEW c \in Callers, StartBody(c) PROVE Channels'
  BY <1>5 DEF StartBody
<1>6. ASSUME NEW c \in Callers, FinishInline(c) PROVE Channels'
  BY <1>6 DEF FinishInline
<1>7. ASSUME NEW c \in Callers, FinishSpawned(c) PROVE Channels'
  BY <1>7 DEF FinishSpawned
<1>8. ASSUME NEW c \in Callers, JoinError(c) PROVE Channels'
  BY <1>8 DEF JoinError
<1>9. ASSUME NEW c \in Callers, StoreJoinedTab(c) PROVE Channels'
  BY <1>9 DEF StoreJoinedTab
<1>10. ASSUME NEW c \in Callers, StoreJoinedData(c) PROVE Channels'
  BY <1>10 DEF StoreJoinedData
<1>11. ASSUME NEW c \in Callers, CloseDone(c) PROVE Channels'
  BY <1>11 DEF CloseDone
<1>12. ASSUME NEW c \in Callers, SelectDone(c) PROVE Channels'
  BY <1>12 DEF SelectDone
<1>13. ASSUME NEW c \in Callers, SelectTimeout(c) PROVE Channels'
  BY <1>13 DEF SelectTimeout
<1>14. ASSUME NEW c \in Callers, StoreTimeoutTab(c) PROVE Channels'
  BY <1>14 DEF StoreTimeoutTab
<1>15. ASSUME NEW c \in Callers, StoreTimeoutData(c) PROVE Channels'
  BY <1>15 DEF StoreTimeoutData
<1>16. ASSUME NEW c \in Callers, ToStoppedState(c) PROVE Channels'
  BY <1>16 DEF ToStoppedState
<1>17. ASSUME NEW c \in Callers, CloseStopped(c) PROVE Channels'
  BY <1>17 DEF CloseStopped
<1>18. ASSUME NEW c \in Callers, Return(c) PROVE Channels'
  BY <1>18 DEF Return
<1>19. CASE UNCHANGED vars
  BY <1>19 DEF vars
<1>. QED
  BY <1>1, <1>2, <1>3, <1>4, <1>5, <1>6, <1>7, <1>8, <1>9, <1>10, <1>11, <1>12, <1>13, <1>14, <1>15, <1>16, <1>17, <1>18, <1>19
     DEF Next, Caller, BodyEnds, Spawned

-----------------------------------------------------------------------------
\* Result holds initially: every result is nil.
LEMMA InitResult == Init => Result
  BY DEF Init, Result, Winners

\* Every step keeps Result.
LEMMA NextResult ==
    TypeOK /\ Admission /\ Result /\ [Next]_vars => Result'
<1>. SUFFICES ASSUME TypeOK, Admission, Result, [Next]_vars
              PROVE  Result'
  OBVIOUS
<1>. USE DEF TypeOK, Admission, Result, Winners, Inside, Outside, Goto, result,
             Whole, Words
<1>1. ASSUME NEW c \in Callers, TriggerStop(c) PROVE Result'
  BY <1>1 DEF TriggerStop
<1>2. ASSUME NEW c \in Callers, CloseTrigger(c) PROVE Result'
  BY <1>2 DEF CloseTrigger
<1>3. ASSUME NEW c \in Callers, LoadState(c) PROVE Result'
  BY <1>3 DEF LoadState
<1>4. ASSUME NEW c \in Callers, SwapToStopping(c) PROVE Result'
  BY <1>4 DEF SwapToStopping
<1>5. ASSUME NEW c \in Callers, StartBody(c) PROVE Result'
  BY <1>5 DEF StartBody
<1>6. ASSUME NEW c \in Callers, FinishInline(c) PROVE Result'
  BY <1>6 DEF FinishInline
<1>7. ASSUME NEW c \in Callers, FinishSpawned(c) PROVE Result'
  BY <1>7 DEF FinishSpawned
<1>8. ASSUME NEW c \in Callers, JoinError(c) PROVE Result'
  BY <1>8 DEF JoinError
<1>9. ASSUME NEW c \in Callers, StoreJoinedTab(c) PROVE Result'
  BY <1>9 DEF StoreJoinedTab
<1>10. ASSUME NEW c \in Callers, StoreJoinedData(c) PROVE Result'
  BY <1>10 DEF StoreJoinedData
<1>11. ASSUME NEW c \in Callers, CloseDone(c) PROVE Result'
  BY <1>11 DEF CloseDone
<1>12. ASSUME NEW c \in Callers, SelectDone(c) PROVE Result'
  BY <1>12 DEF SelectDone
<1>13. ASSUME NEW c \in Callers, SelectTimeout(c) PROVE Result'
  BY <1>13 DEF SelectTimeout
<1>14. ASSUME NEW c \in Callers, StoreTimeoutTab(c) PROVE Result'
  BY <1>14 DEF StoreTimeoutTab
<1>15. ASSUME NEW c \in Callers, StoreTimeoutData(c) PROVE Result'
  BY <1>15 DEF StoreTimeoutData
<1>16. ASSUME NEW c \in Callers, ToStoppedState(c) PROVE Result'
  BY <1>16 DEF ToStoppedState
<1>17. ASSUME NEW c \in Callers, CloseStopped(c) PROVE Result'
  BY <1>17 DEF CloseStopped
<1>18. ASSUME NEW c \in Callers, Return(c) PROVE Result'
  BY <1>18 DEF Return
<1>19. CASE UNCHANGED vars
  BY <1>19 DEF vars
<1>. QED
  BY <1>1, <1>2, <1>3, <1>4, <1>5, <1>6, <1>7, <1>8, <1>9, <1>10, <1>11, <1>12, <1>13, <1>14, <1>15, <1>16, <1>17, <1>18, <1>19
     DEF Next, Caller, BodyEnds, Spawned

-----------------------------------------------------------------------------
\* The inductive invariant holds in every reachable state.
THEOREM Invariance == Spec => []IInv
<1>1. Init => IInv
  BY InitTypeOK, InitAdmission, InitChannels, InitResult DEF IInv
<1>2. IInv /\ [Next]_vars => IInv'
  BY NextTypeOK, NextAdmission, NextChannels, NextResult DEF IInv
<1>. QED
  BY <1>1, <1>2, PTL DEF Spec

\* The variables keep their types, for any set of callers.
THEOREM TypeCorrect == Spec => []TypeOK
<1>1. IInv => TypeOK
  BY DEF IInv
<1>. QED
  BY <1>1, Invariance, PTL

\* Of any number of concurrent TurnOff calls, one at most runs its function.
THEOREM OneCallWins == Spec => []OneWinner
<1>1. IInv => OneWinner
  BY DEF IInv, Admission, OneWinner
<1>. QED
  BY <1>1, Invariance, PTL

\* The compare-and-swap of toStoppingState never fails.
THEOREM SwapSucceeds == Spec => []SwapCannotFail
<1>1. IInv => SwapCannotFail
  BY DEF IInv, Admission, SwapCannotFail
<1>. QED
  BY <1>1, Invariance, PTL

\* Neither the trigger nor the stopped channel is closed twice.
THEOREM ChannelsClosedOnce == Spec => []ClosedOnce
<1>1. IInv => ClosedOnce
  BY DEF IInv, Channels
<1>. QED
  BY <1>1, Invariance, PTL

\* Neither the swap nor a close goes wrong in any of the calls.
THEOREM StepsGoRight == Spec => []NoStepGoesWrong
<1>1. SwapCannotFail /\ ClosedOnce => NoStepGoesWrong
  BY DEF NoStepGoesWrong
<1>. QED
  BY <1>1, SwapSucceeds, ChannelsClosedOnce, PTL

\* A call is turned away only when another one was let in.
THEOREM RefusedForAWinner == Spec => []RefusedOnlyByWinner
<1>1. IInv => RefusedOnlyByWinner
  BY DEF IInv, Admission, RefusedOnlyByWinner
<1>. QED
  BY <1>1, Invariance, PTL

\* WaitStopped is not released while a shutdown function that nobody gave up
\* on is running.
THEOREM StoppedOnlyAfterBody == Spec => []StoppedAfterBody
<1>1. IInv => StoppedAfterBody
  <2>. SUFFICES ASSUME IInv, stoppedChan > 0
                PROVE  \E c \in Winners : c \in gaveUp
                            \/ body[c] \in {"finished", "panicked"}
    BY DEF StoppedAfterBody
  <2>1. state = Stopped
    BY DEF IInv, TypeOK, Channels, Idle, Stopped
  <2>2. PICK c \in Winners : TRUE
    BY <2>1 DEF IInv, Admission, Stopping, Stopped
  <2>3. pc[c] \notin Inside
    BY <2>1 DEF IInv, Admission, Stopping, Stopped
  <2>4. pc[c] \notin Outside
    BY DEF IInv, Admission, Winners, Outside
  <2>5. pc[c] \in {"closeStopped", "return", "done", "unwound"}
    BY <2>3, <2>4 DEF IInv, TypeOK, PCs, Inside, Outside, Winners
  <2>. QED
    BY <2>5 DEF IInv, Result
<1>. QED
  BY <1>1, Invariance, PTL

\* A TurnOff that did not time out returns what its function returned, although
\* that result is written by another goroutine.
THEOREM ResultDelivered == Spec => []ResultIsOfBody
<1>1. IInv => ResultIsOfBody
  BY DEF IInv, Result, ResultIsOfBody
<1>. QED
  BY <1>1, Invariance, PTL
-----------------------------------------------------------------------------
\* The initial states of the stopper are those of the gate.
LEMMA InitGate == Init => Gate!Init
<1>. SUFFICES ASSUME Init PROVE Gate!Init
  OBVIOUS
<1>1. phase = "open"
  BY DEF Init, phase, Idle, Stopping
<1>2. \A c \in Callers : PlaceOf(pc[c], body[c]) = "outside"
  BY DEF Init, PlaceOf
<1>. QED
  BY <1>1, <1>2 DEF Gate!Init, place

\* The steps that move neither the state past triggered nor a caller across
\* the gate are steps the gate does not see.
LEMMA Unseen ==
    ASSUME (state < Stopping) <=> (state' < Stopping),
           (state = Stopping) <=> (state' = Stopping),
           NEW c \in Callers,
           \A d \in Callers \ {c} : pc'[d] = pc[d] /\ body'[d] = body[d],
           \/ pc[c] \in Outside /\ pc'[c] \in Outside
           \/ pc[c] \in Inside /\ pc'[c] \in Inside
           \/ /\ pc[c] \notin Outside \union Inside
              /\ pc'[c] \notin Outside \union Inside
              /\ pc[c] \in PCs /\ pc'[c] \in PCs
              /\ body[c] = "none" <=> body'[c] = "none"
    PROVE  UNCHANGED Gate!gateVars
<1>1. phase' = phase
  BY DEF phase
<1>2. ASSUME NEW d \in Callers
      PROVE  PlaceOf(pc'[d], body'[d]) = PlaceOf(pc[d], body[d])
  <2>1. CASE d # c
    BY <2>1
  <2>2. CASE d = c
    BY <2>2 DEF PlaceOf, Inside, Outside, PCs
  <2>. QED
    BY <2>1, <2>2
<1>3. place' = place
  BY <1>2 DEF place
<1>. QED
  BY <1>1, <1>3 DEF Gate!gateVars

\* Every step of the stopper is a step of the gate or one it does not see.
LEMMA NextGate ==
    IInv /\ IInv' /\ [Next]_vars => [Gate!Next]_(Gate!gateVars)
<1>. SUFFICES ASSUME IInv, IInv', [Next]_vars
              PROVE  [Gate!Next]_(Gate!gateVars)
  OBVIOUS
<1>. DEFINE S == Gate!Next \/ UNCHANGED Gate!gateVars
<1>. USE DEF IInv, TypeOK, PCs, Inside, Outside, Goto, result,
             Idle, Triggered, Stopping, Stopped
<1>1. ASSUME NEW c \in Callers, TriggerStop(c) PROVE S
  BY <1>1, Unseen DEF TriggerStop, Admission
<1>2. ASSUME NEW c \in Callers, CloseTrigger(c) PROVE S
  BY <1>2, Unseen DEF CloseTrigger, Admission
<1>3. ASSUME NEW c \in Callers, LoadState(c) PROVE S
  <2>1. CASE state >= Stopping
    <3>1. phase # "open" /\ place[c] = "outside" /\ phase' = phase
      BY <1>3, <2>1 DEF LoadState, phase, place, PlaceOf
    <3>2. /\ body'[c] = "none" /\ pc'[c] = "return"
          /\ \A d \in Callers \ {c} : pc'[d] = pc[d] /\ body'[d] = body[d]
      BY <1>3, <2>1 DEF LoadState, Admission
    <3>3. place' = [place EXCEPT ![c] = "refused"]
      BY <3>2 DEF place, PlaceOf
    <3>. QED
      BY <3>1, <3>3 DEF Gate!Next, Gate!Refuse
  <2>2. CASE state < Stopping
    BY <1>3, <2>2, Unseen DEF LoadState
  <2>. QED
    BY <2>1, <2>2
<1>4. ASSUME NEW c \in Callers, SwapToStopping(c) PROVE S
  <2>1. state = seen[c] /\ state < Stopping
    BY <1>4 DEF SwapToStopping, Admission
  <2>2. phase = "open" /\ phase' = "closing" /\ place[c] = "outside"
    BY <1>4, <2>1 DEF SwapToStopping, phase, place, PlaceOf
  <2>3. place' = [place EXCEPT ![c] = "inside"]
    BY <1>4, <2>1 DEF SwapToStopping, place, PlaceOf
  <2>. QED
    BY <2>2, <2>3 DEF Gate!Next, Gate!Enter
<1>5. ASSUME NEW c \in Callers, StartBody(c) PROVE S
  BY <1>5, Unseen DEF StartBody, Admission
<1>6. ASSUME NEW c \in Callers, FinishInline(c) PROVE S
  BY <1>6, Unseen DEF FinishInline, Admission
<1>7. ASSUME NEW c \in Callers, FinishSpawned(c) PROVE S
  BY <1>7, Unseen DEF FinishSpawned, Admission
<1>8. ASSUME NEW c \in Callers, JoinError(c) PROVE S
  BY <1>8, Unseen DEF JoinError, Admission
<1>9. ASSUME NEW c \in Callers, StoreJoinedTab(c) PROVE S
  BY <1>9, Unseen DEF StoreJoinedTab, Admission
<1>10. ASSUME NEW c \in Callers, StoreJoinedData(c) PROVE S
  BY <1>10, Unseen DEF StoreJoinedData, Admission
<1>11. ASSUME NEW c \in Callers, CloseDone(c) PROVE S
  BY <1>11, Unseen DEF CloseDone, Admission
<1>12. ASSUME NEW c \in Callers, SelectDone(c) PROVE S
  BY <1>12, Unseen DEF SelectDone, Admission
<1>13. ASSUME NEW c \in Callers, SelectTimeout(c) PROVE S
  BY <1>13, Unseen DEF SelectTimeout, Admission
<1>14. ASSUME NEW c \in Callers, StoreTimeoutTab(c) PROVE S
  BY <1>14, Unseen DEF StoreTimeoutTab, Admission
<1>15. ASSUME NEW c \in Callers, StoreTimeoutData(c) PROVE S
  BY <1>15, Unseen DEF StoreTimeoutData, Admission
<1>16. ASSUME NEW c \in Callers, ToStoppedState(c) PROVE S
  <2>1. c \in Winners /\ state = Stopping /\ body[c] # "none"
    BY <1>16 DEF ToStoppedState, Admission, Winners
  <2>2. phase = "closing" /\ phase' = "closed" /\ place[c] = "inside"
    BY <1>16, <2>1 DEF ToStoppedState, phase, place, PlaceOf
  <2>3. place' = [place EXCEPT ![c] = "left"]
    BY <1>16, <2>1 DEF ToStoppedState, place, PlaceOf
  <2>. QED
    BY <2>2, <2>3 DEF Gate!Next, Gate!Leave
<1>17. ASSUME NEW c \in Callers, CloseStopped(c) PROVE S
  BY <1>17, Unseen DEF CloseStopped, Admission
<1>18. ASSUME NEW c \in Callers, Return(c) PROVE S
  BY <1>18, Unseen DEF Return, Admission
<1>19. CASE UNCHANGED vars
  BY <1>19 DEF vars, Gate!gateVars, phase, place
<1>. QED
  BY <1>1, <1>2, <1>3, <1>4, <1>5, <1>6, <1>7, <1>8, <1>9, <1>10, <1>11, <1>12, <1>13, <1>14, <1>15, <1>16, <1>17, <1>18, <1>19
     DEF Next, Caller, BodyEnds, Spawned

\* The stopper implements the gate that admits one caller.
THEOREM Implementation == Spec => ImplementsGate
<1>. QED
  BY InitGate, NextGate, Invariance, PTL DEF Spec, ImplementsGate, Gate!Spec
=============================================================================
