---------------------------- MODULE FutureProofs ----------------------------
(***************************************************************************)
(* Future is correct for any futures, chains of them and goroutines.  The  *)
(* inductive invariant says who is inside Complete (Locking), that a field *)
(* is what it has been given at each step of Complete (Storing), and what  *)
(* makes the unlocked read of Cancel and Then harmless (Arguments): an     *)
(* argument that is torn or stale can only have been read while somebody   *)
(* was completing the future, so it is never stored.                       *)
(***************************************************************************)
EXTENDS Future, TLAPS

Holding == {"storeHi", "storeLo", "storeErr", "close", "unlock"}

\* Not half of a value, and no value with a cancellation.
Clean(r) ==
    /\ r.value.hi = r.value.lo
    /\ r.err = "cancelled" => r.value.hi = Zero

\* A future is locked by the one goroutine that is inside Complete.
Locking ==
    /\ \A p \in Chained : target[p] = p
    /\ \A p \in Writers : pc[p] \in Holding <=> p \in mu[target[p]]
    /\ \A f \in Futures : \A p \in mu[f] : target[p] = f
    /\ \A f \in Futures : \A p, q \in mu[f] : p = q

\* The fields of a future follow the steps of Complete.
Storing ==
    /\ \A f \in Futures :
          /\ done[f] > 0 => complete[f]
          /\ ~complete[f] /\ mu[f] = {} => value[f] = Of(Zero) /\ err[f] = "nil"
    /\ ClosedOnce
    /\ \A p \in Writers :
          /\ pc[p] \in {"storeHi", "storeLo", "storeErr"}
                => ~complete[target[p]]
          /\ pc[p] = "close" => complete[target[p]] /\ done[target[p]] = 0
          /\ pc[p] = "unlock" => complete[target[p]]
          /\ pc[p] = "storeLo" => value[target[p]].hi = arg[p].value.hi
          /\ pc[p] \in {"storeErr", "close"} => value[target[p]] = arg[p].value
          /\ pc[p] = "close" => err[target[p]] = arg[p].err

\* Complete stores clean arguments only.
Arguments ==
    /\ \A p \in Writers :
          /\ pc[p] = "lock" => \/ Clean(arg[p])
                               \/ complete[target[p]]
                               \/ mu[target[p]] # {}
          /\ pc[p] \in Holding => Clean(arg[p])
    /\ \A f \in Futures : done[f] > 0 => Clean(Result(value[f], err[f]))

\* A getter reads a future that is complete.
Getting ==
    \A r \in Getters :
        /\ getter[r] = "read" => done[source[r]] > 0
        /\ getter[r] # "returned" => got[r] = Empty
        /\ Clean(got[r])

IInv == TypeOK /\ Locking /\ Storing /\ Arguments /\ Getting
-----------------------------------------------------------------------------
\* The types hold initially and every step keeps them.
LEMMA InitTypeOK == Init => TypeOK
<1>. SUFFICES ASSUME Init PROVE TypeOK
  OBVIOUS
<1>1. Of(Zero) \in Values
  BY WordsAssumption DEF Of, Values
<1>. QED
  BY <1>1 DEF Init, TypeOK, Results, Result, ErrorsOrNil

LEMMA NextTypeOK == TypeOK /\ [Next]_vars => TypeOK'
<1>. SUFFICES ASSUME TypeOK, [Next]_vars PROVE TypeOK'
  OBVIOUS
<1>. USE WordsAssumption, ParentAssumption
     DEF TypeOK, Goto, GetterGoto, future, waiters, Values, Of, ErrorsOrNil,
         Results, Result, GaveUp
<1>1. ASSUME NEW p \in Writers, CallComplete(p) PROVE TypeOK'
  BY <1>1 DEF CallComplete
<1>2. ASSUME NEW p \in Writers, CallCancel(p) PROVE TypeOK'
  BY <1>2 DEF CallCancel
<1>3. ASSUME NEW p \in Writers, Lock(p) PROVE TypeOK'
  BY <1>3 DEF Lock
<1>4. ASSUME NEW p \in Writers, StoreHi(p) PROVE TypeOK'
  BY <1>4 DEF StoreHi
<1>5. ASSUME NEW p \in Writers, StoreLo(p) PROVE TypeOK'
  BY <1>5 DEF StoreLo
<1>6. ASSUME NEW p \in Writers, StoreErr(p) PROVE TypeOK'
  BY <1>6 DEF StoreErr
<1>7. ASSUME NEW p \in Writers, CloseDone(p) PROVE TypeOK'
  BY <1>7 DEF CloseDone
<1>8. ASSUME NEW p \in Writers, Unlock(p) PROVE TypeOK'
  BY <1>8 DEF Unlock
<1>9. ASSUME NEW p \in Writers, ThenGet(p) PROVE TypeOK'
  BY <1>9 DEF ThenGet
<1>10. ASSUME NEW p \in Writers, ThenFn(p) PROVE TypeOK'
  BY <1>10 DEF ThenFn
<1>11. ASSUME NEW p \in Writers, ThenPanics(p) PROVE TypeOK'
  BY <1>11 DEF ThenPanics
<1>12. ASSUME NEW r \in Getters, Wake(r) PROVE TypeOK'
  BY <1>12 DEF Wake
<1>13. ASSUME NEW r \in Getters, Read(r) PROVE TypeOK'
  BY <1>13 DEF Read
<1>14. ASSUME NEW r \in Getters, ContextEnds(r) PROVE TypeOK'
  BY <1>14 DEF ContextEnds
<1>15. CASE UNCHANGED vars
  BY <1>15 DEF vars
<1>. QED
  BY <1>1, <1>2, <1>3, <1>4, <1>5, <1>6, <1>7, <1>8, <1>9, <1>10, <1>11, <1>12, <1>13, <1>14, <1>15
     DEF Next, WriterRuns, Complete

-----------------------------------------------------------------------------
\* Initially no future is locked.
LEMMA InitLocking == Init => Locking
  BY DEF Init, Locking, Holding

\* Every step keeps Locking.
LEMMA NextLocking == TypeOK /\ Locking /\ [Next]_vars => Locking'
<1>. SUFFICES ASSUME TypeOK, Locking, [Next]_vars PROVE Locking'
  OBVIOUS
<1>. USE DEF TypeOK, Locking, Holding, Goto, GetterGoto, future, waiters
<1>1. ASSUME NEW p \in Writers, CallComplete(p) PROVE Locking'
  BY <1>1 DEF CallComplete
<1>2. ASSUME NEW p \in Writers, CallCancel(p) PROVE Locking'
  BY <1>2 DEF CallCancel
<1>3. ASSUME NEW p \in Writers, Lock(p) PROVE Locking'
  BY <1>3 DEF Lock
<1>4. ASSUME NEW p \in Writers, StoreHi(p) PROVE Locking'
  BY <1>4 DEF StoreHi
<1>5. ASSUME NEW p \in Writers, StoreLo(p) PROVE Locking'
  BY <1>5 DEF StoreLo
<1>6. ASSUME NEW p \in Writers, StoreErr(p) PROVE Locking'
  BY <1>6 DEF StoreErr
<1>7. ASSUME NEW p \in Writers, CloseDone(p) PROVE Locking'
  BY <1>7 DEF CloseDone
<1>8. ASSUME NEW p \in Writers, Unlock(p) PROVE Locking'
  BY <1>8 DEF Unlock
<1>9. ASSUME NEW p \in Writers, ThenGet(p) PROVE Locking'
  BY <1>9 DEF ThenGet
<1>10. ASSUME NEW p \in Writers, ThenFn(p) PROVE Locking'
  BY <1>10 DEF ThenFn
<1>11. ASSUME NEW p \in Writers, ThenPanics(p) PROVE Locking'
  BY <1>11 DEF ThenPanics
<1>12. ASSUME NEW r \in Getters, Wake(r) PROVE Locking'
  BY <1>12 DEF Wake
<1>13. ASSUME NEW r \in Getters, Read(r) PROVE Locking'
  BY <1>13 DEF Read
<1>14. ASSUME NEW r \in Getters, ContextEnds(r) PROVE Locking'
  BY <1>14 DEF ContextEnds
<1>15. CASE UNCHANGED vars
  BY <1>15 DEF vars
<1>. QED
  BY <1>1, <1>2, <1>3, <1>4, <1>5, <1>6, <1>7, <1>8, <1>9, <1>10, <1>11, <1>12, <1>13, <1>14, <1>15
     DEF Next, WriterRuns, Complete

-----------------------------------------------------------------------------
\* Initially every future holds the zero value.
LEMMA InitStoring == Init => Storing
  BY DEF Init, Storing, ClosedOnce

\* Every step keeps Storing.
LEMMA NextStoring == TypeOK /\ Locking /\ Storing /\ [Next]_vars => Storing'
<1>. SUFFICES ASSUME TypeOK, Locking, Storing, [Next]_vars PROVE Storing'
  OBVIOUS
<1>. USE DEF TypeOK, Locking, Storing, ClosedOnce, Holding, Goto, GetterGoto,
             future, waiters, Values, Results
<1>1. ASSUME NEW p \in Writers, CallComplete(p) PROVE Storing'
  BY <1>1 DEF CallComplete
<1>2. ASSUME NEW p \in Writers, CallCancel(p) PROVE Storing'
  BY <1>2 DEF CallCancel
<1>3. ASSUME NEW p \in Writers, Lock(p) PROVE Storing'
  BY <1>3 DEF Lock
<1>4. ASSUME NEW p \in Writers, StoreHi(p) PROVE Storing'
  BY <1>4 DEF StoreHi
<1>5. ASSUME NEW p \in Writers, StoreLo(p) PROVE Storing'
  <2>1. /\ pc[p] = "storeLo" /\ p \in mu[target[p]] /\ target[p] \in Futures
        /\ value[target[p]] \in Values /\ arg[p].value \in Values
        /\ value[target[p]].hi = arg[p].value.hi
    BY <1>5 DEF StoreLo
  <2>2. value'[target[p]] = arg[p].value
    <3>1. value'[target[p]] = [value[target[p]] EXCEPT !.lo = arg[p].value.lo]
      BY <1>5, <2>1 DEF StoreLo
    <3>2. [value[target[p]] EXCEPT !.lo = arg[p].value.lo] = arg[p].value
      BY ONLY <2>1 DEF Values
    <3>. QED
      BY <3>1, <3>2
  <2>3. \A f \in Futures \ {target[p]} : value'[f] = value[f]
    BY <1>5 DEF StoreLo
  <2>4. \A q \in Writers \ {p} : pc[q] \in Holding => target[q] # target[p]
    BY <2>1
  <2>. QED
    BY <1>5, <2>1, <2>2, <2>3, <2>4 DEF StoreLo
<1>6. ASSUME NEW p \in Writers, StoreErr(p) PROVE Storing'
  BY <1>6 DEF StoreErr
<1>7. ASSUME NEW p \in Writers, CloseDone(p) PROVE Storing'
  BY <1>7 DEF CloseDone
<1>8. ASSUME NEW p \in Writers, Unlock(p) PROVE Storing'
  BY <1>8 DEF Unlock
<1>9. ASSUME NEW p \in Writers, ThenGet(p) PROVE Storing'
  BY <1>9 DEF ThenGet
<1>10. ASSUME NEW p \in Writers, ThenFn(p) PROVE Storing'
  BY <1>10 DEF ThenFn
<1>11. ASSUME NEW p \in Writers, ThenPanics(p) PROVE Storing'
  BY <1>11 DEF ThenPanics
<1>12. ASSUME NEW r \in Getters, Wake(r) PROVE Storing'
  BY <1>12 DEF Wake
<1>13. ASSUME NEW r \in Getters, Read(r) PROVE Storing'
  BY <1>13 DEF Read
<1>14. ASSUME NEW r \in Getters, ContextEnds(r) PROVE Storing'
  BY <1>14 DEF ContextEnds
<1>15. CASE UNCHANGED vars
  BY <1>15 DEF vars
<1>. QED
  BY <1>1, <1>2, <1>3, <1>4, <1>5, <1>6, <1>7, <1>8, <1>9, <1>10, <1>11, <1>12, <1>13, <1>14, <1>15
     DEF Next, WriterRuns, Complete

-----------------------------------------------------------------------------
\* Initially nothing is stored.
LEMMA InitArguments == Init => Arguments
  BY DEF Init, Arguments, Holding

\* Every step keeps Arguments.
LEMMA NextArguments ==
    TypeOK /\ Locking /\ Storing /\ Arguments /\ [Next]_vars => Arguments'
<1>. SUFFICES ASSUME TypeOK, Locking, Storing, Arguments, [Next]_vars
              PROVE  Arguments'
  OBVIOUS
<1>. USE ErrorsAssumption, ParentAssumption
     DEF TypeOK, Locking, Storing, Arguments, Clean, Holding, Goto, GetterGoto,
         future, waiters, Values, Results, Result, Of
<1>1. ASSUME NEW p \in Writers, CallComplete(p) PROVE Arguments'
  BY <1>1 DEF CallComplete
<1>2. ASSUME NEW p \in Writers, CallCancel(p) PROVE Arguments'
  BY <1>2 DEF CallCancel
<1>3. ASSUME NEW p \in Writers, Lock(p) PROVE Arguments'
  BY <1>3 DEF Lock
<1>4. ASSUME NEW p \in Writers, StoreHi(p) PROVE Arguments'
  BY <1>4 DEF StoreHi
<1>5. ASSUME NEW p \in Writers, StoreLo(p) PROVE Arguments'
  BY <1>5 DEF StoreLo
<1>6. ASSUME NEW p \in Writers, StoreErr(p) PROVE Arguments'
  BY <1>6 DEF StoreErr
<1>7. ASSUME NEW p \in Writers, CloseDone(p) PROVE Arguments'
  BY <1>7 DEF CloseDone
<1>8. ASSUME NEW p \in Writers, Unlock(p) PROVE Arguments'
  BY <1>8 DEF Unlock
<1>9. ASSUME NEW p \in Writers, ThenGet(p) PROVE Arguments'
  BY <1>9 DEF ThenGet
<1>10. ASSUME NEW p \in Writers, ThenFn(p) PROVE Arguments'
  BY <1>10 DEF ThenFn
<1>11. ASSUME NEW p \in Writers, ThenPanics(p) PROVE Arguments'
  BY <1>11 DEF ThenPanics
<1>12. ASSUME NEW r \in Getters, Wake(r) PROVE Arguments'
  BY <1>12 DEF Wake
<1>13. ASSUME NEW r \in Getters, Read(r) PROVE Arguments'
  BY <1>13 DEF Read
<1>14. ASSUME NEW r \in Getters, ContextEnds(r) PROVE Arguments'
  BY <1>14 DEF ContextEnds
<1>15. CASE UNCHANGED vars
  BY <1>15 DEF vars
<1>. QED
  BY <1>1, <1>2, <1>3, <1>4, <1>5, <1>6, <1>7, <1>8, <1>9, <1>10, <1>11, <1>12, <1>13, <1>14, <1>15
     DEF Next, WriterRuns, Complete

-----------------------------------------------------------------------------
\* Initially no getter has returned.
LEMMA InitGetting == Init => Getting
  BY DEF Init, Getting, Clean, Empty, Result, Of

\* Every step keeps Getting.
LEMMA NextGetting ==
    TypeOK /\ Storing /\ Arguments /\ Getting /\ [Next]_vars => Getting'
<1>. SUFFICES ASSUME TypeOK, Storing, Arguments, Getting, [Next]_vars
              PROVE  Getting'
  OBVIOUS
<1>. USE DEF TypeOK, Arguments, Getting, Clean, Goto, GetterGoto, future,
             waiters, Empty, GaveUp, Result, Of
<1>1. ASSUME NEW p \in Writers, CallComplete(p) PROVE Getting'
  BY <1>1 DEF CallComplete
<1>2. ASSUME NEW p \in Writers, CallCancel(p) PROVE Getting'
  BY <1>2 DEF CallCancel
<1>3. ASSUME NEW p \in Writers, Lock(p) PROVE Getting'
  BY <1>3 DEF Lock
<1>4. ASSUME NEW p \in Writers, StoreHi(p) PROVE Getting'
  BY <1>4 DEF StoreHi
<1>5. ASSUME NEW p \in Writers, StoreLo(p) PROVE Getting'
  BY <1>5 DEF StoreLo
<1>6. ASSUME NEW p \in Writers, StoreErr(p) PROVE Getting'
  BY <1>6 DEF StoreErr
<1>7. ASSUME NEW p \in Writers, CloseDone(p) PROVE Getting'
  BY <1>7 DEF CloseDone
<1>8. ASSUME NEW p \in Writers, Unlock(p) PROVE Getting'
  BY <1>8 DEF Unlock
<1>9. ASSUME NEW p \in Writers, ThenGet(p) PROVE Getting'
  BY <1>9 DEF ThenGet
<1>10. ASSUME NEW p \in Writers, ThenFn(p) PROVE Getting'
  BY <1>10 DEF ThenFn
<1>11. ASSUME NEW p \in Writers, ThenPanics(p) PROVE Getting'
  BY <1>11 DEF ThenPanics
<1>12. ASSUME NEW r \in Getters, Wake(r) PROVE Getting'
  BY <1>12 DEF Wake
<1>13. ASSUME NEW r \in Getters, Read(r) PROVE Getting'
  BY <1>13 DEF Read
<1>14. ASSUME NEW r \in Getters, ContextEnds(r) PROVE Getting'
  BY <1>14 DEF ContextEnds
<1>15. CASE UNCHANGED vars
  BY <1>15 DEF vars
<1>. QED
  BY <1>1, <1>2, <1>3, <1>4, <1>5, <1>6, <1>7, <1>8, <1>9, <1>10, <1>11, <1>12, <1>13, <1>14, <1>15
     DEF Next, WriterRuns, Complete

-----------------------------------------------------------------------------
\* The inductive invariant holds in every reachable state.
THEOREM Invariance == Spec => []IInv
<1>1. Init => IInv
  BY InitTypeOK, InitLocking, InitStoring, InitArguments, InitGetting DEF IInv
<1>2. IInv /\ [Next]_vars => IInv'
  BY NextTypeOK, NextLocking, NextStoring, NextArguments, NextGetting DEF IInv
<1>. QED
  BY <1>1, <1>2, PTL DEF Spec

\* The variables keep their types, for any futures and goroutines.
THEOREM TypeCorrect == Spec => []TypeOK
<1>1. IInv => TypeOK
  BY DEF IInv
<1>. QED
  BY <1>1, Invariance, PTL

\* Any number of Complete and Cancel calls close the channel of a future once.
THEOREM DoneClosedOnce == Spec => []ClosedOnce
<1>1. IInv => ClosedOnce
  BY DEF IInv, Storing
<1>. QED
  BY <1>1, Invariance, PTL

\* A cancelled future holds the zero value, for values of any words, although
\* Cancel reads the value with no lock.
THEOREM CancelledHoldsZero == Spec => []CancelledIsZero
<1>1. IInv => CancelledIsZero
  BY DEF IInv, TypeOK, Arguments, Clean, CancelledIsZero, Result, Of, Values
<1>. QED
  BY <1>1, Invariance, PTL

\* No getter ever returns half of one value and half of another.
THEOREM ResultsWhole == Spec => []NoTornResult
<1>1. IInv => NoTornResult
  BY DEF IInv, Getting, Clean, NoTornResult
<1>. QED
  BY <1>1, Invariance, PTL

\* What Cancel and Then read with no lock spoils neither futures nor results.
THEOREM ValuesSound == Spec => []ValuesAreSound
<1>1. CancelledIsZero /\ NoTornResult => ValuesAreSound
  BY DEF ValuesAreSound
<1>. QED
  BY <1>1, CancelledHoldsZero, ResultsWhole, PTL

-----------------------------------------------------------------------------
\* The initial states of the futures are those of the cells.
LEMMA InitOnce == Init => Once!Init
  BY DEF Init, Once!Init, cell, Empty, Result, Of

\* A step that closes no channel leaves every cell as it is: the fields of a
\* closed future are not written any more.
LEMMA CellStable ==
    ASSUME IInv, done' = done,
           \A f \in Futures :
               done[f] > 0 => value'[f] = value[f] /\ err'[f] = err[f]
    PROVE  cell' = cell
<1>1. ASSUME NEW f \in Futures
      PROVE  (IF done'[f] = 0 THEN Empty ELSE Result(value'[f], err'[f]))
             = (IF done[f] = 0 THEN Empty ELSE Result(value[f], err[f]))
  <2>1. done[f] = 0 \/ done[f] > 0
    BY DEF IInv, TypeOK
  <2>. QED
    BY <2>1 DEF Result
<1>. QED
  BY <1>1 DEF cell

\* Every step of the futures is a step of the cells or one they do not see.
LEMMA NextOnce == IInv /\ [Next]_vars => [Once!Next]_(Once!onceVars)
<1>. SUFFICES ASSUME IInv, [Next]_vars
              PROVE  [Once!Next]_(Once!onceVars)
  OBVIOUS
<1>. DEFINE S == Once!Next \/ UNCHANGED Once!onceVars
<1>. USE DEF IInv, TypeOK, Locking, Storing, Getting, Holding, Goto, GetterGoto,
             future, waiters
<1>1. ASSUME NEW p \in Writers, CallComplete(p) PROVE S
  <2>1. got' = got /\ done' = done
    BY <1>1 DEF CallComplete
  <2>2. \A f \in Futures :
           done[f] > 0 => value'[f] = value[f] /\ err'[f] = err[f]
    BY <1>1 DEF CallComplete
  <2>3. cell' = cell
    BY <2>1, <2>2, CellStable
  <2>. QED
    BY <2>1, <2>3 DEF Once!onceVars
<1>2. ASSUME NEW p \in Writers, CallCancel(p) PROVE S
  <2>1. got' = got /\ done' = done
    BY <1>2 DEF CallCancel
  <2>2. \A f \in Futures :
           done[f] > 0 => value'[f] = value[f] /\ err'[f] = err[f]
    BY <1>2 DEF CallCancel
  <2>3. cell' = cell
    BY <2>1, <2>2, CellStable
  <2>. QED
    BY <2>1, <2>3 DEF Once!onceVars
<1>3. ASSUME NEW p \in Writers, Lock(p) PROVE S
  <2>1. got' = got /\ done' = done
    BY <1>3 DEF Lock
  <2>2. \A f \in Futures :
           done[f] > 0 => value'[f] = value[f] /\ err'[f] = err[f]
    BY <1>3 DEF Lock
  <2>3. cell' = cell
    BY <2>1, <2>2, CellStable
  <2>. QED
    BY <2>1, <2>3 DEF Once!onceVars
<1>4. ASSUME NEW p \in Writers, StoreHi(p) PROVE S
  <2>1. got' = got /\ done' = done
    BY <1>4 DEF StoreHi
  <2>2. \A f \in Futures :
           done[f] > 0 => value'[f] = value[f] /\ err'[f] = err[f]
    BY <1>4 DEF StoreHi
  <2>3. cell' = cell
    BY <2>1, <2>2, CellStable
  <2>. QED
    BY <2>1, <2>3 DEF Once!onceVars
<1>5. ASSUME NEW p \in Writers, StoreLo(p) PROVE S
  <2>1. got' = got /\ done' = done
    BY <1>5 DEF StoreLo
  <2>2. \A f \in Futures :
           done[f] > 0 => value'[f] = value[f] /\ err'[f] = err[f]
    BY <1>5 DEF StoreLo
  <2>3. cell' = cell
    BY <2>1, <2>2, CellStable
  <2>. QED
    BY <2>1, <2>3 DEF Once!onceVars
<1>6. ASSUME NEW p \in Writers, StoreErr(p) PROVE S
  <2>1. got' = got /\ done' = done
    BY <1>6 DEF StoreErr
  <2>2. \A f \in Futures :
           done[f] > 0 => value'[f] = value[f] /\ err'[f] = err[f]
    BY <1>6 DEF StoreErr
  <2>3. cell' = cell
    BY <2>1, <2>2, CellStable
  <2>. QED
    BY <2>1, <2>3 DEF Once!onceVars
<1>7. ASSUME NEW p \in Writers, CloseDone(p) PROVE S
  <2>. DEFINE f == target[p]
  <2>1. f \in Futures /\ done[f] = 0 /\ done'[f] = 1 /\ got' = got
    BY <1>7 DEF CloseDone
  <2>2. value' = value /\ err' = err /\ \A h \in Futures \ {f} : done'[h] = done[h]
    BY <1>7 DEF CloseDone
  <2>3. cell[f] = Empty
    BY <2>1 DEF cell
  <2>4. cell' = [cell EXCEPT ![f] = Result(value[f], err[f])]
    <3>1. cell'[f] = Result(value[f], err[f])
      BY <2>1, <2>2 DEF cell, Result
    <3>2. \A h \in Futures \ {f} : cell'[h] = cell[h]
      BY <2>2 DEF cell, Result
    <3>3. /\ cell = [h \in Futures |-> cell[h]]
          /\ cell' = [h \in Futures |-> cell'[h]]
      BY DEF cell
    <3>. QED
      BY ONLY <2>1, <3>1, <3>2, <3>3
  <2>5. Result(value[f], err[f]) \in Results
    BY <2>1 DEF Result, Results
  <2>. QED
    BY <2>1, <2>3, <2>4, <2>5 DEF Once!Next, Once!Write
<1>8. ASSUME NEW p \in Writers, Unlock(p) PROVE S
  <2>1. got' = got /\ done' = done
    BY <1>8 DEF Unlock
  <2>2. \A f \in Futures :
           done[f] > 0 => value'[f] = value[f] /\ err'[f] = err[f]
    BY <1>8 DEF Unlock
  <2>3. cell' = cell
    BY <2>1, <2>2, CellStable
  <2>. QED
    BY <2>1, <2>3 DEF Once!onceVars
<1>9. ASSUME NEW p \in Writers, ThenGet(p) PROVE S
  <2>1. got' = got /\ done' = done
    BY <1>9 DEF ThenGet
  <2>2. \A f \in Futures :
           done[f] > 0 => value'[f] = value[f] /\ err'[f] = err[f]
    BY <1>9 DEF ThenGet
  <2>3. cell' = cell
    BY <2>1, <2>2, CellStable
  <2>. QED
    BY <2>1, <2>3 DEF Once!onceVars
<1>10. ASSUME NEW p \in Writers, ThenFn(p) PROVE S
  <2>1. got' = got /\ done' = done
    BY <1>10 DEF ThenFn
  <2>2. \A f \in Futures :
           done[f] > 0 => value'[f] = value[f] /\ err'[f] = err[f]
    BY <1>10 DEF ThenFn
  <2>3. cell' = cell
    BY <2>1, <2>2, CellStable
  <2>. QED
    BY <2>1, <2>3 DEF Once!onceVars
<1>11. ASSUME NEW p \in Writers, ThenPanics(p) PROVE S
  <2>1. got' = got /\ done' = done
    BY <1>11 DEF ThenPanics
  <2>2. \A f \in Futures :
           done[f] > 0 => value'[f] = value[f] /\ err'[f] = err[f]
    BY <1>11 DEF ThenPanics
  <2>3. cell' = cell
    BY <2>1, <2>2, CellStable
  <2>. QED
    BY <2>1, <2>3 DEF Once!onceVars
<1>12. ASSUME NEW r \in Getters, Wake(r) PROVE S
  <2>1. got' = got /\ done' = done
    BY <1>12 DEF Wake
  <2>2. \A f \in Futures :
           done[f] > 0 => value'[f] = value[f] /\ err'[f] = err[f]
    BY <1>12 DEF Wake
  <2>3. cell' = cell
    BY <2>1, <2>2, CellStable
  <2>. QED
    BY <2>1, <2>3 DEF Once!onceVars
<1>13. ASSUME NEW r \in Getters, Read(r) PROVE S
  <2>. DEFINE f == source[r]
  <2>1. f \in Futures /\ done[f] > 0 /\ got[r] = Empty
    BY <1>13 DEF Read
  <2>2. cell[f] = Result(value[f], err[f])
    BY <2>1 DEF cell
  <2>3. cell[f] # Empty
    BY <2>1, <2>2, ErrorsAssumption DEF Empty, Result, ErrorsOrNil
  <2>4. got' = [got EXCEPT ![r] = cell[f]]
    BY <1>13, <2>2 DEF Read
  <2>5. cell' = cell
    BY <1>13, CellStable DEF Read
  <2>. QED
    BY <2>1, <2>3, <2>4, <2>5 DEF Once!Next, Once!Read
<1>14. ASSUME NEW r \in Getters, ContextEnds(r) PROVE S
  <2>1. got[r] = Empty /\ got' = [got EXCEPT ![r] = GaveUp]
    BY <1>14 DEF ContextEnds
  <2>2. cell' = cell
    BY <1>14, CellStable DEF ContextEnds
  <2>. QED
    BY <2>1, <2>2 DEF Once!Next, Once!GiveUp
<1>15. CASE UNCHANGED vars
  BY <1>15 DEF vars, Once!onceVars, cell
<1>. QED
  BY <1>1, <1>2, <1>3, <1>4, <1>5, <1>6, <1>7, <1>8, <1>9, <1>10, <1>11, <1>12, <1>13, <1>14, <1>15
     DEF Next, WriterRuns, Complete

\* The futures are cells that are written once and read as they were written.
THEOREM Implementation == Spec => ImplementsWriteOnce
<1>. QED
  BY InitOnce, NextOnce, Invariance, PTL DEF Spec, ImplementsWriteOnce, Once!Spec
=============================================================================
