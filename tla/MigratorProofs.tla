--------------------------- MODULE MigratorProofs ---------------------------
(***************************************************************************)
(* Proofs about Migrator, for any migrations, calls and connections.  The  *)
(* invariant says what each place of a call knows: which records a loop    *)
(* has still to make or to remove, and what the function it has just run   *)
(* left behind.                                                            *)
(***************************************************************************)
EXTENDS Migrator, FiniteSetTheorems, TLAPS

NoDuplicates(s) == \A i, j \in DOMAIN s : s[i] = s[j] => i = j

Types ==
    /\ table \in Seq(Ids) /\ NoDuplicates(table)
    /\ effect \in [Ids -> {"none", "part", "full"}]
    /\ mode \in Modes /\ op \in [Calls -> Ops] /\ target \in [Calls -> Ids]
    /\ pc \in [Calls -> {"idle", "query", "up", "record", "down", "remove"}
                        \union Over]
    /\ pending \in [Calls -> SUBSET Registered]
    /\ toRollback \in [Calls -> Seq(Ids)]
    /\ current \in [Calls -> SUBSET Ids]
    /\ ran \in [Calls -> SUBSET Registered]
    /\ rows \in SUBSET Calls

\* Calls of an operator come one at a time; replicas only call Up; and each
\* operation keeps to its part of the places.
Turns ==
    /\ mode = "operator" => \A c, d \in Calls : Active(c) /\ Active(d) => c = d
    /\ mode # "operator" => \A c \in Calls : op[c] = "up"
    /\ \A c \in Calls :
          /\ pc[c] \in {"up", "record"} => op[c] = "up"
          /\ pc[c] \in {"down", "remove"} => op[c] # "up"

Stopped(c) == pc[c] \in {"error", "crashed"}

\* A call was stopped at a migration.
StoppedAt(id) == \E c \in Calls : current[c] = {id} /\ Stopped(c)

\* A function that was just run has done its work, unless another call was
\* stopped at the same migration meanwhile.
UpDone ==
    \A c \in Calls :
        pc[c] = "record" =>
            /\ current[c] # {}
            /\ \A id \in current[c] :
                  /\ current[c] = {id} /\ id \in ran[c]
                  /\ effect[id] = "full" \/ StoppedAt(id)

DownDone ==
    \A c \in Calls :
        pc[c] = "remove" =>
            /\ toRollback[c] # <<>>
            /\ current[c] = {toRollback[c][1]}
            /\ effect[toRollback[c][1]] = "none"

\* What an Up has not run yet, and has not just run, is recorded.
UpHasRecorded ==
    \A c \in Calls :
        pc[c] \in {"up", "record"} =>
            \A id \in Registered :
                id \in Applied \/ id \in pending[c]
                \/ (pc[c] = "record" /\ id \in current[c])

\* What a rollback has still to do are the last records, the last one first, and
\* under them is the target.
RollsBackRecords ==
    \A c \in Calls :
        pc[c] \in {"down", "remove"} =>
            /\ Len(toRollback[c]) <= Len(table)
            /\ \A i \in 1..Len(toRollback[c]) :
                  toRollback[c][i] = table[Len(table) + 1 - i]
            /\ op[c] = "downTo" =>
                  /\ Len(toRollback[c]) < Len(table)
                  /\ table[Len(table) - Len(toRollback[c])] = target[c]

\* A call was stopped at a migration, or is about to record it.
Short(c, id) == Stopped(c) \/ (pc[c] = "record" /\ current[c] = {id})

\* Replicas: what a call ran it has recorded, or it falls short of that; of two
\* calls that ran a migration one does.
RanOnce ==
    mode = "replicas" =>
        /\ \A c \in Calls : \A id \in ran[c] : Short(c, id) \/ id \in Applied
        /\ \A c, d \in Calls : \A id \in ran[c] \intersect ran[d] :
              c # d => Short(c, id) \/ Short(d, id)

\* For the proofs: record and schema agree on a migration, a call answers for it.
InStep(id) == effect[id] = IF id \in Applied THEN "full" ELSE "none"

Holds(c, id) ==
    current[c] = {id} /\ pc[c] \in {"record", "remove", "error", "crashed"}

\* A step of one call leaves the others where they are.
Steady(c) ==
    /\ UNCHANGED call
    /\ \A d \in Calls \ {c} :
          /\ pc'[d] = pc[d] /\ current'[d] = current[d] /\ ran'[d] = ran[d]
          /\ pending'[d] = pending[d] /\ toRollback'[d] = toRollback[d]

IInv ==
    /\ Types /\ Turns /\ UpDone /\ DownDone /\ OutOfStepIsInHand
    /\ UpHasRecorded /\ RollsBackRecords /\ RanOnce
-----------------------------------------------------------------------------
\* A sequence with no duplicates is as long as the set of its elements.
LEMMA LengthIsCardinality ==
    ASSUME NEW s \in Seq(Ids), NoDuplicates(s)
    PROVE  Cardinality(ToSet(s)) = Len(s)
<1>1. s \in Bijection(1..Len(s), ToSet(s))
  BY DEF NoDuplicates, ToSet, Bijection, Injection, Surjection, IsInjective
<1>2. ExistsBijection(1..Len(s), ToSet(s))
  BY <1>1 DEF ExistsBijection
<1>. QED
  BY <1>2, FS_CountingElements

\* Deleting the last record leaves the front.
LEMMA RemoveLastRow ==
    ASSUME NEW s \in Seq(Ids), NoDuplicates(s), s # <<>>
    PROVE  RemoveFirst(s, s[Len(s)]) = Front(s)
<1>1. {i \in 1..Len(s) : s[i] = s[Len(s)]} = {Len(s)}
  BY DEF NoDuplicates
<1>2. Min({Len(s)}) = Len(s)
  BY DEF Min
<1>3. RemoveAt(s, Len(s)) = Front(s)
  BY DEF RemoveAt, Front
<1>4. \E i \in 1..Len(s) : s[i] = s[Len(s)]
  OBVIOUS
<1>. QED
  BY <1>1, <1>2, <1>3, <1>4, Zenon DEF RemoveFirst, SelectInSeq

LEMMA FrontOf ==
    ASSUME NEW s \in Seq(Ids), NoDuplicates(s), s # <<>>
    PROVE  /\ Front(s) \in Seq(Ids) /\ NoDuplicates(Front(s))
           /\ Len(Front(s)) = Len(s) - 1
           /\ \A i \in 1..(Len(s) - 1) : Front(s)[i] = s[i]
           /\ ToSet(Front(s)) = ToSet(s) \ {s[Len(s)]}
<1>1. /\ Front(s) \in Seq(Ids)
      /\ Len(Front(s)) = Len(s) - 1
      /\ \A i \in 1..(Len(s) - 1) : Front(s)[i] = s[i]
  <2>1. Len(s) \in Nat \ {0} /\ DOMAIN s = 1..Len(s)
    OBVIOUS
  <2>2. Front(s) = [i \in 1..(Len(s) - 1) |-> s[i]]
    BY <2>1 DEF Front
  <2>. QED
    BY <2>1, <2>2
<1>2. NoDuplicates(Front(s))
  BY <1>1 DEF NoDuplicates
<1>3. ToSet(Front(s)) = ToSet(s) \ {s[Len(s)]}
  BY <1>1 DEF NoDuplicates, ToSet
<1>. QED
  BY <1>1, <1>2, <1>3

LEMMA AppendOf ==
    ASSUME NEW s \in Seq(Ids), NoDuplicates(s), NEW id \in Ids, id \notin ToSet(s)
    PROVE  /\ Append(s, id) \in Seq(Ids) /\ NoDuplicates(Append(s, id))
           /\ ToSet(Append(s, id)) = ToSet(s) \union {id}
<1>1. /\ Append(s, id) \in Seq(Ids)
      /\ Len(Append(s, id)) = Len(s) + 1
      /\ \A i \in 1..Len(s) : Append(s, id)[i] = s[i]
      /\ Append(s, id)[Len(s) + 1] = id
  OBVIOUS
<1>2. NoDuplicates(Append(s, id))
  BY <1>1 DEF NoDuplicates, ToSet
<1>3. ToSet(Append(s, id)) = ToSet(s) \union {id}
  BY <1>1 DEF ToSet
<1>. QED
  BY <1>1, <1>2, <1>3
-----------------------------------------------------------------------------
\* The start of every run.
LEMMA InitIInv == Init => IInv
<1>. SUFFICES ASSUME Init PROVE IInv
  OBVIOUS
<1>. USE IdsAssumption, ModesAssumption
<1>1. Types
  <2>1. PICK old \in SUBSET (Ids \ Registered) : table \in SetToSeqs(old)
    BY DEF Init
  <2>2. Cardinality(old) \in Nat
    BY FS_Subset, FS_CardinalityType
  <2>3. table \in Seq(Ids) /\ NoDuplicates(table)
    BY <2>1, <2>2 DEF SetToSeqs, NoDuplicates
  <2>4. op \in [Calls -> Ops]
    BY DEF Init, Ops
  <2>. QED
    BY <2>3, <2>4 DEF Init, Types, Over
<1>2. Turns
  BY DEF Init, Turns, Active, Over, Ops
<1>3. UpDone /\ DownDone /\ UpHasRecorded /\ RollsBackRecords /\ RanOnce
  BY DEF Init, UpDone, DownDone, UpHasRecorded, RollsBackRecords, RanOnce
<1>4. OutOfStepIsInHand
  BY DEF Init, OutOfStepIsInHand, OutOfStep, Applied
<1>. QED
  BY <1>1, <1>2, <1>3, <1>4 DEF IInv
-----------------------------------------------------------------------------
LEMMA OnlyOneMoves ==
    ASSUME Types, NEW c \in Calls, Start(c) \/ Crash(c) \/ Runs(c)
    PROVE  Steady(c) /\ ~Stopped(c)
<1>. USE DEF Types, Goto, call, Over, Stopped
<1>1. ~Stopped(c)
  BY DEF Start, Crash, Active, Runs, QueryFails, QueryApplied, UpReturns, RunUp, Record,
         QueryLast, NothingToRollBack, QueryToTarget, TargetNotFound, QueryAll,
         RollbackReturns, RollbackRefused, RunDown, RemoveRecord
<1>2. UNCHANGED call
  BY DEF Start, Crash, Runs, QueryFails, QueryApplied, UpReturns, RunUp, Record,
         QueryLast, NothingToRollBack, QueryToTarget, TargetNotFound, QueryAll,
         RollbackReturns, RollbackRefused, RunDown, RemoveRecord
<1>3. ASSUME NEW d \in Calls \ {c}
      PROVE  /\ pc'[d] = pc[d] /\ current'[d] = current[d] /\ ran'[d] = ran[d]
             /\ pending'[d] = pending[d] /\ toRollback'[d] = toRollback[d]
  <2>1. CASE Start(c) \/ Crash(c)
    BY <2>1 DEF Start, Crash
  <2>2. CASE QueryFails(c) \/ QueryApplied(c) \/ UpReturns(c)
    BY <2>2 DEF QueryFails, QueryApplied, UpReturns
  <2>3. CASE RunUp(c)
    BY <2>3 DEF RunUp
  <2>4. CASE Record(c)
    BY <2>4 DEF Record
  <2>5. CASE QueryLast(c) \/ NothingToRollBack(c) \/ QueryToTarget(c)
    BY <2>5 DEF QueryLast, NothingToRollBack, QueryToTarget
  <2>6. CASE TargetNotFound(c) \/ QueryAll(c) \/ RollbackReturns(c) \/ RollbackRefused(c)
    BY <2>6 DEF TargetNotFound, QueryAll, RollbackReturns, RollbackRefused
  <2>7. CASE RunDown(c)
    BY <2>7 DEF RunDown
  <2>8. CASE RemoveRecord(c)
    BY <2>8 DEF RemoveRecord
  <2>. QED
    BY <2>1, <2>2, <2>3, <2>4, <2>5, <2>6, <2>7, <2>8 DEF Runs
<1>. QED
  BY <1>1, <1>2, <1>3 DEF Steady

LEMMA StoppedStays ==
    ASSUME Types, NEW c \in Calls, Steady(c), ~Stopped(c), NEW id, StoppedAt(id)
    PROVE  StoppedAt(id)'
<1>1. PICK d \in Calls : current[d] = {id} /\ Stopped(d)
  BY DEF StoppedAt
<1>2. d # c
  BY <1>1
<1>3. current'[d] = {id} /\ Stopped(d)'
  BY <1>1, <1>2 DEF Steady, Stopped
<1>. QED
  BY <1>3 DEF StoppedAt

\* What a step has to show for OutOfStepIsInHand.
LEMMA HandsKept ==
    ASSUME OutOfStepIsInHand, NEW c \in Calls, Steady(c),
           \A id \in Ids : InStep(id)' \/ Holds(c, id)' \/ ~(InStep(id) \/ Holds(c, id))
    PROVE  OutOfStepIsInHand'
<1>. SUFFICES ASSUME NEW id \in Ids, ~InStep(id)'
              PROVE  \E d \in Calls : Holds(d, id)'
  BY DEF OutOfStepIsInHand, OutOfStep, InStep, Holds
<1>1. CASE Holds(c, id)'
  BY <1>1
<1>2. CASE ~(InStep(id) \/ Holds(c, id))
  <2>1. PICK d \in Calls : Holds(d, id)
    BY <1>2 DEF OutOfStepIsInHand, OutOfStep, InStep, Holds
  <2>2. d # c
    BY <1>2, <2>1
  <2>3. Holds(d, id)'
    BY <2>1, <2>2 DEF Holds, Steady
  <2>. QED
    BY <2>3
<1>. QED
  BY <1>1, <1>2

\* What a step has to show for UpDone.
LEMMA UpDoneKept ==
    ASSUME Types, UpDone, NEW c \in Calls, Steady(c), ~Stopped(c),
           \A d \in Calls \ {c}, id \in Ids :
              pc[d] = "record" /\ effect[id] = "full"
                 => effect'[id] = "full" \/ StoppedAt(id)',
           pc'[c] = "record" =>
              \E id \in Ids : current'[c] = {id} /\ id \in ran'[c] /\ effect'[id] = "full"
    PROVE  UpDone'
<1>. SUFFICES ASSUME NEW d \in Calls, pc'[d] = "record"
              PROVE  /\ current'[d] # {}
                     /\ \A id \in current'[d] :
                           /\ current'[d] = {id} /\ id \in ran'[d]
                           /\ effect'[id] = "full" \/ StoppedAt(id)'
  BY DEF UpDone
<1>1. CASE d = c
  BY <1>1
<1>2. CASE d # c
  <2>1. pc[d] = "record" /\ current'[d] = current[d] /\ ran'[d] = ran[d]
    BY <1>2 DEF Steady
  <2>2. current[d] # {} /\ current[d] \subseteq Ids
    BY <2>1 DEF UpDone, Types
  <2>3. ASSUME NEW id \in current[d]
        PROVE  /\ current[d] = {id} /\ id \in ran[d]
               /\ effect'[id] = "full" \/ StoppedAt(id)'
    <3>1. /\ current[d] = {id} /\ id \in ran[d]
          /\ effect[id] = "full" \/ StoppedAt(id)
      BY <2>1 DEF UpDone
    <3>. QED
      BY <3>1, <2>1, <2>2, <1>2, StoppedStays
  <2>. QED
    BY <2>1, <2>2, <2>3
<1>. QED
  BY <1>1, <1>2

\* What a rollback reads off the table.
LEMMA ReversedPrefix ==
    ASSUME NEW s \in Seq(Ids), NEW n \in 0..Len(s)
    PROVE  /\ SubSeq(Reverse(s), 1, n) \in Seq(Ids)
           /\ Len(SubSeq(Reverse(s), 1, n)) = n
           /\ \A i \in 1..n : SubSeq(Reverse(s), 1, n)[i] = s[Len(s) + 1 - i]
<1>1. /\ Reverse(s) \in Seq(Ids) /\ Len(Reverse(s)) = Len(s)
      /\ \A i \in 1..Len(s) : Reverse(s)[i] = s[Len(s) + 1 - i]
  BY DEF Reverse
<1>2. SubSeq(Reverse(s), 1, n) = [i \in 1..n |-> Reverse(s)[i]]
  BY <1>1
<1>. QED
  BY <1>1, <1>2
-----------------------------------------------------------------------------
\* Steps that take one call to another place and do nothing else.
LEMMA QuietStep ==
    ASSUME IInv, NEW c \in Calls, Steady(c), ~Stopped(c), NEW to,
           UNCHANGED <<table, effect, mode, op, target, pending, toRollback, current, ran>>,
           pc' = [pc EXCEPT ![c] = to], rows' \in SUBSET Calls,
           \/ /\ pc[c] = "idle" /\ to = "query"
              /\ mode = "operator" => \A d \in Calls : ~Active(d)
           \/ pc[c] \in {"query", "up", "down"} /\ to \in {"ok", "error"}
    PROVE  IInv'
<1>. USE DEF IInv, Types
<1>1. Types'
  BY DEF Over, NoDuplicates
<1>2. Turns'
  BY DEF Turns, Active, Over
<1>3. UpDone'
  <2>1. pc'[c] # "record"
    OBVIOUS
  <2>. QED
    BY <2>1, UpDoneKept
<1>4. DownDone'
  BY DEF DownDone
<1>5. OutOfStepIsInHand'
  <2>1. \A id \in Ids : InStep(id)' \/ ~(InStep(id) \/ Holds(c, id))
    BY DEF InStep, Holds, Applied
  <2>. QED
    BY <2>1, HandsKept
<1>6. UpHasRecorded'
  BY DEF UpHasRecorded, Applied
<1>7. RollsBackRecords'
  BY DEF RollsBackRecords
<1>8. RanOnce'
  BY DEF RanOnce, Short, Stopped, Applied
<1>. QED
  BY <1>1, <1>2, <1>3, <1>4, <1>5, <1>6, <1>7, <1>8

\* The query an operation starts with takes its call into a loop.
LEMMA QueryStep ==
    ASSUME IInv, NEW c \in Calls, Steady(c), ~Stopped(c), NEW to \in {"up", "down"},
           UNCHANGED <<table, effect, mode, op, target, current, ran>>,
           pc[c] = "query", pc' = [pc EXCEPT ![c] = to], rows' \in SUBSET Calls,
           to = "up" <=> op[c] = "up",
           pending' \in [Calls -> SUBSET Registered],
           toRollback' \in [Calls -> Seq(Ids)],
           to = "up" => \A id \in Registered : id \in Applied \/ id \in pending'[c],
           to = "down" =>
              /\ Len(toRollback'[c]) <= Len(table)
              /\ \A i \in 1..Len(toRollback'[c]) :
                    toRollback'[c][i] = table[Len(table) + 1 - i]
              /\ op[c] = "downTo" =>
                    /\ Len(toRollback'[c]) < Len(table)
                    /\ table[Len(table) - Len(toRollback'[c])] = target[c]
    PROVE  IInv'
<1>. USE DEF IInv, Types
<1>1. Types'
  BY DEF NoDuplicates
<1>2. Turns'
  BY DEF Turns, Active, Over
<1>3. UpDone'
  <2>1. pc'[c] # "record"
    OBVIOUS
  <2>. QED
    BY <2>1, UpDoneKept
<1>4. DownDone'
  BY DEF DownDone, Steady
<1>5. OutOfStepIsInHand'
  <2>1. \A id \in Ids : InStep(id)' \/ ~(InStep(id) \/ Holds(c, id))
    BY DEF InStep, Holds, Applied
  <2>. QED
    BY <2>1, HandsKept
<1>6. UpHasRecorded'
  BY DEF UpHasRecorded, Applied, Steady
<1>7. RollsBackRecords'
  BY DEF RollsBackRecords, Steady
<1>8. RanOnce'
  BY DEF RanOnce, Short, Stopped, Applied
<1>. QED
  BY <1>1, <1>2, <1>3, <1>4, <1>5, <1>6, <1>7, <1>8
-----------------------------------------------------------------------------
LEMMA CrashIInv == ASSUME IInv, NEW c \in Calls, Crash(c) PROVE IInv'
<1>. USE IdsAssumption DEF IInv, Types, Goto, call
<1>0. Steady(c) /\ ~Stopped(c)
  BY OnlyOneMoves
<1>a. /\ UNCHANGED <<table, mode, op, target, pending, toRollback, ran>>
      /\ pc' = [pc EXCEPT ![c] = "crashed"] /\ rows' \in SUBSET Calls /\ Active(c)
      /\ \/ UNCHANGED <<effect, current>>
         \/ \E id \in Registered :
               /\ pc[c] \in {"up", "down"}
               /\ current' = [current EXCEPT ![c] = {id}]
               /\ effect' = [effect EXCEPT ![id] = "part"]
  BY DEF Crash, Over
<1>1. Types'
  <2>1. effect' \in [Ids -> {"none", "part", "full"}] /\ current' \in [Calls -> SUBSET Ids]
    <3>1. CASE UNCHANGED <<effect, current>>
      BY <3>1
    <3>2. CASE ~ UNCHANGED <<effect, current>>
      <4>1. PICK id \in Registered : /\ current' = [current EXCEPT ![c] = {id}]
                                     /\ effect' = [effect EXCEPT ![id] = "part"]
        BY <1>a, <3>2
      <4>. QED
        BY <4>1
    <3>. QED
      BY <3>1, <3>2
  <2>. QED
    BY <1>a, <2>1 DEF Over, NoDuplicates
<1>2. Turns'
  BY <1>a DEF Turns, Active, Over
<1>3. UpDone'
  <2>1. pc'[c] # "record"
    BY <1>a
  <2>2. ASSUME NEW id \in Ids, effect[id] = "full", effect'[id] # "full"
        PROVE  StoppedAt(id)'
    <3>1. current'[c] = {id} /\ Stopped(c)'
      BY <1>a, <2>2 DEF Stopped
    <3>. QED
      BY <3>1 DEF StoppedAt
  <2>. QED
    BY <1>0, <2>1, <2>2, UpDoneKept
<1>4. DownDone'
  <2>. SUFFICES ASSUME NEW d \in Calls, pc'[d] = "remove"
                PROVE  /\ toRollback[d] # <<>>
                       /\ current'[d] = {toRollback[d][1]}
                       /\ effect'[toRollback[d][1]] = "none"
    BY <1>a DEF DownDone
  <2>1. d # c /\ pc[d] = "remove"
    BY <1>a
  <2>2. FALSE
    BY <1>a, <2>1 DEF Turns, Active, Over
  <2>. QED
    BY <2>2
<1>5. OutOfStepIsInHand'
  <2>1. \A id \in Ids : InStep(id)' \/ Holds(c, id)' \/ ~(InStep(id) \/ Holds(c, id))
    BY <1>a DEF InStep, Holds, Applied
  <2>. QED
    BY <1>0, <2>1, HandsKept
<1>6. UpHasRecorded'
  BY <1>a DEF UpHasRecorded, Applied
<1>7. RollsBackRecords'
  BY <1>a DEF RollsBackRecords
<1>8. RanOnce'
  BY <1>a DEF RanOnce, Short, Stopped, Applied
<1>. QED
  BY <1>1, <1>2, <1>3, <1>4, <1>5, <1>6, <1>7, <1>8

LEMMA RunUpIInv == ASSUME IInv, NEW c \in Calls, RunUp(c) PROVE IInv'
<1>. USE IdsAssumption DEF IInv, Types, Goto, call
<1>0. Steady(c) /\ ~Stopped(c)
  BY OnlyOneMoves DEF Runs
<1>a. PICK id \in pending[c] :
         /\ pc[c] = "up" /\ rows' \in SUBSET Calls
         /\ UNCHANGED <<table, mode, op, target, toRollback>>
         /\ pending' = [pending EXCEPT ![c] = @ \ {id}]
         /\ current' = [current EXCEPT ![c] = {id}]
         /\ \/ /\ pc' = [pc EXCEPT ![c] = "record"]
               /\ effect' = [effect EXCEPT ![id] = "full"]
               /\ ran' = [ran EXCEPT ![c] = @ \union {id}]
            \/ /\ pc' = [pc EXCEPT ![c] = "error"]
               /\ \/ effect' = [effect EXCEPT ![id] = "part"]
                  \/ effect' = [effect EXCEPT ![id] = "full"]
                  \/ UNCHANGED effect
               /\ UNCHANGED ran
  <2>1. ASSUME NEW id \in pending[c], NEW left \in LeftBy(id, "full")
        PROVE  \/ [effect EXCEPT ![id] = left] = [effect EXCEPT ![id] = "part"]
               \/ [effect EXCEPT ![id] = left] = [effect EXCEPT ![id] = "full"]
               \/ [effect EXCEPT ![id] = left] = effect
    BY DEF LeftBy
  <2>. QED
    BY <2>1 DEF RunUp, Over
<1>b. id \in Registered /\ id \in Ids /\ id \in pending[c]
  BY <1>a
<1>1. Types'
  <2>1. effect' \in [Ids -> {"none", "part", "full"}] /\ current' \in [Calls -> SUBSET Ids]
    BY <1>a, <1>b
  <2>2. pending' \in [Calls -> SUBSET Registered] /\ ran' \in [Calls -> SUBSET Registered]
    <3>1. pending[c] \ {id} \in SUBSET Registered /\ ran[c] \union {id} \in SUBSET Registered
      BY <1>b
    <3>. QED
      BY <1>a, <3>1
  <2>3. pc' \in [Calls -> {"idle", "query", "up", "record", "down", "remove"} \union Over]
    BY <1>a DEF Over
  <2>. QED
    BY <1>a, <2>1, <2>2, <2>3 DEF NoDuplicates
<1>2. Turns'
  <2>1. \A d \in Calls : Active(d)' => Active(d)
    BY <1>a DEF Active, Over
  <2>2. op[c] = "up"
    BY <1>a DEF Turns
  <2>. QED
    BY <1>a, <2>1, <2>2 DEF Turns
<1>3. UpDone'
  <2>1. pc'[c] = "record" =>
           current'[c] = {id} /\ id \in ran'[c] /\ effect'[id] = "full"
    BY <1>a, <1>b
  <2>2. ASSUME NEW i \in Ids, effect[i] = "full", effect'[i] # "full"
        PROVE  StoppedAt(i)'
    <3>1. current'[c] = {i} /\ Stopped(c)'
      BY <1>a, <1>b, <2>2 DEF Stopped
    <3>. QED
      BY <3>1 DEF StoppedAt
  <2>. QED
    BY <1>0, <1>b, <2>1, <2>2, UpDoneKept
<1>4. DownDone'
  <2>. SUFFICES ASSUME NEW d \in Calls, pc'[d] = "remove" PROVE FALSE
    BY DEF DownDone
  <2>1. d # c /\ pc[d] = "remove"
    BY <1>a
  <2>. QED
    BY <1>a, <2>1 DEF Turns, Active, Over
<1>5. OutOfStepIsInHand'
  <2>1. \A i \in Ids : InStep(i)' \/ Holds(c, i)' \/ ~(InStep(i) \/ Holds(c, i))
    BY <1>a, <1>b DEF InStep, Holds, Applied
  <2>. QED
    BY <1>0, <2>1, HandsKept
<1>6. UpHasRecorded'
  BY <1>a, <1>b DEF UpHasRecorded, Applied
<1>7. RollsBackRecords'
  BY <1>a DEF RollsBackRecords
<1>8. RanOnce'
  <2>. SUFFICES ASSUME mode = "replicas" PROVE RanOnce'
    BY <1>a DEF RanOnce
  <2>1. \A d \in Calls, i \in Ids : d # c => (Short(d, i)' <=> Short(d, i))
    BY <1>0 DEF Steady, Short, Stopped
  <2>2. \A i \in ran'[c] : Short(c, i)' \/ (i \in ran[c] /\ i \in Applied)
    BY <1>a, <1>b DEF Short, Stopped, RanOnce
  <2>3. \A d \in Calls : ran'[d] \subseteq Ids /\ (d # c => ran'[d] = ran[d])
    BY <1>0, <1>1 DEF Steady
  <2>4. ASSUME NEW d \in Calls, NEW i \in ran'[d]
        PROVE  Short(d, i)' \/ i \in Applied'
    BY <1>a, <2>1, <2>2, <2>3, <2>4 DEF RanOnce, Applied
  <2>5. ~ (\E i \in ran[c] : Short(c, i))
    BY <1>a DEF Short, Stopped
  <2>6. ASSUME NEW d \in Calls, NEW i \in ran'[d] \intersect ran'[c], d # c
        PROVE  Short(c, i)' \/ Short(d, i)'
    BY <2>1, <2>2, <2>3, <2>5, <2>6 DEF RanOnce
  <2>7. ASSUME NEW d \in Calls, NEW e \in Calls, NEW i \in ran'[d] \intersect ran'[e],
               d # e, d # c, e # c
        PROVE  Short(d, i)' \/ Short(e, i)'
    BY <2>1, <2>3, <2>7 DEF RanOnce
  <2>. QED
    BY <1>a, <2>4, <2>6, <2>7 DEF RanOnce
<1>. QED
  BY <1>1, <1>2, <1>3, <1>4, <1>5, <1>6, <1>7, <1>8

LEMMA RecordIInv == ASSUME IInv, NEW c \in Calls, Record(c) PROVE IInv'
<1>. USE IdsAssumption DEF IInv, Types, Goto, call
<1>0. Steady(c) /\ ~Stopped(c)
  BY OnlyOneMoves DEF Runs
<1>a. PICK id \in current[c] :
         /\ pc[c] = "record" /\ rows' \in SUBSET Calls
         /\ UNCHANGED <<effect, mode, op, target, pending, toRollback, current, ran>>
         /\ \/ /\ id \notin Applied /\ table' = Append(table, id)
               /\ \E to \in {"up", "error"} : pc' = [pc EXCEPT ![c] = to]
            \/ UNCHANGED table /\ pc' = [pc EXCEPT ![c] = "error"]
  BY DEF Record, Over
<1>b. /\ id \in Ids /\ current[c] = {id} /\ id \in ran[c]
      /\ effect[id] = "full" \/ StoppedAt(id)
  BY <1>a DEF UpDone
<1>c. /\ table' \in Seq(Ids) /\ NoDuplicates(table')
      /\ Applied \subseteq Applied' /\ Applied' \subseteq Applied \union {id}
      /\ pc'[c] = "up" => id \notin Applied /\ id \in Applied'
      /\ id \notin Applied \/ UNCHANGED table
  <2>1. CASE id \notin Applied /\ table' = Append(table, id)
    BY <1>b, <2>1, AppendOf DEF Applied
  <2>2. CASE UNCHANGED table /\ pc'[c] = "error"
    BY <2>2 DEF Applied
  <2>. QED
    BY <1>a, <2>1, <2>2
<1>d. pc'[c] \in {"up", "error"} /\ op[c] = "up" /\ Active(c)
  BY <1>a DEF Turns, Active, Over
<1>1. Types'
  BY <1>a, <1>c DEF Over
<1>2. Turns'
  <2>1. \A d \in Calls : Active(d)' => Active(d)
    BY <1>a, <1>d DEF Active, Over
  <2>. QED
    BY <1>a, <1>d, <2>1 DEF Turns
<1>3. UpDone'
  BY <1>0, <1>a, <1>d, UpDoneKept
<1>e. \A d \in Calls : pc'[d] \notin {"down", "remove"}
  <2>. SUFFICES ASSUME NEW d \in Calls, pc'[d] \in {"down", "remove"} PROVE FALSE
    OBVIOUS
  <2>1. d # c /\ pc[d] \in {"down", "remove"}
    BY <1>0, <1>d DEF Steady
  <2>. QED
    BY <1>d, <2>1 DEF Turns, Active, Over
<1>4. DownDone'
  BY <1>e DEF DownDone
<1>5. OutOfStepIsInHand'
  <2>. SUFFICES ASSUME NEW i \in Ids, ~InStep(i)' PROVE \E d \in Calls : Holds(d, i)'
    BY DEF OutOfStepIsInHand, OutOfStep, InStep, Holds
  <2>1. CASE i = id /\ pc'[c] = "error"
    BY <1>a, <1>b, <2>1 DEF Holds
  <2>2. CASE i = id /\ pc'[c] = "up"
    <3>1. StoppedAt(i)
      BY <1>a, <1>b, <1>c, <2>2 DEF InStep
    <3>2. PICK d \in Calls : current[d] = {i} /\ Stopped(d)
      BY <3>1 DEF StoppedAt
    <3>3. Holds(d, i)'
      BY <1>0, <3>2 DEF Steady, Stopped, Holds
    <3>. QED
      BY <3>3
  <2>3. CASE i # id
    <3>1. ~InStep(i)
      BY <1>a, <1>c, <2>3 DEF InStep
    <3>2. PICK d \in Calls : Holds(d, i)
      BY <3>1 DEF OutOfStepIsInHand, OutOfStep, InStep, Holds
    <3>3. d # c
      BY <1>b, <2>3, <3>2 DEF Holds
    <3>4. Holds(d, i)'
      BY <1>0, <3>2, <3>3 DEF Steady, Holds
    <3>. QED
      BY <3>4
  <2>. QED
    BY <1>d, <2>1, <2>2, <2>3
<1>6. UpHasRecorded'
  BY <1>0, <1>a, <1>b, <1>c, <1>d DEF UpHasRecorded, Steady
<1>7. RollsBackRecords'
  BY <1>e DEF RollsBackRecords
<1>8. RanOnce'
  <2>. SUFFICES ASSUME mode = "replicas" PROVE RanOnce'
    BY <1>a DEF RanOnce
  <2>1. \A d \in Calls, i \in Ids : d # c => (Short(d, i)' <=> Short(d, i))
    BY <1>0 DEF Steady, Short, Stopped
  <2>2. \A i \in Ids : Short(c, i) => Short(c, i)' \/ (pc'[c] = "up" /\ i = id)
    BY <1>a, <1>b, <1>d DEF Short, Stopped
  <2>3. \A d \in Calls : ran'[d] = ran[d] /\ ran[d] \subseteq Ids
    BY <1>a
  <2>4. ASSUME NEW d \in Calls, NEW i \in ran[d]
        PROVE  Short(d, i)' \/ i \in Applied'
    BY <1>c, <2>1, <2>2, <2>3, <2>4 DEF RanOnce
  <2>5. ASSUME NEW d \in Calls, NEW i \in ran[d] \intersect ran[c], d # c
        PROVE  Short(d, i)' \/ Short(c, i)'
    <3>1. CASE pc'[c] = "up" /\ i = id
      BY <1>c, <2>1, <2>3, <2>5, <3>1 DEF RanOnce
    <3>2. CASE ~ (pc'[c] = "up" /\ i = id)
      BY <2>1, <2>2, <2>3, <2>5, <3>2 DEF RanOnce
    <3>. QED
      BY <3>1, <3>2
  <2>6. ASSUME NEW d \in Calls, NEW e \in Calls, NEW i \in ran[d] \intersect ran[e],
               d # e, d # c, e # c
        PROVE  Short(d, i)' \/ Short(e, i)'
    BY <2>1, <2>3, <2>6 DEF RanOnce
  <2>. QED
    BY <1>a, <2>3, <2>4, <2>5, <2>6 DEF RanOnce
<1>. QED
  BY <1>1, <1>2, <1>3, <1>4, <1>5, <1>6, <1>7, <1>8

LEMMA RunDownIInv == ASSUME IInv, NEW c \in Calls, RunDown(c) PROVE IInv'
<1>. USE IdsAssumption DEF IInv, Types, Goto, call
<1>0. Steady(c) /\ ~Stopped(c)
  BY OnlyOneMoves DEF Runs
<1>. DEFINE id == toRollback[c][1]
<1>a. /\ pc[c] = "down" /\ toRollback[c] # <<>> /\ id \in Ids /\ rows' \in SUBSET Calls
      /\ UNCHANGED <<table, mode, op, target, pending, toRollback, ran>>
      /\ current' = [current EXCEPT ![c] = {id}]
      /\ \/ /\ pc' = [pc EXCEPT ![c] = "remove"]
            /\ effect' = [effect EXCEPT ![id] = "none"]
         \/ /\ pc' = [pc EXCEPT ![c] = "error"]
            /\ \/ effect' = [effect EXCEPT ![id] = "part"]
               \/ effect' = [effect EXCEPT ![id] = "none"]
               \/ UNCHANGED effect
  <2>1. toRollback[c] # <<>> => Head(toRollback[c]) = id
    OBVIOUS
  <2>2. ASSUME NEW left \in LeftBy(id, "none")
        PROVE  \/ [effect EXCEPT ![id] = left] = [effect EXCEPT ![id] = "part"]
               \/ [effect EXCEPT ![id] = left] = [effect EXCEPT ![id] = "none"]
               \/ [effect EXCEPT ![id] = left] = effect
    BY DEF LeftBy
  <2>. QED
    BY <2>1, <2>2 DEF RunDown, Over
<1>. HIDE DEF id
<1>b. Active(c) /\ op[c] # "up" /\ mode = "operator"
  BY <1>a DEF Turns, Active, Over
<1>c. \A d \in Calls \ {c} : ~Active(d)
  BY <1>b DEF Turns
<1>1. Types'
  <2>1. effect' \in [Ids -> {"none", "part", "full"}]
    BY <1>a
  <2>2. current' \in [Calls -> SUBSET Ids]
    BY <1>a
  <2>3. pc' \in [Calls -> {"idle", "query", "up", "record", "down", "remove"} \union Over]
    BY <1>a DEF Over
  <2>. QED
    BY <1>a, <2>1, <2>2, <2>3 DEF NoDuplicates
<1>2. Turns'
  <2>1. \A d \in Calls : Active(d)' => Active(d)
    BY <1>a DEF Active, Over
  <2>. QED
    BY <1>a, <1>b, <2>1 DEF Turns
<1>3. UpDone'
  <2>1. \A d \in Calls \ {c} : pc[d] # "record"
    BY <1>c DEF Active, Over
  <2>2. pc'[c] # "record"
    BY <1>a
  <2>. QED
    BY <1>0, <2>1, <2>2, UpDoneKept
<1>4. DownDone'
  <2>. SUFFICES ASSUME NEW d \in Calls, pc'[d] = "remove"
                PROVE  /\ toRollback[d] # <<>>
                       /\ current'[d] = {toRollback[d][1]}
                       /\ effect'[toRollback[d][1]] = "none"
    BY <1>a DEF DownDone
  <2>1. d = c
    BY <1>0, <1>c DEF Steady, Active, Over
  <2>. QED
    BY <1>a, <2>1 DEF id
<1>5. OutOfStepIsInHand'
  <2>1. \A i \in Ids : InStep(i)' \/ Holds(c, i)' \/ ~(InStep(i) \/ Holds(c, i))
    BY <1>a DEF InStep, Holds, Applied
  <2>. QED
    BY <1>0, <2>1, HandsKept
<1>6. UpHasRecorded'
  BY <1>a DEF UpHasRecorded, Applied
<1>7. RollsBackRecords'
  BY <1>a DEF RollsBackRecords
<1>8. RanOnce'
  BY <1>a, <1>b DEF RanOnce
<1>. QED
  BY <1>1, <1>2, <1>3, <1>4, <1>5, <1>6, <1>7, <1>8

\* removeMigrationRecord removes the last record, or fails.
LEMMA RemovesLast ==
    ASSUME IInv, NEW c \in Calls, RemoveRecord(c)
    PROVE  /\ table # <<>> /\ toRollback[c] # <<>>
           /\ toRollback[c][1] = table[Len(table)]
           /\ \/ pc' = [pc EXCEPT ![c] = "down"] /\ table' = Front(table)
              \/ pc' = [pc EXCEPT ![c] = "error"] /\ table' \in {table, Front(table)}
<1>. USE DEF IInv, Types
<1>1. /\ toRollback[c] # <<>> /\ Len(toRollback[c]) <= Len(table)
      /\ \A i \in 1..Len(toRollback[c]) : toRollback[c][i] = table[Len(table) + 1 - i]
  BY DEF RemoveRecord, DownDone, RollsBackRecords
<1>2. table # <<>> /\ toRollback[c][1] = table[Len(table)]
  BY <1>1
<1>3. Head(toRollback[c]) = table[Len(table)]
  BY <1>1, <1>2
<1>4. RemoveFirst(table, Head(toRollback[c])) = Front(table)
  BY <1>2, <1>3, RemoveLastRow
<1>. QED
  BY <1>1, <1>2, <1>4 DEF RemoveRecord, Goto

LEMMA RemoveRecordIInv == ASSUME IInv, NEW c \in Calls, RemoveRecord(c) PROVE IInv'
<1>. USE IdsAssumption DEF IInv, Types, Goto, call
<1>0. Steady(c) /\ ~Stopped(c)
  BY OnlyOneMoves DEF Runs
<1>a. /\ pc[c] = "remove" /\ rows' \in SUBSET Calls
      /\ UNCHANGED <<effect, mode, op, target, pending, current, ran>>
      /\ toRollback' = [toRollback EXCEPT ![c] = Tail(@)]
  BY DEF RemoveRecord, Over
<1>b. PICK id \in Ids :
      /\ table # <<>> /\ toRollback[c] # <<>> /\ id = table[Len(table)]
      /\ \/ pc' = [pc EXCEPT ![c] = "down"] /\ table' = Front(table)
         \/ pc' = [pc EXCEPT ![c] = "error"] /\ table' \in {table, Front(table)}
      /\ current[c] = {id} /\ effect[id] = "none"
  <2>1. table # <<>> => table[Len(table)] \in Ids
    OBVIOUS
  <2>. QED
    BY <1>a, <2>1, RemovesLast DEF DownDone
<1>c. Active(c) /\ op[c] # "up" /\ mode = "operator"
  BY <1>a DEF Turns, Active, Over
<1>d. \A d \in Calls \ {c} : ~Active(d)
  BY <1>c DEF Turns
<1>e. /\ table' \in Seq(Ids) /\ NoDuplicates(table')
      /\ Applied' \subseteq Applied /\ Applied \subseteq Applied' \union {id}
      /\ pc'[c] = "down" => id \notin Applied'
  BY <1>b, FrontOf DEF Applied
<1>f. \A d \in Calls : d # c => pc'[d] \notin {"up", "record", "down", "remove"}
  BY <1>0, <1>d DEF Steady, Active, Over
<1>g. pc'[c] \in {"down", "error"}
  BY <1>b
<1>1. Types'
  <2>1. Tail(toRollback[c]) \in Seq(Ids)
    BY <1>b
  <2>. QED
    BY <1>a, <1>b, <1>e, <2>1 DEF Over
<1>2. Turns'
  <2>1. \A d \in Calls : Active(d)' => Active(d)
    BY <1>b, <1>c DEF Active, Over
  <2>. QED
    BY <1>a, <1>c, <1>f, <1>g, <2>1 DEF Turns
<1>3. UpDone'
  BY <1>f, <1>g DEF UpDone
<1>4. DownDone'
  BY <1>f, <1>g DEF DownDone
<1>5. OutOfStepIsInHand'
  <2>1. id \in Ids
    BY <1>b
  <2>2. CASE pc'[c] = "error"
    <3>1. \A i \in Ids : i # id => (InStep(i) => InStep(i)') /\ ~Holds(c, i)
      BY <1>a, <1>b, <1>e DEF InStep, Holds
    <3>2. Holds(c, id)'
      BY <1>a, <1>b, <2>2 DEF Holds
    <3>. QED
      BY <1>0, <2>1, <3>1, <3>2, HandsKept
  <2>3. CASE pc'[c] = "down"
    <3>1. \A i \in Ids : i # id => (InStep(i) => InStep(i)') /\ ~Holds(c, i)
      BY <1>a, <1>b, <1>e DEF InStep, Holds
    <3>2. InStep(id)'
      BY <1>a, <1>b, <1>e, <2>3 DEF InStep
    <3>. QED
      BY <1>0, <2>1, <3>1, <3>2, HandsKept
  <2>. QED
    BY <1>g, <2>2, <2>3
<1>6. UpHasRecorded'
  BY <1>f, <1>g DEF UpHasRecorded
<1>7. RollsBackRecords'
  <2>. SUFFICES ASSUME pc'[c] = "down"
                PROVE  /\ Len(toRollback'[c]) <= Len(table')
                       /\ \A i \in 1..Len(toRollback'[c]) :
                             toRollback'[c][i] = table'[Len(table') + 1 - i]
                       /\ op'[c] = "downTo" =>
                             /\ Len(toRollback'[c]) < Len(table')
                             /\ table'[Len(table') - Len(toRollback'[c])] = target'[c]
    BY <1>f, <1>g DEF RollsBackRecords
  <2>1. /\ table' = Front(table) /\ Len(table') = Len(table) - 1
        /\ \A i \in 1..(Len(table) - 1) : table'[i] = table[i]
    BY <1>b, FrontOf
  <2>2. toRollback'[c] = Tail(toRollback[c])
    BY <1>a
  <2>3. /\ Len(toRollback'[c]) = Len(toRollback[c]) - 1
        /\ \A i \in 1..(Len(toRollback[c]) - 1) : toRollback'[c][i] = toRollback[c][i + 1]
    BY <1>b, <2>2
  <2>4. /\ Len(toRollback[c]) <= Len(table)
        /\ \A i \in 1..Len(toRollback[c]) :
              toRollback[c][i] = table[Len(table) + 1 - i]
        /\ op[c] = "downTo" =>
              /\ Len(toRollback[c]) < Len(table)
              /\ table[Len(table) - Len(toRollback[c])] = target[c]
    BY <1>a DEF RollsBackRecords
  <2>5. Len(table) \in Nat /\ Len(toRollback[c]) \in Nat \ {0}
    BY <1>b
  <2>6. op'[c] = op[c] /\ target'[c] = target[c]
    BY <1>a
  <2>7. Len(toRollback'[c]) <= Len(table')
    BY <2>1, <2>3, <2>4, <2>5
  <2>8. ASSUME NEW i \in 1..Len(toRollback'[c])
        PROVE  toRollback'[c][i] = table'[Len(table') + 1 - i]
    <3>1. /\ i \in 1..(Len(toRollback[c]) - 1) /\ i + 1 \in 1..Len(toRollback[c])
          /\ Len(table) - i \in 1..(Len(table) - 1)
      BY <2>3, <2>4, <2>5
    <3>2. toRollback'[c][i] = table[Len(table) + 1 - (i + 1)]
      BY <2>3, <2>4, <3>1
    <3>3. i \in Int /\ Len(table) \in Int
      BY <2>5, <3>1
    <3>4. Len(table') + 1 - i = Len(table) - i
      BY ONLY <2>1, <3>3
    <3>5. Len(table) + 1 - (i + 1) = Len(table) - i
      BY ONLY <3>3
    <3>. QED
      BY <2>1, <3>1, <3>2, <3>4, <3>5
  <2>9. ASSUME op[c] = "downTo"
        PROVE  /\ Len(toRollback'[c]) < Len(table')
               /\ table'[Len(table') - Len(toRollback'[c])] = target[c]
    <3>1. /\ Len(toRollback[c]) < Len(table)
          /\ table[Len(table) - Len(toRollback[c])] = target[c]
      BY <2>4, <2>9
    <3>2. Len(table) - Len(toRollback[c]) \in 1..(Len(table) - 1)
      BY <2>5, <3>1
    <3>3. Len(table') - Len(toRollback'[c]) = Len(table) - Len(toRollback[c])
      BY <2>1, <2>3, <2>5
    <3>4. Len(toRollback'[c]) < Len(table')
      BY <2>1, <2>3, <2>5, <3>1
    <3>. QED
      BY <2>1, <3>1, <3>2, <3>3, <3>4
  <2>. QED
    BY <2>6, <2>7, <2>8, <2>9
<1>8. RanOnce'
  BY <1>a, <1>c DEF RanOnce
<1>. QED
  BY <1>1, <1>2, <1>3, <1>4, <1>5, <1>6, <1>7, <1>8
-----------------------------------------------------------------------------
LEMMA NextIInv == IInv /\ [Next]_vars => IInv'
<1>. SUFFICES ASSUME IInv, [Next]_vars PROVE IInv'
  OBVIOUS
<1>1. ASSUME NEW c \in Calls, Start(c) \/ Crash(c) \/ Runs(c) PROVE IInv'
  <2>. USE DEF Goto, call, database, Over
  <2>0. Steady(c) /\ ~Stopped(c) /\ Types
    BY <1>1, OnlyOneMoves DEF IInv
  <2>1. CASE Start(c)
    BY <2>0, <2>1, QuietStep DEF Start, Types
  <2>2. CASE Crash(c)
    BY <2>2, CrashIInv
  <2>3. CASE QueryFails(c) \/ UpReturns(c) \/ NothingToRollBack(c)
    BY <2>0, <2>3, QuietStep DEF QueryFails, UpReturns, NothingToRollBack, Types
  <2>4. CASE TargetNotFound(c) \/ RollbackReturns(c) \/ RollbackRefused(c)
    BY <2>0, <2>4, QuietStep DEF TargetNotFound, RollbackReturns, RollbackRefused, Types
  <2>5. CASE QueryApplied(c)
    <3>1. PICK applied \in SUBSET Applied :
             pending' = [pending EXCEPT ![c] = Registered \ applied]
      BY <2>5 DEF QueryApplied
    <3>2. /\ pending' \in [Calls -> SUBSET Registered]
          /\ \A id \in Registered : id \in Applied \/ id \in pending'[c]
      BY <2>0, <3>1 DEF Types
    <3>. QED
      BY <2>0, <2>5, <3>2, QueryStep DEF QueryApplied, Types
  <2>6. CASE QueryLast(c)
    <3>1. /\ toRollback' \in [Calls -> Seq(Ids)]
          /\ Len(toRollback'[c]) = 1 /\ toRollback'[c][1] = table[Len(table)]
          /\ Len(table) \in Nat \ {0}
      BY <2>0, <2>6 DEF QueryLast, Types, Last
    <3>2. /\ Len(toRollback'[c]) <= Len(table)
          /\ \A i \in 1..Len(toRollback'[c]) :
                toRollback'[c][i] = table[Len(table) + 1 - i]
      BY <3>1
    <3>3. op[c] # "downTo" /\ op[c] # "up"
      BY <2>6 DEF QueryLast
    <3>. QED
      BY <2>0, <2>6, <3>1, <3>2, <3>3, QueryStep DEF QueryLast, Types
  <2>7. CASE QueryToTarget(c)
    <3>1. PICK n \in DOMAIN table :
             /\ Latest[n] = target[c]
             /\ toRollback' = [toRollback EXCEPT ![c] = SubSeq(Latest, 1, n - 1)]
      BY <2>7 DEF QueryToTarget
    <3>2. /\ n \in 1..Len(table) /\ n - 1 \in 0..Len(table) /\ Len(table) \in Nat
          /\ table[Len(table) + 1 - n] = target[c]
      BY <2>0, <3>1 DEF Types, Latest, Reverse
    <3>3. /\ toRollback'[c] \in Seq(Ids) /\ Len(toRollback'[c]) = n - 1
          /\ \A i \in 1..(n - 1) : toRollback'[c][i] = table[Len(table) + 1 - i]
      BY <2>0, <3>1, <3>2, ReversedPrefix DEF Types, Latest
    <3>4. /\ Len(table) - Len(toRollback'[c]) = Len(table) + 1 - n
          /\ Len(toRollback'[c]) < Len(table)
      BY <3>2, <3>3
    <3>5. toRollback' \in [Calls -> Seq(Ids)]
      BY <2>0, <3>1, <3>3 DEF Types
    <3>6. table[Len(table) - Len(toRollback'[c])] = target[c]
      BY <3>2, <3>4
    <3>7. \A i \in 1..Len(toRollback'[c]) :
             toRollback'[c][i] = table[Len(table) + 1 - i]
      BY <3>3
    <3>8. Len(toRollback'[c]) <= Len(table)
      BY <3>2, <3>3
    <3>9. op[c] # "up" /\ rows' \in SUBSET Calls
      BY <2>0, <2>7 DEF QueryToTarget, Types
    <3>. QED
      BY <2>0, <2>7, <3>4, <3>5, <3>6, <3>7, <3>8, <3>9, QueryStep DEF QueryToTarget, Types
  <2>8. CASE QueryAll(c)
    <3>1. /\ Len(table) \in Nat /\ Latest \in Seq(Ids) /\ Len(Latest) = Len(table)
          /\ \A i \in 1..Len(table) : Latest[i] = table[Len(table) + 1 - i]
      BY <2>0 DEF Types, Latest, Reverse
    <3>2. PICK list \in Prefixes(Latest) \union {Latest} :
             toRollback' = [toRollback EXCEPT ![c] = list]
      BY <2>8 DEF QueryAll
    <3>3. /\ list \in Seq(Ids) /\ Len(list) <= Len(table)
          /\ \A i \in 1..Len(list) : list[i] = table[Len(table) + 1 - i]
      <4>1. CASE list = Latest
        BY <3>1, <4>1
      <4>2. CASE list \in Prefixes(Latest)
        <5>1. PICK n \in 0..Len(table) : list = SubSeq(Latest, 1, n)
          BY <3>1, <4>2 DEF Prefixes
        <5>2. /\ list \in Seq(Ids) /\ Len(list) = n
              /\ \A i \in 1..n : list[i] = table[Len(table) + 1 - i]
          BY <2>0, <5>1, ReversedPrefix DEF Types, Latest
        <5>. QED
          BY <3>1, <5>2
      <4>. QED
        BY <4>1, <4>2
    <3>4. toRollback' \in [Calls -> Seq(Ids)] /\ toRollback'[c] = list
      BY <2>0, <3>2, <3>3 DEF Types
    <3>. QED
      BY <2>0, <2>8, <3>3, <3>4, QueryStep DEF QueryAll, Types
  <2>9. CASE RunUp(c)
    BY <2>9, RunUpIInv
  <2>10. CASE Record(c)
    BY <2>10, RecordIInv
  <2>11. CASE RunDown(c)
    BY <2>11, RunDownIInv
  <2>12. CASE RemoveRecord(c)
    BY <2>12, RemoveRecordIInv
  <2>. QED
    BY <1>1, <2>1, <2>2, <2>3, <2>4, <2>5, <2>6, <2>7, <2>8, <2>9, <2>10, <2>11, <2>12
    DEF Runs
<1>2. CASE UNCHANGED vars
  <2>. USE <1>2 DEF IInv, vars, database, call
  <2>1. Types' /\ Turns'
    BY DEF Types, Turns, Active
  <2>2. UpDone' /\ DownDone'
    BY DEF UpDone, DownDone, StoppedAt, Stopped
  <2>3. OutOfStepIsInHand' /\ UpHasRecorded'
    BY DEF OutOfStepIsInHand, OutOfStep, UpHasRecorded, Applied
  <2>4. RollsBackRecords' /\ RanOnce'
    BY DEF RollsBackRecords, RanOnce, Short, Stopped, Applied
  <2>. QED
    BY <2>1, <2>2, <2>3, <2>4
<1>. QED
  BY <1>1, <1>2 DEF Next

\* IInv holds in every run.
THEOREM Invariance == Spec => []IInv
<1>. QED
  BY InitIInv, NextIInv, PTL DEF Spec

\* TypeOK: every variable keeps its type, and the table never has an ID twice.
THEOREM TypeCorrect == Spec => []TypeOK
<1>1. IInv => TypeOK
  BY LengthIsCardinality DEF IInv, Types, TypeOK, NoDuplicates, Applied
<1>. QED
  BY <1>1, Invariance, PTL

\* OutOfStepIsInHand: for any migrations and any number of calls, failures and
\* crashes, a disagreement of table and schema is where a call is or was stopped.
THEOREM DisagreementsInHand == Spec => []OutOfStepIsInHand
<1>1. IInv => OutOfStepIsInHand
  BY DEF IInv
<1>. QED
  BY <1>1, Invariance, PTL

\* NoSilentRerun: of any number of replicas that run a migration twice, all but
\* one learn of it from Up's error.
THEOREM RerunsAreReported == Spec => []NoSilentRerun
<1>1. IInv => NoSilentRerun
  BY DEF IInv, RanOnce, Short, Stopped, NoSilentRerun, Types
<1>. QED
  BY <1>1, Invariance, PTL

\* RollsBackLast: what removes a record removes the last one.
THEOREM LastGoesFirst == Spec => RollsBackLast
<1>1. IInv /\ [Next]_vars => [Len(table') < Len(table) => table' = Front(table)]_vars
  <2>. SUFFICES ASSUME IInv, Next, Len(table') < Len(table) PROVE table' = Front(table)
    OBVIOUS
  <2>1. PICK c \in Calls : Start(c) \/ Crash(c) \/ Runs(c)
    BY DEF Next
  <2>2. CASE RemoveRecord(c)
    <3>1. table' \in {table, Front(table)}
      BY <2>2, RemovesLast
    <3>. QED
      BY <3>1 DEF IInv, Types
  <2>3. CASE Record(c)
    <3>1. table' = table \/ \E id \in Ids : table' = Append(table, id)
      BY <2>3 DEF Record, IInv, Types
    <3>. QED
      BY <3>1 DEF IInv, Types
  <2>4. CASE ~RemoveRecord(c) /\ ~Record(c)
    <3>1. table' = table
      BY <2>1, <2>4 DEF Start, Crash, Runs, QueryFails, QueryApplied, UpReturns, RunUp,
           QueryLast, NothingToRollBack, QueryToTarget, TargetNotFound, QueryAll,
           RollbackReturns, RollbackRefused, RunDown, database
    <3>. QED
      BY <3>1 DEF IInv, Types
  <2>. QED
    BY <2>2, <2>3, <2>4
<1>. QED
  BY <1>1, Invariance, PTL DEF Spec, RollsBackLast

\* SuccessMeansDone: nil from Up means that every registered migration is
\* recorded, nil from DownTo that its target is the last record.
THEOREM NilIsTheTruth == Spec => SuccessMeansDone
<1>1. ASSUME IInv, Next, NEW c \in Calls, pc[c] # "ok", pc'[c] = "ok"
      PROVE  /\ op[c] = "up" => Registered \subseteq Applied'
             /\ op[c] = "downTo" => table' # <<>> /\ Last(table') = target[c]
  <2>. USE DEF IInv, Types
  <2>1. PICK d \in Calls : Start(d) \/ Crash(d) \/ Runs(d)
    BY <1>1 DEF Next
  <2>2. UpReturns(c) \/ RollbackReturns(c)
    <3>1. d = c
      BY <1>1, <2>1, OnlyOneMoves DEF Steady
    <3>. QED
      BY <1>1, <2>1, <3>1 DEF Start, Crash, Runs, QueryFails, QueryApplied, RunUp, Record,
         QueryLast, NothingToRollBack, QueryToTarget, TargetNotFound, QueryAll,
         RollbackRefused, RunDown, RemoveRecord, Goto
  <2>3. CASE UpReturns(c)
    <3>1. Registered \subseteq Applied /\ op[c] = "up"
      BY <1>1, <2>3 DEF UpReturns, UpHasRecorded, Turns
    <3>. QED
      BY <2>3, <3>1 DEF UpReturns, database, Applied
  <2>4. CASE RollbackReturns(c)
    <3>1. op[c] # "up" /\ table' = table /\ pc[c] = "down" /\ toRollback[c] = <<>>
      BY <1>1, <2>4 DEF RollbackReturns, Turns, database
    <3>2. op[c] = "downTo" => 0 < Len(table) /\ table[Len(table) - 0] = target[c]
      BY <1>1, <3>1 DEF RollsBackRecords
    <3>. QED
      BY <1>1, <3>1, <3>2 DEF Last
  <2>. QED
    BY <2>2, <2>3, <2>4
<1>2. IInv /\ [Next]_vars =>
        [\A c \in Calls : op[c] = "up" /\ pc[c] # "ok" /\ pc'[c] = "ok"
            => Registered \subseteq Applied']_vars
  BY <1>1
<1>3. IInv /\ [Next]_vars =>
        [\A c \in Calls : op[c] = "downTo" /\ pc[c] # "ok" /\ pc'[c] = "ok"
            => table' # <<>> /\ Last(table') = target[c]]_vars
  BY <1>1
<1>4. Spec => UpAppliesAll
  BY <1>2, Invariance, PTL DEF Spec, UpAppliesAll
<1>5. Spec => DownToStopsAtTarget
  BY <1>3, Invariance, PTL DEF Spec, DownToStopsAtTarget
<1>. QED
  BY <1>4, <1>5 DEF SuccessMeansDone
=============================================================================
