------------------------------ MODULE Migrator ------------------------------
(***************************************************************************)
(* migrate.Migrator: Up, Down, DownTo and Reset run the functions of the   *)
(* registered migrations and keep a table of the ones applied.  A function *)
(* and the statement that records it are two steps with no transaction     *)
(* around them, nothing excludes two processes that run at once, each      *)
(* process works from what it read at the start, and any of them may fail  *)
(* or crash in between.                                                    *)
(***************************************************************************)
EXTENDS Integers, FiniteSets, SequencesExt

CONSTANTS
    Ids,        \* the migrations there are or were, numbers in the order of IDs
    Registered, \* the ones in the migrations map
    NoDown,     \* the ones with no Down function (no down file)
    Calls,      \* calls of the operations; each starts at most once
    Modes,      \* the ways the package is used, see mode
    Flaky,      \* statements and functions may fail, processes may crash
    MaxConns    \* the connections of the pool

ASSUME IdsAssumption ==
    IsFiniteSet(Ids) /\ Registered \subseteq Ids /\ NoDown \subseteq Ids
ASSUME ModesAssumption == Modes \subseteq {"operator", "replicas"}
ASSUME FlakyAssumption == Flaky \in BOOLEAN
ASSUME MaxConnsAssumption == MaxConns \in Nat \ {0}

VARIABLES
    mode,       \* "operator": any operations, one call at a time;
                \* "replicas": processes that all call Up when they start
    table,      \* the recorded IDs in the order of applied_at
    effect,     \* how much of each migration the schema has
    op,         \* the operation of each call
    target,     \* the targetID of each DownTo
    pc,         \* where each call is
    pending,    \* the migrations an Up has still to run
    toRollback, \* the ones a rollback has still to run
    current,    \* the last migration whose function the call began, as a set
    ran,        \* the migrations whose Up function it completed
    rows        \* the calls that hold a connection for rows they have not closed

call == <<mode, op, target>>
Ops == {"up", "down", "downTo", "reset"}
database == <<table, effect>>
vars == <<database, call, pc, pending, toRollback, current, ran, rows>>

Init ==
    /\ table \in UNION {SetToSeqs(old) : old \in SUBSET (Ids \ Registered)}
    /\ effect = [id \in Ids |-> IF id \in ToSet(table) THEN "full" ELSE "none"]
    /\ mode \in Modes
    /\ op \in [Calls -> IF mode = "replicas" THEN {"up"} ELSE Ops]
    /\ target \in [Calls -> Ids]
    /\ \A c \in Calls : op[c] # "downTo" =>
          \A id \in Ids : target[c] <= id
    /\ pc = [c \in Calls |-> "idle"]
    /\ pending = [c \in Calls |-> {}]
    /\ toRollback = [c \in Calls |-> <<>>]
    /\ current = [c \in Calls |-> {}]
    /\ ran = [c \in Calls |-> {}]
    /\ rows = {}

Applied == ToSet(table)
Over == {"ok", "error", "crashed"}
Active(c) == pc[c] \notin Over \union {"idle"}

\* A statement takes a connection of the pool, or waits for one.
ConnFree == Cardinality(rows) < MaxConns

\* The call goes on at a place; it returns, which closes its rows.
Goto(c, to) ==
    /\ pc' = [pc EXCEPT ![c] = to]
    /\ rows' = IF to \in Over THEN rows \ {c} ELSE rows

\* A file is executed statement by statement, with no transaction: an error
\* leaves what was done before it, and one of a connection that broke may come
\* after the last of it.
LeftBy(id, to) == {effect[id], "part", to}

\* What ORDER BY applied_at DESC gives.
Latest == Reverse(table)

-----------------------------------------------------------------------------
(***************************************************************************)
(* Faults.  Each is an action the way a plausible bug would make it, and   *)
(* takes no part in Spec: put in the place of the action it is named after *)
(* it breaks the properties its comment names.                             *)
(***************************************************************************)
\* A failed function is skipped: OutOfStepIsInHand.
RunUpGoesOn(c) ==
    /\ pc[c] = "up" /\ ConnFree
    /\ \E id \in pending[c] :
          /\ pending' = [pending EXCEPT ![c] = @ \ {id}]
          /\ current' = [current EXCEPT ![c] = {id}]
          /\ \/ Goto(c, "record") /\ effect' = [effect EXCEPT ![id] = "full"]
             \/ Goto(c, "up") /\ effect' = [effect EXCEPT ![id] = "part"]
    /\ UNCHANGED <<table, call, toRollback, ran>>

\* The column is no primary key: TypeOK.
RecordUnkeyed(c) ==
    /\ pc[c] = "record" /\ ConnFree
    /\ \E id \in current[c] : table' = Append(table, id)
    /\ Goto(c, "up")
    /\ UNCHANGED <<effect, call, pending, toRollback, current, ran>>

\* ON CONFLICT DO NOTHING: NoSilentRerun.
RecordUnlessThere(c) ==
    /\ pc[c] = "record" /\ ConnFree
    /\ \E id \in current[c] :
          table' = IF id \in Applied THEN table ELSE Append(table, id)
    /\ Goto(c, "up")
    /\ UNCHANGED <<effect, call, pending, toRollback, current, ran>>

\* ORDER BY applied_at without DESC: RollsBackLast.
QueryAllAscending(c) ==
    /\ pc[c] = "query" /\ op[c] = "reset" /\ ConnFree
    /\ toRollback' = [toRollback EXCEPT ![c] = table]
    /\ Goto(c, "down")
    /\ UNCHANGED <<database, call, pending, current, ran>>

\* The target is rolled back too: SuccessMeansDone.
QueryPastTarget(c) ==
    /\ pc[c] = "query" /\ op[c] = "downTo" /\ ConnFree
    /\ \E n \in DOMAIN table :
          /\ Latest[n] = target[c]
          /\ toRollback' = [toRollback EXCEPT ![c] = SubSeq(Latest, 1, n)]
    /\ pc' = [pc EXCEPT ![c] = "down"]
    /\ rows' = rows \union {c}
    /\ UNCHANGED <<database, call, pending, current, ran>>

-----------------------------------------------------------------------------
\* The call.
Start(c) ==
    /\ pc[c] = "idle"
    /\ mode = "operator" => \A d \in Calls : ~Active(d)
    /\ Goto(c, "query")
    /\ UNCHANGED <<database, call, pending, toRollback, current, ran>>

\* The process dies; a function that was running has done a part of its work.
Crash(c) ==
    /\ Flaky /\ Active(c)
    /\ Goto(c, "crashed")
    /\ \/ UNCHANGED <<effect, current>>
       \/ /\ pc[c] = "up"
          /\ \E id \in pending[c] : /\ current' = [current EXCEPT ![c] = {id}]
                                    /\ effect' = [effect EXCEPT ![id] = "part"]
       \/ /\ pc[c] = "down" /\ toRollback[c] # <<>>
          /\ LET id == Head(toRollback[c]) IN
                /\ id \in Registered \ NoDown
                /\ current' = [current EXCEPT ![c] = {id}]
                /\ effect' = [effect EXCEPT ![id] = "part"]
    /\ UNCHANGED <<table, call, pending, toRollback, ran>>

\* ensureMigrationTable, or the SELECT that follows it, returns an error.
QueryFails(c) ==
    /\ Flaky /\ pc[c] = "query" /\ ConnFree
    /\ Goto(c, "error")
    /\ UNCHANGED <<database, call, pending, toRollback, current, ran>>

-----------------------------------------------------------------------------
\* getAppliedMigrations.  rows.Err() is not looked at: when the connection
\* breaks, the rows there were are taken for all.
QueryApplied(c) ==
    /\ pc[c] = "query" /\ op[c] = "up" /\ ConnFree
    /\ \E applied \in (IF Flaky THEN SUBSET Applied ELSE {Applied}) :
          pending' = [pending EXCEPT ![c] = Registered \ applied]
    /\ Goto(c, "up")
    /\ UNCHANGED <<database, call, toRollback, current, ran>>

\* The loop over a map takes the migrations in any order; its end.
UpReturns(c) ==
    /\ pc[c] = "up" /\ pending[c] = {}
    /\ Goto(c, "ok")
    /\ UNCHANGED <<database, call, pending, toRollback, current, ran>>

\* migration.Up of one of them.
RunUp(c) ==
    /\ pc[c] = "up" /\ ConnFree
    /\ \E id \in pending[c] :
          /\ pending' = [pending EXCEPT ![c] = @ \ {id}]
          /\ current' = [current EXCEPT ![c] = {id}]
          /\ \/ /\ Goto(c, "record")
                /\ effect' = [effect EXCEPT ![id] = "full"]
                /\ ran' = [ran EXCEPT ![c] = @ \union {id}]
             \/ /\ Flaky
                /\ Goto(c, "error")
                /\ \E left \in LeftBy(id, "full") :
                      effect' = [effect EXCEPT ![id] = left]
                /\ UNCHANGED ran
    /\ UNCHANGED <<table, call, toRollback>>

\* recordMigration: the primary key refuses a second record.  The error of a
\* connection that broke does not say whether the record is there.
Record(c) ==
    /\ pc[c] = "record" /\ ConnFree
    /\ \E id \in current[c] :
          \/ id \notin Applied /\ table' = Append(table, id) /\ Goto(c, "up")
          \/ id \in Applied /\ Goto(c, "error") /\ UNCHANGED table
          \/ /\ Flaky /\ Goto(c, "error")
             /\ table' = IF id \in Applied THEN table ELSE Append(table, id)
          \/ Flaky /\ Goto(c, "error") /\ UNCHANGED table
    /\ UNCHANGED <<effect, call, pending, toRollback, current, ran>>

-----------------------------------------------------------------------------
\* Down: the last record.
QueryLast(c) ==
    /\ pc[c] = "query" /\ op[c] = "down" /\ ConnFree
    /\ table # <<>>
    /\ toRollback' = [toRollback EXCEPT ![c] = <<Last(table)>>]
    /\ Goto(c, "down")
    /\ UNCHANGED <<database, call, pending, current, ran>>

\* "no migrations to rollback"
NothingToRollBack(c) ==
    /\ pc[c] = "query" /\ op[c] = "down" /\ ConnFree
    /\ table = <<>>
    /\ Goto(c, "error")
    /\ UNCHANGED <<database, call, pending, toRollback, current, ran>>

\* DownTo: the loop breaks at the target with its rows open, so they keep their
\* connection until DownTo returns.
QueryToTarget(c) ==
    /\ pc[c] = "query" /\ op[c] = "downTo" /\ ConnFree
    /\ \E n \in DOMAIN table :
          /\ Latest[n] = target[c]
          /\ toRollback' = [toRollback EXCEPT ![c] = SubSeq(Latest, 1, n - 1)]
    /\ pc' = [pc EXCEPT ![c] = "down"]
    /\ rows' = rows \union {c}
    /\ UNCHANGED <<database, call, pending, current, ran>>

\* The target is not recorded, or the rows broke off before it.
TargetNotFound(c) ==
    /\ pc[c] = "query" /\ op[c] = "downTo" /\ ConnFree
    /\ target[c] \notin Applied \/ Flaky
    /\ Goto(c, "error")
    /\ UNCHANGED <<database, call, pending, toRollback, current, ran>>

\* Reset: all the rows, or the ones before the connection broke.
QueryAll(c) ==
    /\ pc[c] = "query" /\ op[c] = "reset" /\ ConnFree
    /\ \E list \in (IF Flaky THEN Prefixes(Latest) ELSE {Latest}) :
          toRollback' = [toRollback EXCEPT ![c] = list]
    /\ Goto(c, "down")
    /\ UNCHANGED <<database, call, pending, current, ran>>

RollbackReturns(c) ==
    /\ pc[c] = "down" /\ toRollback[c] = <<>>
    /\ Goto(c, "ok")
    /\ UNCHANGED <<database, call, pending, toRollback, current, ran>>

\* "not found in registered migrations", "has no down function"
RollbackRefused(c) ==
    /\ pc[c] = "down" /\ toRollback[c] # <<>>
    /\ Head(toRollback[c]) \notin Registered \ NoDown
    /\ Goto(c, "error")
    /\ UNCHANGED <<database, call, pending, toRollback, current, ran>>

\* migration.Down
RunDown(c) ==
    /\ pc[c] = "down" /\ toRollback[c] # <<>> /\ ConnFree
    /\ LET id == Head(toRollback[c]) IN
          /\ id \in Registered \ NoDown
          /\ current' = [current EXCEPT ![c] = {id}]
          /\ \/ Goto(c, "remove") /\ effect' = [effect EXCEPT ![id] = "none"]
             \/ /\ Flaky
                /\ Goto(c, "error")
                /\ \E left \in LeftBy(id, "none") :
                      effect' = [effect EXCEPT ![id] = left]
    /\ UNCHANGED <<table, call, pending, toRollback, ran>>

\* removeMigrationRecord: DELETE of the one row there may be.  An error does not
\* say whether it is gone.
RemoveRecord(c) ==
    /\ pc[c] = "remove" /\ ConnFree
    /\ \/ table' = RemoveFirst(table, Head(toRollback[c])) /\ Goto(c, "down")
       \/ /\ Flaky /\ Goto(c, "error")
          /\ table' \in {table, RemoveFirst(table, Head(toRollback[c]))}
    /\ toRollback' = [toRollback EXCEPT ![c] = Tail(@)]
    /\ UNCHANGED <<effect, call, pending, current, ran>>

-----------------------------------------------------------------------------
Runs(c) ==
    \/ QueryFails(c) \/ QueryApplied(c) \/ UpReturns(c) \/ RunUp(c) \/ Record(c)
    \/ QueryLast(c) \/ NothingToRollBack(c) \/ QueryToTarget(c)
    \/ TargetNotFound(c) \/ QueryAll(c)
    \/ RollbackReturns(c) \/ RollbackRefused(c) \/ RunDown(c) \/ RemoveRecord(c)

Next == \E c \in Calls : Start(c) \/ Crash(c) \/ Runs(c)

Spec == Init /\ [][Next]_vars
-----------------------------------------------------------------------------
\* The types of the variables; no ID is recorded twice.
TypeOK ==
    /\ table \in Seq(Ids) /\ Cardinality(Applied) = Len(table)
    /\ effect \in [Ids -> {"none", "part", "full"}]
    /\ mode \in Modes /\ op \in [Calls -> Ops] /\ target \in [Calls -> Ids]
    /\ pc \in [Calls -> {"idle", "query", "up", "record", "down", "remove"}
                        \union Over]
    /\ pending \in [Calls -> SUBSET Registered]
    /\ toRollback \in [Calls -> Seq(Ids)]
    /\ current \in [Calls -> SUBSET Ids]
    /\ ran \in [Calls -> SUBSET Registered]
    /\ rows \in SUBSET Calls

\* The record of a migration and what the schema has of it disagree.
OutOfStep == {id \in Ids : effect[id] # IF id \in Applied THEN "full" ELSE "none"}

\* Whatever fails or crashes in whatever order of calls, a migration whose
\* record disagrees with the schema is the one at which some call is, or at
\* which a call that did not succeed was stopped: never two for one call.
OutOfStepIsInHand ==
    \A id \in OutOfStep :
        \E c \in Calls : /\ current[c] = {id}
                         /\ pc[c] \in {"record", "remove", "error", "crashed"}

\* An Up that returns nil leaves every registered migration recorded, also
\* when it has not seen all the records or when others run with it.
UpAppliesAll ==
    [][\A c \in Calls :
          op[c] = "up" /\ pc[c] # "ok" /\ pc'[c] = "ok"
             => Registered \subseteq Applied']_vars

\* When several Ups that start together run the same migration, at most one of
\* them returns nil: the others learn that it was run twice.
NoSilentRerun ==
    mode = "replicas" =>
        \A c, d \in Calls :
            c # d /\ pc[c] = "ok" /\ pc[d] = "ok" => ran[c] \intersect ran[d] = {}

\* Calls made one at a time remove only the last record: what was applied last
\* is rolled back first, across failures and restarts.
RollsBackLast ==
    [][Len(table') < Len(table) => table' = Front(table)]_vars

\* A DownTo that returns nil leaves its target, as the last record.
DownToStopsAtTarget ==
    [][\A c \in Calls :
          op[c] = "downTo" /\ pc[c] # "ok" /\ pc'[c] = "ok"
             => table' # <<>> /\ Last(table') = target[c]]_vars

\* A nil result is the truth: Up has applied all, DownTo has stopped where told.
SuccessMeansDone == UpAppliesAll /\ DownToStopsAtTarget

-----------------------------------------------------------------------------
(***************************************************************************)
(* What the documentation says, and the code does not keep.                *)
(***************************************************************************)

\* README.md:470, "Use timestamp prefixes to ensure order": migrations are
\* applied in the order of their IDs.
AppliedInOrder ==
    \A i, j \in DOMAIN table :
        i < j /\ {table[i], table[j]} \subseteq Registered => table[i] < table[j]
=============================================================================
