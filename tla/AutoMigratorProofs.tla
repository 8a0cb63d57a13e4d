------------------------- MODULE AutoMigratorProofs -------------------------
(***************************************************************************)
(* Proofs about AutoMigrator, for any versions, structs, extra columns and *)
(* processes.  The invariant says what a process knows of the table at     *)
(* each place: rollbacks exclude other processes, so that a column which   *)
(* was read or added stays while a migration goes on; and what a process   *)
(* that met nobody and no fault has read is still so.                      *)
(***************************************************************************)
EXTENDS AutoMigrator, FiniteSetTheorems, TLAPS

NoDuplicates(s) == \A i, j \in DOMAIN s : s[i] = s[j] => i = j

Types ==
    /\ exists \in BOOLEAN /\ columns \in SUBSET Columns
    /\ records \in Seq(IDs) /\ NoDuplicates(records)
    /\ version \in [Procs -> Versions] /\ managed \in [Procs -> BOOLEAN]
    /\ id \in [Procs -> IDs \union {<<>>}]
    /\ pc \in [Procs -> {"idle", "status", "query", "create", "read", "alter",
                         "record", "ok", "error", "last", "drop", "remove",
                         "refused", "rolledBack"}]
    /\ missing \in [Procs -> SUBSET Columns]
    /\ faulted \in SUBSET Procs /\ overlapped \in SUBSET Procs
    /\ undercut \in SUBSET IDs

\* A process has registered the migration of its version.
Registered ==
    \A p \in Procs :
        pc[p] # "idle" => id[p] \in IDs /\ id[p][1] = Expected[version[p]]

\* Processes at work at the same time know it, and none of them rolls back.
Turns ==
    \A p, q \in Active :
        p # q => p \in overlapped /\ p \notin RollingBack

\* What a process has still to do to the columns.
Bases ==
    /\ ~exists => columns = {}
    /\ \A p \in Procs :
          /\ pc[p] \in {"read", "alter", "record"} => exists
          /\ pc[p] = "alter" => Expected[version[p]] \subseteq columns \union missing[p]
          /\ pc[p] = "record" => Expected[version[p]] \subseteq columns

\* A rollback is one of the last migration, and it undercuts all of them.
Rollbacks ==
    \A p \in Procs :
        /\ pc[p] \in {"drop", "remove"} => records # <<>> /\ Last(records) = id[p]
        /\ pc[p] = "remove" => Applied \subseteq undercut

\* What a process read is still so, if it met nobody and no fault.
Undisturbed ==
    \A p \in Procs \ (faulted \union overlapped) :
        /\ pc[p] \in {"create", "read", "alter", "record"} => id[p] \notin Applied
        /\ pc[p] = "alter" => missing[p] \intersect columns = {}

IInv ==
    /\ Types /\ Registered /\ Turns /\ Bases /\ Rollbacks /\ Undisturbed
    /\ RecordedColumnsExist /\ FailsOnlyInARace
-----------------------------------------------------------------------------
\* The columns of a version are columns, and the migrations that are registered
\* for it are of it.
LEMMA VersionColumns ==
    ASSUME NEW v \in Versions
    PROVE  Created[v] \subseteq Columns /\ Expected[v] \subseteq Columns
  BY DEF Columns

LEMMA VersionID ==
    ASSUME NEW v \in Versions, NEW order \in SetToSeqs(ExtraCols)
    PROVE  ID(v, order) \in IDs /\ ID(v, order)[1] = Expected[v]
<1>. USE DEF ID
<1>1. ID(v, order) \in IDs
  BY DEF IDs
<1>. QED
  BY <1>1

\* A query returns rows that are there.
LEMMA RowsAreThere ==
    ASSUME NEW S, NEW seen \in Rows(S)
    PROVE  seen \subseteq S
  BY DEF Rows

\* Records that are added and removed at the end.
LEMMA AppendRecord ==
    ASSUME NEW s \in Seq(IDs), NoDuplicates(s), NEW m \in IDs \ ToSet(s)
    PROVE  /\ Append(s, m) \in Seq(IDs) /\ NoDuplicates(Append(s, m))
           /\ ToSet(Append(s, m)) = ToSet(s) \union {m}
<1>1. /\ Append(s, m) \in Seq(IDs) /\ DOMAIN Append(s, m) = 1..(Len(s) + 1)
      /\ Append(s, m)[Len(s) + 1] = m
      /\ \A i \in 1..Len(s) : Append(s, m)[i] = s[i] /\ s[i] # m
  BY DEF ToSet
<1>2. NoDuplicates(Append(s, m))
  <2>. SUFFICES ASSUME NEW i \in 1..(Len(s) + 1), NEW j \in 1..(Len(s) + 1),
                       Append(s, m)[i] = Append(s, m)[j]
                PROVE  i = j
    BY <1>1 DEF NoDuplicates
  <2>. QED
    BY <1>1 DEF NoDuplicates
<1>3. ToSet(Append(s, m)) = ToSet(s) \union {m}
  <2>. DEFINE t == Append(s, m)
  <2>1. \A i \in 1..Len(s) : i \in DOMAIN t /\ i \in DOMAIN s
    BY <1>1
  <2>2. Len(s) + 1 \in DOMAIN t
    BY <1>1
  <2>3. \A i \in DOMAIN t : i \in 1..Len(s) \/ i = Len(s) + 1
    BY <1>1
  <2>4. DOMAIN s = 1..Len(s)
    OBVIOUS
  <2>. QED
    BY <1>1, <2>1, <2>2, <2>3, <2>4 DEF ToSet
<1>. QED
  BY <1>1, <1>2, <1>3

LEMMA RemoveLastRecord ==
    ASSUME NEW s \in Seq(IDs), NoDuplicates(s), s # <<>>
    PROVE  /\ Front(s) \in Seq(IDs) /\ NoDuplicates(Front(s))
           /\ ToSet(Front(s)) = ToSet(s) \ {Last(s)}
<1>0. Len(s) \in Nat /\ Len(s) > 0
  OBVIOUS
<1>1. /\ Front(s) \in Seq(IDs) /\ Len(Front(s)) = Len(s) - 1
      /\ \A i \in 1..(Len(s) - 1) : Front(s)[i] = s[i]
  <2>1. Front(s) = [i \in 1..(Len(s) - 1) |-> s[i]]
    BY <1>0 DEF Front
  <2>2. \A i \in 1..(Len(s) - 1) : s[i] \in IDs
    BY <1>0
  <2>. QED
    BY <1>0, <2>1, <2>2
<1>2. NoDuplicates(Front(s))
  BY <1>1 DEF NoDuplicates
<1>3. \A i \in 1..Len(s) : s[i] # Last(s) <=> i \in 1..(Len(s) - 1)
  BY <1>0 DEF Last, NoDuplicates
<1>4. DOMAIN Front(s) = 1..(Len(s) - 1) /\ DOMAIN s = 1..Len(s)
  BY <1>1
<1>5. 1..(Len(s) - 1) \subseteq 1..Len(s)
  OBVIOUS
<1>. QED
  BY <1>1, <1>2, <1>3, <1>4, <1>5, Zenon DEF ToSet

\* A sequence with no duplicates is as long as the set of its elements.
LEMMA LengthIsCardinality ==
    ASSUME NEW s \in Seq(IDs), NoDuplicates(s)
    PROVE  Cardinality(ToSet(s)) = Len(s)
<1>1. s \in Bijection(1..Len(s), ToSet(s))
  BY DEF NoDuplicates, ToSet, Bijection, Injection, Surjection, IsInjective
<1>2. ExistsBijection(1..Len(s), ToSet(s))
  BY <1>1 DEF ExistsBijection
<1>. QED
  BY <1>2, FS_CountingElements
-----------------------------------------------------------------------------
\* What a process does to the records when it records its migration.
LEMMA RecordAppends ==
    ASSUME Types, Registered, NEW p \in Procs, Record(p)
    PROVE  /\ records' \in Seq(IDs) /\ NoDuplicates(records')
           /\ Applied \subseteq Applied' /\ Applied' \subseteq Applied \union {id[p]}
           /\ id[p] \in IDs /\ id[p][1] = Expected[version[p]]
<1>1. id[p] \in IDs /\ id[p][1] = Expected[version[p]]
  BY DEF Record, Registered
<1>2. records \in Seq(IDs) /\ NoDuplicates(records)
  BY DEF Types
<1>3. CASE id[p] \notin Applied /\ records' = Append(records, id[p])
  BY <1>1, <1>2, <1>3, AppendRecord DEF Applied
<1>4. CASE records' = records
  BY <1>1, <1>2, <1>4 DEF Applied
<1>. QED
  BY <1>3, <1>4 DEF Record

\* Each part of the invariant is kept by every step.
LEMMA NextTypes ==
    Types /\ Registered /\ Rollbacks /\ [Next]_vars => Types'
<1>. SUFFICES ASSUME Types, Registered, Rollbacks, [Next]_vars PROVE Types'
  OBVIOUS
<1>. USE DEF Types, Registered, Rollbacks, Active, RollingBack, Proceed, database,
    process, history
<1>1. ASSUME NEW p \in Procs, Register(p) PROVE Types'
  BY <1>1, VersionID DEF Register
<1>2. ASSUME NEW p \in Procs, Fails(p) PROVE Types'
  BY <1>2 DEF Fails
<1>3. ASSUME NEW p \in Procs, Status(p) PROVE Types'
  BY <1>3 DEF Status
<1>4. ASSUME NEW p \in Procs, QueryApplied(p) PROVE Types'
  BY <1>4 DEF QueryApplied
<1>5. ASSUME NEW p \in Procs, CreateTable(p) PROVE Types'
  BY <1>5, VersionColumns DEF CreateTable
<1>6. ASSUME NEW p \in Procs, ReadColumns(p) PROVE Types'
  BY <1>6, VersionColumns DEF ReadColumns
<1>7. ASSUME NEW p \in Procs, AddColumn(p) PROVE Types'
  BY <1>7 DEF AddColumn
<1>8. ASSUME NEW p \in Procs, ColumnsAdded(p) PROVE Types'
  BY <1>8 DEF ColumnsAdded
<1>9. ASSUME NEW p \in Procs, Record(p) PROVE Types'
  <2>1. records' \in Seq(IDs) /\ NoDuplicates(records')
    BY <1>9, RecordAppends
  <2>. QED
    BY <1>9, <2>1 DEF Record
<1>10. ASSUME NEW p \in Procs, CallDown(p) PROVE Types'
  BY <1>10 DEF CallDown
<1>11. ASSUME NEW p \in Procs, QueryLast(p) PROVE Types'
  BY <1>11 DEF QueryLast
<1>12. ASSUME NEW p \in Procs, DropTable(p) PROVE Types'
  <2>1. Applied \subseteq IDs
    BY DEF Applied, ToSet
  <2>. QED
    BY <1>12, <2>1 DEF DropTable
<1>13. ASSUME NEW p \in Procs, RemoveRecord(p) PROVE Types'
  BY <1>13, RemoveLastRecord DEF RemoveRecord
<1>14. CASE UNCHANGED vars
  BY <1>14 DEF vars
<1>. QED
  BY <1>1, <1>2, <1>3, <1>4, <1>5, <1>6, <1>7, <1>8, <1>9, <1>10, <1>11, <1>12, <1>13,
     <1>14 DEF Next

\* A migration is registered once, for the version of the process.
LEMMA NextRegistered ==
    Types /\ Registered /\ [Next]_vars => Registered'
<1>. SUFFICES ASSUME Types, Registered, [Next]_vars PROVE Registered'
  OBVIOUS
<1>. USE DEF Types, Registered, Active, RollingBack, Proceed, database, process, history
<1>1. ASSUME NEW p \in Procs, Register(p) PROVE Registered'
  BY <1>1, VersionID DEF Register
<1>2. ASSUME NEW p \in Procs, Fails(p) PROVE Registered'
  BY <1>2 DEF Fails
<1>3. ASSUME NEW p \in Procs, Status(p) PROVE Registered'
  BY <1>3 DEF Status
<1>4. ASSUME NEW p \in Procs, QueryApplied(p) PROVE Registered'
  BY <1>4 DEF QueryApplied
<1>5. ASSUME NEW p \in Procs, CreateTable(p) PROVE Registered'
  BY <1>5 DEF CreateTable
<1>6. ASSUME NEW p \in Procs, ReadColumns(p) PROVE Registered'
  BY <1>6 DEF ReadColumns
<1>7. ASSUME NEW p \in Procs, AddColumn(p) PROVE Registered'
  BY <1>7 DEF AddColumn
<1>8. ASSUME NEW p \in Procs, ColumnsAdded(p) PROVE Registered'
  BY <1>8 DEF ColumnsAdded
<1>9. ASSUME NEW p \in Procs, Record(p) PROVE Registered'
  BY <1>9 DEF Record
<1>10. ASSUME NEW p \in Procs, CallDown(p) PROVE Registered'
  BY <1>10 DEF CallDown
<1>11. ASSUME NEW p \in Procs, QueryLast(p) PROVE Registered'
  BY <1>11 DEF QueryLast
<1>12. ASSUME NEW p \in Procs, DropTable(p) PROVE Registered'
  BY <1>12 DEF DropTable
<1>13. ASSUME NEW p \in Procs, RemoveRecord(p) PROVE Registered'
  BY <1>13 DEF RemoveRecord
<1>14. CASE UNCHANGED vars
  BY <1>14 DEF vars
<1>. QED
  BY <1>1, <1>2, <1>3, <1>4, <1>5, <1>6, <1>7, <1>8, <1>9, <1>10, <1>11, <1>12, <1>13,
     <1>14 DEF Next

\* Whoever registers while others are at work notes it; nobody does in a rollback.
LEMMA NextTurns ==
    Types /\ Turns /\ [Next]_vars => Turns'
<1>. SUFFICES ASSUME Types, Turns, [Next]_vars PROVE Turns'
  OBVIOUS
<1>. USE DEF Types, Turns, Active, RollingBack, Proceed, database, process, history
<1>1. ASSUME NEW p \in Procs, Register(p) PROVE Turns'
  BY <1>1 DEF Register
<1>2. ASSUME NEW p \in Procs, Fails(p) PROVE Turns'
  BY <1>2 DEF Fails
<1>3. ASSUME NEW p \in Procs, Status(p) PROVE Turns'
  BY <1>3 DEF Status
<1>4. ASSUME NEW p \in Procs, QueryApplied(p) PROVE Turns'
  BY <1>4 DEF QueryApplied
<1>5. ASSUME NEW p \in Procs, CreateTable(p) PROVE Turns'
  BY <1>5 DEF CreateTable
<1>6. ASSUME NEW p \in Procs, ReadColumns(p) PROVE Turns'
  BY <1>6 DEF ReadColumns
<1>7. ASSUME NEW p \in Procs, AddColumn(p) PROVE Turns'
  BY <1>7 DEF AddColumn
<1>8. ASSUME NEW p \in Procs, ColumnsAdded(p) PROVE Turns'
  BY <1>8 DEF ColumnsAdded
<1>9. ASSUME NEW p \in Procs, Record(p) PROVE Turns'
  BY <1>9 DEF Record
<1>10. ASSUME NEW p \in Procs, CallDown(p) PROVE Turns'
  BY <1>10 DEF CallDown
<1>11. ASSUME NEW p \in Procs, QueryLast(p) PROVE Turns'
  BY <1>11 DEF QueryLast
<1>12. ASSUME NEW p \in Procs, DropTable(p) PROVE Turns'
  BY <1>12 DEF DropTable
<1>13. ASSUME NEW p \in Procs, RemoveRecord(p) PROVE Turns'
  BY <1>13 DEF RemoveRecord
<1>14. CASE UNCHANGED vars
  BY <1>14 DEF vars
<1>. QED
  BY <1>1, <1>2, <1>3, <1>4, <1>5, <1>6, <1>7, <1>8, <1>9, <1>10, <1>11, <1>12, <1>13,
     <1>14 DEF Next

\* Nobody drops a column that another one has read or added.
LEMMA NextBases ==
    Types /\ Registered /\ Turns /\ Bases /\ [Next]_vars => Bases'
<1>. SUFFICES ASSUME Types, Registered, Turns, Bases, [Next]_vars PROVE Bases'
  OBVIOUS
<1>. USE DEF Types, Registered, Turns, Bases, Active, RollingBack, Proceed, database,
    process, history
<1>1. ASSUME NEW p \in Procs, Register(p) PROVE Bases'
  BY <1>1 DEF Register
<1>2. ASSUME NEW p \in Procs, Fails(p) PROVE Bases'
  BY <1>2 DEF Fails
<1>3. ASSUME NEW p \in Procs, Status(p) PROVE Bases'
  BY <1>3 DEF Status
<1>4. ASSUME NEW p \in Procs, QueryApplied(p) PROVE Bases'
  BY <1>4 DEF QueryApplied
<1>5. ASSUME NEW p \in Procs, CreateTable(p) PROVE Bases'
  BY <1>5 DEF CreateTable
<1>6. ASSUME NEW p \in Procs, ReadColumns(p) PROVE Bases'
  BY <1>6, RowsAreThere, VersionColumns DEF ReadColumns
<1>7. ASSUME NEW p \in Procs, AddColumn(p) PROVE Bases'
  <2>1. /\ columns \subseteq columns' /\ exists' = exists /\ version' = version
        /\ \A q \in Procs \ {p} : pc'[q] = pc[q] /\ missing'[q] = missing[q]
    BY <1>7 DEF AddColumn
  <2>2. /\ pc[p] = "alter" /\ pc'[p] \in {"alter", "error"}
        /\ pc'[p] = "alter" => missing[p] \subseteq columns' \union missing'[p]
    BY <1>7 DEF AddColumn
  <2>3. exists
    BY <2>2
  <2>. QED
    BY <2>1, <2>2, <2>3
<1>8. ASSUME NEW p \in Procs, ColumnsAdded(p) PROVE Bases'
  BY <1>8 DEF ColumnsAdded
<1>9. ASSUME NEW p \in Procs, Record(p) PROVE Bases'
  BY <1>9 DEF Record
<1>10. ASSUME NEW p \in Procs, CallDown(p) PROVE Bases'
  BY <1>10 DEF CallDown
<1>11. ASSUME NEW p \in Procs, QueryLast(p) PROVE Bases'
  BY <1>11 DEF QueryLast
<1>12. ASSUME NEW p \in Procs, DropTable(p) PROVE Bases'
  BY <1>12 DEF DropTable
<1>13. ASSUME NEW p \in Procs, RemoveRecord(p) PROVE Bases'
  BY <1>13 DEF RemoveRecord
<1>14. CASE UNCHANGED vars
  BY <1>14 DEF vars
<1>. QED
  BY <1>1, <1>2, <1>3, <1>4, <1>5, <1>6, <1>7, <1>8, <1>9, <1>10, <1>11, <1>12, <1>13,
     <1>14 DEF Next

\* Nobody records a migration while another one rolls back.
LEMMA NextRollbacks ==
    Types /\ Registered /\ Turns /\ Rollbacks /\ [Next]_vars => Rollbacks'
<1>. SUFFICES ASSUME Types, Registered, Turns, Rollbacks, [Next]_vars PROVE Rollbacks'
  OBVIOUS
<1>. USE DEF Types, Registered, Turns, Rollbacks, Active, RollingBack, Proceed,
    Applied, database, process, history
<1>1. ASSUME NEW p \in Procs, Register(p) PROVE Rollbacks'
  BY <1>1 DEF Register
<1>2. ASSUME NEW p \in Procs, Fails(p) PROVE Rollbacks'
  BY <1>2 DEF Fails
<1>3. ASSUME NEW p \in Procs, Status(p) PROVE Rollbacks'
  BY <1>3 DEF Status
<1>4. ASSUME NEW p \in Procs, QueryApplied(p) PROVE Rollbacks'
  BY <1>4 DEF QueryApplied
<1>5. ASSUME NEW p \in Procs, CreateTable(p) PROVE Rollbacks'
  BY <1>5 DEF CreateTable
<1>6. ASSUME NEW p \in Procs, ReadColumns(p) PROVE Rollbacks'
  BY <1>6 DEF ReadColumns
<1>7. ASSUME NEW p \in Procs, AddColumn(p) PROVE Rollbacks'
  BY <1>7 DEF AddColumn
<1>8. ASSUME NEW p \in Procs, ColumnsAdded(p) PROVE Rollbacks'
  BY <1>8 DEF ColumnsAdded
<1>9. ASSUME NEW p \in Procs, Record(p) PROVE Rollbacks'
  BY <1>9 DEF Record
<1>10. ASSUME NEW p \in Procs, CallDown(p) PROVE Rollbacks'
  BY <1>10 DEF CallDown
<1>11. ASSUME NEW p \in Procs, QueryLast(p) PROVE Rollbacks'
  BY <1>11 DEF QueryLast
<1>12. ASSUME NEW p \in Procs, DropTable(p) PROVE Rollbacks'
  BY <1>12 DEF DropTable
<1>13. ASSUME NEW p \in Procs, RemoveRecord(p) PROVE Rollbacks'
  BY <1>13 DEF RemoveRecord
<1>14. CASE UNCHANGED vars
  BY <1>14 DEF vars
<1>. QED
  BY <1>1, <1>2, <1>3, <1>4, <1>5, <1>6, <1>7, <1>8, <1>9, <1>10, <1>11, <1>12, <1>13,
     <1>14 DEF Next

\* Whatever changes a column or a record is another process at work.
LEMMA NextUndisturbed ==
    Types /\ Turns /\ Bases /\ Undisturbed /\ [Next]_vars => Undisturbed'
<1>. SUFFICES ASSUME Types, Turns, Bases, Undisturbed, [Next]_vars PROVE Undisturbed'
  OBVIOUS
<1>. USE DEF Types, Turns, Bases, Undisturbed, Active, RollingBack, Proceed, Applied,
    database, process, history
<1>1. ASSUME NEW p \in Procs, Register(p) PROVE Undisturbed'
  BY <1>1 DEF Register
<1>2. ASSUME NEW p \in Procs, Fails(p) PROVE Undisturbed'
  BY <1>2 DEF Fails
<1>3. ASSUME NEW p \in Procs, Status(p) PROVE Undisturbed'
  BY <1>3 DEF Status
<1>4. ASSUME NEW p \in Procs, QueryApplied(p) PROVE Undisturbed'
  BY <1>4, RowsAreThere DEF QueryApplied
<1>5. ASSUME NEW p \in Procs, CreateTable(p) PROVE Undisturbed'
  BY <1>5 DEF CreateTable
<1>6. ASSUME NEW p \in Procs, ReadColumns(p) PROVE Undisturbed'
  BY <1>6, RowsAreThere DEF ReadColumns
<1>7. ASSUME NEW p \in Procs, AddColumn(p) PROVE Undisturbed'
  BY <1>7 DEF AddColumn
<1>8. ASSUME NEW p \in Procs, ColumnsAdded(p) PROVE Undisturbed'
  BY <1>8 DEF ColumnsAdded
<1>9. ASSUME NEW p \in Procs, Record(p) PROVE Undisturbed'
  BY <1>9, AppendRecord DEF Record
<1>10. ASSUME NEW p \in Procs, CallDown(p) PROVE Undisturbed'
  BY <1>10 DEF CallDown
<1>11. ASSUME NEW p \in Procs, QueryLast(p) PROVE Undisturbed'
  BY <1>11 DEF QueryLast
<1>12. ASSUME NEW p \in Procs, DropTable(p) PROVE Undisturbed'
  BY <1>12 DEF DropTable
<1>13. ASSUME NEW p \in Procs, RemoveRecord(p) PROVE Undisturbed'
  BY <1>13 DEF RemoveRecord
<1>14. CASE UNCHANGED vars
  BY <1>14 DEF vars
<1>. QED
  BY <1>1, <1>2, <1>3, <1>4, <1>5, <1>6, <1>7, <1>8, <1>9, <1>10, <1>11, <1>12, <1>13,
     <1>14 DEF Next

\* A migration is recorded when its columns are there, and goes before they can
\* come back incomplete.
LEMMA NextRecordedColumnsExist ==
    Types /\ Registered /\ Bases /\ Rollbacks /\ RecordedColumnsExist /\ [Next]_vars
        => RecordedColumnsExist'
<1>. SUFFICES ASSUME Types, Registered, Bases, Rollbacks, RecordedColumnsExist,
                    [Next]_vars
              PROVE RecordedColumnsExist'
  OBVIOUS
<1>. USE DEF Types, Registered, Bases, Rollbacks, RecordedColumnsExist, Active,
    RollingBack, Proceed, Applied, database, process, history
<1>1. ASSUME NEW p \in Procs, Register(p) PROVE RecordedColumnsExist'
  BY <1>1 DEF Register
<1>2. ASSUME NEW p \in Procs, Fails(p) PROVE RecordedColumnsExist'
  BY <1>2 DEF Fails
<1>3. ASSUME NEW p \in Procs, Status(p) PROVE RecordedColumnsExist'
  BY <1>3 DEF Status
<1>4. ASSUME NEW p \in Procs, QueryApplied(p) PROVE RecordedColumnsExist'
  BY <1>4 DEF QueryApplied
<1>5. ASSUME NEW p \in Procs, CreateTable(p) PROVE RecordedColumnsExist'
  BY <1>5 DEF CreateTable
<1>6. ASSUME NEW p \in Procs, ReadColumns(p) PROVE RecordedColumnsExist'
  BY <1>6 DEF ReadColumns
<1>7. ASSUME NEW p \in Procs, AddColumn(p) PROVE RecordedColumnsExist'
  BY <1>7 DEF AddColumn
<1>8. ASSUME NEW p \in Procs, ColumnsAdded(p) PROVE RecordedColumnsExist'
  BY <1>8 DEF ColumnsAdded
<1>9. ASSUME NEW p \in Procs, Record(p) PROVE RecordedColumnsExist'
  <2>1. Applied' \subseteq Applied \union {id[p]} /\ id[p][1] = Expected[version[p]]
    BY <1>9, RecordAppends
  <2>2. columns' = columns /\ undercut' = undercut /\ id[p][1] \subseteq columns
    BY <1>9, <2>1 DEF Record
  <2>. QED
    BY <2>1, <2>2
<1>10. ASSUME NEW p \in Procs, CallDown(p) PROVE RecordedColumnsExist'
  BY <1>10 DEF CallDown
<1>11. ASSUME NEW p \in Procs, QueryLast(p) PROVE RecordedColumnsExist'
  BY <1>11 DEF QueryLast
<1>12. ASSUME NEW p \in Procs, DropTable(p) PROVE RecordedColumnsExist'
  BY <1>12 DEF DropTable
<1>13. ASSUME NEW p \in Procs, RemoveRecord(p) PROVE RecordedColumnsExist'
  BY <1>13, RemoveLastRecord DEF RemoveRecord
<1>14. CASE UNCHANGED vars
  BY <1>14 DEF vars
<1>. QED
  BY <1>1, <1>2, <1>3, <1>4, <1>5, <1>6, <1>7, <1>8, <1>9, <1>10, <1>11, <1>12, <1>13,
     <1>14 DEF Next

\* An error is a fault, or a column or record of another process at work.
LEMMA NextFailsOnlyInARace ==
    Types /\ Undisturbed /\ FailsOnlyInARace /\ [Next]_vars => FailsOnlyInARace'
<1>. SUFFICES ASSUME Types, Undisturbed, FailsOnlyInARace, [Next]_vars
              PROVE FailsOnlyInARace'
  OBVIOUS
<1>. USE DEF Types, Undisturbed, FailsOnlyInARace, Active, RollingBack, Proceed,
    Applied, database, process, history
<1>1. ASSUME NEW p \in Procs, Register(p) PROVE FailsOnlyInARace'
  BY <1>1 DEF Register
<1>2. ASSUME NEW p \in Procs, Fails(p) PROVE FailsOnlyInARace'
  BY <1>2 DEF Fails
<1>3. ASSUME NEW p \in Procs, Status(p) PROVE FailsOnlyInARace'
  BY <1>3 DEF Status
<1>4. ASSUME NEW p \in Procs, QueryApplied(p) PROVE FailsOnlyInARace'
  BY <1>4 DEF QueryApplied
<1>5. ASSUME NEW p \in Procs, CreateTable(p) PROVE FailsOnlyInARace'
  BY <1>5 DEF CreateTable
<1>6. ASSUME NEW p \in Procs, ReadColumns(p) PROVE FailsOnlyInARace'
  BY <1>6 DEF ReadColumns
<1>7. ASSUME NEW p \in Procs, AddColumn(p) PROVE FailsOnlyInARace'
  BY <1>7 DEF AddColumn
<1>8. ASSUME NEW p \in Procs, ColumnsAdded(p) PROVE FailsOnlyInARace'
  BY <1>8 DEF ColumnsAdded
<1>9. ASSUME NEW p \in Procs, Record(p) PROVE FailsOnlyInARace'
  BY <1>9 DEF Record
<1>10. ASSUME NEW p \in Procs, CallDown(p) PROVE FailsOnlyInARace'
  BY <1>10 DEF CallDown
<1>11. ASSUME NEW p \in Procs, QueryLast(p) PROVE FailsOnlyInARace'
  BY <1>11 DEF QueryLast
<1>12. ASSUME NEW p \in Procs, DropTable(p) PROVE FailsOnlyInARace'
  BY <1>12 DEF DropTable
<1>13. ASSUME NEW p \in Procs, RemoveRecord(p) PROVE FailsOnlyInARace'
  BY <1>13 DEF RemoveRecord
<1>14. CASE UNCHANGED vars
  BY <1>14 DEF vars
<1>. QED
  BY <1>1, <1>2, <1>3, <1>4, <1>5, <1>6, <1>7, <1>8, <1>9, <1>10, <1>11, <1>12, <1>13,
     <1>14 DEF Next

-----------------------------------------------------------------------------
\* The invariant holds initially, and every step keeps it.
LEMMA InitIInv == Init => IInv
<1>. SUFFICES ASSUME Init PROVE IInv
  OBVIOUS
<1>. USE DEF Init
<1>1. Applied = {} /\ Active = {} /\ NoDuplicates(records)
  BY DEF Applied, ToSet, Active, RollingBack, NoDuplicates
<1>2. Types
  <2>1. records \in Seq(IDs) /\ columns \in SUBSET Columns
    OBVIOUS
  <2>2. id \in [Procs -> IDs \union {<<>>}] /\ missing \in [Procs -> SUBSET Columns]
    OBVIOUS
  <2>. QED
    BY <1>1, <2>1, <2>2 DEF Types
<1>3. Registered /\ Turns /\ Bases /\ Rollbacks /\ Undisturbed
  BY <1>1 DEF Registered, Turns, Bases, Rollbacks, Undisturbed
<1>4. RecordedColumnsExist /\ FailsOnlyInARace
  BY <1>1 DEF RecordedColumnsExist, FailsOnlyInARace
<1>. QED
  BY <1>2, <1>3, <1>4 DEF IInv

LEMMA NextIInv == IInv /\ [Next]_vars => IInv'
  BY NextTypes, NextRegistered, NextTurns, NextBases, NextRollbacks, NextUndisturbed,
     NextRecordedColumnsExist, NextFailsOnlyInARace DEF IInv
-----------------------------------------------------------------------------
\* The parts hold in every reachable state.
THEOREM Invariance == Spec => []IInv
  BY InitIInv, NextIInv, PTL DEF Spec

\* The variables keep their types and no migration is recorded twice, whoever
\* runs at once.
THEOREM TypeCorrect == Spec => []TypeOK
<1>1. IInv => TypeOK
  BY LengthIsCardinality DEF IInv, Types, TypeOK, Applied
<1>. QED
  BY <1>1, Invariance, PTL

\* A recorded migration has all its columns, whoever runs at once, fails or
\* crashes, unless a rollback dropped the table while it was recorded.
THEOREM RecordsAreTrue == Spec => []RecordedColumnsExist
<1>1. IInv => RecordedColumnsExist
  BY DEF IInv
<1>. QED
  BY <1>1, Invariance, PTL

\* A process that ran alone and met no fault does not fail.
THEOREM AloneSucceeds == Spec => []FailsOnlyInARace
<1>1. IInv => FailsOnlyInARace
  BY DEF IInv
<1>. QED
  BY <1>1, Invariance, PTL
=============================================================================
