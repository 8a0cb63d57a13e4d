---------------------------- MODULE AutoMigrator ----------------------------
(***************************************************************************)
(* migrate.MigrateWithVersionControl and migrate.AutoMigrator: processes   *)
(* of successive versions of a service bring one table in line with the    *)
(* struct of their version.  The columns are read, then added one at a     *)
(* time with no transaction, by any number of processes at once, each of   *)
(* which may fail or crash anywhere; the rollback of any version is        *)
(* dropTable.                                                              *)
(*                                                                         *)
(* MigrateWithVersionControl asks Status whether the migration is applied, *)
(* but Status reports on the migrations of the Migrator it is called on,   *)
(* which was made a moment before and has none: the branch that looks for  *)
(* missing columns is never taken, and is not an action here.              *)
(***************************************************************************)
EXTENDS Naturals, FiniteSets, SequencesExt

CONSTANTS
    Versions,   \* of the service
    Fields,     \* the fields of the struct in each version
    ExtraCols,  \* the extra columns, the same in every version
    Procs,      \* processes; a restarted one is another one
    Flaky       \* statements may fail, processes may crash

\* name: the name a column gets but for pgname; kind: "basic" includes pointers
\* to basic types and to time.Time; legacy: one of the tags pgname, pgtype and
\* primarykey is there, pgname "" where it is not that one.
Field == [name : STRING, exported : BOOLEAN,
          kind : {"basic", "time", "struct", "other"},
          orm : {"none", "valid", "invalid"}, legacy : BOOLEAN, pgname : STRING]

ASSUME FieldsAssumption ==
    \A v \in Versions : \A f \in Fields[v] : f \in Field
ASSUME FlakyAssumption == Flaky \in BOOLEAN

-----------------------------------------------------------------------------
(***************************************************************************)
(* The columns of a struct.  An operator gives a set with the column of a  *)
(* field, or none.                                                         *)
(***************************************************************************)
\* ParseTag: nil for a field that is not exported, an error for a tag that
\* does not parse or validate, a column by default for a basic type.
ParseTag(f) ==
    IF f.exported /\ (f.orm = "valid" \/ (f.orm = "none" /\ f.kind \in {"basic", "time"}))
    THEN {f.name} ELSE {}

\* getLegacyColumnInfo: without the legacy tags only a struct makes a column.
LegacyColumn(f) ==
    IF f.legacy \/ f.kind \in {"time", "struct"}
    THEN {IF f.pgname # "" THEN f.pgname ELSE f.name} ELSE {}

\* createTableIfNotExists does not ask whether the field is exported, when it
\* falls back on the legacy tags; getColumnInfo does.
ColumnCreated(f) == IF ParseTag(f) # {} THEN ParseTag(f) ELSE LegacyColumn(f)
ColumnInfo(f) == IF f.exported THEN ColumnCreated(f) ELSE {}

Created == [v \in Versions |-> UNION {ColumnCreated(f) : f \in Fields[v]}]
Expected == [v \in Versions |->
                ExtraCols \union UNION {ColumnInfo(f) : f \in Fields[v]}]

\* A struct of the service has a field that makes a column.
ASSUME StructsAssumption == \A v \in Versions : Created[v] # {}

Columns == UNION {Created[v] \union Expected[v] : v \in Versions}

\* The hash of a migration ID takes the columns of the struct, and the extra
\* columns in the order of a map.
ID(v, order) == <<Expected[v], order>>
IDs == {ID(v, order) : v \in Versions, order \in SetToSeqs(ExtraCols)}

-----------------------------------------------------------------------------
VARIABLES
    exists,     \* whether the table is there
    columns,    \* its columns
    records,    \* the applied migrations in the order of applied_at
    version,    \* of each process
    managed,    \* it uses an AutoMigrator, which can also roll back
    id,         \* the migration it has registered
    pc,         \* where each process is
    missing,    \* the columns it has still to add
    faulted,    \* history: the processes a fault has hit
    overlapped, \* history: the ones that ran while another one did
    undercut    \* history: the migrations recorded when the table was dropped

database == <<exists, columns, records>>
process == <<version, managed, id>>
history == <<overlapped, undercut>>
vars == <<database, process, pc, missing, faulted, history>>

Init ==
    /\ exists = FALSE /\ columns = {} /\ records = <<>>
    /\ version \in [Procs -> Versions]
    /\ managed \in [Procs -> BOOLEAN]
    /\ id = [p \in Procs |-> <<>>]
    /\ pc = [p \in Procs |-> "idle"]
    /\ missing = [p \in Procs |-> {}]
    /\ faulted = {} /\ overlapped = {} /\ undercut = {}

Applied == ToSet(records)
RollingBack == {p \in Procs : pc[p] \in {"last", "drop", "remove"}}
Active == RollingBack
    \union {p \in Procs : pc[p] \in {"status", "query", "create", "read",
                                     "alter", "record"}}

\* Rows may break off unnoticed.
Rows(S) == IF Flaky THEN SUBSET S ELSE {S}

\* The process goes on; or its statement was executed, but it crashes or the
\* connection breaks before it hears of it.
Proceed(p, to) ==
    \/ pc' = [pc EXCEPT ![p] = to] /\ UNCHANGED faulted
    \/ Flaky /\ pc' = [pc EXCEPT ![p] = "error"] /\ faulted' = faulted \union {p}

-----------------------------------------------------------------------------
(***************************************************************************)
(* Faults.  Each is an action the way a plausible bug would make it, and   *)
(* takes no part in Spec: put in the place of the action it is named after *)
(* it breaks the properties its comment names.                             *)
(***************************************************************************)
\* The record is inserted again and again: TypeOK.
RecordUnkeyed(p) ==
    /\ pc[p] = "record"
    /\ records' = Append(records, id[p])
    /\ Proceed(p, "ok")
    /\ UNCHANGED <<exists, columns, process, missing, history>>

\* A column that cannot be added is skipped with the ones after it:
\* RecordedColumnsExist.
AddColumnGivesUp(p) ==
    /\ pc[p] = "alter"
    /\ \E col \in missing[p] :
          \/ /\ col \notin columns
             /\ columns' = columns \union {col}
             /\ missing' = [missing EXCEPT ![p] = @ \ {col}]
             /\ Proceed(p, "alter")
          \/ /\ col \in columns
             /\ missing' = [missing EXCEPT ![p] = {}]
             /\ UNCHANGED <<columns, pc, faulted>>
    /\ UNCHANGED <<exists, records, process, history>>

\* Every expected column counts as missing: FailsOnlyInARace.
ReadColumnsIgnored(p) ==
    /\ pc[p] = "read"
    /\ missing' = [missing EXCEPT ![p] = Expected[version[p]]]
    /\ pc' = [pc EXCEPT ![p] = "alter"]
    /\ UNCHANGED <<database, process, faulted, history>>
-----------------------------------------------------------------------------
\* generateMigrationID, in MigrateWithVersionControl or in migrateModel of
\* MigrateAll.
Register(p) ==
    /\ pc[p] = "idle" /\ RollingBack = {}
    /\ \E order \in SetToSeqs(ExtraCols) :
          id' = [id EXCEPT ![p] = ID(version[p], order)]
    /\ pc' = [pc EXCEPT ![p] = IF managed[p] THEN "query" ELSE "status"]
    /\ overlapped' = IF Active = {} THEN overlapped
                     ELSE overlapped \union Active \union {p}
    /\ UNCHANGED <<database, version, managed, missing, faulted, undercut>>

\* A statement fails, or the process crashes, with nothing executed.
Fails(p) ==
    /\ Flaky /\ p \in Active
    /\ pc' = [pc EXCEPT ![p] = "error"]
    /\ faulted' = faulted \union {p}
    /\ UNCHANGED <<database, process, missing, history>>

\* Status of a Migrator that has no migrations: nothing is applied.
Status(p) ==
    /\ pc[p] = "status"
    /\ pc' = [pc EXCEPT ![p] = "query"]
    /\ UNCHANGED <<database, process, missing, faulted, history>>

\* Up reads the records.
QueryApplied(p) ==
    /\ pc[p] = "query"
    /\ \E seen \in Rows(Applied) :
          /\ pc' = [pc EXCEPT ![p] = IF id[p] \in seen THEN "ok" ELSE "create"]
          /\ faulted' = IF seen = Applied THEN faulted ELSE faulted \union {p}
    /\ UNCHANGED <<database, process, missing, history>>

\* CREATE TABLE IF NOT EXISTS, without the extra columns.
CreateTable(p) ==
    /\ pc[p] = "create"
    /\ exists' = TRUE
    /\ columns' = IF exists THEN columns ELSE Created[version[p]]
    /\ Proceed(p, "read")
    /\ UNCHANGED <<records, process, missing, history>>

\* getExistingColumns, and what is expected besides.
ReadColumns(p) ==
    /\ pc[p] = "read"
    /\ \E seen \in Rows(columns) :
          /\ missing' = [missing EXCEPT ![p] = Expected[version[p]] \ seen]
          /\ faulted' = IF seen = columns THEN faulted ELSE faulted \union {p}
    /\ pc' = [pc EXCEPT ![p] = "alter"]
    /\ UNCHANGED <<database, process, history>>

\* ALTER TABLE ADD COLUMN, in the order of a map; the column must not exist.
AddColumn(p) ==
    /\ pc[p] = "alter"
    /\ \E col \in missing[p] :
          /\ missing' = [missing EXCEPT ![p] = @ \ {col}]
          /\ \/ /\ col \notin columns
                /\ columns' = columns \union {col}
                /\ Proceed(p, "alter")
             \/ /\ col \in columns
                /\ pc' = [pc EXCEPT ![p] = "error"]
                /\ UNCHANGED <<columns, faulted>>
    /\ UNCHANGED <<exists, records, process, history>>

ColumnsAdded(p) ==
    /\ pc[p] = "alter" /\ missing[p] = {}
    /\ pc' = [pc EXCEPT ![p] = "record"]
    /\ UNCHANGED <<database, process, missing, faulted, history>>

\* recordMigration: the primary key refuses a second record.
Record(p) ==
    /\ pc[p] = "record"
    /\ \/ /\ id[p] \notin Applied
          /\ records' = Append(records, id[p])
          /\ Proceed(p, "ok")
       \/ /\ id[p] \in Applied
          /\ pc' = [pc EXCEPT ![p] = "error"]
          /\ UNCHANGED <<records, faulted>>
    /\ UNCHANGED <<exists, columns, process, missing, history>>

-----------------------------------------------------------------------------
\* Down of an AutoMigrator, after MigrateAll.  Rollbacks are made while nobody
\* else is at work: nothing in the package excludes others.
CallDown(p) ==
    /\ managed[p] /\ pc[p] = "ok" /\ Active = {}
    /\ pc' = [pc EXCEPT ![p] = "last"]
    /\ UNCHANGED <<database, process, missing, faulted, history>>

\* The last record; a migration of another version is not registered.
QueryLast(p) ==
    /\ pc[p] = "last"
    /\ pc' = [pc EXCEPT ![p] =
                 IF records # <<>> /\ Last(records) = id[p] THEN "drop"
                 ELSE "refused"]
    /\ UNCHANGED <<database, process, missing, faulted, history>>

DropTable(p) ==
    /\ pc[p] = "drop"
    /\ exists' = FALSE /\ columns' = {}
    /\ undercut' = undercut \union Applied
    /\ Proceed(p, "remove")
    /\ UNCHANGED <<records, process, missing, overlapped>>

RemoveRecord(p) ==
    /\ pc[p] = "remove"
    /\ records' = Front(records)
    /\ undercut' = undercut \ {id[p]}
    /\ Proceed(p, "rolledBack")
    /\ UNCHANGED <<exists, columns, process, missing, overlapped>>

-----------------------------------------------------------------------------
Next == \E p \in Procs :
    \/ Register(p) \/ Fails(p) \/ Status(p) \/ QueryApplied(p)
    \/ CreateTable(p) \/ ReadColumns(p) \/ AddColumn(p) \/ ColumnsAdded(p)
    \/ Record(p) \/ CallDown(p) \/ QueryLast(p) \/ DropTable(p) \/ RemoveRecord(p)

Spec == Init /\ [][Next]_vars
-----------------------------------------------------------------------------
\* The types of the variables; no migration is recorded twice.
TypeOK ==
    /\ exists \in BOOLEAN /\ columns \in SUBSET Columns
    /\ records \in Seq(IDs) /\ Cardinality(Applied) = Len(records)
    /\ version \in [Procs -> Versions] /\ managed \in [Procs -> BOOLEAN]
    /\ id \in [Procs -> IDs \union {<<>>}]
    /\ pc \in [Procs -> {"idle", "status", "query", "create", "read", "alter",
                         "record", "ok", "error", "last", "drop", "remove",
                         "refused", "rolledBack"}]
    /\ missing \in [Procs -> SUBSET Columns]
    /\ faulted \in SUBSET Procs /\ overlapped \in SUBSET Procs
    /\ undercut \in SUBSET IDs

\* Whoever runs at once, fails or crashes, a recorded migration has all its
\* columns, unless a rollback dropped the table while it was recorded.
RecordedColumnsExist ==
    \A m \in Applied \ undercut : m[1] \subseteq columns

\* A process that ran alone and met no fault does not fail: the migration picks
\* up whatever others have left half done.
FailsOnlyInARace ==
    \A p \in Procs : pc[p] = "error" => p \in faulted \union overlapped

-----------------------------------------------------------------------------
(***************************************************************************)
(* What a comment of the package says, and the code does not keep.         *)
(***************************************************************************)

\* migrate.go:50, "Migration already applied, check if we need to add new
\* columns": a process of MigrateWithVersionControl that found its migration
\* applied leaves the table with the columns of its version.
AppliedColumnsChecked ==
    [][\A p \in Procs :
          ~managed[p] /\ pc[p] = "query" /\ pc'[p] = "ok"
             => Expected[version[p]] \subseteq columns']_vars
=============================================================================
