--------------------------- MODULE MigrationFiles ---------------------------
(***************************************************************************)
(* What FileMigrator makes of the files under its directory: a file is a   *)
(* pair of the ID and the direction its name gives.  Of files that give    *)
(* the same pair, in directories of their own, the last one walked counts. *)
(***************************************************************************)
CONSTANT Files

\* The keys of migrationMap.
FoundIds == {file[1] : file \in Files}

UpPath(id) == <<id, "up">>
DownPath(id) == <<id, "down">>

\* Only migrations with up files are added to the Migrator,
LoadedIds == {id \in FoundIds : UpPath(id) \in Files}

\* and they have a Down function when there is a file for it.
LoadedWithoutDown == {id \in LoadedIds : DownPath(id) \notin Files}
=============================================================================
