----------------------------- MODULE MCMigrator -----------------------------
(* A small instance of Migrator for TLC: the migrations of a directory.      *)
EXTENDS Migrator

\* Of migration 0, recorded at some time, only the down file is left; 3 never
\* had one.
MigrationsDir ==
    {<<0, "down">>, <<1, "up">>, <<1, "down">>, <<2, "up">>, <<2, "down">>, <<3, "up">>}

Dir == INSTANCE MigrationFiles WITH Files <- MigrationsDir

RegisteredIds == Dir!LoadedIds
WithoutDown == Dir!LoadedWithoutDown

\* Calls differ in nothing but their names.
Symmetry == Permutations(Calls)
=============================================================================
