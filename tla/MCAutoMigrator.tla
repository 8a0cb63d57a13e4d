--------------------------- MODULE MCAutoMigrator ---------------------------
(* Small instances of AutoMigrator for TLC: the second version of a        *)
(* struct adds a field with a legacy tag; both have a mutex in a field     *)
(* that is not exported.  Processes differ in nothing but their names.     *)
EXTENDS AutoMigrator

FirstFields ==
    {[name |-> "id", exported |-> TRUE, kind |-> "basic", orm |-> "none",
      legacy |-> FALSE, pgname |-> ""],
     [name |-> "mu", exported |-> FALSE, kind |-> "struct", orm |-> "none",
      legacy |-> FALSE, pgname |-> ""]}

SecondFields == FirstFields \union
    {[name |-> "tags", exported |-> TRUE, kind |-> "other", orm |-> "invalid",
      legacy |-> TRUE, pgname |-> "labels"]}

StructFields == [v \in Versions |-> IF v = 1 THEN FirstFields ELSE SecondFields]

Symmetry == Permutations(Procs)
=============================================================================
