---------------------------- MODULE MCModuleTable ----------------------------
(* Model-checking instance of ModuleTable: the loads, readers, capacity    *)
(* and loader mode come from the .cfg files.                               *)
EXTENDS ModuleTable, TLC

\* The loading threads of non-excluded modules are interchangeable.
LoadSymmetry == Permutations(Loads \ Excluded)

=============================================================================
