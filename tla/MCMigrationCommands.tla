------------------------- MODULE MCMigrationCommands -------------------------
(* Model-checking instance of MigrationCommands: three stages, so that a  *)
(* stage can fail after one was ignored and before one that never runs.    *)
EXTENDS MigrationCommands

MCNStages == 3
=============================================================================
