------------------------- MODULE MCMigrationStatus -------------------------
(* Model-checking instance of MigrationStatus: two data structures, so that*)
(* a later stage can run after an earlier one succeeded or was ignored,    *)
(* and queries that may fail.                                              *)
EXTENDS MigrationStatus

MCNItems == 2
MCQueryMayFail == TRUE
=============================================================================
