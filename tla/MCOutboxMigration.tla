--------------------------- MODULE MCOutboxMigration ---------------------------
(* Three alerts and two jobs; two crashes, so that the second start can be    *)
(* interrupted like the first.                                                *)
EXTENDS OutboxMigration

CONSTANTS r1, r2, r3, j1, j2
==============================================================================
