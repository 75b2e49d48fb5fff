---------------------------- MODULE OutboxMigration ----------------------------
(***************************************************************************)
(* The start of the daemon on a database an earlier release left behind     *)
(* (storage.py initialize and _migrate_telegram_outbox_terminal_state): the *)
(* tables are created, interrupted jobs recovered, and telegram_outbox is  *)
(* rebuilt because its CHECK does not know the state 'failed'.             *)
(*                                                                         *)
(* The sqlite3 module commits DDL at once and executescript commits what is *)
(* open, so renaming, creating and filling the table are three commits, and *)
(* a crash may come between any two; the INSERT opens a transaction that    *)
(* the DROP shares.  A statement that fails (the database is locked by the *)
(* outcome collector) ends the process too, and counts as a crash.         *)
(*                                                                         *)
(* The names are unlike those of TelegramOutbox, the use of the table once  *)
(* the loops run, so that one module can extend both.                      *)
(***************************************************************************)
EXTENDS Naturals

CONSTANTS Alerts,            \* alerts that were or will be in the outbox
          Jobs,              \* enrichment jobs left by the earlier run
          MaxInterruptions   \* bound of the crashes explored

ASSUME MigrationAssumption == MaxInterruptions \in Nat

VARIABLES
    table,      \* telegram_outbox: [ddl, rows]; ddl is "absent", "old" or "new"
    backup,     \* telegram_outbox_pre_failed, likewise
    working,    \* jobs in state 'processing'
    progress,   \* how far the start is; "serving" once the loops run
    (* history *)
    queued,     \* every alert that was ever in the outbox
    cut,        \* whether a crash came between the rename and the copy
    interruptions

startVars == <<table, backup, working, progress, queued, cut, interruptions>>

Absent == [ddl |-> "absent", rows |-> {}]
Tables == [ddl : {"absent", "old", "new"}, rows : SUBSET Alerts]
Starting == {"tables", "recover", "inspect", "renamed", "created"}

StartTypeOK ==
    /\ table \in Tables /\ backup \in Tables
    /\ working \subseteq Jobs
    /\ progress \in Starting \cup {"down", "serving"}
    /\ queued \subseteq Alerts /\ cut \in BOOLEAN
    /\ interruptions \in 0..MaxInterruptions
    /\ \A t \in {table, backup} : t.ddl = "absent" => t.rows = {}
    /\ progress \in {"recover", "inspect", "created", "serving"} => table.ddl # "absent"
    /\ progress \in {"renamed", "created"} => backup.ddl = "old"

(* no database yet, or one of the earlier release *)
StartInit ==
    /\ \/ table = Absent
       \/ \E rows \in SUBSET Alerts : table = [ddl |-> "old", rows |-> rows]
    /\ backup = Absent
    /\ working \in SUBSET Jobs
    /\ progress = "down"
    /\ queued = table.rows /\ cut = FALSE
    /\ interruptions = 0

Start ==
    /\ progress = "down"
    /\ progress' = "tables"
    /\ UNCHANGED <<table, backup, working, queued, cut, interruptions>>

(* CREATE TABLE IF NOT EXISTS *)
NotCreatedBug(t) == t     \* TELEGRAM_OUTBOX_SCHEMA is a script of its own

Created(t) == IF t.ddl = "absent" THEN [ddl |-> "new", rows |-> {}] ELSE t

CreateTables ==
    /\ progress = "tables"
    /\ table' = Created(table)
    /\ progress' = "recover"
    /\ UNCHANGED <<backup, working, queued, cut, interruptions>>

RecoveredBug == working

Recovered == {}

RecoverJobs ==
    /\ progress = "recover"
    /\ working' = Recovered
    /\ progress' = "inspect"
    /\ UNCHANGED <<table, backup, queued, cut, interruptions>>

NeedsNothing == table.ddl = "new"

SkipMigration ==
    /\ progress = "inspect" /\ NeedsNothing
    /\ progress' = "serving"
    /\ UNCHANGED <<table, backup, working, queued, cut, interruptions>>

Rename ==
    /\ progress = "inspect" /\ ~ NeedsNothing
    /\ backup' = table /\ table' = Absent
    /\ progress' = "renamed"
    /\ UNCHANGED <<working, queued, cut, interruptions>>

Recreate ==
    /\ progress = "renamed"
    /\ table' = Created(table)
    /\ progress' = "created"
    /\ UNCHANGED <<backup, working, queued, cut, interruptions>>

(* what the INSERT ... SELECT brings over; one commit with the DROP *)
CopiedBug == table.rows

Copied == table.rows \cup backup.rows

CopyAndDrop ==
    /\ progress = "created"
    /\ table' = [table EXCEPT !.rows = Copied]
    /\ backup' = Absent
    /\ progress' = "serving"
    /\ UNCHANGED <<working, queued, cut, interruptions>>

(* the loops at work: an alert is queued, a job is claimed or ended *)
Queue(r) ==
    /\ progress = "serving" /\ r \notin queued
    /\ table' = [table EXCEPT !.rows = @ \cup {r}]
    /\ queued' = queued \cup {r}
    /\ UNCHANGED <<backup, working, progress, cut, interruptions>>

Work(j) ==
    /\ progress = "serving" /\ working \subseteq {j}
    /\ working' = IF j \in working THEN {} ELSE {j}
    /\ UNCHANGED <<table, backup, progress, queued, cut, interruptions>>

Interrupt ==
    /\ progress # "down" /\ interruptions < MaxInterruptions
    /\ interruptions' = interruptions + 1
    /\ progress' = "down"
    /\ cut' = (cut \/ progress \in {"renamed", "created"})
    /\ UNCHANGED <<table, backup, working, queued>>

StartNext ==
    \/ Start \/ CreateTables \/ RecoverJobs \/ SkipMigration
    \/ Rename \/ Recreate \/ CopyAndDrop
    \/ (\E r \in Alerts : Queue(r)) \/ (\E j \in Jobs : Work(j))
    \/ Interrupt

StartSpec == StartInit /\ [][StartNext]_startVars

------------------------------------------------------------------------------
(***************************************************************************)
(* Wherever a crash interrupts the start, no alert is destroyed: every one *)
(* is still in the outbox or in the renamed table, from which it can be    *)
(* brought back by hand.  It is left there only by a crash between the     *)
(* rename and the copy, after which no start looks for it any more.        *)
(***************************************************************************)
NothingDestroyed ==
    /\ queued = table.rows \cup backup.rows
    /\ backup # Absent => cut \/ progress \in {"renamed", "created"}

(***************************************************************************)
(* The loops run only on a table that knows the terminal state, and start   *)
(* with no job in processing: claim_due_telegram writes 'failed', and a    *)
(* job left in processing would never be claimed again.                    *)
(***************************************************************************)
ServesMigrated ==
    /\ progress = "serving" => table.ddl = "new" /\ \A i, j \in working : i = j
    /\ progress \in {"inspect", "renamed", "created"} => working = {}
==============================================================================
