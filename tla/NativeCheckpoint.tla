--------------------------- MODULE NativeCheckpoint ---------------------------
(***************************************************************************)
(* How the daemon follows the launch logs of one chain (daemon.py           *)
(* native_rpc_loop, native_backfill, process_native_log_safe and the        *)
(* checkpoint hold; evm_rpc.py stream_native_logs_once), and between which    *)
(* endpoints it moves (record_native_failure, probe_primary_once).  Every     *)
(* connection backfills over HTTP from the persistent checkpoint, subscribes  *)
(* over WSS, backfills again to close the gap, then takes logs as they come;  *)
(* failures in a row move the chain to the standby endpoint, and probes of    *)
(* the primary one that succeed in a row move it back.                      *)
(*                                                                         *)
(* The chain is a growing number of blocks; where the logs are, and which   *)
(* of them the program can never store, is chosen at the start.  A chunk of *)
(* a backfill is read and processed in one action: nothing else the loop    *)
(* does can come between, and a failure in its middle is BackfillAborts.    *)
(* Subscriptions deliver logs in block order and lose none while they last. *)
(* An endpoint may be dead all the time; another one fails now and then.     *)
(***************************************************************************)
EXTENDS Integers, FiniteSets

CONSTANTS Logs,       \* launch logs that the chain will contain
          MaxBlock,   \* bound of the chain explored
          Step,       \* max_log_blocks of one request
          Window,     \* min(native_rpc_backfill_blocks, history_limit_blocks)
          Overlap,    \* blocks before the checkpoint a backfill reads again (2)
          Lag,        \* blocks the HTTP endpoint may be behind the WSS one
          Failures,   \* failures in a row that move the chain to the standby (3)
          Recoveries, \* native_rpc_primary_recovery_successes
          MaxFaults   \* bound of disconnects, failures and crashes explored

ASSUME CheckpointAssumption ==
    /\ {MaxBlock, Overlap, Lag, MaxFaults} \subseteq Nat
    /\ {Step, Window, Failures, Recoveries} \subseteq Nat \ {0}

VARIABLES
    (* the chain and its endpoints *)
    blockOf,    \* block of each log
    poison,     \* logs that can never be stored
    head,       \* newest block
    dead,       \* endpoints that never answer
    (* the database *)
    stored,     \* logs durably stored
    checkpoint, \* native_rpc_checkpoint, or Unset
    slot,       \* native_rpc_slot; the memory has the same value as the table
    (* the memory of native_rpc_loop *)
    pc, hold, queue, lower, latest,
    errors,     \* native_consecutive_errors, up to Failures
    wss,        \* endpoint of the subscription, or None
    reconnect,  \* native_reconnect_events is set
    (* the memory of native_primary_probe_loop *)
    successes,
    (* history *)
    skipped,    \* logs that were out of the history window at a backfill
    failed,     \* logs whose processing failed at least once
    faults

chain  == <<blockOf, poison, head, dead>>
memory == <<pc, hold, queue, lower, latest>>
line   == <<slot, errors, wss, reconnect, successes>>
vars   == <<chain, stored, checkpoint, memory, line, skipped, failed, faults>>

Blocks == 1..MaxBlock
Endpoints == {"primary", "standby"}
None == "none"
Unset == -1
Free == -1          \* no hold

(* "off": between connections; "first": backfill before the subscription;    *)
(* "connect": about to subscribe; "second": backfill while the subscription  *)
(* buffers; "live": taking logs; "down": the process is not running.        *)
Phases == {"down", "off", "first", "connect", "ready", "second", "live"}
Backfilling == pc \in {"first", "second"}
Subscribed == pc \in {"ready", "second", "live"}
Up == pc # "down"

Max2(a, b) == IF a > b THEN a ELSE b
Min2(a, b) == IF a < b THEN a ELSE b

OnChain == {l \in Logs : blockOf[l] <= head}
Between(a, b) == {l \in Logs : a <= blockOf[l] /\ blockOf[l] <= b}

TypeOK ==
    /\ blockOf \in [Logs -> Blocks]
    /\ poison \subseteq Logs
    /\ head \in 0..MaxBlock
    /\ dead \subseteq Endpoints
    /\ stored \subseteq Logs
    /\ checkpoint \in Nat \cup {Unset}
    /\ pc \in Phases
    /\ hold \in Blocks \cup {Free}
    /\ queue \subseteq OnChain
    /\ lower \in Nat
    /\ latest \in 0..head
    /\ slot \in Endpoints
    /\ errors \in 0..Failures
    /\ wss \in Endpoints \cup {None}
    /\ reconnect \in BOOLEAN
    /\ successes \in 0..Recoveries - 1
    /\ skipped \subseteq Logs
    /\ failed \subseteq Logs
    /\ faults \in Nat

Init ==
    /\ blockOf \in [Logs -> Blocks]
    /\ poison \in SUBSET Logs
    /\ head = 0
    /\ dead \in (SUBSET Endpoints) \ {Endpoints}
    /\ stored = {} /\ checkpoint = Unset
    /\ pc = "off" /\ hold = Free /\ queue = {} /\ lower = 0 /\ latest = 0
    /\ slot = "primary" /\ errors = 0 /\ wss = None /\ reconnect = FALSE /\ successes = 0
    /\ skipped = {} /\ failed = {} /\ faults = 0

(* Logs of a new block reach an open subscription. *)
NewBlock ==
    /\ head < MaxBlock
    /\ head' = head + 1
    /\ queue' = IF Subscribed THEN queue \cup Between(head + 1, head + 1) ELSE queue
    /\ UNCHANGED <<blockOf, poison, dead, stored, checkpoint, pc, hold, lower, latest, line,
                   skipped, failed, faults>>

------------------------------------------------------------------------------
(* Which endpoint: record_native_failure, with the end of the connection, and *)
(* what the probe does.                                                       *)

(* Only whether the failures are enough is ever asked of their number. *)
RecordFailure ==
    IF slot = "primary" /\ errors + 1 >= Failures
    THEN slot' = "standby" /\ errors' = 0
    ELSE slot' = slot /\ errors' = Min2(errors + 1, Failures)

ConnectionFails ==
    /\ pc' = "off" /\ queue' = {} /\ wss' = None
    /\ RecordFailure
    /\ UNCHANGED <<reconnect, successes>>

ProcessDies ==
    /\ pc' = "down" /\ queue' = {} /\ wss' = None
    /\ errors' = 0 /\ reconnect' = FALSE /\ successes' = 0
    /\ UNCHANGED slot

Fault == faults < MaxFaults /\ faults' = faults + 1

(* A backfill at a dead endpoint raises at once, and is tried again.          *)
EndpointIsDead ==
    /\ pc = "off" /\ slot \in dead
    /\ RecordFailure /\ reconnect' = FALSE
    /\ UNCHANGED <<chain, stored, checkpoint, memory, wss, successes, skipped, failed, faults>>

ProbeKeepsLineBug ==
    /\ Up /\ slot = "standby" /\ "primary" \notin dead
    /\ IF successes + 1 < Recoveries
       THEN successes' = successes + 1 /\ UNCHANGED slot
       ELSE successes' = 0 /\ slot' = "primary"
    /\ UNCHANGED <<chain, stored, checkpoint, memory, errors, wss, reconnect,
                   skipped, failed, faults>>

(* probe_primary_once.  Nothing else moves a chain off the standby, so it is  *)
(* still there when the answers of a probe are in: the probe is one step.     *)
ProbeSucceeds ==
    /\ Up /\ slot = "standby" /\ "primary" \notin dead
    /\ IF successes + 1 < Recoveries
       THEN successes' = successes + 1 /\ UNCHANGED <<slot, reconnect>>
       ELSE successes' = 0 /\ slot' = "primary" /\ reconnect' = TRUE
    /\ UNCHANGED <<chain, stored, checkpoint, memory, errors, wss, skipped, failed, faults>>

ProbeFails ==
    /\ Up /\ slot = "standby" /\ Fault
    /\ successes' = 0
    /\ UNCHANGED <<chain, stored, checkpoint, memory, slot, errors, wss, reconnect,
                   skipped, failed>>

------------------------------------------------------------------------------
(* native_backfill *)

HistoryFloorBug(last) == last - Window + 1

HistoryFloor(last) == Max2(0, last - Window + 1)
StoredOr(last) == IF checkpoint = Unset THEN HistoryFloor(last) ELSE checkpoint

ResumesAtHeadBug(last) ==         \* the second backfill trusts the first
    IF pc = "ready" THEN last ELSE Max2(HistoryFloor(last), StoredOr(last) - Overlap)

ResumesAt(last) == Max2(HistoryFloor(last), StoredOr(last) - Overlap)

StartBackfill ==
    /\ pc \in {"off", "ready"} /\ slot \notin dead
    /\ reconnect' = (reconnect /\ pc = "ready")
    /\ pc' = IF pc = "off" THEN "first" ELSE "second"
    /\ \E last \in Max2(0, head - Lag)..head :
        /\ latest' = last
        /\ lower' = ResumesAt(last)
        /\ skipped' = IF checkpoint = Unset \/ StoredOr(last) < HistoryFloor(last)
                      THEN skipped \cup Between(1, HistoryFloor(last) - 1)
                      ELSE skipped
    /\ UNCHANGED <<chain, stored, checkpoint, hold, queue, slot, errors, wss, successes,
                   failed, faults>>

Upper == Min2(latest, lower + Step - 1)
Chunk == Between(lower, Upper)

(* After the first backfill the loop starts over if the endpoint changed      *)
(* meanwhile; otherwise it connects to the one that is current now.           *)
Returns ==
    /\ pc' = IF pc = "second" THEN "live" ELSE IF reconnect THEN "off" ELSE "connect"
    /\ wss' = IF pc = "first" /\ ~ reconnect THEN slot ELSE wss
    /\ UNCHANGED <<slot, errors, reconnect, successes>>

(* Every log of the chunk was stored, or was known already. *)
BackfillChunk ==
    /\ Backfilling /\ lower <= latest
    /\ Chunk \cap poison \subseteq stored
    /\ stored' = stored \cup Chunk
    /\ lower' = Upper + 1
    /\ UNCHANGED <<chain, checkpoint, pc, hold, queue, latest, line, skipped, failed, faults>>

(* Nothing is left: release the hold, and only now move the checkpoint. *)
BackfillEnds ==
    /\ Backfilling /\ lower > latest
    /\ hold' = Free
    /\ checkpoint' = latest
    /\ Returns
    /\ UNCHANGED <<chain, stored, queue, lower, latest, skipped, failed, faults>>

(* The hold is gone when the checkpoint is written; the write may raise.     *)
BackfillEndsUnrecorded ==
    /\ Backfilling /\ lower > latest /\ Fault
    /\ hold' = Free
    /\ ConnectionFails \/ ProcessDies
    /\ UNCHANGED <<chain, stored, checkpoint, lower, latest, skipped, failed>>

(* hold_native_checkpoint keeps the lowest block *)
HoldForgottenBug(block) == hold

HoldAt(block) == IF hold # Free /\ hold <= block THEN hold ELSE block

(* Some logs of the chunk failed: hold at the lowest, give up later chunks.  *)
Fail(bad) ==
    /\ bad # {} /\ bad \cap stored = {}
    /\ failed' = failed \cup bad
    /\ faults' = IF bad \subseteq poison THEN faults ELSE faults + 1
    /\ bad \subseteq poison \/ faults < MaxFaults

BackfillBlocked ==
    /\ Backfilling /\ lower <= latest
    /\ \E bad \in SUBSET Chunk :
        /\ Fail(bad) /\ (Chunk \cap poison) \ stored \subseteq bad
        /\ stored' = stored \cup (Chunk \ bad)
        /\ \E l \in bad : /\ \A m \in bad : blockOf[l] <= blockOf[m]
                          /\ hold' = HoldAt(blockOf[l])
    /\ Returns
    /\ UNCHANGED <<chain, checkpoint, queue, lower, latest, skipped>>

(* An RPC error in the middle of a chunk ends the connection. *)
BackfillAborts ==
    /\ Backfilling /\ lower <= latest /\ Fault
    /\ \E done \in SUBSET (Chunk \ poison) : stored' = stored \cup done
    /\ ConnectionFails
    /\ UNCHANGED <<chain, checkpoint, hold, lower, latest, skipped, failed>>

------------------------------------------------------------------------------
(* native_rpc_loop and the subscription *)

SubscribeForgetsBug ==
    /\ pc = "connect"
    /\ pc' = "ready" /\ queue' = {} /\ reconnect' = FALSE
    /\ UNCHANGED <<chain, stored, checkpoint, hold, lower, latest, slot, errors, wss, successes,
                   skipped, failed, faults>>

Subscribe ==
    /\ pc = "connect"
    /\ pc' = "ready" /\ queue' = {}
    /\ UNCHANGED <<chain, stored, checkpoint, hold, lower, latest, line,
                   skipped, failed, faults>>

FirstInQueue(l) == l \in queue /\ \A m \in queue : blockOf[l] <= blockOf[m]

LiveLogStored(l) ==
    /\ pc = "live" /\ FirstInQueue(l)
    /\ l \in poison => l \in stored
    /\ queue' = queue \ {l}
    /\ stored' = stored \cup {l}
    /\ checkpoint' = IF hold = Free THEN blockOf[l] ELSE checkpoint
    /\ errors' = 0
    /\ UNCHANGED <<chain, pc, hold, lower, latest, slot, wss, reconnect, successes,
                   skipped, failed, faults>>

LiveLogFails(l) ==
    /\ pc = "live" /\ FirstInQueue(l)
    /\ Fail({l})
    /\ queue' = queue \ {l}
    /\ hold' = HoldAt(blockOf[l])
    /\ errors' = 0
    /\ UNCHANGED <<chain, stored, checkpoint, pc, lower, latest, slot, wss, reconnect, successes,
                   skipped>>

(* The log is stored, but the checkpoint is not: writing it raises, or the   *)
(* process dies in between.                                                  *)
LiveLogUnrecorded(l) ==
    /\ pc = "live" /\ FirstInQueue(l) /\ hold = Free /\ Fault
    /\ l \in poison => l \in stored
    /\ stored' = stored \cup {l}
    /\ ConnectionFails \/ ProcessDies
    /\ UNCHANGED <<chain, checkpoint, hold, lower, latest, skipped, failed>>

(* The subscription ends because the endpoint changed; that is no failure.  A *)
(* log it was just waiting for is still taken.                                *)
Reconnects ==
    /\ pc = "live" /\ reconnect
    /\ pc' = "off" /\ queue' = {} /\ wss' = None
    /\ UNCHANGED <<chain, stored, checkpoint, hold, lower, latest, slot, errors, reconnect,
                   successes, skipped, failed, faults>>

(* The socket breaks or an RPC call fails. *)
Disconnect ==
    /\ pc \notin {"down", "off"} /\ Fault
    /\ ConnectionFails
    /\ UNCHANGED <<chain, stored, checkpoint, hold, lower, latest, skipped, failed>>

(* A move between endpoints that cannot be written to the table ends here too. *)
Crash ==
    /\ Up /\ Fault
    /\ ProcessDies /\ hold' = Free
    /\ UNCHANGED <<chain, stored, checkpoint, lower, latest, skipped, failed>>

Restart ==
    /\ pc = "down"
    /\ pc' = "off"
    /\ UNCHANGED <<chain, stored, checkpoint, hold, queue, lower, latest, line,
                   skipped, failed, faults>>

(* With the chain at its bound and every log taken the loop just waits. *)
Waiting ==
    /\ pc = "live" /\ queue = {} /\ ~ reconnect
    /\ UNCHANGED vars

Next ==
    \/ NewBlock
    \/ EndpointIsDead \/ ProbeSucceeds \/ ProbeFails
    \/ StartBackfill \/ BackfillChunk \/ BackfillEnds \/ BackfillEndsUnrecorded
    \/ BackfillBlocked \/ BackfillAborts
    \/ Subscribe
    \/ \E l \in Logs : LiveLogStored(l) \/ LiveLogFails(l) \/ LiveLogUnrecorded(l)
    \/ Reconnects \/ Disconnect \/ Crash \/ Restart \/ Waiting

Spec == Init /\ [][Next]_vars

(* The loop makes progress and the process is restarted, and a primary that   *)
(* works is found to work in the end; faults are finite.                     *)
LoopStep ==
    \/ EndpointIsDead
    \/ StartBackfill \/ BackfillChunk \/ BackfillEnds \/ BackfillBlocked
    \/ Subscribe \/ (\E l \in Logs : LiveLogStored(l) \/ LiveLogFails(l))
    \/ Reconnects \/ Restart

Fairness == WF_vars(LoopStep) /\ WF_vars(ProbeSucceeds)

FairSpec == Spec /\ Fairness

------------------------------------------------------------------------------
(***************************************************************************)
(* The checkpoint means what hold_native_checkpoint says it means: every   *)
(* log below it is durably stored, or fell out of the history window that  *)
(* a backfill may read (counted as backfill_truncated).                    *)
(***************************************************************************)
CheckpointSound ==
    checkpoint # Unset =>
        \A l \in Logs : blockOf[l] < checkpoint => l \in stored \cup skipped

(***************************************************************************)
(* No log is silently lost between the first backfill, the subscription    *)
(* and the second one, nor by a disconnect or a crash: through finitely    *)
(* many faults it is stored, fails, or falls out of the window, unless the *)
(* chain is held, which health reports.  (A log behind a held block waits   *)
(* for the next disconnect, which nothing forces.)                         *)
(***************************************************************************)
EveryLogIsTriedOrHeld ==
    \A l \in Logs :
        l \in OnChain ~> l \in stored \cup skipped \cup failed \/ hold # Free

(***************************************************************************)
(* A subscription to an endpoint that is not the current one never stays:   *)
(* the event that ends it is set.  The probe changes the endpoint at any    *)
(* await of the loop, and the loop clears the event and reads the endpoint  *)
(* at others; were the event lost, health would name an endpoint that the   *)
(* chain is not followed from.                                              *)
(***************************************************************************)
NoStaleSubscription == wss \in Endpoints /\ wss # slot => reconnect

(***************************************************************************)
(* With finitely many faults, and one endpoint that works, the chain is     *)
(* followed live for ever from some time on: from the primary endpoint if   *)
(* that works, however often the chain moved to the standby meanwhile.      *)
(***************************************************************************)
SettlesOnBestEndpoint ==
    <>[](pc = "live" /\ wss = slot /\ (wss = "primary" <=> "primary" \notin dead))

(***************************************************************************)
(* hold_native_checkpoint: the checkpoint "must not move past a log that    *)
(* failed processing. Holding stalls the chain instead of silently         *)
(* dropping the event".  A backfill starts at the history floor even when  *)
(* the checkpoint is held below it, and then releases the hold.            *)
(***************************************************************************)
HoldStallsChain ==
    \A l \in failed \ stored : checkpoint # Unset => checkpoint <= blockOf[l]
==============================================================================
