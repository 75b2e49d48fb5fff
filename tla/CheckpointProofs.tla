--------------------------- MODULE CheckpointProofs ---------------------------
(***************************************************************************)
(* Proofs about NativeCheckpoint for every chain, request size, history     *)
(* window and number of faults.  What is said of the checkpoint is proved   *)
(* for an HTTP endpoint that is not behind the WSS one (Lag = 0): with a    *)
(* lag the second backfill can end before a block whose logs the            *)
(* subscription came too late for, and the checkpoint moves past them.      *)
(***************************************************************************)
EXTENDS NativeCheckpoint, TLAPS

(***************************************************************************)
(* The inductive invariant.  CheckpointSound follows the checkpoint, which  *)
(* moves at the end of a backfill and with every live log; so a backfill    *)
(* must have covered what is below its position, and while logs are taken   *)
(* live with no hold, every log on the chain is covered or on its way.      *)
(***************************************************************************)
Covered == stored \cup skipped

BackfillCovers == Backfilling => \A l \in Logs : blockOf[l] < lower => l \in Covered

SecondMeetsQueue == pc = "second" => \A l \in OnChain : blockOf[l] > latest => l \in queue

LiveMissesNothing == (pc = "live" /\ hold = Free) => OnChain \subseteq Covered \cup queue

IInv ==
    /\ TypeOK
    /\ CheckpointSound
    /\ BackfillCovers
    /\ SecondMeetsQueue
    /\ LiveMissesNothing

(***************************************************************************)
(* Type correctness needs nothing but itself.                               *)
(***************************************************************************)
LEMMA InitTypeOK == Init => TypeOK
<1> SUFFICES ASSUME Init PROVE TypeOK
  OBVIOUS
<1>1. Failures \in Nat /\ Recoveries \in Nat \ {0} /\ MaxBlock \in Nat
  BY CheckpointAssumption
<1>2. dead \subseteq Endpoints /\ slot \in Endpoints /\ wss \in Endpoints \cup {None}
  BY DEF Init, Endpoints
<1>3. 0 \in 0..Failures /\ 0 \in 0..Recoveries - 1 /\ 0 \in 0..MaxBlock
  BY <1>1
<1>4. (errors \in 0..Failures /\ successes \in 0..Recoveries - 1 /\ reconnect \in BOOLEAN)
  BY <1>3 DEF Init
<1>5. /\ head \in 0..MaxBlock /\ latest \in 0..head /\ lower \in Nat /\ faults \in Nat
      /\ checkpoint \in Nat \cup {Unset} /\ pc \in Phases /\ hold \in Blocks \cup {Free}
  BY <1>3 DEF Init, Phases
<1> QED
  BY <1>2, <1>4, <1>5 DEF Init, TypeOK

(* It is inductive without help. *)
LEMMA StepTypeOK == TypeOK /\ [Next]_vars => TypeOK'
<1> SUFFICES ASSUME TypeOK, [Next]_vars PROVE TypeOK'
  OBVIOUS
<1> USE CheckpointAssumption
    DEF TypeOK, Phases, Blocks, Free, Unset, OnChain, Between, Fault, Max2, Min2, chain, line,
        Endpoints, None, Up
<1>a. Failures \in Nat /\ Recoveries \in Nat \ {0}
  OBVIOUS
<1>0. RecordFailure => slot' \in Endpoints /\ errors' \in 0..Failures
  BY DEF RecordFailure
<1>00. ConnectionFails \/ ProcessDies =>
           /\ pc' \in Phases /\ queue' = {} /\ wss' = None
           /\ (slot \in Endpoints /\ errors \in 0..Failures)'
           /\ (reconnect \in BOOLEAN /\ successes \in 0..Recoveries - 1)'
  <2>1. CASE ConnectionFails
    BY <1>0, <2>1 DEF ConnectionFails
  <2>2. CASE ProcessDies
    <3>1. 0 \in 0..Failures /\ 0 \in 0..Recoveries - 1
      BY <1>a
    <3> QED
      BY <2>2, <3>1 DEF ProcessDies
  <2> QED
    BY <2>1, <2>2
<1>000. Returns =>
           /\ pc' \in Phases /\ wss' \in Endpoints \cup {None}
           /\ UNCHANGED <<slot, errors, reconnect, successes>>
  BY DEF Returns
<1>1. CASE NewBlock
  <2>1. head' \in 0..MaxBlock /\ head \in Nat /\ head' = head + 1
    BY <1>1 DEF NewBlock
  <2>2. (queue \subseteq OnChain)'
    BY <1>1, <2>1 DEF NewBlock, Subscribed
  <2>3. latest' \in 0..head'
    BY <1>1, <2>1 DEF NewBlock
  <2> QED
    BY <1>1, <2>1, <2>2, <2>3 DEF NewBlock
<1>2. CASE StartBackfill
  <2>1. PICK last \in Max2(0, head - Lag)..head :
            latest' = last /\ lower' = ResumesAt(last)
    BY <1>2 DEF StartBackfill
  <2>2. last \in 0..head /\ last \in Nat
    BY <2>1
  <2>3. HistoryFloor(last) \in Nat
    BY <2>2 DEF HistoryFloor
  <2>4. lower' \in Nat
    <3>1. StoredOr(last) \in Nat
      BY <2>3 DEF StoredOr
    <3> QED
      BY <2>1, <2>3, <3>1 DEF ResumesAt
  <2>5. skipped' \subseteq Logs
    BY <1>2 DEF StartBackfill
  <2> QED
    BY <1>2, <2>1, <2>2, <2>4, <2>5 DEF StartBackfill
<1>3. CASE BackfillChunk
  <2>1. Upper \in Nat
    BY <1>3 DEF BackfillChunk, Upper
  <2>2. lower' \in Nat /\ Chunk \subseteq Logs
    BY <1>3, <2>1 DEF BackfillChunk, Chunk
  <2> QED
    BY <1>3, <2>2 DEF BackfillChunk
<1>4. CASE BackfillEnds
  BY <1>4, <1>000 DEF BackfillEnds
<1>5. CASE BackfillEndsUnrecorded
  BY <1>5, <1>00 DEF BackfillEndsUnrecorded
<1>6. CASE BackfillBlocked
  <2>1. PICK bad \in SUBSET Chunk :
            /\ Fail(bad)
            /\ stored' = stored \cup (Chunk \ bad)
            /\ \E l \in bad : hold' = HoldAt(blockOf[l])
    BY <1>6 DEF BackfillBlocked
  <2>2. Chunk \subseteq Logs
    BY DEF Chunk
  <2>3. hold' \in Blocks \cup {Free}
    BY <2>1, <2>2 DEF HoldAt
  <2>4. failed' \subseteq Logs /\ faults' \in Nat
    BY <2>1, <2>2 DEF Fail
  <2> QED
    BY <1>6, <2>1, <2>2, <2>3, <2>4, <1>000 DEF BackfillBlocked
<1>7. CASE BackfillAborts
  BY <1>7, <1>00 DEF BackfillAborts, Chunk
<1>8. CASE Subscribe
  BY <1>8 DEF Subscribe
<1>9. CASE \E l \in Logs : LiveLogStored(l)
  BY <1>9 DEF LiveLogStored
<1>10. CASE \E l \in Logs : LiveLogFails(l)
  <2> PICK l \in Logs : LiveLogFails(l)
    BY <1>10
  <2>1. hold' \in Blocks \cup {Free}
    BY DEF LiveLogFails, HoldAt
  <2>2. failed' \subseteq Logs /\ faults' \in Nat
    BY DEF LiveLogFails, Fail
  <2> QED
    BY <2>1, <2>2 DEF LiveLogFails
<1>11. CASE \E l \in Logs : LiveLogUnrecorded(l)
  BY <1>11, <1>00 DEF LiveLogUnrecorded
<1>12. CASE Disconnect
  BY <1>12, <1>00 DEF Disconnect
<1>13. CASE Crash
  BY <1>13, <1>00 DEF Crash
<1>14. CASE Restart
  BY <1>14 DEF Restart
<1>15. CASE UNCHANGED vars
  BY <1>15 DEF vars, memory
<1>16. CASE Waiting
  BY <1>16, <1>15 DEF Waiting
<1>17. CASE EndpointIsDead
  BY <1>17, <1>0 DEF EndpointIsDead, memory
<1>18. CASE ProbeSucceeds
  <2>1. slot' \in Endpoints /\ reconnect' \in BOOLEAN
    BY <1>18 DEF ProbeSucceeds
  <2>2. successes' \in 0..Recoveries - 1
    <3>1. successes \in Nat /\ (successes' = 0 \/ (successes' = successes + 1 /\ successes + 1 < Recoveries))
      BY <1>18 DEF ProbeSucceeds
    <3> QED
      BY <3>1, <1>a
  <2> QED
    BY <1>18, <2>1, <2>2 DEF ProbeSucceeds, memory
<1>19. CASE ProbeFails
  BY <1>19, <1>a DEF ProbeFails, memory
<1>20. CASE Reconnects
  BY <1>20 DEF Reconnects
<1> QED
  BY <1>1, <1>2, <1>3, <1>4, <1>5, <1>6, <1>7, <1>8, <1>9, <1>10, <1>11, <1>12,
     <1>13, <1>14, <1>15, <1>16, <1>17, <1>18, <1>19, <1>20 DEF Next

(***************************************************************************)
(* What the loop keeps in the database and in memory is always of its type. *)
(***************************************************************************)
THEOREM TypeCorrect == Spec => []TypeOK
BY InitTypeOK, StepTypeOK, PTL DEF Spec

(* Before the first connection nothing was promised yet. *)
LEMMA InitIInv == Init => IInv
<1> SUFFICES ASSUME Init PROVE IInv
  OBVIOUS
<1>1. TypeOK
  BY InitTypeOK
<1> QED
  BY <1>1 DEF Init, IInv, CheckpointSound, BackfillCovers, SecondMeetsQueue,
              LiveMissesNothing, Backfilling, Unset

(* Every step of the loop, and every fault, preserves it. *)
LEMMA StepIInv ==
    ASSUME Lag = 0
    PROVE  IInv /\ [Next]_vars => IInv'
<1> SUFFICES ASSUME IInv, [Next]_vars PROVE IInv'
  OBVIOUS
<1>0. TypeOK /\ TypeOK'
  BY StepTypeOK DEF IInv
<1>1. /\ \A l \in Logs : blockOf[l] \in Nat /\ blockOf[l] >= 1
      /\ head \in Nat /\ latest \in Nat /\ lower \in Nat
      /\ checkpoint \in Nat \cup {-1}
      /\ Step \in Nat \ {0} /\ Overlap \in Nat /\ Window \in Nat
  BY <1>0, CheckpointAssumption DEF TypeOK, Blocks, Unset
<1> USE DEF CheckpointSound, BackfillCovers, SecondMeetsQueue, LiveMissesNothing,
            Covered, Backfilling, OnChain, Unset, chain
<1>2. CASE NewBlock
  BY <1>0, <1>1, <1>2 DEF IInv, NewBlock, Subscribed, Between
<1>3. CASE StartBackfill
  <2>1. PICK last \in Max2(0, head - Lag)..head :
            /\ latest' = last
            /\ lower' = ResumesAt(last)
            /\ skipped' = IF checkpoint = Unset \/ StoredOr(last) < HistoryFloor(last)
                          THEN skipped \cup Between(1, HistoryFloor(last) - 1)
                          ELSE skipped
    BY <1>3 DEF StartBackfill
  <2>2. last = head
    BY <2>1, <1>1 DEF Max2
  <2>3. HistoryFloor(last) \in Nat
    BY <2>2, <1>1 DEF HistoryFloor, Max2
  <2>4. \A l \in Logs : blockOf[l] < lower' => l \in stored \cup skipped'
    <3> TAKE l \in Logs
    <3> HAVE blockOf[l] < lower'
    <3>1. CASE checkpoint = Unset
      <4>1. lower' = HistoryFloor(last)
        BY <2>1, <2>3, <3>1, <1>1 DEF ResumesAt, StoredOr, Max2
      <4>2. skipped' = skipped \cup Between(1, HistoryFloor(last) - 1)
        BY <3>1, <2>1
      <4> QED
        BY <4>1, <4>2, <2>3, <1>1 DEF Between
    <3>2. CASE checkpoint # Unset /\ checkpoint < HistoryFloor(last)
      <4>1. lower' = HistoryFloor(last)
        BY <2>1, <2>3, <3>2, <1>1 DEF ResumesAt, StoredOr, Max2
      <4>2. skipped' = skipped \cup Between(1, HistoryFloor(last) - 1)
        BY <3>2, <2>1 DEF StoredOr
      <4> QED
        BY <4>1, <4>2, <2>3, <1>1 DEF Between
    <3>3. CASE checkpoint # Unset /\ ~ (checkpoint < HistoryFloor(last))
      <4>1. lower' <= checkpoint
        BY <2>1, <2>3, <3>3, <1>1 DEF ResumesAt, StoredOr, Max2
      <4>2. blockOf[l] < checkpoint
        <5>1. lower' \in Nat /\ blockOf[l] \in Nat /\ checkpoint \in Nat
          BY <1>0, <1>1, <3>3 DEF TypeOK
        <5> QED
          BY <5>1, <4>1
      <4>3. skipped \subseteq skipped'
        BY <2>1
      <4> QED
        BY <4>2, <4>3, <3>3 DEF IInv
    <3> QED
      BY <3>1, <3>2, <3>3
  <2>5. skipped \subseteq skipped'
    BY <2>1
  <2> QED
    BY <1>0, <1>1, <1>3, <2>1, <2>2, <2>4, <2>5 DEF IInv, StartBackfill
<1>4. CASE BackfillChunk
  <2>1. Upper \in Int
    BY <1>1 DEF Upper, Min2
  <2>2. \A l \in Logs : blockOf[l] < Upper + 1 => l \in stored' \cup skipped
    BY <1>1, <1>4, <2>1 DEF IInv, BackfillChunk, Chunk, Between
  <2> QED
    BY <1>0, <1>4, <2>2 DEF IInv, BackfillChunk
<1>5. CASE BackfillEnds
  <2>1. \A l \in Logs : blockOf[l] <= latest => l \in Covered
    BY <1>1, <1>5 DEF IInv, BackfillEnds
  <2>2. (OnChain \subseteq Covered \cup queue)' \/ pc # "second"
    BY <1>1, <1>5, <2>1 DEF IInv, BackfillEnds
  <2> QED
    BY <1>0, <1>1, <1>5, <2>1, <2>2 DEF IInv, BackfillEnds, Returns
<1>6. CASE BackfillEndsUnrecorded
  BY <1>0, <1>6 DEF IInv, BackfillEndsUnrecorded, ConnectionFails, ProcessDies
<1>7. CASE BackfillBlocked
  <2>1. hold' # Free
    <3>1. PICK l \in Chunk : hold' = HoldAt(blockOf[l])
      BY <1>7 DEF BackfillBlocked
    <3>2. blockOf[l] # Free
      BY <3>1, <1>1 DEF Chunk, Between, Free
    <3> QED
      BY <3>1, <3>2 DEF HoldAt
  <2>2. stored \subseteq stored' /\ pc' \in {"off", "connect", "live"}
    BY <1>7 DEF BackfillBlocked, Returns
  <2> QED
    BY <1>0, <1>7, <2>1, <2>2 DEF IInv, BackfillBlocked
<1>8. CASE BackfillAborts
  BY <1>0, <1>8 DEF IInv, BackfillAborts, ConnectionFails
<1>9. CASE Subscribe
  BY <1>0, <1>9 DEF IInv, Subscribe
<1>10. ASSUME NEW l \in Logs, LiveLogStored(l) PROVE IInv'
  <2>1. hold = Free => \A m \in Logs : blockOf[m] < blockOf[l] => m \in Covered
    <3> SUFFICES ASSUME hold = Free, NEW m \in Logs, blockOf[m] < blockOf[l]
                 PROVE  m \in Covered
      OBVIOUS
    <3>1. l \in queue /\ blockOf[l] <= head /\ m \notin queue
      BY <1>0, <1>1, <1>10 DEF LiveLogStored, FirstInQueue, TypeOK
    <3>2. m \in OnChain
      BY <3>1, <1>1
    <3> QED
      BY <3>1, <3>2, <1>10 DEF IInv, LiveLogStored
  <2> QED
    BY <1>0, <1>10, <2>1 DEF IInv, LiveLogStored
<1>11. ASSUME NEW l \in Logs, LiveLogFails(l) PROVE IInv'
  <2>1. hold' # Free
    BY <1>1, <1>11 DEF LiveLogFails, HoldAt, Free
  <2> QED
    BY <1>0, <1>11, <2>1 DEF IInv, LiveLogFails
<1>12. ASSUME NEW l \in Logs, LiveLogUnrecorded(l) PROVE IInv'
  BY <1>0, <1>12 DEF IInv, LiveLogUnrecorded, ConnectionFails, ProcessDies
<1>13. CASE Disconnect
  BY <1>0, <1>13 DEF IInv, Disconnect, ConnectionFails
<1>14. CASE Crash
  BY <1>0, <1>14 DEF IInv, Crash, ProcessDies
<1>15. CASE Restart
  BY <1>0, <1>15 DEF IInv, Restart
<1>16. CASE UNCHANGED vars
  BY <1>0, <1>16 DEF IInv, vars, chain, memory
<1>17. CASE Waiting
  BY <1>16, <1>17 DEF Waiting
<1>18. CASE EndpointIsDead
  BY <1>0, <1>18 DEF IInv, EndpointIsDead, memory
<1>19. CASE ProbeSucceeds \/ ProbeFails
  BY <1>0, <1>19 DEF IInv, ProbeSucceeds, ProbeFails, memory
<1>20. CASE Reconnects
  BY <1>0, <1>20 DEF IInv, Reconnects
<1> QED
  BY <1>2, <1>3, <1>4, <1>5, <1>6, <1>7, <1>8, <1>9, <1>10, <1>11, <1>12, <1>13,
     <1>14, <1>15, <1>16, <1>17, <1>18, <1>19, <1>20 DEF Next

(***************************************************************************)
(* The checkpoint is what a restart trusts: through any interleaving of new *)
(* blocks, chunks, failures, disconnects and crashes, every log below it is *)
(* stored or had left the history window.                                  *)
(***************************************************************************)
THEOREM CheckpointIsSound ==
    ASSUME Lag = 0
    PROVE  Spec => []CheckpointSound
<1>1. IInv => CheckpointSound
  BY DEF IInv
<1> QED
  BY <1>1, InitIInv, StepIInv, PTL DEF Spec

(***************************************************************************)
(* Only the probe moves a chain while it has a subscription: the loop moves  *)
(* it when a connection failed, and there is no subscription then.           *)
(***************************************************************************)
LineInv ==
    /\ NoStaleSubscription
    /\ pc \in {"down", "off", "first"} => wss = None

LEMMA StepLineInv == LineInv /\ [Next]_vars => LineInv'
<1> SUFFICES ASSUME LineInv, [Next]_vars PROVE LineInv'
  OBVIOUS
<1> USE DEF LineInv, NoStaleSubscription, Endpoints, None
<1>1. CASE NewBlock
  BY <1>1 DEF NewBlock, line
<1>2. CASE EndpointIsDead
  BY <1>2 DEF EndpointIsDead, memory
<1>3. CASE ProbeSucceeds
  BY <1>3 DEF ProbeSucceeds, memory
<1>4. CASE ProbeFails
  BY <1>4 DEF ProbeFails, memory
<1>5. CASE StartBackfill
  BY <1>5 DEF StartBackfill
<1>6. CASE BackfillChunk
  BY <1>6 DEF BackfillChunk, line
<1>7. CASE BackfillEnds \/ BackfillBlocked
  BY <1>7 DEF BackfillEnds, BackfillBlocked, Backfilling, Returns
<1>8. CASE BackfillEndsUnrecorded \/ BackfillAborts \/ Disconnect \/ Crash
  BY <1>8 DEF BackfillEndsUnrecorded, BackfillAborts, Disconnect, Crash,
              ConnectionFails, ProcessDies
<1>9. CASE Subscribe
  BY <1>9 DEF Subscribe, line
<1>10. CASE \E l \in Logs : LiveLogStored(l) \/ LiveLogFails(l) \/ LiveLogUnrecorded(l)
  BY <1>10 DEF LiveLogStored, LiveLogFails, LiveLogUnrecorded, ConnectionFails, ProcessDies
<1>11. CASE Reconnects
  BY <1>11 DEF Reconnects
<1>12. CASE Restart
  BY <1>12 DEF Restart, line
<1>13. CASE UNCHANGED vars
  BY <1>13 DEF vars, memory, line
<1>14. CASE Waiting
  BY <1>13, <1>14 DEF Waiting
<1> QED
  BY <1>1, <1>2, <1>3, <1>4, <1>5, <1>6, <1>7, <1>8, <1>9, <1>10, <1>11, <1>12,
     <1>13, <1>14 DEF Next

(***************************************************************************)
(* The event that ends a subscription to the wrong endpoint is never lost,   *)
(* whenever the probe sets it.                                              *)
(***************************************************************************)
THEOREM NeverStale == Spec => []NoStaleSubscription
<1>1. Init => LineInv
  BY DEF Init, LineInv, NoStaleSubscription, Endpoints, None
<1>2. LineInv => NoStaleSubscription
  BY DEF LineInv
<1> QED
  BY <1>1, <1>2, StepLineInv, PTL DEF Spec
==============================================================================
