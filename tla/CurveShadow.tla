------------------------------ MODULE CurveShadow ------------------------------
(***************************************************************************)
(* The collector of the Pons curve (pons_curve_shadow.py over               *)
(* pons_curve_storage.py).  One source at a time, a public HTTP poll or a   *)
(* subscription with backfills, brings logs of launches and trades; a       *)
(* thread seeds launches from the daemon's database.  Three values tell the *)
(* notifier how far the evidence goes: checkpoint, watermark and coverage.  *)
(*                                                                         *)
(* A tick brings one block, and a block's timestamp is its number; live     *)
(* logs are stamped with the time they are seen at.  process_batch runs in  *)
(* one action, BatchBreaks being its failure half way.  Backfills read the  *)
(* true head, no block time is evicted (2048 are kept), and a log that was  *)
(* reorganised away does not come back.  Endpoints are alike, so the failover *)
(* between them is not seen; `supported' is the one flag there is for both  *)
(* kinds of history, which are disabled together.                           *)
(***************************************************************************)
EXTENDS Integers

CONSTANTS Tokens, Logs,
          TokenOf,      \* token of a log
          KindOf,       \* "launch", "curve" or "graduated"
          Window,       \* backfill_blocks
          PollWindow,   \* POLL_WINDOW_BLOCKS
          Chunk,        \* BACKFILL_CHUNK_BLOCKS
          Overlap,      \* blocks read again: `stored - 2', POLL_OVERLAP_BLOCKS
          SeedOverlap,  \* 5 seconds, in which seeds read events again
          Retention,    \* REGISTRY_RETENTION_MS
          Behind,       \* bound of the blocks a polled endpoint is behind
          LastLog,      \* bound of the blocks with a log
          MaxNow,       \* bound of the time explored
          MaxFaults     \* bound of the failures, crashes and reorganisations

ASSUME ShadowAssumption ==
    /\ TokenOf \in [Logs -> Tokens]
    /\ KindOf \in [Logs -> {"launch", "curve", "graduated"}]
    /\ \A t \in Tokens : \E l \in Logs :
          {k \in Logs : TokenOf[k] = t /\ KindOf[k] = "launch"} = {l}
    /\ {Overlap, SeedOverlap, Retention, Behind, MaxNow, MaxFaults} \subseteq Nat
    /\ {Window, PollWindow, Chunk} \subseteq Nat \ {0} /\ LastLog \in 1..MaxNow

VARIABLES
    (* the chain and the daemon *)
    blockOf,     \* block of each log
    gone,        \* logs reorganised away
    radar,       \* received_at_ms of a token's launch in radar_events
    now,         \* time and newest block
    pollPrimary, \* PONS_PUBLIC_POLL_PRIMARY
    (* the database *)
    row,         \* row of a log: [at, seen, removed]
    checkpoint, watermark, coverage, seedAt,
    (* the memory of source_loop *)
    pc, usePoll, supported, times, registry, queue, lower, latest,
    (* the memory of the seeding thread *)
    seeding, seeded,
    (* history *)
    tried,       \* logs that process_log was called with, and stored or rejected
    skipped,     \* logs below where a backfill or poll resumed, or of one unsupported
    kept,        \* logs of a curve this process stored
    revoked,     \* those among them it heard were removed
    faults

chain   == <<blockOf, gone, radar, pollPrimary>>
place   == <<checkpoint, coverage>>
source  == <<pc, usePoll, supported, queue, lower, latest>>
batch   == <<row, watermark, times, registry, tried, kept, revoked>>
seeds   == <<seedAt, seeding, seeded>>
vars    == <<chain, place, source, batch, seeds, skipped, now, faults>>

Unset == -1
NoRow == [at |-> Unset, seen |-> Unset, removed |-> FALSE]
Deliveries == [log : Logs, removed : BOOLEAN]

Max2(a, b) == IF a > b THEN a ELSE b
Min2(a, b) == IF a < b THEN a ELSE b
Largest(S) == CHOOSE x \in S : \A y \in S : y <= x

LaunchOf(t) == CHOOSE l \in Logs : TokenOf[l] = t /\ KindOf[l] = "launch"
IsLaunch(l) == KindOf[l] = "launch"

(* logs the chain still has of a range of blocks, as a request returns them  *)
Between(a, b) == {d \in Deliveries : ~d.removed /\ d.log \notin gone
                                     /\ a <= blockOf[d.log] /\ blockOf[d.log] <= b}

(* "start": the first seed; "source": about to enter poll_source or          *)
(* wss_source_once; "first", "connect", "ready", "second", "live" as in      *)
(* wss_source_once; "poll" and "polling": between polls and within one.      *)
NoRange == lower' = 0 /\ latest' = 0
Subscribed == pc \in {"ready", "second", "live"}
Backfilling == pc \in {"first", "second"}

(* `connected': set by the subscription, before its backfill, and by a poll;  *)
(* the first poll may still be under way.                                     *)
Connected == Subscribed \/ pc \in {"poll", "polling"}

TypeOK ==
    /\ blockOf \in [Logs -> 1..MaxNow] /\ gone \subseteq Logs
    /\ radar \in [Tokens -> 0..now \cup {Unset}]
    /\ row \in [Logs -> [at : 0..now, seen : 0..now, removed : BOOLEAN] \cup {NoRow}]
    /\ {checkpoint, coverage} \subseteq 0..now \cup {Unset}
    /\ {watermark, seedAt, latest} \subseteq 0..now /\ lower \in 0..MaxNow + 1
    /\ pc \in {"down", "start", "source", "first", "connect", "ready", "second",
               "live", "poll", "polling"}
    /\ {pollPrimary, usePoll, supported, seeding} \subseteq BOOLEAN
    /\ times \in [1..MaxNow -> 0..now \cup {Unset}]
    /\ registry \in [Tokens -> {"none", "live", "removed"}]
    /\ \A t \in Tokens : registry[t] # "none" => row[LaunchOf(t)] # NoRow
    /\ queue \subseteq Deliveries /\ seeded \subseteq Tokens
    /\ UNION {tried, skipped, kept, revoked} \subseteq Logs
    /\ now \in 0..MaxNow /\ faults \in 0..MaxFaults

Init ==
    /\ blockOf \in [Logs -> 1..LastLog]
    /\ \A l \in Logs : blockOf[LaunchOf(TokenOf[l])] <= blockOf[l]
    /\ gone = {} /\ radar = [t \in Tokens |-> Unset] /\ now = 0
    /\ row = [l \in Logs |-> NoRow]
    /\ checkpoint = Unset /\ watermark = 0 /\ coverage = Unset /\ seedAt = 0
    /\ pc = "start" /\ pollPrimary \in BOOLEAN /\ usePoll = pollPrimary
    /\ supported = TRUE /\ times = [b \in 1..MaxNow |-> Unset]
    /\ registry = [t \in Tokens |-> "none"] /\ queue = {} /\ lower = 0 /\ latest = 0
    /\ seeding = FALSE /\ seeded = {}
    /\ tried = {} /\ skipped = {} /\ kept = {} /\ revoked = {} /\ faults = 0

Fault == faults < MaxFaults /\ faults' = faults + 1

------------------------------------------------------------------------------
(* the world *)

(* No delivery, request or pause between polls is bounded in time.           *)
Tick ==
    /\ now < MaxNow
    /\ now' = now + 1
    /\ queue' = IF Subscribed THEN queue \cup Between(now + 1, now + 1) ELSE queue
    /\ UNCHANGED <<chain, place, pc, usePoll, supported, lower, latest, batch, seeds,
                   skipped, faults>>

DaemonStores(t) ==
    LET l == LaunchOf(t) IN
    /\ radar[t] = Unset /\ blockOf[l] <= now /\ l \notin gone
    /\ radar' = [radar EXCEPT ![t] = now]
    /\ UNCHANGED <<blockOf, gone, pollPrimary, place, source, batch, seeds, skipped, now, faults>>

(* A subscription tells of it; a poll never does.  The daemon heard of a     *)
(* launch before.                                                            *)
Reorganise(l) ==
    /\ blockOf[l] < now /\ l \notin gone /\ Fault
    /\ IsLaunch(l) => radar[TokenOf[l]] < now
    /\ gone' = gone \cup {l}
    /\ queue' = IF Subscribed THEN queue \cup {[log |-> l, removed |-> TRUE]} ELSE queue
    /\ UNCHANGED <<blockOf, radar, pollPrimary, place, pc, usePoll, supported, lower, latest,
                   batch, seeds, skipped, now>>

------------------------------------------------------------------------------
(* process_batch and process_log *)

Blocks(B) == {blockOf[d.log] : d \in B}

LiveTimesBug(B) == [b \in 1..MaxNow |-> IF b \in Blocks(B) THEN now ELSE times[b]]

(* an unknown block is taken to be as old as its first log is seen           *)
LiveTimes(B) ==
    [b \in 1..MaxNow |-> IF b \in Blocks(B) /\ times[b] = Unset THEN now ELSE times[b]]

PrimedTimes(bs) ==
    [b \in 1..MaxNow |-> IF b \in bs /\ times[b] = Unset THEN b ELSE times[b]]

(* an identity that is stored must be the same, timestamp included           *)
Agrees(l, stamp) == row[l] = NoRow \/ row[l].at = stamp[blockOf[l]]

Registered(B, stamp) ==
    [t \in Tokens |->
        LET mine == {d \in B : d.log = LaunchOf(t) /\ Agrees(d.log, stamp)}
        IN  IF mine = {} THEN registry[t]
            ELSE IF \E d \in mine : d.removed THEN "removed" ELSE "live"]

(* launches first, then what belongs to the launches known                   *)
Accepted(B, stamp) ==
    {l \in {d.log : d \in B} :
        Agrees(l, stamp) /\ (IsLaunch(l) \/ Registered(B, stamp)[TokenOf[l]] = "live")}

(* The newest observation decides of `removed'.  A row's observations are in *)
(* order, except that a seed may come late: only launches keep the time.     *)
Observed(l) == IF IsLaunch(l) THEN now ELSE 0

Processed(B, stamp, mark) ==
    /\ times' = stamp
    /\ registry' = Registered(B, stamp)
    /\ row' = [l \in Logs |->
                 IF l \in Accepted(B, stamp)
                 THEN [at |-> stamp[blockOf[l]], seen |-> Observed(l),
                       removed |-> [log |-> l, removed |-> TRUE] \in B]
                 ELSE row[l]]
    /\ watermark' = Largest({watermark, mark} \cup
                            {stamp[blockOf[d.log]] : d \in {x \in B : KindOf[x.log] = "curve"}})
    /\ tried' = tried \cup {d.log : d \in B}
    /\ kept' = kept \cup {l \in Accepted(B, stamp) : ~IsLaunch(l)}
    /\ revoked' = revoked \cup {d.log : d \in {x \in B : x.removed /\ x.log \in kept}}

(* the order of a batch: launches first, then as the chain delivered them    *)
Before(d, e) ==
    \/ IsLaunch(d.log) /\ ~IsLaunch(e.log)
    \/ /\ IsLaunch(d.log) = IsLaunch(e.log)
       /\ \/ d.log = e.log /\ ~d.removed /\ e.removed
          \/ ~d.removed /\ ~e.removed /\ blockOf[d.log] < blockOf[e.log]

Begins(A, B) == A \subseteq B /\ \A d \in A, e \in B \ A : ~Before(e, d)

------------------------------------------------------------------------------
(* wss_source_once, backfill and stream_pons_logs_once *)

OnChain == {l \in Logs : blockOf[l] <= now}

Floor(last, window) == Max2(0, last - window + 1)

ResumesAfterBug(last, window, stored) == Max2(Floor(last, window), stored + 1)

ResumesAt(last, window, stored) == Max2(Floor(last, window), stored - Overlap)

(* what resuming at `from' gives up when it did not resume near the checkpoint *)
GivenUp(near, from) == IF near THEN {} ELSE {l \in Logs \ tried : blockOf[l] < from}

Opened == IF pc = "source" THEN "first" ELSE "second"
Returned == IF pc \in {"source", "first"} THEN "connect" ELSE "live"

CoverageKeptBug ==
    IF coverage = Unset /\ Returned = "live" THEN now ELSE coverage

(* coverage begins anew behind the second backfill of a connection           *)
CoverageStarts == IF Returned = "live" THEN now ELSE coverage

Connecting ==
    \/ pc = "source" /\ ~usePoll
    \/ pc = "ready"

StartBackfill ==
    /\ Connecting
    /\ supported
    /\ LET from == IF checkpoint = Unset THEN Floor(now, Window)
                   ELSE ResumesAt(now, Window, checkpoint)
       IN  /\ lower' = from /\ latest' = now
           /\ skipped' = skipped \cup GivenUp(checkpoint >= Floor(now, Window), from)
    /\ pc' = Opened
    /\ UNCHANGED <<chain, place, usePoll, supported, queue, batch, seeds, now, faults>>

Skips ==
    /\ watermark' = Max2(watermark, now)
    /\ skipped' = skipped \cup (OnChain \ tried)
    /\ pc' = Returned /\ coverage' = CoverageStarts /\ NoRange
    /\ UNCHANGED <<row, times, registry, tried, kept, revoked>>

(* history is known to be unavailable: the provider is not even asked        *)
SkipBackfill ==
    /\ Connecting
    /\ ~supported /\ Skips
    /\ UNCHANGED <<chain, checkpoint, usePoll, supported, queue, seeds, now, faults>>

Upper == Min2(latest, lower + Chunk - 1)

BackfillChunk ==
    /\ Backfilling /\ lower <= latest
    /\ LET B == Between(lower, Upper)
           stamp == PrimedTimes(Blocks(B) \cup ({Upper} \ {0}))
       IN  Processed(B, stamp, IF Upper = 0 THEN 0 ELSE stamp[Upper])
    /\ checkpoint' = Upper /\ lower' = Upper + 1
    /\ UNCHANGED <<chain, coverage, pc, usePoll, supported, queue, latest, seeds, skipped,
                   now, faults>>

BackfillUnsupported ==
    /\ Backfilling /\ lower <= latest /\ Fault
    /\ supported' = FALSE /\ Skips
    /\ checkpoint' = latest
    /\ UNCHANGED <<chain, usePoll, queue, seeds, now>>

BackfillEnds ==
    /\ Backfilling /\ lower > latest
    /\ pc' = Returned /\ coverage' = CoverageStarts /\ NoRange
    /\ UNCHANGED <<chain, checkpoint, usePoll, supported, queue, batch, seeds, skipped, now,
                   faults>>

Subscribe ==
    /\ pc = "connect"
    /\ pc' = "ready" /\ queue' = {}
    /\ UNCHANGED <<chain, place, usePoll, supported, lower, latest, batch, seeds, skipped,
                   now, faults>>

(* _recv_log_batch cuts the stream anywhere, within a block too; a log comes *)
(* before the removal of any log of a later block                            *)
Cut(B) ==
    /\ B # {} /\ B \subseteq queue
    /\ \A d \in B, e \in queue \ B :
        /\ ~e.removed => blockOf[d.log] <= blockOf[e.log]
        /\ e.log = d.log => e.removed

LiveBatch ==
    /\ pc = "live"
    /\ \E B \in SUBSET queue :
        /\ Cut(B)
        /\ Processed(B, LiveTimes(B), 0)
        /\ queue' = queue \ B
        /\ checkpoint' = Max2(Max2(checkpoint, 0), Largest(Blocks(B)))
    /\ UNCHANGED <<chain, coverage, pc, usePoll, supported, lower, latest, seeds, skipped,
                   now, faults>>

------------------------------------------------------------------------------
(* poll_source and poll_once *)

StartPolling ==
    /\ pc = "source" /\ usePoll
    /\ pc' = "poll" /\ coverage' = now
    /\ UNCHANGED <<chain, checkpoint, usePoll, supported, queue, lower, latest, batch, seeds,
                   skipped, now, faults>>

PollReads ==
    /\ pc = "poll"
    /\ \E last \in Max2(0, now - Behind)..now :
        LET stored == IF checkpoint \in {Unset, 0} THEN last ELSE checkpoint
            from == ResumesAt(last, PollWindow, Min2(last, stored))
            near == checkpoint > 0 /\ checkpoint >= Floor(last, PollWindow)
        IN  /\ latest' = last /\ lower' = from
            /\ skipped' = skipped \cup GivenUp(near, from)
    /\ pc' = "polling"
    /\ UNCHANGED <<chain, place, usePoll, supported, queue, batch, seeds, now, faults>>

PollStores ==
    /\ pc = "polling"
    /\ LET B == Between(lower, latest) IN Processed(B, LiveTimes(B), now)
    /\ checkpoint' = latest /\ pc' = "poll" /\ NoRange
    /\ UNCHANGED <<chain, coverage, usePoll, supported, queue, seeds, skipped, now, faults>>

------------------------------------------------------------------------------
(* source_loop: an exception ends the attempt, and polling for good *)

SourceFails ==
    /\ pc \notin {"down", "start"} /\ Fault
    /\ pc' = "source" /\ usePoll' = FALSE /\ queue' = {} /\ NoRange
    /\ UNCHANGED <<chain, place, supported, batch, seeds, skipped, now>>

InHand ==
    CASE Backfilling -> {Between(lower, Upper)}
      [] pc = "polling" -> {Between(lower, latest)}
      [] pc = "live" -> {B \in SUBSET queue : Cut(B)}
      [] OTHER -> {}

(* a database error between two logs of a batch; what was stored stays       *)
BatchBreaks ==
    /\ Fault
    /\ \E B \in InHand : \E A \in (SUBSET B) \ {B} :
        /\ Begins(A, B)
        /\ Processed(A, IF Backfilling THEN PrimedTimes(Blocks(B)) ELSE LiveTimes(B), 0)
    /\ pc' = "source" /\ usePoll' = FALSE /\ queue' = {} /\ NoRange
    /\ UNCHANGED <<chain, place, supported, seeds, skipped, now>>

Crash ==
    /\ pc # "down" /\ Fault
    /\ pc' = "down" /\ queue' = {} /\ supported' = TRUE /\ usePoll' = pollPrimary
    /\ times' = [b \in 1..MaxNow |-> Unset] /\ registry' = [t \in Tokens |-> "none"]
    /\ kept' = {} /\ revoked' = {} /\ seeding' = FALSE /\ seeded' = {} /\ NoRange
    /\ UNCHANGED <<chain, place, row, watermark, tried, seedAt, skipped, now>>

Recent(l) == row[l] # NoRow /\ row[l].at >= now - Retention

Restart ==
    /\ pc = "down"
    /\ pc' = "start"
    /\ registry' = [t \in Tokens |->
                      IF Recent(LaunchOf(t)) /\ ~row[LaunchOf(t)].removed THEN "live" ELSE "none"]
    /\ UNCHANGED <<chain, place, usePoll, supported, queue, lower, latest, row, watermark,
                   times, tried, kept, revoked, seeds, skipped, now, faults>>

------------------------------------------------------------------------------
(* seed_from_radar: at the start, then beside the source *)

SeedFrom == Max2(0, seedAt - SeedOverlap)

Seeds == {t \in Tokens : radar[t] # Unset /\ radar[t] >= SeedFrom}

(* the daemon dates every launch by its block: a provisional row is corrected *)
SeededRow(t) ==
    LET old == row[LaunchOf(t)]
    IN  [at |-> blockOf[LaunchOf(t)], seen |-> Max2(old.seen, radar[t]),
         removed |-> old.removed /\ radar[t] < old.seen]

Sowed(ts) == [l \in Logs |-> IF IsLaunch(l) /\ TokenOf[l] \in ts THEN SeededRow(TokenOf[l])
                             ELSE row[l]]

(* the thread stores and commits, and the loop has not heard of it yet       *)
SeedStores ==
    /\ pc # "down" /\ ~seeding
    /\ seeding' = TRUE /\ seeded' = Seeds
    /\ row' = Sowed(Seeds)
    /\ seedAt' = Largest({seedAt} \cup {radar[t] : t \in Seeds})
    /\ UNCHANGED <<chain, place, source, watermark, times, registry, tried, kept, revoked,
                   skipped, now, faults>>

(* _remember_launch, then _prune_registry                                    *)
SeedRemembers ==
    /\ seeding
    /\ seeding' = FALSE /\ seeded' = {}
    /\ registry' = [t \in Tokens |->
                      IF row[LaunchOf(t)] # NoRow /\ ~Recent(LaunchOf(t)) THEN "none"
                      ELSE IF t \in seeded THEN "live" ELSE registry[t]]
    /\ pc' = IF pc = "start" THEN "source" ELSE pc
    /\ UNCHANGED <<chain, place, usePoll, supported, queue, lower, latest, row, watermark,
                   times, tried, kept, revoked, seedAt, skipped, now, faults>>

(* some rows are stored, the checkpoint is not; at the start it is fatal     *)
SeedFails ==
    /\ pc # "down" /\ ~seeding /\ Fault
    /\ \E some \in SUBSET Seeds : row' = Sowed(some)
    /\ pc' = IF pc = "start" THEN "down" ELSE pc
    /\ UNCHANGED <<chain, place, usePoll, supported, queue, lower, latest, watermark, times,
                   registry, tried, kept, revoked, seeds, skipped, now>>

Next ==
    \/ Tick \/ (\E t \in Tokens : DaemonStores(t)) \/ (\E l \in Logs : Reorganise(l))
    \/ StartBackfill \/ SkipBackfill \/ BackfillChunk \/ BackfillUnsupported \/ BackfillEnds
    \/ Subscribe \/ LiveBatch
    \/ StartPolling \/ PollReads \/ PollStores
    \/ SourceFails \/ BatchBreaks \/ Crash \/ Restart
    \/ SeedStores \/ SeedRemembers \/ SeedFails

Spec == Init /\ [][Next]_vars

------------------------------------------------------------------------------
(***************************************************************************)
(* checkpoint, from which the next connection or poll resumes: every log of *)
(* a block below it went through process_log, was counted as truncated or   *)
(* unavailable, or is no longer on the chain.                               *)
(***************************************************************************)
CheckpointSound ==
    \A l \in Logs : blockOf[l] < checkpoint => l \in tried \cup skipped \cup gone

(* On its way to process_log: in the stream, or above the last block polled. *)
UnderWay(l) ==
    \/ [log |-> l, removed |-> FALSE] \in queue
    \/ pc \in {"poll", "polling"} /\ blockOf[l] > checkpoint

(***************************************************************************)
(* What _market_rows of the notifier relies on while the collector reports  *)
(* that it is connected: from coverage on, up to the watermark, every log   *)
(* went through process_log, which stores or rejects it, or is on its way   *)
(* there, though failures, truncation, late polls and endpoints without     *)
(* history come between.  A gap that was passed over is inside only where   *)
(* the code lets it in: while polling, which keeps its coverage, and        *)
(* between a subscription and the end of the backfill behind it, where the  *)
(* coverage starts anew.                                                    *)
(***************************************************************************)
EvidenceComplete ==
    Connected /\ coverage # Unset =>
        \A l \in Logs \ gone :
            coverage < blockOf[l] /\ blockOf[l] <= watermark
            => l \in tried \/ UnderWay(l) \/ (l \in skipped /\ pc # "live")

(***************************************************************************)
(* A trade that this process stored and then heard to be removed no longer  *)
(* counts, or its launch does not: the timestamp in its identity stays the  *)
(* same while the process lives, whichever way its block came.              *)
(***************************************************************************)
ReorgHonoured ==
    \A l \in revoked :
        LET origin == LaunchOf(TokenOf[l])
        IN  row[l].removed \/ row[origin].removed \/ ~Recent(origin)
==============================================================================
