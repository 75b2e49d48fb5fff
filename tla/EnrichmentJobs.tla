---------------------------- MODULE EnrichmentJobs ----------------------------
(***************************************************************************)
(* The staged enrichment of candidates (daemon.py enrichment_loop and what  *)
(* it calls, storage.py *_enrichment_job): a discovered event becomes a     *)
(* persistent job that passes a size check, a DEX market check and a        *)
(* security check, or is retried, blocked, coalesced or expired, and ends   *)
(* in a decision that may alert.                                            *)
(*                                                                         *)
(* One asyncio task works on one job at a time.  Other tasks of the process *)
(* (discovery) run only while it awaits a provider, so `pc' names the await *)
(* it is at; "sized", "decided" and "enqueued" are points between two       *)
(* database commits of one uninterrupted run, where only a crash can come   *)
(* between.  Claiming a job and working on it up to the first await is one  *)
(* action: a crash between the claim and the next commit leaves, once the   *)
(* restart has reset the job, the tables as if it had not been claimed.     *)
(*                                                                         *)
(* Modelled configuration: native RPC in primary mode, GMGN configured.     *)
(* The call budgets are opened and closed by the environment: `open' names  *)
(* those that are available when a job is claimed.  Two deferrals of the    *)
(* code are left out because the claim has just seen their budget available *)
(* and only this loop takes from it: initial_probe/dex_recheck in           *)
(* process_market_stage, and goplus in process_security_stage.              *)
(***************************************************************************)
EXTENDS Integers, FiniteSets

CONSTANTS Events,       \* radar events, by identity
          Tokens,
          TokenOf,      \* the token an event is about
          SourceOf,     \* "native", "trending" (GMGN, EVM) or "solana" (GMGN)
          AgeOf,        \* age of the token when its event arrives
          Activation,   \* unified_activation_ms
          Scores,       \* priority scores met
          LowScore,     \* 35: least score admitted under pressure
          MidScore,     \* 60: least score admitted whatever the signal
          Pressure,     \* pending jobs that count as pressure (100)
          Cohort,       \* priority_cohort_ms
          SizeChecks,   \* size_recheck_ms, ages at which the size is checked
          MidChecks,    \* those from 10 to 20 minutes
          DexDelay,     \* enrichment_delay_ms
          MinRetry,     \* enrichment_min_retry_ms
          Defer,        \* 30 seconds
          MaxPriceAge,  \* max_price_age_ms
          MaxSourceAge, \* max_source_age_ms
          MaxAge,       \* max_enrichment_age_ms
          LastArrival,  \* bound: events arrive up to this instant
          MaxNow,       \* bound of the clock
          MaxCrashes    \* bound of the crashes explored

ASSUME JobsAssumption ==
    /\ TokenOf \in [Events -> Tokens]
    /\ SourceOf \in [Events -> {"native", "trending", "solana"}]
    /\ AgeOf \in [Events -> Nat]
    /\ Scores \subseteq Nat /\ {LowScore, MidScore, Pressure} \subseteq Nat
    /\ Cohort \in Nat \ {0}
    /\ SizeChecks \subseteq Nat /\ SizeChecks # {} /\ MidChecks \subseteq SizeChecks
    /\ DexDelay \in [1..3 -> Nat] /\ MinRetry \in [1..3 -> Nat]
    /\ {Activation, Defer, MaxPriceAge, MaxSourceAge, MaxAge} \subseteq Nat
    /\ {LastArrival, MaxNow, MaxCrashes} \subseteq Nat

None == "none"
NoMarket == -1
Unset == -1
MaxDex == 3              \* len(enrichment_delay_ms); also the table's CHECK

VARIABLES
    (* the database *)
    events,     \* radar_events stored
    job,        \* enrichment_jobs, by event
    size,       \* provider_observations 'gmgn_size': what the rows of an event say
    trend,      \* instant of the last 'gmgn_trending' observation, or Unset
    claims,     \* telegram_delivery_claims
    alert,      \* telegram_outbox row of an event: "strong", "sample" or None
    (* the memory of enrichment_loop *)
    pc,         \* the await or commit it is at, "idle" or, with the process, "down"
    cur,        \* the event of the job it works on
    start,      \* now_ms of a size check
    answer,     \* the size answer stored, or the decision taken
    dexOpen,    \* the DEX budget was available at the claim of a size check
    (* environment *)
    now, crashes

tables  == <<events, job, size, trend, claims, alert>>
memory  == <<pc, cur, start, answer, dexOpen>>
vars    == <<tables, memory, now, crashes>>

Stages == {"dex_probe", "dex_recheck", "security_check"}
Awaits == {"size", "dex", "evidence", "gate", "goplus"}
Commits == {"sized", "decided", "enqueued"}
(* What a decision leads to: an alert, a sample, or neither (a medium, weak  *)
(* or suppressed delivery without a sample).                                *)
Deliveries == {"strong", "sample", "other"}

NoJob == [state |-> None, stage |-> "dex_probe", score |-> 0, born |-> 0, due |-> 0,
          expires |-> 0, dex |-> 0, market |-> NoMarket, result |-> None]

(* result_code, by kind; each action names the codes it stands for.         *)
Results == {None, "COALESCED", "EXPIRED", "FAILED", "BLOCKED", "STATE_MISSING",
            "INTERNAL_ERROR", "FINAL_STRONG", "FINAL_OTHER"}

Jobs == [state   : {None, "pending", "processing", "done"},
         stage   : Stages,
         score   : Nat,
         born    : Int,         \* token_created_at_ms, the anchor of the delays
         due     : Int,
         expires : Int,
         dex     : 0..MaxDex,   \* dex_attempts
         market  : Int,         \* when the stored market was observed, or NoMarket
         result  : Results]

TypeOK ==
    /\ events \subseteq Events
    /\ job \in [Events -> Jobs]
    /\ size \in [Events -> {None, "failed", "blocked", "pass"}]
    /\ trend \in [Events -> Int]
    /\ claims \subseteq {"strong", "sample"} \X Tokens
    /\ alert \in [Events -> {None, "strong", "sample"}]
    /\ pc \in {"idle", "down"} \cup Awaits \cup Commits
    /\ cur \in Events \cup {None}
    /\ start \in Int
    /\ answer \in {None, "error", "blocked", "pass"} \cup Deliveries
    /\ dexOpen \in BOOLEAN
    /\ now \in Nat
    /\ crashes \in Nat

Init ==
    /\ events = {}
    /\ job = [e \in Events |-> NoJob]
    /\ size = [e \in Events |-> None]
    /\ trend = [e \in Events |-> Unset]
    /\ claims = {}
    /\ alert = [e \in Events |-> None]
    /\ pc = "idle" /\ cur = None /\ start = 0 /\ answer = None /\ dexOpen = FALSE
    /\ now = 0 /\ crashes = 0

Later(a, b) == IF a > b THEN a ELSE b
Growth(e) == SourceOf[e] # "native"      \* event.source == GMGN_TRENDING_SOURCE
Up == pc # "down"
Yielding == pc = "idle" \/ pc \in Awaits  \* other tasks may run

------------------------------------------------------------------------------
(* Scheduling: process_batch, schedule_candidate, schedule_enrichment_job.  *)

UnderPressure == Cardinality({e \in Events : job[e].state = "pending"}) >= Pressure

Admitted(e, score, signal) ==
    UnderPressure => /\ score >= LowScore
                     /\ score >= MidScore \/ Growth(e) \/ signal

(* the first due date, rounded up to the cohort's grid *)
FirstDue(e, born) ==
    LET earliest == IF Growth(e) THEN now
                    ELSE Later(now, born + CHOOSE c \in SizeChecks :
                                                \A d \in SizeChecks : c <= d)
    IN  ((earliest + Cohort - 1) \div Cohort) * Cohort

FirstExpiry(e, born) == IF Growth(e) THEN now + MaxAge ELSE born + MaxAge

NewJob(e, score) ==
    LET born == now - AgeOf[e]
    IN  [NoJob EXCEPT !.state = "pending", !.score = score, !.born = born,
                      !.due = FirstDue(e, born), !.expires = FirstExpiry(e, born)]

ActivePendingBug(token) ==
    {e \in Events : job[e].state = "pending" /\ TokenOf[e] = token}

Active(token) ==
    {e \in Events : job[e].state \in {"pending", "processing"} /\ TokenOf[e] = token}

(* the active job of the token the code looks at: the one processing, else  *)
(* one of highest score                                                     *)
FirstActive(token) ==
    {e \in Active(token) :
        \A f \in Active(token) :
            IF job[e].state = job[f].state THEN job[e].score >= job[f].score
                                           ELSE job[e].state = "processing"}

(* A finished row keeps its other columns in the table; nothing reads them    *)
(* again, and the model resets them.                                        *)
Finished(J, e, code) ==
    [J EXCEPT ![e] = [NoJob EXCEPT !.state = "done", !.result = code]]

(* schedule_enrichment_job replaces a job only while it waits *)
CoalescesAnyBug(a, score) == score > job[a].score

Coalesces(a, score) == job[a].state = "pending" /\ score > job[a].score

(* What the jobs table may be after schedule_candidate(e). *)
Scheduled(e, score, signal) ==
    LET new == NewJob(e, score)
    IN  IF ~ Admitted(e, score, signal) \/ new.expires <= new.due THEN {job}
        ELSE IF Active(TokenOf[e]) = {} THEN {[job EXCEPT ![e] = new]}
        ELSE {IF Coalesces(a, score)
              THEN [Finished(job, a, "COALESCED") EXCEPT ![e] = new]
              ELSE job : a \in FirstActive(TokenOf[e])}

(* A GMGN poll stores snapshots of everything it lists, of known events too. *)
Snapshot(e, verdict) ==
    /\ trend' = [trend EXCEPT ![e] = now]
    /\ size' = [size EXCEPT ![e] = verdict]

Discover(e) ==
    /\ Yielding /\ e \notin events /\ now <= LastArrival
    /\ events' = events \cup {e}
    /\ \E score \in Scores, signal \in BOOLEAN : job' \in Scheduled(e, score, signal)
    /\ IF Growth(e) THEN \E verdict \in {"blocked", "pass"} : Snapshot(e, verdict)
                    ELSE UNCHANGED <<size, trend>>
    /\ UNCHANGED <<claims, alert, memory, now, crashes>>

(* A backfilled, stale or ineligible event is stored and never scheduled. *)
StoreOnly(e) ==
    /\ Yielding /\ e \notin events /\ now <= LastArrival
    /\ events' = events \cup {e}
    /\ UNCHANGED <<job, size, trend, claims, alert, memory, now, crashes>>

RefreshSnapshot(e) ==
    /\ Yielding /\ e \in events /\ Growth(e) /\ now <= LastArrival
    /\ \E verdict \in {"blocked", "pass"} : Snapshot(e, verdict)
    /\ UNCHANGED <<events, job, claims, alert, memory, now, crashes>>

------------------------------------------------------------------------------
(* Ends of a round, on the table J a claim or an answer left.               *)

Rescheduled(J, e, stage, due, dex, market) ==
    IF due >= J[e].expires THEN Finished(J, e, "EXPIRED")
    ELSE [J EXCEPT ![e].state = "pending", ![e].stage = stage, ![e].due = due,
                   ![e].dex = dex, ![e].market = market]

(* retry_market; the delays are indexed from 0 in the code *)
RetryCountsAgainBug(J, e, attempts, error) ==
    IF attempts >= MaxDex THEN Finished(J, e, error)
    ELSE Rescheduled(J, e, "dex_recheck",
                     Later(now + MinRetry[attempts + 1], J[e].born + DexDelay[attempts + 1]),
                     attempts + 1, NoMarket)

RetryMarket(J, e, attempts, error) ==
    IF attempts >= MaxDex THEN Finished(J, e, error)
    ELSE Rescheduled(J, e, "dex_recheck",
                     Later(now + MinRetry[attempts + 1], J[e].born + DexDelay[attempts + 1]),
                     attempts, NoMarket)

(* reschedule_size_check with the offsets next_size_check_ms keeps *)
RecheckSkipsSizeBug(J, e, offsets, from, code) ==
    LET later == {c \in offsets : J[e].born + c > from}
        first == CHOOSE c \in later : \A d \in later : c <= d
    IN  IF later = {} THEN Finished(J, e, code)
        ELSE Rescheduled(J, e, "dex_recheck", J[e].born + first, J[e].dex, NoMarket)

RecheckSize(J, e, offsets, from, code) ==
    LET later == {c \in offsets : J[e].born + c > from}
        first == CHOOSE c \in later : \A d \in later : c <= d
    IN  IF later = {} THEN Finished(J, e, code)
        ELSE Rescheduled(J, e, "dex_probe", J[e].born + first, J[e].dex, NoMarket)

------------------------------------------------------------------------------
(* claim_due_enrichment: sweep what expired, then take the first claimable.  *)

SweptNothingBug == job

Swept ==
    [e \in Events |-> IF job[e].state = "pending" /\ job[e].expires <= now
                      THEN [NoJob EXCEPT !.state = "done", !.result = "EXPIRED"]
                      ELSE job[e]]

Budgets == {"initial", "size", "recheck", "dex", "goplus"}

Claimable(open) ==
    {e \in Events :
        /\ job[e].state = "pending" /\ job[e].due <= now /\ job[e].expires > now
        /\ CASE job[e].stage = "security_check" -> "goplus" \in open
             [] job[e].stage = "dex_recheck"    -> {"dex", "recheck"} \subseteq open
             [] job[e].stage = "dex_probe"      ->
                    \/ size[e] # None /\ "size" \in open
                    \/ {"dex", "initial"} \subseteq open /\ SourceOf[e] # "solana"}

Rank(e) == CASE job[e].stage = "security_check" -> 0
             [] job[e].stage = "dex_recheck"    -> 1
             [] job[e].stage = "dex_probe"      -> 2

Before(e, f) ==
    \/ Rank(e) < Rank(f)
    \/ Rank(e) = Rank(f) /\ job[e].score > job[f].score
    \/ Rank(e) = Rank(f) /\ job[e].score = job[f].score /\ job[e].due < job[f].due

Claims(e, open) ==
    /\ pc = "idle"
    /\ e \in Claimable(open)
    /\ \A f \in Claimable(open) : ~ Before(f, e)

Processing(e) == [Swept EXCEPT ![e].state = "processing"]

(* The job is decided on in the same breath and the loop is idle again. *)
Settle(J) == /\ job' = J
             /\ UNCHANGED <<events, size, trend, claims, alert, memory, now, crashes>>

(* The loop awaits a provider about e. *)
Await(e, point, open) ==
    /\ job' = Processing(e)
    /\ pc' = point /\ cur' = e /\ answer' = None
    /\ start' = IF point = "size" THEN now ELSE 0
    /\ dexOpen' = (point = "size" /\ "dex" \in open)
    /\ UNCHANGED <<events, size, trend, claims, alert, now, crashes>>

SizedOk(e) == size[e] \in {"blocked", "pass"}   \* gmgn_size_observation is not None

(* No job is due, or no budget open for one: only the sweep happens. *)
PollFindsNothing ==
    /\ pc = "idle"
    /\ \E open \in SUBSET Budgets : Claimable(open) = {}
    /\ Settle(Swept)

(* process_market_stage up to its first await. *)
TooOld(e) == job[e].born + AgeOf[e] < Activation   \* received before it

MarketTooOld(e) ==
    /\ job[e].stage # "security_check" /\ TooOld(e)
    /\ \E open \in SUBSET Budgets : Claims(e, open)
    /\ Settle(Finished(Processing(e), e, "BLOCKED"))       \* UNIFIED_PRE_ACTIVATION

(* Claimed on the initial budget although its size was tried before. *)
SizeRecheckDeferred(e) ==
    /\ job[e].stage = "dex_probe" /\ ~ TooOld(e) /\ size[e] # None
    /\ \E open \in SUBSET (Budgets \ {"size"}) : Claims(e, open)
    /\ Settle(Rescheduled(Processing(e), e, "dex_probe", now + Defer, job[e].dex, NoMarket))

Probes(e, open) ==
    /\ job[e].stage = "dex_probe" /\ ~ TooOld(e)
    /\ Claims(e, open)
    /\ size[e] # None => "size" \in open

ProbeAsksSize(e) ==
    /\ ~ Growth(e)
    /\ \E open \in SUBSET Budgets : Probes(e, open) /\ Await(e, "size", open)

ProbeBlocked(e) ==
    /\ Growth(e) /\ size[e] # "pass"
    /\ \E open \in SUBSET Budgets : Probes(e, open)
    /\ Settle(Finished(Processing(e), e, "BLOCKED"))

DexDeferred(J, e, from) ==
    Rescheduled(J, e, "dex_recheck", from + Defer, J[e].dex, NoMarket)

ProbeAsksDex(e) ==
    /\ Growth(e) /\ size[e] = "pass"
    /\ \E open \in SUBSET Budgets :
        /\ Probes(e, open)
        /\ IF "dex" \in open THEN Await(e, "dex", open)
                             ELSE Settle(DexDeferred(Processing(e), e, now))

(* The size is known by then: GMGN_SIZE_STATE_MISSING never happens, which   *)
(* StagesAreEarned below says.                                              *)
RecheckAsksDex(e) ==
    /\ job[e].stage = "dex_recheck" /\ ~ TooOld(e)
    /\ \E open \in SUBSET Budgets :
        /\ Claims(e, open)
        /\ IF SizedOk(e) THEN Await(e, "dex", open)
           ELSE Settle(Finished(Processing(e), e, "STATE_MISSING"))

(* process_security_stage up to its first await; the market is there by     *)
(* then (StagesAreEarned again).                                            *)
Secures(e, open) == job[e].stage = "security_check" /\ Claims(e, open)
Stale(e) == now - job[e].market > MaxPriceAge
Fresh(e) == job[e].market # NoMarket /\ ~ Stale(e)

SecurityFindsStale(e) ==
    /\ ~ Fresh(e)
    /\ \E open \in SUBSET Budgets : Secures(e, open)
    /\ Settle(IF job[e].market = NoMarket
              THEN Finished(Processing(e), e, "STATE_MISSING")
              ELSE RetryMarket(Processing(e), e, job[e].dex, "FAILED"))

(* unified_main_market: the market has a cap and the event a creator, or it  *)
(* ends here; a pre-activation event was already stopped at its size check. *)
SecurityIncomplete(e) ==
    /\ Fresh(e) /\ ~ Growth(e)
    /\ \E open \in SUBSET Budgets : Secures(e, open)
    /\ Settle(Finished(Processing(e), e, "FAILED"))

SecurityAsksEvidence(e) ==
    /\ Fresh(e) /\ ~ Growth(e)
    /\ \E open \in SUBSET Budgets : Secures(e, open) /\ Await(e, "evidence", open)

(* gmgn_discovery_market judges the last snapshot, without an await *)
TrendUsable(e) == trend[e] # Unset /\ now - trend[e] <= MaxSourceAge

GrowthBlocked(e) ==
    /\ Fresh(e) /\ Growth(e)
    /\ \E open \in SUBSET Budgets : Secures(e, open)
    /\ Settle(Finished(Processing(e), e, "BLOCKED"))

GrowthAsksGoplus(e) ==
    /\ Fresh(e) /\ SourceOf[e] = "trending" /\ TrendUsable(e)
    /\ \E open \in SUBSET Budgets : Secures(e, open) /\ Await(e, "goplus", open)

(* A decision of assess_risk and evaluate: a stale price is never strong.   *)
CanDecide(J, e, delivery) ==
    /\ delivery \in Deliveries
    /\ delivery = "strong" => now - J[e].market <= MaxPriceAge

Decides(J, e) ==
    /\ job' = J
    /\ pc' = "decided" /\ cur' = e /\ start' = 0 /\ dexOpen' = FALSE
    /\ \E delivery \in Deliveries : CanDecide(J, e, delivery) /\ answer' = delivery
    /\ UNCHANGED <<events, size, trend, claims, alert, now, crashes>>

(* complete_gmgn_solana_security: the snapshot is the security evidence *)
SolanaDecides(e) ==
    /\ Fresh(e) /\ SourceOf[e] = "solana" /\ TrendUsable(e)
    /\ \E open \in SUBSET Budgets : Secures(e, open)
    /\ Decides(Processing(e), e)

------------------------------------------------------------------------------
(* Answers of the providers, each up to the next await or to the end.       *)

Idle == pc' = "idle" /\ cur' = None /\ start' = 0 /\ answer' = None /\ dexOpen' = FALSE

(* The round ends with the job's table J. *)
Ends(J) == /\ job' = J /\ Idle
           /\ UNCHANGED <<events, size, trend, claims, alert, now, crashes>>

Goes(point) == /\ pc' = point /\ answer' = None
               /\ UNCHANGED <<cur, start, dexOpen>>

(* gmgn_size_prefilter: the answer is stored as an observation first; a      *)
(* failed attempt leaves what an earlier one found.                         *)
SizeAnswered ==
    /\ pc = "size"
    /\ \E a \in {"error", "blocked", "pass"} :
        /\ answer' = a
        /\ size' = [size EXCEPT ![cur] =
                        IF a \in {"blocked", "pass"} THEN a
                        ELSE IF @ = None THEN "failed" ELSE @]
    /\ pc' = "sized"
    /\ UNCHANGED <<events, job, trend, claims, alert, cur, start, dexOpen, now, crashes>>

(* the offsets next_size_check_ms keeps: a very small token is not checked   *)
(* again, a small one only from 10 to 20 minutes                            *)
Offsets(a) == IF a = "blocked" THEN {SizeChecks, MidChecks, {}} ELSE {SizeChecks}

(* GMGN_SIZE_ERROR, GMGN_SIZE_UNAVAILABLE, MARKET_SIZE_BLOCKED               *)
SizeCode(a) == IF a = "blocked" THEN "BLOCKED" ELSE "FAILED"

SizeRechecked ==
    /\ pc = "sized" /\ answer # "pass"
    /\ \E offsets \in Offsets(answer) :
        Ends(RecheckSize(job, cur, offsets, start, SizeCode(answer)))

(* the DEX budget is taken after the await: it may have opened meanwhile     *)
SizePassed ==
    /\ pc = "sized" /\ answer = "pass"
    /\ \/ /\ pc' = "dex" /\ answer' = None /\ start' = 0 /\ dexOpen' = FALSE
          /\ UNCHANGED <<tables, cur, now, crashes>>
       \/ /\ ~ dexOpen
          /\ Ends(DexDeferred(job, cur, start))

(* process_market_stage after token_market: DEX_ERROR, DEX_UNAVAILABLE or    *)
(* DEX_MARKET_INCOMPLETE                                                    *)
DexFailed ==
    /\ pc = "dex"
    /\ Ends(RetryMarket(job, cur, job[cur].dex + 1, "FAILED"))

DexAnswered ==
    /\ pc = "dex"
    /\ LET attempts == job[cur].dex + 1
           mature   == job[cur].born + DexDelay[2]
       IN  Ends(IF attempts = 1 /\ now < mature
                THEN Rescheduled(job, cur, "dex_recheck", mature, attempts, now)
                ELSE Rescheduled(job, cur, "security_check", now, attempts, now))

(* unified_main_market after the RPC calls *)
EvidenceFailed ==
    /\ pc = "evidence"
    /\ Ends(Finished(job, cur, "FAILED"))

EvidenceBlocked ==
    /\ pc \in {"evidence", "gate"}
    /\ Ends(Finished(job, cur, "BLOCKED"))

(* gmgn_gate asks GMGN, unless its budget is spent: then it reports no       *)
(* reason to block, as it does when GMGN fails or has no data.              *)
EvidencePassed ==
    /\ pc = "evidence"
    /\ Goes("gate") \/ Goes("goplus")
    /\ UNCHANGED <<tables, now, crashes>>

GatePassed ==
    /\ pc = "gate"
    /\ Goes("goplus")
    /\ UNCHANGED <<tables, now, crashes>>

(* complete_security: GOPLUS_UNAVAILABLE or GOPLUS_ERROR *)
GoplusFailed ==
    /\ pc = "goplus"
    /\ Ends(Finished(job, cur, "FAILED"))

(* finalize_enrichment: the decision is stored, then the alert is enqueued,  *)
(* then the job is finished, each in a transaction of its own.              *)
GoplusAnswered ==
    /\ pc = "goplus"
    /\ Decides(job, cur)

Wants == IF answer \in {"strong", "sample"} THEN answer ELSE None
ClaimFreeAnyKindBug == \A k \in {"strong", "sample"} : <<k, TokenOf[cur]>> \notin claims

ClaimFreeByEventBug == alert[cur] = None

ClaimFree == <<Wants, TokenOf[cur]>> \notin claims

(* enqueue_telegram, enqueue_observation_sample *)
Enqueued ==
    /\ pc = "decided" /\ Wants # None /\ ClaimFree /\ alert[cur] = None
    /\ claims' = claims \cup {<<Wants, TokenOf[cur]>>}
    /\ alert' = [alert EXCEPT ![cur] = Wants]
    /\ pc' = "enqueued"
    /\ UNCHANGED <<events, job, size, trend, cur, start, answer, dexOpen, now, crashes>>

(* deduplicated, rate limited (a sample), or no alert wanted *)
NotEnqueued ==
    /\ pc = "decided"
    /\ Wants = "strong" => ~ ClaimFree
    /\ pc' = "enqueued"
    /\ UNCHANGED <<tables, cur, start, answer, dexOpen, now, crashes>>

(* the event already has a row: the INSERT fails, the claim is rolled back  *)
EnqueueRaises ==
    /\ pc = "decided" /\ Wants # None /\ ClaimFree /\ alert[cur] # None
    /\ Ends(Finished(job, cur, "INTERNAL_ERROR"))

JobFinished ==
    /\ pc = "enqueued"
    /\ Ends(Finished(job, cur, IF answer = "strong" THEN "FINAL_STRONG" ELSE "FINAL_OTHER"))

(* an answer the code does not expect, or a database error between two       *)
(* commits: enrichment_loop's handler                                       *)
Raises ==
    /\ pc \in Awaits \cup Commits
    /\ Ends(Finished(job, cur, "INTERNAL_ERROR"))

------------------------------------------------------------------------------
(* Time passes while the process waits or is down; crashes come anywhere,   *)
(* the one between the job and the snapshot of a GMGN event included.       *)

Tick ==
    /\ Yielding \/ pc = "down"
    /\ now < MaxNow
    /\ now' = now + 1
    /\ UNCHANGED <<tables, memory, crashes>>

Dies == /\ crashes < MaxCrashes /\ crashes' = crashes + 1
        /\ pc' = "down" /\ cur' = None /\ start' = 0 /\ answer' = None /\ dexOpen' = FALSE

Crash ==
    /\ Up /\ Dies
    /\ UNCHANGED <<tables, now>>

DiscoverCrash(e) ==
    /\ Yielding /\ e \notin events /\ now <= LastArrival
    /\ events' = events \cup {e}
    /\ \E score \in Scores, signal \in BOOLEAN : job' \in Scheduled(e, score, signal)
    /\ Dies
    /\ UNCHANGED <<size, trend, claims, alert, now>>

(* initialize(): a job that was being processed becomes pending again *)
Interrupted(e) == job[e].state = "processing"

Restart ==
    /\ pc = "down"
    /\ job' = [e \in Events |-> IF Interrupted(e) THEN [job[e] EXCEPT !.state = "pending"]
                                                 ELSE job[e]]
    /\ pc' = "idle"
    /\ UNCHANGED <<events, size, trend, claims, alert, cur, start, answer, dexOpen,
                   now, crashes>>

------------------------------------------------------------------------------
Discovery ==
    \E e \in Events : Discover(e) \/ StoreOnly(e) \/ RefreshSnapshot(e) \/ DiscoverCrash(e)

ClaimJob(e) ==
    \/ MarketTooOld(e) \/ SizeRecheckDeferred(e) \/ ProbeAsksSize(e) \/ ProbeBlocked(e)
    \/ ProbeAsksDex(e) \/ RecheckAsksDex(e) \/ SecurityFindsStale(e)
    \/ SecurityIncomplete(e) \/ SecurityAsksEvidence(e)
    \/ GrowthBlocked(e) \/ GrowthAsksGoplus(e) \/ SolanaDecides(e)

Round ==
    \/ SizeAnswered \/ SizeRechecked \/ SizePassed
    \/ DexFailed \/ DexAnswered
    \/ EvidenceFailed \/ EvidenceBlocked \/ EvidencePassed \/ GatePassed
    \/ GoplusFailed \/ GoplusAnswered
    \/ Enqueued \/ NotEnqueued \/ EnqueueRaises \/ JobFinished \/ Raises

Next ==
    \/ Discovery
    \/ (\E e \in Events : ClaimJob(e)) \/ PollFindsNothing
    \/ Round
    \/ Tick \/ Crash \/ Restart

Spec == Init /\ [][Next]_vars

(* The loop polls, every provider call ends (they have timeouts), the clock  *)
(* runs and systemd restarts the process.  No budget is assumed to open.    *)
FairSpec ==
    /\ Spec
    /\ WF_vars((\E e \in Events : ClaimJob(e)) \/ PollFindsNothing)
    /\ WF_vars(Round) /\ WF_vars(Tick) /\ WF_vars(Restart)

------------------------------------------------------------------------------
(***************************************************************************)
(* A token has at most one job that is pending or processing, whatever     *)
(* events about it arrive while another is being worked on                 *)
(* (schedule_enrichment_job coalesces, and recovery must not undo it).     *)
(***************************************************************************)
OneActivePerToken ==
    \A e, f \in Events :
        /\ job[e].state \in {"pending", "processing"}
        /\ job[f].state \in {"pending", "processing"}
        /\ TokenOf[e] = TokenOf[f]
        => e = f

(***************************************************************************)
(* finish_enrichment_job and reschedule_enrichment_job raise on a job that *)
(* is not processing; raised in enrichment_loop's handler that ends the    *)
(* daemon.  The job held is processing as long as it is held, although     *)
(* discovery rewrites the table meanwhile; and no other job is processing, *)
(* so none is left behind by the loop, only by a crash.                    *)
(***************************************************************************)
Working == pc \in Awaits \cup Commits

HeldJobIsProcessing ==
    /\ Working => cur \in Events /\ job[cur].state = "processing"
    /\ Up => \A e \in Events : job[e].state = "processing" => Working /\ e = cur

(***************************************************************************)
(* What a stage relies on was earned before it, across retries, deferrals  *)
(* and restarts: a job past its probe passed the size check, one in its    *)
(* security check holds a market, and one that may still ask the DEX has   *)
(* an attempt left (the table's CHECK allows MaxDex).  So the codes        *)
(* GMGN_SIZE_STATE_MISSING and MARKET_STATE_MISSING are never used.        *)
(***************************************************************************)
StagesAreEarned ==
    \A e \in Events :
        /\ job[e].stage # "dex_probe" =>
                (IF Growth(e) THEN SizedOk(e) ELSE size[e] = "pass")
        /\ job[e].state \in {"pending", "processing"} =>
                IF job[e].stage = "security_check"
                THEN job[e].market # NoMarket /\ job[e].dex >= 1
                ELSE job[e].dex < MaxDex
        /\ job[e].result # "STATE_MISSING"

(***************************************************************************)
(* A job that ends as FINAL_STRONG left an alert about its token in the    *)
(* outbox: its own, or the one it was a duplicate of.                      *)
(***************************************************************************)
FinalStrongHasAlert ==
    \A e \in Events :
        job[e].result = "FINAL_STRONG" =>
            \E f \in Events : TokenOf[f] = TokenOf[e] /\ alert[f] = "strong"

(***************************************************************************)
(* At most one alert of a kind about a token, and never two of one event,  *)
(* though a crash between the alert and the end of its job runs the job's   *)
(* last stage again.                                                       *)
(***************************************************************************)
NoDoubleAlert ==
    \A e, f \in Events :
        (alert[e] # None /\ alert[e] = alert[f] /\ TokenOf[e] = TokenOf[f]) => e = f

(***************************************************************************)
(* Every job that was scheduled ends, even if no budget ever opens: its    *)
(* expiry sees to that, and no stage, retry or crash holds it for ever.    *)
(***************************************************************************)
EveryJobEnds ==
    \A e \in Events : job[e].state = "pending" ~> job[e].state = "done"
==============================================================================
