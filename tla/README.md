# Meme Radar: a verification project

TLA+ models of the processes of `src/src/meme_radar`, checked with TLC on small
instances, and theorems about them proved with TLAPS for every value of the
constants. File names without a directory are those of `src/src/meme_radar`.

Contents: [the system](#the-system) · [inventory](#inventory) ·
[what is hard](#what-is-hard) · [modules and code](#modules-and-code) ·
[runs](#runs) · [bounds](#bounds) · [fairness](#fairness) ·
[proofs](#proofs) · [sensitivity](#sensitivity) ·
[divergences](#divergences) · [not modelled](#not-modelled) · [plan](#plan)

## The system

Meme Radar discovers new tokens, gathers evidence about them, decides, and posts
the few that pass to a Telegram channel. It is a handful of processes, each a loop
(or a few asyncio tasks) over SQLite tables or one state file:

| process | loops | persistent state |
| --- | --- | --- |
| `meme-radar` (`daemon.py`) | one log follower per chain, GMGN discovery, the enrichment loop, the Telegram loop | `radar_events`, `decisions`, `provider_observations`, `enrichment_jobs`, `telegram_outbox`, `telegram_delivery_claims`, checkpoints |
| `meme-radar-outcome-collector` | one loop: enrol, then measure | two tables in the daemon's database |
| `meme-radar-sol-early` | one loop: read rows, one candidate, one message | its own database |
| `meme-radar-pons-curve-shadow` | one log source, polled or subscribed | its own database |
| `meme-radar-pons-curve-notifier` | one loop: candidates, one message | its own database, reads the shadow's |
| `meme-radar-health-alert` | one loop over health files | one state file |

The daemon's tasks share the database connection and the call budgets; asyncio runs
one of them at a time and switches only at an `await`. Different processes meet only
in SQLite. All of them are restarted by systemd (`Restart=on-failure`,
`RestartSec=10` in every unit of `src/deploy/systemd`).

## Inventory

Components, their state, their operations, how they interact, and what makes them
correct. `PROJECT.json` lists the same components with their sources.

* **Call budgets** (`runtime.py SlidingBudget`). A deque of granted calls and a
  cooldown end, in memory. `take`, `available`, `cooldown`, `snapshot`; called by
  every loop of the daemon before a provider request. Correct when no window holds
  more calls than the cap, a cooldown is never shortened, and nothing is refused
  without cause.
* **Telegram outbox and sender** (`storage.py`, `daemon.py telegram_loop`). Rows with
  attempts and a due time, dedupe claims. Filled by the enrichment loop, drained by
  the Telegram loop, which claims, awaits the request, and marks. Correct when a
  token is alerted about once per kind, an alert is posted at most as often as its
  attempts, two requests never overlap, settled rows stay settled, and every row
  is settled in the end.
* **Enrichment jobs** (`storage.py`, `daemon.py enrichment_loop`). Staged jobs with
  attempts, due time and expiry; discovery schedules and coalesces them while the
  loop awaits providers. Correct when a token has one active job, stages are earned
  in order, a crash between any two commits neither loses nor doubles an alert, and
  every job ends.
* **Native log checkpoint** (`daemon.py native_rpc_loop`, `evm_rpc.py`). A checkpoint
  per chain, a hold in memory; backfill, subscribe, backfill, live. Correct when
  every log below the checkpoint is stored, and no log is silently lost.
* **Endpoint failover** (`daemon.py record_native_failure`, `probe_primary_once`). Which of
  two endpoints a chain is followed from, in memory and in the database; a count of
  failures in a row kept by the follower, one of successes in a row kept by the probe, an
  event by which the probe ends the follower's subscription. Correct when a subscription
  to the wrong endpoint never stays and the chain settles on the best endpoint that works.
* **Outbox migration and start** (`storage.py initialize`). Several commits on a
  database an earlier release left behind. Correct when a crash anywhere leaves
  nothing lost and the loops never run on a table that is not migrated.
* **Outcome collector** (`outcome_collector.py`, `outcome_cohort.py`). Enrols
  decisions written by the daemon and samples the market at fixed horizons. Correct
  when members are frozen, horizons have no holes, and each is recorded in the end.
* **Solana early notifier** (`sol_early_notifier.py`, `sol_early_storage.py`). Reads a
  file that another program appends to, keeps a cursor, candidates, an hourly
  provider window and an outbox. Correct when no row is skipped, no token is posted
  about twice, and every candidate ends.
* **Pons curve notifier** (`pons_curve_notifier.py`, `pons_curve_notify_storage.py`). Each
  round reads the tokens the shadow and the daemon know, asks GMGN once per size
  checkpoint, queues the best candidate under an hourly cap and sends one message.
  Correct when a checkpoint is not asked twice, the cap holds for every hour, only
  the best of the namesakes goes on, and the outbox delivers or gives up.
* **Pons curve shadow** (`pons_curve_shadow.py`, `pons_curve_storage.py`, `pons_curve.py`).
  One source of logs at a time, polled or subscribed with backfills, and a thread that
  seeds launches from the daemon's database. Keeps rows of launches, trades and
  graduations, a checkpoint, a watermark and the start of its coverage; a registry and
  the times of blocks in memory. The notifier counts trades only within coverage and
  watermark. Correct when the next connection resumes where nothing is missed, nothing is
  missing unnoticed from the range the notifier trusts, and a trade that was removed stops
  counting.
* **Health alerter** (`health_alert.py`). Polls the health files of the other processes;
  its state file has, per issue, when it was first seen, last posted and seen gone. The
  messages of a poll leave before the file is written. Correct when the channel follows
  what the health files say, with no alarm within its cooldown, no recovery that was not
  earned, and when a held checkpoint is escalated, as the daemon relies on.
* **Event store**, **market and security sources**, **launchpad adapters**, **scoring
  and policy**, **Bitquery streams**, **Telegram client**, **configuration**,
  **reports**, **deployment**: see [not modelled](#not-modelled).

## What is hard

The list with lines is `PROJECT.json` "hazards". In short:

* **Crashes between two commits.** Alert queued but job not finished; row claimed but
  not marked; row processed but cursor not moved; table renamed but not copied.
* **Lost answers.** Telegram may have accepted a message whose answer never came, or
  may still accept it after the sender gave up.
* **Two tasks, one decision.** The probe moves a chain back to its primary endpoint while
  the follower is at any await; the event that tells the follower must not get lost.
* **Messages before the state.** The alerter posts first and remembers later.
* **State used after an `await`.** Discovery rewrites the table of jobs while the
  enrichment loop holds one; a price read in one stage is used in another after a
  restart; a plan of the collector is worked off long after it was made.
* **Boundaries.** The window of a budget, the number of attempts next to a `CHECK`,
  due times next to an expiry.
* **Progress.** Jobs, alerts, candidates and horizons must end although no budget is
  promised to open; a stalled chain must be heard of, a dead endpoint left.

## Modules and code

Time is a counter of ticks; a provider call is a step that the loop waits for. Every
action is one run of code between two points where something else can happen: an
`await`, a commit (only a crash comes between two commits of one uninterrupted run)
or a call to another process. `PROJECT.json` "map" gives the lines of every
definition.

* `SlidingBudget` — the budget as data: `Prune`, `Available`, `Take`, `Cooldown` are
  the methods of the class. `BudgetWindow` puts one budget under arbitrary use, with
  the history of grants and cooldowns; its names differ from those of `TelegramOutbox`, as do
  those of `OutboxMigration`, because `OutboxProofs` extends all three. `TelegramOutbox`
  uses the same operators where the loop calls the methods.
* `AlertDelivery` — what an outbox promises, with no tables, leases or crashes: an
  alert is queued at most once per claim, at most `MaxAttempts` copies arrive, it is
  confirmed only if one did, and it does not stay queued for ever.
* `TelegramOutbox` — `outbox`, `wait` (time to `next_attempt_at_ms`), `claims` and
  `sampled` are tables; `pc`, `item`, `reply`, `pause` and `budget` are the memory of
  `telegram_loop`; `flight` and `copies` are Telegram. `PollClaims` is the claim, with
  its retirements and lease, up to the `await`; `TelegramAccepts`, `TelegramRejects`
  and `ConnectionBreaks` end the `await`; `MarkSent`, `MarkSentRaises` and `MarkRetry`
  are what follows it. Implements `AlertDelivery`.
* `EnrichmentJobs` — `events`, `job`, `size`, `trend`, `claims`, `alert` are tables;
  `pc` names the `await` or the commit `enrichment_loop` is at. `Discover` and
  `RefreshSnapshot` are the other tasks, enabled only at awaits. One action per
  answer of a provider per stage (`SizeAnswered`, `DexAnswered`, `EvidencePassed`,
  `GatePassed`, ...). `open` is the set of budgets that a claim sees available.
* `NativeCheckpoint` — `stored` and `checkpoint` are the database; `pc`, `hold`,
  `queue`, `lower`, `latest` the memory of `native_rpc_loop` and of the subscription;
  where logs are, which can never be stored, and which endpoint never answers, is chosen
  at the start. `slot`, `errors` and `reconnect` are what the loop and the probe share,
  `wss` is the endpoint of the subscription, `successes` belongs to the probe.
  `RecordFailure` is part of every way a connection can fail; `ProbeSucceeds` may come
  between any two steps of the loop.
* `HealthAlert` — `hold` is the daemon's memory, `file` its health file, `known` the state
  file of the alerter, `told` what the channel has. A `Poll` is one run of `poll_once`;
  `PollSendFails` is one in which messages are refused or their answers lost, `PollDies`
  one whose state is never written. Instants are kept as ages, capped at what they are
  compared with, so that the run has no end of time. `unsure` are the codes with a message
  that the state file cannot know of; the properties exempt those and no others.
* `OutboxMigration` — `progress` is the last commit of the start; `table` and `backup` are
  tables with the DDL they were created with.
* `OutcomeCohort` — `decisions` and `gate` are written by the daemon at any time,
  `cohort` and `outcomes` by the collector; `todo` is the plan of the half cycle it
  is in, `floor` is `enroll_floor_ms`.
* `SolEarly` — `feed` is the raw file; `cursor`, `cand`, `out`, `provider` the
  database; `pc` goes round the loop of `run`: rows, commit, claim, the requests of
  `evidence`, notify, deliver, wait. A row is reduced to `ripe`: whether the gates on
  the signals of its token pass with it. Implements `AlertDelivery` with one copy.
* `CurveShadow` — `row`, `checkpoint`, `watermark`, `coverage` and `seedAt` are the
  database; `pc` names the `await` `source_loop` is at: the first backfill, the connection,
  the second backfill, live, between polls or within one. `queue` is what the open
  subscription has not delivered, `times` is `block_times`, `registry` the launches in
  memory. `Processed` is `process_batch`: the time a block gets, launches first, the
  conflicts of identity, the newest observation of `removed`. `SeedStores` is the seeding
  thread up to its commit, `SeedRemembers` what the loop does with its result later.
  A tick brings a block, and `tried`, `skipped`, `kept`, `revoked` are history.
* `PonsNotifier` — `checked` and `out` are the database of the notifier, `wait` the time to
  `next_attempt_at_ms`; `pc` goes through a round of `run`: rows, one question per row,
  the choice, one message. `at` is the instant a round began, which all of it works
  with; `rows`, `todo` and `found` are the lists of `candidates`. What the other two
  databases say of a token is free, but its launch and name are given. A row whose
  attempts are spent counts as failed when it implements `AlertDelivery`.

## Runs

Each `MC*.tla` fixes the constants of one module for TLC; each `.cfg` is one run.

| run | question | result |
| --- | --- | --- |
| `budget_window` | more calls than the cap, a cut cooldown, a refusal without cause? | no |
| `outbox` | attempts, claims, refinement of `AlertDelivery` (which settles every alert), under lost answers and crashes | hold |
| `jobs_mixed` | a native and a GMGN event of one token race through all stages, with a crash anywhere | safety holds |
| `jobs_end` | does every job end, Solana and pre-activation events included, with budgets that may stay closed? | yes |
| `native_checkpoint` | is the checkpoint sound, no log silently lost, and does the chain settle on the best endpoint, through failovers and failbacks? | yes |
| `health_alert` | needless alarms, early recoveries, a channel that does not follow, a hold nobody hears of? | no, but for an early recovery after a poll that died |
| `outcome_cohort` | frozen members, horizons without gaps, each recorded in the end | hold |
| `migration` | nothing destroyed, left in the old table only by a cut migration, served only when migrated, through two crashes of the start | holds |
| `sol_early` | no row skipped, no token posted about twice, candidates end, refinement of `AlertDelivery` | hold |
| `pons_notifier` | hourly cap, one question per checkpoint, refinement of `AlertDelivery`, through failed rounds, crashes and lost answers | hold |
| `curve_shadow` | checkpoint, coverage and removed trades, through truncated and unsupported backfills, polls however late, seeds, broken batches, reorganisations and crashes | hold, but for the gaps the code lets into the coverage |
| `native_hold` | a claim of the documentation the code does not keep | violated, see [divergences](#divergences) |

## Bounds

Every bound is a CONSTANT: `MaxNow`, `MaxCrashes`, `MaxFaults`, `MaxBlock`,
`MaxRows`, `LastRow`, `LastArrival`, `LastDecision`, `LastBaseline`. The clock goes
on after the last arrival for as long as the longest deadline, so that liveness is
not cut off by the end of the clock. Deadlock is checked in every run: at the bound
of the clock the loops still poll.

* `outbox`: two events of one token, the least with which claims collide; two
  attempts, one crash, a budget of two calls. The safety part is proved for all values.
* `jobs_*`: two events, because the interesting races are between a held job and one
  new event; delays are scaled to a few ticks so that every retry, deferral and
  expiry is met. One crash, anywhere.
* `native_checkpoint`: two logs in up to four blocks, requests of two blocks, a window
  of three: a backfill takes two chunks and the window can pass a held block. Two failures
  in a row move the chain, two probes move it back: a count can stop half way. An endpoint
  may be dead, one always works; two faults besides. `CheckpointSound` and
  `NoStaleSubscription` are proved for all values.
* `health_alert`: delays of one or two ticks, so that an issue can come and go below and
  above each of them; a hold that moves down once; one fault of any kind: a refused
  message, a lost answer, a poll or a process that dies, a state file that cannot be read.
  Time has no bound. The two safety properties are proved for all values.
* `outcome_cohort`: two events, one a sampled control, two horizons whose window is
  over with their tick, plans of one: always cut, often late. The order within longer
  plans is what the proof adds: the two safety properties are proved for all values.
* `migration`: three alerts, two jobs, two crashes; proved for all values.
* `sol_early`: one token that can be blocked or expire and come back, a provider
  limit that one round of evidence exhausts, two attempts, one crash. All but
  `EveryCandidateEnds` is proved for all values.
* `curve_shadow`: one launch and one trade in the first two blocks of three. A backfill
  reaches one block back and a poll none, so that any longer gap truncates each, and a chunk
  covers both; one block is read again. A polled endpoint is at most one block behind
  (`Behind`), the registry keeps two ticks. How late a poll or a delivery comes has no bound
  but the end of the clock. Three faults of any kind: failures, crashes, an unsupported
  history, reorganisations. All three properties are proved for all values.
* `pons_notifier`: two tokens of one name, launched a tick apart, so that they are compared in
  some rounds and out of step in others; an hour of two ticks with a cap of one; two
  attempts, one crash or failed round. The clock stops when both are too old. Its safety is
  proved for all values.

* What `curve_shadow` takes for granted: the endpoint of a backfill is not behind, and
  the daemon has heard of a launch before a reorganisation removes it. Nothing is assumed of
  the time a poll, a delivery or a backfill takes.

## Fairness

* The loops: weak fairness of a loop's steps. asyncio polls a ready task, each loop
  ends its round with a wait that has a timeout, and the outcome collector and the
  Solana notifier are single loops.
* Provider and Telegram requests end: all HTTP clients have timeouts, so weak fairness
  of "it fails" suffices; no request is assumed to succeed.
* The clock: weak fairness of `Tick`.
* The probe: weak fairness of a probe that succeeds, from `native_primary_probe_loop`, while
  the primary endpoint works. `SettlesOnBestEndpoint` rests on it.
* `HealthAlert`: both processes run on their own clocks: weak fairness of writing health and
  of polling (or of the restart that comes before), and of `Tick`. A poll in which nothing
  fails is assumed to come in the end, since faults are bounded.
* Restart: weak fairness, from `Restart=on-failure` of the units. Crashes, disconnects
  and failures are bounded in number, and nothing is assumed of when they come.
* No budget is assumed to open: `jobs_end`, `outcome_cohort` and `sol_early` show
  progress by expiry alone.
* In `PonsNotifier` a round starts only when no earlier request can be accepted any more:
  the pause before it (`poll_seconds` of at least 5 s, `RestartSec=10`) outlasts a request
  whose connection is closed. The lease alone would not do: it is counted from the
  beginning of the round, which may be long ago when the message leaves.

## Proofs

All eight proof modules are checked by `tlapm` without any statement taken on trust.

* `OutboxProofs`, of the outbox, the budget its loop spends and the start that migrates
  its tables.
  * From `BudgetAssumption` (cap and window positive): `WindowCap`, `CooldownHonoured`,
    `NoBudgetLost`. First what `Prune` keeps and that the operators keep their types, for
    any sequence of calls. The inductive invariant says what the deque remembers: it is a
    suffix of all grants, and every grant it forgot is older than the window
    (`Remembers`); grants are in order; the cooldown end bounds all requested.
  * From `OutboxAssumption` (in particular lease and backoffs not shorter than the HTTP
    timeout, as configured): every safety property of the run, and that the tables
    implement `AlertDelivery` without its liveness. The properties are not inductive alone:
    the invariant adds what the answer in the loop's hands means (`HeldRow`: "ok" is about a
    copy that arrived and nothing is in flight), that absent rows are blank, and that
    nothing is in flight for a sent row.
  * From `MigrationAssumption`: nothing is destroyed and only a migrated table is served,
    for any number of alerts, jobs and crashes.
* `CheckpointProofs`: `CheckpointSound` for every chain, request size, window and
  number of faults, from `CheckpointAssumption` and `Lag = 0` (the HTTP endpoint is
  not behind the subscription). The invariant adds what a backfill has covered so
  far, that the second backfill meets the queue of the subscription, and that live
  mode without a hold misses nothing. Without `Lag = 0` the last two fail, and so does the
  property: a block can fall between the second backfill and the subscription.
  `NoStaleSubscription` needs no such assumption: the invariant adds that there is no
  subscription before the first backfill is over, so that the failures the loop itself
  counts never leave one behind, and only the probe is left to look at.
* `HealthProofs`, from `HealthAssumption`: `NoNeedlessMessage` and `RecoveryIsEarned` for
  every delay, cooldown and number of faults. The first follows from what the state file
  and the channel have in common (`Agrees`): for every code but the unsure ones, an alarm
  is in the channel exactly if the file has its instant. The second from `ClearInv`: the
  instant an issue was seen gone is never before the last poll that found it, unless that
  poll died with what it found (`overrun`).
* `JobsProofs`, from `JobsAssumption`: the six invariants of `jobs_mixed`, for every set of
  events and every delay. Each round ends by writing one row into the table of jobs, so the
  invariant is a predicate of a table, `Table(J)`, shown of what a sweep, a claim, a
  coalescing insert or a retry computes. It adds what the loop knows at each `await`
  (`PointEarned`: a probe that was answered is of the stage the row is still at, because
  `HeldJobIsProcessing` keeps discovery from touching the held row), and that claims and
  outbox rows agree, kind by kind and token by token (`ClaimsMatchAlerts`), from which
  both halves of the alerting follow.
* `PonsProofs`, from `PonsAssumption` (finitely many tokens): `HourlyCap`,
  `AskedOncePerCheckpoint`, and that the outbox implements `AlertDelivery` without its
  liveness. The invariant adds, for the questions, that the one being asked is still due
  and its token still to be examined (`AskedIsDue`), and that the questions about a
  checkpoint exceed the faults by one at most, and only while the answer is awaited or once
  the row records the checkpoint (`QuestionsCounted`); for the messages, what the answer in
  hand means (`HeldRow`) and that only pending rows are in flight. That a checkpoint is one the token has passed needs the greatest element of a
  bounded set of naturals (`GreatestNatural`).
* `SolProofs`, from `SolAssumption`: `NoRowLost`, that no row of the database is left half
  done (`NothingStranded`), and that the outbox implements `AlertDelivery` with a single
  copy per token. The invariant adds that between `process_row` and the commit of the cursor
  the row behind it is done (`CommitPending`); that the candidate asked about is
  "processing" and counts its attempt (`HeldCandidate`); and that a message exists at most
  once, in flight and in the channel taken together (`SentOnce`): the row is "sending" before
  the request leaves and a start turns it to "unknown", never back to "pending".
* `CohortProofs`, from `CohortAssumption`: `HorizonsInOrder` and `FrozenOnceStored`. A plan is
  a listing of a finite set of rows by rank. `RanksAreFilled` shows that such a listing
  has each row once (the rank is an injection of the set into 1..Cardinality), so
  that cutting it keeps what comes first (`PlanIsInitial`). The invariant adds what a plan still
  holds (`PlanInOrder`): nothing recorded, nothing twice, and each shorter horizon of the
  event is recorded or before it; and that an event is not decided twice at one
  instant (`DecisionsOnce`), else the order by time would have ties.
* `ShadowProofs`, from `ShadowAssumption`: the three invariants of `curve_shadow`. The four
  actions that write a batch are first brought to one form (`BatchForm`). Then each
  property has an invariant of its own:
  * `CheckpointSound`: below the start of the range in hand everything is covered
    (`RangeCovered`), the second backfill meets the queue of the subscription
    (`BehindSecond`), and while live the stream has what is not covered (`LiveCovered`);
  * `ReorgHonoured`: the row of a stored trade carries the time this process gave its
    block (`KeptDated`), so that a removal finds it; its launch is registered or counts no
    more (`KeptKnown`); and what brings a launch back, a seed or a late log, is older than
    its removal (`LaunchRows`, `GoneHeard`);
  * `EvidenceComplete`: `Uncovered` are the logs that were neither processed nor passed over
    and are still on the chain. From the first backfill to the end of the second they are above
    the watermark and above every time a block has (`FirstBehind`, `SubscribedAbove`); while
    polling they are above the last block polled, or the watermark has not reached the
    coverage yet (`PollsAbove`). Once live, everything behind the coverage was processed or is
    in the stream, because the second backfill ends with a new coverage (`LiveReached`). No
    assumption on time is needed: the property does not ask that a log comes in time, only
    that one missing below the watermark is on its way.

Only model-checked: liveness (fairness and `ENABLED` are out of reach of the prover), that
is `EveryJobEnds`, `EveryLogIsTriedOrHeld`, `SettlesOnBestEndpoint`, `ChannelFollows`,
`HoldIsEscalated`, `EveryHorizonRecorded`, `EveryCandidateEnds` and the liveness half of the
three refinements. Every invariant and action property of a passing run is proved. The
reverse holds of `OneRowPerClaim` and `SettledIsFinal` of `TelegramOutbox` and of
`NothingStranded` of `SolProofs`: they are proved, and no run lists them, because
the refinement or a liveness property says nearly as much.

## Sensitivity

Next to the definitions a property depends on stand alternatives named `...Bug`: the same
definition with a mistake one could make in that line of the code (a dropped guard, a
boundary off by one, a crash recovery that forgets a case). They are not part of any
specification. Put in place of the definition, each makes TLC report the property listed
with it in `PROJECT.json` "mutants" as violated; so each property can fail.

## Divergences

What the documentation or a comment promises and the code does not do.

* *A held checkpoint is released when the chain outruns the window* (`native_hold`).
  `hold_native_checkpoint` (daemon.py:663) promises to stall the chain rather than drop an
  event. A backfill starts at the history floor even when the checkpoint is held below
  it, releases the hold, and moves the checkpoint past the log that failed.
* *The migration is not idempotent* (no run). A crash between the rename and
  the copy makes the next start create an empty table that needs no migration; the
  alerts stay in `telegram_outbox_pre_failed`, although storage.py:184 calls the migration
  idempotent. Nothing is destroyed, and nothing else leaves alerts there (`migration`).
* *An interface failure passes the gate* (no run). `gmgn_gate` (daemon.py:2124)
  returns no reasons when its budget is spent, GMGN fails, or knows nothing;
  ARCHITECTURE.md says a failure is not taken for a safe pass.
* *Rejected events are not all enrolled* (no run). The gate's verdict comes
  after `enroll_floor_ms` has passed the event's decision; OUTCOME_EVALUATION.md says
  they are taken whole.
* *A namesake is left out of the comparison* (no run). Namesakes are counted over 15
  minutes (pons_curve_notifier.py:704), candidates live for 31. When the older one cannot
  be read in a round, the younger one goes on as if it had no competitor;
  SIGNAL_POLICY.md:45 says such a comparison fails closed.
* *A strong decision is lost to a deferral* (no run). When `read_market` defers,
  `enroll_cycle` stops and sets `enroll_floor_ms` all the same (outcome_collector.py:254),
  so the rest of the plan is never considered again; OUTCOME_EVALUATION.md:7 says
  delivered events are taken whole. `EndEnroll` models it.
* *A sample can be read after its window* (no run). Whether a horizon is expired is
  decided when the plan is made (outcome_collector.py:267), and a slow read later is stored
  as ok; OUTCOME_EVALUATION.md:24 says such a reading must not pass for the target.
* *An alert can be posted more than once* (no run). An answer lost after Telegram
  accepted (daemon.py:2518) is retried, up to the attempts. SECURITY.md:43 says that an
  unknown result must not be sent again, and ARCHITECTURE.md:68 lists a protection against
  unknown results; only the Solana notifier has it. `CopiesWithinAttempts` is what does
  hold.
* *An alarm for what was not wrong all the time* (no run). OPERATIONS.md:18 says that a
  source must be wrong without a break up to the threshold. `first_seen_ms` is kept over a
  gap shorter than `recovery_after` (health_alert.py:328, 343), so two short spells with a
  good one between them count as one.
* *A recovery that was not earned* (no run). OPERATIONS.md:18 says that a recovery is sent
  when a source has been well for some time. A poll that finds the issue again takes
  `clear_seen_ms` back (health_alert.py:333), but only in memory: if it dies before the
  state file is written (:355), the next process goes on counting from the old instant and
  can post a recovery right after the issue was there. `RecoveryIsEarned` exempts exactly
  the codes whose last sighting was such a poll (`overrun`).
* *An alarm that is never taken back* (no run). OPERATIONS.md:18 promises a recovery after
  an alarm. When the alarm arrives but the state file does not say so (the process died, or
  the answer got lost) and the issue is over before the next poll, the code is dropped
  without a message (health_alert.py:346). `ChannelFollows` exempts just these.

Read while the modules were written; no document of the repository speaks of them, and
no run asks for them:

* Failures are counted on the standby too, and over quiet times (daemon.py:491): only a log
  sets the count to nothing. After a failback the first failure may move the chain again.
* `RPC_FAILOVER` says that the standby is working (health_alert.py:72) whether it is
  connected or not; `RPC_DISCONNECTED` says so beside it.
* What the notifier trusts can have a gap, in four ways. It asks the health file for
  `connected` (pons_curve_notifier.py:377) and counts what is between coverage and watermark.
  * A poll that comes later than its window resumes above what it missed; `poll_once` only
    counts it (pons_curve_shadow.py:793) and keeps the coverage, while a truncated backfill
    is always followed by a new one. At a block every 100 ms (DATA_SOURCES.md:27) the window
    of 100 blocks is ten seconds, and polls are three seconds apart: a few slow requests
    suffice.
  * On a database without a checkpoint the first poll reads two blocks back, although
    coverage began before it (:816), and counts nothing.
  * A subscription sets `connected` (:838) before its backfill, and coverage begins anew only
    behind that (:841). In between the old coverage stands, while the first backfill of the
    connection may have been truncated or skipped, with the watermark moved to the present
    (:589), and a long first backfill leaves the next one something to pass over.
  * The health file is written every 15 seconds and believed for 30: after a failure the
    notifier may take the collector for connected while the next connection is already in
    its first backfill. The model has no health file and does not show this one.

  `EvidenceComplete` exempts the first three, log by log: what was passed over is allowed to
  be missing while polling, and before the coverage restarts; nothing is once it is live.
* A log that `process_batch` rejects (an unknown launch, a conflict of identity) is counted
  and over: `EvidenceComplete` takes it for processed. Nor does it say how long a log is on
  its way: the notifier's finality buffer is a bet on that which no line bounds.
* The freshness of a cached GMGN answer is looked up before the wait of the throttle and
  again after it (daemon.py:1475, 2127): one that expires in between costs a call that no
  budget was asked for.
* A call that was past its budget when another path met a 429 still goes out.
* The size check (daemon.py:1500) cools the GMGN budgets for a 429 only, where discovery
  (:1242) and the gate (:2143) do for 401 and 403 as well.
* A transaction that comes back in another block conflicts with its stored identity, which
  holds the block's hash (pons_curve_storage.py:257), and stays removed. A removal
  heard after a restart conflicts too if the trade was stored with the time it was seen
  at, and the trade goes on counting; `ReorgHonoured` is about one life of the process.

## Not modelled

* The `removed` flag of a log: the native loop ignores it, so a reorganisation is
  seen as further logs only.
* The Bitquery mode, an alternative to native RPC that keeps no checkpoint.
* Pure functions (scores, policy, narrative, normalisation, adapters, formatting): the
  loops only branch on their verdicts, which the models choose freely.
* Provider clients: they keep no state; every answer or failure a loop can tell apart
  is a choice of the model.
* Health output, counters, logs, reports and command lines.
* In `SolEarly`, the table of signals behind `ripe`, dry runs, a disabled Telegram and
  the upgrade of schema 1. In `PonsNotifier`, the score and what the gates measure.
* In `HealthAlert`, the health files of the other three processes, a file that is missing,
  the count of WSS logs compared between polls, and the dry run: the issues they raise go
  through the same `poll_once`.
* In `NativeCheckpoint`, an endpoint that answers the probes and fails the backfills for
  ever: it would move the chain back and forth, and only safety is checked of its faults.
* In `CurveShadow`, which endpoint is used, the health file (`connected` is read off `pc`), the eviction
  of block times (2048 are kept) and an orderly stop, which is taken for a crash.

## Plan

In this order:

1. `CurveShadow` composed with the reading side of `PonsNotifier`: `_market_rows` over the
   rows, coverage and watermark that the collector writes, with its health file.
2. An abstract specification of what the pipeline promises of an event (the stages in their
   order, one end, at most one alert of each kind), with `EnrichmentJobs` shown to
   implement it, as the outboxes implement `AlertDelivery`.
3. The theorems about the composition of 1, from `EvidenceComplete` and `HourlyCap`.
