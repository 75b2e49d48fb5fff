---------------------------- MODULE TelegramOutbox ----------------------------
(***************************************************************************)
(* The persistent Telegram outbox of the daemon: storage.py enqueue_* /     *)
(* claim_due_telegram / mark_telegram_* and daemon.py telegram_loop, with   *)
(* the Telegram API as environment and crashes of the process anywhere.    *)
(*                                                                         *)
(* Time is counted in ticks and kept relative to the present: `wait' is    *)
(* the time left until next_attempt_at_ms (0 when due), `flight' how long   *)
(* a request on its way may still be accepted.  Among due rows the model   *)
(* lets the loop take any, where the code takes the one due longest.       *)
(*                                                                         *)
(* The enrichment loop enqueues at any time: asyncio runs the body of an   *)
(* enqueue, and each database step of telegram_loop, without interruption. *)
(* The HOURLY_LIMIT branch of telegram_loop is left out: no await separates *)
(* available() from take(), so take() cannot fail there.  A database error *)
(* while marking a retry ends the task and with it the process: a Crash.   *)
(***************************************************************************)
EXTENDS SlidingBudget, FiniteSets

CONSTANTS Events,       \* events that a decision may want to alert about
          Tokens,       \* their tokens
          TokenOf,      \* the token of an event
          MaxAttempts,  \* telegram_max_attempts
          Lease,        \* ticks a claim pushes next_attempt_at_ms ahead
          Timeout,      \* ticks a request can be in flight (HTTP timeout)
          Backoff,      \* ticks until the retry after attempt n
          Penalty,      \* least ticks to wait after HTTP 429
          Interval,     \* telegram_min_interval_seconds in ticks
          Hour,         \* ticks of the sampling window
          SampleMax,    \* sample_max_per_hour
          MaxCrashes    \* bound of the crashes explored

ASSUME OutboxAssumption ==
    /\ TokenOf \in [Events -> Tokens]
    /\ MaxAttempts \in Nat \ {0}
    /\ Timeout \in Nat \ {0}
    /\ Lease \in Nat /\ Lease >= Timeout
    /\ Backoff \in [1..MaxAttempts -> Nat]
    /\ \A n \in 1..MaxAttempts : Backoff[n] >= Timeout
    /\ {Penalty, Interval, Hour, SampleMax, MaxCrashes} \subseteq Nat

Kinds == {"strong", "sample"}
Claims == Kinds \X Tokens
ClaimOf(k, e) == <<k, TokenOf[e]>>
None == "none"

VARIABLES
    (* tables of the database *)
    outbox,         \* telegram_outbox by event: [state, attempts, kind]
    wait,           \* ticks until next_attempt_at_ms of a row
    claims,         \* telegram_delivery_claims: dedupe keys
    sampled,        \* ticks each sample claim still counts for the hour
    (* memory of the process *)
    pc,             \* telegram_loop: "idle", "sending" or, with the process, "down"
    item,           \* the row telegram_loop is sending
    reply,          \* what send_message will return or raise
    pause,          \* ticks left of the wait between two rounds
    budget,         \* telegram_budget
    (* Telegram and the world *)
    flight,         \* ticks a request about the event may still be accepted
    copies,         \* messages about the event in the channel
    crashes

tables == <<outbox, wait, claims, sampled>>
memory == <<pc, item, reply, pause, budget>>
world  == <<flight, copies, crashes>>
vars   == <<tables, memory, world>>

Replies == {"none", "ok", "lost", "error", "429"}
AbsentRow == [state |-> "absent", attempts |-> 0, kind |-> None]

TypeOK ==
    /\ outbox \in [Events -> [state : {"absent", "pending", "sent", "failed"},
                              attempts : 0..MaxAttempts,
                              kind : Kinds \cup {None}]]
    /\ wait \in [Events -> Nat]
    /\ claims \subseteq Claims
    /\ sampled \in [Tokens -> 0..Hour]
    /\ pc \in {"idle", "sending", "down"}
    /\ item \in Events \cup {None}
    /\ reply \in Replies
    /\ pause \in 0..Interval
    /\ budget \in [calls : Seq(Int), cooldownUntil : Nat]
    /\ Len(budget.calls) <= MaxCalls
    /\ flight \in [Events -> 0..Timeout]
    /\ copies \in [Events -> Nat]
    /\ crashes \in 0..MaxCrashes

Init ==
    /\ outbox = [e \in Events |-> AbsentRow]
    /\ wait = [e \in Events |-> 0]
    /\ claims = {}
    /\ sampled = [t \in Tokens |-> 0]
    /\ pc = "idle" /\ item = None /\ reply = "none" /\ pause = 0
    /\ budget = NewBudget
    /\ flight = [e \in Events |-> 0]
    /\ copies = [e \in Events |-> 0]
    /\ crashes = 0

------------------------------------------------------------------------------
(* Enqueueing, called from finalize_enrichment.  Both functions run in one  *)
(* transaction: if the event already has a row the INSERT fails on the      *)
(* primary key and the claim is rolled back with it.                        *)

UnclaimedBug(e, k) == outbox[e].state = "absent"      \* dedupe by event only

Unclaimed(e, k) == ClaimOf(k, e) \notin claims

Claim(e, k) ==
    /\ pc # "down"
    /\ Unclaimed(e, k)
    /\ outbox[e].state = "absent"
    /\ claims' = claims \cup {ClaimOf(k, e)}
    /\ outbox' = [outbox EXCEPT ![e] =
                    [state |-> "pending", attempts |-> 0, kind |-> k]]
    /\ wait' = [wait EXCEPT ![e] = 0]
    /\ UNCHANGED <<memory, world>>

EnqueueStrong(e) == Claim(e, "strong") /\ UNCHANGED sampled

SamplesThisHour == Cardinality({t \in Tokens : sampled[t] > 0})

EnqueueSample(e) ==
    /\ SamplesThisHour < SampleMax
    /\ Claim(e, "sample")
    /\ sampled' = [sampled EXCEPT ![TokenOf[e]] = Hour]

------------------------------------------------------------------------------
(* One round of telegram_loop.  claim_due_telegram first retires every      *)
(* exhausted row, due or not, then takes a due one and leases it.           *)

Exhausted(e) == outbox[e].state = "pending" /\ outbox[e].attempts >= MaxAttempts

Retired == [e \in Events |-> IF Exhausted(e) THEN [outbox[e] EXCEPT !.state = "failed"]
                                             ELSE outbox[e]]

DueAnyStateBug(e) == Retired[e].state \in {"pending", "failed"} /\ wait[e] = 0

Due(e) ==
    /\ Retired[e].state = "pending" /\ Retired[e].attempts < MaxAttempts
    /\ wait[e] = 0

UncountedBug(e) == Retired          \* the attempt is not counted before the send

CountedFirstBug(e) ==               \* rows are retired after the attempt is counted
    [outbox EXCEPT ![e] =
        [@ EXCEPT !.attempts = @ + 1,
                  !.state = IF outbox[e].attempts + 1 >= MaxAttempts THEN "failed" ELSE @]]

Attempted(e) == [Retired EXCEPT ![e].attempts = @ + 1]

UnleasedBug(e) == wait

Leased(e) == [wait EXCEPT ![e] = Lease]

LoopReady == pc = "idle" /\ pause = 0 /\ Available(budget, 0)

PollClaims(e) ==
    /\ LoopReady
    /\ Due(e)
    /\ outbox' = Attempted(e)
    /\ wait' = Leased(e)
    /\ budget' = Take(budget, 0)
    /\ pc' = "sending" /\ item' = e /\ reply' = "none"
    /\ flight' = [flight EXCEPT ![e] = Timeout]
    /\ UNCHANGED <<claims, sampled, pause, copies, crashes>>

PollFindsNothingDue ==
    /\ LoopReady
    /\ ~ \E e \in Events : Due(e)
    /\ \E e \in Events : Exhausted(e)
    /\ outbox' = Retired
    /\ UNCHANGED <<wait, claims, sampled, memory, world>>

(* send_message returned: mark_telegram_sent. *)
MarkSent ==
    /\ pc = "sending" /\ reply = "ok"
    /\ outbox' = [outbox EXCEPT ![item].state = "sent"]
    /\ pc' = "idle" /\ item' = None /\ reply' = "none"
    /\ pause' = Interval
    /\ UNCHANGED <<wait, claims, sampled, budget, world>>

(* mark_telegram_sent raised (the database is locked or full): the handler  *)
(* of send errors takes over, as if the send had failed.                    *)
MarkSentRaises ==
    /\ pc = "sending" /\ reply = "ok"
    /\ reply' = "lost"
    /\ UNCHANGED <<tables, pc, item, pause, budget, world>>

RetryDelay(n) ==
    IF reply = "429" /\ Backoff[n] < Penalty THEN Penalty ELSE Backoff[n]

(* send_message raised: back off; after HTTP 429 the whole budget cools down. *)
MarkRetry ==
    /\ pc = "sending" /\ reply \in {"lost", "error", "429"}
    /\ LET delay == RetryDelay(outbox[item].attempts)
       IN  /\ wait' = [wait EXCEPT ![item] = delay]
           /\ budget' = IF reply = "429" THEN Cooldown(budget, 0, delay) ELSE budget
    /\ pc' = "idle" /\ item' = None /\ reply' = "none"
    /\ pause' = Interval
    /\ UNCHANGED <<outbox, claims, sampled, world>>

------------------------------------------------------------------------------
(* Telegram and the network. *)

Asked(e) == pc = "sending" /\ item = e /\ reply = "none"

(* The message is accepted; the answer reaches the loop, if it still waits,  *)
(* or is lost on the way.                                                   *)
TelegramAccepts(e) ==
    /\ flight[e] > 0
    /\ copies' = [copies EXCEPT ![e] = @ + 1]
    /\ flight' = [flight EXCEPT ![e] = 0]
    /\ reply' \in IF Asked(e) THEN {"ok", "lost"} ELSE {reply}
    /\ UNCHANGED <<tables, pc, item, pause, budget, crashes>>

TelegramRejects(e) ==
    /\ flight[e] > 0
    /\ flight' = [flight EXCEPT ![e] = 0]
    /\ reply' \in IF Asked(e) THEN {"error", "429"} ELSE {reply}
    /\ UNCHANGED <<tables, pc, item, pause, budget, copies, crashes>>

(* The connection breaks: the loop sees an error, the request may arrive.   *)
ConnectionBreaks(e) ==
    /\ Asked(e) /\ flight[e] > 0
    /\ reply' = "lost"
    /\ UNCHANGED <<tables, pc, item, pause, budget, world>>

Less(n) == IF n > 0 THEN n - 1 ELSE 0

(* A tick: leases, backoffs and budgets run on; a request whose time is up   *)
(* is lost, and the loop that waits for it times out.                        *)
Tick ==
    /\ wait' = [e \in Events |-> Less(wait[e])]
    /\ sampled' = [t \in Tokens |-> Less(sampled[t])]
    /\ pause' = Less(pause)
    /\ budget' = Age(budget)
    /\ flight' = [e \in Events |-> Less(flight[e])]
    /\ reply' = IF \E e \in Events : Asked(e) /\ flight[e] <= 1 THEN "lost" ELSE reply
    /\ UNCHANGED <<outbox, claims, pc, item, copies, crashes>>

(* The process dies between any two steps; a request may survive it. *)
Crash ==
    /\ pc # "down" /\ crashes < MaxCrashes
    /\ crashes' = crashes + 1
    /\ pc' = "down" /\ item' = None /\ reply' = "none" /\ pause' = 0
    /\ budget' = NewBudget
    /\ UNCHANGED <<tables, flight, copies>>

Restart ==
    /\ pc = "down"
    /\ pc' = "idle"
    /\ UNCHANGED <<tables, item, reply, pause, budget, world>>

Next ==
    \/ \E e \in Events : EnqueueStrong(e) \/ EnqueueSample(e)
    \/ \E e \in Events : PollClaims(e)
    \/ PollFindsNothingDue
    \/ MarkSent \/ MarkSentRaises \/ MarkRetry
    \/ \E e \in Events :
            TelegramAccepts(e) \/ TelegramRejects(e) \/ ConnectionBreaks(e)
    \/ Tick \/ Crash \/ Restart

(* The loop keeps polling and finishing its rounds, time passes, and systemd *)
(* restarts the process.  Nothing is assumed of Telegram.                    *)
Poll == (\E e \in Events : PollClaims(e)) \/ PollFindsNothingDue

Fairness ==
    /\ WF_vars(Poll)
    /\ WF_vars(MarkSent \/ MarkRetry)
    /\ WF_vars(Tick)
    /\ WF_vars(Restart)

Spec == Init /\ [][Next]_vars

FairSpec == Spec /\ Fairness
------------------------------------------------------------------------------
(***************************************************************************)
(* Every message in the channel was paid for by an attempt that was        *)
(* committed before it was sent, so however often the process dies, an     *)
(* alert is posted at most MaxAttempts times.                              *)
(***************************************************************************)
CopiesWithinAttempts ==
    \A e \in Events :
        copies[e] + (IF flight[e] > 0 THEN 1 ELSE 0) <= outbox[e].attempts

(***************************************************************************)
(* A row says "sent" only of a message that is in the channel, and         *)
(* "failed" only after every attempt was spent.                            *)
(***************************************************************************)
SettledTruthfully ==
    \A e \in Events :
        /\ outbox[e].state = "sent" => copies[e] >= 1
        /\ outbox[e].state = "failed" => outbox[e].attempts = MaxAttempts

(***************************************************************************)
(* No two requests about one alert are ever under way together: while one  *)
(* may still be accepted the row is leased or backing off, or retired,     *)
(* across crashes too (claim_due_telegram leases before the send).         *)
(***************************************************************************)
NoConcurrentSends ==
    \A e \in Events :
        (flight[e] > 0 /\ outbox[e].state = "pending" /\ ~ Exhausted(e)) =>
            wait[e] >= flight[e]

(***************************************************************************)
(* Claims and rows agree: every claim belongs to exactly one row and every *)
(* row to a claim.  So a token is alerted about at most once per kind,     *)
(* whatever reruns, crashes and restarts do to the decisions behind it.    *)
(***************************************************************************)
OneRowPerClaim ==
    /\ \A c \in claims :
        \E e \in Events :
            /\ outbox[e].kind # None /\ ClaimOf(outbox[e].kind, e) = c
            /\ \A other \in Events :
                (outbox[other].kind # None /\ ClaimOf(outbox[other].kind, other) = c)
                    => other = e
    /\ \A e \in Events :
        outbox[e].state # "absent" => ClaimOf(outbox[e].kind, e) \in claims

(***************************************************************************)
(* mark_telegram_sent and mark_telegram_retry raise unless the row is      *)
(* still pending; raised in the handler, that would end the daemon.  The   *)
(* row telegram_loop holds is always pending.                              *)
(***************************************************************************)
HeldRowIsPending == pc = "sending" => outbox[item].state = "pending"

(***************************************************************************)
(* A settled alert is never touched again: no later poll, mark or restart  *)
(* reopens a row that is sent or failed.                                   *)
(***************************************************************************)
SettledIsFinal ==
    [][\A e \in Events :
        outbox[e].state \in {"sent", "failed"} => outbox'[e] = outbox[e]]_vars

(* The outbox implements AlertDelivery. *)
Delivery ==
    INSTANCE AlertDelivery WITH
        status <- [e \in Events |->
                    CASE outbox[e].state = "absent"  -> "none"
                      [] outbox[e].state = "pending" -> "queued"
                      [] OTHER                       -> outbox[e].state],
        claim <- [e \in Events |->
                    IF outbox[e].kind = None THEN << >>
                                             ELSE ClaimOf(outbox[e].kind, e)]

(***************************************************************************)
(* The whole of it: the tables, seen through the mapping above, behave as  *)
(* AlertDelivery promises, its liveness included.                          *)
(***************************************************************************)
ImplementsDelivery == Delivery!Spec
==============================================================================
