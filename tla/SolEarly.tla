------------------------------- MODULE SolEarly -------------------------------
(***************************************************************************)
(* The Solana early notifier (sol_early_notifier.py over                    *)
(* sol_early_storage.py): one loop that reads new rows of a file another    *)
(* program appends to, makes candidates of them, asks up to four providers  *)
(* about one candidate, and delivers one message, at most once.            *)
(*                                                                         *)
(* The loop has no handler: an exception ends the process, and systemd      *)
(* starts it again, so every failure outside a provider or Telegram call is *)
(* a Crash.  What a row says is reduced to `ripe': with it the token's      *)
(* signals pass the combination and discovery gates.  Providers charge an   *)
(* hourly budget kept in the database.  Telegram is enabled.               *)
(***************************************************************************)
EXTENDS Integers, Sequences, FiniteSets

CONSTANTS Tokens,
          MaxAge,      \* max_signal_age_ms
          FreshFor,    \* the longest a message may be valid (evidence ages)
          Retry,       \* 15 seconds
          MaxClaims,   \* 10, the CHECK on attempts
          MaxTries,    \* 3, attempts after which evidence is not retried
          Hour,        \* the provider window
          Limit,       \* provider_call_limit
          Penalty,     \* cooldown after HTTP 429
          MaxRows,     \* bound of the file
          LastRow,     \* bound of the instants at which it grows
          MaxNow,      \* bound of the clock
          MaxCrashes   \* bound of the crashes explored

ASSUME SolAssumption ==
    /\ {MaxAge, MaxClaims, MaxTries, Hour} \subseteq Nat \ {0}
    /\ Limit \in Nat \ {0, 1}
    /\ {FreshFor, Retry, Penalty, MaxRows, LastRow, MaxNow, MaxCrashes} \subseteq Nat

None == "none"
Unset == -1

VARIABLES
    feed,      \* rows of the raw file: [token, seen, ripe]
    (* the database *)
    cursor,    \* rows consumed, or Unset
    cand,      \* sol_early_candidates by token
    out,       \* sol_early_outbox by token: [state, valid]
    provider,  \* provider_budget_v1: [since, used, until]
    (* the memory of run() *)
    pc, cur,
    began,     \* now_ms of evidence(), with which it reserves calls
    reply,     \* what send_message will return or raise
    (* the world, and history *)
    flight,    \* requests Telegram may still accept, by token
    copies,    \* messages in the channel
    handled,   \* rows that process_row has seen to the end
    now, crashes

tables == <<cursor, cand, out, provider>>
memory == <<pc, cur, began, reply>>
world  == <<flight, copies>>
clocks == <<now, crashes>>
vars   == <<feed, tables, memory, world, handled, clocks>>

Asking == {"info", "trenches", "checks"}
NoCandidate == [state |-> None, attempts |-> 0, due |-> 0, expires |-> 0]
NoMessage == [state |-> None, valid |-> 0]

TypeOK ==
    /\ feed \in Seq([token : Tokens, seen : 0..now, ripe : BOOLEAN])
    /\ cursor \in 0..Len(feed) \cup {Unset}
    /\ cand \in [Tokens -> [state : {None, "pending", "processing", "queued",
                                      "blocked", "expired"},
                            attempts : 0..MaxClaims, due : Nat, expires : Nat]]
    /\ out \in [Tokens -> [state : {None, "pending", "sending", "sent", "unknown"},
                           valid : Nat]]
    /\ provider \in [since : Nat \cup {Unset}, used : 0..Limit, until : Nat]
    /\ pc \in Asking \cup {"rows", "commit", "claim", "notify", "deliver", "sending",
                           "wait", "down"}
    /\ cur \in Tokens \cup {None}
    /\ began \in 0..now
    /\ reply \in {None, "ok", "error"}
    /\ flight \in [Tokens -> BOOLEAN] /\ copies \in [Tokens -> Nat]
    /\ handled \subseteq 1..Len(feed)
    /\ now \in Nat /\ crashes \in Nat

Init ==
    /\ feed = << >>
    /\ cursor = Unset
    /\ cand = [t \in Tokens |-> NoCandidate]
    /\ out = [t \in Tokens |-> NoMessage]
    /\ provider = [since |-> Unset, used |-> 0, until |-> 0]
    /\ pc = "rows" /\ cur = None /\ began = 0 /\ reply = None
    /\ flight = [t \in Tokens |-> FALSE] /\ copies = [t \in Tokens |-> 0]
    /\ handled = {} /\ now = 0 /\ crashes = 0

Later(a, b) == IF a > b THEN a ELSE b
Sooner(a, b) == IF a < b THEN a ELSE b

Goes(to) == pc' = to /\ cur' = None /\ began' = 0 /\ reply' = None

------------------------------------------------------------------------------
(* The file: another program appends rows.  The first start begins at its    *)
(* end; each later row is processed, and only then is the cursor committed.  *)

RowArrives(t, ripe) ==
    /\ Len(feed) < MaxRows /\ now <= LastRow
    /\ feed' = Append(feed, [token |-> t, seen |-> now, ripe |-> ripe])
    /\ UNCHANGED <<tables, memory, world, handled, clocks>>

InitializeCursor ==
    /\ pc = "rows" /\ cursor = Unset
    /\ cursor' = Len(feed)
    /\ handled' = 1..Len(feed)
    /\ Goes("claim")
    /\ UNCHANGED <<feed, cand, out, provider, world, clocks>>

Reopens(t) == out[t].state = None /\ cand[t].state \in {None, "blocked", "expired"}

Scheduled(row) ==
    IF Reopens(row.token)
    THEN [cand EXCEPT ![row.token] = [state |-> "pending", attempts |-> 0,
                                      due |-> row.seen, expires |-> row.seen + MaxAge]]
    ELSE cand

ProcessRow ==
    /\ pc = "rows" /\ cursor # Unset /\ cursor < Len(feed)
    /\ LET row == feed[cursor + 1]
       IN  cand' = IF row.ripe /\ now - row.seen <= MaxAge THEN Scheduled(row) ELSE cand
    /\ handled' = handled \cup {cursor + 1}
    /\ Goes("commit")
    /\ UNCHANGED <<feed, cursor, out, provider, world, clocks>>

(* commit_cursor to the row's own offset *)
OffsetOfBatchBug == Len(feed)

OffsetOfRow == cursor + 1

CommitCursor ==
    /\ pc = "commit"
    /\ cursor' = OffsetOfRow
    /\ Goes("rows")
    /\ UNCHANGED <<feed, cand, out, provider, world, handled, clocks>>

(* The batch is read; what was appended since, or exceeds it, waits.         *)
EndRows ==
    /\ pc = "rows" /\ cursor # Unset
    /\ Goes("claim")
    /\ UNCHANGED <<feed, tables, world, handled, clocks>>

------------------------------------------------------------------------------
(* process_candidate *)

Claimable ==
    {t \in Tokens : /\ cand[t].state = "pending" /\ cand[t].due <= now
                    /\ cand[t].attempts < MaxClaims}

Claimed(t, state) == [cand EXCEPT ![t].state = state, ![t].attempts = @ + 1]

(* past its deadline; or, on a second look, no longer a candidate            *)
ClaimEnds(t) ==
    /\ pc = "claim" /\ t \in Claimable
    /\ \A u \in Claimable : cand[t].due <= cand[u].due
    /\ cand' = Claimed(t, IF now > cand[t].expires THEN "expired" ELSE "blocked")
    /\ Goes("deliver")
    /\ UNCHANGED <<feed, cursor, out, provider, world, handled, clocks>>

Claim(t) ==
    /\ pc = "claim" /\ t \in Claimable /\ now <= cand[t].expires
    /\ \A u \in Claimable : cand[t].due <= cand[u].due
    /\ cand' = Claimed(t, "processing")
    /\ pc' = "info" /\ cur' = t /\ began' = now /\ reply' = None
    /\ UNCHANGED <<feed, cursor, out, provider, world, handled, clocks>>

NothingToClaim ==
    /\ pc = "claim" /\ Claimable = {}
    /\ Goes("deliver")
    /\ UNCHANGED <<feed, tables, world, handled, clocks>>

(* reserve_provider_calls.  The first two requests are charged at the        *)
(* instant evidence() began, the last two at their own.  What was reserved   *)
(* is committed before the request, and is seen with its answer or after a   *)
(* crash: nothing else reads it.                                            *)
At == began
Cost == IF pc = "checks" THEN 2 ELSE 1

Renewed == IF provider.since = Unset \/ At >= provider.since + Hour
           THEN [provider EXCEPT !.since = At, !.used = 0]
           ELSE provider

CanReserve == At >= provider.until /\ Renewed.used + Cost <= Limit

Reserved == [Renewed EXCEPT !.used = @ + Cost]

NextAvailable ==
    LET soon == Later(At + 1, provider.until)
    IN  IF Renewed.used + Cost <= Limit THEN soon
                                        ELSE Later(soon, provider.since + Hour)

(* a request that a fresh cache answers costs nothing *)
Paid == (IF CanReserve THEN {Reserved} ELSE {}) \cup
        (IF pc \in {"info", "trenches"} THEN {provider} ELSE {})

(* The evidence is in, or is not to be had: the deadline comes first.        *)
Concluded(state, attempts, due) ==
    [cand EXCEPT ![cur] =
        IF now > @.expires THEN [@ EXCEPT !.state = "expired"]
        ELSE [@ EXCEPT !.state = state, !.attempts = attempts, !.due = due]]

(* defer_candidate_without_attempt *)
DeferredTo == Sooner(NextAvailable, cand[cur].expires + 1)

BudgetDenies ==
    /\ pc \in Asking /\ ~ CanReserve
    /\ cand' = Concluded("pending", cand[cur].attempts - 1, DeferredTo)
    /\ Goes("deliver")
    /\ UNCHANGED <<feed, cursor, out, provider, world, handled, clocks>>

(* No data, or an error of a request, which after HTTP 401, 403 or 429 starts *)
(* a cooldown.                                                               *)
EvidenceFails ==
    /\ pc \in Asking
    /\ \/ provider' \in Paid
       \/ CanReserve /\ provider' = [Reserved EXCEPT !.until = Later(@, now + Penalty)]
    /\ LET tries == cand[cur].attempts
       IN  cand' = IF tries < MaxTries THEN Concluded("pending", tries, now + Retry)
                                       ELSE Concluded("blocked", tries, cand[cur].due)
    /\ Goes("deliver")
    /\ UNCHANGED <<feed, cursor, out, world, handled, clocks>>

(* Complete evidence that fails a gate: of quality at first, of safety last. *)
EvidenceBlocks ==
    /\ pc \in {"info", "checks"}
    /\ provider' \in Paid
    /\ cand' = Concluded("blocked", cand[cur].attempts, cand[cur].due)
    /\ Goes("deliver")
    /\ UNCHANGED <<feed, cursor, out, world, handled, clocks>>

EvidenceContinues ==
    /\ pc \in {"info", "trenches"}
    /\ provider' \in Paid
    /\ pc' = IF pc = "info" THEN "trenches" ELSE "checks"
    /\ began' = IF pc = "info" THEN began ELSE now
    /\ UNCHANGED <<feed, cursor, cand, out, cur, reply, world, handled, clocks>>

EvidenceTooLate ==
    /\ pc = "checks" /\ now > cand[cur].expires
    /\ provider' \in Paid
    /\ cand' = [cand EXCEPT ![cur].state = "expired"]
    /\ Goes("deliver")
    /\ UNCHANGED <<feed, cursor, out, world, handled, clocks>>

(* claim_notification: a token is notified about once *)
Notified(t, message) ==
    IF out[t].state = None THEN [out EXCEPT ![t] = message] ELSE out

EvidencePasses ==
    /\ pc = "checks" /\ now <= cand[cur].expires
    /\ provider' \in Paid
    /\ \E valid \in now..Sooner(cand[cur].expires, now + FreshFor) :
            out' = Notified(cur, [state |-> "pending", valid |-> valid])
    /\ pc' = "notify"
    /\ UNCHANGED <<feed, cursor, cand, cur, began, reply, world, handled, clocks>>

FinishQueued ==
    /\ pc = "notify"
    /\ cand' = [cand EXCEPT ![cur].state = "queued"]
    /\ Goes("deliver")
    /\ UNCHANGED <<feed, cursor, out, provider, world, handled, clocks>>

------------------------------------------------------------------------------
(* deliver: claimed before it is sent, and never pending again               *)

DeliverExpired(t) ==
    /\ pc = "deliver" /\ out[t].state = "pending" /\ now > out[t].valid
    /\ out' = [out EXCEPT ![t].state = "unknown"]
    /\ Goes("wait")
    /\ UNCHANGED <<feed, cursor, cand, provider, world, handled, clocks>>

Send(t) ==
    /\ pc = "deliver" /\ out[t].state = "pending" /\ now <= out[t].valid
    /\ out' = [out EXCEPT ![t].state = "sending"]
    /\ flight' = [flight EXCEPT ![t] = TRUE]
    /\ pc' = "sending" /\ cur' = t /\ began' = 0 /\ reply' = None
    /\ UNCHANGED <<feed, cursor, cand, provider, copies, handled, clocks>>

NothingToSend ==
    /\ pc = "deliver" /\ \A t \in Tokens : out[t].state # "pending"
    /\ Goes("wait")
    /\ UNCHANGED <<feed, tables, world, handled, clocks>>

Awaited(t) == pc = "sending" /\ cur = t /\ reply = None

TelegramAccepts(t) ==
    /\ flight[t]
    /\ flight' = [flight EXCEPT ![t] = FALSE]
    /\ copies' = [copies EXCEPT ![t] = @ + 1]
    /\ reply' \in IF Awaited(t) THEN {"ok", "error"} ELSE {reply}
    /\ UNCHANGED <<feed, tables, pc, cur, began, handled, clocks>>

(* refused, or the connection breaks and the request is lost or still on its *)
(* way                                                                      *)
TelegramFails(t) ==
    /\ flight[t] /\ Awaited(t)
    /\ \E lost \in BOOLEAN : flight' = [flight EXCEPT ![t] = ~ lost]
    /\ reply' = "error"
    /\ UNCHANGED <<feed, tables, pc, cur, began, copies, handled, clocks>>

MarkSent ==
    /\ pc = "sending" /\ reply = "ok"
    /\ out' = [out EXCEPT ![cur].state = "sent"]
    /\ Goes("wait")
    /\ UNCHANGED <<feed, cursor, cand, provider, world, handled, clocks>>

(* the send failed, or mark_sent did *)
AfterSendErrorBug == "pending"

AfterSendError == "unknown"

MarkUnknown ==
    /\ pc = "sending" /\ reply \in {"ok", "error"}
    /\ out' = [out EXCEPT ![cur].state = AfterSendError]
    /\ Goes("wait")
    /\ UNCHANGED <<feed, cursor, cand, provider, world, handled, clocks>>

Wait ==
    /\ pc = "wait"
    /\ Goes("rows")
    /\ UNCHANGED <<feed, tables, world, handled, clocks>>

------------------------------------------------------------------------------
Tick ==
    /\ now < MaxNow
    /\ now' = now + 1
    /\ UNCHANGED <<feed, tables, memory, world, handled, crashes>>

(* before a request, or within it: what was reserved for it stays charged    *)
Crash ==
    /\ pc # "down" /\ crashes < MaxCrashes
    /\ crashes' = crashes + 1
    /\ provider' \in {provider} \cup (IF pc \in Asking THEN Paid ELSE {})
    /\ Goes("down")
    /\ UNCHANGED <<feed, cursor, cand, out, world, handled, now>>

(* initialize: an interrupted candidate waits again unless its attempts are  *)
(* spent; an interrupted send is never repeated                             *)
InterruptedBug(t) == [cand[t] EXCEPT !.state = "pending"]

Interrupted(t) ==
    [cand[t] EXCEPT !.state = IF cand[t].attempts >= MaxClaims THEN "blocked" ELSE "pending"]

Restart ==
    /\ pc = "down"
    /\ cand' = [t \in Tokens |-> IF cand[t].state = "processing" THEN Interrupted(t)
                                                                ELSE cand[t]]
    /\ out' = [t \in Tokens |-> IF out[t].state = "sending"
                                THEN [out[t] EXCEPT !.state = "unknown"] ELSE out[t]]
    /\ Goes("rows")
    /\ UNCHANGED <<feed, cursor, provider, world, handled, clocks>>

Rows == InitializeCursor \/ ProcessRow \/ CommitCursor \/ EndRows

Candidate ==
    \/ (\E t \in Tokens : ClaimEnds(t) \/ Claim(t)) \/ NothingToClaim
    \/ BudgetDenies \/ EvidenceFails \/ EvidenceBlocks \/ EvidenceContinues
    \/ EvidenceTooLate \/ EvidencePasses \/ FinishQueued

Deliver ==
    \/ (\E t \in Tokens : DeliverExpired(t) \/ Send(t)) \/ NothingToSend
    \/ MarkSent \/ MarkUnknown

Loop == Rows \/ Candidate \/ Deliver \/ Wait \/ Restart

Next ==
    \/ \E t \in Tokens, ripe \in BOOLEAN : RowArrives(t, ripe)
    \/ Loop
    \/ \E t \in Tokens : TelegramAccepts(t) \/ TelegramFails(t)
    \/ Tick \/ Crash

Spec == Init /\ [][Next]_vars

(* The loop goes on, requests time out, and the clock runs. *)
FairSpec ==
    /\ Spec
    /\ WF_vars(Loop) /\ WF_vars(Tick)
    /\ \A t \in Tokens : WF_vars(TelegramFails(t))

------------------------------------------------------------------------------
(***************************************************************************)
(* No row that was appended after the first start is skipped by a crash:    *)
(* what lies before the cursor was processed to its end.                   *)
(***************************************************************************)
NoRowLost == cursor # Unset => 1..cursor \subseteq handled

(***************************************************************************)
(* Every candidate ends as queued, blocked or expired, whatever the        *)
(* providers do and although the budget may never open: deferrals do not   *)
(* count as attempts, and crashes do.                                      *)
(***************************************************************************)
EveryCandidateEnds ==
    \A t \in Tokens :
        cand[t].state = "pending" ~> cand[t].state \in {"queued", "blocked", "expired"}

(***************************************************************************)
(* The outbox implements AlertDelivery with a single copy per token: every  *)
(* message is confirmed or given up in the end, and stays so.              *)
(***************************************************************************)
Delivery ==
    INSTANCE AlertDelivery WITH
        Events <- Tokens,
        Claims <- {<<t>> : t \in Tokens},
        MaxAttempts <- 1,
        status <- [t \in Tokens |->
                    CASE out[t].state = None                     -> "none"
                      [] out[t].state \in {"pending", "sending"} -> "queued"
                      [] out[t].state = "sent"                   -> "sent"
                      [] out[t].state = "unknown"                -> "failed"],
        claim <- [t \in Tokens |-> IF out[t].state = None THEN << >> ELSE <<t>>]

ImplementsDelivery == Delivery!Spec
==============================================================================
