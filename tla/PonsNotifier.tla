----------------------------- MODULE PonsNotifier -----------------------------
(***************************************************************************)
(* The Pons curve notifier (pons_curve_notifier.py over                     *)
(* pons_curve_notify_storage.py): each round examines the young tokens of   *)
(* the curve, queues at most one alert, and delivers at most one.           *)
(*                                                                         *)
(* A round works with the instant it began at, `at', however long its       *)
(* requests take.  What the databases of the collector and of the daemon    *)
(* say of a token (its trades, metadata, rejection), whether they are read, *)
(* the budget and every answer are choices of the environment; a token's    *)
(* launch and name are given, and the daemon stores every launch at once.   *)
(* Scores only order the candidates, so any selected one may be the best.   *)
(* An exception ends the round, not the process; it counts as a fault like  *)
(* a crash.  Telegram is enabled.  The pause before a round (poll_seconds,  *)
(* RestartSec) outlasts a request whose connection is closed.               *)
(***************************************************************************)
EXTENDS Integers, FiniteSets

CONSTANTS Tokens,
          LaunchOf,     \* block_timestamp_ms of a token's launch
          NameOf,       \* its name, or what it shares with its namesakes
          Caps,         \* market caps met
          SizeChecks,   \* SIZE_RECHECK_MS
          MinAge,       \* MIN_AGE_MS
          MaxAge,       \* MAX_AGE_MS
          NameWindow,   \* 15 minutes, in which namesakes are counted
          Hour,
          MaxPerHour,   \* max_per_hour
          MaxAttempts,  \* 5
          Lease,        \* 60 seconds
          Backoff,      \* least delay until the retry after attempt n
          Penalty,      \* least delay after HTTP 429
          MaxNow,       \* bound: no token is young from here on
          MaxFaults     \* bound of the crashes and failed rounds explored

ASSUME PonsAssumption ==
    /\ IsFiniteSet(Tokens)
    /\ LaunchOf \in [Tokens -> Nat]
    /\ Caps \subseteq Nat /\ SizeChecks \subseteq Nat \ {0}
    /\ {Hour, MaxPerHour, MaxAttempts} \subseteq Nat \ {0}
    /\ {MinAge, MaxAge, NameWindow, Lease, Penalty, MaxNow, MaxFaults} \subseteq Nat
    /\ Backoff \in [1..MaxAttempts -> Nat]
    /\ \A t \in Tokens : LaunchOf[t] + MaxAge < MaxNow

None == "none"
Never == -1

VARIABLES
    (* the database of the notifier *)
    checked,   \* size_checkpoint of a token, 0 if none
    out,       \* outbox: [state, attempts, claimed]
    wait,      \* ticks until next_attempt_at_ms
    (* the memory of run() *)
    pc, at,
    rows,      \* tokens _market_rows returned
    todo,      \* those still to be examined
    found,     \* candidates: [token, cap, same], same_name_contracts
    due,       \* rows whose next attempt is due at `at'
    cur,       \* token asked about, chosen, or sent
    reply,     \* what send_message will return or raise
    (* the world, and history *)
    flight,    \* tokens with a request Telegram may still accept
    copies,    \* messages about it in the channel
    asked,     \* GMGN requests about a token at a checkpoint
    now, faults

tables == <<checked, out, wait>>
work   == <<rows, todo, found>>
memory == <<pc, at, work, due, cur, reply>>
world  == <<flight, copies>>
vars   == <<tables, memory, world, asked, now, faults>>

NoMessage == [state |-> None, attempts |-> 0, claimed |-> Never]

TypeOK ==
    /\ checked \in [Tokens -> SizeChecks \cup {0}]
    /\ out \in [Tokens -> [state : {None, "pending", "sent"},
                           attempts : 0..MaxAttempts, claimed : 0..now \cup {Never}]]
    /\ wait \in [Tokens -> Nat]
    /\ pc \in {"wait", "examine", "asking", "deliver", "sending", "down"}
    /\ at \in 0..now
    /\ todo \subseteq rows /\ rows \subseteq Tokens
    /\ found \subseteq [token : Tokens, cap : Caps, same : 0..Cardinality(Tokens)]
    /\ \A c, d \in found : c.token = d.token => c = d
    /\ due \subseteq Tokens /\ cur \in Tokens \cup {None}
    /\ reply \in {None, "ok", "error", "429"}
    /\ flight \subseteq Tokens /\ copies \in [Tokens -> Nat]
    /\ asked \in [Tokens -> [SizeChecks -> Nat]]
    /\ now \in 0..MaxNow /\ faults \in 0..MaxFaults

Init ==
    /\ checked = [t \in Tokens |-> 0]
    /\ out = [t \in Tokens |-> NoMessage]
    /\ wait = [t \in Tokens |-> 0]
    /\ pc = "wait" /\ at = 0 /\ rows = {} /\ todo = {} /\ found = {}
    /\ due = {} /\ cur = None /\ reply = None
    /\ flight = {} /\ copies = [t \in Tokens |-> 0]
    /\ asked = [t \in Tokens |-> [c \in SizeChecks |-> 0]]
    /\ now = 0 /\ faults = 0

Later(a, b) == IF a > b THEN a ELSE b

Forget == at' = 0 /\ rows' = {} /\ todo' = {} /\ found' = {} /\ due' = {} /\ reply' = None

------------------------------------------------------------------------------
(* enqueue_best *)

Age(t) == at - LaunchOf[t]

Young == {t \in Tokens : now - LaunchOf[t] \in MinAge..MaxAge}

(* _market_rows, unless the hour's global capacity is spent                  *)
StartRound ==
    /\ pc = "wait" /\ flight = {}
    /\ at' = now /\ due' = {t \in Tokens : out[t].state = "pending" /\ wait[t] = 0}
    /\ rows' \in SUBSET Young /\ todo' = rows'
    /\ pc' = IF rows' = {} THEN "deliver" ELSE "examine"
    /\ found' = {} /\ cur' = None /\ reply' = None
    /\ UNCHANGED <<tables, world, asked, now, faults>>

(* _due_size_checkpoint: the last one passed, if it was not used up          *)
Passed(t) == {c \in SizeChecks : c <= Age(t)}

Checkpoint(t) == CHOOSE c \in Passed(t) : \A d \in Passed(t) : d <= c

DueAgainBug(t) == Passed(t) # {}

Due(t) == Passed(t) # {} /\ Checkpoint(t) > checked[t]

(* notified already, unknown to the daemon or rejected by it, or not due     *)
Skip(t) ==
    /\ pc = "examine" /\ t \in todo
    /\ todo' = todo \ {t}
    /\ UNCHANGED <<tables, pc, at, rows, found, due, cur, reply, world, asked, now, faults>>

UsedUp(t) == [checked EXCEPT ![t] = Checkpoint(t)]

Examinable(t) == pc = "examine" /\ t \in todo /\ out[t].state = None /\ Due(t)

(* the budget has no call left: the checkpoint is used up all the same       *)
BudgetDenies(t) ==
    /\ Examinable(t)
    /\ checked' = UsedUp(t)
    /\ todo' = todo \ {t}
    /\ UNCHANGED <<out, wait, pc, at, rows, found, due, cur, reply, world, asked, now, faults>>

AskSize(t) ==
    /\ Examinable(t)
    /\ asked' = [asked EXCEPT ![t][Checkpoint(t)] = @ + 1]
    /\ pc' = "asking" /\ cur' = t
    /\ UNCHANGED <<tables, at, work, due, reply, world, now, faults>>

(* _same_identity_contracts: those launched earlier than NameWindow do not   *)
(* count                                                                     *)
Namesakes(t) == {u \in Tokens : NameOf[u] = NameOf[t]}

Counted(t) == {u \in Namesakes(t) : LaunchOf[u] \in (at - NameWindow)..now}

(* an error, no data, too small, or stopped by a later gate                  *)
CandidateFails ==
    /\ pc = "asking"
    /\ checked' = UsedUp(cur)
    /\ todo' = todo \ {cur}
    /\ pc' = "examine" /\ cur' = None
    /\ UNCHANGED <<out, wait, at, rows, found, due, reply, world, asked, now, faults>>

CandidatePasses ==
    /\ pc = "asking"
    /\ checked' = UsedUp(cur)
    /\ todo' = todo \ {cur}
    /\ \E cap \in Caps :
          found' = found \cup {[token |-> cur, cap |-> cap, same |-> Cardinality(Counted(cur))]}
    /\ pc' = "examine" /\ cur' = None
    /\ UNCHANGED <<out, wait, at, rows, due, reply, world, asked, now, faults>>

(* candidates(): of namesakes the one worth most, if all those counted were  *)
(* found in this round                                                       *)
Competitors(c) == {d \in found : d.token # c.token /\ NameOf[d.token] = NameOf[c.token]}

(* equal caps are decided by address, here in either way                     *)
Selected ==
    {c \in found :
        /\ Cardinality(Competitors(c)) >= c.same - 1
        /\ \A d \in Competitors(c) : d.cap <= c.cap}

(* claim_notification: the rows of the last hour, whatever became of them    *)
RecentPendingBug ==
    {t \in Tokens : out[t].state = "pending" /\ out[t].claimed > at - Hour}

Recent == {t \in Tokens : out[t].state # None /\ out[t].claimed > at - Hour}

Examined == pc = "examine" /\ todo = {}

EnqueueBest(c) ==
    /\ Examined /\ c \in Selected /\ out[c.token].state = None
    /\ Cardinality(Recent) < MaxPerHour
    /\ out' = [out EXCEPT ![c.token] =
                    [state |-> "pending", attempts |-> 0, claimed |-> at]]
    /\ wait' = [wait EXCEPT ![c.token] = 0]
    /\ pc' = "deliver" /\ cur' = c.token /\ due' = due \cup {c.token}
    /\ UNCHANGED <<checked, at, work, reply, world, asked, now, faults>>

EnqueueNone ==
    /\ Examined /\ (Selected = {} \/ Cardinality(Recent) >= MaxPerHour)
    /\ pc' = "deliver"
    /\ UNCHANGED <<tables, at, work, due, cur, reply, world, asked, now, faults>>

------------------------------------------------------------------------------
(* deliver_one *)

SpentClaimableBug(t) == t \in due

Claimable(t) == t \in due /\ out[t].attempts < MaxAttempts

(* claim_due_notification: the attempt is counted before it is made, and the *)
(* lease from the beginning of the round                                     *)
Send(t) ==
    /\ pc = "deliver" /\ Claimable(t)
    /\ out' = [out EXCEPT ![t].attempts = @ + 1]
    /\ wait' = [wait EXCEPT ![t] = Later(0, at + Lease - now)]
    /\ flight' = flight \cup {t}
    /\ pc' = "sending" /\ cur' = t /\ Forget
    /\ UNCHANGED <<checked, copies, asked, now, faults>>

NothingToSend ==
    /\ pc = "deliver" /\ \A t \in Tokens : ~ Claimable(t)
    /\ pc' = "wait" /\ cur' = None /\ Forget
    /\ UNCHANGED <<tables, world, asked, now, faults>>

Awaited(t) == pc = "sending" /\ cur = t /\ reply = None

(* the answer to a request still awaited may get lost                        *)
TelegramAccepts(t) ==
    /\ t \in flight
    /\ flight' = flight \ {t}
    /\ copies' = [copies EXCEPT ![t] = @ + 1]
    /\ IF Awaited(t) THEN reply' \in {"ok", "error"} ELSE UNCHANGED reply
    /\ UNCHANGED <<tables, pc, at, work, due, cur, asked, now, faults>>

(* refused, or broken off: lost, or still on its way                         *)
TelegramFails(t) ==
    /\ t \in flight
    /\ \/ flight' = flight \ {t}
          /\ IF Awaited(t) THEN reply' \in {"error", "429"} ELSE UNCHANGED reply
       \/ Awaited(t) /\ reply' = "error" /\ UNCHANGED flight
    /\ UNCHANGED <<tables, pc, at, work, due, cur, copies, asked, now, faults>>

MarkSent ==
    /\ pc = "sending" /\ reply = "ok"
    /\ out' = [out EXCEPT ![cur].state = "sent"]
    /\ pc' = "wait" /\ cur' = None /\ reply' = None
    /\ UNCHANGED <<checked, wait, at, work, due, world, asked, now, faults>>

(* the send failed, or mark_notification_sent did                            *)
MarkRetry ==
    /\ pc = "sending" /\ reply # None
    /\ LET delay == Backoff[out[cur].attempts]
       IN  wait' = [wait EXCEPT ![cur] =
                        IF reply = "429" THEN Later(Penalty, delay) ELSE delay]
    /\ pc' = "wait" /\ cur' = None /\ reply' = None
    /\ UNCHANGED <<checked, out, at, work, due, world, asked, now, faults>>

------------------------------------------------------------------------------
Fault == faults < MaxFaults /\ faults' = faults + 1

(* An exception of enqueue_best or deliver_one: the round is over.           *)
RoundFails ==
    /\ pc \in {"examine", "asking", "deliver"} \/ (pc = "sending" /\ reply # None)
    /\ Fault
    /\ pc' = "wait" /\ cur' = None /\ Forget
    /\ UNCHANGED <<tables, world, asked, now>>

Crash ==
    /\ pc # "down" /\ Fault
    /\ pc' = "down" /\ cur' = None /\ Forget
    /\ UNCHANGED <<tables, world, asked, now>>

Restart ==
    /\ pc = "down"
    /\ pc' = "wait"
    /\ UNCHANGED <<tables, at, work, due, cur, reply, world, asked, now, faults>>

Tick ==
    /\ now' = IF now < MaxNow THEN now + 1 ELSE now
    /\ wait' = [t \in Tokens |-> Later(0, wait[t] - 1)]
    /\ UNCHANGED <<checked, out, memory, world, asked, faults>>

Round ==
    \/ StartRound
    \/ \E t \in Tokens : Skip(t) \/ BudgetDenies(t) \/ AskSize(t)
    \/ CandidateFails \/ CandidatePasses
    \/ (\E c \in found : EnqueueBest(c)) \/ EnqueueNone
    \/ (\E t \in Tokens : Send(t)) \/ NothingToSend
    \/ MarkSent \/ MarkRetry

Next ==
    \/ Round
    \/ \E t \in Tokens : TelegramAccepts(t) \/ TelegramFails(t)
    \/ RoundFails \/ Crash \/ Restart \/ Tick

Spec == Init /\ [][Next]_vars

(* The loop goes on and is restarted, requests time out, the clock runs.     *)
FairSpec ==
    /\ Spec
    /\ WF_vars(Round) /\ WF_vars(Restart) /\ WF_vars(Tick)
    /\ \A t \in Tokens : WF_vars(TelegramFails(t))

------------------------------------------------------------------------------
(***************************************************************************)
(* No hour holds more than MaxPerHour alerts, counted by when they were    *)
(* queued: the rows of alerts already delivered count too, and so do those *)
(* of before a restart.                                                    *)
(***************************************************************************)
HourlyCap ==
    \A t \in Tokens : out[t].state # None =>
        Cardinality({u \in Tokens : /\ out[u].state # None
                                    /\ out[u].claimed \in (out[t].claimed - Hour + 1)..out[t].claimed})
            <= MaxPerHour

(***************************************************************************)
(* GMGN is asked once about a token at a checkpoint, and once more only    *)
(* for a fault between the question and the checkpoint's commit: whatever  *)
(* the answer, the checkpoint is used up, and no later poll repeats it.    *)
(***************************************************************************)
AskedOncePerCheckpoint ==
    \A t \in Tokens : \A c \in SizeChecks : asked[t][c] <= 1 + faults

(***************************************************************************)
(* The outbox implements AlertDelivery, although it has no failed state: a  *)
(* row that spent its attempts and is not being sent is given up, and      *)
(* stays pending for ever.                                                 *)
(***************************************************************************)
GivenUp(t) == out[t].attempts = MaxAttempts /\ ~ (pc = "sending" /\ cur = t)

Delivery ==
    INSTANCE AlertDelivery WITH
        Events <- Tokens,
        Claims <- {<<t>> : t \in Tokens},
        status <- [t \in Tokens |->
                    CASE out[t].state = None                    -> "none"
                      [] out[t].state = "pending" /\ ~ GivenUp(t) -> "queued"
                      [] out[t].state = "pending" /\ GivenUp(t) -> "failed"
                      [] out[t].state = "sent"                  -> "sent"],
        claim <- [t \in Tokens |-> IF out[t].state = None THEN << >> ELSE <<t>>]

ImplementsDelivery == Delivery!Spec
==============================================================================
