------------------------------ MODULE SolProofs -------------------------------
(***************************************************************************)
(* Proofs about the Solana early notifier, for any tokens, ages, delays,    *)
(* limits and number of crashes: type correctness (the calls charged to a   *)
(* window stay within the limit, attempts within 0..MaxClaims), that no row *)
(* of the file is skipped, that no row of the database is left half done,   *)
(* and that its outbox behaves as AlertDelivery promises with one copy per  *)
(* token (all but its liveness).                                           *)
(***************************************************************************)
EXTENDS SolEarly, SequenceTheorems, TLAPS

------------------------------------------------------------------------------
(***************************************************************************)
(* The inductive invariant.                                                *)
(***************************************************************************)

(* While a candidate is asked about, its row is "processing" and counts the  *)
(* attempt, so a deferral that takes the attempt back never goes below zero. *)
HeldCandidate ==
    pc \in Asking \cup {"notify"} =>
        cur \in Tokens /\ cand[cur].state = "processing" /\ cand[cur].attempts > 0

(* Between process_row and commit_cursor the row behind the cursor is done.  *)
CommitPending ==
    pc = "commit" => cursor # Unset /\ cursor < Len(feed) /\ cursor + 1 \in handled

(***************************************************************************)
(* What the rows of the outbox have to do with Telegram: the row being sent *)
(* is "sending", "ok" is about a copy that arrived, a request that may      *)
(* still arrive belongs to a row that is being sent or given up, and no     *)
(* message exists twice, on its way and in the channel taken together.      *)
(***************************************************************************)
HeldMessage ==
    pc = "sending" =>
        /\ cur \in Tokens /\ out[cur].state = "sending"
        /\ reply = "ok" => copies[cur] > 0 /\ ~ flight[cur]

FlightLeft == \A t \in Tokens : flight[t] => out[t].state \in {"sending", "unknown"}

SentOnce ==
    \A t \in Tokens : /\ flight[t] => copies[t] = 0
                      /\ copies[t] <= 1
                      /\ copies[t] > 0 => out[t].state \notin {None, "pending"}

(***************************************************************************)
(* No row is left half done: what is "processing" or "sending" is what the  *)
(* loop works on, or the process is down and its next start repairs it.     *)
(***************************************************************************)
NothingStranded ==
    \A t \in Tokens :
        /\ cand[t].state = "processing" =>
              pc = "down" \/ (pc \in Asking \cup {"notify"} /\ cur = t)
        /\ out[t].state = "sending" => pc = "down" \/ (pc = "sending" /\ cur = t)

File == CommitPending /\ NoRowLost

Outbox == HeldMessage /\ FlightLeft /\ SentOnce

IInv == TypeOK /\ HeldCandidate /\ File /\ Outbox /\ NothingStranded

------------------------------------------------------------------------------
(* The constants as the proofs use them. *)
LEMMA Constants ==
    /\ MaxAge \in Nat /\ FreshFor \in Nat /\ Retry \in Nat /\ Penalty \in Nat
    /\ MaxClaims \in Nat /\ MaxClaims > 0 /\ MaxTries \in Nat /\ Hour \in Nat
    /\ Limit \in Nat /\ Limit >= 2 /\ MaxRows \in Nat /\ MaxCrashes \in Nat
BY SolAssumption

(* Before the first round everything is empty. *)
LEMMA InitIInv == Init => IInv
<1> SUFFICES ASSUME Init PROVE IInv
  OBVIOUS
<1> USE DEF Init, NoCandidate, NoMessage
<1>1. TypeOK
  BY Constants DEF TypeOK, Unset, None
<1>2. HeldCandidate /\ File
  BY DEF HeldCandidate, File, CommitPending, NoRowLost, Asking, Unset
<1>3. Outbox /\ NothingStranded
  BY DEF Outbox, HeldMessage, FlightLeft, SentOnce, NothingStranded, None
<1> QED
  BY <1>1, <1>2, <1>3 DEF IInv

------------------------------------------------------------------------------
(***************************************************************************)
(* The operators of process_candidate and reserve_provider_calls.           *)
(***************************************************************************)
Candidates ==
    [state : {None, "pending", "processing", "queued", "blocked", "expired"},
     attempts : 0..MaxClaims, due : Nat, expires : Nat]

Messages == [state : {None, "pending", "sending", "sent", "unknown"}, valid : Nat]

Providers == [since : Nat \cup {Unset}, used : 0..Limit, until : Nat]

(* The instant a request is charged at, and the window it falls in. *)
LEMMA ChargeType ==
    ASSUME TypeOK
    PROVE  /\ At \in Nat /\ Cost \in {1, 2}
           /\ Renewed \in Providers
<1>1. /\ now \in Nat /\ began \in Nat /\ provider \in Providers
  BY DEF TypeOK, Providers
<1>2. At \in Nat /\ Cost \in {1, 2}
  BY <1>1 DEF At, Cost
<1>3. [provider EXCEPT !.since = At, !.used = 0] \in Providers
  <2>1. 0 \in 0..Limit /\ At \in Nat \cup {Unset}
    BY <1>2, Constants
  <2>2. [provider EXCEPT !.since = At] \in Providers
    BY <1>1, <2>1 DEF Providers
  <2> QED
    BY <2>1, <2>2 DEF Providers
<1>4. Renewed \in {provider, [provider EXCEPT !.since = At, !.used = 0]}
  BY DEF Renewed
<1> QED
  BY <1>1, <1>2, <1>3, <1>4

(* A reservation is only made if the window has room for it. *)
LEMMA ReservedType ==
    ASSUME TypeOK, CanReserve
    PROVE  Reserved \in Providers
<1>1. Renewed \in Providers /\ Cost \in {1, 2} /\ Renewed.used + Cost <= Limit
  BY ChargeType DEF CanReserve
<1>2. Renewed.used + Cost \in 0..Limit
  BY <1>1, Constants DEF Providers
<1> QED
  BY <1>1, <1>2 DEF Reserved, Providers

LEMMA PaidType ==
    ASSUME TypeOK
    PROVE  Paid \subseteq Providers
<1>1. provider \in Providers
  BY DEF TypeOK, Providers
<1> QED
  BY <1>1, ReservedType DEF Paid

(* A deferral is dated: the next instant calls may be available, at most    *)
(* just after the deadline.                                                *)
LEMMA DeferralType ==
    ASSUME TypeOK, cur \in Tokens
    PROVE  DeferredTo \in Nat
<1>1. At \in Nat /\ provider.until \in Nat /\ cand[cur].expires \in Nat
      /\ provider.since \in Int /\ Hour \in Nat
  <2>1. At \in Nat /\ Hour \in Nat
    BY ChargeType, Constants
  <2>2. provider.until \in Nat /\ provider.since \in Nat \cup {-1}
    BY DEF TypeOK, Unset
  <2>3. cand[cur].expires \in Nat
    BY DEF TypeOK
  <2> QED
    BY <2>1, <2>2, <2>3
<1>2. NextAvailable \in Nat
  <2> DEFINE soon == Later(At + 1, provider.until)
  <2>1. soon \in Nat
    BY <1>1 DEF Later
  <2> HIDE DEF soon
  <2>2. Later(soon, provider.since + Hour) \in Nat
    BY <1>1, <2>1 DEF Later
  <2> QED
    BY <2>1, <2>2 DEF NextAvailable, soon
<1> QED
  BY <1>1, <1>2 DEF DeferredTo, Sooner

(* However evidence about a candidate ends, its row stays one. *)
LEMMA ConcludedType ==
    ASSUME TypeOK, cur \in Tokens, NEW state \in {"pending", "blocked"},
           NEW attempts \in 0..MaxClaims, NEW due \in Nat
    PROVE  /\ Concluded(state, attempts, due) \in [Tokens -> Candidates]
           /\ \A t \in Tokens : t # cur =>
                 Concluded(state, attempts, due)[t] = cand[t]
           /\ Concluded(state, attempts, due)[cur].state # "processing"
<1>1. cand \in [Tokens -> Candidates]
  BY DEF TypeOK, Candidates
<1> DEFINE row == IF now > cand[cur].expires THEN [cand[cur] EXCEPT !.state = "expired"]
                  ELSE [cand[cur] EXCEPT !.state = state, !.attempts = attempts, !.due = due]
<1>2. Concluded(state, attempts, due) = [cand EXCEPT ![cur] = row]
  BY DEF Concluded
<1>3. row \in Candidates /\ row.state # "processing"
  BY <1>1 DEF Candidates
<1> HIDE DEF row
<1> QED
  BY <1>1, <1>2, <1>3

------------------------------------------------------------------------------
(***************************************************************************)
(* Every step keeps the types.                                             *)
(***************************************************************************)
LEMMA StepTypeOK == IInv /\ [Next]_vars => TypeOK'
<1> SUFFICES ASSUME IInv, [Next]_vars PROVE TypeOK'
  OBVIOUS
<1>0. TypeOK /\ HeldCandidate /\ CommitPending /\ HeldMessage
  BY DEF IInv, File, Outbox
<1>00. now \in Nat /\ began \in Nat /\ crashes \in Nat /\ Len(feed) \in Nat
       /\ cursor \in Int /\ cand \in [Tokens -> Candidates]
  BY <1>0 DEF TypeOK, Unset, Candidates
<1>01. TypeOK' <=>
          /\ feed' \in Seq([token : Tokens, seen : 0..now', ripe : BOOLEAN])
          /\ cursor' \in 0..Len(feed') \cup {Unset}
          /\ cand' \in [Tokens -> Candidates]
          /\ out' \in [Tokens -> Messages]
          /\ provider' \in Providers
          /\ pc' \in Asking \cup {"rows", "commit", "claim", "notify", "deliver", "sending",
                                  "wait", "down"}
          /\ cur' \in Tokens \cup {None}
          /\ began' \in 0..now'
          /\ reply' \in {None, "ok", "error"}
          /\ flight' \in [Tokens -> BOOLEAN] /\ copies' \in [Tokens -> Nat]
          /\ handled' \subseteq 1..Len(feed')
          /\ now' \in Nat /\ crashes' \in Nat
  BY DEF TypeOK, Candidates, Messages, Providers
<1>02. /\ feed \in Seq([token : Tokens, seen : 0..now, ripe : BOOLEAN])
       /\ cursor \in 0..Len(feed) \cup {Unset}
       /\ out \in [Tokens -> Messages]
       /\ provider \in Providers
       /\ pc \in Asking \cup {"rows", "commit", "claim", "notify", "deliver", "sending",
                              "wait", "down"}
       /\ cur \in Tokens \cup {None}
       /\ began \in 0..now
       /\ reply \in {None, "ok", "error"}
       /\ flight \in [Tokens -> BOOLEAN] /\ copies \in [Tokens -> Nat]
       /\ handled \subseteq 1..Len(feed)
  BY <1>0 DEF TypeOK, Messages, Providers
<1> USE DEF tables, memory, world, clocks, Goes
(* a step of the loop that writes neither candidates, messages nor calls *)
<1>1. ASSUME UNCHANGED <<feed, cand, out, provider, world, clocks>>,
             cursor' \in 0..Len(feed) \cup {Unset}, handled' \subseteq 1..Len(feed),
             NEW to \in {"rows", "commit", "claim", "deliver", "wait", "down"}, Goes(to)
      PROVE  TypeOK'
  BY <1>00, <1>01, <1>02, <1>1
(* one that writes the candidate in hand, or one it claims *)
<1>2. ASSUME UNCHANGED <<feed, cursor, out, world, handled, clocks>>,
             cand' \in [Tokens -> Candidates], provider' \in Providers, Goes("deliver")
      PROVE  TypeOK'
  BY <1>00, <1>01, <1>02, <1>2
(* one that writes a message *)
<1>3. ASSUME UNCHANGED <<feed, cursor, cand, provider, world, handled, clocks>>,
             out' \in [Tokens -> Messages],
             Goes("wait")
      PROVE  TypeOK'
  BY <1>00, <1>01, <1>02, <1>3
<1>4. ASSUME pc \in Asking PROVE cur \in Tokens /\ cand[cur].attempts \in 1..MaxClaims
  BY <1>0, <1>00, <1>4, Constants DEF HeldCandidate, Candidates
<1>5. ASSUME NEW t \in Tokens, NEW ripe \in BOOLEAN, RowArrives(t, ripe) PROVE TypeOK'
  <2> DEFINE row == [token |-> t, seen |-> now, ripe |-> ripe]
  <2>1. row \in [token : Tokens, seen : 0..now, ripe : BOOLEAN]
    BY <1>00
  <2>2. feed' = Append(feed, row)
    BY <1>5 DEF RowArrives
  <2> HIDE DEF row
  <2>3. feed' \in Seq([token : Tokens, seen : 0..now, ripe : BOOLEAN])
        /\ Len(feed') = Len(feed) + 1
    BY <1>02, <2>1, <2>2, AppendProperties
  <2>4. cursor' = cursor /\ handled' = handled /\ now' = now
    BY <1>5 DEF RowArrives
  <2>5. cursor' \in 0..Len(feed') \cup {Unset} /\ handled' \subseteq 1..Len(feed')
    BY <1>00, <1>02, <2>3, <2>4
  <2> QED
    BY <1>00, <1>01, <1>02, <1>5, <2>3, <2>4, <2>5 DEF RowArrives
<1>6. CASE InitializeCursor
  BY <1>00, <1>1, <1>6 DEF InitializeCursor
<1>7. CASE ProcessRow
  <2>1. cursor \in 0..Len(feed) /\ cursor < Len(feed) /\ cursor + 1 \in 1..Len(feed)
    BY <1>00, <1>02, <1>7 DEF ProcessRow
  <2> DEFINE row == feed[cursor + 1]
  <2>2. row.token \in Tokens /\ row.seen \in Nat
    <3> DEFINE Row == [token : Tokens, seen : 0..now, ripe : BOOLEAN]
    <3>1. feed \in Seq(Row)
      BY <1>02
    <3> HIDE DEF Row
    <3>2. row \in Row
      BY <2>1, <3>1, ElementOfSeq
    <3> QED
      BY <1>00, <3>2 DEF Row
  <2>3. cand' = IF row.ripe /\ now - row.seen <= MaxAge THEN Scheduled(row) ELSE cand
    BY <1>7 DEF ProcessRow
  <2> HIDE DEF row
  <2>4. [state |-> "pending", attempts |-> 0, due |-> row.seen, expires |-> row.seen + MaxAge]
            \in Candidates
    BY <2>2, Constants DEF Candidates
  <2>5. cand' \in [Tokens -> Candidates]
    BY <1>00, <2>2, <2>3, <2>4 DEF Scheduled
  <2>6. handled' \subseteq 1..Len(feed)
    BY <1>02, <1>7, <2>1 DEF ProcessRow
  <2> QED
    BY <1>00, <1>01, <1>02, <1>7, <2>1, <2>5, <2>6 DEF ProcessRow
<1>8. CASE CommitCursor
  <2>1. cursor + 1 \in 0..Len(feed)
    BY <1>0, <1>00, <1>02, <1>8 DEF CommitCursor, CommitPending
  <2> QED
    BY <1>00, <1>1, <1>02, <1>8, <2>1 DEF CommitCursor, OffsetOfRow
<1>9. CASE EndRows \/ NothingToClaim \/ NothingToSend \/ Wait
  BY <1>1, <1>02, <1>9 DEF EndRows, NothingToClaim, NothingToSend, Wait
<1>10. ASSUME NEW t \in Tokens, NEW state \in {"expired", "blocked", "processing"},
              t \in Claimable
       PROVE  Claimed(t, state) \in [Tokens -> Candidates]
  <2>1. cand[t] \in Candidates /\ cand[t].attempts + 1 \in 0..MaxClaims
    BY <1>00, <1>10, Constants DEF Claimable, Candidates
  <2>2. [cand[t] EXCEPT !.state = state, !.attempts = @ + 1] \in Candidates
    BY <2>1 DEF Candidates
  <2>3. Claimed(t, state) = [cand EXCEPT ![t] = [cand[t] EXCEPT !.state = state, !.attempts = @ + 1]]
    BY <1>00 DEF Claimed
  <2> QED
    BY <1>00, <2>2, <2>3
<1>11. ASSUME NEW t \in Tokens, ClaimEnds(t) PROVE TypeOK'
  <2>1. cand' \in [Tokens -> Candidates]
    BY <1>10, <1>11 DEF ClaimEnds
  <2> QED
    BY <1>02, <1>2, <1>11, <2>1 DEF ClaimEnds
<1>12. ASSUME NEW t \in Tokens, Claim(t) PROVE TypeOK'
  <2>1. cand' \in [Tokens -> Candidates]
    BY <1>10, <1>12 DEF Claim
  <2>2. /\ pc' = "info" /\ cur' = t /\ began' = now /\ reply' = None
        /\ UNCHANGED <<feed, cursor, out, provider, flight, copies, handled, now, crashes>>
    BY <1>12 DEF Claim
  <2> QED
    BY <1>00, <1>01, <1>02, <2>1, <2>2 DEF Asking
<1>13. CASE BudgetDenies
  <2>1. cur \in Tokens /\ cand[cur].attempts - 1 \in 0..MaxClaims
    BY <1>4, <1>13, Constants DEF BudgetDenies
  <2>2. cand' \in [Tokens -> Candidates]
    BY <1>0, <1>13, <2>1, DeferralType, ConcludedType DEF BudgetDenies
  <2> QED
    BY <1>02, <1>2, <1>13, <2>2 DEF BudgetDenies
<1>14. CASE EvidenceFails
  <2>1. cur \in Tokens /\ now + Retry \in Nat
    <3>1. cur \in Tokens
      BY <1>4, <1>14 DEF EvidenceFails
    <3> QED
      BY <1>00, <3>1, Constants
  <2>4. cand[cur].attempts \in 0..MaxClaims /\ cand[cur].due \in Nat
    BY <1>00, <2>1 DEF Candidates
  <2>2. cand' \in [Tokens -> Candidates]
    BY <1>0, <1>14, <2>1, <2>4, ConcludedType DEF EvidenceFails
  <2>3. provider' \in Providers
    <3>1. CASE provider' \in Paid
      BY <1>0, <3>1, PaidType
    <3>2. CASE CanReserve /\ provider' = [Reserved EXCEPT !.until = Later(@, now + Penalty)]
      <4>1. Reserved \in Providers
        BY <1>0, <3>2, ReservedType
      <4>2. Later(Reserved.until, now + Penalty) \in Nat
        BY <1>00, <4>1, Constants DEF Later, Providers
      <4> QED
        BY <3>2, <4>1, <4>2 DEF Providers
    <3> QED
      BY <1>14, <3>1, <3>2 DEF EvidenceFails
  <2> QED
    BY <1>2, <1>14, <2>2, <2>3 DEF EvidenceFails
<1>15. CASE EvidenceBlocks
  <2>1. cur \in Tokens /\ cand[cur].attempts \in 0..MaxClaims /\ cand[cur].due \in Nat
    BY <1>00, <1>4, <1>15 DEF EvidenceBlocks, Candidates, Asking
  <2>2. cand' \in [Tokens -> Candidates] /\ provider' \in Providers
    BY <1>0, <1>15, <2>1, ConcludedType, PaidType DEF EvidenceBlocks
  <2> QED
    BY <1>2, <1>15, <2>2 DEF EvidenceBlocks
<1>16. CASE EvidenceContinues
  <2>1. provider' \in Providers
    BY <1>0, <1>16, PaidType DEF EvidenceContinues
  <2> QED
    BY <1>00, <1>01, <1>02, <1>16, <2>1 DEF EvidenceContinues, Asking
<1>17. ASSUME cur \in Tokens, NEW state \in {"expired", "queued"}
       PROVE  [cand EXCEPT ![cur].state = state] \in [Tokens -> Candidates]
  BY <1>00, <1>17 DEF Candidates
<1>18. CASE EvidenceTooLate
  <2>1. cand' \in [Tokens -> Candidates] /\ provider' \in Providers
    BY <1>0, <1>4, <1>17, <1>18, PaidType DEF EvidenceTooLate, Asking
  <2> QED
    BY <1>2, <1>18, <2>1 DEF EvidenceTooLate
<1>19. CASE EvidencePasses
  <2>1. PICK valid \in now..Sooner(cand[cur].expires, now + FreshFor) :
            out' = Notified(cur, [state |-> "pending", valid |-> valid])
    BY <1>19 DEF EvidencePasses
  <2>2. valid \in Nat
    BY <1>00, <2>1
  <2>3. out' \in [Tokens -> Messages]
    BY <1>02, <2>1, <2>2 DEF Notified, Messages
  <2>4. provider' \in Providers
    BY <1>0, <1>19, PaidType DEF EvidencePasses
  <2> QED
    BY <1>00, <1>01, <1>02, <1>19, <2>3, <2>4 DEF EvidencePasses
<1>20. CASE FinishQueued
  <2>1. cur \in Tokens
    BY <1>0, <1>20 DEF FinishQueued, HeldCandidate
  <2>2. cand' \in [Tokens -> Candidates]
    BY <1>17, <1>20, <2>1 DEF FinishQueued
  <2> QED
    BY <1>02, <1>2, <1>20, <2>2 DEF FinishQueued
<1>21. ASSUME NEW t \in Tokens, DeliverExpired(t) PROVE TypeOK'
  <2>1. out' \in [Tokens -> Messages]
    BY <1>02, <1>21 DEF DeliverExpired, Messages
  <2> QED
    BY <1>3, <1>21, <2>1 DEF DeliverExpired
<1>22. ASSUME NEW t \in Tokens, Send(t) PROVE TypeOK'
  <2>1. out' \in [Tokens -> Messages]
    BY <1>02, <1>22 DEF Send, Messages
  <2>2. /\ flight' = [flight EXCEPT ![t] = TRUE]
        /\ pc' = "sending" /\ cur' = t /\ began' = 0 /\ reply' = None
        /\ UNCHANGED <<feed, cursor, cand, provider, copies, handled, now, crashes>>
    BY <1>22 DEF Send
  <2>3. flight' \in [Tokens -> BOOLEAN]
    BY <1>02, <2>2
  <2> QED
    BY <1>00, <1>01, <1>02, <2>1, <2>2, <2>3
<1>23. CASE MarkSent \/ MarkUnknown
  <2>1. cur \in Tokens
    BY <1>0, <1>23 DEF MarkSent, MarkUnknown, HeldMessage
  <2>2. out' \in [Tokens -> Messages]
    <3>1. PICK state \in {"sent", "unknown"} : out' = [out EXCEPT ![cur].state = state]
      BY <1>23 DEF MarkSent, MarkUnknown, AfterSendError
    <3> QED
      BY <1>02, <2>1, <3>1 DEF Messages
  <2> QED
    BY <1>3, <1>23, <2>2 DEF MarkSent, MarkUnknown
<1>24. ASSUME NEW t \in Tokens, TelegramAccepts(t) PROVE TypeOK'
  <2>1. copies' \in [Tokens -> Nat] /\ flight' \in [Tokens -> BOOLEAN]
        /\ reply' \in {None, "ok", "error"}
    BY <1>02, <1>24 DEF TelegramAccepts
  <2> QED
    BY <1>00, <1>01, <1>02, <1>24, <2>1 DEF TelegramAccepts
<1>25. ASSUME NEW t \in Tokens, TelegramFails(t) PROVE TypeOK'
  <2>1. flight' \in [Tokens -> BOOLEAN]
    BY <1>02, <1>25 DEF TelegramFails
  <2> QED
    BY <1>00, <1>01, <1>02, <1>25, <2>1 DEF TelegramFails
<1>26. CASE Tick
  <2>1. now' \in Nat /\ 0..now \subseteq 0..now'
    BY <1>00, <1>26 DEF Tick
  <2>2. feed' \in Seq([token : Tokens, seen : 0..now', ripe : BOOLEAN])
    <3>1. [token : Tokens, seen : 0..now, ripe : BOOLEAN]
              \subseteq [token : Tokens, seen : 0..now', ripe : BOOLEAN]
      BY <2>1
    <3>2. feed \in Seq([token : Tokens, seen : 0..now', ripe : BOOLEAN])
      BY ONLY <1>02, <3>1, SeqMonotonic
    <3> QED
      BY <1>26, <3>2 DEF Tick
  <2>3. began' \in 0..now'
    BY <1>02, <1>26, <2>1 DEF Tick
  <2> QED
    BY <1>00, <1>01, <1>02, <1>26, <2>1, <2>2, <2>3 DEF Tick
<1>27. CASE Crash
  <2>1. provider' \in Providers
    <3>1. Paid \subseteq Providers /\ provider \in Providers
      BY ONLY <1>0, <1>02, PaidType
    <3>2. provider' \in {provider} \cup Paid
      BY ONLY <1>27 DEF Crash
    <3> QED
      BY ONLY <3>1, <3>2
  <2> QED
    BY <1>00, <1>01, <1>02, <1>27, <2>1 DEF Crash
<1>28. CASE Restart
  <2>1. \A t \in Tokens : Interrupted(t) \in Candidates
    BY <1>00 DEF Interrupted, Candidates
  <2>2. cand' \in [Tokens -> Candidates]
    BY <1>00, <1>28, <2>1 DEF Restart
  <2>3. out' \in [Tokens -> Messages]
    BY <1>02, <1>28 DEF Restart, Messages
  <2> QED
    BY <1>00, <1>01, <1>02, <1>28, <2>2, <2>3 DEF Restart
<1>29. CASE UNCHANGED vars
  BY <1>00, <1>01, <1>02, <1>29 DEF vars
<1> QED
  BY <1>5, <1>6, <1>7, <1>8, <1>9, <1>11, <1>12, <1>13, <1>14, <1>15, <1>16, <1>18, <1>19,
     <1>20, <1>21, <1>22, <1>23, <1>24, <1>25, <1>26, <1>27, <1>28, <1>29
     DEF Next, Loop, Rows, Candidate, Deliver

------------------------------------------------------------------------------
(***************************************************************************)
(* A candidate is claimed with its attempt counted, and its row is written  *)
(* again only when the loop lets it go.                                    *)
(***************************************************************************)
LEMMA StepHeld == IInv /\ [Next]_vars => HeldCandidate'
<1> SUFFICES ASSUME IInv, [Next]_vars PROVE HeldCandidate'
  OBVIOUS
<1>0. HeldCandidate /\ cand \in [Tokens -> Candidates]
  BY DEF IInv, TypeOK, Candidates
<1> USE DEF HeldCandidate, Asking, tables, memory, world, clocks, Goes
<1>1. ASSUME NEW t \in Tokens, Claim(t) PROVE HeldCandidate'
  <2>1. cand' = [cand EXCEPT ![t].state = "processing", ![t].attempts = @ + 1]
        /\ cur' = t /\ pc' = "info"
    BY <1>1 DEF Claim, Claimed
  <2>2. cand'[t].state = "processing" /\ cand'[t].attempts = cand[t].attempts + 1
    BY <1>0, <2>1 DEF Candidates
  <2>3. cand[t].attempts \in Nat
    BY <1>0, Constants DEF Candidates
  <2> QED
    BY <2>1, <2>2, <2>3
<1>2. CASE EvidenceContinues \/ EvidencePasses
  BY <1>0, <1>2 DEF EvidenceContinues, EvidencePasses
<1>3. ASSUME pc' \notin {"info", "trenches", "checks", "notify"} PROVE HeldCandidate'
  BY <1>3
<1>4. ASSUME UNCHANGED <<pc, cur, cand>> PROVE HeldCandidate'
  BY <1>0, <1>4
<1>5. CASE Rows
  BY <1>3, <1>5 DEF Rows, InitializeCursor, ProcessRow, CommitCursor, EndRows
<1>6. CASE NothingToClaim \/ BudgetDenies \/ EvidenceFails \/ EvidenceBlocks \/ EvidenceTooLate
           \/ FinishQueued
  BY <1>3, <1>6 DEF NothingToClaim, BudgetDenies, EvidenceFails, EvidenceBlocks, EvidenceTooLate,
                    FinishQueued
<1>7. ASSUME NEW t \in Tokens, ClaimEnds(t) \/ DeliverExpired(t) \/ Send(t) PROVE HeldCandidate'
  BY <1>3, <1>7 DEF ClaimEnds, DeliverExpired, Send
<1>8. CASE NothingToSend \/ MarkSent \/ MarkUnknown \/ Wait \/ Restart \/ Crash
  BY <1>3, <1>8 DEF NothingToSend, MarkSent, MarkUnknown, Wait, Restart, Crash
<1>9. ASSUME NEW t \in Tokens, NEW ripe \in BOOLEAN,
             RowArrives(t, ripe) \/ TelegramAccepts(t) \/ TelegramFails(t)
      PROVE  HeldCandidate'
  BY <1>4, <1>9 DEF RowArrives, TelegramAccepts, TelegramFails
<1>10. CASE Tick \/ UNCHANGED vars
  BY <1>4, <1>10 DEF Tick, vars
<1> QED
  BY <1>1, <1>2, <1>5, <1>6, <1>7, <1>8, <1>9, <1>10 DEF Next, Loop, Candidate, Deliver

(***************************************************************************)
(* The cursor moves over one row, which is done by then; a crash between    *)
(* the two leaves it before that row.                                      *)
(***************************************************************************)
LEMMA StepFile == IInv /\ [Next]_vars => File'
<1> SUFFICES ASSUME IInv, [Next]_vars PROVE File'
  OBVIOUS
<1>0. /\ CommitPending /\ NoRowLost
      /\ cursor \in 0..Len(feed) \cup {Unset} /\ Len(feed) \in Nat
  BY DEF IInv, File, TypeOK
<1>00. cursor # Unset => cursor \in Nat
  BY <1>0
<1> USE DEF File, CommitPending, NoRowLost, tables, memory, world, clocks, Goes
<1>1. CASE InitializeCursor
  BY <1>0, <1>1 DEF InitializeCursor
<1>2. CASE ProcessRow
  BY <1>0, <1>2 DEF ProcessRow
<1>3. CASE CommitCursor
  <2>1. cursor \in Nat /\ cursor + 1 \in handled /\ 1..cursor \subseteq handled
        /\ cursor' = cursor + 1 /\ handled' = handled /\ pc' = "rows"
    BY <1>0, <1>00, <1>3 DEF CommitCursor, OffsetOfRow
  <2>2. 1..(cursor + 1) \subseteq handled
    BY <2>1
  <2> QED
    BY <2>1, <2>2
<1>4. ASSUME UNCHANGED <<feed, cursor, handled>>, pc' = "commit" => pc = "commit" PROVE File'
  BY <1>0, <1>4
<1>5. ASSUME NEW t \in Tokens, NEW ripe \in BOOLEAN, RowArrives(t, ripe) PROVE File'
  <2>1. /\ UNCHANGED <<cursor, handled, pc>>
        /\ feed' = Append(feed, [token |-> t, seen |-> now, ripe |-> ripe])
    BY <1>5 DEF RowArrives
  <2>2. feed \in Seq([token : Tokens, seen : 0..now, ripe : BOOLEAN])
    BY DEF IInv, TypeOK
  <2>3. Len(feed') = Len(feed) + 1
    BY <2>1, <2>2
  <2>4. pc = "commit" => cursor \in Nat /\ cursor < Len(feed')
    BY <1>0, <1>00, <2>3
  <2> QED
    BY <1>0, <2>1, <2>4
<1>6. CASE EndRows \/ NothingToClaim \/ BudgetDenies \/ EvidenceFails \/ EvidenceBlocks
           \/ EvidenceContinues \/ EvidenceTooLate \/ EvidencePasses \/ FinishQueued
  BY <1>4, <1>6 DEF EndRows, NothingToClaim, BudgetDenies, EvidenceFails, EvidenceBlocks,
                    EvidenceContinues, EvidenceTooLate, EvidencePasses, FinishQueued
<1>7. ASSUME NEW t \in Tokens, \/ ClaimEnds(t) \/ Claim(t) \/ DeliverExpired(t) \/ Send(t)
                               \/ TelegramAccepts(t) \/ TelegramFails(t)
      PROVE  File'
  BY <1>4, <1>7 DEF ClaimEnds, Claim, DeliverExpired, Send, TelegramAccepts, TelegramFails
<1>8. CASE NothingToSend \/ MarkSent \/ MarkUnknown \/ Wait \/ Restart \/ Crash \/ Tick
           \/ UNCHANGED vars
  BY <1>4, <1>8 DEF NothingToSend, MarkSent, MarkUnknown, Wait, Restart, Crash, Tick, vars
<1> QED
  BY <1>1, <1>2, <1>3, <1>5, <1>6, <1>7, <1>8 DEF Next, Loop, Rows, Candidate, Deliver

------------------------------------------------------------------------------
(***************************************************************************)
(* The outbox: a row is claimed as it is sent, so that no second request is *)
(* made of it, whatever becomes of the first.                              *)
(***************************************************************************)
LEMMA StepOutbox == IInv /\ [Next]_vars => Outbox'
<1> SUFFICES ASSUME IInv, [Next]_vars PROVE Outbox'
  OBVIOUS
<1>0. /\ HeldMessage /\ FlightLeft /\ SentOnce /\ HeldCandidate
      /\ out \in [Tokens -> Messages] /\ flight \in [Tokens -> BOOLEAN]
      /\ copies \in [Tokens -> Nat]
  BY DEF IInv, Outbox, TypeOK, Messages
<1> USE DEF Outbox, HeldMessage, FlightLeft, SentOnce, tables, memory, world, clocks, Goes
<1>1. ASSUME UNCHANGED <<out, world>>, pc' = "sending" => UNCHANGED <<pc, cur, reply>>
      PROVE  Outbox'
  BY <1>0, <1>1
(* a message that nothing was sent of is written, or one is let go *)
<1>2. ASSUME UNCHANGED world, pc' # "sending",
             \A t \in Tokens : \/ out'[t] = out[t]
                               \/ out[t].state = None /\ out'[t].state = "pending"
                               \/ out'[t].state = "unknown"
                               \/ out'[t].state = "sent" /\ ~ flight[t]
      PROVE  Outbox'
  BY <1>0, <1>2 DEF None
<1>3. CASE EvidencePasses
  <2>1. PICK valid : out' = Notified(cur, [state |-> "pending", valid |-> valid])
    BY <1>3 DEF EvidencePasses
  <2>2. pc' = "notify" /\ UNCHANGED world
    BY <1>3 DEF EvidencePasses
  <2>3. \A t \in Tokens : \/ out'[t] = out[t]
                          \/ out[t].state = None /\ out'[t].state = "pending"
    BY <1>0, <2>1 DEF Notified
  <2> QED
    BY <1>2, <2>2, <2>3
<1>4. ASSUME NEW t \in Tokens, DeliverExpired(t) PROVE Outbox'
  <2>1. \A u \in Tokens : out'[u] = out[u] \/ out'[u].state = "unknown"
    BY <1>0, <1>4 DEF DeliverExpired, Messages
  <2> QED
    BY <1>2, <1>4, <2>1 DEF DeliverExpired
<1>5. ASSUME NEW t \in Tokens, Send(t) PROVE Outbox'
  <2>1. /\ out[t].state = "pending" /\ pc' = "sending" /\ cur' = t /\ reply' = None
        /\ copies' = copies /\ flight' = [flight EXCEPT ![t] = TRUE]
        /\ out' = [out EXCEPT ![t].state = "sending"]
    BY <1>5 DEF Send
  <2>2. /\ out'[t].state = "sending" /\ \A u \in Tokens \ {t} : out'[u] = out[u]
        /\ \A u \in Tokens \ {t} : flight'[u] = flight[u]
    BY <1>0, <2>1 DEF Messages
  <2>3. copies[t] = 0
    <3>1. copies[t] \in Nat /\ ~ (copies[t] > 0)
      BY <1>0, <2>1
    <3> QED
      BY <3>1
  <2>4. HeldMessage'
    BY <2>1, <2>2 DEF None
  <2>5. FlightLeft' /\ SentOnce'
    BY <1>0, <2>1, <2>2, <2>3 DEF None
  <2> QED
    BY <2>4, <2>5
<1>6. CASE MarkSent
  <2>1. pc = "sending" /\ cur \in Tokens /\ ~ flight[cur]
    BY <1>0, <1>6 DEF MarkSent
  <2>2. \A u \in Tokens : out'[u] = out[u] \/ (out'[u].state = "sent" /\ ~ flight[u])
    BY <1>0, <1>6, <2>1 DEF MarkSent, Messages
  <2> QED
    BY <1>2, <1>6, <2>2 DEF MarkSent
<1>7. CASE MarkUnknown
  <2>1. \A u \in Tokens : out'[u] = out[u] \/ out'[u].state = "unknown"
    BY <1>0, <1>7 DEF MarkUnknown, AfterSendError, Messages
  <2> QED
    BY <1>2, <1>7, <2>1 DEF MarkUnknown
<1>8. CASE Restart
  <2>1. \A u \in Tokens : out'[u] = out[u] \/ out'[u].state = "unknown"
    BY <1>0, <1>8 DEF Restart, Messages
  <2> QED
    BY <1>2, <1>8, <2>1 DEF Restart
<1>9. ASSUME NEW t \in Tokens, TelegramAccepts(t) PROVE Outbox'
  <2>1. /\ flight[t] /\ out' = out /\ pc' = pc /\ cur' = cur
        /\ flight' = [flight EXCEPT ![t] = FALSE]
        /\ copies' = [copies EXCEPT ![t] = @ + 1]
        /\ reply' = reply \/ cur = t
    BY <1>9 DEF TelegramAccepts, Awaited
  <2>2. copies[t] = 0 /\ out[t].state \in {"sending", "unknown"}
    BY <1>0, <2>1
  <2>3. /\ ~ flight'[t] /\ copies'[t] = 1
        /\ \A u \in Tokens \ {t} : copies'[u] = copies[u] /\ flight'[u] = flight[u]
    BY <1>0, <2>1, <2>2
  <2>4. HeldMessage'
    BY <1>0, <2>1, <2>3
  <2>5. FlightLeft' /\ SentOnce'
    BY <1>0, <2>1, <2>2, <2>3 DEF None
  <2> QED
    BY <2>4, <2>5
<1>10. ASSUME NEW t \in Tokens, TelegramFails(t) PROVE Outbox'
  <2>1. /\ out' = out /\ pc' = pc /\ cur' = cur /\ copies' = copies /\ reply' = "error"
        /\ flight[t] /\ \A u \in Tokens : flight'[u] => flight[u]
    BY <1>0, <1>10 DEF TelegramFails
  <2> QED
    BY <1>0, <2>1
<1>11. CASE Rows
  BY <1>1, <1>11 DEF Rows, InitializeCursor, ProcessRow, CommitCursor, EndRows
<1>12. CASE NothingToClaim \/ BudgetDenies \/ EvidenceFails \/ EvidenceBlocks
            \/ EvidenceContinues \/ EvidenceTooLate \/ FinishQueued
  BY <1>1, <1>12 DEF NothingToClaim, BudgetDenies, EvidenceFails, EvidenceBlocks,
                     EvidenceContinues, EvidenceTooLate, FinishQueued
<1>13. ASSUME NEW t \in Tokens, NEW ripe \in BOOLEAN,
              RowArrives(t, ripe) \/ ClaimEnds(t) \/ Claim(t)
       PROVE  Outbox'
  BY <1>1, <1>13 DEF RowArrives, ClaimEnds, Claim
<1>14. CASE NothingToSend \/ Wait \/ Crash \/ Tick \/ UNCHANGED vars
  BY <1>1, <1>14 DEF NothingToSend, Wait, Crash, Tick, vars
<1> QED
  BY <1>3, <1>4, <1>5, <1>6, <1>7, <1>8, <1>9, <1>10, <1>11, <1>12, <1>13, <1>14
     DEF Next, Loop, Candidate, Deliver

------------------------------------------------------------------------------
(***************************************************************************)
(* Whatever the loop leaves, it has written first: only a crash leaves a    *)
(* row half done, and the restart repairs every one of them.               *)
(***************************************************************************)
LEMMA StepStranded == IInv /\ [Next]_vars => NothingStranded'
<1> SUFFICES ASSUME IInv, [Next]_vars PROVE NothingStranded'
  OBVIOUS
<1>0. /\ TypeOK /\ HeldCandidate /\ HeldMessage /\ NothingStranded
      /\ cand \in [Tokens -> Candidates] /\ out \in [Tokens -> Messages]
  BY DEF IInv, Outbox, TypeOK, Candidates, Messages
<1> USE DEF NothingStranded, Asking, tables, memory, world, clocks, Goes
(* a step of the loop in which no row is in hand, and writes none as if it were *)
<1>1. ASSUME pc \notin Asking \cup {"notify", "sending", "down"},
             \A t \in Tokens : cand'[t] = cand[t] \/ cand'[t].state # "processing",
             \A t \in Tokens : out'[t] = out[t] \/ out'[t].state # "sending"
      PROVE  NothingStranded'
  BY <1>0, <1>1
(* one that lets go of the candidate in hand *)
<1>2. ASSUME pc \in Asking \cup {"notify"}, out' = out,
             cand'[cur].state # "processing",
             \A t \in Tokens : t # cur => cand'[t] = cand[t]
      PROVE  NothingStranded'
  BY <1>0, <1>2
(* one that keeps it *)
<1>3. ASSUME cand' = cand, \A t \in Tokens : out'[t] = out[t] \/ out'[t].state # "sending",
             cur' = cur, pc' = pc \/ (pc \in Asking /\ pc' \in Asking \cup {"notify"})
      PROVE  NothingStranded'
  BY <1>0, <1>3
<1>4. CASE Rows \/ NothingToClaim \/ NothingToSend \/ Wait
  <2>1. CASE ProcessRow
    <3> DEFINE row == feed[cursor + 1]
    <3>1. cand' = IF row.ripe /\ now - row.seen <= MaxAge THEN Scheduled(row) ELSE cand
      BY <2>1 DEF ProcessRow
    <3> HIDE DEF row
    <3>2. \A t \in Tokens : cand'[t] = cand[t] \/ cand'[t].state # "processing"
      BY <1>0, <3>1 DEF Scheduled
    <3> QED
      BY <1>1, <2>1, <3>2 DEF ProcessRow
  <2>2. CASE ~ ProcessRow
    BY <1>1, <1>4, <2>2 DEF Rows, InitializeCursor, CommitCursor, EndRows, NothingToClaim,
                            NothingToSend, Wait
  <2> QED
    BY <2>1, <2>2
<1>5. ASSUME NEW t \in Tokens, ClaimEnds(t) PROVE NothingStranded'
  <2>1. PICK state \in {"expired", "blocked"} :
            cand' = [cand EXCEPT ![t].state = state, ![t].attempts = @ + 1]
    BY <1>5 DEF ClaimEnds, Claimed
  <2>2. \A u \in Tokens : cand'[u] = cand[u] \/ cand'[u].state # "processing"
    BY <1>0, <2>1 DEF Candidates
  <2> QED
    BY <1>1, <1>5, <2>2 DEF ClaimEnds
<1>6. ASSUME NEW t \in Tokens, Claim(t) PROVE NothingStranded'
  <2>1. \A u \in Tokens : u # t => cand'[u] = cand[u]
    BY <1>0, <1>6 DEF Claim, Claimed
  <2>2. pc = "claim" /\ pc' = "info" /\ cur' = t /\ out' = out
    BY <1>6 DEF Claim
  <2> QED
    BY <1>0, <2>1, <2>2
<1>7. CASE BudgetDenies \/ EvidenceFails \/ EvidenceBlocks
  <2>1. pc \in Asking /\ out' = out
    BY <1>7 DEF BudgetDenies, EvidenceFails, EvidenceBlocks
  <2>2. cur \in Tokens /\ cand[cur] \in Candidates /\ cand[cur].attempts > 0
    BY <1>0, <2>1 DEF HeldCandidate
  <2>3. /\ cand[cur].attempts \in 0..MaxClaims /\ cand[cur].attempts - 1 \in 0..MaxClaims
        /\ cand[cur].due \in Nat /\ now + Retry \in Nat /\ DeferredTo \in Nat
    <3>1. cand[cur].attempts \in 0..MaxClaims /\ cand[cur].due \in Nat
      BY <2>2 DEF Candidates
    <3>2. cand[cur].attempts - 1 \in 0..MaxClaims
      BY <2>2, <3>1, Constants
    <3>3. DeferredTo \in Nat
      BY <1>0, <2>2, DeferralType
    <3>4. now \in Nat
      BY <1>0 DEF TypeOK
    <3> QED
      BY <3>1, <3>2, <3>3, <3>4, Constants
  <2>4. PICK state \in {"pending", "blocked"}, attempts \in 0..MaxClaims, due \in Nat :
            cand' = Concluded(state, attempts, due)
    <3>1. CASE BudgetDenies
      BY <2>3, <3>1 DEF BudgetDenies
    <3>2. CASE EvidenceFails
      BY <2>3, <3>2 DEF EvidenceFails
    <3>3. CASE EvidenceBlocks
      BY <2>3, <3>3 DEF EvidenceBlocks
    <3> QED
      BY <1>7, <3>1, <3>2, <3>3
  <2> QED
    BY <1>0, <1>2, <2>1, <2>2, <2>4, ConcludedType
<1>8. CASE EvidenceTooLate \/ FinishQueued
  <2>1. PICK state \in {"expired", "queued"} : cand' = [cand EXCEPT ![cur].state = state]
    BY <1>8 DEF EvidenceTooLate, FinishQueued
  <2>2. pc \in Asking \cup {"notify"} /\ out' = out
    BY <1>8 DEF EvidenceTooLate, FinishQueued
  <2>3. cur \in Tokens
    BY <1>0, <2>2 DEF HeldCandidate
  <2>4. cand'[cur].state # "processing" /\ \A t \in Tokens : t # cur => cand'[t] = cand[t]
    BY <1>0, <2>1, <2>3 DEF Candidates
  <2> QED
    BY <1>2, <2>2, <2>4
<1>9. CASE EvidenceContinues
  BY <1>3, <1>9 DEF EvidenceContinues
<1>10. CASE EvidencePasses
  <2>1. PICK valid : out' = Notified(cur, [state |-> "pending", valid |-> valid])
    BY <1>10 DEF EvidencePasses
  <2>2. \A t \in Tokens : out'[t] = out[t] \/ out'[t].state # "sending"
    BY <1>0, <2>1 DEF Notified
  <2> QED
    BY <1>3, <1>10, <2>2 DEF EvidencePasses
<1>11. ASSUME NEW t \in Tokens, DeliverExpired(t) PROVE NothingStranded'
  <2>1. \A u \in Tokens : out'[u] = out[u] \/ out'[u].state # "sending"
    BY <1>0, <1>11 DEF DeliverExpired, Messages
  <2> QED
    BY <1>1, <1>11, <2>1 DEF DeliverExpired
<1>12. ASSUME NEW t \in Tokens, Send(t) PROVE NothingStranded'
  <2>1. \A u \in Tokens : u # t => out'[u] = out[u]
    BY <1>0, <1>12 DEF Send
  <2>2. pc = "deliver" /\ pc' = "sending" /\ cur' = t /\ cand' = cand
    BY <1>12 DEF Send
  <2> QED
    BY <1>0, <2>1, <2>2
<1>13. CASE MarkSent \/ MarkUnknown
  <2>1. PICK state \in {"sent", "unknown"} : out' = [out EXCEPT ![cur].state = state]
    BY <1>13 DEF MarkSent, MarkUnknown, AfterSendError
  <2>2. pc = "sending" /\ cand' = cand
    BY <1>13 DEF MarkSent, MarkUnknown
  <2>3. cur \in Tokens
    BY <1>0, <2>2 DEF HeldMessage
  <2>4. out'[cur].state # "sending" /\ \A u \in Tokens : u # cur => out'[u] = out[u]
    BY <1>0, <2>1, <2>3 DEF Messages
  <2> QED
    BY <1>0, <2>2, <2>4
<1>14. CASE Restart
  <2>1. \A t \in Tokens : cand'[t].state # "processing"
    <3>1. \A t \in Tokens : Interrupted(t).state # "processing"
      BY <1>0 DEF Interrupted, Candidates
    <3> QED
      BY <1>14, <3>1 DEF Restart
  <2>2. \A t \in Tokens : out'[t].state # "sending"
    BY <1>0, <1>14 DEF Restart, Messages
  <2> QED
    BY <2>1, <2>2
<1>15. CASE Crash
  BY <1>15 DEF Crash
<1>16. ASSUME NEW t \in Tokens, NEW ripe \in BOOLEAN,
              RowArrives(t, ripe) \/ TelegramAccepts(t) \/ TelegramFails(t)
       PROVE  NothingStranded'
  BY <1>3, <1>16 DEF RowArrives, TelegramAccepts, TelegramFails
<1>17. CASE Tick \/ UNCHANGED vars
  BY <1>3, <1>17 DEF Tick, vars
<1> QED
  BY <1>4, <1>5, <1>6, <1>7, <1>8, <1>9, <1>10, <1>11, <1>12, <1>13, <1>14, <1>15, <1>16, <1>17
     DEF Next, Loop, Candidate, Deliver

------------------------------------------------------------------------------
(* The invariant holds throughout. *)
LEMMA InvariantIInv == Spec => []IInv
<1>1. IInv /\ [Next]_vars => IInv'
  BY StepTypeOK, StepHeld, StepFile, StepOutbox, StepStranded DEF IInv
<1> QED
  BY <1>1, InitIInv, PTL DEF Spec

(***************************************************************************)
(* The database, the file and Telegram are what the module declares: the    *)
(* calls charged to a provider window never exceed its limit, although two  *)
(* of them are charged at the instant the evidence began, and a candidate's *)
(* attempts stay within 0..MaxClaims, although a deferral takes one back.   *)
(***************************************************************************)
THEOREM TypeCorrect == Spec => []TypeOK
<1>1. IInv => TypeOK
  BY DEF IInv
<1> QED
  BY <1>1, InvariantIInv, PTL

(***************************************************************************)
(* process_row before commit_cursor: whatever crashes, what lies before the *)
(* cursor was processed to its end.                                        *)
(***************************************************************************)
THEOREM RowsAreKept == Spec => []NoRowLost
<1>1. IInv => NoRowLost
  BY DEF IInv, File
<1> QED
  BY <1>1, InvariantIInv, PTL

(***************************************************************************)
(* No candidate is left "processing" and no message "sending" by a loop     *)
(* that goes on: the repairs of initialize suffice.                        *)
(***************************************************************************)
THEOREM NoneIsStranded == Spec => []NothingStranded
<1>1. IInv => NothingStranded
  BY DEF IInv
<1> QED
  BY <1>1, InvariantIInv, PTL

------------------------------------------------------------------------------
(***************************************************************************)
(* The refinement: what the outbox shows of each token.                     *)
(***************************************************************************)
Status == [t \in Tokens |->
            CASE out[t].state = None                     -> "none"
              [] out[t].state \in {"pending", "sending"} -> "queued"
              [] out[t].state = "sent"                   -> "sent"
              [] out[t].state = "unknown"                -> "failed"]

Holder == [t \in Tokens |-> IF out[t].state = None THEN << >> ELSE <<t>>]

(* The same of any table. *)
Look(o) ==
    [t \in Tokens |->
        IF o[t].state = None THEN "none"
        ELSE IF o[t].state \in {"pending", "sending"} THEN "queued"
        ELSE IF o[t].state = "sent" THEN "sent" ELSE "failed"]

LEMMA StatusIs == TypeOK => Status = Look(out)
<1> SUFFICES ASSUME TypeOK, NEW t \in Tokens PROVE Status[t] = Look(out)[t]
  BY DEF Status, Look
<1>1. out[t].state \in {None, "pending", "sending", "sent", "unknown"}
  BY DEF TypeOK
<1> QED
  BY <1>1 DEF Status, Look, None

LEMMA StatusIsNext == TypeOK' => Status' = Look(out')
<1>1. (TypeOK => Status = Look(out))'
  BY StatusIs, PTL
<1> QED
  BY <1>1

(* The empty outbox is what AlertDelivery starts from. *)
LEMMA InitRefines == Init => Delivery!Init
<1> SUFFICES ASSUME Init PROVE Delivery!Init
  OBVIOUS
<1>1. TypeOK
  BY InitIInv DEF IInv
<1>2. Status = [t \in Tokens |-> "none"]
  BY <1>1, StatusIs DEF Look, Init, NoMessage
<1>3. Holder = [t \in Tokens |-> << >>] /\ copies = [t \in Tokens |-> 0]
  BY DEF Init, NoMessage, Holder
<1> QED
  BY <1>2, <1>3 DEF Delivery!Init, Status, Holder

(***************************************************************************)
(* Messages that wait or are being sent are given up together.              *)
(***************************************************************************)
LEMMA GiveUpRefines ==
    ASSUME TypeOK, TypeOK', copies' = copies, NEW ts \in SUBSET Tokens, ts # {},
           \A t \in ts : /\ out[t].state \in {"pending", "sending"}
                         /\ out'[t].state = "unknown",
           \A t \in Tokens \ ts : out'[t] = out[t]
    PROVE  Delivery!Next
<1>1. Status = Look(out) /\ Status' = Look(out')
  BY StatusIs, StatusIsNext
<1>2. \A t \in ts : Status[t] = "queued"
  BY <1>1 DEF Look, None
<1>3. Status' = [t \in Tokens |-> IF t \in ts THEN "failed" ELSE Status[t]]
  BY <1>1 DEF Look, None
<1>4. Holder' = Holder
  BY DEF Holder, None
<1>5. Delivery!GiveUp(ts)
  BY <1>2, <1>3, <1>4 DEF Delivery!GiveUp, Status, Holder
<1> QED
  BY <1>5 DEF Delivery!Next

(***************************************************************************)
(* Every step of the loop, Telegram, the file, the clock or a crash is a    *)
(* step of AlertDelivery or leaves it as it is.                            *)
(***************************************************************************)
LEMMA StepRefines ==
    IInv /\ IInv' /\ [Next]_vars => [Delivery!Next]_(Delivery!deliveryVars)
<1> SUFFICES ASSUME IInv, IInv', [Next]_vars
             PROVE  Delivery!Next \/ UNCHANGED <<Status, Holder, copies>>
  BY DEF Delivery!deliveryVars, Status, Holder
<1>0. /\ TypeOK /\ TypeOK' /\ HeldCandidate /\ HeldMessage /\ FlightLeft /\ SentOnce
      /\ out \in [Tokens -> Messages] /\ copies \in [Tokens -> Nat]
  BY DEF IInv, Outbox, TypeOK, Messages
<1>00. Status = Look(out) /\ Status' = Look(out')
  BY <1>0, StatusIs, StatusIsNext
<1> USE DEF tables, memory, world, clocks, Goes
<1>1. ASSUME out' = out, copies' = copies PROVE UNCHANGED <<Status, Holder, copies>>
  BY <1>1 DEF Status, Holder
<1>2. CASE EvidencePasses
  <2>1. PICK valid : out' = Notified(cur, [state |-> "pending", valid |-> valid])
    BY <1>2 DEF EvidencePasses
  <2>2. cur \in Tokens /\ copies' = copies
    BY <1>0, <1>2 DEF EvidencePasses, HeldCandidate, Asking
  <2>3. CASE out[cur].state # None
    BY <1>1, <2>1, <2>2, <2>3 DEF Notified
  <2>4. CASE out[cur].state = None
    <3> PICK t \in Tokens : t = cur
      BY <2>2
    <3>1. /\ out[t].state = None
          /\ out' = [out EXCEPT ![t] = [state |-> "pending", valid |-> valid]]
      BY <2>1, <2>4 DEF Notified
    <3>2. out'[t].state = "pending" /\ \A u \in Tokens \ {t} : out'[u] = out[u]
      BY <1>0, <3>1
    <3>3. Status[t] = "none"
      BY <1>00, <3>1 DEF Look
    <3>4. \A u \in Tokens : Holder[u] # <<t>>
      BY <3>1 DEF Holder
    <3>5. Status' = [Status EXCEPT ![t] = "queued"]
      BY <1>00, <3>2 DEF Look, None
    <3>6. Holder' = [Holder EXCEPT ![t] = <<t>>]
      BY <3>2 DEF Holder, None
    <3>7. Delivery!Queue(t, <<t>>)
      BY <2>2, <3>3, <3>4, <3>5, <3>6 DEF Delivery!Queue, Status, Holder
    <3> QED
      BY <3>7 DEF Delivery!Next
  <2> QED
    BY <2>3, <2>4
<1>3. ASSUME NEW t \in Tokens, DeliverExpired(t) PROVE Delivery!Next
  <2>1. out[t].state = "pending" /\ out' = [out EXCEPT ![t].state = "unknown"] /\ copies' = copies
    BY <1>3 DEF DeliverExpired
  <2>2. out'[t].state = "unknown" /\ \A u \in Tokens \ {t} : out'[u] = out[u]
    BY <1>0, <2>1 DEF Messages
  <2> PICK ts \in SUBSET Tokens : ts = {t}
    OBVIOUS
  <2> QED
    BY <1>0, <2>1, <2>2, GiveUpRefines
<1>4. ASSUME NEW t \in Tokens, Send(t) PROVE UNCHANGED <<Status, Holder, copies>>
  <2>1. out[t].state = "pending" /\ out' = [out EXCEPT ![t].state = "sending"] /\ copies' = copies
    BY <1>4 DEF Send
  <2>2. out'[t].state = "sending" /\ \A u \in Tokens \ {t} : out'[u] = out[u]
    BY <1>0, <2>1 DEF Messages
  <2>3. Look(out') = Look(out)
    BY <2>1, <2>2 DEF Look, None
  <2>4. Holder' = Holder
    BY <2>1, <2>2 DEF Holder, None
  <2> QED
    BY <1>00, <2>1, <2>3, <2>4
<1>5. CASE MarkSent
  <2>1. /\ cur \in Tokens /\ out[cur].state = "sending" /\ copies[cur] > 0
        /\ copies' = copies /\ out' = [out EXCEPT ![cur].state = "sent"]
    BY <1>0, <1>5 DEF MarkSent, HeldMessage
  <2> PICK t \in Tokens : t = cur
    BY <2>1
  <2>2. out'[t].state = "sent" /\ \A u \in Tokens \ {t} : out'[u] = out[u]
    BY <1>0, <2>1 DEF Messages
  <2>3. Status[t] = "queued"
    BY <1>00, <2>1 DEF Look, None
  <2>4. Status' = [Status EXCEPT ![t] = "sent"]
    BY <1>00, <2>2 DEF Look, None
  <2>5. Holder' = Holder
    BY <2>1, <2>2 DEF Holder, None
  <2>6. Delivery!Confirm(t)
    BY <2>1, <2>3, <2>4, <2>5 DEF Delivery!Confirm, Status, Holder
  <2> QED
    BY <2>6 DEF Delivery!Next
<1>6. CASE MarkUnknown
  <2>1. /\ cur \in Tokens /\ out[cur].state = "sending"
        /\ copies' = copies /\ out' = [out EXCEPT ![cur].state = "unknown"]
    BY <1>0, <1>6 DEF MarkUnknown, HeldMessage, AfterSendError
  <2>2. out'[cur].state = "unknown" /\ \A u \in Tokens \ {cur} : out'[u] = out[u]
    BY <1>0, <2>1 DEF Messages
  <2> PICK ts \in SUBSET Tokens : ts = {cur}
    BY <2>1
  <2> QED
    BY <1>0, <2>1, <2>2, GiveUpRefines
<1>7. CASE Restart
  <2> PICK ts \in SUBSET Tokens : ts = {t \in Tokens : out[t].state = "sending"}
    OBVIOUS
  <2>1. /\ copies' = copies
        /\ \A t \in ts : out[t].state = "sending" /\ out'[t].state = "unknown"
        /\ \A t \in Tokens \ ts : out'[t] = out[t]
    BY <1>0, <1>7 DEF Restart, Messages
  <2>2. CASE ts = {}
    <3>1. Look(out') = Look(out) /\ Holder' = Holder
      BY <2>1, <2>2 DEF Look, Holder
    <3> QED
      BY <1>00, <2>1, <3>1
  <2>3. CASE ts # {}
    BY <1>0, <2>1, <2>3, GiveUpRefines
  <2> QED
    BY <2>2, <2>3
<1>8. ASSUME NEW t \in Tokens, TelegramAccepts(t) PROVE Delivery!Next
  <2>1. flight[t] /\ out' = out /\ copies' = [copies EXCEPT ![t] = @ + 1]
    BY <1>8 DEF TelegramAccepts
  <2>2. copies[t] < 1
    BY <1>0, <2>1 DEF SentOnce
  <2>3. Status[t] \in {"queued", "failed"}
    BY <1>0, <1>00, <2>1 DEF FlightLeft, Look, None
  <2>4. Status' = Status /\ Holder' = Holder
    BY <1>00, <2>1 DEF Holder
  <2>5. Delivery!Arrive(t)
    BY <2>1, <2>2, <2>3, <2>4 DEF Delivery!Arrive, Status, Holder
  <2> QED
    BY <2>5 DEF Delivery!Next
<1>9. CASE Rows
  BY <1>1, <1>9 DEF Rows, InitializeCursor, ProcessRow, CommitCursor, EndRows
<1>10. CASE NothingToClaim \/ BudgetDenies \/ EvidenceFails \/ EvidenceBlocks
            \/ EvidenceContinues \/ EvidenceTooLate \/ FinishQueued
  BY <1>1, <1>10 DEF NothingToClaim, BudgetDenies, EvidenceFails, EvidenceBlocks,
                     EvidenceContinues, EvidenceTooLate, FinishQueued
<1>11. ASSUME NEW t \in Tokens, NEW ripe \in BOOLEAN,
              RowArrives(t, ripe) \/ ClaimEnds(t) \/ Claim(t) \/ TelegramFails(t)
       PROVE  UNCHANGED <<Status, Holder, copies>>
  BY <1>1, <1>11 DEF RowArrives, ClaimEnds, Claim, TelegramFails
<1>12. CASE NothingToSend \/ Wait \/ Crash \/ Tick \/ UNCHANGED vars
  BY <1>1, <1>12 DEF NothingToSend, Wait, Crash, Tick, vars
<1> QED
  BY <1>2, <1>3, <1>4, <1>5, <1>6, <1>7, <1>8, <1>9, <1>10, <1>11, <1>12
     DEF Next, Loop, Candidate, Deliver

(***************************************************************************)
(* The outbox, seen through the mapping of SolEarly, is an AlertDelivery    *)
(* of a single copy per token: everything ImplementsDelivery says but its   *)
(* liveness, for every value of the constants.                             *)
(***************************************************************************)
THEOREM ImplementsSafeDelivery == Spec => Delivery!SafeSpec
BY InitRefines, StepRefines, InvariantIInv, PTL DEF Spec, Delivery!SafeSpec
==============================================================================
