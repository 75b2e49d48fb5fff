------------------------------ MODULE PonsProofs ------------------------------
(***************************************************************************)
(* Proofs about the Pons curve notifier, for any finite set of tokens, any  *)
(* launches, names, caps, checkpoints, delays and number of faults: type    *)
(* correctness, the hourly cap, that no checkpoint is asked about twice,    *)
(* and that its outbox behaves as AlertDelivery promises (all but its       *)
(* liveness).                                                              *)
(***************************************************************************)
EXTENDS PonsNotifier, FiniteSetTheorems, WellFoundedInduction, TLAPS

------------------------------------------------------------------------------
(***************************************************************************)
(* The inductive invariant: first what a round knows of its lists.          *)
(***************************************************************************)

(* A candidate found in this round was taken off the list. *)
FoundExamined == \A c \in found : c.token \notin todo

(* The token asked about is still on the list, and due as it was when the    *)
(* request left: `at' is the round's, however long the answer takes.        *)
AskedIsDue == pc = "asking" => cur \in todo /\ Due(cur)

(* No row was queued after the instant a round works with. *)
ClaimedBefore ==
    pc \in {"examine", "asking"} => \A t \in Tokens : out[t].claimed <= at

(* The rows a round may send wait to be sent. *)
DuePending ==
    pc \in {"examine", "asking", "deliver"} => \A t \in due : out[t].state = "pending"

(***************************************************************************)
(* Then what the rows of the outbox have to do with Telegram: the row being *)
(* sent is pending, "ok" is about a copy that arrived, and nothing leaves   *)
(* without an attempt counted for it.                                      *)
(***************************************************************************)
AbsentIsBlank == \A t \in Tokens : out[t].state = None => out[t].attempts = 0

HeldRow ==
    pc = "sending" =>
        /\ cur \in Tokens
        /\ out[cur].state = "pending" /\ out[cur].attempts > 0
        /\ reply = "ok" => copies[cur] > 0 /\ cur \notin flight

FlightPending == \A t \in flight : out[t].state = "pending"

CopiesWithinAttempts ==
    \A t \in Tokens : copies[t] + (IF t \in flight THEN 1 ELSE 0) <= out[t].attempts

(***************************************************************************)
(* And of each question GMGN was asked, that its checkpoint is used up, or  *)
(* the answer is awaited, or a fault met it.                               *)
(***************************************************************************)
Answering(t, c) == checked[t] >= c \/ (pc = "asking" /\ cur = t /\ Checkpoint(t) = c)

QuestionsCounted ==
    \A t \in Tokens : \A c \in SizeChecks :
        asked[t][c] <= faults + (IF Answering(t, c) THEN 1 ELSE 0)

Lists == FoundExamined /\ AskedIsDue /\ ClaimedBefore /\ DuePending

Rows == AbsentIsBlank /\ HeldRow /\ FlightPending /\ CopiesWithinAttempts

IInv == TypeOK /\ Lists /\ Rows /\ HourlyCap /\ QuestionsCounted

------------------------------------------------------------------------------
(* The constants as the proofs use them. *)
LEMMA Constants ==
    /\ IsFiniteSet(Tokens) /\ LaunchOf \in [Tokens -> Nat]
    /\ SizeChecks \subseteq Nat /\ \A c \in SizeChecks : c > 0
    /\ Hour \in Nat /\ Hour > 0 /\ MaxPerHour \in Nat /\ MaxPerHour > 0
    /\ MaxAttempts \in Nat /\ MaxAttempts > 0
    /\ Lease \in Nat /\ Penalty \in Nat /\ MaxNow \in Nat /\ MaxFaults \in Nat
    /\ Backoff \in [1..MaxAttempts -> Nat]
BY PonsAssumption

(***************************************************************************)
(* A set of naturals that is not empty and bounded has a greatest element:  *)
(* the least of the bounds that no member exceeds is one of them.           *)
(***************************************************************************)
LEMMA GreatestNatural ==
    ASSUME NEW T, NEW n \in Nat, T \subseteq 0..n, T # {}
    PROVE  \E g \in T : \A m \in T : m <= g
<1> DEFINE B == {b \in Nat : \A m \in T : m <= b}
<1>1. B \subseteq Nat /\ n \in B
  OBVIOUS
<1>2. \E b \in B : \A m \in B : <<m, b>> \notin OpToRel(<, Nat)
  BY <1>1, NatLessThanWellFounded, WFMin
<1>3. \A m, b \in Nat : m < b => <<m, b>> \in OpToRel(<, Nat)
  BY DEF OpToRel
<1>4. PICK g \in B : \A b \in B : ~ (b < g)
  BY <1>2, <1>3
<1>5. g \in T
  <2>1. SUFFICES ASSUME g \notin T PROVE FALSE
    OBVIOUS
  <2>2. \A m \in T : m \in Nat /\ m <= g /\ m # g
    BY <1>4, <2>1
  <2>3. PICK m \in T : TRUE
    OBVIOUS
  <2>4. g - 1 \in Nat /\ g - 1 < g
    BY <1>4, <2>2, <2>3
  <2>5. \A k \in T : k <= g - 1
    BY <1>4, <2>2
  <2>6. g - 1 \in B
    BY <2>4, <2>5
  <2> QED
    BY <1>4, <2>4, <2>6
<1> QED
  BY <1>4, <1>5

(***************************************************************************)
(* _due_size_checkpoint of a token old enough returns a checkpoint it has   *)
(* passed.                                                                 *)
(***************************************************************************)
LEMMA CheckpointPassed ==
    ASSUME NEW t \in Tokens, at \in Nat, Passed(t) # {}
    PROVE  Checkpoint(t) \in SizeChecks
<1>1. Age(t) \in Int
  BY Constants DEF Age
<1>2. PICK c \in Passed(t) : TRUE
  OBVIOUS
<1>3. Age(t) \in Nat
  <2>1. c \in Nat /\ c <= Age(t)
    BY <1>2, Constants DEF Passed
  <2> QED
    BY <1>1, <2>1
<1>4. Passed(t) \subseteq 0..Age(t)
  <2> SUFFICES ASSUME NEW d \in Passed(t) PROVE d \in 0..Age(t)
    OBVIOUS
  <2>1. d \in Nat /\ d <= Age(t)
    BY Constants DEF Passed
  <2> QED
    BY <1>3, <2>1
<1>5. \E g \in Passed(t) : \A m \in Passed(t) : m <= g
  BY <1>3, <1>4, GreatestNatural
<1>6. Checkpoint(t) \in Passed(t)
  BY <1>5 DEF Checkpoint
<1> QED
  BY <1>6 DEF Passed

(* The namesakes counted are tokens. *)
LEMMA CountedType ==
    ASSUME NEW t \in Tokens
    PROVE  Cardinality(Counted(t)) \in 0..Cardinality(Tokens)
<1>1. Counted(t) \subseteq Tokens
  BY DEF Counted, Namesakes
<1>2. /\ IsFiniteSet(Counted(t)) /\ Cardinality(Counted(t)) <= Cardinality(Tokens)
  BY <1>1, Constants, FS_Subset
<1>3. Cardinality(Counted(t)) \in Nat /\ Cardinality(Tokens) \in Nat
  BY <1>2, Constants, FS_CardinalityType
<1> QED
  BY <1>2, <1>3

(* Before the first round everything is empty. *)
LEMMA InitIInv == Init => IInv
<1> SUFFICES ASSUME Init PROVE IInv
  OBVIOUS
<1>1. TypeOK
  <2>1. NoMessage \in [state : {None, "pending", "sent"},
                       attempts : 0..MaxAttempts, claimed : 0..0 \cup {Never}]
    BY Constants DEF NoMessage
  <2> QED
    BY <2>1, Constants DEF Init, TypeOK
<1>2. Lists
  BY DEF Init, Lists, FoundExamined, AskedIsDue, ClaimedBefore, DuePending
<1>3. Rows
  BY DEF Init, Rows, AbsentIsBlank, HeldRow, FlightPending, CopiesWithinAttempts, NoMessage, None
<1>4. HourlyCap
  BY DEF Init, HourlyCap, NoMessage
<1>5. QuestionsCounted
  BY Constants DEF Init, QuestionsCounted
<1> QED
  BY <1>1, <1>2, <1>3, <1>4, <1>5 DEF IInv

------------------------------------------------------------------------------
(***************************************************************************)
(* Every step keeps the types.                                             *)
(***************************************************************************)
LEMMA StepTypeOK == IInv /\ [Next]_vars => TypeOK'
<1> SUFFICES ASSUME IInv, [Next]_vars PROVE TypeOK'
  OBVIOUS
<1>0. TypeOK /\ FoundExamined /\ AskedIsDue /\ HeldRow
  BY DEF IInv, Lists, Rows
<1>00. now \in Nat /\ at \in Nat /\ now \in 0..MaxNow /\ faults \in 0..MaxFaults
  BY <1>0, Constants DEF TypeOK
<1> USE DEF TypeOK, tables, work, memory, world, Forget
<1>1. CASE StartRound
  <2>1. Young \subseteq Tokens /\ due' \subseteq Tokens
    BY <1>1 DEF StartRound, Young
  <2> QED
    BY <1>0, <1>00, <1>1, <2>1 DEF StartRound
<1>2. ASSUME NEW t \in Tokens, Skip(t) PROVE TypeOK'
  BY <1>0, <1>2 DEF Skip
<1>3. ASSUME NEW t \in Tokens, BudgetDenies(t) PROVE TypeOK'
  <2>1. Checkpoint(t) \in SizeChecks
    BY <1>00, <1>3, CheckpointPassed DEF BudgetDenies, Examinable, Due
  <2> QED
    BY <1>0, <1>3, <2>1 DEF BudgetDenies, UsedUp
<1>4. ASSUME NEW t \in Tokens, AskSize(t) PROVE TypeOK'
  <2>1. Checkpoint(t) \in SizeChecks
    BY <1>00, <1>4, CheckpointPassed DEF AskSize, Examinable, Due
  <2>2. asked' \in [Tokens -> [SizeChecks -> Nat]]
    BY <1>0, <1>4, <2>1 DEF AskSize
  <2> QED
    BY <1>0, <1>4, <2>2 DEF AskSize
<1>5. ASSUME pc = "asking" PROVE cur \in Tokens /\ Checkpoint(cur) \in SizeChecks
  <2>1. cur \in Tokens /\ Passed(cur) # {}
    BY <1>0, <1>5 DEF AskedIsDue, Due
  <2> QED
    BY <1>00, <2>1, CheckpointPassed
<1>6. CASE CandidateFails
  BY <1>0, <1>5, <1>6 DEF CandidateFails, UsedUp
<1>7. CASE CandidatePasses
  <2>1. PICK cap \in Caps : found' = found \cup
            {[token |-> cur, cap |-> cap, same |-> Cardinality(Counted(cur))]}
    BY <1>7 DEF CandidatePasses
  <2>2. pc = "asking" /\ cur \in Tokens /\ cur \in todo /\ Checkpoint(cur) \in SizeChecks
    BY <1>0, <1>5, <1>7 DEF CandidatePasses, AskedIsDue
  <2> DEFINE c == [token |-> cur, cap |-> cap, same |-> Cardinality(Counted(cur))]
  <2>3. c \in [token : Tokens, cap : Caps, same : 0..Cardinality(Tokens)] /\ c.token = cur
    BY <2>2, CountedType
  <2> HIDE DEF c
  <2>4. found' = found \cup {c}
    BY <2>1 DEF c
  <2>5. found' \subseteq [token : Tokens, cap : Caps, same : 0..Cardinality(Tokens)]
    BY <1>0, <2>3, <2>4
  <2>6. \A x, y \in found' : x.token = y.token => x = y
    BY <1>0, <2>2, <2>3, <2>4 DEF FoundExamined
  <2>7. checked' \in [Tokens -> SizeChecks \cup {0}]
    BY <1>0, <1>7, <2>2 DEF CandidatePasses, UsedUp
  <2> QED
    BY <1>0, <1>7, <2>5, <2>6, <2>7 DEF CandidatePasses
<1>8. ASSUME NEW c \in found, EnqueueBest(c) PROVE TypeOK'
  <2>1. c.token \in Tokens
    BY <1>0
  <2>2. out' \in [Tokens -> [state : {None, "pending", "sent"},
                           attempts : 0..MaxAttempts, claimed : 0..now \cup {Never}]]
    BY <1>0, <1>8, <2>1, Constants DEF EnqueueBest
  <2> QED
    BY <1>0, <1>8, <2>1, <2>2 DEF EnqueueBest
<1>9. CASE EnqueueNone
  BY <1>0, <1>9 DEF EnqueueNone
<1>10. ASSUME NEW t \in Tokens, Send(t) PROVE TypeOK'
  <2>1. out' \in [Tokens -> [state : {None, "pending", "sent"},
                           attempts : 0..MaxAttempts, claimed : 0..now \cup {Never}]]
    <3>1. out[t].attempts \in 0..MaxAttempts /\ out[t].attempts < MaxAttempts
      BY <1>0, <1>10 DEF Send, Claimable
    <3>2. out[t].attempts + 1 \in 0..MaxAttempts
      BY <3>1, Constants
    <3>3. out' = [out EXCEPT ![t].attempts = out[t].attempts + 1]
      BY <1>10 DEF Send
    <3> QED
      BY <1>0, <3>2, <3>3
  <2>2. wait' \in [Tokens -> Nat]
    <3>1. Later(0, at + Lease - now) \in Nat
      BY <1>00, Constants DEF Later
    <3> QED
      BY <1>0, <1>10, <3>1 DEF Send
  <2> QED
    BY <1>0, <1>00, <1>10, <2>1, <2>2 DEF Send
<1>11. CASE NothingToSend
  BY <1>0, <1>00, <1>11 DEF NothingToSend
<1>12. CASE MarkSent
  <2>1. cur \in Tokens
    BY <1>0, <1>12 DEF MarkSent, HeldRow
  <2>2. out' \in [Tokens -> [state : {None, "pending", "sent"},
                           attempts : 0..MaxAttempts, claimed : 0..now \cup {Never}]]
    BY <1>0, <1>12, <2>1 DEF MarkSent
  <2> QED
    BY <1>0, <1>12, <2>2 DEF MarkSent
<1>13. CASE MarkRetry
  <2>1. cur \in Tokens /\ out[cur].attempts \in 1..MaxAttempts
    BY <1>0, <1>13 DEF MarkRetry, HeldRow
  <2>2. Backoff[out[cur].attempts] \in Nat
    BY <2>1, Constants
  <2>3. wait' \in [Tokens -> Nat]
    <3> DEFINE delay == Backoff[out[cur].attempts]
    <3>1. wait' = [wait EXCEPT ![cur] =
                        IF reply = "429" THEN Later(Penalty, delay) ELSE delay]
      BY <1>13 DEF MarkRetry
    <3>2. Later(Penalty, delay) \in Nat
      BY <2>2, Constants DEF Later
    <3> QED
      BY <1>0, <2>1, <2>2, <3>1, <3>2
  <2> QED
    BY <1>0, <1>13, <2>3 DEF MarkRetry
<1>14. ASSUME NEW t \in Tokens, TelegramAccepts(t) PROVE TypeOK'
  BY <1>0, <1>14 DEF TelegramAccepts
<1>15. ASSUME NEW t \in Tokens, TelegramFails(t) PROVE TypeOK'
  BY <1>0, <1>15 DEF TelegramFails
<1>16. CASE RoundFails
  BY <1>0, <1>00, <1>16, Constants DEF RoundFails, Fault
<1>17. CASE Crash
  BY <1>0, <1>00, <1>17, Constants DEF Crash, Fault
<1>18. CASE Restart
  BY <1>0, <1>18 DEF Restart
<1>19. CASE Tick
  <2>1. now' \in 0..MaxNow /\ now' >= now
    BY <1>00, <1>19, Constants DEF Tick
  <2>2. wait' \in [Tokens -> Nat]
    BY <1>0, <1>19 DEF Tick, Later
  <2>3. out' \in [Tokens -> [state : {None, "pending", "sent"},
                           attempts : 0..MaxAttempts, claimed : 0..now' \cup {Never}]]
    <3>1. 0..now \subseteq 0..now'
      BY <1>00, <2>1, Constants
    <3>2. out' = out
      BY <1>19 DEF Tick
    <3> QED
      BY <1>0, <3>1, <3>2
  <2>4. at' \in 0..now'
    BY <1>0, <1>00, <1>19, <2>1, Constants DEF Tick
  <2> QED
    BY <1>0, <1>19, <2>1, <2>2, <2>3, <2>4 DEF Tick
<1>20. CASE UNCHANGED vars
  BY <1>0, <1>20 DEF vars
<1> QED
  BY <1>1, <1>2, <1>3, <1>4, <1>6, <1>7, <1>8, <1>9, <1>10, <1>11, <1>12, <1>13, <1>14,
     <1>15, <1>16, <1>17, <1>18, <1>19, <1>20 DEF Next, Round

------------------------------------------------------------------------------
(***************************************************************************)
(* Every step keeps what a round knows of its lists.  Ticks do not touch    *)
(* `at', so neither Due nor Checkpoint of the token asked about changes.    *)
(***************************************************************************)
LEMMA StepLists == IInv /\ [Next]_vars => Lists'
<1> SUFFICES ASSUME IInv, [Next]_vars PROVE Lists'
  OBVIOUS
<1>0. TypeOK /\ FoundExamined /\ AskedIsDue /\ ClaimedBefore /\ DuePending /\ HeldRow
      /\ FlightPending
  BY DEF IInv, Lists, Rows
<1>00. now \in Nat /\ at \in Nat
  BY <1>0, Constants DEF TypeOK
<1> USE DEF Lists, FoundExamined, AskedIsDue, ClaimedBefore, DuePending,
            tables, work, memory, world, Forget
<1>1. CASE StartRound
  <2>1. \A t \in Tokens : out[t].claimed <= now
    BY <1>0, <1>00 DEF TypeOK, Never
  <2> QED
    BY <1>1, <2>1 DEF StartRound
<1>2. ASSUME NEW t \in Tokens, Skip(t) PROVE Lists'
  BY <1>0, <1>2 DEF Skip
<1>3. ASSUME NEW t \in Tokens, BudgetDenies(t) PROVE Lists'
  BY <1>0, <1>3 DEF BudgetDenies, Examinable
<1>4. ASSUME NEW t \in Tokens, AskSize(t) PROVE Lists'
  BY <1>0, <1>4 DEF AskSize, Examinable, Due, Passed, Checkpoint, Age
<1>5. CASE CandidateFails
  BY <1>0, <1>5 DEF CandidateFails
<1>6. CASE CandidatePasses
  BY <1>0, <1>6 DEF CandidatePasses
<1>7. ASSUME NEW c \in found, EnqueueBest(c) PROVE Lists'
  <2>1. PICK t \in Tokens : t = c.token
    BY <1>0 DEF TypeOK
  <2>2. /\ pc = "examine" /\ pc' = "deliver" /\ todo' = todo /\ found' = found
        /\ due' = due \cup {t}
        /\ out' = [out EXCEPT ![t] = [state |-> "pending", attempts |-> 0, claimed |-> at]]
    BY <1>7, <2>1 DEF EnqueueBest, Examined
  <2>3. out'[t].state = "pending" /\ \A u \in Tokens \ {t} : out'[u] = out[u]
    BY <1>0, <2>2 DEF TypeOK
  <2>4. DuePending'
    BY <1>0, <2>2, <2>3 DEF TypeOK
  <2> QED
    BY <1>0, <2>2, <2>4
<1>8. CASE EnqueueNone
  BY <1>0, <1>8 DEF EnqueueNone, Examined
<1>9. ASSUME NEW t \in Tokens, Send(t) PROVE Lists'
  BY <1>0, <1>9 DEF Send
<1>10. CASE NothingToSend \/ RoundFails \/ Crash
  BY <1>0, <1>10 DEF NothingToSend, RoundFails, Crash, Fault
<1>11. CASE MarkSent \/ MarkRetry \/ Restart
  BY <1>0, <1>11 DEF MarkSent, MarkRetry, Restart
<1>12. ASSUME UNCHANGED <<checked, out, pc, at, work, due, cur>> PROVE Lists'
  BY <1>0, <1>12 DEF Due, Passed, Checkpoint, Age
<1>13. ASSUME NEW t \in Tokens, TelegramAccepts(t) \/ TelegramFails(t) PROVE Lists'
  BY <1>12, <1>13 DEF TelegramAccepts, TelegramFails
<1>14. CASE Tick \/ UNCHANGED vars
  BY <1>12, <1>14 DEF Tick, vars
<1> QED
  BY <1>1, <1>2, <1>3, <1>4, <1>5, <1>6, <1>7, <1>8, <1>9, <1>10, <1>11, <1>13, <1>14
     DEF Next, Round

(***************************************************************************)
(* Every step keeps what rows and requests have to do with each other: the  *)
(* attempt is counted before the request leaves, and the only row that is   *)
(* ever settled is the one whose copy arrived.                             *)
(***************************************************************************)
LEMMA StepRows == IInv /\ [Next]_vars => Rows'
<1> SUFFICES ASSUME IInv, [Next]_vars PROVE Rows'
  OBVIOUS
<1>0. TypeOK /\ FoundExamined /\ DuePending /\ AbsentIsBlank /\ HeldRow /\ FlightPending
      /\ CopiesWithinAttempts
  BY DEF IInv, Lists, Rows
<1>00. \A t \in Tokens : /\ out[t].attempts \in Nat /\ copies[t] \in Nat
                          /\ out[t].state \in {None, "pending", "sent"}
  BY <1>0, Constants DEF TypeOK
<1> USE DEF Rows, AbsentIsBlank, HeldRow, FlightPending, CopiesWithinAttempts,
            tables, work, memory, world, Forget
<1>1. ASSUME UNCHANGED <<out, flight, copies>>, pc' = "sending" => UNCHANGED <<pc, cur, reply>>
      PROVE  Rows'
  BY <1>0, <1>1
<1>2. ASSUME NEW c \in found, EnqueueBest(c) PROVE Rows'
  <2>1. PICK t \in Tokens : t = c.token
    BY <1>0 DEF TypeOK
  <2>2. /\ out[t].state = None /\ pc' = "deliver" /\ flight' = flight /\ copies' = copies
        /\ out' = [out EXCEPT ![t] = [state |-> "pending", attempts |-> 0, claimed |-> at]]
    BY <1>2, <2>1 DEF EnqueueBest
  <2>3. /\ out'[t].state = "pending" /\ out'[t].attempts = 0
        /\ \A u \in Tokens \ {t} : out'[u] = out[u]
    BY <1>0, <2>2 DEF TypeOK
  <2>4. copies[t] = 0 /\ t \notin flight
    BY <1>0, <1>00, <2>2 DEF None
  <2>5. AbsentIsBlank' /\ HeldRow' /\ FlightPending'
    BY <1>0, <2>2, <2>3 DEF TypeOK, None
  <2>6. CopiesWithinAttempts'
    BY <1>0, <2>2, <2>3, <2>4
  <2> QED
    BY <2>5, <2>6
<1>3. ASSUME NEW t \in Tokens, Send(t) PROVE Rows'
  <2>1. out[t].state = "pending"
    BY ONLY <1>0, <1>3 DEF Send, Claimable, DuePending
  <2>2. /\ out'[t].state = "pending" /\ out'[t].attempts = out[t].attempts + 1
        /\ \A u \in Tokens \ {t} : out'[u] = out[u]
    BY <1>0, <1>3, <2>1 DEF Send, TypeOK
  <2>3. /\ pc' = "sending" /\ cur' = t /\ reply' = None /\ copies' = copies
        /\ flight' = flight \cup {t}
    BY <1>3 DEF Send
  <2>4. AbsentIsBlank' /\ HeldRow' /\ FlightPending'
    BY <1>0, <1>00, <2>2, <2>3 DEF TypeOK, None
  <2>5. CopiesWithinAttempts'
    BY <1>0, <1>00, <2>2, <2>3
  <2> QED
    BY <2>4, <2>5
<1>4. CASE MarkSent
  <2>1. /\ pc = "sending" /\ cur \in Tokens /\ cur \notin flight
        /\ pc' = "wait" /\ flight' = flight /\ copies' = copies
        /\ out' = [out EXCEPT ![cur].state = "sent"]
    BY <1>0, <1>4 DEF MarkSent
  <2>2. /\ out'[cur].state = "sent" /\ out'[cur].attempts = out[cur].attempts
        /\ \A u \in Tokens \ {cur} : out'[u] = out[u]
    BY <1>0, <2>1 DEF TypeOK
  <2>3. AbsentIsBlank' /\ HeldRow' /\ FlightPending'
    BY <1>0, <2>1, <2>2 DEF TypeOK, None
  <2>4. CopiesWithinAttempts'
    BY <1>0, <2>1, <2>2
  <2> QED
    BY <2>3, <2>4
<1>5. ASSUME NEW t \in Tokens, TelegramAccepts(t) PROVE Rows'
  <2>1. /\ t \in flight /\ flight' = flight \ {t} /\ out' = out /\ pc' = pc /\ cur' = cur
        /\ copies' = [copies EXCEPT ![t] = @ + 1]
        /\ reply' = reply \/ (cur = t /\ reply' \in {"ok", "error"})
    BY <1>5 DEF TelegramAccepts, Awaited
  <2>2. copies'[t] = copies[t] + 1 /\ \A u \in Tokens \ {t} : copies'[u] = copies[u]
    BY <1>0, <2>1 DEF TypeOK
  <2>3. HeldRow'
    BY <1>0, <1>00, <2>1, <2>2
  <2>4. CopiesWithinAttempts'
    BY <1>0, <1>00, <2>1, <2>2
  <2> QED
    BY <1>0, <2>1, <2>3, <2>4
<1>6. ASSUME NEW t \in Tokens, TelegramFails(t) PROVE Rows'
  <2>1. /\ flight' \subseteq flight /\ out' = out /\ pc' = pc /\ cur' = cur /\ copies' = copies
        /\ reply' = reply \/ reply' \in {"error", "429"}
    BY <1>6 DEF TelegramFails
  <2>2. CopiesWithinAttempts'
    BY <1>0, <1>00, <2>1
  <2> QED
    BY <1>0, <2>1, <2>2
<1>7. ASSUME StartRound \/ CandidateFails \/ CandidatePasses \/ EnqueueNone \/ NothingToSend
      PROVE  Rows'
  BY <1>1, <1>7 DEF StartRound, CandidateFails, CandidatePasses, EnqueueNone, NothingToSend
<1>8. ASSUME NEW t \in Tokens, Skip(t) \/ BudgetDenies(t) \/ AskSize(t) PROVE Rows'
  BY <1>1, <1>8 DEF Skip, BudgetDenies, AskSize, Examinable
<1>9. CASE MarkRetry \/ RoundFails \/ Crash \/ Restart \/ Tick \/ UNCHANGED vars
  BY <1>1, <1>9 DEF MarkRetry, RoundFails, Crash, Fault, Restart, Tick, vars
<1> QED
  BY <1>2, <1>3, <1>4, <1>5, <1>6, <1>7, <1>8, <1>9 DEF Next, Round

------------------------------------------------------------------------------
(***************************************************************************)
(* The hourly cap.  QueuedWithin(o, n) are the rows of an outbox o queued    *)
(* in the hour that ends with the instant n.                               *)
(***************************************************************************)
QueuedWithin(o, n) ==
    {u \in Tokens : o[u].state # None /\ o[u].claimed \in (n - Hour + 1)..n}

LEMMA CapOf ==
    HourlyCap <=> \A t \in Tokens : out[t].state # None =>
                      Cardinality(QueuedWithin(out, out[t].claimed)) <= MaxPerHour
BY DEF HourlyCap, QueuedWithin

(***************************************************************************)
(* Queuing a row at the instant of the round: an hour that reaches that     *)
(* instant ends with it, because no row is younger; so it holds the new row *)
(* and some of the rows claim_notification counted, which were too few.     *)
(***************************************************************************)
LEMMA QueueKeepsCap ==
    ASSUME TypeOK, ClaimedBefore, HourlyCap, NEW c \in found, EnqueueBest(c)
    PROVE  HourlyCap'
<1>1. PICK new \in Tokens : new = c.token
  BY DEF TypeOK
<1>2. /\ out[new].state = None /\ pc = "examine"
      /\ Cardinality(Recent) < MaxPerHour
      /\ out' = [out EXCEPT ![new] = [state |-> "pending", attempts |-> 0, claimed |-> at]]
  BY <1>1 DEF EnqueueBest, Examined
<1>3. at \in Nat /\ Hour \in Nat /\ Hour > 0 /\ MaxPerHour \in Nat
  BY Constants DEF TypeOK
<1>4. \A u \in Tokens : out[u].claimed \in Int /\ out[u].claimed <= at
  BY <1>2 DEF TypeOK, ClaimedBefore, Never
<1>5. /\ out'[new].state = "pending" /\ out'[new].claimed = at
      /\ \A u \in Tokens \ {new} : out'[u] = out[u]
  BY <1>2 DEF TypeOK
<1>6. Cardinality(Recent \cup {new}) <= MaxPerHour /\ IsFiniteSet(Recent \cup {new})
  <2>1. Recent \subseteq Tokens /\ new \notin Recent
    BY <1>2 DEF Recent
  <2>2. IsFiniteSet(Recent)
    BY <2>1, Constants, FS_Subset
  <2>3. /\ IsFiniteSet(Recent \cup {new}) /\ Cardinality(Recent) \in Nat
        /\ Cardinality(Recent \cup {new}) = Cardinality(Recent) + 1
    BY <2>1, <2>2, FS_AddElement, FS_CardinalityType
  <2> QED
    BY <1>2, <1>3, <2>3
<1>7. Cardinality(QueuedWithin(out', at)) <= MaxPerHour
  <2>1. QueuedWithin(out', at) \subseteq Recent \cup {new}
    <3> SUFFICES ASSUME NEW u \in Tokens, u # new, out[u].state # None,
                        out[u].claimed \in (at - Hour + 1)..at
                 PROVE  u \in Recent
      BY <1>5 DEF QueuedWithin
    <3> QED
      BY <1>3, <1>4 DEF Recent
  <2>2. /\ Cardinality(QueuedWithin(out', at)) <= Cardinality(Recent \cup {new})
        /\ Cardinality(QueuedWithin(out', at)) \in Nat
        /\ Cardinality(Recent \cup {new}) \in Nat
    BY <1>6, <2>1, FS_Subset, FS_CardinalityType
  <2> QED
    BY <1>3, <1>6, <2>2
<1>8. ASSUME NEW t \in Tokens, t # new, out[t].state # None
      PROVE  Cardinality(QueuedWithin(out', out[t].claimed)) <= MaxPerHour
  <2>1. CASE out[t].claimed = at
    BY <1>7, <2>1
  <2>2. CASE out[t].claimed # at
    <3>1. at \notin (out[t].claimed - Hour + 1)..out[t].claimed
      BY <1>3, <1>4, <2>2
    <3>2. QueuedWithin(out', out[t].claimed) = QueuedWithin(out, out[t].claimed)
      BY <1>2, <1>5, <3>1 DEF QueuedWithin
    <3> QED
      BY <1>8, <3>2, CapOf
  <2> QED
    BY <2>1, <2>2
<1>9. \A t \in Tokens : out'[t].state # None =>
          Cardinality(QueuedWithin(out', out'[t].claimed)) <= MaxPerHour
  BY <1>5, <1>7, <1>8
<1> QED
  BY <1>9 DEF HourlyCap, QueuedWithin

(* No other step queues a row or dates one anew. *)
LEMMA StepHourlyCap == IInv /\ [Next]_vars => HourlyCap'
<1> SUFFICES ASSUME IInv, [Next]_vars PROVE HourlyCap'
  OBVIOUS
<1>0. TypeOK /\ ClaimedBefore /\ DuePending /\ HeldRow /\ HourlyCap
  BY DEF IInv, Lists, Rows
<1> USE DEF tables, work, memory, world
<1>1. ASSUME \A t \in Tokens : /\ (out'[t].state = None) <=> (out[t].state = None)
                               /\ out'[t].claimed = out[t].claimed
      PROVE  HourlyCap'
  <2>1. \A n : QueuedWithin(out', n) = QueuedWithin(out, n)
    BY <1>1 DEF QueuedWithin
  <2>2. \A t \in Tokens : out'[t].state # None =>
          Cardinality(QueuedWithin(out', out'[t].claimed)) <= MaxPerHour
    BY <1>0, <1>1, <2>1, CapOf
  <2> QED
    BY <2>2 DEF HourlyCap, QueuedWithin
<1>2. ASSUME NEW c \in found, EnqueueBest(c) PROVE HourlyCap'
  BY <1>0, <1>2, QueueKeepsCap
<1>3. ASSUME NEW t \in Tokens, Send(t) PROVE HourlyCap'
  <2>1. \A u \in Tokens : out'[u].state = out[u].state /\ out'[u].claimed = out[u].claimed
    BY <1>0, <1>3 DEF Send, TypeOK
  <2> QED
    BY <1>1, <2>1
<1>4. CASE MarkSent
  <2>1. /\ cur \in Tokens /\ out[cur].state = "pending"
        /\ out' = [out EXCEPT ![cur].state = "sent"]
    BY <1>0, <1>4 DEF MarkSent, HeldRow
  <2>2. /\ out'[cur].state = "sent" /\ out'[cur].claimed = out[cur].claimed
        /\ \A u \in Tokens \ {cur} : out'[u] = out[u]
    BY <1>0, <2>1 DEF TypeOK
  <2> QED
    BY <1>1, <2>1, <2>2 DEF None
<1>5. ASSUME out' = out PROVE HourlyCap'
  BY <1>1, <1>5
<1>6. CASE StartRound \/ CandidateFails \/ CandidatePasses \/ EnqueueNone \/ NothingToSend
  BY <1>5, <1>6 DEF StartRound, CandidateFails, CandidatePasses, EnqueueNone, NothingToSend
<1>7. ASSUME NEW t \in Tokens, \/ Skip(t) \/ BudgetDenies(t) \/ AskSize(t)
                               \/ TelegramAccepts(t) \/ TelegramFails(t)
      PROVE  HourlyCap'
  BY <1>5, <1>7 DEF Skip, BudgetDenies, AskSize, TelegramAccepts, TelegramFails
<1>8. CASE MarkRetry \/ RoundFails \/ Crash \/ Restart \/ Tick \/ UNCHANGED vars
  BY <1>5, <1>8 DEF MarkRetry, RoundFails, Crash, Restart, Tick, vars
<1> QED
  BY <1>2, <1>3, <1>4, <1>6, <1>7, <1>8 DEF Next, Round

------------------------------------------------------------------------------
(***************************************************************************)
(* A question is asked while its checkpoint is above the one used up, and   *)
(* uses it up whatever the answer.  Only a fault takes the answer away and  *)
(* leaves the checkpoint as it was; it is counted.                         *)
(***************************************************************************)
LEMMA StepQuestions == IInv /\ [Next]_vars => QuestionsCounted'
<1> SUFFICES ASSUME IInv, [Next]_vars, NEW t \in Tokens, NEW c \in SizeChecks
             PROVE  asked'[t][c] <= faults' + (IF Answering(t, c)' THEN 1 ELSE 0)
  BY DEF QuestionsCounted
<1> DEFINE Good == asked'[t][c] <= faults' + (IF Answering(t, c)' THEN 1 ELSE 0)
<1>0. TypeOK /\ AskedIsDue
  BY DEF IInv, Lists
<1>00. /\ faults \in Nat /\ asked[t][c] \in Nat /\ c \in Nat /\ checked[t] \in Nat
       /\ asked[t][c] <= faults + (IF Answering(t, c) THEN 1 ELSE 0)
  <2>1. checked[t] \in SizeChecks \cup {0} /\ faults \in Nat /\ asked[t][c] \in Nat
    BY <1>0, Constants DEF TypeOK
  <2>2. c \in Nat /\ checked[t] \in Nat
    <3>1. \A d \in SizeChecks : d \in Nat
      BY Constants
    <3>2. 0 \in Nat
      OBVIOUS
    <3> QED
      BY <2>1, <3>1, <3>2, Zenon
  <2>3. asked[t][c] <= faults + (IF Answering(t, c) THEN 1 ELSE 0)
    BY DEF IInv, QuestionsCounted
  <2> QED
    BY <2>1, <2>2, <2>3
<1> USE DEF tables, work, memory, world, Forget
(* a step that asks nothing and takes no answer away *)
<1>1. ASSUME asked' = asked, faults' = faults, Answering(t, c) => Answering(t, c)'
      PROVE  Good
  BY <1>00, <1>1
<1>2. ASSUME asked' = asked, faults' = faults + 1 PROVE Good
  BY <1>00, <1>2
<1>3. ASSUME UNCHANGED <<checked, asked, faults>>, pc # "asking" PROVE Good
  BY <1>1, <1>3 DEF Answering
<1>4. ASSUME UNCHANGED <<checked, asked, faults, pc, cur, at>> PROVE Good
  BY <1>1, <1>4 DEF Answering, Checkpoint, Passed, Age
<1>5. ASSUME NEW u \in Tokens, Due(u), checked' = UsedUp(u),
             pc # "asking" \/ cur = u, asked' = asked, faults' = faults
      PROVE  Good
  <2>1. at \in Nat /\ Passed(u) # {} /\ Checkpoint(u) > checked[u]
    BY <1>0, <1>5, Constants DEF Due, TypeOK
  <2>2. Checkpoint(u) \in Nat
    BY <2>1, CheckpointPassed, Constants
  <2>3. checked' = [checked EXCEPT ![u] = Checkpoint(u)]
    BY <1>5 DEF UsedUp
  <2>4. CASE t # u
    <3>1. checked'[t] = checked[t]
      BY <1>0, <2>3, <2>4 DEF TypeOK
    <3> QED
      BY <1>1, <1>5, <2>4, <3>1 DEF Answering
  <2>5. CASE t = u
    <3>1. checked'[t] = Checkpoint(t)
      BY <1>0, <2>3, <2>5 DEF TypeOK
    <3>2. Answering(t, c) => checked'[t] >= c
      BY <1>00, <2>1, <2>2, <2>5, <3>1 DEF Answering
    <3> QED
      BY <1>1, <1>5, <3>2 DEF Answering
  <2> QED
    BY <2>4, <2>5
<1>6. ASSUME NEW u \in Tokens, AskSize(u) PROVE Good
  <2>1. /\ at \in Nat /\ Passed(u) # {} /\ Checkpoint(u) > checked[u] /\ pc = "examine"
        /\ pc' = "asking" /\ cur' = u /\ faults' = faults /\ checked' = checked /\ at' = at
        /\ asked' = [asked EXCEPT ![u][Checkpoint(u)] = @ + 1]
    BY <1>0, <1>6, Constants DEF AskSize, Examinable, Due, TypeOK
  <2>2. Checkpoint(u) \in SizeChecks /\ Checkpoint(u) \in Nat
    BY <2>1, CheckpointPassed, Constants
  <2>3. CASE t = u /\ c = Checkpoint(u)
    <3>1. ~ Answering(t, c)
      BY <1>00, <2>1, <2>2, <2>3 DEF Answering
    <3>2. asked'[t][c] = asked[t][c] + 1
      BY <1>0, <2>1, <2>3 DEF TypeOK
    <3>3. Answering(t, c)'
      BY <2>1, <2>3 DEF Answering, Checkpoint, Passed, Age
    <3> QED
      BY <1>00, <2>1, <3>1, <3>2, <3>3
  <2>4. CASE ~ (t = u /\ c = Checkpoint(u))
    <3>1. asked'[t][c] = asked[t][c]
      BY <1>0, <2>1, <2>2, <2>4 DEF TypeOK
    <3>2. Answering(t, c) => Answering(t, c)'
      BY <2>1 DEF Answering
    <3> QED
      BY <1>00, <2>1, <3>1, <3>2
  <2> QED
    BY <2>3, <2>4
<1>7. ASSUME NEW u \in Tokens, BudgetDenies(u) PROVE Good
  BY <1>5, <1>7 DEF BudgetDenies, Examinable
<1>8. CASE CandidateFails \/ CandidatePasses
  <2>1. pc = "asking" /\ cur \in Tokens /\ Due(cur) /\ checked' = UsedUp(cur)
        /\ asked' = asked /\ faults' = faults
    BY <1>0, <1>8 DEF CandidateFails, CandidatePasses, AskedIsDue, TypeOK
  <2> QED
    BY <1>5, <2>1
<1>9. CASE RoundFails \/ Crash
  BY <1>2, <1>9 DEF RoundFails, Crash, Fault
<1>10. CASE StartRound \/ EnqueueNone \/ NothingToSend \/ MarkSent \/ MarkRetry \/ Restart
  BY <1>3, <1>10 DEF StartRound, EnqueueNone, Examined, NothingToSend, MarkSent, MarkRetry, Restart
<1>11. ASSUME NEW u \in Tokens, Skip(u) \/ Send(u) PROVE Good
  BY <1>3, <1>11 DEF Skip, Send
<1>12. ASSUME NEW d \in found, EnqueueBest(d) PROVE Good
  BY <1>3, <1>12 DEF EnqueueBest, Examined
<1>13. ASSUME NEW u \in Tokens, TelegramAccepts(u) \/ TelegramFails(u) PROVE Good
  BY <1>4, <1>13 DEF TelegramAccepts, TelegramFails
<1>14. CASE Tick \/ UNCHANGED vars
  BY <1>4, <1>14 DEF Tick, vars
<1> QED
  BY <1>6, <1>7, <1>8, <1>9, <1>10, <1>11, <1>12, <1>13, <1>14 DEF Next, Round

------------------------------------------------------------------------------
(* The invariant holds throughout. *)
LEMMA InvariantIInv == Spec => []IInv
<1>1. IInv /\ [Next]_vars => IInv'
  BY StepTypeOK, StepLists, StepRows, StepHourlyCap, StepQuestions DEF IInv
<1> QED
  BY <1>1, InitIInv, PTL DEF Spec

(***************************************************************************)
(* The database, the lists of a round and Telegram are what the module      *)
(* declares: no token is a candidate twice in a round, and the attempts of  *)
(* a row never exceed MaxAttempts.                                         *)
(***************************************************************************)
THEOREM TypeCorrect == Spec => []TypeOK
<1>1. IInv => TypeOK
  BY DEF IInv
<1> QED
  BY <1>1, InvariantIInv, PTL

(***************************************************************************)
(* claim_notification never lets an hour hold more than max_per_hour rows,  *)
(* although it counts with the instant the round began.                    *)
(***************************************************************************)
THEOREM CapHolds == Spec => []HourlyCap
<1>1. IInv => HourlyCap
  BY DEF IInv
<1> QED
  BY <1>1, InvariantIInv, PTL

(***************************************************************************)
(* Polls, failed rounds and restarts ask GMGN about a token at a checkpoint *)
(* once, and once more per fault at most.                                  *)
(***************************************************************************)
THEOREM NeverAskedAgain == Spec => []AskedOncePerCheckpoint
<1>1. IInv => AskedOncePerCheckpoint
  <2> SUFFICES ASSUME IInv, NEW t \in Tokens, NEW c \in SizeChecks
               PROVE  asked[t][c] <= 1 + faults
    BY DEF AskedOncePerCheckpoint
  <2>1. faults \in Nat /\ asked[t][c] \in Nat
    BY Constants DEF IInv, TypeOK
  <2>2. asked[t][c] <= faults + (IF Answering(t, c) THEN 1 ELSE 0)
    BY DEF IInv, QuestionsCounted
  <2> QED
    BY <2>1, <2>2
<1> QED
  BY <1>1, InvariantIInv, PTL

------------------------------------------------------------------------------
(***************************************************************************)
(* The refinement: what the tables show of each token.                      *)
(***************************************************************************)
Status == [t \in Tokens |->
            CASE out[t].state = None                       -> "none"
              [] out[t].state = "pending" /\ ~ GivenUp(t) -> "queued"
              [] out[t].state = "pending" /\ GivenUp(t)   -> "failed"
              [] out[t].state = "sent"                     -> "sent"]

Holder == [t \in Tokens |-> IF out[t].state = None THEN << >> ELSE <<t>>]

(* The same without GivenUp, for any table and any set of tokens in hand. *)
Look(o, held) ==
    [t \in Tokens |->
        IF o[t].state = None THEN "none"
        ELSE IF o[t].state = "sent" THEN "sent"
        ELSE IF o[t].attempts = MaxAttempts /\ t \notin held THEN "failed" ELSE "queued"]

InHand == IF pc = "sending" THEN {cur} ELSE {}

LEMMA StatusIs == TypeOK => Status = Look(out, InHand)
<1> SUFFICES ASSUME TypeOK, NEW t \in Tokens PROVE Status[t] = Look(out, InHand)[t]
  BY DEF Status, Look
<1>1. out[t].state \in {None, "pending", "sent"}
  BY DEF TypeOK
<1>2. GivenUp(t) <=> out[t].attempts = MaxAttempts /\ t \notin InHand
  BY DEF GivenUp, InHand
<1>3. CASE GivenUp(t)
  BY <1>1, <1>2, <1>3 DEF Status, Look, None
<1>4. CASE ~ GivenUp(t)
  BY <1>1, <1>2, <1>4 DEF Status, Look, None
<1> QED
  BY <1>3, <1>4

LEMMA StatusIsNext == TypeOK' => Status' = Look(out', InHand')
<1>1. (TypeOK => Status = Look(out, InHand))'
  BY StatusIs, PTL
<1> QED
  BY <1>1

(* The tables before the first round are what AlertDelivery starts from. *)
LEMMA InitRefines == Init => Delivery!Init
<1> SUFFICES ASSUME Init PROVE Delivery!Init
  OBVIOUS
<1>1. TypeOK
  BY InitIInv DEF IInv
<1>2. Status = [t \in Tokens |-> "none"]
  BY <1>1, StatusIs DEF Look, Init, NoMessage
<1>3. Holder = [t \in Tokens |-> << >>] /\ copies = [t \in Tokens |-> 0]
  BY DEF Init, NoMessage, Holder
<1> QED
  BY <1>2, <1>3 DEF Delivery!Init, Status, Holder

(***************************************************************************)
(* What the mapping makes of a step that keeps the outbox: nothing, if it   *)
(* neither takes a row in hand nor lets one go; a row let go whose attempts *)
(* are spent is given up.                                                  *)
(***************************************************************************)
LEMMA KeptOutbox ==
    ASSUME IInv, TypeOK', out' = out, copies' = copies,
           (pc' = pc /\ cur' = cur) \/ pc' # "sending"
    PROVE  Delivery!Next \/ UNCHANGED <<Status, Holder, copies>>
<1>0. TypeOK /\ HeldRow
  BY DEF IInv, Rows
<1>1. Holder' = Holder
  BY DEF Holder
<1>2. Status = Look(out, InHand) /\ Status' = Look(out, InHand')
  BY <1>0, StatusIs, StatusIsNext
<1>3. CASE InHand' = InHand
  BY <1>1, <1>2, <1>3
<1>4. CASE pc = "sending" /\ pc' # "sending" /\ out[cur].attempts # MaxAttempts
  <2>1. InHand = {cur} /\ InHand' = {}
    BY <1>4 DEF InHand
  <2>2. Look(out, {}) = Look(out, {cur})
    BY <1>4 DEF Look
  <2> QED
    BY <1>1, <1>2, <2>1, <2>2
<1>5. CASE pc = "sending" /\ pc' # "sending" /\ out[cur].attempts = MaxAttempts
  <2>1. InHand = {cur} /\ InHand' = {}
    BY <1>5 DEF InHand
  <2>2. cur \in Tokens /\ out[cur].state = "pending"
    BY <1>0, <1>5 DEF HeldRow
  <2>3. Status[cur] = "queued"
    BY <1>2, <2>1, <2>2 DEF Look, None
  <2> PICK ts \in SUBSET Tokens : ts = {cur}
    BY <2>2
  <2>4. Status' = [t \in Tokens |-> IF t \in ts THEN "failed" ELSE Status[t]]
    BY <1>2, <1>5, <2>1, <2>2 DEF Look, None
  <2>5. Delivery!GiveUp(ts)
    BY <1>1, <2>2, <2>3, <2>4 DEF Delivery!GiveUp, Status, Holder
  <2> QED
    BY <2>5 DEF Delivery!Next
<1> QED
  BY <1>3, <1>4, <1>5 DEF InHand

(***************************************************************************)
(* Every step of a round, Telegram, a fault or the clock is a step of       *)
(* AlertDelivery or leaves it as it is.                                    *)
(***************************************************************************)
LEMMA StepRefines ==
    IInv /\ IInv' /\ [Next]_vars => [Delivery!Next]_(Delivery!deliveryVars)
<1> SUFFICES ASSUME IInv, IInv', [Next]_vars
             PROVE  Delivery!Next \/ UNCHANGED <<Status, Holder, copies>>
  BY DEF Delivery!deliveryVars, Status, Holder
<1>0. /\ TypeOK /\ TypeOK' /\ DuePending /\ AbsentIsBlank /\ HeldRow /\ FlightPending
      /\ CopiesWithinAttempts
  BY DEF IInv, Lists, Rows
<1>00. Status = Look(out, InHand) /\ Status' = Look(out', InHand')
  BY <1>0, StatusIs, StatusIsNext
<1> USE DEF tables, work, memory, world, Forget
<1>1. ASSUME NEW c \in found, EnqueueBest(c) PROVE Delivery!Next
  <2>1. PICK t \in Tokens : t = c.token
    BY <1>0 DEF TypeOK
  <2>2. /\ out[t].state = None /\ pc = "examine" /\ pc' = "deliver" /\ copies' = copies
        /\ out' = [out EXCEPT ![t] = [state |-> "pending", attempts |-> 0, claimed |-> at]]
    BY <1>1, <2>1 DEF EnqueueBest, Examined
  <2>3. /\ out'[t].state = "pending" /\ out'[t].attempts = 0 /\ 0 # MaxAttempts
        /\ \A u \in Tokens \ {t} : out'[u] = out[u]
    BY <1>0, <2>2, Constants DEF TypeOK
  <2>4. InHand = {} /\ InHand' = {}
    BY <2>2 DEF InHand
  <2>5. Status[t] = "none"
    BY <1>00, <2>2 DEF Look
  <2>6. \A u \in Tokens : Holder[u] # <<t>>
    BY <2>2 DEF Holder
  <2>7. Status' = [Status EXCEPT ![t] = "queued"]
    BY <1>00, <2>3, <2>4 DEF Look, None
  <2>8. Holder' = [Holder EXCEPT ![t] = <<t>>]
    BY <2>3 DEF Holder, None
  <2>9. Delivery!Queue(t, <<t>>)
    BY <2>2, <2>5, <2>6, <2>7, <2>8 DEF Delivery!Queue, Status, Holder
  <2> QED
    BY <2>9 DEF Delivery!Next
<1>2. ASSUME NEW t \in Tokens, Send(t) PROVE UNCHANGED <<Status, Holder, copies>>
  <2>1. pc = "deliver" /\ t \in due /\ out[t].attempts < MaxAttempts /\ pc' = "sending"
        /\ cur' = t /\ copies' = copies /\ out' = [out EXCEPT ![t].attempts = @ + 1]
    BY <1>2 DEF Send, Claimable
  <2>2. out[t].state = "pending" /\ out[t].attempts # MaxAttempts
    <3>1. out[t].state = "pending"
      BY ONLY <1>0, <2>1 DEF DuePending
    <3>2. out[t].attempts \in 0..MaxAttempts
      BY <1>0 DEF TypeOK
    <3> QED
      BY <2>1, <3>1, <3>2, Constants
  <2>3. out'[t].state = "pending" /\ \A u \in Tokens \ {t} : out'[u] = out[u]
    BY <1>0, <2>1, <2>2 DEF TypeOK
  <2>4. InHand = {} /\ InHand' = {t}
    BY <2>1 DEF InHand
  <2>5. Look(out', {t}) = Look(out, {})
    BY <2>2, <2>3 DEF Look, None
  <2>6. Holder' = Holder
    BY <2>2, <2>3 DEF Holder, None
  <2> QED
    BY <1>00, <2>1, <2>4, <2>5, <2>6
<1>3. CASE MarkSent
  <2>1. /\ pc = "sending" /\ cur \in Tokens /\ out[cur].state = "pending" /\ copies[cur] > 0
        /\ pc' = "wait" /\ copies' = copies /\ out' = [out EXCEPT ![cur].state = "sent"]
    BY <1>0, <1>3 DEF MarkSent, HeldRow
  <2> PICK t \in Tokens : t = cur
    BY <2>1
  <2>2. out'[t].state = "sent" /\ \A u \in Tokens \ {t} : out'[u] = out[u]
    BY <1>0, <2>1 DEF TypeOK
  <2>3. InHand = {t} /\ InHand' = {}
    BY <2>1 DEF InHand
  <2>4. Status[t] = "queued"
    BY <1>00, <2>1, <2>3 DEF Look, None
  <2>5. Status' = [Status EXCEPT ![t] = "sent"]
    BY <1>00, <2>2, <2>3 DEF Look, None
  <2>6. Holder' = Holder
    BY <2>1, <2>2 DEF Holder, None
  <2>7. Delivery!Confirm(t)
    BY <2>1, <2>4, <2>5, <2>6 DEF Delivery!Confirm, Status, Holder
  <2> QED
    BY <2>7 DEF Delivery!Next
<1>4. ASSUME NEW t \in Tokens, TelegramAccepts(t) PROVE Delivery!Next
  <2>1. /\ t \in flight /\ out' = out /\ InHand' = InHand
        /\ copies' = [copies EXCEPT ![t] = @ + 1]
    BY <1>4 DEF TelegramAccepts, InHand
  <2>2. copies[t] < MaxAttempts
    <3>1. copies[t] + 1 <= out[t].attempts /\ out[t].attempts <= MaxAttempts
          /\ copies[t] \in Nat /\ out[t].attempts \in Nat
      BY <1>0, <2>1, Constants DEF CopiesWithinAttempts, TypeOK
    <3> QED
      BY <3>1, Constants
  <2>3. Status[t] \in {"queued", "failed"}
    BY <1>0, <1>00, <2>1 DEF FlightPending, Look, None
  <2>4. Status' = Status /\ Holder' = Holder
    BY <1>00, <2>1 DEF Holder
  <2>5. Delivery!Arrive(t)
    BY <2>1, <2>2, <2>3, <2>4 DEF Delivery!Arrive, Status, Holder
  <2> QED
    BY <2>5 DEF Delivery!Next
<1>5. ASSUME NEW t \in Tokens, TelegramFails(t)
      PROVE  Delivery!Next \/ UNCHANGED <<Status, Holder, copies>>
  BY <1>0, <1>5, KeptOutbox DEF TelegramFails
<1>6. CASE StartRound \/ CandidateFails \/ CandidatePasses \/ EnqueueNone \/ NothingToSend
  BY <1>0, <1>6, KeptOutbox
     DEF StartRound, CandidateFails, CandidatePasses, EnqueueNone, NothingToSend
<1>7. ASSUME NEW t \in Tokens, Skip(t) \/ BudgetDenies(t) \/ AskSize(t)
      PROVE  Delivery!Next \/ UNCHANGED <<Status, Holder, copies>>
  BY <1>0, <1>7, KeptOutbox DEF Skip, BudgetDenies, AskSize, Examinable
<1>8. CASE MarkRetry \/ RoundFails \/ Crash \/ Restart \/ Tick \/ UNCHANGED vars
  BY <1>0, <1>8, KeptOutbox DEF MarkRetry, RoundFails, Crash, Restart, Tick, vars
<1> QED
  BY <1>1, <1>2, <1>3, <1>4, <1>5, <1>6, <1>7, <1>8 DEF Next, Round

(***************************************************************************)
(* The tables, seen through the mapping of PonsNotifier, are an             *)
(* AlertDelivery: everything ImplementsDelivery says but its liveness, for  *)
(* every value of the constants.                                           *)
(***************************************************************************)
THEOREM ImplementsSafeDelivery == Spec => Delivery!SafeSpec
BY InitRefines, StepRefines, InvariantIInv, PTL DEF Spec, Delivery!SafeSpec
==============================================================================
