----------------------------- MODULE HealthProofs -----------------------------
(***************************************************************************)
(* Proofs about HealthAlert for every cooldown, delay and number of faults: *)
(* what the alerter says needlessly, and what it takes back too early.       *)
(***************************************************************************)
EXTENDS HealthAlert, TLAPS

(* The constants as numbers, which the arithmetic of ages needs. *)
LEMMA Bounds ==
    /\ Stale \in Nat /\ Stalled \in Nat /\ MaxFaults \in Nat
    /\ AlertAfter \in Nat /\ Cooldown \in Nat /\ RecoverAfter \in Nat /\ Depth \in Nat
    /\ AlertAfter > 0 /\ Cooldown > 0 /\ RecoverAfter > 0 /\ Depth > 0
BY HealthAssumption

(* An age that grows stays an age. *)
LEMMA OlderIsAge ==
    ASSUME NEW cap \in Nat, NEW age \in Ages(cap)
    PROVE  Older(age, cap) \in Ages(cap)
BY DEF Older, Ages, Min2, Never

(* What a poll counts, with or without the messages, is an issue again. *)
LEMMA CountedIsIssue ==
    ASSUME TypeOK, NEW c \in Codes
    PROVE  /\ Counted(c) \in Issues
           /\ Counted(c).sent = known[c].sent
           /\ Counted(c).clear = IF c \in Current THEN Never
                                 ELSE IF known[c].clear = Never THEN 0 ELSE known[c].clear
<1>1. known[c] \in Issues
  BY DEF TypeOK
<1>2. 0 \in Ages(AlertAfter) /\ 0 \in Ages(RecoverAfter) /\ Never \in Ages(RecoverAfter)
  BY Bounds DEF Ages
<1> QED
  BY <1>1, <1>2 DEF Counted, Issues

(* The state file after a poll, of any messages that failed. *)
LEMMA KnownType ==
    ASSUME TypeOK, NEW failed \in SUBSET Due
    PROVE  Known(failed) \in [Codes -> Issues]
<1> SUFFICES ASSUME NEW c \in Codes PROVE Known(failed)[c] \in Issues
  BY DEF Known
<1>1. Absent \in Issues /\ 0 \in Ages(Cooldown)
  BY Bounds DEF Absent, Issues, Ages
<1>2. Counted(c) \in Issues
  BY CountedIsIssue
<1>3. [Counted(c) EXCEPT !.sent = 0] \in Issues
  BY <1>1, <1>2 DEF Issues
<1> QED
  BY <1>1, <1>2, <1>3 DEF Known

(* The history of the channel keeps its type. *)
LEMMA PostsType ==
    ASSUME TypeOK, NEW posted \in SUBSET Due, NEW unknown \in SUBSET Due, Posts(posted, unknown)
    PROVE  /\ told' \subseteq Codes /\ unsure' \subseteq Codes /\ surplus' \subseteq Codes
           /\ quiet' \in [Codes -> 0..Cooldown]
<1>1. Due \subseteq Codes
  BY DEF Due, Alarms, Recoveries, Over, Clearing, Current, Codes
<1>2. 0 \in 0..Cooldown /\ Cooldown \in 0..Cooldown
  BY Bounds
<1> QED
  BY <1>1, <1>2 DEF Posts, TypeOK

LEMMA SeesType == TypeOK /\ Sees => seen' \in [Codes -> 0..RecoverAfter]
<1>1. 0 \in 0..RecoverAfter
  BY Bounds
<1> QED
  BY <1>1 DEF Sees, TypeOK

LEMMA RemembersType == TypeOK /\ Remembers => overrun' \subseteq Codes
BY DEF Remembers, TypeOK

LEMMA InitTypeOK == Init => TypeOK
<1> SUFFICES ASSUME Init PROVE TypeOK
  OBVIOUS
<1>1. hold \in [block : 0..Depth, age : Ages(Stalled + 1)]
  BY Bounds DEF Init, NoHold, Ages
<1>2. file \in [age : 0..Stale + 1, held : Ages(Stalled + 1)]
  BY Bounds DEF Init, Ages
<1>3. known \in [Codes -> Issues]
  BY Bounds DEF Init, Absent, Issues, Ages
<1>4. quiet \in [Codes -> 0..Cooldown] /\ seen \in [Codes -> 0..RecoverAfter]
  BY Bounds DEF Init
<1> QED
  BY <1>1, <1>2, <1>3, <1>4 DEF Init, TypeOK

LEMMA StepTypeOK == TypeOK /\ [Next]_vars => TypeOK'
<1> SUFFICES ASSUME TypeOK, [Next]_vars PROVE TypeOK'
  OBVIOUS
<1>0. faults' \in Nat \/ ~ Fault
  BY DEF TypeOK, Fault
<1>1. CASE HoldCheckpoint
  <2>1. PICK block \in 1..Depth : hold' = HoldAt(block)
    BY <1>1 DEF HoldCheckpoint
  <2>2. HoldAt(block) \in [block : 0..Depth, age : Ages(Stalled + 1)]
    <3>1. block \in 0..Depth /\ 0 \in Ages(Stalled + 1)
      BY Bounds DEF Ages
    <3> QED
      BY <3>1 DEF HoldAt, TypeOK
  <2> QED
    BY <1>1, <2>1, <2>2 DEF HoldCheckpoint, TypeOK, alerter, history
<1>2. NoHold \in [block : 0..Depth, age : Ages(Stalled + 1)]
  BY Bounds DEF NoHold, Ages
<1>3. CASE ReleaseCheckpoint
  BY <1>2, <1>3 DEF ReleaseCheckpoint, TypeOK, alerter, history
<1>4. CASE WriteHealth
  <2>1. file' \in [age : 0..Stale + 1, held : Ages(Stalled + 1)]
    BY <1>4, Bounds DEF WriteHealth, TypeOK
  <2> QED
    BY <1>4, <2>1 DEF WriteHealth, TypeOK, daemon, alerter, history
<1>5. CASE DaemonCrash
  BY <1>0, <1>2, <1>5 DEF DaemonCrash, TypeOK, alerter, history
<1>6. CASE DaemonRestart
  BY <1>6 DEF DaemonRestart, TypeOK, alerter, history
<1>7. CASE Poll
  <2>1. Due \in SUBSET Due /\ {} \in SUBSET Due
    OBVIOUS
  <2> QED
    BY <1>7, <2>1, KnownType, PostsType, SeesType, RemembersType DEF Poll, TypeOK, daemon
<1>8. CASE PollSendFails
  <2>0. PICK failed \in SUBSET Due : \E lost \in SUBSET failed :
            known' = Known(failed) /\ Posts((Due \ failed) \cup lost, lost)
    BY <1>8 DEF PollSendFails
  <2>1. PICK lost \in SUBSET failed :
            known' = Known(failed) /\ Posts((Due \ failed) \cup lost, lost)
    BY <2>0
  <2>2. (Due \ failed) \cup lost \in SUBSET Due /\ lost \in SUBSET Due
    BY <2>1
  <2> QED
    BY <1>0, <1>8, <2>1, <2>2, KnownType, PostsType, SeesType, RemembersType
    DEF PollSendFails, TypeOK, daemon
<1>9. CASE PollDies
  <2>1. PICK posted \in SUBSET Due : Posts(posted, posted)
    BY <1>9 DEF PollDies
  <2>2. overrun' \subseteq Codes
    BY <1>9 DEF PollDies, Current, Codes, TypeOK
  <2> QED
    BY <1>0, <1>9, <2>1, <2>2, PostsType, SeesType DEF PollDies, TypeOK, daemon
<1>10. CASE Restart
  BY <1>10 DEF Restart, TypeOK, daemon, history
<1>11. CASE RestartForgets
  <2>1. Absent \in Issues
    BY Bounds DEF Absent, Issues, Ages
  <2> QED
    BY <1>0, <1>11, <2>1 DEF RestartForgets, TypeOK, daemon
<1>12. CASE Tick
  <2>1. hold' \in [block : 0..Depth, age : Ages(Stalled + 1)]
    <3>1. hold.age \in Ages(Stalled + 1) /\ Stalled + 1 \in Nat
      BY Bounds DEF TypeOK
    <3>2. Older(hold.age, Stalled + 1) \in Ages(Stalled + 1)
      BY <3>1, OlderIsAge
    <3> QED
      BY <1>12, <3>2 DEF Tick, TypeOK
  <2>2. file' \in [age : 0..Stale + 1, held : Ages(Stalled + 1)]
    <3>1. /\ file.age \in 0..Stale + 1 /\ file.held \in Ages(Stalled + 1)
          /\ Stale \in Nat /\ Stalled + 1 \in Nat
      BY Bounds DEF TypeOK
    <3>2. Older(file.age, Stale + 1) \in 0..Stale + 1
      BY <3>1 DEF Older, Min2, Never
    <3>3. Older(file.held, Stalled + 1) \in Ages(Stalled + 1)
      BY <3>1, OlderIsAge
    <3> QED
      BY <1>12, <3>2, <3>3 DEF Tick, TypeOK
  <2>3. known' \in [Codes -> Issues]
    <3> SUFFICES ASSUME NEW c \in Codes PROVE known'[c] \in Issues
      BY <1>12 DEF Tick
    <3>1. /\ known[c].first \in Ages(AlertAfter) /\ known[c].sent \in Ages(Cooldown)
          /\ known[c].clear \in Ages(RecoverAfter)
      BY DEF TypeOK, Issues
    <3>2. /\ Older(known[c].first, AlertAfter) \in Ages(AlertAfter)
          /\ Older(known[c].sent, Cooldown) \in Ages(Cooldown)
          /\ Older(known[c].clear, RecoverAfter) \in Ages(RecoverAfter)
      BY <3>1, Bounds, OlderIsAge
    <3> QED
      BY <1>12, <3>2 DEF Tick, Issues
  <2>4. quiet' \in [Codes -> 0..Cooldown] /\ seen' \in [Codes -> 0..RecoverAfter]
    BY <1>12, Bounds DEF Tick, TypeOK, Min2
  <2> QED
    BY <1>12, <2>1, <2>2, <2>3, <2>4 DEF Tick, TypeOK
<1>13. CASE UNCHANGED vars
  BY <1>13 DEF vars, TypeOK, daemon, alerter, history
<1> QED
  BY <1>1, <1>3, <1>4, <1>5, <1>6, <1>7, <1>8, <1>9, <1>10, <1>11, <1>12, <1>13 DEF Next

(***************************************************************************)
(* Every age stays within the bound that makes it comparable, whatever       *)
(* fails, dies or is forgotten.                                             *)
(***************************************************************************)
THEOREM TypeCorrect == Spec => []TypeOK
BY InitTypeOK, StepTypeOK, PTL DEF Spec

(***************************************************************************)
(* What the state file knows of an alarm is what the channel has, but for    *)
(* the codes with a message that it does not know of.                        *)
(***************************************************************************)
Agrees(c) ==
    \/ known[c].sent = Never /\ c \notin told /\ quiet[c] = Cooldown
    \/ known[c].sent # Never /\ c \in told /\ quiet[c] = known[c].sent

ChannelInv ==
    /\ \A c \in Codes \ unsure : Agrees(c)
    /\ surplus = {}

(* A message is posted only if the state file allows it. *)
LEMMA PostsNoSurplus ==
    ASSUME TypeOK, ChannelInv, NEW posted \in SUBSET Due, NEW unknown, Posts(posted, unknown)
    PROVE  surplus' = {}
<1> SUFFICES ASSUME NEW c \in posted \ unsure,
                    IF c \in Alarms THEN quiet[c] < Cooldown ELSE c \notin told
             PROVE  FALSE
  BY DEF Posts, ChannelInv
<1>1. c \in Due /\ c \in Codes
  BY DEF Due, Alarms, Recoveries, Over, Clearing, Current, Codes
<1>2. Agrees(c) /\ Counted(c).sent = known[c].sent
  BY <1>1, CountedIsIssue DEF ChannelInv
<1>3. quiet[c] \in Nat /\ Cooldown \in Nat
  BY <1>1, Bounds DEF TypeOK
<1>4. CASE c \in Alarms
  BY <1>2, <1>3, <1>4 DEF Alarms, Agrees
<1>5. CASE c \notin Alarms
  BY <1>1, <1>2, <1>5 DEF Due, Recoveries, Agrees
<1> QED
  BY <1>4, <1>5

(* A poll, with the messages in failed refused and those in lost not heard of. *)
LEMMA PollAgrees ==
    ASSUME TypeOK, ChannelInv,
           NEW failed \in SUBSET Due, NEW lost \in SUBSET failed,
           known' = Known(failed), Posts((Due \ failed) \cup lost, lost)
    PROVE  ChannelInv'
<1>1. surplus' = {}
  <2>1. (Due \ failed) \cup lost \in SUBSET Due
    OBVIOUS
  <2> QED
    BY <2>1, PostsNoSurplus
<1>2. ASSUME NEW c \in Codes \ unsure' PROVE Agrees(c)'
  <2>1. Counted(c).sent = known[c].sent
    BY CountedIsIssue
  <2>2. Absent.sent = Never /\ 0 # Never
    BY DEF Absent, Never
  <2>3. c \notin lost
    BY <1>2 DEF Posts
  <2>4. CASE c \in Alarms \ failed
    <3>1. c \notin Recoveries /\ c \in Current /\ c \in Due
      BY <2>4 DEF Alarms, Recoveries, Over, Clearing, Due
    <3>2. known'[c].sent = 0
      <4>1. Counted(c) \in Issues
        BY CountedIsIssue
      <4>2. known'[c] = [Counted(c) EXCEPT !.sent = 0]
        BY <2>4, <3>1 DEF Known
      <4> QED
        BY <4>1, <4>2 DEF Issues
    <3>3. c \in told' /\ quiet'[c] = 0
      BY <2>4, <3>1 DEF Posts
    <3> QED
      BY <2>2, <3>2, <3>3 DEF Agrees
  <2>5. CASE c \in Recoveries \ failed
    <3>1. c \notin Alarms /\ c \notin Current /\ c \in Over /\ c \in Due
      BY <2>5 DEF Alarms, Recoveries, Over, Clearing, Due
    <3>2. known'[c] = Absent
      BY <2>5, <3>1 DEF Known
    <3>3. c \notin told' /\ quiet'[c] = Cooldown
      BY <2>5, <3>1 DEF Posts
    <3> QED
      BY <2>2, <3>2, <3>3 DEF Agrees
  <2>6. CASE c \notin Due \ failed
    <3>1. c \notin unsure /\ (c \in told' <=> c \in told) /\ quiet'[c] = quiet[c]
      BY <1>2, <2>3, <2>6 DEF Posts
    <3>2. Agrees(c)
      BY <1>2, <3>1 DEF ChannelInv
    <3>3. known'[c].sent = known[c].sent
      <4>1. c \notin Alarms \ failed
        BY <2>6 DEF Due
      <4>2. CASE c \in Current \cup (Clearing \ (Over \ (Recoveries \cap failed)))
        BY <2>1, <4>1, <4>2 DEF Known
      <4>3. CASE c \in Over \ (Recoveries \cap failed)
        <5>1. c \notin Recoveries /\ c \notin Current
          BY <2>6, <4>3 DEF Due, Over, Clearing
        <5>2. known[c].sent = Never
          BY <2>1, <4>3, <5>1 DEF Recoveries
        <5>3. known'[c] = Absent
          BY <4>3, <5>1 DEF Known
        <5> QED
          BY <2>2, <5>2, <5>3
      <4>4. CASE c \notin Current /\ c \notin Clearing
        <5>1. known[c] = Absent /\ known'[c] = Absent
          BY <4>4 DEF Known, Clearing
        <5> QED
          BY <5>1
      <4> QED
        BY <4>2, <4>3, <4>4
    <3> QED
      BY <3>1, <3>2, <3>3 DEF Agrees
  <2> QED
    BY <2>4, <2>5, <2>6 DEF Due
<1> QED
  BY <1>1, <1>2 DEF ChannelInv

LEMMA StepChannelInv == TypeOK /\ ChannelInv /\ [Next]_vars => ChannelInv'
<1> SUFFICES ASSUME TypeOK, ChannelInv, [Next]_vars PROVE ChannelInv'
  OBVIOUS
<1>1. CASE UNCHANGED <<known, told, unsure, quiet, surplus>>
  BY <1>1 DEF ChannelInv, Agrees
<1>2. CASE Poll
  <2>1. (Due \ {}) \cup {} = Due
    OBVIOUS
  <2> QED
    BY <1>2, <2>1, PollAgrees DEF Poll
<1>3. CASE PollSendFails
  <2>1. PICK failed \in SUBSET Due : \E lost \in SUBSET failed :
            known' = Known(failed) /\ Posts((Due \ failed) \cup lost, lost)
    BY <1>3 DEF PollSendFails
  <2>2. PICK lost \in SUBSET failed :
            known' = Known(failed) /\ Posts((Due \ failed) \cup lost, lost)
    BY <2>1
  <2> QED
    BY <2>2, PollAgrees
<1>4. CASE PollDies
  <2>1. PICK posted \in SUBSET Due : Posts(posted, posted)
    BY <1>4 DEF PollDies
  <2>2. surplus' = {}
    BY <2>1, PostsNoSurplus
  <2>3. ASSUME NEW c \in Codes \ unsure' PROVE Agrees(c)'
    <3>1. c \notin unsure /\ c \notin posted
      BY <2>1, <2>3 DEF Posts
    <3>2. Agrees(c) /\ known' = known
      BY <1>4, <3>1 DEF ChannelInv, PollDies
    <3>3. (c \in told' <=> c \in told) /\ quiet'[c] = quiet[c]
      BY <2>1, <3>1 DEF Posts
    <3> QED
      BY <3>2, <3>3 DEF Agrees
  <2> QED
    BY <2>2, <2>3 DEF ChannelInv
<1>5. CASE RestartForgets
  <2>1. ASSUME NEW c \in Codes \ unsure' PROVE Agrees(c)'
    <3>1. c \notin unsure /\ known[c].sent = Never
      BY <1>5, <2>1 DEF RestartForgets
    <3>2. known'[c].sent = Never
      BY <1>5 DEF RestartForgets, Absent
    <3> QED
      BY <1>5, <3>1, <3>2 DEF RestartForgets, ChannelInv, Agrees
  <2> QED
    BY <1>5, <2>1 DEF RestartForgets, ChannelInv
<1>6. CASE Tick
  <2>1. ASSUME NEW c \in Codes \ unsure' PROVE Agrees(c)'
    <3>1. Agrees(c) /\ UNCHANGED told
      BY <1>6, <2>1 DEF Tick, ChannelInv
    <3>2. known'[c].sent = Older(known[c].sent, Cooldown) /\ quiet'[c] = Min2(quiet[c] + 1, Cooldown)
      BY <1>6 DEF Tick
    <3>3. quiet[c] \in 0..Cooldown /\ Cooldown \in Nat
      BY Bounds DEF TypeOK
    <3> QED
      BY <3>1, <3>2, <3>3 DEF Agrees, Older, Min2, Never
  <2> QED
    BY <1>6, <2>1 DEF Tick, ChannelInv
<1>7. CASE HoldCheckpoint \/ ReleaseCheckpoint \/ WriteHealth \/ DaemonCrash \/ DaemonRestart
           \/ Restart
  BY <1>1, <1>7 DEF HoldCheckpoint, ReleaseCheckpoint, WriteHealth, DaemonCrash, DaemonRestart,
                    Restart, alerter, history
<1>8. CASE UNCHANGED vars
  BY <1>1, <1>8 DEF vars, alerter, history
<1> QED
  BY <1>2, <1>3, <1>4, <1>5, <1>6, <1>7, <1>8 DEF Next

(***************************************************************************)
(* No alarm comes again within its cooldown and no recovery comes without an *)
(* alarm, but for messages that the state file could not know of.            *)
(***************************************************************************)
THEOREM NeverNeedless == Spec => []NoNeedlessMessage
<1>1. Init => ChannelInv
  BY DEF Init, ChannelInv, Agrees, Absent, Codes
<1>2. ChannelInv => NoNeedlessMessage
  BY DEF ChannelInv, NoNeedlessMessage
<1> QED
  BY <1>1, <1>2, InitTypeOK, StepTypeOK, StepChannelInv, PTL DEF Spec

(***************************************************************************)
(* The clear count of an issue is never older than the last poll that found  *)
(* it, unless that poll died without stopping the count.                     *)
(***************************************************************************)
ClearInv ==
    \A c \in Codes : known[c].clear # Never => seen[c] >= known[c].clear \/ c \in overrun

LEMMA PollClear ==
    ASSUME TypeOK, ClearInv, NEW failed \in SUBSET Due, known' = Known(failed), Sees, Remembers
    PROVE  ClearInv'
<1> SUFFICES ASSUME NEW c \in Codes, known'[c].clear # Never
             PROVE  seen'[c] >= known'[c].clear \/ c \in overrun'
  BY DEF ClearInv
<1>1. known'[c] # Absent
  BY DEF Absent
<1>2. known'[c].clear = Counted(c).clear
  <2>1. Counted(c) \in Issues
    BY CountedIsIssue
  <2>2. known'[c] = Counted(c) \/ known'[c] = [Counted(c) EXCEPT !.sent = 0]
    BY <1>1 DEF Known
  <2> QED
    BY <2>1, <2>2 DEF Issues
<1>3. c \notin Current
  BY <1>2, CountedIsIssue
<1>4. seen'[c] = seen[c] /\ seen[c] \in Nat /\ (c \in overrun => c \in overrun')
  BY <1>3 DEF Sees, Remembers, TypeOK
<1>5. known[c].clear = Never \/ seen[c] >= known[c].clear \/ c \in overrun
  BY DEF ClearInv
<1> QED
  BY <1>2, <1>3, <1>4, <1>5, CountedIsIssue

(* A poll that dies deletes no count from the file: what it found runs on.    *)
LEMMA DyingClear == TypeOK /\ ClearInv /\ PollDies => ClearInv'
<1> SUFFICES ASSUME TypeOK, ClearInv, PollDies, NEW c \in Codes, known'[c].clear # Never
             PROVE  seen'[c] >= known'[c].clear \/ c \in overrun'
  BY DEF ClearInv
<1>1. known' = known /\ overrun' = overrun \cup {x \in Current : known[x].clear # Never}
  BY DEF PollDies
<1>2. CASE c \in Current
  BY <1>1, <1>2
<1>3. CASE c \notin Current
  <2>1. seen'[c] = seen[c]
    BY <1>3 DEF PollDies, Sees
  <2> QED
    BY <1>1, <2>1 DEF ClearInv
<1> QED
  BY <1>2, <1>3

LEMMA StepClearInv == TypeOK /\ ClearInv /\ [Next]_vars => ClearInv'
<1> SUFFICES ASSUME TypeOK, ClearInv, [Next]_vars PROVE ClearInv'
  OBVIOUS
<1>1. CASE UNCHANGED <<known, seen, overrun>>
  BY <1>1 DEF ClearInv
<1>2. CASE Poll
  <2>1. {} \in SUBSET Due
    OBVIOUS
  <2> QED
    BY <1>2, <2>1, PollClear DEF Poll
<1>3. CASE PollSendFails
  <2>1. PICK failed \in SUBSET Due : known' = Known(failed)
    BY <1>3 DEF PollSendFails
  <2> QED
    BY <1>3, <2>1, PollClear DEF PollSendFails
<1>4. CASE RestartForgets
  BY <1>4 DEF RestartForgets, ClearInv, Absent
<1>5. CASE Tick
  <2> SUFFICES ASSUME NEW c \in Codes, known'[c].clear # Never
               PROVE  seen'[c] >= known'[c].clear \/ c \in overrun'
    BY DEF ClearInv
  <2>1. /\ known'[c].clear = Older(known[c].clear, RecoverAfter)
        /\ seen'[c] = Min2(seen[c] + 1, RecoverAfter) /\ overrun' = overrun
    BY <1>5 DEF Tick
  <2>2. /\ known[c].clear \in Ages(RecoverAfter) /\ seen[c] \in 0..RecoverAfter
        /\ RecoverAfter \in Nat
    BY Bounds DEF TypeOK, Issues
  <2>3. known[c].clear = Never \/ seen[c] >= known[c].clear \/ c \in overrun
    BY DEF ClearInv
  <2> QED
    BY <2>1, <2>2, <2>3 DEF Older, Min2, Never, Ages
<1>6. CASE HoldCheckpoint \/ ReleaseCheckpoint \/ WriteHealth \/ DaemonCrash \/ DaemonRestart
           \/ Restart
  BY <1>1, <1>6 DEF HoldCheckpoint, ReleaseCheckpoint, WriteHealth, DaemonCrash, DaemonRestart,
                    Restart, alerter, history
<1>7. CASE UNCHANGED vars
  BY <1>1, <1>7 DEF vars, alerter, history
<1> QED
  BY <1>2, <1>3, <1>4, <1>5, <1>6, <1>7, DyingClear DEF Next

(* Only a recovery that is due takes a code out of told. *)
LEMMA StepRecovery ==
    TypeOK /\ ClearInv /\ [Next]_vars =>
        \A c \in told \ told' : seen[c] >= RecoverAfter \/ c \in overrun
<1> SUFFICES ASSUME TypeOK, ClearInv, [Next]_vars, NEW c \in told \ told'
             PROVE  seen[c] >= RecoverAfter \/ c \in overrun
  OBVIOUS
<1>1. Poll \/ PollSendFails \/ PollDies
  BY DEF Next, HoldCheckpoint, ReleaseCheckpoint, WriteHealth, DaemonCrash, DaemonRestart,
         Restart, RestartForgets, Tick, vars, history
<1>2. \E posted, unknown : Posts(posted, unknown)
  BY <1>1 DEF Poll, PollSendFails, PollDies
<1>3. c \in Recoveries
  BY <1>2 DEF Posts
<1>4. c \in Codes /\ c \notin Current /\ Counted(c).clear >= RecoverAfter
  BY <1>3 DEF Recoveries, Over, Clearing
<1>5. known[c].clear = Never \/ seen[c] >= known[c].clear \/ c \in overrun
  BY <1>4 DEF ClearInv
<1>6. known[c].clear \in Ages(RecoverAfter) /\ seen[c] \in 0..RecoverAfter
  BY <1>4 DEF TypeOK, Issues
<1>7. RecoverAfter \in Nat /\ RecoverAfter > 0
  BY Bounds
<1> QED
  BY <1>4, <1>5, <1>6, <1>7, CountedIsIssue DEF Ages

(***************************************************************************)
(* A recovery is posted only if no poll has found the issue for              *)
(* recovery_after, but for one whose count ran on because the poll that had   *)
(* found it died: for every delay, and any number of faults.                 *)
(***************************************************************************)
THEOREM RecoveriesEarned == Spec => RecoveryIsEarned
<1>1. Init => ClearInv
  BY DEF Init, ClearInv, Absent
<1>2. TypeOK /\ ClearInv /\ [Next]_vars
      => [\A c \in told \ told' : seen[c] >= RecoverAfter \/ c \in overrun]_vars
  BY StepRecovery
<1> QED
  BY <1>1, <1>2, InitTypeOK, StepTypeOK, StepClearInv, PTL DEF Spec, RecoveryIsEarned
==============================================================================
