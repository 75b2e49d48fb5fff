------------------------------ MODULE HealthAlert ------------------------------
(***************************************************************************)
(* The alarms about the services themselves (health_alert.py): a process    *)
(* that polls the health files, and posts an alarm about what stays wrong    *)
(* and a recovery about what stays right.  What it knows of an issue is in   *)
(* one state file, written at the end of a poll: the messages of a poll have *)
(* left by then.                                                            *)
(*                                                                         *)
(* One health file is modelled, the daemon's, with the memory of the daemon  *)
(* that decides whether a stalled checkpoint is ever reported               *)
(* (hold_native_checkpoint): the two processes share nothing but the file.   *)
(* What a health file states outright (an endpoint that is disconnected, an  *)
(* outbox that fills) is told from what it says alone, and comes and goes as *)
(* HEALTH_STALE does.                                                       *)
(*                                                                         *)
(* Time is kept as ages: how long ago something was, counted in ticks up to  *)
(* the largest value anything is compared with, so that no clock is bounded. *)
(***************************************************************************)
EXTENDS Integers, FiniteSets

CONSTANTS Stale,        \* HEALTH_STALE_MS
          Stalled,      \* CHECKPOINT_HOLD_MS
          AlertAfter,   \* alert_after_ms
          Cooldown,     \* cooldown_ms
          RecoverAfter, \* recovery_after_ms
          Depth,        \* bound of the blocks a hold can be moved down
          MaxFaults     \* bound of lost messages, failures and crashes explored

ASSUME HealthAssumption ==
    /\ {Stale, Stalled, MaxFaults} \subseteq Nat
    /\ {AlertAfter, Cooldown, RecoverAfter, Depth} \subseteq Nat \ {0}

Never == -1         \* no such instant

VARIABLES
    (* the daemon *)
    up,         \* whether it runs
    hold,       \* native_checkpoint_hold: its block, and the age of since_ms, or Never
    (* the health file *)
    file,       \* ages of updated_at_ms and of the since_ms of the hold in it
    (* the alerter; its memory is the state file between two polls *)
    running,
    known,      \* issues of the state file: ages of first_seen_ms, last_sent_ms, clear_seen_ms
    (* history *)
    told,       \* codes with an alarm in the channel and no recovery after it
    unsure,     \* codes with a message in the channel that the state file does not know of
    quiet,      \* age of the last alarm of a code
    seen,       \* age of the last poll that found a code
    overrun,    \* codes whose clear_seen_ms the last poll to find them deleted, and died
    surplus,    \* codes with a message nothing accounts for
    faults

daemon  == <<up, hold>>
alerter == <<running, known>>
history == <<told, unsure, quiet, seen, overrun, surplus>>
vars    == <<daemon, file, alerter, history, faults>>

Codes == {"HEALTH_STALE", "RPC_CHECKPOINT_STALLED"}

Absent == [first |-> Never, sent |-> Never, clear |-> Never]
NoHold == [block |-> 0, age |-> Never]

Min2(a, b) == IF a < b THEN a ELSE b
Older(age, cap) == IF age = Never THEN Never ELSE Min2(age + 1, cap)

Ages(cap) == {Never} \cup 0..cap

Issues == [first : Ages(AlertAfter), sent : Ages(Cooldown), clear : Ages(RecoverAfter)]

TypeOK ==
    /\ up \in BOOLEAN
    /\ hold \in [block : 0..Depth, age : Ages(Stalled + 1)]
    /\ file \in [age : 0..Stale + 1, held : Ages(Stalled + 1)]
    /\ running \in BOOLEAN
    /\ known \in [Codes -> Issues]
    /\ told \subseteq Codes /\ unsure \subseteq Codes
    /\ overrun \subseteq Codes /\ surplus \subseteq Codes
    /\ quiet \in [Codes -> 0..Cooldown]
    /\ seen \in [Codes -> 0..RecoverAfter]
    /\ faults \in Nat

Init ==
    /\ up = TRUE /\ hold = NoHold
    /\ file = [age |-> 0, held |-> Never]
    /\ running = TRUE /\ known = [c \in Codes |-> Absent]
    /\ told = {} /\ unsure = {} /\ overrun = {} /\ surplus = {}
    /\ quiet = [c \in Codes |-> Cooldown]
    /\ seen = [c \in Codes |-> RecoverAfter]
    /\ faults = 0

Fault == faults < MaxFaults /\ faults' = faults + 1

------------------------------------------------------------------------------
(* The daemon: holds, health_loop, crashes.                                  *)

HoldRenewedBug(block) ==          \* since_ms starts anew with every log that fails
    [block |-> IF hold # NoHold /\ hold.block <= block THEN hold.block ELSE block, age |-> 0]

HoldAt(block) ==
    IF hold # NoHold /\ hold.block <= block THEN hold ELSE [block |-> block, age |-> 0]

HoldCheckpoint ==
    /\ up
    /\ \E block \in 1..Depth : hold' = HoldAt(block)
    /\ UNCHANGED <<up, file, alerter, history, faults>>

ReleaseCheckpoint ==
    /\ up /\ hold # NoHold
    /\ hold' = NoHold
    /\ UNCHANGED <<up, file, alerter, history, faults>>

WriteHealth ==
    /\ up
    /\ file' = [age |-> 0, held |-> hold.age]
    /\ UNCHANGED <<daemon, alerter, history, faults>>

DaemonCrash ==
    /\ up /\ Fault
    /\ up' = FALSE /\ hold' = NoHold
    /\ UNCHANGED <<file, alerter, history>>

DaemonRestart ==
    /\ ~ up
    /\ up' = TRUE
    /\ UNCHANGED <<hold, file, alerter, history, faults>>

------------------------------------------------------------------------------
(* collect_issues, _native_chain_issues *)

HeldLong == file.held > Stalled

Current ==
    (IF file.age > Stale THEN {"HEALTH_STALE"} ELSE {})
    \cup (IF HeldLong THEN {"RPC_CHECKPOINT_STALLED"} ELSE {})

(* poll_once *)

Clearing == {c \in Codes \ Current : known[c] # Absent}

CountedOnBug(c) ==                \* a short return of the issue does not stop the count
    IF c \in Current
    THEN [known[c] EXCEPT !.first = IF @ = Never THEN 0 ELSE @]
    ELSE [known[c] EXCEPT !.clear = IF @ = Never THEN 0 ELSE @]

CountedAnewBug(c) ==              \* first_seen_ms is set by every poll
    IF c \in Current
    THEN [known[c] EXCEPT !.first = 0, !.clear = Never]
    ELSE [known[c] EXCEPT !.clear = IF @ = Never THEN 0 ELSE @]

Counted(c) ==
    IF c \in Current
    THEN [known[c] EXCEPT !.first = IF @ = Never THEN 0 ELSE @, !.clear = Never]
    ELSE [known[c] EXCEPT !.clear = IF @ = Never THEN 0 ELSE @]

AlarmsAgainBug == {c \in Current : Counted(c).first >= AlertAfter}

Alarms ==
    {c \in Current :
        /\ Counted(c).first >= AlertAfter
        /\ Counted(c).sent = Never \/ Counted(c).sent >= Cooldown}

Over == {c \in Clearing : Counted(c).clear >= RecoverAfter}
Recoveries == {c \in Over : Counted(c).sent # Never}
Due == Alarms \cup Recoveries

(* What the state file says after a poll whose messages were answered but    *)
(* for those in failed.                                                      *)
Known(failed) ==
    LET listed == Current \cup (Clearing \ (Over \ (Recoveries \cap failed)))
        posted == Alarms \ failed
    IN  [c \in Codes |-> IF c \notin listed THEN Absent
                         ELSE IF c \in posted THEN [Counted(c) EXCEPT !.sent = 0]
                         ELSE Counted(c)]

(* The channel after the messages in posted, of which those in unknown are    *)
(* not in the state file.                                                     *)
Posts(posted, unknown) ==
    /\ told' = (told \cup (posted \cap Alarms)) \ (posted \cap Recoveries)
    /\ unsure' = (unsure \ posted) \cup unknown
    /\ quiet' = [c \in Codes |-> IF c \in posted THEN (IF c \in Alarms THEN 0 ELSE Cooldown)
                                 ELSE quiet[c]]
    /\ surplus' = surplus \cup
           {c \in posted \ unsure : IF c \in Alarms THEN quiet[c] < Cooldown ELSE c \notin told}

Sees == seen' = [c \in Codes |-> IF c \in Current THEN 0 ELSE seen[c]]

(* The file is written: it has no clear_seen_ms of what this poll found.      *)
Remembers == overrun' = overrun \ Current

Poll ==
    /\ running
    /\ known' = Known({})
    /\ Posts(Due, {}) /\ Sees /\ Remembers
    /\ UNCHANGED <<daemon, file, running, faults>>

(* Some messages fail; of those, some reached the channel all the same.       *)
PollSendFails ==
    /\ running /\ Fault
    /\ \E failed \in (SUBSET Due) \ {{}} : \E lost \in SUBSET failed :
        /\ known' = Known(failed)
        /\ Posts((Due \ failed) \cup lost, lost)
    /\ Sees /\ Remembers
    /\ UNCHANGED <<daemon, file, running>>

(* The process dies, or the write of the state file raises: nothing of the    *)
(* poll is remembered, not even that it found an issue whose clear_seen_ms     *)
(* the file goes on counting from.                                            *)
PollDies ==
    /\ running /\ Fault
    /\ running' = FALSE
    /\ \E posted \in SUBSET Due : Posts(posted, posted)
    /\ Sees
    /\ overrun' = overrun \cup {c \in Current : known[c].clear # Never}
    /\ UNCHANGED <<daemon, file, known>>

Restart ==
    /\ ~ running
    /\ running' = TRUE
    /\ UNCHANGED <<daemon, file, known, history, faults>>

(* _load_state starts from nothing when the file cannot be read, whether the  *)
(* process was killed between two polls or had died in one.                  *)
RestartForgets ==
    /\ Fault
    /\ running' = TRUE
    /\ known' = [c \in Codes |-> Absent]
    /\ unsure' = unsure \cup {c \in Codes : known[c].sent # Never}
    /\ overrun' = {}
    /\ UNCHANGED <<daemon, file, told, quiet, seen, surplus>>

------------------------------------------------------------------------------
Tick ==
    /\ hold' = [hold EXCEPT !.age = Older(@, Stalled + 1)]
    /\ file' = [file EXCEPT !.age = Older(@, Stale + 1), !.held = Older(@, Stalled + 1)]
    /\ known' = [c \in Codes |-> [first |-> Older(known[c].first, AlertAfter),
                                  sent  |-> Older(known[c].sent, Cooldown),
                                  clear |-> Older(known[c].clear, RecoverAfter)]]
    /\ quiet' = [c \in Codes |-> Min2(quiet[c] + 1, Cooldown)]
    /\ seen' = [c \in Codes |-> Min2(seen[c] + 1, RecoverAfter)]
    /\ UNCHANGED <<up, running, told, unsure, overrun, surplus, faults>>

Next ==
    \/ HoldCheckpoint \/ ReleaseCheckpoint \/ WriteHealth
    \/ DaemonCrash \/ DaemonRestart
    \/ Poll \/ PollSendFails \/ PollDies \/ Restart \/ RestartForgets
    \/ Tick

Spec == Init /\ [][Next]_vars

(* health_loop and run poll on their own clocks, systemd restarts both, and   *)
(* time goes on; faults are finite.                                          *)
FairSpec ==
    /\ Spec
    /\ WF_vars(WriteHealth \/ DaemonRestart)
    /\ WF_vars(Poll \/ Restart)
    /\ WF_vars(Tick)

------------------------------------------------------------------------------
(***************************************************************************)
(* An alarm is not repeated before its cooldown is over, and a recovery      *)
(* answers an alarm: through refused messages, killed polls and short        *)
(* returns of an issue, only a message that the state file knows nothing of   *)
(* (it was in the channel before the file was written, or an answer got       *)
(* lost) can make the next one needless.  poll_once takes all of that from    *)
(* one record per code, which it deletes and makes anew.                     *)
(***************************************************************************)
NoNeedlessMessage == surplus = {}

(***************************************************************************)
(* A recovery is announced only if no poll, not even one that died, has       *)
(* found the issue for the whole of recovery_after: each return starts the    *)
(* count anew, over lost messages, restarts and a forgotten state file.  The   *)
(* one exception: the poll that found the issue last died, and the count it   *)
(* had stopped runs on in the file.                                           *)
(***************************************************************************)
RecoveryIsEarned ==
    [][\A c \in told \ told' : seen[c] >= RecoverAfter \/ c \in overrun]_vars

(***************************************************************************)
(* The channel follows the state of the services: an issue that stays is      *)
(* posted in the end, and an alarm that the state file knows of is taken back *)
(* once its issue stays away, although messages fail and processes die.       *)
(***************************************************************************)
ChannelFollows ==
    \A c \in Codes :
        /\ c \in Current ~> c \in told \/ c \notin Current
        /\ c \in told \ unsure ~> c \notin told \ unsure \/ c \in Current

(***************************************************************************)
(* hold_native_checkpoint: "the hold is reported in health so the alert       *)
(* sidecar can escalate it".  A hold that lasts reaches the channel, although *)
(* every further log that fails may move it down, health is a copy, and       *)
(* neither process knows of the other.                                       *)
(***************************************************************************)
HoldIsEscalated ==
    hold # NoHold ~> "RPC_CHECKPOINT_STALLED" \in told \/ hold = NoHold
==============================================================================
