----------------------------- MODULE OutcomeCohort -----------------------------
(***************************************************************************)
(* The outcome collector (outcome_collector.py over outcome_cohort.py): a   *)
(* process beside the daemon that enrols decisions into a frozen cohort    *)
(* and then samples the market at fixed horizons after the baseline.       *)
(*                                                                         *)
(* A cycle enrols, then measures.  Each market read takes time and may be   *)
(* refused by the collector's own budget; the decision rows are written by *)
(* the daemon at any moment, so a row may change stratum between the read  *)
(* of the candidates and the next cycle.  What a cycle plans it plans from *)
(* the instant it started at, `began'.                                     *)
(***************************************************************************)
EXTENDS Integers, Sequences, FiniteSets

CONSTANTS Events,        \* events the daemon decides on, by event_id
          Sampled,       \* those whose hash falls under control_sample_rate
          Horizons,      \* HORIZON_MINUTES, in ticks
          Tolerance,     \* HORIZON_TOLERANCE_MS, in ticks
          Lookback,      \* enroll_lookback_seconds
          EnrollLimit,   \* enroll_per_cycle
          ControlLimit,  \* control_per_cycle
          MeasureLimit,  \* measure_per_cycle
          LastDecision,  \* bound: the daemon decides up to this instant
          LastBaseline,  \* bound: baselines are read up to this instant
          MaxNow,        \* bound of the clock
          MaxCrashes     \* bound of the crashes explored

ASSUME CohortAssumption ==
    /\ Events \subseteq Nat /\ IsFiniteSet(Events) /\ Sampled \subseteq Events
    /\ Horizons \subseteq Nat \ {0} /\ IsFiniteSet(Horizons)
    /\ Tolerance \in [Horizons -> Nat]
    /\ {Lookback, EnrollLimit, MeasureLimit} \subseteq Nat \ {0}
    /\ {ControlLimit, LastDecision, LastBaseline, MaxNow, MaxCrashes} \subseteq Nat

None == "none"
NotYet == -1
Strata == {"delivered", "evaluated_rejected", "not_evaluated"}
Labels == {"read", "expired"}   \* "read" stands for ok, unavailable and error

VARIABLES
    (* the database, the first two written by the daemon *)
    decisions,  \* decisions: [event, at, strong]
    gate,       \* the verdict of an event's 'unified_gate' observation
    cohort,     \* outcome_cohort by event: [stratum, base] or NotMember
    outcomes,   \* outcomes: [event, horizon, label]
    (* the memory of the collector *)
    pc,         \* "wait", "enroll", "measure", or "down"
    began,      \* now_ms of the enrolling half cycle, 0 otherwise
    todo,       \* candidates, or due horizons, still to handle
    floor,      \* enroll_floor_ms, or NotYet
    (* the world *)
    now, crashes

written  == <<decisions, gate>>
kept     == <<cohort, outcomes>>
memory   == <<pc, began, todo, floor>>
vars     == <<written, kept, memory, now, crashes>>

NotMember == [stratum |-> None, base |-> NotYet]
Member(e) == cohort[e].stratum # None
Recorded(e, h) == \E o \in outcomes : o.event = e /\ o.horizon = h
Scheduled(e, h) == cohort[e].base + h

TypeOK ==
    /\ decisions \subseteq [event : Events, at : Nat, strong : BOOLEAN]
    /\ gate \in [Events -> {None, "passed", "blocked"}]
    /\ cohort \in [Events -> [stratum : Strata, base : Nat] \cup {NotMember}]
    /\ outcomes \subseteq [event : Events, horizon : Horizons,
                           label : Labels]
    /\ pc \in {"wait", "enroll", "measure", "down"}
    /\ began \in 0..now
    /\ CASE pc = "enroll"  -> /\ todo \in Seq([event : Events, stratum : Strata])
                              /\ Len(todo) <= EnrollLimit
         [] pc = "measure" -> /\ todo \in Seq([event : Events, horizon : Horizons,
                                               expired : BOOLEAN])
                              /\ Len(todo) <= MeasureLimit
         [] OTHER          -> todo = << >>
    /\ floor \in 0..now \cup {NotYet}
    /\ now \in Nat
    /\ crashes \in 0..MaxCrashes

Init ==
    /\ decisions = {} /\ gate = [e \in Events |-> None]
    /\ cohort = [e \in Events |-> NotMember] /\ outcomes = {}
    /\ pc = "wait" /\ began = 0 /\ todo = << >> /\ floor = NotYet
    /\ now = 0 /\ crashes = 0

------------------------------------------------------------------------------
(* The daemon: an initial decision when the event is stored, the observation *)
(* of the unified gate, and a final decision when the gate was passed.       *)

Decided(e) == \E d \in decisions : d.event = e

DecideInitial(e) ==
    /\ ~ Decided(e) /\ now <= LastDecision
    /\ decisions' = decisions \cup {[event |-> e, at |-> now, strong |-> FALSE]}
    /\ UNCHANGED <<gate, kept, memory, now, crashes>>

Gate(e) ==
    /\ Decided(e) /\ gate[e] = None
    /\ \E verdict \in {"passed", "blocked"} : gate' = [gate EXCEPT ![e] = verdict]
    /\ UNCHANGED <<decisions, kept, memory, now, crashes>>

(* at most one final decision per event, an instant after its first at least *)
DecideFinal(e, strong) ==
    /\ gate[e] = "passed" /\ now <= LastDecision
    /\ Cardinality({d \in decisions : d.event = e}) = 1
    /\ \A d \in decisions : d.event = e => d.at < now
    /\ decisions' = decisions \cup {[event |-> e, at |-> now, strong |-> strong]}
    /\ UNCHANGED <<gate, kept, memory, now, crashes>>

------------------------------------------------------------------------------
(* select_enrollment_candidates: the decisions in the window that are not    *)
(* enrolled, in order of time; controls only if sampled, and not too many.   *)

Stratum(d) ==
    IF d.strong THEN "delivered"
    ELSE IF gate[d.event] # None THEN "evaluated_rejected" ELSE "not_evaluated"

InWindow(from, d) == from <= d.at /\ d.at < now /\ ~ Member(d.event)

Earlier(c, d) == c.at < d.at \/ (c.at = d.at /\ c.event <= d.event)

Controls(ds) == {d \in ds : Stratum(d) = "not_evaluated"}

Wanted(from) ==
    LET window == {d \in decisions : InWindow(from, d)}
        drawn  == {d \in Controls(window) : d.event \in Sampled}
    IN  {d \in window :
            Stratum(d) = "not_evaluated" =>
                /\ d \in drawn
                /\ Cardinality({c \in drawn : Earlier(c, d)}) <= ControlLimit}

(* a plan stops as soon as it has `limit' entries *)
Plan(rows, limit) == SubSeq(rows, 1, IF Len(rows) < limit THEN Len(rows) ELSE limit)

(* ORDER BY: the row with i rows up to it, itself among them, is the i-th     *)
ByTime(rows) ==
    [i \in 1..Cardinality(rows) |->
        CHOOSE d \in rows : Cardinality({c \in rows : Earlier(c, d)}) = i]

Candidates(from) ==
    LET rows == Plan(ByTime(Wanted(from)), EnrollLimit)
    IN  [i \in 1..Len(rows) |-> [event |-> rows[i].event, stratum |-> Stratum(rows[i])]]

EnrollFrom ==
    IF floor # NotYet /\ floor > now - Lookback THEN floor ELSE now - Lookback

StartEnroll ==
    /\ pc = "wait"
    /\ pc' = "enroll" /\ began' = now /\ todo' = Candidates(EnrollFrom)
    /\ UNCHANGED <<written, kept, floor, now, crashes>>

(* enroll_cohort_member: INSERT OR IGNORE, so the first row of an event stays *)
EnrolledOverBug(c) == [cohort EXCEPT ![c.event] = [stratum |-> c.stratum, base |-> now]]

Enrolled(c) ==
    IF Member(c.event) THEN cohort
    ELSE [cohort EXCEPT ![c.event] = [stratum |-> c.stratum, base |-> now]]

(* One market read and its row; the stratum is the one of the plan.          *)
EnrollNext ==
    /\ pc = "enroll" /\ todo # << >> /\ now <= LastBaseline
    /\ cohort' = Enrolled(Head(todo))
    /\ todo' = Tail(todo)
    /\ UNCHANGED <<written, outcomes, pc, began, floor, now, crashes>>

------------------------------------------------------------------------------
(* due_horizons: what is due, by baseline then horizon, and whether its      *)
(* window was over when the half cycle began.                                *)

DueLastFirstBug(a, b) ==
    \/ cohort[a.event].base < cohort[b.event].base
    \/ cohort[a.event].base = cohort[b.event].base /\ a.event < b.event
    \/ a.event = b.event /\ a.horizon >= b.horizon

DueFirst(a, b) ==
    \/ cohort[a.event].base < cohort[b.event].base
    \/ cohort[a.event].base = cohort[b.event].base /\ a.event < b.event
    \/ a.event = b.event /\ a.horizon <= b.horizon

TooLate(e, h) == now > Scheduled(e, h) + Tolerance[h]

DueInWindowBug(e, h) ==
    Member(e) /\ now >= Scheduled(e, h) /\ ~ TooLate(e, h) /\ ~ Recorded(e, h)

Due(e, h) == Member(e) /\ now >= Scheduled(e, h) /\ ~ Recorded(e, h)

DueRows ==
    {[event |-> p[1], horizon |-> p[2], expired |-> TooLate(p[1], p[2])] :
        p \in {q \in Events \X Horizons : Due(q[1], q[2])}}

ByBaseline(rows) ==
    [i \in 1..Cardinality(rows) |->
        CHOOSE b \in rows : Cardinality({a \in rows : DueFirst(a, b)}) = i]

DueHorizons == Plan(ByBaseline(DueRows), MeasureLimit)

(* Nothing is left, or read_market deferred the next candidate: either way   *)
(* the floor moves to the start of the cycle, and measure_cycle begins.      *)
EndEnroll ==
    /\ pc = "enroll"
    /\ floor' = began
    /\ pc' = "measure" /\ began' = 0 /\ todo' = DueHorizons
    /\ UNCHANGED <<written, kept, now, crashes>>

(* store_outcome: an expired horizon without a read, any other after one.    *)
Store(d, label) ==
    /\ outcomes' = outcomes \cup
            {[event |-> d.event, horizon |-> d.horizon, label |-> label]}
    /\ todo' = Tail(todo)
    /\ UNCHANGED <<written, cohort, pc, began, floor, now, crashes>>

MeasureNext ==
    /\ pc = "measure" /\ todo # << >>
    /\ LET d == Head(todo)
       IN  Store(d, IF d.expired THEN "expired" ELSE "read")

EndMeasure ==
    /\ pc = "measure"
    /\ todo # << >> => ~ Head(todo).expired      \* nothing left, or deferred
    /\ pc' = "wait" /\ todo' = << >>
    /\ UNCHANGED <<written, kept, began, floor, now, crashes>>

------------------------------------------------------------------------------
Tick ==
    /\ now < MaxNow
    /\ now' = now + 1
    /\ UNCHANGED <<written, kept, memory, crashes>>

(* the process is killed, or a cycle raises (the database is locked)         *)
Crash ==
    /\ pc # "down" /\ crashes < MaxCrashes
    /\ crashes' = crashes + 1
    /\ pc' = "down" /\ began' = 0 /\ todo' = << >> /\ floor' = NotYet
    /\ UNCHANGED <<written, kept, now>>

Restart ==
    /\ pc = "down"
    /\ pc' = "wait"
    /\ UNCHANGED <<written, kept, began, todo, floor, now, crashes>>

Next ==
    \/ \E e \in Events : DecideInitial(e) \/ Gate(e)
    \/ \E e \in Events, strong \in BOOLEAN : DecideFinal(e, strong)
    \/ StartEnroll \/ EnrollNext \/ EndEnroll \/ MeasureNext \/ EndMeasure
    \/ Tick \/ Crash \/ Restart

Spec == Init /\ [][Next]_vars

(* The collector cycles, reads end (they have timeouts), time passes and     *)
(* systemd restarts the process.  Nothing is assumed of the budget.          *)
FairSpec ==
    /\ Spec
    /\ WF_vars(StartEnroll) /\ WF_vars(EndEnroll) /\ WF_vars(MeasureNext)
    /\ WF_vars(EndMeasure) /\ WF_vars(Tick) /\ WF_vars(Restart)

------------------------------------------------------------------------------
(***************************************************************************)
(* The horizons of a member are sampled without gaps: none is recorded     *)
(* before every shorter one is, although plans are cut by their limit, the *)
(* budget stops them half-way, and crashes throw them away.                *)
(***************************************************************************)
HorizonsInOrder ==
    \A o \in outcomes : \A h \in Horizons :
        h < o.horizon => Recorded(o.event, h)

(***************************************************************************)
(* A member is frozen: once enrolled its stratum and baseline never change, *)
(* though the event is decided again and a plan may hold it twice; and no   *)
(* outcome is changed, removed or recorded twice (INSERT OR IGNORE).       *)
(***************************************************************************)
FrozenOnceStored ==
    [][/\ \A e \in Events : Member(e) => cohort'[e] = cohort[e]
       /\ outcomes \subseteq outcomes'
       /\ \A o, p \in outcomes' :
            (o.event = p.event /\ o.horizon = p.horizon) => o = p]_vars

(***************************************************************************)
(* No hole is left that later looks like missing data (due_horizons): every *)
(* horizon of every member is recorded in the end, as expired if need be,  *)
(* even when the budget never opens.                                       *)
(***************************************************************************)
EveryHorizonRecorded ==
    \A e \in Events, h \in Horizons :
        (Member(e) /\ Scheduled(e, h) + Tolerance[h] < MaxNow) ~> Recorded(e, h)
==============================================================================
