----------------------------- MODULE BudgetWindow -----------------------------
(***************************************************************************)
(* One SlidingBudget object (runtime.py) used in any order by the loops    *)
(* that share it: take, cooldown, and the passage of time.  The budget     *)
(* forgets a call as soon as it leaves the window; `grants' and `holds'     *)
(* are histories that never forget, kept to say what the budget promises.  *)
(***************************************************************************)
EXTENDS SlidingBudget, FiniteSets

CONSTANTS MaxNow,     \* bound of the explored clock
          MaxHolds,   \* bound of the cooldown requests explored
          Delays      \* arguments of cooldown()

ASSUME WindowAssumption == MaxNow \in Nat /\ MaxHolds \in Nat /\ Delays \subseteq Nat \ {0}

VARIABLES now,        \* the monotonic clock
          limiter,    \* the object
          grants,     \* history: instant of every call granted
          holds       \* history: cooldown requests, [after, until]

windowVars == <<now, limiter, grants, holds>>

WindowTypeOK ==
    /\ now \in Nat
    /\ limiter \in [calls : Seq(Nat), cooldownUntil : Nat]
    /\ Len(limiter.calls) <= MaxCalls
    /\ grants \in Seq(Nat)
    /\ holds \subseteq [after : Nat, until : Nat]

WindowInit ==
    /\ now = 0
    /\ limiter = NewBudget
    /\ grants = << >>
    /\ holds = {}

(* take() returning True *)
TakeGranted ==
    /\ Available(limiter, now)
    /\ limiter' = Take(limiter, now)
    /\ grants' = Append(grants, now)
    /\ UNCHANGED <<now, holds>>

(* take() returning False, and available() or snapshot(), which only prune *)
TakeRefused ==
    /\ ~ Available(limiter, now)
    /\ limiter' = Prune(limiter, now)
    /\ UNCHANGED <<now, grants, holds>>

Look ==
    /\ Available(limiter, now)
    /\ limiter' = Prune(limiter, now)
    /\ UNCHANGED <<now, grants, holds>>

CoolDown(seconds) ==
    /\ Cardinality(holds) < MaxHolds
    /\ limiter' = Cooldown(limiter, now, seconds)
    /\ holds' = holds \cup {[after |-> Len(grants), until |-> now + seconds]}
    /\ UNCHANGED <<now, grants>>

ClockTick ==
    /\ now < MaxNow
    /\ now' = now + 1
    /\ UNCHANGED <<limiter, grants, holds>>

WindowNext ==
    \/ TakeGranted
    \/ TakeRefused
    \/ Look
    \/ \E seconds \in Delays : CoolDown(seconds)
    \/ ClockTick

WindowSpec == WindowInit /\ [][WindowNext]_windowVars

------------------------------------------------------------------------------
(***************************************************************************)
(* However the callers interleave, no Window ticks hold more than MaxCalls *)
(* granted calls: a call and the MaxCalls-th after it are at least Window   *)
(* apart.  The code only counts the calls it still remembers, so this is   *)
(* about what _prune may forget, the hourly limits of the providers.       *)
(***************************************************************************)
WindowCap ==
    \A i \in 1..Len(grants) :
        i + MaxCalls <= Len(grants) => grants[i + MaxCalls] - grants[i] >= Window

(***************************************************************************)
(* A cooldown that was requested is honoured to its end: no later call is  *)
(* granted before it, even if a shorter cooldown is requested meanwhile    *)
(* (cooldown() of runtime.py keeps the later of the two ends).             *)
(***************************************************************************)
CooldownHonoured ==
    \A h \in holds : \A i \in (h.after + 1)..Len(grants) : grants[i] >= h.until

(***************************************************************************)
(* A caller refused at the limit is refused for a reason it can wait out:  *)
(* when no cooldown lasts and the budget still refuses, MaxCalls calls     *)
(* were really granted within the last Window (no budget is lost to a call *)
(* that was never made, take() of runtime.py appends only on success).     *)
(***************************************************************************)
NoBudgetLost ==
    (~ Available(limiter, now) /\ now >= limiter.cooldownUntil) =>
        /\ Len(grants) >= MaxCalls
        /\ now - grants[Len(grants) - MaxCalls + 1] < Window
==============================================================================
