---------------------------- MODULE SlidingBudget ----------------------------
(***************************************************************************)
(* The call budget of runtime.py (class SlidingBudget): at most MaxCalls   *)
(* calls in any Window, and none while a cooldown lasts.  The daemon keeps  *)
(* one budget per provider and per purpose; this module holds the data     *)
(* type, BudgetWindow.tla the object under arbitrary use, and the modules   *)
(* of the loops call these operators at the places the loops call the      *)
(* methods.                                                                *)
(*                                                                         *)
(* A budget is a record of the deque `calls' of instants at which calls     *)
(* were granted, oldest first, and of `cooldownUntil'.  Instants are        *)
(* integers of one monotonic clock; only differences matter, so a module   *)
(* may also keep its instants relative to the present (see Age).           *)
(***************************************************************************)
EXTENDS Integers, Sequences

CONSTANTS MaxCalls,   \* max_calls
          Window      \* window_seconds

ASSUME BudgetAssumption == MaxCalls \in Nat \ {0} /\ Window \in Nat \ {0}

NewBudget == [calls |-> << >>, cooldownUntil |-> 0]

(***************************************************************************)
(* The definitions named ...Bug, here and in the other modules, are not     *)
(* part of the model: each is the definition after it with a plausible      *)
(* mistake, and TLC finds the property broken that the mistake offends      *)
(* (README.md, "Sensitivity").                                             *)
(*                                                                         *)
(* _prune: while the oldest call left the window, pop it.  The loop stops  *)
(* at the first call that is still inside, whatever follows it.            *)
(***************************************************************************)
StopsTooEarlyBug(calls, now, n) ==
    /\ \A i \in 1..n : calls[i] < now - Window
    /\ n < Len(calls) => calls[n + 1] >= now - Window

StopsTooLateBug(calls, now, n) ==
    /\ \A i \in 1..n : calls[i] <= now - Window + 1
    /\ n < Len(calls) => calls[n + 1] > now - Window + 1

StopsAt(calls, now, n) ==
    /\ \A i \in 1..n : calls[i] <= now - Window
    /\ n < Len(calls) => calls[n + 1] > now - Window

Expired(calls, now) == CHOOSE n \in 0..Len(calls) : StopsAt(calls, now, n)

Prune(b, now) ==
    [b EXCEPT !.calls = SubSeq(b.calls, Expired(b.calls, now) + 1, Len(b.calls))]

Used(b, now) == Len(Prune(b, now).calls)

AvailableOnceMoreBug(b, now) == now >= b.cooldownUntil /\ Used(b, now) <= MaxCalls

Available(b, now) == now >= b.cooldownUntil /\ Used(b, now) < MaxCalls

Take(b, now) == [b EXCEPT !.calls = Append(Prune(b, now).calls, now)]

CooldownShortenedBug(b, now, seconds) == [b EXCEPT !.cooldownUntil = now + seconds]

Cooldown(b, now, seconds) ==
    [b EXCEPT !.cooldownUntil =
        IF now + seconds > b.cooldownUntil THEN now + seconds
                                           ELSE b.cooldownUntil]

(***************************************************************************)
(* The same budget seen one tick later by a module whose clock stays at 0: *)
(* every instant moves one tick into the past.  Calls that left the window *)
(* are dropped at once instead of at the next method call, and a cooldown  *)
(* that is over stays at 0; no method can tell the difference.             *)
(***************************************************************************)
Age(b) ==
    Prune([calls |-> [i \in 1..Len(b.calls) |-> b.calls[i] - 1],
           cooldownUntil |-> IF b.cooldownUntil > 0 THEN b.cooldownUntil - 1 ELSE 0],
          0)
==============================================================================
