---------------------------- MODULE MCBudgetWindow ----------------------------
(* Two calls per three ticks, cooldowns shorter and longer than the window:  *)
(* MaxNow ticks hold three windows, so every overlap of a window's end with  *)
(* a call and with a cooldown's end occurs.                                  *)
EXTENDS BudgetWindow

MCDelays == {1, 4}
==============================================================================
