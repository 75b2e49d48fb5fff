------------------------------ MODULE MCSolEarly ------------------------------
(* One token and two rows of it, so that it can be blocked or expire and come *)
(* back; a budget of four calls in three ticks, which one round of evidence  *)
(* exhausts; attempts and deadlines that are met within the clock.           *)
EXTENDS SolEarly

CONSTANTS t1
==============================================================================
