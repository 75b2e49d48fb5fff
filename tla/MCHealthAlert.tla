----------------------------- MODULE MCHealthAlert -----------------------------
(* Ages of up to two: an alarm comes a tick after its issue, may be repeated  *)
(* after two, and is taken back after two without the issue.  A hold can move  *)
(* down once, and one message, poll or process fails.                        *)
EXTENDS HealthAlert
==============================================================================
