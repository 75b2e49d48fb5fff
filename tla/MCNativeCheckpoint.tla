-------------------------- MODULE MCNativeCheckpoint --------------------------
(* Two logs, in one block or in any two of four, requests of two blocks and a *)
(* history window of three: a backfill takes two chunks, and the window can   *)
(* move past a held block.  The logs are named in the order of their blocks,  *)
(* which loses nothing, for they are alike.  Two failures in a row move the   *)
(* chain to the standby endpoint and two probes move it back, so that a count *)
(* can stop half way.                                                        *)
EXTENDS NativeCheckpoint

CONSTANTS a, b

MCInit == Init /\ blockOf[a] <= blockOf[b]

MCFairSpec == MCInit /\ [][Next]_vars /\ Fairness
==============================================================================
