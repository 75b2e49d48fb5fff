---------------------------- MODULE MCOutcomeCohort ----------------------------
(* Two events, one of them sampled as a control, and two horizons that are over *)
(* with their tick, so that a slow cycle misses them.  A plan measures one, so *)
(* it is always cut; it enrols two rows, so it can hold both decisions of one *)
(* event.  MaxNow lies beyond the last window of the last baseline.          *)
EXTENDS OutcomeCohort

MCHorizons  == {1, 2}
MCTolerance == [h \in MCHorizons |-> 0]
==============================================================================
