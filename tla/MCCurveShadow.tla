---------------------------- MODULE MCCurveShadow ----------------------------
(* One launch and one trade in the first two blocks of three; a backfill and  *)
(* a poll reach one and no block back, so that a longer gap truncates them.   *)
EXTENDS CurveShadow

CONSTANTS launch, trade, token

MCTokenOf == [l \in {launch, trade} |-> token]
MCKindOf  == [l \in {launch, trade} |-> IF l = trade THEN "curve" ELSE "launch"]
==============================================================================
