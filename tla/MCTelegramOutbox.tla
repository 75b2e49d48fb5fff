--------------------------- MODULE MCTelegramOutbox ---------------------------
(* Two events of one token, so that their claims collide; a tick is 30       *)
(* seconds, and the attempts, the hour and the budget are scaled down until  *)
(* each of their limits is met.                                              *)
EXTENDS TelegramOutbox

CONSTANTS e1, e2, t

MCEvents  == {e1, e2}
MCTokenOf == [e \in MCEvents |-> t]
MCBackoff == <<1, 2>>
==============================================================================
