---------------------------- MODULE MCPonsNotifier ----------------------------
(* Two tokens of one name, launched a tick apart; size checks at ages 1, 2   *)
(* and 4 and namesakes counted up to age 3, as 5, 10 and 20 minutes and 15;   *)
(* two alerts in two ticks would break the cap of one.                        *)
EXTENDS PonsNotifier

CONSTANTS t1, t2

MCLaunch  == [t \in {t1, t2} |-> IF t = t1 THEN 0 ELSE 1]
MCName    == [t \in {t1, t2} |-> "name"]
MCBackoff == <<1, 1>>
==============================================================================
