--------------------------- MODULE MCEnrichmentJobs ---------------------------
(* Time is scaled so that every delay of config.py is met within a few ticks: *)
(* a token is checked at ages 0, 1 and 3, expires at age 4, and its price is  *)
(* stale after a tick.                                                        *)
EXTENDS EnrichmentJobs

CONSTANTS e1, e2, t1, t2

(* a native event and a GMGN one of the same token *)
MCMixed      == {e1, e2}
MCMixedToken == [e \in MCMixed |-> t1]
MCMixedFrom  == [e \in MCMixed |-> IF e = e1 THEN "native" ELSE "trending"]
MCMixedAge   == [e \in MCMixed |-> IF e = e1 THEN 0 ELSE 2]

(* a GMGN event of Solana and a native one of another token *)
MCOthers      == {e1, e2}
MCOthersToken == [e \in MCOthers |-> IF e = e1 THEN t1 ELSE t2]
MCOthersFrom  == [e \in MCOthers |-> IF e = e1 THEN "solana" ELSE "native"]
MCOthersAge   == [e \in MCOthers |-> 0]

MCScores     == {1, 2}
MCOneScore   == {2}
MCSizeChecks == {0, 1, 3}
MCMidChecks  == {1}
MCDexDelay   == <<0, 1, 2>>
MCMinRetry   == <<0, 1, 1>>
==============================================================================
