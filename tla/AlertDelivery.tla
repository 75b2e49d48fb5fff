---------------------------- MODULE AlertDelivery ----------------------------
(***************************************************************************)
(* What the daemon promises of an alert once a decision asked for it.      *)
(*                                                                         *)
(* An alert of an event is queued at most once, and only while no other    *)
(* event holds its claim (its kind of message about its token); messages   *)
(* leave for Telegram, each a further copy in the channel; the alert is    *)
(* confirmed only if a copy arrived and given up otherwise, and what was   *)
(* settled stays settled.  At most MaxAttempts copies are ever sent: the   *)
(* promise is "at least once or given up", never "exactly once".           *)
(***************************************************************************)
EXTENDS Naturals

CONSTANTS Events,       \* the events alerts are about
          Claims,       \* what only one alert may be about
          MaxAttempts   \* copies sent at most

VARIABLES status,       \* "none", "queued", "sent" or "failed", per event
          claim,        \* the claim an event's alert holds, << >> if none
          copies        \* copies that reached the Telegram channel

deliveryVars == <<status, claim, copies>>

Init ==
    /\ status = [e \in Events |-> "none"]
    /\ claim = [e \in Events |-> << >>]
    /\ copies = [e \in Events |-> 0]

Queue(e, c) ==
    /\ status[e] = "none"
    /\ \A other \in Events : claim[other] # c
    /\ status' = [status EXCEPT ![e] = "queued"]
    /\ claim' = [claim EXCEPT ![e] = c]
    /\ UNCHANGED copies

(* A copy of a queued alert arrives; one may still arrive after the alert   *)
(* was given up, because the last request may outlive the loop's patience.  *)
Arrive(e) ==
    /\ status[e] \in {"queued", "failed"}
    /\ copies[e] < MaxAttempts
    /\ copies' = [copies EXCEPT ![e] = @ + 1]
    /\ UNCHANGED <<status, claim>>

Confirm(e) ==
    /\ status[e] = "queued"
    /\ copies[e] > 0
    /\ status' = [status EXCEPT ![e] = "sent"]
    /\ UNCHANGED <<claim, copies>>

GiveUp(es) ==
    /\ es # {}
    /\ \A e \in es : status[e] = "queued"
    /\ status' = [e \in Events |-> IF e \in es THEN "failed" ELSE status[e]]
    /\ UNCHANGED <<claim, copies>>

Settle(e) == Confirm(e) \/ \E es \in SUBSET Events : e \in es /\ GiveUp(es)

Next ==
    \/ \E e \in Events, c \in Claims : Queue(e, c)
    \/ \E e \in Events : Arrive(e)
    \/ \E e \in Events : Confirm(e)
    \/ \E es \in SUBSET Events : GiveUp(es)

SafeSpec == Init /\ [][Next]_deliveryVars

(* No alert stays queued for ever.                                          *)
Spec == SafeSpec /\ \A e \in Events : WF_deliveryVars(Settle(e))
==============================================================================
