---------------------------- MODULE AccountOperation ----------------------------
(***************************************************************************)
(* What a call promises about the one account operation it may order: the  *)
(* invariants app/session/integration.py:24-25 states and ADR-0013.  The   *)
(* order is given once; its truth only comes from evidence; an uncertain   *)
(* dispatch is still the same order; a settled operation stays settled.    *)
(* Conversation implements it for one request at a time, PollingClient over *)
(* a wire that loses requests and answers.                                 *)
(***************************************************************************)
VARIABLES
    status,    \* "none" until the order, then the status of the operation
    evidence,  \* the terminal statuses the outside world has reported of it
    orders     \* the commands that have been answered

Terminal == {"SUCCEEDED", "FAILED"}
Active == {"pending", "unknown"}

Init == status = "none" /\ evidence = {} /\ orders = {}

\* The guard becomes durable in the step that answers the command.
Order ==
    /\ status = "none"
    /\ status' = "pending"
    /\ orders' # {} /\ \A c, d \in orders' : c = d
    /\ evidence' = evidence

\* A dispatch whose effect is not known never becomes success, failure or a new order.
Doubt ==
    /\ status = "pending"
    /\ status' = "unknown"
    /\ UNCHANGED <<evidence, orders>>

Report ==
    /\ status # "none"
    /\ evidence \subseteq evidence' /\ evidence' \subseteq Terminal
    /\ UNCHANGED <<status, orders>>

Settle ==
    /\ status \in Active
    /\ \/ "SUCCEEDED" \in evidence /\ status' = "confirmed"
       \/ "FAILED" \in evidence /\ status' = "failed"
    /\ UNCHANGED <<evidence, orders>>

Next == Order \/ Doubt \/ Report \/ Settle

Spec == Init /\ [][Next]_<<status, evidence, orders>>
================================================================================
