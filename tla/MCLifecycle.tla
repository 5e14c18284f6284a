---------------------------- MODULE MCLifecycle ----------------------------
(* One payment of two cents, PENDING at first, whose capture is reported   *)
(* once, seen by a worker run and a manual one, and refunded in two parts. *)
EXTENDS Reports, TLC

CONSTANTS i1, e1, d1, d2, q1, q2, worker, manual

Amounts == [i \in Intents |-> 2]
AllPending == [i \in Intents |-> "PENDING"]
AboutIntents == [e \in Events |-> i1]
AllCaptures == [e \in Events |-> "CAPTURED"]
EventOfDeliveries == [d \in Deliveries |-> e1]
IntentOfRequests == [q \in Requests |-> i1]
WantedAmounts == (q1 :> 1) @@ (q2 :> WholeRest)
WantedRest == [q \in Requests |-> WholeRest]

=============================================================================
