-------------------------- MODULE MCReconciliation --------------------------
(* Small instances of Reconciliation: two intents at a gateway, one of     *)
(* them unreachable in some runs, and one that never got to a gateway.     *)
EXTENDS Reconciliation, TLC

CONSTANTS i1, i2, i3, worker, manual

Amounts == [i \in Intents |-> 1]
AllPending == [i \in Intents |-> "PENDING"]

=============================================================================
