------------------------------ MODULE MCRefunds ------------------------------
(* Small instances of Refunds: an intent of three cents with three         *)
(* requests (the rest, one cent, two cents), and one of two cents with two *)
(* (the rest, one cent) and a request of a merchant that does not own it.  *)
EXTENDS Refunds, TLC

CONSTANTS i1, i2, q1, q2, q3, q4, q5, q6

Amounts == (i1 :> 3) @@ (i2 :> 2)

AllCaptured == [i \in Intents |-> "CAPTURED"]

IntentOfRequests == (q1 :> i1) @@ (q2 :> i1) @@ (q3 :> i1) @@ (q4 :> i2) @@ (q5 :> i2) @@ (q6 :> i2)

WantedAmounts ==
    (q1 :> WholeRest) @@ (q2 :> 1) @@ (q3 :> 2) @@ (q4 :> WholeRest) @@ (q5 :> 1) @@ (q6 :> 1)

=============================================================================
