------------------------ MODULE MCIdempotentRefunds ------------------------
(* Two intents of two cents.  Of the first, whose merchant is patient, two *)
(* attempts with key k1 refund one cent; of the second, a request with key *)
(* k2 refunds what is left and one without a key a cent, at the same time. *)
EXTENDS IdempotentRefunds, TLC

CONSTANTS i1, i2, q1, q2, q3, q4, k1, k2

Amounts == [i \in Intents |-> 2]
AllCaptured == [i \in Intents |-> "CAPTURED"]
IntentOfRequests == (q1 :> i1) @@ (q2 :> i1) @@ (q3 :> i2) @@ (q4 :> i2)
WantedAmounts == (q1 :> 1) @@ (q2 :> 1) @@ (q3 :> WholeRest) @@ (q4 :> 1)
KeyOfRequests == (q1 :> k1) @@ (q2 :> k1) @@ (q3 :> k2) @@ (q4 :> NoKey)

=============================================================================
