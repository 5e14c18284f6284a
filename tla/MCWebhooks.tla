----------------------------- MODULE MCWebhooks -----------------------------
(* Small instances of InboundWebhooks: an event delivered on two channels, *)
(* two more events about the same intent, and one about another intent.    *)
EXTENDS InboundWebhooks, TLC

CONSTANTS i1, i2, e1, e2, e3, e4, d1, d2, d3, d4, d5

Amounts == [i \in Intents |-> 1]
AllPending == [i \in Intents |-> "PENDING"]
AboutIntents == (e1 :> i1) @@ (e2 :> i1) @@ (e3 :> i1) @@ (e4 :> i2)
AllCaptures == [e \in Events |-> "CAPTURED"]
EventOfDeliveries == (d1 :> e1) @@ (d2 :> e1) @@ (d3 :> e2) @@ (d4 :> e3) @@ (d5 :> e4)

=============================================================================
