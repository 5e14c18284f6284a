----------------------------- MODULE MCOutbound -----------------------------
(* Two events for a merchant without a url of its own, which may give up   *)
(* its secret and take it back; one POST at a time.                        *)
EXTENDS OutboundDelivery, TLC

CONSTANTS m1, ma, s1, k1, r1, d1, d2

Applications ==
    [m \in Merchants |-> [email |-> ma, url |-> NoUrl, secret |-> s1, active |-> TRUE]]
FirstKeys == [m \in Merchants |-> k1]
Owners == [k \in Keys |-> m1]
KeysOfRequests == [r \in Requests |-> k1]
OneMerchant == [d \in Dispatches |-> m1]

=============================================================================
