---------------------------- MODULE MCMerchants ----------------------------
(* A merchant that exists and two that are being created with one email;   *)
(* the first has a second key, and three requests come with its two keys.  *)
(* Updates change email and status and may drop the secret; urls are null. *)
EXTENDS Merchants, TLC

CONSTANTS m1, m2, m3, ma, mb, s1, k1, k2, k3, k4, r1, r2, r3

Applications ==
    [m \in Merchants |->
        [email |-> IF m = m1 THEN ma ELSE mb, url |-> NoUrl, secret |-> s1, active |-> TRUE]]
FirstKeys == (m1 :> k1) @@ (m2 :> k2) @@ (m3 :> k3)
Owners == (k1 :> m1) @@ (k2 :> m2) @@ (k3 :> m3) @@ (k4 :> m1)
KeysOfRequests == (r1 :> k1) @@ (r2 :> k1) @@ (r3 :> k4)

=============================================================================
