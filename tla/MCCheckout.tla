----------------------------- MODULE MCCheckout -----------------------------
(* Two calls at a time to any of the three gateways, and one checkout.     *)
EXTENDS Checkout

CONSTANTS c1, c2, s1

Spellings == ("egp" :> "EGP") @@ ("USD" :> "USD") @@ ("SAR" :> "SAR") @@ ("KWD" :> "KWD")

=============================================================================
