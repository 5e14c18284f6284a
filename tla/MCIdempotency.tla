--------------------------- MODULE MCIdempotency ---------------------------
(* Small instances of IdempotencyInterceptor: attempts with key k1, of     *)
(* others with k2, and a request without a key.                            *)
EXTENDS IdempotencyInterceptor, TLC

CONSTANTS r1, r2, r3, r4, r5, r6, k1, k2

KeysOfAttempts ==
    [r \in Requests |-> CASE r \in {r1, r2, r3} -> k1 [] r \in {r4, r5} -> k2 [] OTHER -> NoKey]

=============================================================================
