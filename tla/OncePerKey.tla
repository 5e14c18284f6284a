----------------------------- MODULE OncePerKey -----------------------------
(***************************************************************************)
(* What an Idempotency-Key promises to the merchant, without saying how:   *)
(* among the requests that carry one key at most one is being executed or  *)
(* has been executed, an execution that failed leaves the key free for     *)
(* another attempt, and whoever is answered is told the result of the one  *)
(* execution.  IdempotencyInterceptor implements it as long as no row of   *)
(* the key table passes its expiry date.                                   *)
(***************************************************************************)

CONSTANTS Requests, \* the HTTP requests that reach the interceptor
          KeyOf,    \* the Idempotency-Key header of each request
          NoKey,    \* the header is missing or blank
          NoResult  \* the request has been told no result

VARIABLES running,  \* the requests whose handler is executing
          finished, \* the requests whose handler has succeeded
          told      \* told[r]: the execution whose result r was answered with

promise == <<running, finished, told>>

Init ==
    /\ running = {}
    /\ finished = {}
    /\ told = [r \in Requests |-> NoResult]

Taken(r) == \E s \in running \cup finished : KeyOf[s] = KeyOf[r]

Begin(r) ==
    /\ KeyOf[r] # NoKey
    /\ ~Taken(r)
    /\ running' = running \cup {r}
    /\ UNCHANGED <<finished, told>>

Abort(r) ==
    /\ r \in running
    /\ running' = running \ {r}
    /\ UNCHANGED <<finished, told>>

Finish(r) ==
    /\ r \in running
    /\ running' = running \ {r}
    /\ finished' = finished \cup {r}
    /\ told' = [told EXCEPT ![r] = r]

(* A retry is told the result of the execution that finished. *)
Tell(r, s) ==
    /\ s \in finished
    /\ KeyOf[s] = KeyOf[r]
    /\ told' = [told EXCEPT ![r] = s]
    /\ UNCHANGED <<running, finished>>

(* Without a key there is no promise: every request is its own execution. *)
Unkeyed(r) ==
    /\ KeyOf[r] = NoKey
    /\ told' = [told EXCEPT ![r] = r]
    /\ UNCHANGED <<running, finished>>

Next ==
    \E r \in Requests :
        \/ Begin(r)
        \/ Abort(r)
        \/ Finish(r)
        \/ \E s \in Requests : Tell(r, s)
        \/ Unkeyed(r)

Spec == Init /\ [][Next]_promise

=============================================================================
