---------------------------- MODULE AtLeastOnce ----------------------------
(***************************************************************************)
(* What the outbound webhooks promise for each notification that was       *)
(* accepted: the endpoint is sent it, possibly more than once and possibly *)
(* even after the sender has stopped to care; it is done with only if the  *)
(* endpoint did receive it; otherwise it is given up; and one of the two   *)
(* is the end of every notification.                                       *)
(***************************************************************************)

CONSTANT Notifications

VARIABLES
    fate,      \* fate[n]: "none" before it is accepted, then "owed", at the end "done" or "dropped"
    received   \* the notifications the endpoint has received

promise == <<fate, received>>

Init ==
    /\ fate = [n \in Notifications |-> "none"]
    /\ received = {}

Accept(n) ==
    /\ fate[n] = "none"
    /\ fate' = [fate EXCEPT ![n] = "owed"]
    /\ UNCHANGED received

Receive(n) ==
    /\ fate[n] # "none"
    /\ received' = received \cup {n}
    /\ UNCHANGED fate

Finish(n) ==
    /\ fate[n] = "owed"
    /\ n \in received
    /\ fate' = [fate EXCEPT ![n] = "done"]
    /\ UNCHANGED received

GiveUp(n) ==
    /\ fate[n] = "owed"
    /\ fate' = [fate EXCEPT ![n] = "dropped"]
    /\ UNCHANGED received

Next == \E n \in Notifications : Accept(n) \/ Receive(n) \/ Finish(n) \/ GiveUp(n)

(* What no step may do, and what happens in the end. *)
Safety == Init /\ [][Next]_promise

Spec == Safety /\ \A n \in Notifications : WF_promise(Finish(n) \/ GiveUp(n))

=============================================================================
