-------------------------- MODULE InboundWebhooks --------------------------
(***************************************************************************)
(* WebhooksController.handleIncomingWebhook.  A gateway reports an event   *)
(* by POSTing it until it is answered 200, possibly several copies at      *)
(* once: a delivery is one such channel, and sends its event again after   *)
(* any other answer or none.  The handler records the event and updates    *)
(* the intent in one transaction, then enqueues the notification.          *)
(***************************************************************************)
EXTENDS PaymentStore, FiniteSets

CONSTANTS
    Events,       \* the events the gateways report (providerEventId)
    About,        \* About[e]: the intent whose payment the event is about
    Reports,      \* Reports[e]: what happened to it, "CAPTURED" or "FAILED"
    NamesIntent,  \* the events whose payload carries the paymentIntent's own id
    Deliveries,   \* the channels on which events are delivered
    EventOf,      \* EventOf[d]: the event delivered on d
    Unsigned,     \* the deliveries whose signature is missing or invalid
    Malformed     \* the deliveries whose body lacks the ids the handler reads

ASSUME WebhookAssumption ==
    /\ About \in [Events -> Intents]
    /\ Reports \in [Events -> {"CAPTURED", "FAILED"}]
    /\ NamesIntent \subseteq Events
    /\ EventOf \in [Deliveries -> Events]
    /\ Unsigned \subseteq Deliveries
    /\ Malformed \subseteq Deliveries

VARIABLES
    recorded,  \* the events that have a webhookEvent row
    hookPc     \* hookPc[d]: where the latest request on d is, or its answer

hookVars == <<recorded, hookPc>>

HookSteps == {"idle", "verifying", "committing", "dispatching", "answering",
              "200", "401", "500", "lost"}

HookTypeOK ==
    /\ StoreTypeOK
    /\ recorded \in SUBSET Events
    /\ hookPc \in [Deliveries -> HookSteps]

HookInit ==
    /\ recorded = {}
    /\ hookPc = [d \in Deliveries |-> "idle"]

HookGoto(d, step) == hookPc' = [hookPc EXCEPT ![d] = step]

-----------------------------------------------------------------------------
(* Mutated forms of actions below. *)

\* The event row is inserted outside the transaction, ahead of the update.
CommitEventFirst(d) ==
    /\ hookPc[d] = "committing"
    /\ EventOf[d] \in NamesIntent
    /\ EventOf[d] \notin recorded
    /\ recorded' = recorded \cup {EventOf[d]}
    /\ \/ UpdateStatus(About[EventOf[d]], "CAPTURED") /\ HookGoto(d, "dispatching") /\ UNCHANGED faults
       \/ Fault("db") /\ HookGoto(d, "500") /\ UNCHANGED status
    /\ UNCHANGED <<refunded, queued, settled, paidBack>>

\* The unique constraint on providerEventId is missing.
CommitWithoutConstraint(d) ==
    /\ hookPc[d] = "committing"
    /\ EventOf[d] \in NamesIntent
    /\ recorded' = recorded \cup {EventOf[d]}
    /\ UpdateStatus(About[EventOf[d]], "CAPTURED")
    /\ HookGoto(d, "dispatching")
    /\ UNCHANGED <<refunded, queued, settled, paidBack, faults>>

\* The provider is answered before the notification is enqueued, which is
\* then forgotten when the call fails.
AnswerWithoutDispatch(d) ==
    /\ hookPc[d] = "dispatching"
    /\ HookGoto(d, "answering")
    /\ UNCHANGED <<store, recorded>>

\* The update names a status that is not in the enum.
CommitUnknownStatus(d) ==
    /\ hookPc[d] = "committing"
    /\ EventOf[d] \in NamesIntent
    /\ EventOf[d] \notin recorded
    /\ recorded' = recorded \cup {EventOf[d]}
    /\ UpdateStatus(About[EventOf[d]], "SUCCEEDED")
    /\ HookGoto(d, "dispatching")
    /\ UNCHANGED <<refunded, queued, settled, paidBack, faults>>

-----------------------------------------------------------------------------
(* The gateway reports what happened once it has happened, and again until *)
(* it is answered 200.                                                     *)
Deliver(d) ==
    /\ hookPc[d] \in {"idle", "401", "500", "lost"}
    /\ settled[About[EventOf[d]]] = Reports[EventOf[d]]
    /\ HookGoto(d, "verifying")
    /\ UNCHANGED <<store, recorded>>

(* getProvider, the signature header, verifyWebhookSignature and the ids   *)
(* taken from the parsed body; an unreadable body is a 500 of the          *)
(* framework's.                                                            *)
Verify(d) ==
    /\ hookPc[d] = "verifying"
    /\ \/ d \in Unsigned /\ HookGoto(d, "401")
       \/ d \notin Unsigned /\ d \in Malformed /\ HookGoto(d, "500")
       \/ d \notin Unsigned /\ d \notin Malformed /\ HookGoto(d, "committing")
    /\ UNCHANGED <<store, recorded>>

(* The transaction of a new event; the kind of event is not looked at. *)
Commit(d) ==
    /\ hookPc[d] = "committing"
    /\ EventOf[d] \in NamesIntent
    /\ EventOf[d] \notin recorded
    /\ recorded' = recorded \cup {EventOf[d]}
    /\ UpdateStatus(About[EventOf[d]], "CAPTURED")
    /\ HookGoto(d, "dispatching")
    /\ UNCHANGED <<refunded, queued, settled, paidBack, faults>>

(* P2002: the event has a row already. *)
CommitDuplicate(d) ==
    /\ hookPc[d] = "committing"
    /\ EventOf[d] \in recorded
    /\ HookGoto(d, "answering")
    /\ UNCHANGED <<store, recorded>>

(* The payload's id is not that of an intent: the foreign key rejects the  *)
(* event row and nothing is written.                                       *)
CommitUnknownIntent(d) ==
    /\ hookPc[d] = "committing"
    /\ EventOf[d] \notin NamesIntent
    /\ HookGoto(d, "500")
    /\ UNCHANGED <<store, recorded>>

(* Any other failure rolls the transaction back. *)
CommitFails(d) ==
    /\ hookPc[d] = "committing"
    /\ Fault("db")
    /\ HookGoto(d, "500")
    /\ UNCHANGED <<status, refunded, queued, settled, paidBack, recorded>>

DispatchSucceeded(d) ==
    /\ hookPc[d] = "dispatching"
    /\ Enqueue(About[EventOf[d]], "payment.succeeded")
    /\ HookGoto(d, "answering")
    /\ UNCHANGED <<status, refunded, settled, paidBack, faults, recorded>>

(* queue.add is rejected after the transaction has committed. *)
DispatchSucceededFails(d) ==
    /\ hookPc[d] = "dispatching"
    /\ Fault("redis")
    /\ HookGoto(d, "500")
    /\ UNCHANGED <<status, refunded, queued, settled, paidBack, recorded>>

Acknowledge(d) ==
    /\ hookPc[d] = "answering"
    /\ HookGoto(d, "200")
    /\ UNCHANGED <<store, recorded>>

(* The process dies and the gateway gets no answer. *)
HookCrash(d) ==
    /\ hookPc[d] \in {"verifying", "committing", "dispatching", "answering"}
    /\ Fault("crash")
    /\ HookGoto(d, "lost")
    /\ UNCHANGED <<status, refunded, queued, settled, paidBack, recorded>>

HookStep(d) ==
    \/ Verify(d)
    \/ Commit(d)
    \/ CommitDuplicate(d)
    \/ CommitUnknownIntent(d)
    \/ CommitFails(d)
    \/ DispatchSucceeded(d)
    \/ DispatchSucceededFails(d)
    \/ Acknowledge(d)

HookNext == \E d \in Deliveries : Deliver(d) \/ HookStep(d) \/ HookCrash(d)

CustomersAct == \E i \in Intents : GatewaySettles(i) /\ UNCHANGED hookVars

WebhooksInit == StoreInit /\ HookInit

HookSpec == WebhooksInit /\ [][HookNext \/ CustomersAct]_<<store, hookVars>>

(* A request that was accepted is served, and a gateway keeps its promise  *)
(* to deliver again; customers need not pay.                               *)
HookFairness ==
    \A d \in Deliveries :
        /\ WF_<<store, hookVars>>(HookStep(d))
        /\ WF_<<store, hookVars>>(Deliver(d))

HookFairSpec == HookSpec /\ HookFairness

-----------------------------------------------------------------------------
(* Properties *)

EventsAbout(i) == {e \in Events : About[e] = i}

(* However often an event is delivered, retried or raced by its own copy,  *)
(* the merchant's queue gets at most one payment.succeeded for it (replay  *)
(* protection by the unique providerEventId).                              *)
OneNotificationPerEvent ==
    \A i \in Intents :
        queued[i]["payment.succeeded"] <= Cardinality(recorded \cap EventsAbout(i))

(* A recorded event and the CAPTURED status of its intent come together:   *)
(* no retry finds the event recorded while the intent is still PENDING.    *)
RecordedIsCaptured ==
    \A e \in recorded : status[About[e]] # "PENDING"

(* An intent is CAPTURED only when the gateway has captured the payment.   *)
CapturedAtGateway ==
    \A i \in Intents : status[i] \in {"CAPTURED", "REFUNDED"} => settled[i] = "CAPTURED"

(* A verified report that names an intent gets through, in spite of        *)
(* rejected calls and crashes on the way: the 500s make the gateway        *)
(* deliver again, until the event is recorded and the intent CAPTURED.     *)
(* (A report that names none is answered 500 for ever.)                    *)
CapturesGetThrough ==
    \A d \in Deliveries :
        (hookPc[d] = "verifying" /\ d \notin Unsigned \cup Malformed /\ EventOf[d] \in NamesIntent)
            ~> (EventOf[d] \in recorded /\ status[About[EventOf[d]]] = "CAPTURED")

=============================================================================
