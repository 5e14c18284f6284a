-------------------------- MODULE PaymentLifecycle --------------------------
(***************************************************************************)
(* The life of a payment after checkout: inbound webhooks, reconciliation  *)
(* runs and refunds work on the same rows at the same time.  They share    *)
(* the variables of PaymentStore and nothing else; a step of one leaves    *)
(* the others' own state as it is.                                         *)
(***************************************************************************)
EXTENDS InboundWebhooks, Reconciliation, Refunds

vars == <<store, hookVars, reconVars, refundVars>>

Init == StoreInit /\ HookInit /\ ReconInit /\ RefundInit

WebhooksAct == HookNext /\ UNCHANGED <<reconVars, refundVars>>

ReconciliationActs == ReconNext /\ UNCHANGED <<hookVars, refundVars>>

RefundsAct == RefundNext /\ UNCHANGED <<hookVars, reconVars>>

GatewayActs ==
    \E i \in Intents : GatewaySettles(i) /\ UNCHANGED <<hookVars, reconVars, refundVars>>

Next == WebhooksAct \/ ReconciliationActs \/ RefundsAct \/ GatewayActs

Spec == Init /\ [][Next]_vars

(* As in the parts: handlers that have started go on, the scheduler        *)
(* repeats the worker's job, time passes.  Gateways may lose a webhook for *)
(* good and customers may never pay or be refunded.                        *)
Fairness ==
    /\ \A d \in Deliveries : WF_vars(HookStep(d) /\ UNCHANGED <<reconVars, refundVars>>)
    /\ WF_vars(Scan(Worker) /\ UNCHANGED <<hookVars, refundVars>>)
    /\ \A p \in Runs : WF_vars(ReconStep(p) /\ UNCHANGED <<hookVars, refundVars>>)
    /\ \A i \in Intents : WF_vars(GrowOld(i) /\ UNCHANGED <<hookVars, refundVars>>)

FairSpec == Spec /\ Fairness

-----------------------------------------------------------------------------
(* Properties.  CapturedAtGateway and PaidBackWithinAmount of the parts    *)
(* are checked here again, where the other parts write the status behind   *)
(* the refunds' back.                                                      *)

(* The rows all parts share, and the state of each, keep their types.      *)
TypeOK == HookTypeOK /\ ReconTypeOK /\ RefundTypeOK

(* No payment stays PENDING for ever once the gateway has settled it,      *)
(* whether its webhook is delivered, delayed, repeated or lost.            *)
SettledIsResolved ==
    \A i \in AtGateway \ Unreachable :
        settled[i] # "PENDING" ~> status[i] # "PENDING"

(* A capture is announced to the merchant: once an intent that was PENDING *)
(* is CAPTURED, a payment.succeeded gets into the outbound queue.          *)
CaptureIsAnnounced ==
    \A i \in Intents :
        InitialStatus[i] = "PENDING" /\ status[i] = "CAPTURED"
            ~> queued[i]["payment.succeeded"] > 0

(* Even when a stale write has taken a refunded intent back to CAPTURED,   *)
(* its refund rows keep another refund from being paid: whatever is still  *)
(* on its way to the gateway fits into what is left of the amount.         *)
RefundsOnTheWayFit ==
    \A q \in Requests :
        refundPc[q] = "calling" => paidBack[IntentOf[q]] + asked[q] <= Amount[IntentOf[q]]

=============================================================================
