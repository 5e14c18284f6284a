---------------------------- MODULE PaymentStore ----------------------------
(***************************************************************************)
(* What the payment handlers share: the rows of paymentIntent and refund   *)
(* in PostgreSQL, the outbound queue in Redis, and the gateway's own view  *)
(* of the payments.  Each database call or transaction is atomic; nothing  *)
(* is held from one call to the next.  Amounts are in cents.               *)
(*                                                                         *)
(* Faults are drawn from a budget: in a behaviour at most MaxFaults calls  *)
(* are rejected or processes die.                                          *)
(***************************************************************************)
EXTENDS Naturals

CONSTANTS
    Intents,        \* the paymentIntent rows, which exist from the start
    Amount,         \* Amount[i]: what the customer was charged
    InitialStatus,  \* InitialStatus[i]: the status the row starts with
    AtGateway,      \* the intents that have a gatewayPaymentId
    FaultKinds,     \* which faults happen: members of Faults below
    MaxFaults       \* how many of them (a bound of the model)

Statuses == {"PENDING", "AUTHORIZED", "CAPTURED", "FAILED", "REFUNDED"}

OutboundEvents == {"payment.succeeded", "payment.failed", "payment.refunded"}

(* A rejected database call, queue.add or call of the gateway, and the     *)
(* death of the process that serves a request or a run.                    *)
Faults == {"db", "redis", "gateway", "crash"}

ASSUME StoreAssumption ==
    /\ Amount \in [Intents -> Nat \ {0}]
    /\ InitialStatus \in [Intents -> Statuses]
    /\ AtGateway \subseteq Intents
    /\ FaultKinds \subseteq Faults
    /\ MaxFaults \in Nat

VARIABLES
    status,    \* status[i]: paymentIntent.status
    refunded,  \* refunded[i]: the sum of the SUCCEEDED refund rows of i
    queued,    \* queued[i][e]: how many jobs with event e were enqueued for i
    settled,   \* settled[i]: the status of the payment at the gateway
    paidBack,  \* paidBack[i]: what the gateway has returned to the customer
    faults     \* the faults spent so far

store == <<status, refunded, queued, settled, paidBack, faults>>

StoreTypeOK ==
    /\ status \in [Intents -> Statuses]
    /\ refunded \in [Intents -> Nat]
    /\ queued \in [Intents -> [OutboundEvents -> Nat]]
    /\ settled \in [Intents -> Statuses]
    /\ paidBack \in [Intents -> Nat]
    /\ faults \in 0 .. MaxFaults

(* A row that starts PENDING is undecided at the gateway, too. *)
StoreInit ==
    /\ status = InitialStatus
    /\ refunded = [i \in Intents |-> 0]
    /\ queued = [i \in Intents |-> [e \in OutboundEvents |-> 0]]
    /\ settled = InitialStatus
    /\ paidBack = [i \in Intents |-> 0]
    /\ faults = 0

(* paymentIntent.update({ where: { id }, data: { status } }): no condition *)
(* on the status the row has.                                              *)
UpdateStatus(i, s) == status' = [status EXCEPT ![i] = s]

(* dispatchPaymentEvent: the queue.add went through. *)
Enqueue(i, e) == queued' = [queued EXCEPT ![i][e] = @ + 1]

Fault(kind) ==
    /\ kind \in FaultKinds
    /\ faults < MaxFaults
    /\ faults' = faults + 1

(* The customer pays, or the payment fails, at the gateway. *)
GatewaySettles(i) ==
    /\ i \in AtGateway
    /\ settled[i] = "PENDING"
    /\ \E s \in {"CAPTURED", "FAILED"} : settled' = [settled EXCEPT ![i] = s]
    /\ UNCHANGED <<status, refunded, queued, paidBack, faults>>

=============================================================================
