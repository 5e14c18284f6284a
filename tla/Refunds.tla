------------------------------ MODULE Refunds ------------------------------
(***************************************************************************)
(* RefundsService.processRefund.  The handler reads the intent and its     *)
(* refunds once, calls the gateway, records the refund in a transaction    *)
(* and enqueues the notification; what it decided on the first read is not *)
(* checked again.                                                          *)
(***************************************************************************)
EXTENDS PaymentStore

CONSTANTS
    Requests,       \* the calls of processRefund
    IntentOf,       \* IntentOf[q]: the intent that q names
    Foreign,        \* the requests whose merchant does not own that intent
    Wanted,         \* Wanted[q]: dto.amount, or WholeRest when it is left out
    WholeRest,      \* no amount given: refund the remaining balance
    RefundOutcomes, \* the RefundResult statuses the gateway answers with
    Patient         \* the intents whose merchant waits for one refund to be
                    \* answered before it sends the next

ASSUME RefundAssumption ==
    /\ IntentOf \in [Requests -> Intents]
    /\ Foreign \subseteq Requests
    /\ Wanted \in [Requests -> Nat \cup {WholeRest}]
    /\ WholeRest \notin Nat
    /\ RefundOutcomes \subseteq {"SUCCEEDED", "PENDING", "FAILED"}
    /\ Patient \subseteq Intents

VARIABLES
    refundPc,   \* refundPc[q]: the call q waits for, or how it ended
    seen,       \* seen[q]: totalRefundedSoFar, from the first read
    asked,      \* asked[q]: requestedAmount
    outcome     \* outcome[q]: refundResult.status

refundVars == <<refundPc, seen, asked, outcome>>

RefundSteps == {"idle", "calling", "recording", "dispatching",
                "answered", "refused", "failed", "crashed"}

RefundTypeOK ==
    /\ StoreTypeOK
    /\ refundPc \in [Requests -> RefundSteps]
    /\ seen \in [Requests -> Nat]
    /\ asked \in [Requests -> Nat]
    /\ outcome \in [Requests -> {"none", "SUCCEEDED", "PENDING", "FAILED"}]

RefundInit ==
    /\ refundPc = [q \in Requests |-> "idle"]
    /\ seen = [q \in Requests |-> 0]
    /\ asked = [q \in Requests |-> 0]
    /\ outcome = [q \in Requests |-> "none"]

RefundGoto(q, step) == refundPc' = [refundPc EXCEPT ![q] = step]

Active(q) == refundPc[q] \in {"calling", "recording", "dispatching"}

(* remainingBalance; the difference of two sums of cents, so the rounding  *)
(* of the code changes nothing.                                            *)
Remaining(i) == IF refunded[i] < Amount[i] THEN Amount[i] - refunded[i] ELSE 0

RequestedAmount(q) ==
    IF Wanted[q] = WholeRest THEN Remaining(IntentOf[q]) ELSE Wanted[q]

\* A mutated form of the next definition: the requested amount alone decides.
FullByRequestAlone(q) == asked[q] >= Amount[IntentOf[q]]

(* isFullyRefunded, from the sum read at the start. *)
IsFullyRefunded(q) == seen[q] + asked[q] >= Amount[IntentOf[q]]

-----------------------------------------------------------------------------
(* Mutated forms of definitions below. *)

\* The balance check is dropped.
EligibleAnyAmount(q) ==
    /\ q \notin Foreign
    /\ status[IntentOf[q]] = "CAPTURED"
    /\ IntentOf[q] \in AtGateway
    /\ RequestedAmount(q) > 0

\* The refund row is written, the intent marked whatever was left.
RecordMarksAlways(q) ==
    /\ refundPc[q] = "recording"
    /\ refunded' = [refunded EXCEPT ![IntentOf[q]] = @ + asked[q]]
    /\ UpdateStatus(IntentOf[q], "REFUNDED")
    /\ RefundGoto(q, "dispatching")
    /\ UNCHANGED <<queued, settled, paidBack, faults, seen, asked, outcome>>

\* The sum of the refund rows is kept with the wrong sign.
RecordSubtracts(q) ==
    /\ refundPc[q] = "recording"
    /\ refunded' = [refunded EXCEPT ![IntentOf[q]] = @ - asked[q]]
    /\ RefundGoto(q, "dispatching")
    /\ UNCHANGED <<status, queued, settled, paidBack, faults, seen, asked, outcome>>

\* A refund the gateway declined is recorded like one it made.
RecordIgnoresOutcome(q) ==
    /\ refundPc[q] = "recording"
    /\ refunded' = [refunded EXCEPT ![IntentOf[q]] = @ + asked[q]]
    /\ IF IsFullyRefunded(q) THEN UpdateStatus(IntentOf[q], "REFUNDED") ELSE UNCHANGED status
    /\ RefundGoto(q, "dispatching")
    /\ UNCHANGED <<queued, settled, paidBack, faults, seen, asked, outcome>>

-----------------------------------------------------------------------------
(* findUnique and the checks on what it returned. *)

Eligible(q) ==
    /\ q \notin Foreign
    /\ status[IntentOf[q]] = "CAPTURED"
    /\ IntentOf[q] \in AtGateway
    /\ RequestedAmount(q) > 0
    /\ RequestedAmount(q) <= Remaining(IntentOf[q])

ReadIntent(q) ==
    /\ refundPc[q] = "idle"
    /\ IntentOf[q] \in Patient => \A p \in Requests : Active(p) => IntentOf[p] # IntentOf[q]
    /\ \/ /\ Eligible(q)
          /\ seen' = [seen EXCEPT ![q] = refunded[IntentOf[q]]]
          /\ asked' = [asked EXCEPT ![q] = RequestedAmount(q)]
          /\ RefundGoto(q, "calling")
          /\ UNCHANGED faults
       \/ /\ ~Eligible(q)
          /\ RefundGoto(q, "refused")
          /\ UNCHANGED <<faults, seen, asked>>
       \/ /\ Fault("db")
          /\ RefundGoto(q, "failed")
          /\ UNCHANGED <<seen, asked>>
    /\ UNCHANGED <<status, refunded, queued, settled, paidBack, outcome>>

(* orchestrator.refund: the gateway pays back what it is asked to. *)
GatewayRefunds(q) ==
    /\ refundPc[q] = "calling"
    /\ \E o \in RefundOutcomes :
        /\ outcome' = [outcome EXCEPT ![q] = o]
        /\ paidBack' = IF o = "FAILED" THEN paidBack
                       ELSE [paidBack EXCEPT ![IntentOf[q]] = @ + asked[q]]
    /\ RefundGoto(q, "recording")
    /\ UNCHANGED <<status, refunded, queued, settled, faults, seen, asked>>

(* The call rejects: the gateway did not do it, or its answer was lost. *)
GatewayRefundFails(q) ==
    /\ refundPc[q] = "calling"
    /\ Fault("gateway")
    /\ \/ UNCHANGED paidBack
       \/ paidBack' = [paidBack EXCEPT ![IntentOf[q]] = @ + asked[q]]
    /\ RefundGoto(q, "failed")
    /\ UNCHANGED <<status, refunded, queued, settled, seen, asked, outcome>>

(* The transaction: the refund row, and the intent when it is used up. *)
RecordRefund(q) ==
    /\ refundPc[q] = "recording"
    /\ refunded' = IF outcome[q] = "SUCCEEDED"
                   THEN [refunded EXCEPT ![IntentOf[q]] = @ + asked[q]]
                   ELSE refunded
    /\ IF IsFullyRefunded(q) /\ outcome[q] = "SUCCEEDED"
       THEN UpdateStatus(IntentOf[q], "REFUNDED")
       ELSE UNCHANGED status
    /\ RefundGoto(q, "dispatching")
    /\ UNCHANGED <<queued, settled, paidBack, faults, seen, asked, outcome>>

(* The transaction is rejected after the gateway has paid. *)
RecordFails(q) ==
    /\ refundPc[q] = "recording"
    /\ Fault("db")
    /\ RefundGoto(q, "failed")
    /\ UNCHANGED <<status, refunded, queued, settled, paidBack, seen, asked, outcome>>

DispatchRefunded(q) ==
    /\ refundPc[q] = "dispatching"
    /\ Enqueue(IntentOf[q], "payment.refunded")
    /\ RefundGoto(q, "answered")
    /\ UNCHANGED <<status, refunded, settled, paidBack, faults, seen, asked, outcome>>

(* queue.add is rejected: the handler fails after its transaction. *)
DispatchRefundedFails(q) ==
    /\ refundPc[q] = "dispatching"
    /\ Fault("redis")
    /\ RefundGoto(q, "failed")
    /\ UNCHANGED <<status, refunded, queued, settled, paidBack, seen, asked, outcome>>

RefundCrash(q) ==
    /\ Active(q)
    /\ Fault("crash")
    /\ RefundGoto(q, "crashed")
    /\ UNCHANGED <<status, refunded, queued, settled, paidBack, seen, asked, outcome>>

ProcessRefund(q) ==
    \/ ReadIntent(q)
    \/ GatewayRefunds(q)
    \/ GatewayRefundFails(q)
    \/ RecordRefund(q)
    \/ RecordFails(q)
    \/ DispatchRefunded(q)
    \/ DispatchRefundedFails(q)

RefundStep(q) == ProcessRefund(q) \/ RefundCrash(q)

RefundNext == \E q \in Requests : RefundStep(q)

RefundsInit == StoreInit /\ RefundInit

RefundSpec == RefundsInit /\ [][RefundNext]_<<store, refundVars>>

-----------------------------------------------------------------------------
(* Properties *)

(* The gateway never returns more than the customer was charged, when the  *)
(* merchant sends the refunds of an intent one after another and the       *)
(* transactions that follow the gateway's answers commit (the              *)
(* remainingBalance checks of processRefund).                              *)
PaidBackWithinAmount == \A i \in Intents : paidBack[i] <= Amount[i]

(* An intent marked REFUNDED has refund rows for its whole amount, although *)
(* "fully refunded" is decided on a sum that may be out of date.           *)
RefundedIsPaidInFull ==
    \A i \in Intents :
        status[i] = "REFUNDED" /\ InitialStatus[i] # "REFUNDED" => refunded[i] >= Amount[i]

Quiet(i) == \A q \in Requests : IntentOf[q] = i => ~Active(q)

(* The books agree with the gateway: there is never a refund row for money *)
(* the gateway has not returned, whatever fails; and when nothing failed,  *)
(* no answer is pending and no refund of the intent is under way, the rows *)
(* account for all it has returned, also after concurrent refunds.         *)
LedgerMatchesGateway ==
    \A i \in Intents :
        /\ refunded[i] <= paidBack[i]
        /\ Quiet(i) /\ faults = 0 /\ (\A q \in Requests : outcome[q] # "PENDING")
             => refunded[i] = paidBack[i]

(* An intent whose refunds add up to its amount is marked REFUNDED once no *)
(* refund of it is under way, if its merchant sends them one by one; also  *)
(* after refunds that failed or died half-way.                             *)
ExhaustedIsMarked ==
    \A i \in Patient : Quiet(i) /\ refunded[i] >= Amount[i] => status[i] = "REFUNDED"

=============================================================================
