-------------------------- MODULE LifecycleProofs --------------------------
(***************************************************************************)
(* Proofs about PaymentLifecycle, and the reports that are made of its     *)
(* rows, for every set of intents, deliveries, runs and refund requests,   *)
(* and every amount: types, that neither webhooks nor reconciliation,      *)
(* which overwrite the status freely, can make the refunds wrong, and that *)
(* what reports count as taken was taken and stays counted.                *)
(***************************************************************************)
EXTENDS RefundProofs, Reports

(* Each step by name; the variables of the other parts do not change. *)
LEMMA StepCases ==
    ASSUME [Next]_vars
    PROVE  \/ UNCHANGED vars
           \/ HookNext /\ UNCHANGED <<reconVars, refundVars>>
           \/ ReconNext /\ UNCHANGED <<hookVars, refundVars>>
           \/ RefundNext /\ UNCHANGED <<hookVars, reconVars>>
           \/ \E i \in Intents :
                 GatewaySettles(i) /\ UNCHANGED <<hookVars, reconVars, refundVars>>
BY DEF Next, WebhooksAct, ReconciliationActs, RefundsAct, GatewayActs

-----------------------------------------------------------------------------
(* Types, one part at a time. *)

LEMMA TypeInit == Init => TypeOK
BY StoreAssumption
   DEF Init, StoreInit, HookInit, ReconInit, RefundInit, TypeOK, HookTypeOK, ReconTypeOK,
       RefundTypeOK, StoreTypeOK, HookSteps, ReconSteps, RefundSteps

LEMMA HookTypes ==
    ASSUME TypeOK, HookNext, UNCHANGED <<reconVars, refundVars>>
    PROVE  TypeOK'
<1> USE WebhookAssumption, FaultType
    DEF TypeOK, HookTypeOK, ReconTypeOK, RefundTypeOK, StoreTypeOK, HookSteps, HookGoto, Statuses,
        OutboundEvents, UpdateStatus, Enqueue, store, reconVars, refundVars
<1>1. ASSUME NEW d \in Deliveries, Deliver(d) PROVE TypeOK'
  BY <1>1 DEF Deliver
<1>2. ASSUME NEW d \in Deliveries, Verify(d) PROVE TypeOK'
  BY <1>2 DEF Verify
<1>3. ASSUME NEW d \in Deliveries, Commit(d) PROVE TypeOK'
  BY <1>3 DEF Commit
<1>4. ASSUME NEW d \in Deliveries, CommitDuplicate(d) PROVE TypeOK'
  BY <1>4 DEF CommitDuplicate
<1>5. ASSUME NEW d \in Deliveries, CommitUnknownIntent(d) PROVE TypeOK'
  BY <1>5 DEF CommitUnknownIntent
<1>6. ASSUME NEW d \in Deliveries, CommitFails(d) PROVE TypeOK'
  BY <1>6 DEF CommitFails
<1>7. ASSUME NEW d \in Deliveries, DispatchSucceeded(d) PROVE TypeOK'
  BY <1>7 DEF DispatchSucceeded
<1>8. ASSUME NEW d \in Deliveries, DispatchSucceededFails(d) PROVE TypeOK'
  BY <1>8 DEF DispatchSucceededFails
<1>9. ASSUME NEW d \in Deliveries, Acknowledge(d) PROVE TypeOK'
  BY <1>9 DEF Acknowledge
<1>10. ASSUME NEW d \in Deliveries, HookCrash(d) PROVE TypeOK'
  BY <1>10 DEF HookCrash
<1> QED
  BY <1>1, <1>2, <1>3, <1>4, <1>5, <1>6, <1>7, <1>8, <1>9, <1>10 DEF HookNext, HookStep

LEMMA TakeIntentTypes ==
    ASSUME TypeOK, NEW p \in Runs, TakeIntent(p), UNCHANGED <<hookVars, refundVars>>
    PROVE  TypeOK'
<1>1. PICK i \in batch[p] :
        /\ batch' = [batch EXCEPT ![p] = @ \ {i}]
        /\ \/ ReconGoto(p, "fetching") /\ current' = [current EXCEPT ![p] = i]
           \/ ReconGoto(p, "abandoning") /\ current' = [current EXCEPT ![p] = i]
           \/ reconPc' = reconPc /\ current' = current
  BY DEF TakeIntent
<1>2. i \in Intents /\ i # NoIntent /\ reconPc[p] = "looping"
  BY ReconAssumption DEF TakeIntent, TypeOK, ReconTypeOK
<1>3. batch' \in [Runs -> SUBSET Intents]
  BY <1>1 DEF TypeOK, ReconTypeOK
<1>4. reconPc' \in [Runs -> ReconSteps] /\ current' \in [Runs -> Intents \cup {NoIntent}]
  BY <1>1, <1>2 DEF TypeOK, ReconTypeOK, ReconGoto, ReconSteps
<1>5. \A r \in Runs : current'[r] = NoIntent <=> reconPc'[r] \in {"idle", "looping"}
  <2>1. CASE reconPc' = reconPc /\ current' = current
    BY <2>1 DEF TypeOK, ReconTypeOK
  <2>2. ASSUME NEW step \in {"fetching", "abandoning"}, ReconGoto(p, step),
               current' = [current EXCEPT ![p] = i], NEW r \in Runs
        PROVE  current'[r] = NoIntent <=> reconPc'[r] \in {"idle", "looping"}
    <3>1. CASE r = p
      BY <1>2, <2>2, <3>1 DEF TypeOK, ReconTypeOK, ReconGoto
    <3>2. CASE r # p
      BY <2>2, <3>2 DEF TypeOK, ReconTypeOK, ReconGoto
    <3> QED
      BY <3>1, <3>2
  <2> QED
    BY <1>1, <2>1, <2>2
<1>6. UNCHANGED <<store, age, answer>>
  BY DEF TakeIntent
<1> QED
  BY <1>3, <1>4, <1>5, <1>6
     DEF TypeOK, HookTypeOK, ReconTypeOK, RefundTypeOK, StoreTypeOK, store, hookVars, refundVars

LEMMA ReconTypes ==
    ASSUME TypeOK, ReconNext, UNCHANGED <<hookVars, refundVars>>
    PROVE  TypeOK'
<1> USE ReconAssumption, FaultType
    DEF TypeOK, HookTypeOK, ReconTypeOK, RefundTypeOK, StoreTypeOK, ReconSteps, ReconGoto, Statuses,
        OutboundEvents, UpdateStatus, Enqueue, NextIntent, store, hookVars, refundVars
<1>1. ASSUME NEW p \in Runs, Scan(p) PROVE TypeOK'
  BY <1>1 DEF Scan, StaleIntents
<1>2. ASSUME NEW p \in Runs, ScanFails(p) PROVE TypeOK'
  BY <1>2 DEF ScanFails, reconVars
<1>3. ASSUME NEW p \in Runs, TakeIntent(p) PROVE TypeOK'
  BY <1>3, TakeIntentTypes
<1>4. ASSUME NEW p \in Runs, FinishRun(p) PROVE TypeOK'
  BY <1>4 DEF FinishRun
<1>5. ASSUME NEW p \in Runs, Abandon(p) PROVE TypeOK'
  BY <1>5 DEF Abandon
<1>6. ASSUME NEW p \in Runs, Fetch(p) PROVE TypeOK'
  <2>1. answer' \in [Runs -> {"PENDING", "CAPTURED", "FAILED"}]
    BY <1>6 DEF Fetch, GatewayAnswer
  <2>2. \/ /\ reconPc' = [reconPc EXCEPT ![p] = "looping"]
           /\ current' = [current EXCEPT ![p] = NoIntent]
        \/ reconPc' = [reconPc EXCEPT ![p] = "updating"] /\ UNCHANGED current
    BY <1>6 DEF Fetch
  <2>3. reconPc' \in [Runs -> ReconSteps] /\ current' \in [Runs -> Intents \cup {NoIntent}]
    BY <2>2
  <2>4. \A r \in Runs : current'[r] = NoIntent <=> reconPc'[r] \in {"idle", "looping"}
    BY <1>6, <2>2 DEF Fetch
  <2> QED
    BY <1>6, <2>1, <2>3, <2>4 DEF Fetch
<1>7. ASSUME NEW p \in Runs, FetchFails(p) PROVE TypeOK'
  BY <1>7 DEF FetchFails
<1>8. ASSUME NEW p \in Runs, Update(p) PROVE TypeOK'
  BY <1>8 DEF Update
<1>9. ASSUME NEW p \in Runs, UpdateFails(p) PROVE TypeOK'
  BY <1>9 DEF UpdateFails
<1>10. ASSUME NEW p \in Runs, Dispatch(p) PROVE TypeOK'
  BY <1>10 DEF Dispatch, NotificationOf
<1>11. ASSUME NEW p \in Runs, DispatchFails(p) PROVE TypeOK'
  BY <1>11 DEF DispatchFails
<1>12. ASSUME NEW p \in Runs, ReconCrash(p) PROVE TypeOK'
  BY <1>12 DEF ReconCrash
<1>13. ASSUME NEW i \in Intents, GrowOld(i) PROVE TypeOK'
  BY <1>13 DEF GrowOld
<1> QED
  BY <1>1, <1>2, <1>3, <1>4, <1>5, <1>6, <1>7, <1>8, <1>9, <1>10, <1>11, <1>12, <1>13 DEF ReconNext, ReconStep

LEMMA RefundTypes ==
    ASSUME TypeOK, RefundNext, UNCHANGED <<hookVars, reconVars>>
    PROVE  TypeOK'
<1>1. RefundTypeOK'
  BY RefundTypeStep DEF TypeOK, RefundNext
<1> QED
  BY <1>1 DEF TypeOK, HookTypeOK, ReconTypeOK, RefundTypeOK, hookVars, reconVars

LEMMA GatewayTypes ==
    ASSUME TypeOK, NEW i \in Intents, GatewaySettles(i), UNCHANGED <<hookVars, reconVars, refundVars>>
    PROVE  TypeOK'
BY DEF TypeOK, HookTypeOK, ReconTypeOK, RefundTypeOK, StoreTypeOK, GatewaySettles, Statuses,
       hookVars, reconVars, refundVars

(* Every variable keeps its type. *)
THEOREM TypeCorrect == Spec => []TypeOK
<1>1. TypeOK /\ UNCHANGED vars => TypeOK'
  BY DEF TypeOK, HookTypeOK, ReconTypeOK, RefundTypeOK, StoreTypeOK, vars, store, hookVars,
         reconVars, refundVars
<1>2. TypeOK /\ [Next]_vars => TypeOK'
  BY <1>1, StepCases, HookTypes, ReconTypes, RefundTypes, GatewayTypes
<1> QED
  BY TypeInit, <1>2, PTL DEF Spec

-----------------------------------------------------------------------------
(* What webhooks and reconciliation may do to the refunds: they write      *)
(* CAPTURED and FAILED over any status, and touch nothing else.            *)

RefundViewKept ==
    /\ UNCHANGED <<refunded, paidBack, refundVars>>
    /\ faults' >= faults
    /\ \A i \in Intents : status'[i] = "REFUNDED" => status[i] = "REFUNDED"

LEMMA HookKeepsRefunds ==
    ASSUME TypeOK, HookNext, UNCHANGED <<reconVars, refundVars>>
    PROVE  RefundViewKept
<1>1. PICK d \in Deliveries : Deliver(d) \/ HookStep(d) \/ HookCrash(d)
  BY DEF HookNext
<1>2. UNCHANGED <<refunded, paidBack>>
  BY <1>1 DEF HookStep, Deliver, Verify, Commit, CommitDuplicate, CommitUnknownIntent, CommitFails,
              DispatchSucceeded, DispatchSucceededFails, Acknowledge, HookCrash, store
<1>3. UNCHANGED status \/ \E i \in Intents : UpdateStatus(i, "CAPTURED")
  BY <1>1, WebhookAssumption
     DEF HookStep, Deliver, Verify, Commit, CommitDuplicate, CommitUnknownIntent, CommitFails,
         DispatchSucceeded, DispatchSucceededFails, Acknowledge, HookCrash, store
<1>4. UNCHANGED faults \/ \E kind \in Faults : Fault(kind)
  BY <1>1
     DEF HookStep, Deliver, Verify, Commit, CommitDuplicate, CommitUnknownIntent, CommitFails,
         DispatchSucceeded, DispatchSucceededFails, Acknowledge, HookCrash, Faults, store
<1>5. faults' >= faults
  BY <1>4, FaultType DEF TypeOK, HookTypeOK, StoreTypeOK
<1> QED
  BY <1>2, <1>3, <1>5 DEF RefundViewKept, UpdateStatus, TypeOK, HookTypeOK, StoreTypeOK

LEMMA ReconKeepsRefunds ==
    ASSUME TypeOK, ReconNext, UNCHANGED <<hookVars, refundVars>>
    PROVE  RefundViewKept
<1>1. UNCHANGED <<refunded, paidBack>>
  BY DEF ReconNext, ReconStep, Scan, ScanFails, TakeIntent, FinishRun, Abandon, Fetch, FetchFails,
         Update, UpdateFails, Dispatch, DispatchFails, ReconCrash, GrowOld, store
<1>2. \/ UNCHANGED status
      \/ \E p \in Runs : Abandon(p) \/ Update(p)
  BY DEF ReconNext, ReconStep, Scan, ScanFails, TakeIntent, FinishRun, Fetch, FetchFails,
         UpdateFails, Dispatch, DispatchFails, ReconCrash, GrowOld, store
<1>3. ASSUME NEW p \in Runs, Abandon(p) \/ Update(p)
      PROVE  \A i \in Intents : status'[i] = "REFUNDED" => status[i] = "REFUNDED"
  <2>1. answer[p] # "REFUNDED"
    BY DEF TypeOK, ReconTypeOK
  <2>2. \E s : s # "REFUNDED" /\ UpdateStatus(current[p], s)
    BY <1>3, <2>1 DEF Abandon, Update
  <2> QED
    BY <2>2 DEF UpdateStatus, TypeOK, HookTypeOK, StoreTypeOK
<1>4. UNCHANGED faults \/ \E kind \in Faults : Fault(kind)
  BY DEF ReconNext, ReconStep, Scan, ScanFails, TakeIntent, FinishRun, Abandon, Fetch, FetchFails,
         Update, UpdateFails, Dispatch, DispatchFails, ReconCrash, GrowOld, Faults, store
<1>5. faults' >= faults
  BY <1>4, FaultType DEF TypeOK, HookTypeOK, StoreTypeOK
<1> QED
  BY <1>1, <1>2, <1>3, <1>5 DEF RefundViewKept

LEMMA GatewayKeepsRefunds ==
    ASSUME TypeOK, NEW i \in Intents, GatewaySettles(i), UNCHANGED <<hookVars, reconVars, refundVars>>
    PROVE  RefundViewKept
BY DEF RefundViewKept, GatewaySettles, TypeOK, HookTypeOK, StoreTypeOK

LEMMA OthersKeepRefunds ==
    ASSUME TypeOK, [Next]_vars
    PROVE  RefundViewKept \/ \E q \in Requests : RefundStep(q)
<1>1. CASE UNCHANGED vars
  BY <1>1 DEF vars, store, RefundViewKept, TypeOK, HookTypeOK, StoreTypeOK
<1> QED
  BY <1>1, StepCases, HookKeepsRefunds, ReconKeepsRefunds, GatewayKeepsRefunds DEF RefundNext

-----------------------------------------------------------------------------
(* The refunds among the other writers. *)

LEMMA InitRefunds == Init => RefundsInit
BY DEF Init, RefundsInit

(* An intent that is marked REFUNDED has refund rows for its whole amount, *)
(* with any number of concurrent refunds, webhooks and reconciliation      *)
(* runs, and whatever faults occur.                                        *)
THEOREM RefundedIsPaid == Spec => []RefundedIsPaidInFull
<1>1. TypeOK /\ MarkInv /\ RefundViewKept => MarkInv'
  BY DEF MarkInv, SeenIsPast, RefundedIsPaidInFull, RefundViewKept, refundVars, Active
<1>2. TypeOK /\ MarkInv /\ [Next]_vars => MarkInv'
  BY <1>1, OthersKeepRefunds, MarkInvRefund DEF TypeOK
<1>3. MarkInv => RefundedIsPaidInFull
  BY DEF MarkInv
<1> QED
  BY InitRefunds, MarkInvInit, TypeCorrect, <1>2, <1>3, PTL DEF Spec

LEMMA LedgerOthers ==
    ASSUME RefundTypeOK, RefundTypeOK', LedgerInv, RefundViewKept
    PROVE  LedgerInv'
<1>1. UNCHANGED <<refunded, paidBack, refundPc, asked, outcome>> /\ faults' >= faults
  BY DEF RefundViewKept, refundVars
<1>2. \A q \in Requests : Unrecorded(q)' <=> Unrecorded(q)
  BY <1>1 DEF Unrecorded
<1>3. NothingFailed' => NothingFailed
  BY <1>1 DEF NothingFailed, RefundTypeOK, StoreTypeOK
<1>4. \A i \in Intents : paidBack'[i] \in Nat /\ paidBack'[i] >= paidBack[i]
  BY <1>1 DEF RefundTypeOK, StoreTypeOK
<1>5. Balanced'
  BY <1>1, <1>2, <1>3, <1>4, NothingOwedAnew
<1> QED
  BY <1>1, <1>5 DEF LedgerInv, OpenHasNoOutcome

(* Webhooks and reconciliation runs, which write over the mark REFUNDED,   *)
(* cannot part the books from the gateway: the rows never claim a refund   *)
(* it has not made, and account for all of them when nothing has failed.   *)
THEOREM LedgerMatches == Spec => []LedgerMatchesGateway
<1>1. TypeOK /\ TypeOK' /\ LedgerInv /\ [Next]_vars => LedgerInv'
  BY OthersKeepRefunds, LedgerStep, LedgerOthers DEF TypeOK
<1>2. TypeOK /\ LedgerInv => LedgerMatchesGateway
  BY LedgerImplies DEF TypeOK
<1> QED
  BY InitRefunds, LedgerInit, TypeCorrect, <1>1, <1>2, PTL DEF Spec

-----------------------------------------------------------------------------
(* What the gateway pays back stays within the amount, whatever webhooks   *)
(* and runs write while the refunds are under way.                         *)

LEMMA PayOthers ==
    ASSUME PayInv, RefundViewKept
    PROVE  PayInv'
BY DEF PayInv, Serial, CallingFits, RecordingIsPaid, OthersAreEven, PaidBackWithinAmount, Unrecorded,
       Active, RefundViewKept, refundVars

LEMMA PayInvariant ==
    ASSUME Careful
    PROVE  Spec => []PayInv
<1>1. TypeOK /\ PayInv /\ [Next]_vars => PayInv'
  BY OthersKeepRefunds, PayRefundStep, PayOthers DEF TypeOK
<1> QED
  BY InitRefunds, PayInvInit, TypeCorrect, <1>1, PTL DEF Spec

(* The gateway never pays back more than the customer was charged, however *)
(* often webhooks and reconciliation runs overwrite the status meanwhile.  *)
THEOREM PaidBackBounded ==
    ASSUME Careful
    PROVE  Spec => []PaidBackWithinAmount
<1>1. PayInv => PaidBackWithinAmount
  BY DEF PayInv
<1> QED
  BY PayInvariant, <1>1, PTL

(* A refund on its way to the gateway fits into what is left, also when a  *)
(* late webhook or a reconciliation run has made a refunded intent         *)
(* CAPTURED again: the refund rows, not the status, hold the balance.      *)
THEOREM RefundsFit ==
    ASSUME Careful
    PROVE  Spec => []RefundsOnTheWayFit
<1>1. ASSUME TypeOK, PayInv, NEW q \in Requests, refundPc[q] = "calling"
      PROVE  paidBack[IntentOf[q]] + asked[q] <= Amount[IntentOf[q]]
  <2>1. \A p \in Requests : Unrecorded(p) => IntentOf[p] # IntentOf[q]
    BY <1>1 DEF PayInv, Serial, Unrecorded, Active
  <2>2. paidBack[IntentOf[q]] = refunded[IntentOf[q]]
    BY <1>1, <2>1, RefundNats DEF TypeOK, PayInv, OthersAreEven
  <2> QED
    BY <1>1, <2>2 DEF PayInv, CallingFits
<1>2. TypeOK /\ PayInv => RefundsOnTheWayFit
  BY <1>1 DEF RefundsOnTheWayFit
<1> QED
  BY PayInvariant, TypeCorrect, <1>2, PTL

-----------------------------------------------------------------------------
(* What reports count: who is CAPTURED was captured by the gateway, and    *)
(* stays a success.                                                        *)

(* Every event reports a capture, since the handler does not look at the   *)
(* kind of an event.  No intent starts out refunded.                       *)
Truthful ==
    /\ \A e \in Events : Reports[e] = "CAPTURED"
    /\ \A i \in Intents : InitialStatus[i] \in {"PENDING", "CAPTURED", "FAILED"}

Captured(i) == settled[i] = "CAPTURED"

(* A request, a run or a refund that may still write a status has reason   *)
(* to: what it has read is true of the gateway for good.                   *)

HooksReportCaptures ==
    \A d \in Deliveries : hookPc[d] \in {"verifying", "committing"} => Captured(About[EventOf[d]])

AnswersAreTrue ==
    \A p \in Runs : reconPc[p] = "updating" => answer[p] = settled[current[p]] /\ answer[p] # "PENDING"

RefundsAreOfCaptures == \A q \in Requests : Active(q) => Captured(IntentOf[q])

(* The rows a run has read were PENDING, and what never got to a gateway   *)
(* is not captured there later.                                            *)
NeverAtGateway(i) == i \notin AtGateway => ~Captured(i)

BatchesArePending ==
    \A p \in Runs :
        /\ \A i \in batch[p] : NeverAtGateway(i)
        /\ current[p] # NoIntent => NeverAtGateway(current[p])
        /\ reconPc[p] = "abandoning" => current[p] \notin AtGateway

PendingWasPending == \A i \in Intents : status[i] = "PENDING" => NeverAtGateway(i)

GatewayInv ==
    /\ CapturedAtGateway
    /\ HooksReportCaptures
    /\ AnswersAreTrue
    /\ RefundsAreOfCaptures
    /\ BatchesArePending
    /\ PendingWasPending

LEMMA GatewayInvInit ==
    ASSUME Truthful, Init
    PROVE  GatewayInv
BY StoreAssumption
   DEF Truthful, Init, StoreInit, HookInit, ReconInit, RefundInit, GatewayInv, CapturedAtGateway,
       HooksReportCaptures, AnswersAreTrue, RefundsAreOfCaptures, BatchesArePending,
       PendingWasPending, NeverAtGateway, Captured, Active

LEMMA GatewayInvHooks ==
    ASSUME Truthful, TypeOK, GatewayInv, HookNext, UNCHANGED <<reconVars, refundVars>>
    PROVE  GatewayInv' /\ Successful(Intents) \subseteq Successful(Intents)'
<1> USE WebhookAssumption
    DEF Truthful, TypeOK, HookTypeOK, StoreTypeOK, GatewayInv, CapturedAtGateway,
        HooksReportCaptures, AnswersAreTrue, RefundsAreOfCaptures, BatchesArePending,
        PendingWasPending, NeverAtGateway, Captured, Active, Successful, HookGoto, UpdateStatus,
        store, reconVars, refundVars
<1>1. ASSUME NEW d \in Deliveries, Deliver(d)
      PROVE  GatewayInv' /\ Successful(Intents) \subseteq Successful(Intents)'
  BY <1>1 DEF Deliver
<1>2. ASSUME NEW d \in Deliveries, Verify(d)
      PROVE  GatewayInv' /\ Successful(Intents) \subseteq Successful(Intents)'
  BY <1>2 DEF Verify
<1>3. ASSUME NEW d \in Deliveries, Commit(d)
      PROVE  GatewayInv' /\ Successful(Intents) \subseteq Successful(Intents)'
  BY <1>3 DEF Commit
<1>4. ASSUME NEW d \in Deliveries,
             \/ CommitDuplicate(d) \/ CommitUnknownIntent(d) \/ CommitFails(d)
             \/ DispatchSucceeded(d) \/ DispatchSucceededFails(d) \/ Acknowledge(d) \/ HookCrash(d)
      PROVE  GatewayInv' /\ Successful(Intents) \subseteq Successful(Intents)'
  <2>1. /\ UNCHANGED <<status, settled>>
        /\ \E step \in HookSteps \ {"verifying", "committing"} : HookGoto(d, step)
    BY <1>4 DEF CommitDuplicate, CommitUnknownIntent, CommitFails, DispatchSucceeded,
                DispatchSucceededFails, Acknowledge, HookCrash, HookSteps
  <2> QED
    BY <2>1
<1> QED
  BY <1>1, <1>2, <1>3, <1>4 DEF HookNext, HookStep

LEMMA GatewayInvRecon ==
    ASSUME TypeOK, GatewayInv, ReconNext, UNCHANGED <<hookVars, refundVars>>
    PROVE  GatewayInv' /\ Successful(Intents) \subseteq Successful(Intents)'
<1> USE ReconAssumption
    DEF TypeOK, ReconTypeOK, StoreTypeOK, GatewayInv, CapturedAtGateway,
        HooksReportCaptures, AnswersAreTrue, RefundsAreOfCaptures, BatchesArePending,
        PendingWasPending, NeverAtGateway, Captured, Active, Successful, ReconGoto, UpdateStatus,
        NextIntent, store, reconVars, hookVars, refundVars
<1>1. ASSUME NEW p \in Runs, Scan(p)
      PROVE  GatewayInv' /\ Successful(Intents) \subseteq Successful(Intents)'
  BY <1>1 DEF Scan, StaleIntents
<1>2. ASSUME NEW p \in Runs, TakeIntent(p)
      PROVE  GatewayInv' /\ Successful(Intents) \subseteq Successful(Intents)'
  <2>1. PICK i \in batch[p] :
          /\ batch' = [batch EXCEPT ![p] = @ \ {i}]
          /\ \/ ReconGoto(p, "fetching") /\ current' = [current EXCEPT ![p] = i]
             \/ /\ ReconGoto(p, "abandoning") /\ i \notin AtGateway
                /\ current' = [current EXCEPT ![p] = i]
             \/ UNCHANGED <<reconPc, current>>
    BY <1>2 DEF TakeIntent
  <2>2. UNCHANGED <<status, settled, answer>>
    BY <1>2 DEF TakeIntent
  <2>3. AnswersAreTrue'
    BY <2>1, <2>2
  <2>4. BatchesArePending'
    BY <2>1, <2>2
  <2> QED
    BY <2>2, <2>3, <2>4
<1>3. ASSUME NEW p \in Runs, Abandon(p)
      PROVE  GatewayInv' /\ Successful(Intents) \subseteq Successful(Intents)'
  BY <1>3 DEF Abandon
<1>4. ASSUME NEW p \in Runs, Fetch(p)
      PROVE  GatewayInv' /\ Successful(Intents) \subseteq Successful(Intents)'
  BY <1>4 DEF Fetch, GatewayAnswer
<1>5. ASSUME NEW p \in Runs, Update(p)
      PROVE  GatewayInv' /\ Successful(Intents) \subseteq Successful(Intents)'
  BY <1>5 DEF Update
<1>6. ASSUME NEW p \in Runs,
             \/ ScanFails(p) \/ FinishRun(p) \/ FetchFails(p) \/ UpdateFails(p)
             \/ Dispatch(p) \/ DispatchFails(p) \/ ReconCrash(p)
      PROVE  GatewayInv' /\ Successful(Intents) \subseteq Successful(Intents)'
  <2>1. /\ UNCHANGED <<status, settled, answer>>
        /\ \/ UNCHANGED <<batch, current, reconPc>>
           \/ /\ \E step \in {"idle", "looping"} : ReconGoto(p, step)
              /\ UNCHANGED batch \/ batch' = [batch EXCEPT ![p] = {}]
              /\ UNCHANGED current \/ current' = [current EXCEPT ![p] = NoIntent]
    <3>1. CASE ScanFails(p)
      BY <3>1 DEF ScanFails
    <3>2. CASE FinishRun(p)
      BY <3>2 DEF FinishRun
    <3>3. CASE FetchFails(p) \/ UpdateFails(p)
      BY <3>3 DEF FetchFails, UpdateFails
    <3>4. CASE Dispatch(p) \/ DispatchFails(p)
      BY <3>4 DEF Dispatch, DispatchFails
    <3>5. CASE ReconCrash(p)
      BY <3>5 DEF ReconCrash
    <3> QED
      BY <1>6, <3>1, <3>2, <3>3, <3>4, <3>5
  <2>2. AnswersAreTrue'
    BY <2>1
  <2>3. BatchesArePending'
    BY <2>1
  <2> QED
    BY <2>1, <2>2, <2>3
<1>7. ASSUME NEW i \in Intents, GrowOld(i)
      PROVE  GatewayInv' /\ Successful(Intents) \subseteq Successful(Intents)'
  BY <1>7 DEF GrowOld
<1> QED
  BY <1>1, <1>2, <1>3, <1>4, <1>5, <1>6, <1>7 DEF ReconNext, ReconStep

LEMMA GatewayInvRefunds ==
    ASSUME TypeOK, GatewayInv, RefundNext, UNCHANGED <<hookVars, reconVars>>
    PROVE  GatewayInv' /\ Successful(Intents) \subseteq Successful(Intents)'
<1> USE RefundAssumption
    DEF TypeOK, RefundTypeOK, StoreTypeOK, GatewayInv, CapturedAtGateway,
        HooksReportCaptures, AnswersAreTrue, RefundsAreOfCaptures, BatchesArePending,
        PendingWasPending, NeverAtGateway, Captured, Active, Successful, RefundGoto, UpdateStatus,
        store, hookVars, reconVars
<1>1. ASSUME NEW q \in Requests, ReadIntent(q)
      PROVE  GatewayInv' /\ Successful(Intents) \subseteq Successful(Intents)'
  BY <1>1 DEF ReadIntent, Eligible
<1>2. ASSUME NEW q \in Requests, RecordRefund(q)
      PROVE  GatewayInv' /\ Successful(Intents) \subseteq Successful(Intents)'
  <2>1. /\ Active(q) /\ UNCHANGED settled /\ RefundGoto(q, "dispatching")
        /\ UNCHANGED status \/ UpdateStatus(IntentOf[q], "REFUNDED")
    BY <1>2 DEF RecordRefund
  <2> QED
    BY <2>1
<1>3. ASSUME NEW q \in Requests,
             \/ GatewayRefunds(q) \/ GatewayRefundFails(q) \/ RecordFails(q)
             \/ DispatchRefunded(q) \/ DispatchRefundedFails(q) \/ RefundCrash(q)
      PROVE  GatewayInv' /\ Successful(Intents) \subseteq Successful(Intents)'
  <2>1. Active(q) /\ UNCHANGED <<status, settled>> /\ \E step \in RefundSteps : RefundGoto(q, step)
    BY <1>3 DEF GatewayRefunds, GatewayRefundFails, RecordFails, DispatchRefunded,
                DispatchRefundedFails, RefundCrash, RefundSteps
  <2> QED
    BY <2>1
<1> QED
  BY <1>1, <1>2, <1>3 DEF RefundNext, RefundStep, ProcessRefund

LEMMA GatewayInvSettles ==
    ASSUME TypeOK, GatewayInv, NEW i \in Intents, GatewaySettles(i),
           UNCHANGED <<hookVars, reconVars, refundVars>>
    PROVE  GatewayInv' /\ Successful(Intents) \subseteq Successful(Intents)'
BY WebhookAssumption, RefundAssumption
   DEF TypeOK, HookTypeOK, ReconTypeOK, StoreTypeOK, GatewayInv, CapturedAtGateway,
       HooksReportCaptures, AnswersAreTrue, RefundsAreOfCaptures, BatchesArePending,
       PendingWasPending, NeverAtGateway, Captured, Active, Successful, GatewaySettles,
       hookVars, reconVars, refundVars

LEMMA GatewayInvStep ==
    ASSUME Truthful, TypeOK, GatewayInv, [Next]_vars
    PROVE  GatewayInv' /\ Successful(Intents) \subseteq Successful(Intents)'
<1>1. CASE UNCHANGED vars
  BY <1>1 DEF vars, store, hookVars, reconVars, refundVars, GatewayInv, CapturedAtGateway,
       HooksReportCaptures, AnswersAreTrue, RefundsAreOfCaptures, BatchesArePending,
       PendingWasPending, NeverAtGateway, Captured, Active, Successful
<1> QED
  BY <1>1, StepCases, GatewayInvHooks, GatewayInvRecon, GatewayInvRefunds, GatewayInvSettles

LEMMA GatewayInvariant ==
    ASSUME Truthful
    PROVE  Spec => []GatewayInv
<1>1. Init => GatewayInv
  BY GatewayInvInit
<1>2. TypeOK /\ GatewayInv /\ [Next]_vars => GatewayInv'
  BY GatewayInvStep
<1> QED
  BY <1>1, <1>2, TypeCorrect, PTL DEF Spec

(* An intent is CAPTURED or REFUNDED only if the gateway has captured the  *)
(* payment, however late webhooks come and runs write what they have read. *)
THEOREM CapturedIsReal ==
    ASSUME Truthful
    PROVE  Spec => []CapturedAtGateway
<1>1. GatewayInv => CapturedAtGateway
  BY DEF GatewayInv
<1> QED
  BY <1>1, GatewayInvariant, PTL

(* A payment counted into the volume stays counted.                        *)
THEOREM VolumeIsMonotone ==
    ASSUME Truthful
    PROVE  Spec => VolumeNeverFalls
<1>1. TypeOK /\ GatewayInv /\ [Next]_vars
        => [Successful(Intents) \subseteq Successful(Intents)']_vars
  BY GatewayInvStep
<1> QED
  BY <1>1, TypeCorrect, GatewayInvariant, PTL DEF Spec, VolumeNeverFalls

-----------------------------------------------------------------------------
(* Sums of amounts.  A sum over a finite set is the number of its cents,   *)
(* the pairs of an intent and one of the cents of its amount; sums are     *)
(* then compared as sets are.                                              *)

SumOf(f, S) == MapThenSumSet(LAMBDA i : f[i], S)

(* The recursive function of the sum. *)
IsSum(g, f, S) ==
    g = [s \in SUBSET S |->
            IF s = {} THEN 0
            ELSE f[CHOOSE x \in s : TRUE] + g[s \ {CHOOSE x \in s : TRUE}]]

CentsOf(f, i) == {<<i, c>> : c \in 1..f[i]}

AllCents(f, S) == UNION {CentsOf(f, i) : i \in S}

LEMMA CentsOfOne ==
    ASSUME NEW f, NEW i, f[i] \in Nat
    PROVE  IsFiniteSet(CentsOf(f, i)) /\ Cardinality(CentsOf(f, i)) = f[i]
<1> DEFINE pair == [c \in 1..f[i] |-> <<i, c>>]
<1>1. pair \in Surjection(1..f[i], CentsOf(f, i)) /\ pair \in Injection(1..f[i], CentsOf(f, i))
  BY DEF Surjection, Injection, IsInjective, CentsOf
<1>2. IsFiniteSet(1..f[i]) /\ Cardinality(1..f[i]) = f[i]
  BY FS_Interval
<1> HIDE DEF pair
<1> QED
  BY <1>1, <1>2, FS_Surjection

LEMMA CentsFinite ==
    ASSUME NEW S, IsFiniteSet(S), NEW f, \A i \in S : f[i] \in Nat
    PROVE  IsFiniteSet(AllCents(f, S))
<1> DEFINE all == {CentsOf(f, i) : i \in S}
           of == [i \in S |-> CentsOf(f, i)]
<1>1. of \in Surjection(S, all)
  BY DEF Surjection
<1> HIDE DEF of
<1>2. IsFiniteSet(all)
  BY <1>1, FS_Surjection
<1>3. \A T \in all : IsFiniteSet(T)
  BY CentsOfOne
<1> QED
  BY <1>2, <1>3, FS_UNION DEF AllCents

LEMMA CentsWithout ==
    ASSUME NEW S, IsFiniteSet(S), NEW f, \A i \in S : f[i] \in Nat, NEW x \in S
    PROVE  Cardinality(AllCents(f, S)) = f[x] + Cardinality(AllCents(f, S \ {x}))
<1>1. IsFiniteSet(CentsOf(f, x)) /\ Cardinality(CentsOf(f, x)) = f[x]
  BY CentsOfOne
<1>2. IsFiniteSet(S \ {x})
  BY FS_RemoveElement
<1>3. IsFiniteSet(AllCents(f, S \ {x}))
  BY <1>2, CentsFinite
<1>4. AllCents(f, S) = CentsOf(f, x) \cup AllCents(f, S \ {x})
  BY DEF AllCents
<1>5. CentsOf(f, x) \cap AllCents(f, S \ {x}) = {}
  BY DEF AllCents, CentsOf
<1>6. Cardinality(CentsOf(f, x) \cup AllCents(f, S \ {x})) =
        Cardinality(CentsOf(f, x)) + Cardinality(AllCents(f, S \ {x}))
            - Cardinality(CentsOf(f, x) \cap AllCents(f, S \ {x}))
  BY <1>1, <1>3, FS_Union, Zenon
<1>7. Cardinality({}) = 0 /\ Cardinality(AllCents(f, S \ {x})) \in Nat
  BY <1>3, FS_EmptySet, FS_CardinalityType
<1>8. Cardinality(AllCents(f, S)) =
        Cardinality(CentsOf(f, x)) + Cardinality(AllCents(f, S \ {x})) - Cardinality({})
  BY <1>4, <1>5, <1>6
<1> QED
  BY <1>1, <1>7, <1>8

LEMMA CentsAreSum ==
    ASSUME NEW S, IsFiniteSet(S), NEW f, \A i \in S : f[i] \in Nat
    PROVE  IsSum([s \in SUBSET S |-> Cardinality(AllCents(f, s))], f, S)
<1> DEFINE count == [s \in SUBSET S |-> Cardinality(AllCents(f, s))]
<1>1. ASSUME NEW s \in SUBSET S
      PROVE  count[s] = IF s = {} THEN 0
                        ELSE f[CHOOSE x \in s : TRUE] + count[s \ {CHOOSE x \in s : TRUE}]
  <2>1. CASE s = {}
    <3>1. AllCents(f, s) = {}
      BY <2>1 DEF AllCents
    <3> QED
      BY <2>1, <3>1, FS_EmptySet
  <2>2. CASE s # {}
    <3> DEFINE x == CHOOSE x \in s : TRUE
    <3>1. x \in s
      BY <2>2
    <3> HIDE DEF x
    <3>2. IsFiniteSet(s) /\ \A i \in s : f[i] \in Nat
      BY FS_Subset
    <3>3. Cardinality(AllCents(f, s)) = f[x] + Cardinality(AllCents(f, s \ {x}))
      BY <3>1, <3>2, CentsWithout
    <3>4. count[s] = f[x] + count[s \ {x}]
      BY <3>3
    <3> QED
      BY <2>2, <3>4 DEF x
  <2> QED
    BY <2>1, <2>2
<1> QED
  BY <1>1, Zenon DEF IsSum

LEMMA SumIsUnique ==
    ASSUME NEW S, IsFiniteSet(S), NEW f, NEW g, NEW h, IsSum(g, f, S), IsSum(h, f, S)
    PROVE  g[S] = h[S]
<1> DEFINE differ == {s \in SUBSET S : g[s] # h[s]}
<1>1. ASSUME differ # {} PROVE FALSE
  <2>1. IsWellFoundedOn(StrictSubsetOrdering(S), SUBSET S)
    <3>1. FiniteSubsetsOf(S) = SUBSET S
      BY FS_FiniteSubsetsOfFinite, Zenon
    <3>2. IsWellFoundedOn(StrictSubsetOrdering(S), FiniteSubsetsOf(S))
      BY FS_StrictSubsetOrderingWellFounded, Zenon
    <3> QED
      BY <3>1, <3>2, Zenon
  <2>2. differ \subseteq SUBSET S
    OBVIOUS
  <2>3. PICK s \in differ : \A t \in differ : ~(<<t, s>> \in StrictSubsetOrdering(S))
    BY <1>1, <2>1, <2>2, WFMin, Zenon
  <2> DEFINE x == CHOOSE x \in s : TRUE
  <2>4. s # {}
    <3>1. s = {} => g[s] = 0 /\ h[s] = 0
      BY DEF IsSum
    <3> QED
      BY <2>3, <3>1
  <2>5. x \in s
    BY <2>4
  <2>6. g[s] = f[x] + g[s \ {x}] /\ h[s] = f[x] + h[s \ {x}]
    BY <2>4, Zenon DEF IsSum
  <2>7. <<s \ {x}, s>> \in StrictSubsetOrdering(S)
    <3>1. s \ {x} \in SUBSET S /\ s \ {x} \subseteq s /\ s \ {x} # s
      BY <2>5
    <3> QED
      BY <3>1 DEF StrictSubsetOrdering
  <2>8. s \ {x} \in SUBSET S /\ s \ {x} \notin differ
    BY <2>3, <2>7
  <2> QED
    BY <2>3, <2>6, <2>8
<1> QED
  BY <1>1

LEMMA SumCountsCents ==
    ASSUME NEW S, IsFiniteSet(S), NEW f, \A i \in S : f[i] \in Nat
    PROVE  SumOf(f, S) = Cardinality(AllCents(f, S))
<1> DEFINE count == [s \in SUBSET S |-> Cardinality(AllCents(f, s))]
           sum == CHOOSE g : IsSum(g, f, S)
<1>1. SumOf(f, S) = sum[S]
  BY DEF SumOf, MapThenSumSet, MapThenFoldSet, IsSum
<1>2. IsSum(count, f, S)
  BY CentsAreSum
<1>3. IsSum(sum, f, S)
  BY <1>2, Zenon
<1> HIDE DEF sum, count
<1>4. sum[S] = count[S]
  BY <1>2, <1>3, SumIsUnique
<1> QED
  BY <1>1, <1>4 DEF count

-----------------------------------------------------------------------------
(* Rates. *)

LEMMA Quotient ==
    ASSUME NEW a \in Nat, NEW b \in Nat, b > 0
    PROVE  a \div b \in Nat /\ b * (a \div b) <= a /\ \A n \in Nat : b * n <= a => n <= a \div b
OBVIOUS

LEMMA RateFalls ==
    ASSUME NEW part \in Nat, NEW few \in Nat, NEW many \in Nat, part <= few, few <= many
    PROVE  Rate(part, many) <= Rate(part, few)
<1>1. CASE few = 0
  <2>1. part = 0 /\ Rate(part, few) = 0
    BY <1>1 DEF Rate
  <2>2. CASE many = 0
    BY <2>1, <2>2 DEF Rate
  <2>3. CASE many > 0
    <3>1. many \div (2 * many) = 0
      BY <2>3
    <3> QED
      BY <2>1, <2>3, <3>1 DEF Rate
  <2> QED
    BY <2>2, <2>3
<1>2. CASE few > 0
  <2> DEFINE n == (20000 * part + many) \div (2 * many)
  <2>1. n \in Nat /\ (2 * many) * n <= 20000 * part + many
    BY <1>2, Quotient
  <2> HIDE DEF n
  <2>2. (2 * few) * n <= 20000 * part + few
    <3>1. CASE n = 0
      BY <3>1
    <3>2. CASE n > 0
      <4>1. PICK k \in Nat : k = 2 * n - 1
        BY <2>1, <3>2
      <4>2. few * k <= many * k
        BY <4>1
      <4>3. many * k = (2 * many) * n - many /\ few * k = (2 * few) * n - few
        BY <4>1, <2>1
      <4> QED
        BY <2>1, <4>2, <4>3
    <3> QED
      BY <2>1, <3>1, <3>2
  <2>3. n <= (20000 * part + few) \div (2 * few)
    BY <1>2, <2>1, <2>2, Quotient
  <2> QED
    BY <1>2, <2>3 DEF Rate, n
<1> QED
  BY <1>1, <1>2

-----------------------------------------------------------------------------
(* Overviews.  A refund is only begun for a payment that is a success, and *)
(* no writer of the status makes it anything else.                         *)

RefundsAreOfSuccesses ==
    /\ \A q \in Requests : Active(q) => IntentOf[q] \in Successful(Intents)
    /\ \A i \in Intents : refunded[i] > 0 => i \in Successful(Intents)

LEMMA SuccessesInit == Init => RefundsAreOfSuccesses
BY DEF Init, StoreInit, RefundInit, RefundsAreOfSuccesses, Active

LEMMA SuccessesRefund ==
    ASSUME TypeOK, RefundsAreOfSuccesses, Successful(Intents) \subseteq Successful(Intents)',
           NEW q \in Requests, RefundStep(q)
    PROVE  RefundsAreOfSuccesses'
<1>1. /\ refundPc \in [Requests -> RefundSteps] /\ refunded \in [Intents -> Nat]
      /\ IntentOf[q] \in Intents
  BY RefundNats DEF TypeOK, RefundTypeOK
<1>2. \A p \in Requests \ {q} : refundPc'[p] = refundPc[p]
  BY <1>1 DEF RefundStep, ProcessRefund, ReadIntent, GatewayRefunds, GatewayRefundFails, RecordRefund,
              RecordFails, DispatchRefunded, DispatchRefundedFails, RefundCrash, RefundGoto
<1>3. CASE ReadIntent(q)
  <2>1. Active(q)' => IntentOf[q] \in Successful(Intents)
    BY <1>1, <1>3 DEF ReadIntent, RefundGoto, Active, Eligible, Successful
  <2>2. UNCHANGED refunded
    BY <1>3 DEF ReadIntent
  <2> QED
    BY <1>2, <2>1, <2>2 DEF RefundsAreOfSuccesses, Active
<1>4. CASE ~ReadIntent(q)
  <2>1. Active(q)
    BY <1>4 DEF RefundStep, ProcessRefund, GatewayRefunds, GatewayRefundFails, RecordRefund,
                RecordFails, DispatchRefunded, DispatchRefundedFails, RefundCrash, Active
  <2>2. \A i \in Intents : i # IntentOf[q] => refunded'[i] = refunded[i]
    BY <1>1, <1>4
       DEF RefundStep, ProcessRefund, GatewayRefunds, GatewayRefundFails, RecordRefund,
           RecordFails, DispatchRefunded, DispatchRefundedFails, RefundCrash
  <2> QED
    BY <1>2, <2>1, <2>2 DEF RefundsAreOfSuccesses, Active
<1> QED
  BY <1>3, <1>4

ReportInv == FitInv /\ RefundsAreOfSuccesses

LEMMA ReportInvStep ==
    ASSUME Truthful, TypeOK, GatewayInv, ReportInv, [Next]_vars
    PROVE  ReportInv'
<1>1. Successful(Intents) \subseteq Successful(Intents)'
  BY GatewayInvStep
<1>2. CASE \E q \in Requests : RefundStep(q)
  BY <1>1, <1>2, FitStep, SuccessesRefund DEF ReportInv, TypeOK
<1>3. CASE RefundViewKept
  <2>1. UNCHANGED <<refunded, refundPc, seen, asked>>
    BY <1>3 DEF RefundViewKept, refundVars
  <2>2. FitInv'
    BY <2>1 DEF ReportInv, FitInv, SerialInv, PatientSerial, SeenIsNow, AskedFits, BookedFits, Active
  <2>3. RefundsAreOfSuccesses'
    BY <1>1, <2>1 DEF ReportInv, RefundsAreOfSuccesses, Active
  <2> QED
    BY <2>2, <2>3 DEF ReportInv
<1> QED
  BY <1>2, <1>3, OthersKeepRefunds

LEMMA ReturnedWithinTaken ==
    ASSUME IsFiniteSet(Patient), TypeOK, ReportInv, NEW S \in SUBSET Patient
    PROVE  GetOverview(S).refundAmount <= GetOverview(S).volume
<1>1. S \subseteq Intents /\ Successful(S) \subseteq S
  BY RefundAssumption DEF Successful
<1>2. IsFiniteSet(S)
  BY FS_Subset
<1>3. IsFiniteSet(Successful(S))
  BY <1>1, <1>2, FS_Subset
<1>4. /\ \A i \in S : refunded[i] \in Nat
      /\ \A i \in Successful(S) : Amount[i] \in Nat
  BY <1>1, StoreAssumption DEF TypeOK, RefundTypeOK, StoreTypeOK
<1>5. GetOverview(S).refundAmount = Cardinality(AllCents(refunded, S))
  <2>1. GetOverview(S).refundAmount = SumOf(refunded, S)
    BY DEF GetOverview, SumOf, MapThenSumSet, MapThenFoldSet
  <2> QED
    BY <1>2, <1>4, <2>1, SumCountsCents
<1>6. GetOverview(S).volume = Cardinality(AllCents(Amount, Successful(S)))
  <2>1. GetOverview(S).volume = SumOf(Amount, Successful(S))
    BY DEF GetOverview, Volume, SumOf, MapThenSumSet, MapThenFoldSet
  <2> QED
    BY <1>3, <1>4, <2>1, SumCountsCents
<1>7. AllCents(refunded, S) \subseteq AllCents(Amount, Successful(S))
  <2> SUFFICES ASSUME NEW i \in S, NEW c \in 1..refunded[i]
               PROVE  i \in Successful(S) /\ c \in 1..Amount[i]
    BY DEF AllCents, CentsOf
  <2>1. refunded[i] > 0 /\ refunded[i] <= Amount[i]
    BY <1>4 DEF ReportInv, FitInv, BookedFits
  <2>2. i \in Successful(S)
    BY <1>1, <2>1 DEF ReportInv, RefundsAreOfSuccesses, Successful
  <2> QED
    BY <1>4, <2>1, <2>2
<1>8. IsFiniteSet(AllCents(Amount, Successful(S)))
  BY <1>3, <1>4, CentsFinite
<1> QED
  BY <1>5, <1>6, <1>7, <1>8, FS_Subset

LEMMA EveryPaymentCounted ==
    ASSUME IsFiniteSet(Patient), TypeOK, NEW S \in SUBSET Patient
    PROVE  /\ Cardinality(Successful(S)) \in Nat
           /\ Cardinality(Failed(S)) \in Nat
           /\ Cardinality(Pending(S)) \in Nat
           /\ Cardinality(S) = Cardinality(Successful(S)) + Cardinality(Failed(S))
                                 + Cardinality(Pending(S))
<1> DEFINE Closed == Successful(S) \cup Failed(S)
<1>1. IsFiniteSet(S)
  BY FS_Subset
<1>2. IsFiniteSet(Successful(S)) /\ IsFiniteSet(Failed(S)) /\ IsFiniteSet(Pending(S))
  <2>1. Successful(S) \in SUBSET S /\ Failed(S) \in SUBSET S /\ Pending(S) \in SUBSET S
    BY DEF Successful, Failed, Pending
  <2> QED
    BY <1>1, <2>1, FS_Subset
<1>3. /\ Cardinality(Successful(S)) \in Nat /\ Cardinality(Failed(S)) \in Nat
      /\ Cardinality(Pending(S)) \in Nat
  BY <1>2, FS_CardinalityType
<1>4. Cardinality({}) = 0
  BY FS_EmptySet
<1>5. Successful(S) \cap Failed(S) = {} /\ Closed \cap Pending(S) = {}
  BY DEF Successful, Failed, Pending
<1>6. S = Closed \cup Pending(S)
  BY RefundAssumption DEF Successful, Failed, Pending, TypeOK, RefundTypeOK, StoreTypeOK, Statuses
<1>7. /\ IsFiniteSet(Closed)
      /\ Cardinality(Closed) = Cardinality(Successful(S)) + Cardinality(Failed(S))
                                    - Cardinality(Successful(S) \cap Failed(S))
  BY <1>2, FS_Union, Zenon
<1> HIDE DEF Closed
<1>8. Cardinality(Closed \cup Pending(S)) = Cardinality(Closed) + Cardinality(Pending(S))
                                                - Cardinality(Closed \cap Pending(S))
  BY <1>2, <1>7, FS_Union, Zenon
<1>9. Cardinality(S) = Cardinality(Closed) + Cardinality(Pending(S)) - Cardinality({})
  BY <1>5, <1>6, <1>8
<1>10. Cardinality(Closed) = Cardinality(Successful(S)) + Cardinality(Failed(S)) - Cardinality({})
  BY <1>5, <1>7
<1> QED
  BY <1>3, <1>4, <1>9, <1>10

(* An overview of payments that are refunded one by one adds up, whatever  *)
(* the query selects: never more returned than taken, every payment        *)
(* counted once, and no conversion above the success rate.                 *)
THEOREM OverviewsAddUp ==
    ASSUME Truthful, IsFiniteSet(Patient)
    PROVE  Spec => []OverviewAddsUp
<1>1. Init => ReportInv
  BY InitRefunds, FitInit, SuccessesInit DEF ReportInv
<1>2. TypeOK /\ GatewayInv /\ ReportInv /\ [Next]_vars => ReportInv'
  BY ReportInvStep
<1>3. TypeOK /\ ReportInv => OverviewAddsUp
  <2> SUFFICES ASSUME TypeOK, ReportInv, NEW S \in SUBSET Patient
               PROVE  /\ GetOverview(S).refundAmount <= GetOverview(S).volume
                      /\ GetOverview(S).total = GetOverview(S).successful
                            + GetOverview(S).failed + GetOverview(S).pending
                      /\ GetOverview(S).conversionRate <= GetOverview(S).successRate
    BY DEF OverviewAddsUp
  <2>1. GetOverview(S).refundAmount <= GetOverview(S).volume
    BY ReturnedWithinTaken
  <2>2. GetOverview(S).total = GetOverview(S).successful
            + GetOverview(S).failed + GetOverview(S).pending
    BY EveryPaymentCounted DEF GetOverview
  <2>3. Rate(Cardinality(Successful(S)), Cardinality(S))
          <= Rate(Cardinality(Successful(S)), Cardinality(Successful(S)) + Cardinality(Failed(S)))
    BY EveryPaymentCounted, RateFalls
  <2>4. GetOverview(S).conversionRate <= GetOverview(S).successRate
    BY <2>3 DEF GetOverview, SuccessRate
  <2> QED
    BY <2>1, <2>2, <2>4
<1> QED
  BY <1>1, <1>2, <1>3, TypeCorrect, GatewayInvariant, PTL DEF Spec

=============================================================================
