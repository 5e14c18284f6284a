---------------------------- MODULE RefundProofs ----------------------------
(***************************************************************************)
(* Proofs about processRefund for every set of intents and of requests and *)
(* every amount, with any number of requests for one intent under way:     *)
(* what the rows say of the money the gateway has returned.  The lemmas    *)
(* about one step of a request serve the compositions as well, in which    *)
(* other writers act between two steps.                                    *)
(***************************************************************************)
EXTENDS Refunds, FiniteSetTheorems, TLAPS

LEMMA FaultType ==
    ASSUME NEW kind, StoreTypeOK, Fault(kind)
    PROVE  /\ faults' \in 0 .. MaxFaults /\ kind \in FaultKinds
           /\ faults' = faults + 1 /\ faults \in Nat
BY StoreAssumption DEF Fault, StoreTypeOK

-----------------------------------------------------------------------------
(* Types. *)

LEMMA RequestedIsNat ==
    ASSUME StoreTypeOK, NEW q \in Requests
    PROVE  /\ IntentOf[q] \in Intents
           /\ Remaining(IntentOf[q]) \in Nat
           /\ RequestedAmount(q) \in Nat
           /\ RequestedAmount(q) > 0 /\ RequestedAmount(q) <= Remaining(IntentOf[q])
                => refunded[IntentOf[q]] + RequestedAmount(q) <= Amount[IntentOf[q]]
<1>1. IntentOf[q] \in Intents /\ Wanted[q] \in Nat \cup {WholeRest}
  BY RefundAssumption
<1>2. refunded[IntentOf[q]] \in Nat /\ Amount[IntentOf[q]] \in Nat
  BY <1>1, StoreAssumption DEF StoreTypeOK
<1>3. Remaining(IntentOf[q]) \in Nat
  BY <1>2 DEF Remaining
<1>4. RequestedAmount(q) \in Nat
  BY <1>1, <1>3 DEF RequestedAmount
<1> QED
  BY <1>1, <1>2, <1>3, <1>4 DEF Remaining

LEMMA ReadIntentTypes ==
    ASSUME RefundTypeOK, NEW q \in Requests, ReadIntent(q)
    PROVE  RefundTypeOK'
<1>1. /\ refunded[IntentOf[q]] \in Nat
      /\ RequestedAmount(q) \in Nat
  BY RefundAssumption, RequestedIsNat DEF RefundTypeOK, StoreTypeOK
<1>2. \/ seen' = seen /\ asked' = asked
      \/ /\ seen' = [seen EXCEPT ![q] = refunded[IntentOf[q]]]
         /\ asked' = [asked EXCEPT ![q] = RequestedAmount(q)]
  BY DEF ReadIntent
<1>3. seen' \in [Requests -> Nat] /\ asked' \in [Requests -> Nat]
  BY <1>1, <1>2 DEF RefundTypeOK
<1>4. \E step \in {"calling", "refused", "failed"} : RefundGoto(q, step)
  BY DEF ReadIntent
<1>5. refundPc' \in [Requests -> RefundSteps]
  BY <1>4 DEF RefundGoto, RefundTypeOK, RefundSteps
<1>6. faults' = faults \/ Fault("db")
  BY DEF ReadIntent
<1>7. faults' \in 0 .. MaxFaults
  BY <1>6, FaultType DEF RefundTypeOK, StoreTypeOK
<1>8. UNCHANGED <<status, refunded, queued, settled, paidBack, outcome>>
  BY DEF ReadIntent
<1> QED
  BY <1>3, <1>5, <1>7, <1>8 DEF RefundTypeOK, StoreTypeOK

LEMMA RefundTypeStep ==
    ASSUME RefundTypeOK, NEW q \in Requests, RefundStep(q)
    PROVE  RefundTypeOK'
<1> USE RefundAssumption, FaultType, RequestedIsNat
    DEF RefundTypeOK, StoreTypeOK, RefundSteps, RefundGoto, Statuses, OutboundEvents, UpdateStatus,
        Enqueue
<1>1. CASE ReadIntent(q)
  BY <1>1, ReadIntentTypes
<1>2. CASE GatewayRefunds(q)
  BY <1>2 DEF GatewayRefunds
<1>3. CASE GatewayRefundFails(q)
  <2>1. paidBack' \in [Intents -> Nat]
    BY <1>3 DEF GatewayRefundFails
  <2>2. refundPc' \in [Requests -> RefundSteps]
    BY <1>3 DEF GatewayRefundFails
  <2>3. faults' \in 0 .. MaxFaults
    BY <1>3 DEF GatewayRefundFails
  <2> QED
    BY <1>3, <2>1, <2>2, <2>3 DEF GatewayRefundFails
<1>4. CASE RecordRefund(q)
  <2>1. status' = status \/ status' = [status EXCEPT ![IntentOf[q]] = "REFUNDED"]
    BY <1>4 DEF RecordRefund
  <2>2. refunded' \in [Intents -> Nat]
    BY <1>4 DEF RecordRefund
  <2>3. refundPc' \in [Requests -> RefundSteps]
    BY <1>4 DEF RecordRefund
  <2>4. status' \in [Intents -> Statuses]
    BY <2>1
  <2> QED
    BY <1>4, <2>2, <2>3, <2>4 DEF RecordRefund
<1>5. CASE RecordFails(q)
  BY <1>5 DEF RecordFails
<1>6. CASE DispatchRefunded(q)
  BY <1>6 DEF DispatchRefunded
<1>7. CASE DispatchRefundedFails(q)
  BY <1>7 DEF DispatchRefundedFails
<1>8. CASE RefundCrash(q)
  BY <1>8 DEF RefundCrash, Active
<1> QED
  BY <1>1, <1>2, <1>3, <1>4, <1>5, <1>6, <1>7, <1>8 DEF RefundStep, ProcessRefund

LEMMA RefundTypeInit == RefundsInit => RefundTypeOK
BY StoreAssumption
   DEF RefundsInit, StoreInit, RefundInit, RefundTypeOK, StoreTypeOK, RefundSteps

(* The types of the rows and of the requests are kept. *)
THEOREM RefundTypesCorrect == RefundSpec => []RefundTypeOK
<1>1. RefundTypeOK /\ UNCHANGED <<store, refundVars>> => RefundTypeOK'
  BY DEF RefundTypeOK, StoreTypeOK, store, refundVars
<1>2. RefundTypeOK /\ [RefundNext]_<<store, refundVars>> => RefundTypeOK'
  BY <1>1, RefundTypeStep DEF RefundNext
<1> QED
  BY RefundTypeInit, <1>2, PTL DEF RefundSpec

(* The refund arithmetic is over naturals. *)
LEMMA RefundNats ==
    ASSUME RefundTypeOK, NEW q \in Requests
    PROVE  /\ IntentOf[q] \in Intents
           /\ \A i \in Intents : Amount[i] \in Nat /\ refunded[i] \in Nat /\ paidBack[i] \in Nat
           /\ \A p \in Requests : asked[p] \in Nat
           /\ refunded \in [Intents -> Nat]
           /\ paidBack \in [Intents -> Nat]
           /\ asked \in [Requests -> Nat]
           /\ refundPc \in [Requests -> RefundSteps]
           /\ outcome \in [Requests -> {"none", "SUCCEEDED", "PENDING", "FAILED"}]
BY RefundAssumption, StoreAssumption DEF RefundTypeOK, StoreTypeOK

-----------------------------------------------------------------------------
(* A refund that is under way has seen no more than what is recorded now:  *)
(* the sum of the refund rows only grows.  Hence "fully refunded", decided *)
(* on an old sum, is still true when it is written.                        *)

SeenIsPast == \A q \in Requests : Active(q) => seen[q] <= refunded[IntentOf[q]]

MarkInv == SeenIsPast /\ RefundedIsPaidInFull

LEMMA MarkInvInit == RefundsInit => MarkInv
BY DEF RefundsInit, StoreInit, RefundInit, MarkInv, SeenIsPast, RefundedIsPaidInFull, Active

LEMMA MarkInvRefund ==
    ASSUME RefundTypeOK, MarkInv, NEW q \in Requests, RefundStep(q)
    PROVE  MarkInv'
<1> USE RefundAssumption DEF RefundTypeOK, StoreTypeOK, MarkInv, SeenIsPast,
        RefundedIsPaidInFull, Active, RefundGoto
<1>1. CASE ReadIntent(q)
  BY <1>1 DEF ReadIntent
<1>2. CASE GatewayRefunds(q)
  BY <1>2 DEF GatewayRefunds
<1>3. CASE RecordRefund(q)
  <2>1. seen[q] \in Nat /\ asked[q] \in Nat /\ seen[q] <= refunded[IntentOf[q]]
    BY <1>3 DEF RecordRefund
  <2>2. \A i \in Intents :
          /\ refunded'[i] \in Nat /\ refunded'[i] >= refunded[i]
          /\ i = IntentOf[q] /\ outcome[q] = "SUCCEEDED" => refunded'[i] = refunded[i] + asked[q]
    BY <1>3 DEF RecordRefund
  <2>3. SeenIsPast'
    BY <1>3, <2>2 DEF RecordRefund
  <2>4. \/ UNCHANGED status
        \/ /\ IsFullyRefunded(q) /\ outcome[q] = "SUCCEEDED"
           /\ status' = [status EXCEPT ![IntentOf[q]] = "REFUNDED"]
    BY <1>3 DEF RecordRefund, UpdateStatus
  <2>5. ASSUME NEW i \in Intents, status'[i] = "REFUNDED", InitialStatus[i] # "REFUNDED"
        PROVE  refunded'[i] >= Amount[i]
    <3>1. Amount[i] \in Nat /\ refunded[i] \in Nat /\ refunded'[i] \in Nat
      BY <2>2, StoreAssumption
    <3>2. CASE status[i] = "REFUNDED"
      BY <2>2, <2>5, <3>1, <3>2
    <3>3. CASE status[i] # "REFUNDED"
      <4>1. i = IntentOf[q] /\ IsFullyRefunded(q) /\ outcome[q] = "SUCCEEDED"
        BY <2>4, <2>5, <3>3
      <4>2. seen[q] + asked[q] >= Amount[i]
        BY <4>1 DEF IsFullyRefunded
      <4> QED
        BY <2>1, <2>2, <3>1, <4>1, <4>2
    <3> QED
      BY <3>2, <3>3
  <2> QED
    BY <2>3, <2>5
<1>4. CASE RecordFails(q)
  BY <1>4 DEF RecordFails
<1>5. CASE DispatchRefunded(q)
  BY <1>5 DEF DispatchRefunded
<1>6. CASE DispatchRefundedFails(q)
  BY <1>6 DEF DispatchRefundedFails
<1>7. CASE RefundCrash(q)
  BY <1>7 DEF RefundCrash
<1>8. CASE GatewayRefundFails(q)
  BY <1>8 DEF GatewayRefundFails
<1> QED
  BY <1>1, <1>2, <1>3, <1>4, <1>5, <1>6, <1>7, <1>8 DEF RefundStep, ProcessRefund

-----------------------------------------------------------------------------
(* The books and the gateway.  The refunds of an intent that the gateway   *)
(* has paid and no row accounts for yet are added up as the cardinality of *)
(* a set with one element for each cent.                                   *)

Unrecorded(q) == refundPc[q] = "recording" /\ outcome[q] = "SUCCEEDED"

Cents(q, n) == {q} \X (1 .. n)

Owed(i) == {u \in Requests \X Nat :
                Unrecorded(u[1]) /\ IntentOf[u[1]] = i /\ u[2] \in 1 .. asked[u[1]]}

NothingFailed == faults = 0 /\ \A q \in Requests : outcome[q] # "PENDING"

Balanced ==
    \A i \in Intents :
        /\ IsFiniteSet(Owed(i))
        /\ refunded[i] + Cardinality(Owed(i)) <= paidBack[i]
        /\ NothingFailed => refunded[i] + Cardinality(Owed(i)) = paidBack[i]

OpenHasNoOutcome == \A q \in Requests : refundPc[q] \in {"idle", "calling"} => outcome[q] = "none"

LedgerInv == Balanced /\ OpenHasNoOutcome

LEMMA CentsCount ==
    ASSUME NEW q, NEW n \in Nat
    PROVE  IsFiniteSet(Cents(q, n)) /\ Cardinality(Cents(q, n)) = n
<1>1. IsFiniteSet({q}) /\ Cardinality({q}) = 1
  BY FS_Singleton
<1>2. IsFiniteSet(1 .. n) /\ Cardinality(1 .. n) = n
  BY FS_Interval
<1>3. /\ IsFiniteSet({q} \X (1 .. n))
      /\ Cardinality({q} \X (1 .. n)) = Cardinality({q}) * Cardinality(1 .. n)
  BY <1>1, <1>2, FS_Product, Zenon
<1> QED
  BY <1>1, <1>2, <1>3 DEF Cents

LEMMA LedgerInit == RefundsInit => LedgerInv
<1> SUFFICES ASSUME RefundsInit PROVE LedgerInv
  OBVIOUS
<1>1. ASSUME NEW i \in Intents
      PROVE  /\ IsFiniteSet(Owed(i))
             /\ refunded[i] + Cardinality(Owed(i)) = paidBack[i]
             /\ paidBack[i] <= paidBack[i]
  <2>1. refunded[i] = 0 /\ paidBack[i] = 0 /\ Owed(i) = {}
    BY DEF RefundsInit, StoreInit, RefundInit, Owed, Unrecorded
  <2>2. IsFiniteSet(Owed(i)) /\ Cardinality(Owed(i)) = 0
    BY <2>1, FS_EmptySet
  <2> QED
    BY <2>1, <2>2
<1>2. Balanced
  BY <1>1, Zenon DEF Balanced
<1>3. OpenHasNoOutcome
  BY DEF RefundsInit, RefundInit, OpenHasNoOutcome
<1> QED
  BY <1>2, <1>3 DEF LedgerInv

(* What has failed stays failed. *)
LEMMA FailuresStay ==
    ASSUME RefundTypeOK, OpenHasNoOutcome, NEW q \in Requests, RefundStep(q), NothingFailed'
    PROVE  NothingFailed /\ faults' = faults
<1>1. faults' = faults
  <2>1. faults' = faults \/ \E kind \in Faults : Fault(kind)
    BY DEF RefundStep, ProcessRefund, ReadIntent, GatewayRefunds, GatewayRefundFails, RecordRefund,
           RecordFails, DispatchRefunded, DispatchRefundedFails, RefundCrash, Faults
  <2>2. ASSUME NEW kind \in Faults, Fault(kind) PROVE FALSE
    <3>1. faults' = faults + 1 /\ faults \in Nat
      BY <2>2, FaultType DEF RefundTypeOK
    <3> QED
      BY <3>1 DEF NothingFailed
  <2> QED
    BY <2>1, <2>2
<1>2. ASSUME NEW p \in Requests, outcome[p] = "PENDING" PROVE outcome'[p] = "PENDING"
  BY <1>2
     DEF RefundStep, ProcessRefund, ReadIntent, GatewayRefunds, GatewayRefundFails, RecordRefund,
         RecordFails, DispatchRefunded, DispatchRefundedFails, RefundCrash, OpenHasNoOutcome,
         RefundTypeOK
<1> QED
  BY <1>1, <1>2 DEF NothingFailed

LEMMA OpenStep ==
    ASSUME RefundTypeOK, OpenHasNoOutcome, NEW q \in Requests, RefundStep(q)
    PROVE  OpenHasNoOutcome'
BY DEF RefundStep, ProcessRefund, ReadIntent, GatewayRefunds, GatewayRefundFails, RecordRefund,
       RecordFails, DispatchRefunded, DispatchRefundedFails, RefundCrash, OpenHasNoOutcome,
       RefundGoto, RefundTypeOK

(* A refund enters what is owed to the books, or leaves it, with all its   *)
(* cents.                                                                  *)
LEMMA OwedGrows ==
    ASSUME RefundTypeOK, RefundTypeOK', NEW q \in Requests, ~Unrecorded(q), Unrecorded(q)',
           \A p \in Requests \ {q} : Unrecorded(p)' <=> Unrecorded(p),
           asked' = asked, NEW i \in Intents, IsFiniteSet(Owed(i))
    PROVE  /\ IsFiniteSet(Owed(i)')
           /\ Cardinality(Owed(i)') = Cardinality(Owed(i)) + (IF i = IntentOf[q] THEN asked[q] ELSE 0)
<1>1. asked[q] \in Nat
  BY DEF RefundTypeOK
<1>2. CASE i = IntentOf[q]
  <2>1. Owed(i)' = Owed(i) \cup Cents(q, asked[q])
    BY <1>2, <1>1 DEF Owed, Cents
  <2>2. Owed(i) \cap Cents(q, asked[q]) = {}
    BY DEF Owed, Cents
  <2>3. IsFiniteSet(Cents(q, asked[q])) /\ Cardinality(Cents(q, asked[q])) = asked[q]
    BY <1>1, CentsCount
  <2>4. /\ IsFiniteSet(Owed(i)')
        /\ Cardinality(Owed(i)') = Cardinality(Owed(i)) + asked[q] - Cardinality({})
    BY <2>1, <2>2, <2>3, FS_Union
  <2>5. Cardinality(Owed(i)) \in Nat /\ Cardinality({}) = 0
    BY FS_EmptySet, FS_CardinalityType
  <2> QED
    BY <1>1, <1>2, <2>4, <2>5
<1>3. CASE i # IntentOf[q]
  <2>1. Owed(i)' = Owed(i)
    BY <1>3 DEF Owed
  <2> QED
    BY <1>3, <2>1, FS_CardinalityType
<1> QED
  BY <1>2, <1>3

LEMMA OwedShrinks ==
    ASSUME RefundTypeOK, NEW q \in Requests, ~Unrecorded(q)',
           \A p \in Requests \ {q} : Unrecorded(p)' <=> Unrecorded(p),
           asked' = asked, NEW i \in Intents, IsFiniteSet(Owed(i))
    PROVE  /\ IsFiniteSet(Owed(i)')
           /\ Cardinality(Owed(i)') =
                Cardinality(Owed(i)) - (IF Unrecorded(q) /\ i = IntentOf[q] THEN asked[q] ELSE 0)
<1>1. asked[q] \in Nat
  BY DEF RefundTypeOK
<1>2. CASE Unrecorded(q) /\ i = IntentOf[q]
  <2>1. Owed(i)' = Owed(i) \ Cents(q, asked[q])
    BY <1>2, <1>1 DEF Owed, Cents
  <2>2. Owed(i) \cap Cents(q, asked[q]) = Cents(q, asked[q])
    BY <1>2, <1>1 DEF Owed, Cents
  <2>3. Cardinality(Cents(q, asked[q])) = asked[q]
    BY <1>1, CentsCount
  <2>4. /\ IsFiniteSet(Owed(i)')
        /\ Cardinality(Owed(i)') = Cardinality(Owed(i)) - asked[q]
    BY <2>1, <2>2, <2>3, FS_Difference
  <2> QED
    BY <1>2, <2>4
<1>3. CASE ~(Unrecorded(q) /\ i = IntentOf[q])
  <2>1. Owed(i)' = Owed(i)
    BY <1>3 DEF Owed
  <2> QED
    BY <1>3, <2>1, FS_CardinalityType
<1> QED
  BY <1>2, <1>3

LEMMA OwedKept ==
    ASSUME \A p \in Requests : Unrecorded(p)' <=> Unrecorded(p),
           \A p \in Requests : Unrecorded(p) => asked'[p] = asked[p]
    PROVE  \A i \in Intents : Owed(i)' = Owed(i)
BY DEF Owed

(* A step that neither pays, records nor forgets a refund.                 *)
LEMMA NothingOwedAnew ==
    ASSUME RefundTypeOK, LedgerInv, UNCHANGED refunded,
           \A i \in Intents : paidBack'[i] \in Nat /\ paidBack'[i] >= paidBack[i],
           NothingFailed' => NothingFailed /\ UNCHANGED paidBack,
           \A p \in Requests : Unrecorded(p)' <=> Unrecorded(p),
           \A p \in Requests : Unrecorded(p) => asked'[p] = asked[p]
    PROVE  Balanced'
<1> SUFFICES ASSUME NEW i \in Intents
             PROVE  /\ IsFiniteSet(Owed(i)')
                    /\ refunded[i] + Cardinality(Owed(i)') <= paidBack'[i]
                    /\ NothingFailed' => refunded[i] + Cardinality(Owed(i)') = paidBack'[i]
  BY DEF Balanced
<1>1. Owed(i)' = Owed(i)
  BY OwedKept
<1>2. /\ IsFiniteSet(Owed(i)) /\ refunded[i] \in Nat /\ paidBack[i] \in Nat
      /\ refunded[i] + Cardinality(Owed(i)) <= paidBack[i]
      /\ NothingFailed => refunded[i] + Cardinality(Owed(i)) = paidBack[i]
  BY DEF LedgerInv, Balanced, RefundTypeOK, StoreTypeOK
<1>3. Cardinality(Owed(i)) \in Nat
  BY <1>2, FS_CardinalityType
<1> QED
  BY <1>1, <1>2, <1>3

(* The gateway's answer: what it has paid is owed to the books.            *)
LEMMA LedgerGateway ==
    ASSUME RefundTypeOK, RefundTypeOK', LedgerInv, NEW q \in Requests, GatewayRefunds(q)
    PROVE  Balanced'
<1>1. /\ refundPc[q] = "calling" /\ refundPc' = [refundPc EXCEPT ![q] = "recording"]
      /\ UNCHANGED <<refunded, asked, faults>>
      /\ IntentOf[q] \in Intents /\ asked[q] \in Nat
  BY RefundNats DEF GatewayRefunds, RefundGoto
<1>2. PICK o \in RefundOutcomes :
        /\ outcome' = [outcome EXCEPT ![q] = o]
        /\ paidBack' = IF o = "FAILED" THEN paidBack
                       ELSE [paidBack EXCEPT ![IntentOf[q]] = @ + asked[q]]
  BY DEF GatewayRefunds
<1>3. /\ ~Unrecorded(q)
      /\ Unrecorded(q)' <=> o = "SUCCEEDED"
      /\ \A p \in Requests \ {q} : Unrecorded(p)' <=> Unrecorded(p)
  BY <1>1, <1>2 DEF Unrecorded, RefundTypeOK
<1>4. NothingFailed' => NothingFailed /\ o # "PENDING"
  BY <1>1, <1>2, FailuresStay DEF NothingFailed, RefundStep, ProcessRefund, LedgerInv, RefundTypeOK
<1>5. CASE o # "SUCCEEDED"
  <2>1. \A i \in Intents : paidBack'[i] \in Nat /\ paidBack'[i] >= paidBack[i]
    BY <1>1, <1>2 DEF RefundTypeOK, StoreTypeOK
  <2>2. NothingFailed' => UNCHANGED paidBack
    BY <1>2, <1>4, <1>5, RefundAssumption
  <2> QED
    BY <1>1, <1>3, <1>4, <1>5, <2>1, <2>2, NothingOwedAnew
<1>6. CASE o = "SUCCEEDED"
  <2> SUFFICES ASSUME NEW i \in Intents
               PROVE  /\ IsFiniteSet(Owed(i)')
                      /\ refunded[i] + Cardinality(Owed(i)') <= paidBack'[i]
                      /\ NothingFailed' => refunded[i] + Cardinality(Owed(i)') = paidBack'[i]
    BY <1>1 DEF Balanced
  <2>1. /\ IsFiniteSet(Owed(i)) /\ refunded[i] \in Nat /\ paidBack[i] \in Nat
        /\ refunded[i] + Cardinality(Owed(i)) <= paidBack[i]
        /\ NothingFailed => refunded[i] + Cardinality(Owed(i)) = paidBack[i]
    BY DEF LedgerInv, Balanced, RefundTypeOK, StoreTypeOK
  <2>2. Cardinality(Owed(i)) \in Nat
    BY <2>1, FS_CardinalityType
  <2>3. /\ IsFiniteSet(Owed(i)')
        /\ Cardinality(Owed(i)') = Cardinality(Owed(i)) + (IF i = IntentOf[q] THEN asked[q] ELSE 0)
    BY <1>1, <1>3, <1>6, <2>1, OwedGrows
  <2>4. paidBack'[i] = paidBack[i] + (IF i = IntentOf[q] THEN asked[q] ELSE 0)
    BY <1>2, <1>6 DEF RefundTypeOK, StoreTypeOK
  <2> QED
    BY <1>1, <1>4, <2>1, <2>2, <2>3, <2>4
<1> QED
  BY <1>5, <1>6

(* The transaction settles what is owed for its refund.                    *)
LEMMA LedgerRecord ==
    ASSUME RefundTypeOK, LedgerInv, NEW q \in Requests, RecordRefund(q)
    PROVE  Balanced'
<1>1. /\ refundPc[q] = "recording" /\ refundPc' = [refundPc EXCEPT ![q] = "dispatching"]
      /\ UNCHANGED <<paidBack, asked, outcome, faults>>
      /\ IntentOf[q] \in Intents /\ asked[q] \in Nat
      /\ refunded' = IF outcome[q] = "SUCCEEDED"
                     THEN [refunded EXCEPT ![IntentOf[q]] = @ + asked[q]]
                     ELSE refunded
  BY RefundNats DEF RecordRefund, RefundGoto
<1>2. /\ ~Unrecorded(q)'
      /\ Unrecorded(q) <=> outcome[q] = "SUCCEEDED"
      /\ \A p \in Requests \ {q} : Unrecorded(p)' <=> Unrecorded(p)
  BY <1>1 DEF Unrecorded, RefundTypeOK
<1>3. NothingFailed' => NothingFailed
  BY FailuresStay DEF RefundStep, ProcessRefund, LedgerInv
<1> SUFFICES ASSUME NEW i \in Intents
             PROVE  /\ IsFiniteSet(Owed(i)')
                    /\ refunded'[i] + Cardinality(Owed(i)') <= paidBack[i]
                    /\ NothingFailed' => refunded'[i] + Cardinality(Owed(i)') = paidBack[i]
  BY <1>1 DEF Balanced
<1>4. /\ IsFiniteSet(Owed(i)) /\ refunded[i] \in Nat /\ paidBack[i] \in Nat
      /\ refunded[i] + Cardinality(Owed(i)) <= paidBack[i]
      /\ NothingFailed => refunded[i] + Cardinality(Owed(i)) = paidBack[i]
  BY DEF LedgerInv, Balanced, RefundTypeOK, StoreTypeOK
<1>5. Cardinality(Owed(i)) \in Nat
  BY <1>4, FS_CardinalityType
<1>6. /\ IsFiniteSet(Owed(i)')
      /\ Cardinality(Owed(i)') =
           Cardinality(Owed(i)) - (IF Unrecorded(q) /\ i = IntentOf[q] THEN asked[q] ELSE 0)
  BY <1>1, <1>2, <1>4, OwedShrinks
<1>7. refunded'[i] = refunded[i] + (IF Unrecorded(q) /\ i = IntentOf[q] THEN asked[q] ELSE 0)
  BY <1>1, <1>2 DEF RefundTypeOK, StoreTypeOK
<1> QED
  BY <1>1, <1>3, <1>4, <1>5, <1>6, <1>7

(* A transaction that is rejected, a process that dies: what was owed for  *)
(* the refund will never be in the books.                                  *)
LEMMA LedgerLoss ==
    ASSUME RefundTypeOK, LedgerInv, NEW q \in Requests, RecordFails(q) \/ RefundCrash(q)
    PROVE  Balanced'
<1>1. /\ \E step \in {"failed", "crashed"} : refundPc' = [refundPc EXCEPT ![q] = step]
      /\ UNCHANGED <<refunded, paidBack, asked, outcome>>
  BY DEF RecordFails, RefundCrash, RefundGoto
<1>2. /\ ~Unrecorded(q)'
      /\ \A p \in Requests \ {q} : Unrecorded(p)' <=> Unrecorded(p)
  BY <1>1 DEF Unrecorded, RefundTypeOK
<1>3. ~NothingFailed'
  <2>1. faults' = faults + 1 /\ faults \in Nat
    BY FaultType DEF RecordFails, RefundCrash, RefundTypeOK
  <2> QED
    BY <2>1 DEF NothingFailed
<1> SUFFICES ASSUME NEW i \in Intents
             PROVE  /\ IsFiniteSet(Owed(i)')
                    /\ refunded[i] + Cardinality(Owed(i)') <= paidBack[i]
  BY <1>1, <1>3 DEF Balanced
<1>4. /\ IsFiniteSet(Owed(i)) /\ refunded[i] \in Nat /\ paidBack[i] \in Nat /\ asked[q] \in Nat
      /\ refunded[i] + Cardinality(Owed(i)) <= paidBack[i]
  BY DEF LedgerInv, Balanced, RefundTypeOK, StoreTypeOK
<1>5. Cardinality(Owed(i)) \in Nat
  BY <1>4, FS_CardinalityType
<1>6. /\ IsFiniteSet(Owed(i)')
      /\ Cardinality(Owed(i)') =
           Cardinality(Owed(i)) - (IF Unrecorded(q) /\ i = IntentOf[q] THEN asked[q] ELSE 0)
  BY <1>1, <1>2, <1>4, OwedShrinks
<1> QED
  BY <1>4, <1>5, <1>6

LEMMA LedgerStep ==
    ASSUME RefundTypeOK, RefundTypeOK', LedgerInv, NEW q \in Requests, RefundStep(q)
    PROVE  LedgerInv'
<1>1. ASSUME \/ ReadIntent(q) \/ GatewayRefundFails(q) \/ DispatchRefunded(q)
             \/ DispatchRefundedFails(q)
      PROVE  Balanced'
  <2>1. /\ UNCHANGED <<refunded, outcome>>
        /\ refundPc[q] # "recording" /\ refundPc'[q] # "recording"
        /\ \A p \in Requests \ {q} : refundPc'[p] = refundPc[p] /\ asked'[p] = asked[p]
    BY <1>1 DEF ReadIntent, GatewayRefundFails, DispatchRefunded, DispatchRefundedFails,
                RefundGoto, RefundTypeOK
  <2>2. /\ \A p \in Requests : Unrecorded(p)' <=> Unrecorded(p)
        /\ \A p \in Requests : Unrecorded(p) => asked'[p] = asked[p]
    BY <2>1 DEF Unrecorded
  <2>3. \A i \in Intents : paidBack'[i] \in Nat /\ paidBack'[i] >= paidBack[i]
    <3>1. \/ UNCHANGED paidBack
          \/ paidBack' = [paidBack EXCEPT ![IntentOf[q]] = @ + asked[q]]
      BY <1>1 DEF ReadIntent, GatewayRefundFails, DispatchRefunded, DispatchRefundedFails
    <3>2. /\ IntentOf[q] \in Intents /\ asked[q] \in Nat
          /\ paidBack \in [Intents -> Nat]
      BY RefundNats
    <3> QED
      BY <3>1, <3>2
  <2>4. NothingFailed' => NothingFailed /\ UNCHANGED faults
    BY <1>1, FailuresStay DEF RefundStep, ProcessRefund, LedgerInv
  <2>5. ~GatewayRefundFails(q) => UNCHANGED paidBack
    BY <1>1 DEF ReadIntent, DispatchRefunded, DispatchRefundedFails
  <2>6. GatewayRefundFails(q) => ~UNCHANGED faults
    BY FaultType DEF GatewayRefundFails, RefundTypeOK
  <2> QED
    BY <2>1, <2>2, <2>3, <2>4, <2>5, <2>6, NothingOwedAnew
<1>2. Balanced'
  BY <1>1, LedgerGateway, LedgerRecord, LedgerLoss DEF RefundStep, ProcessRefund
<1>3. OpenHasNoOutcome'
  BY OpenStep DEF LedgerInv
<1> QED
  BY <1>2, <1>3 DEF LedgerInv

LEMMA LedgerImplies ==
    ASSUME RefundTypeOK, LedgerInv
    PROVE  LedgerMatchesGateway
<1> SUFFICES ASSUME NEW i \in Intents
             PROVE  /\ refunded[i] <= paidBack[i]
                    /\ Quiet(i) /\ NothingFailed => refunded[i] = paidBack[i]
  BY DEF LedgerMatchesGateway, NothingFailed
<1>1. /\ IsFiniteSet(Owed(i)) /\ refunded[i] \in Nat /\ paidBack[i] \in Nat
      /\ refunded[i] + Cardinality(Owed(i)) <= paidBack[i]
      /\ NothingFailed => refunded[i] + Cardinality(Owed(i)) = paidBack[i]
  BY DEF LedgerInv, Balanced, RefundTypeOK, StoreTypeOK
<1>2. Cardinality(Owed(i)) \in Nat
  BY <1>1, FS_CardinalityType
<1>3. Quiet(i) => Cardinality(Owed(i)) = 0
  <2>1. Quiet(i) => Owed(i) = {}
    BY DEF Quiet, Owed, Unrecorded, Active
  <2> QED
    BY <2>1, FS_EmptySet
<1> QED
  BY <1>1, <1>2, <1>3

(* The rows never claim a refund that the gateway has not made, and when   *)
(* nothing has failed they account for all it has returned; with any       *)
(* number of refunds of one intent at once.                                *)
THEOREM BooksMatchGateway == RefundSpec => []LedgerMatchesGateway
<1>1. RefundTypeOK /\ LedgerInv /\ UNCHANGED <<store, refundVars>> => LedgerInv'
  BY DEF LedgerInv, Balanced, NothingFailed, Owed, Unrecorded, OpenHasNoOutcome, store, refundVars
<1>2. RefundTypeOK /\ RefundTypeOK' /\ LedgerInv /\ [RefundNext]_<<store, refundVars>> => LedgerInv'
  BY <1>1, LedgerStep DEF RefundNext
<1>3. RefundTypeOK /\ LedgerInv => LedgerMatchesGateway
  BY LedgerImplies
<1> QED
  BY LedgerInit, RefundTypesCorrect, <1>2, <1>3, PTL DEF RefundSpec

-----------------------------------------------------------------------------
(* The mark REFUNDED.  When the refunds of an intent come one by one, the  *)
(* sum that decides whether it is used up is still the sum in the books    *)
(* when the mark is written.                                               *)

PatientSerial ==
    \A p, q \in Requests :
        Active(p) /\ Active(q) /\ IntentOf[p] = IntentOf[q] /\ IntentOf[q] \in Patient => p = q

SeenIsNow ==
    \A q \in Requests :
        refundPc[q] \in {"calling", "recording"} /\ IntentOf[q] \in Patient
            => seen[q] = refunded[IntentOf[q]]

UsedUpIsMarked == \A i \in Patient : refunded[i] >= Amount[i] => status[i] = "REFUNDED"

SerialInv == PatientSerial /\ SeenIsNow

UsedUpInv == SerialInv /\ UsedUpIsMarked

LEMMA UsedUpInit == RefundsInit => UsedUpInv
BY RefundAssumption, StoreAssumption
   DEF RefundsInit, StoreInit, RefundInit, UsedUpInv, SerialInv, PatientSerial, SeenIsNow,
       UsedUpIsMarked, Active

LEMMA SerialStep ==
    ASSUME RefundTypeOK, SerialInv, NEW q \in Requests, RefundStep(q)
    PROVE  SerialInv'
<1>1. /\ refundPc \in [Requests -> RefundSteps] /\ seen \in [Requests -> Nat]
      /\ IntentOf[q] \in Intents
  BY RefundNats DEF RefundTypeOK
<1>2. CASE ReadIntent(q)
  <2>1. /\ UNCHANGED refunded
        /\ IntentOf[q] \in Patient => \A p \in Requests : Active(p) => IntentOf[p] # IntentOf[q]
    BY <1>2 DEF ReadIntent
  <2>2. \A p \in Requests \ {q} : refundPc'[p] = refundPc[p] /\ seen'[p] = seen[p]
    BY <1>1, <1>2 DEF ReadIntent, RefundGoto
  <2>3. refundPc'[q] \in {"calling", "refused", "failed"}
    BY <1>1, <1>2 DEF ReadIntent, RefundGoto
  <2>4. refundPc'[q] = "calling" => seen'[q] = refunded[IntentOf[q]]
    BY <1>1, <1>2 DEF ReadIntent, RefundGoto
  <2>5. PatientSerial'
    BY <2>1, <2>2, <2>3 DEF SerialInv, PatientSerial, Active
  <2>6. SeenIsNow'
    BY <2>1, <2>2, <2>3, <2>4 DEF SerialInv, SeenIsNow
  <2> QED
    BY <2>5, <2>6 DEF SerialInv
<1>3. CASE RecordRefund(q)
  <2>1. /\ refundPc[q] = "recording" /\ seen' = seen
        /\ \A p \in Requests : refundPc'[p] = IF p = q THEN "dispatching" ELSE refundPc[p]
    BY <1>1, <1>3 DEF RecordRefund, RefundGoto
  <2>2. IntentOf[q] \in Patient =>
          \A p \in Requests : p # q /\ Active(p) => IntentOf[p] # IntentOf[q]
    BY <2>1 DEF SerialInv, PatientSerial, Active
  <2>3. \A i \in Intents : i # IntentOf[q] => refunded'[i] = refunded[i]
    BY <1>1, <1>3 DEF RecordRefund, RefundTypeOK, StoreTypeOK
  <2>4. PatientSerial'
    BY <2>1 DEF SerialInv, PatientSerial, Active
  <2>5. SeenIsNow'
    <3>1. ASSUME NEW p \in Requests, refundPc'[p] \in {"calling", "recording"}, IntentOf[p] \in Patient
          PROVE  seen'[p] = refunded'[IntentOf[p]]
      <4>1. p # q /\ Active(p) /\ IntentOf[p] \in Intents
        BY <2>1, <3>1, RefundAssumption DEF Active
      <4>2. IntentOf[p] # IntentOf[q]
        BY <2>2, <3>1, <4>1
      <4> QED
        BY <2>1, <2>3, <3>1, <4>1, <4>2 DEF SerialInv, SeenIsNow
    <3> QED
      BY <3>1 DEF SeenIsNow
  <2> QED
    BY <2>4, <2>5 DEF SerialInv
<1>4. CASE ~ReadIntent(q) /\ ~RecordRefund(q)
  <2>1. UNCHANGED <<refunded, seen>>
    BY <1>4 DEF RefundStep, ProcessRefund, GatewayRefunds, GatewayRefundFails, RecordFails,
                DispatchRefunded, DispatchRefundedFails, RefundCrash
  <2>2. /\ Active(q)
        /\ refundPc'[q] = "recording" => refundPc[q] = "calling"
        /\ refundPc'[q] # "calling"
        /\ \A p \in Requests \ {q} : refundPc'[p] = refundPc[p]
    BY <1>1, <1>4
       DEF RefundStep, ProcessRefund, GatewayRefunds, GatewayRefundFails, RecordFails,
           DispatchRefunded, DispatchRefundedFails, RefundCrash, Active, RefundGoto
  <2>3. PatientSerial'
    BY <2>2 DEF SerialInv, PatientSerial, Active
  <2>4. SeenIsNow'
    BY <2>1, <2>2 DEF SerialInv, SeenIsNow
  <2> QED
    BY <2>3, <2>4 DEF SerialInv
<1> QED
  BY <1>2, <1>3, <1>4

LEMMA UsedUpStep ==
    ASSUME RefundTypeOK, UsedUpInv, NEW q \in Requests, RefundStep(q)
    PROVE  UsedUpInv'
<1>1. SerialInv'
  BY SerialStep DEF UsedUpInv
<1>2. UsedUpIsMarked'
  <2>1. CASE RecordRefund(q)
    <3>1. ASSUME NEW i \in Patient, refunded'[i] >= Amount[i] PROVE status'[i] = "REFUNDED"
      <4>1. i \in Intents /\ IntentOf[q] \in Intents
        BY RefundAssumption
      <4>2. CASE i # IntentOf[q]
        <5>1. refunded'[i] = refunded[i] /\ status'[i] = status[i]
          BY <2>1, <4>1, <4>2 DEF RecordRefund, UpdateStatus, RefundTypeOK, StoreTypeOK
        <5> QED
          BY <3>1, <5>1 DEF UsedUpInv, UsedUpIsMarked
      <4>3. CASE i = IntentOf[q] /\ outcome[q] = "SUCCEEDED"
        <5>1. seen[q] = refunded[i]
          BY <2>1, <4>3 DEF UsedUpInv, SerialInv, SeenIsNow, RecordRefund
        <5>2. refunded'[i] = refunded[i] + asked[q]
          BY <2>1, <4>1, <4>3 DEF RecordRefund, RefundTypeOK, StoreTypeOK
        <5>3. IsFullyRefunded(q)
          BY <3>1, <4>3, <5>1, <5>2 DEF IsFullyRefunded
        <5> QED
          BY <2>1, <4>1, <4>3, <5>3 DEF RecordRefund, UpdateStatus, RefundTypeOK, StoreTypeOK
      <4>4. CASE i = IntentOf[q] /\ outcome[q] # "SUCCEEDED"
        <5>1. UNCHANGED <<refunded, status>>
          BY <2>1, <4>4 DEF RecordRefund
        <5> QED
          BY <3>1, <5>1 DEF UsedUpInv, UsedUpIsMarked
      <4> QED
        BY <4>2, <4>3, <4>4
    <3> QED
      BY <3>1 DEF UsedUpIsMarked
  <2>2. CASE ~RecordRefund(q)
    <3>1. UNCHANGED <<status, refunded>>
      BY <2>2 DEF RefundStep, ProcessRefund, ReadIntent, GatewayRefunds, GatewayRefundFails,
                  RecordFails, DispatchRefunded, DispatchRefundedFails, RefundCrash
    <3> QED
      BY <3>1 DEF UsedUpInv, UsedUpIsMarked
  <2> QED
    BY <2>1, <2>2
<1> QED
  BY <1>1, <1>2 DEF UsedUpInv

(* An intent whose refunds, sent one by one, add up to its amount is       *)
(* marked REFUNDED, whatever failed or died on the way.                    *)
THEOREM UsedUpIntentsAreMarked == RefundSpec => []ExhaustedIsMarked
<1>1. RefundTypeOK /\ UsedUpInv /\ UNCHANGED <<store, refundVars>> => UsedUpInv'
  BY DEF UsedUpInv, SerialInv, PatientSerial, SeenIsNow, UsedUpIsMarked, Active, store, refundVars
<1>2. RefundTypeOK /\ UsedUpInv /\ [RefundNext]_<<store, refundVars>> => UsedUpInv'
  BY <1>1, UsedUpStep DEF RefundNext
<1>3. UsedUpInv => ExhaustedIsMarked
  BY DEF UsedUpInv, UsedUpIsMarked, ExhaustedIsMarked
<1> QED
  BY UsedUpInit, RefundTypesCorrect, <1>2, <1>3, PTL DEF RefundSpec

(* Refunds that come one by one are booked within the amount: the check on *)
(* what remains is still true when the row is written.                     *)

AskedFits ==
    \A q \in Requests :
        refundPc[q] \in {"calling", "recording"} /\ IntentOf[q] \in Patient
            => seen[q] + asked[q] <= Amount[IntentOf[q]]

BookedFits == \A i \in Patient : refunded[i] <= Amount[i]

FitInv == SerialInv /\ AskedFits /\ BookedFits

LEMMA FitInit == RefundsInit => FitInv
BY RefundAssumption, StoreAssumption
   DEF RefundsInit, StoreInit, RefundInit, FitInv, SerialInv, PatientSerial, SeenIsNow, AskedFits,
       BookedFits, Active

LEMMA FitStep ==
    ASSUME RefundTypeOK, FitInv, NEW q \in Requests, RefundStep(q)
    PROVE  FitInv'
<1>1. SerialInv'
  BY SerialStep DEF FitInv
<1>2. /\ refundPc \in [Requests -> RefundSteps] /\ seen \in [Requests -> Nat]
      /\ asked \in [Requests -> Nat] /\ IntentOf[q] \in Intents
  BY RefundNats DEF RefundTypeOK
<1>3. AskedFits'
  <2>1. CASE ReadIntent(q)
    <3>1. \A p \in Requests \ {q} :
            refundPc'[p] = refundPc[p] /\ seen'[p] = seen[p] /\ asked'[p] = asked[p]
      BY <1>2, <2>1 DEF ReadIntent, RefundGoto
    <3>2. ASSUME refundPc'[q] \in {"calling", "recording"}
          PROVE  seen'[q] + asked'[q] <= Amount[IntentOf[q]]
      <4>1. /\ seen'[q] = refunded[IntentOf[q]] /\ asked'[q] = RequestedAmount(q)
            /\ RequestedAmount(q) > 0 /\ RequestedAmount(q) <= Remaining(IntentOf[q])
        BY <1>2, <2>1, <3>2 DEF ReadIntent, RefundGoto, Eligible
      <4>2. refunded[IntentOf[q]] \in Nat /\ Amount[IntentOf[q]] \in Nat
        BY RefundNats
      <4>3. Remaining(IntentOf[q]) \in Nat
        BY <4>2 DEF Remaining
      <4>4. RequestedAmount(q) \in Nat
        BY <4>3, RefundAssumption DEF RequestedAmount
      <4> QED
        BY <4>1, <4>2, <4>3, <4>4 DEF Remaining
    <3> QED
      BY <3>1, <3>2 DEF FitInv, AskedFits
  <2>2. CASE ~ReadIntent(q)
    <3>1. UNCHANGED <<seen, asked>>
      BY <2>2 DEF RefundStep, ProcessRefund, GatewayRefunds, GatewayRefundFails, RecordRefund,
                  RecordFails, DispatchRefunded, DispatchRefundedFails, RefundCrash
    <3>2. \A p \in Requests :
            refundPc'[p] \in {"calling", "recording"} => refundPc[p] \in {"calling", "recording"}
      BY <1>2, <2>2
         DEF RefundStep, ProcessRefund, GatewayRefunds, GatewayRefundFails, RecordRefund,
             RecordFails, DispatchRefunded, DispatchRefundedFails, RefundCrash, RefundGoto
    <3> QED
      BY <3>1, <3>2 DEF FitInv, AskedFits
  <2> QED
    BY <2>1, <2>2
<1>4. BookedFits'
  <2>1. CASE RecordRefund(q)
    <3> SUFFICES ASSUME NEW i \in Patient PROVE refunded'[i] <= Amount[i]
      BY DEF BookedFits
    <3>1. i \in Intents
      BY RefundAssumption
    <3>2. CASE i = IntentOf[q]
      <4>1. seen[q] = refunded[i] /\ seen[q] + asked[q] <= Amount[i]
        BY <2>1, <3>2 DEF RecordRefund, FitInv, SerialInv, SeenIsNow, AskedFits
      <4>2. refunded'[i] \in {refunded[i], refunded[i] + asked[q]}
        BY <2>1, <3>1, <3>2 DEF RecordRefund, RefundTypeOK, StoreTypeOK
      <4> QED
        BY <4>1, <4>2 DEF FitInv, BookedFits
    <3>3. CASE i # IntentOf[q]
      <4>1. refunded'[i] = refunded[i]
        BY <2>1, <3>1, <3>3 DEF RecordRefund, RefundTypeOK, StoreTypeOK
      <4> QED
        BY <4>1 DEF FitInv, BookedFits
    <3> QED
      BY <3>2, <3>3
  <2>2. CASE ~RecordRefund(q)
    <3>1. UNCHANGED refunded
      BY <2>2 DEF RefundStep, ProcessRefund, ReadIntent, GatewayRefunds, GatewayRefundFails,
                  RecordFails, DispatchRefunded, DispatchRefundedFails, RefundCrash
    <3> QED
      BY <3>1 DEF FitInv, BookedFits
  <2> QED
    BY <2>1, <2>2
<1> QED
  BY <1>1, <1>3, <1>4 DEF FitInv

(* The mark is never written before the refund rows reach the amount,      *)
(* although concurrent refunds decide on sums that are out of date.        *)
THEOREM MarkedIsPaidInFull == RefundSpec => []RefundedIsPaidInFull
<1>1. MarkInv /\ UNCHANGED <<store, refundVars>> => MarkInv'
  BY DEF MarkInv, SeenIsPast, RefundedIsPaidInFull, Active, store, refundVars
<1>2. RefundTypeOK /\ MarkInv /\ [RefundNext]_<<store, refundVars>> => MarkInv'
  BY <1>1, MarkInvRefund DEF RefundNext
<1>3. MarkInv => RefundedIsPaidInFull
  BY DEF MarkInv
<1> QED
  BY MarkInvInit, RefundTypesCorrect, <1>2, <1>3, PTL DEF RefundSpec

-----------------------------------------------------------------------------
(* What the gateway pays back stays within the amount, when merchants wait *)
(* for one refund of an intent before they send the next and nothing fails *)
(* between the gateway's answer and the commit that records it.            *)

Careful ==
    /\ Patient = Intents
    /\ FaultKinds \subseteq {"redis"}
    /\ "PENDING" \notin RefundOutcomes

Serial ==
    \A p, q \in Requests : Active(p) /\ Active(q) /\ IntentOf[p] = IntentOf[q] => p = q

CallingFits ==
    \A q \in Requests :
        refundPc[q] = "calling" => refunded[IntentOf[q]] + asked[q] <= Amount[IntentOf[q]]

(* The rows and the gateway differ by the one refund still to be recorded. *)
RecordingIsPaid ==
    \A q \in Requests :
        Unrecorded(q) => paidBack[IntentOf[q]] = refunded[IntentOf[q]] + asked[q]

OthersAreEven ==
    \A i \in Intents :
        (\A q \in Requests : Unrecorded(q) => IntentOf[q] # i) => paidBack[i] = refunded[i]

PayInv == Serial /\ CallingFits /\ RecordingIsPaid /\ OthersAreEven /\ PaidBackWithinAmount

LEMMA PayInvInit == RefundsInit => PayInv
BY StoreAssumption
   DEF RefundsInit, StoreInit, RefundInit, PayInv, Serial, CallingFits, RecordingIsPaid, OthersAreEven,
       PaidBackWithinAmount, Unrecorded, Active

LEMMA PayReadIntent ==
    ASSUME RefundTypeOK, PayInv, Careful, NEW q \in Requests, ReadIntent(q)
    PROVE  PayInv'
<1>1. /\ UNCHANGED <<refunded, paidBack, outcome>>
      /\ refundPc[q] = "idle"
      /\ \A p \in Requests : Active(p) => IntentOf[p] # IntentOf[q]
  BY RefundNats DEF ReadIntent, Careful
<1>2. CASE Eligible(q) /\ asked' = [asked EXCEPT ![q] = RequestedAmount(q)] /\ RefundGoto(q, "calling")
  <2>1. \A p \in Requests :
           /\ refundPc'[p] = IF p = q THEN "calling" ELSE refundPc[p]
           /\ asked'[p] = IF p = q THEN RequestedAmount(q) ELSE asked[p]
    BY <1>2, RefundNats DEF RefundGoto
  <2>2. refunded[IntentOf[q]] + RequestedAmount(q) <= Amount[IntentOf[q]]
    BY <1>2, RequestedIsNat DEF Eligible, RefundTypeOK
  <2>3. Serial'
    BY <1>1, <2>1 DEF PayInv, Serial, Active
  <2>4. CallingFits'
    BY <1>1, <2>1, <2>2 DEF PayInv, CallingFits
  <2>5. \A p \in Requests : Unrecorded(p)' <=> Unrecorded(p)
    BY <1>1, <2>1 DEF Unrecorded
  <2>6. RecordingIsPaid'
    BY <1>1, <2>1, <2>5 DEF PayInv, RecordingIsPaid, Unrecorded
  <2> QED
    BY <1>1, <2>3, <2>4, <2>5, <2>6 DEF PayInv, OthersAreEven, PaidBackWithinAmount
<1>3. CASE asked' = asked /\ \E step \in {"refused", "failed"} : RefundGoto(q, step)
  <2>1. \A p \in Requests :
           \/ p # q /\ refundPc'[p] = refundPc[p]
           \/ p = q /\ refundPc'[p] \in {"refused", "failed"}
    BY <1>3, RefundNats DEF RefundGoto
  <2>2. \A p \in Requests : Unrecorded(p)' <=> Unrecorded(p)
    BY <1>1, <2>1 DEF Unrecorded
  <2> QED
    BY <1>1, <1>3, <2>1, <2>2
       DEF PayInv, Serial, CallingFits, RecordingIsPaid, OthersAreEven, PaidBackWithinAmount, Active
<1> QED
  BY <1>2, <1>3 DEF ReadIntent

LEMMA PayGatewayRefunds ==
    ASSUME RefundTypeOK, PayInv, Careful, NEW q \in Requests, GatewayRefunds(q)
    PROVE  PayInv'
<1> DEFINE i == IntentOf[q]
<1>1. refundPc[q] = "calling" /\ i \in Intents /\ refunded' = refunded /\ asked' = asked
  BY RefundNats DEF GatewayRefunds
<1>2. PICK o \in {"SUCCEEDED", "FAILED"} :
        /\ outcome' = [outcome EXCEPT ![q] = o]
        /\ paidBack' = IF o = "FAILED" THEN paidBack ELSE [paidBack EXCEPT ![i] = @ + asked[q]]
  BY RefundAssumption DEF GatewayRefunds, Careful
<1>3. \A p \in Requests :
         /\ refundPc'[p] = IF p = q THEN "recording" ELSE refundPc[p]
         /\ outcome'[p] = IF p = q THEN o ELSE outcome[p]
  BY <1>2, RefundNats DEF GatewayRefunds, RefundGoto
<1>4. \A p \in Requests : p # q /\ Active(p) => IntentOf[p] # i
  BY <1>1 DEF PayInv, Serial, Active
<1>5. paidBack[i] = refunded[i] /\ refunded[i] + asked[q] <= Amount[i]
  BY <1>1, <1>4 DEF PayInv, OthersAreEven, CallingFits, Unrecorded, Active
<1>6. /\ paidBack'[i] = IF o = "FAILED" THEN paidBack[i] ELSE paidBack[i] + asked[q]
      /\ \A j \in Intents : j # i => paidBack'[j] = paidBack[j]
  BY <1>1, <1>2, RefundNats
<1>7. Serial'
  BY <1>1, <1>3 DEF PayInv, Serial, Active
<1>8. CallingFits'
  BY <1>1, <1>3 DEF PayInv, CallingFits
<1>9. \A p \in Requests : Unrecorded(p)' <=> IF p = q THEN o = "SUCCEEDED" ELSE Unrecorded(p)
  BY <1>3 DEF Unrecorded
<1>10. RecordingIsPaid'
  <2>1. ASSUME NEW p \in Requests, Unrecorded(p)'
        PROVE  paidBack'[IntentOf[p]] = refunded[IntentOf[p]] + asked[p]
    <3>1. CASE p = q
      BY <1>5, <1>6, <1>9, <2>1, <3>1
    <3>2. CASE p # q
      <4>1. Unrecorded(p) /\ Active(p) /\ IntentOf[p] \in Intents
        BY <1>9, <2>1, <3>2, RefundNats DEF Unrecorded, Active
      <4> QED
        BY <1>4, <1>6, <3>2, <4>1 DEF PayInv, RecordingIsPaid
    <3> QED
      BY <3>1, <3>2
  <2> QED
    BY <1>1, <2>1 DEF RecordingIsPaid
<1>11. OthersAreEven'
  <2>1. ASSUME NEW j \in Intents, \A p \in Requests : Unrecorded(p)' => IntentOf[p] # j
        PROVE  paidBack'[j] = refunded[j]
    <3>1. CASE j = i
      BY <1>2, <1>5, <1>6, <1>9, <2>1, <3>1
    <3>2. CASE j # i
      <4>1. \A p \in Requests : Unrecorded(p) => IntentOf[p] # j
        BY <1>9, <2>1, <3>2
      <4> QED
        BY <1>6, <3>2, <4>1 DEF PayInv, OthersAreEven
    <3> QED
      BY <3>1, <3>2
  <2> QED
    BY <1>1, <2>1 DEF OthersAreEven
<1>12. PaidBackWithinAmount'
  BY <1>5, <1>6, RefundNats DEF PayInv, PaidBackWithinAmount
<1> QED
  BY <1>7, <1>8, <1>10, <1>11, <1>12 DEF PayInv

LEMMA PayRecordRefund ==
    ASSUME RefundTypeOK, PayInv, NEW q \in Requests, RecordRefund(q)
    PROVE  PayInv'
<1> DEFINE i == IntentOf[q]
<1>1. /\ refundPc[q] = "recording" /\ i \in Intents
      /\ UNCHANGED <<paidBack, asked, outcome>>
  BY RefundNats DEF RecordRefund
<1>2. \A p \in Requests : refundPc'[p] = IF p = q THEN "dispatching" ELSE refundPc[p]
  BY RefundNats DEF RecordRefund, RefundGoto
<1>3. /\ refunded'[i] = IF outcome[q] = "SUCCEEDED" THEN refunded[i] + asked[q] ELSE refunded[i]
      /\ \A j \in Intents : j # i => refunded'[j] = refunded[j]
  BY <1>1, RefundNats DEF RecordRefund
<1>4. \A p \in Requests : p # q /\ Active(p) => IntentOf[p] # i
  BY <1>1 DEF PayInv, Serial, Active
<1>5. \A p \in Requests : Unrecorded(p)' <=> p # q /\ Unrecorded(p)
  BY <1>1, <1>2 DEF Unrecorded
<1>6. refunded'[i] = paidBack[i]
  <2>1. CASE Unrecorded(q)
    BY <1>3, <2>1 DEF PayInv, RecordingIsPaid, Unrecorded
  <2>2. CASE ~Unrecorded(q)
    BY <1>1, <1>3, <1>4, <2>2 DEF PayInv, OthersAreEven, Unrecorded, Active
  <2> QED
    BY <2>1, <2>2
<1>7. Serial'
  BY <1>1, <1>2 DEF PayInv, Serial, Active
<1>8. CallingFits'
  BY <1>1, <1>2, <1>3, <1>4, RefundNats DEF PayInv, CallingFits, Active
<1>9. RecordingIsPaid'
  BY <1>1, <1>3, <1>4, <1>5, RefundNats DEF PayInv, RecordingIsPaid, Unrecorded, Active
<1>10. OthersAreEven'
  BY <1>1, <1>3, <1>5, <1>6 DEF PayInv, OthersAreEven
<1>11. PaidBackWithinAmount'
  BY <1>1 DEF PayInv, PaidBackWithinAmount
<1> QED
  BY <1>7, <1>8, <1>9, <1>10, <1>11 DEF PayInv

LEMMA PayRefundStep ==
    ASSUME RefundTypeOK, PayInv, Careful, NEW q \in Requests, RefundStep(q)
    PROVE  PayInv'
<1>1. \A kind \in {"db", "gateway", "crash"} : ~Fault(kind)
  BY DEF Fault, Careful
<1>2. CASE DispatchRefunded(q) \/ DispatchRefundedFails(q)
  <2>1. UNCHANGED <<refunded, paidBack, asked, outcome>> /\ refundPc[q] = "dispatching"
    BY <1>2 DEF DispatchRefunded, DispatchRefundedFails
  <2>2. \A p \in Requests :
           \/ p # q /\ refundPc'[p] = refundPc[p]
           \/ p = q /\ refundPc'[p] \in {"answered", "failed"}
    BY <1>2, RefundNats DEF DispatchRefunded, DispatchRefundedFails, RefundGoto
  <2>3. \A p \in Requests : Unrecorded(p)' <=> Unrecorded(p)
    BY <2>1, <2>2 DEF Unrecorded
  <2> QED
    BY <2>1, <2>2, <2>3
       DEF PayInv, Serial, CallingFits, RecordingIsPaid, OthersAreEven, PaidBackWithinAmount, Active
<1> QED
  BY <1>1, <1>2, PayReadIntent, PayGatewayRefunds, PayRecordRefund
     DEF RefundStep, ProcessRefund, RecordFails, GatewayRefundFails, RefundCrash

=============================================================================
