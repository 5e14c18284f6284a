---------------------------- MODULE WebhookProofs ----------------------------
(***************************************************************************)
(* Proofs about InboundWebhooks, for finitely many events and deliveries,  *)
(* copies on any number of them, and any number of faults.                 *)
(***************************************************************************)
EXTENDS InboundWebhooks, FiniteSetTheorems, TLAPS

Finite == IsFiniteSet(Events) /\ IsFiniteSet(Deliveries)

(* The requests that have committed an event of i and have yet to enqueue  *)
(* its notification.                                                       *)
ToNotify(i) == {d \in Deliveries : hookPc[d] = "dispatching" /\ About[EventOf[d]] = i}

RecordedAbout(i) == recorded \cap EventsAbout(i)

(* Every notification, enqueued or still to be, is paid for by the row of  *)
(* one event.                                                              *)
Budget ==
    \A i \in Intents :
        queued[i]["payment.succeeded"] + Cardinality(ToNotify(i)) <= Cardinality(RecordedAbout(i))

AppliedAtOnce == \A e \in recorded : status[About[e]] = "CAPTURED"

LEMMA HookTypeInit == WebhooksInit => HookTypeOK
BY StoreAssumption
   DEF WebhooksInit, StoreInit, HookInit, HookTypeOK, StoreTypeOK, HookSteps, OutboundEvents

LEMMA HookTypeStep ==
    ASSUME HookTypeOK, [HookNext \/ CustomersAct]_<<store, hookVars>>
    PROVE  HookTypeOK'
<1> USE WebhookAssumption DEF HookTypeOK, StoreTypeOK, HookGoto, Fault, store, hookVars
<1>1. ASSUME NEW d \in Deliveries,
             \/ Deliver(d) \/ Verify(d) \/ CommitDuplicate(d) \/ CommitUnknownIntent(d)
             \/ Acknowledge(d)
      PROVE  HookTypeOK'
  BY <1>1 DEF Deliver, Verify, CommitDuplicate, CommitUnknownIntent, Acknowledge, HookSteps
<1>2. ASSUME NEW d \in Deliveries, Commit(d) PROVE HookTypeOK'
  BY <1>2 DEF Commit, UpdateStatus, HookSteps, Statuses
<1>3. ASSUME NEW d \in Deliveries, CommitFails(d) \/ DispatchSucceededFails(d) \/ HookCrash(d)
      PROVE  HookTypeOK'
  <2>1. /\ faults' = faults + 1 /\ faults < MaxFaults
        /\ UNCHANGED <<status, refunded, queued, settled, paidBack, recorded>>
        /\ HookGoto(d, "500") \/ HookGoto(d, "lost")
    BY <1>3 DEF CommitFails, DispatchSucceededFails, HookCrash
  <2>2. faults' \in 0 .. MaxFaults
    BY <2>1, StoreAssumption
  <2> QED
    BY <2>1, <2>2 DEF HookSteps
<1>4. ASSUME NEW d \in Deliveries, DispatchSucceeded(d) PROVE HookTypeOK'
  BY <1>4 DEF DispatchSucceeded, Enqueue, HookSteps, OutboundEvents
<1>5. ASSUME NEW i \in Intents, GatewaySettles(i), UNCHANGED hookVars PROVE HookTypeOK'
  BY <1>5 DEF GatewaySettles, Statuses
<1>6. CASE UNCHANGED <<store, hookVars>>
  BY <1>6
<1> QED
  BY <1>1, <1>2, <1>3, <1>4, <1>5, <1>6 DEF HookNext, HookStep, CustomersAct

-----------------------------------------------------------------------------
LEMMA SetsAreFinite ==
    ASSUME Finite, HookTypeOK, NEW i
    PROVE  /\ IsFiniteSet(ToNotify(i)) /\ Cardinality(ToNotify(i)) \in Nat
           /\ IsFiniteSet(RecordedAbout(i)) /\ Cardinality(RecordedAbout(i)) \in Nat
<1>1. ToNotify(i) \subseteq Deliveries /\ RecordedAbout(i) \subseteq Events
  BY DEF ToNotify, RecordedAbout, HookTypeOK
<1> QED
  BY <1>1, FS_Subset, FS_CardinalityType DEF Finite

LEMMA BudgetInit ==
    ASSUME WebhooksInit
    PROVE  Budget /\ AppliedAtOnce
<1>1. ASSUME NEW i \in Intents PROVE ToNotify(i) = {} /\ RecordedAbout(i) = {}
  BY DEF WebhooksInit, HookInit, ToNotify, RecordedAbout
<1>2. \A i \in Intents : queued[i]["payment.succeeded"] = 0
  BY DEF WebhooksInit, StoreInit, OutboundEvents
<1>3. \A i \in Intents : Cardinality(ToNotify(i)) = 0 /\ Cardinality(RecordedAbout(i)) = 0
  BY <1>1, FS_EmptySet
<1> QED
  <2>1. Budget
    <3>1. 0 + 0 <= 0
      OBVIOUS
    <3> QED
      BY <1>2, <1>3, <3>1, ZenonT(30) DEF Budget
  <2> QED
    BY <2>1 DEF AppliedAtOnce, WebhooksInit, HookInit

(* The transaction: one more row, one more notification to come.           *)
LEMMA CommitKeepsBudget ==
    ASSUME Finite, HookTypeOK, HookTypeOK', Budget, NEW d \in Deliveries, Commit(d)
    PROVE  Budget'
<1> DEFINE e == EventOf[d]
<1> SUFFICES ASSUME NEW i \in Intents
             PROVE  queued'[i]["payment.succeeded"] + Cardinality(ToNotify(i)')
                        <= Cardinality(RecordedAbout(i)')
  BY DEF Budget
<1>1. /\ e \in Events /\ e \notin recorded /\ recorded' = recorded \cup {e}
      /\ hookPc[d] = "committing" /\ hookPc' = [hookPc EXCEPT ![d] = "dispatching"]
      /\ queued' = queued /\ hookPc \in [Deliveries -> HookSteps]
  BY WebhookAssumption DEF Commit, HookGoto, HookTypeOK
<1>2. /\ queued[i]["payment.succeeded"] \in Nat
      /\ queued[i]["payment.succeeded"] + Cardinality(ToNotify(i)) <= Cardinality(RecordedAbout(i))
  BY DEF Budget, HookTypeOK, StoreTypeOK, OutboundEvents
<1>3. CASE About[e] = i
  <2>1. ToNotify(i)' = ToNotify(i) \cup {d} /\ d \notin ToNotify(i)
    BY <1>1, <1>3 DEF ToNotify
  <2>2. RecordedAbout(i)' = RecordedAbout(i) \cup {e} /\ e \notin RecordedAbout(i)
    BY <1>1, <1>3 DEF RecordedAbout, EventsAbout
  <2>3. /\ Cardinality(ToNotify(i)') = Cardinality(ToNotify(i)) + 1
        /\ Cardinality(RecordedAbout(i)') = Cardinality(RecordedAbout(i)) + 1
    BY <2>1, <2>2, SetsAreFinite, FS_AddElement
  <2> QED
    BY <1>1, <1>2, <2>3, SetsAreFinite
<1>4. CASE About[e] # i
  <2>1. ToNotify(i)' = ToNotify(i)
    BY <1>1, <1>4 DEF ToNotify
  <2>2. RecordedAbout(i)' = RecordedAbout(i)
    BY <1>1, <1>4 DEF RecordedAbout, EventsAbout
  <2> QED
    BY <1>1, <1>2, <2>1, <2>2
<1> QED
  BY <1>3, <1>4

(* A notification that was to come has come.                               *)
LEMMA DispatchKeepsBudget ==
    ASSUME Finite, HookTypeOK, Budget, NEW d \in Deliveries, DispatchSucceeded(d)
    PROVE  Budget'
<1> DEFINE a == About[EventOf[d]]
<1> SUFFICES ASSUME NEW i \in Intents
             PROVE  queued'[i]["payment.succeeded"] + Cardinality(ToNotify(i)')
                        <= Cardinality(RecordedAbout(i)')
  BY DEF Budget
<1>1. /\ hookPc[d] = "dispatching" /\ hookPc' = [hookPc EXCEPT ![d] = "answering"]
      /\ queued' = [queued EXCEPT ![a]["payment.succeeded"] = @ + 1]
      /\ recorded' = recorded /\ hookPc \in [Deliveries -> HookSteps]
      /\ queued \in [Intents -> [OutboundEvents -> Nat]] /\ a \in Intents
  BY WebhookAssumption DEF DispatchSucceeded, Enqueue, HookGoto, HookTypeOK, StoreTypeOK
<1>2. /\ queued[i]["payment.succeeded"] \in Nat
      /\ queued[i]["payment.succeeded"] + Cardinality(ToNotify(i)) <= Cardinality(RecordedAbout(i))
  BY DEF Budget, HookTypeOK, StoreTypeOK, OutboundEvents
<1>3. RecordedAbout(i)' = RecordedAbout(i)
  BY <1>1 DEF RecordedAbout
<1>4. CASE a = i
  <2>1. ToNotify(i)' = ToNotify(i) \ {d} /\ d \in ToNotify(i)
    BY <1>1, <1>4 DEF ToNotify
  <2>2. Cardinality(ToNotify(i)') = Cardinality(ToNotify(i)) - 1
    BY <2>1, SetsAreFinite, FS_RemoveElement
  <2>3. queued'[i]["payment.succeeded"] = queued[i]["payment.succeeded"] + 1
    BY <1>1, <1>4 DEF OutboundEvents
  <2> QED
    BY <1>2, <1>3, <2>2, <2>3, SetsAreFinite
<1>5. CASE a # i
  <2>1. ToNotify(i)' = ToNotify(i) /\ queued'[i] = queued[i]
    BY <1>1, <1>5 DEF ToNotify
  <2> QED
    BY <1>2, <1>3, <2>1
<1> QED
  BY <1>4, <1>5

(* No other step records an event or enqueues a notification; a request    *)
(* that fails or dies may drop one that was to come.                       *)
LEMMA OthersKeepBudget ==
    ASSUME Finite, HookTypeOK, Budget, UNCHANGED <<queued, recorded>>,
           \A d \in Deliveries : hookPc'[d] = "dispatching" => hookPc[d] = "dispatching"
    PROVE  Budget'
<1> SUFFICES ASSUME NEW i \in Intents
             PROVE  queued'[i]["payment.succeeded"] + Cardinality(ToNotify(i)')
                        <= Cardinality(RecordedAbout(i)')
  BY DEF Budget
<1>1. ToNotify(i)' \subseteq ToNotify(i) /\ RecordedAbout(i)' = RecordedAbout(i)
  BY DEF ToNotify, RecordedAbout
<1>2. Cardinality(ToNotify(i)') <= Cardinality(ToNotify(i)) /\ Cardinality(ToNotify(i)') \in Nat
  BY <1>1, SetsAreFinite, FS_Subset, FS_CardinalityType
<1>3. /\ queued[i]["payment.succeeded"] \in Nat
      /\ queued[i]["payment.succeeded"] + Cardinality(ToNotify(i)) <= Cardinality(RecordedAbout(i))
  BY DEF Budget, HookTypeOK, StoreTypeOK, OutboundEvents
<1> QED
  BY <1>1, <1>2, <1>3, SetsAreFinite

LEMMA BudgetStep ==
    ASSUME Finite, HookTypeOK, HookTypeOK', Budget, AppliedAtOnce,
           [HookNext \/ CustomersAct]_<<store, hookVars>>
    PROVE  Budget' /\ AppliedAtOnce'
<1>1. ASSUME NEW d \in Deliveries, Commit(d) PROVE Budget' /\ AppliedAtOnce'
  <2>1. AppliedAtOnce'
    BY <1>1, WebhookAssumption
       DEF AppliedAtOnce, Commit, UpdateStatus, HookTypeOK, StoreTypeOK
  <2> QED
    BY <1>1, <2>1, CommitKeepsBudget
<1>2. ASSUME NEW d \in Deliveries, DispatchSucceeded(d) PROVE Budget' /\ AppliedAtOnce'
  <2>1. AppliedAtOnce'
    BY <1>2 DEF AppliedAtOnce, DispatchSucceeded
  <2> QED
    BY <1>2, <2>1, DispatchKeepsBudget
<1>3. ASSUME UNCHANGED <<status, queued, recorded>>,
             \A d \in Deliveries : hookPc'[d] = "dispatching" => hookPc[d] = "dispatching"
      PROVE  Budget' /\ AppliedAtOnce'
  BY <1>3, OthersKeepBudget DEF AppliedAtOnce
<1>4. ASSUME NEW d \in Deliveries,
             \/ Deliver(d) \/ Verify(d) \/ CommitDuplicate(d) \/ CommitUnknownIntent(d)
             \/ CommitFails(d) \/ DispatchSucceededFails(d) \/ Acknowledge(d) \/ HookCrash(d)
      PROVE  Budget' /\ AppliedAtOnce'
  <2>1. /\ UNCHANGED <<status, queued, recorded>>
        /\ \E step \in HookSteps \ {"dispatching"} : HookGoto(d, step)
    BY <1>4 DEF Deliver, Verify, CommitDuplicate, CommitUnknownIntent, CommitFails,
                DispatchSucceededFails, Acknowledge, HookCrash, HookSteps, store
  <2>2. \A c \in Deliveries : hookPc'[c] = "dispatching" => hookPc[c] = "dispatching"
    BY <2>1 DEF HookGoto, HookTypeOK
  <2> QED
    BY <2>1, <2>2, <1>3
<1>5. CASE UNCHANGED <<store, hookVars>> \/ CustomersAct
  <2>1. UNCHANGED <<status, queued, recorded, hookPc>>
    BY <1>5 DEF store, hookVars, CustomersAct, GatewaySettles
  <2> QED
    BY <2>1, <1>3
<1> QED
  BY <1>1, <1>2, <1>4, <1>5 DEF HookNext, HookStep

-----------------------------------------------------------------------------
LEMMA HookInvariant ==
    ASSUME Finite
    PROVE  HookSpec => [](HookTypeOK /\ Budget /\ AppliedAtOnce)
<1>1. WebhooksInit => HookTypeOK /\ Budget /\ AppliedAtOnce
  BY HookTypeInit, BudgetInit
<1>2. HookTypeOK /\ Budget /\ AppliedAtOnce /\ [HookNext \/ CustomersAct]_<<store, hookVars>>
        => (HookTypeOK /\ Budget /\ AppliedAtOnce)'
  BY HookTypeStep, BudgetStep
<1> QED
  BY <1>1, <1>2, PTL DEF HookSpec

(* However often an event is delivered, and on however many connections at *)
(* once, its merchant is notified of it once at most.                      *)
THEOREM NotifiedOnce ==
    ASSUME Finite
    PROVE  HookSpec => []OneNotificationPerEvent
<1>1. HookTypeOK /\ Budget => OneNotificationPerEvent
  <2> SUFFICES ASSUME HookTypeOK, Budget, NEW i \in Intents
               PROVE  queued[i]["payment.succeeded"] <= Cardinality(recorded \cap EventsAbout(i))
    BY DEF OneNotificationPerEvent
  <2>1. /\ queued[i]["payment.succeeded"] \in Nat
        /\ queued[i]["payment.succeeded"] + Cardinality(ToNotify(i)) <= Cardinality(RecordedAbout(i))
    BY DEF Budget, HookTypeOK, StoreTypeOK, OutboundEvents
  <2> QED
    BY <2>1, SetsAreFinite DEF RecordedAbout
<1> QED
  BY <1>1, HookInvariant, PTL

(* An event that has its row has been applied: no retry of a failed        *)
(* request is taken for a duplicate while its intent is still PENDING.     *)
THEOREM AppliedWithItsRow ==
    ASSUME Finite
    PROVE  HookSpec => []RecordedIsCaptured
<1>1. AppliedAtOnce => RecordedIsCaptured
  BY DEF AppliedAtOnce, RecordedIsCaptured
<1> QED
  BY <1>1, HookInvariant, PTL

=============================================================================
