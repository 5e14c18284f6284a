------------------------ MODULE ReconciliationProofs ------------------------
(***************************************************************************)
(* Proofs about Reconciliation, for every set of intents and of concurrent *)
(* runs and any number of faults.  Verdicts are final at the gateway, so   *)
(* two runs that decide about the same row, each on rows and answers of    *)
(* its own, cannot disagree.                                               *)
(***************************************************************************)
EXTENDS Reconciliation, FiniteSetTheorems, TLAPS

Decided(i) == i \in AtGateway /\ settled[i] \in {"CAPTURED", "FAILED"}

(* What a run has in hand when it waits for a call.                        *)
HandsAreRight ==
    \A p \in Runs :
        /\ reconPc[p] = "fetching" => current[p] \in AtGateway
        /\ reconPc[p] = "abandoning" => current[p] \in Intents \ AtGateway
        /\ reconPc[p] \in {"updating", "dispatching"} =>
               Decided(current[p]) /\ answer[p] = settled[current[p]]
        /\ reconPc[p] = "dispatching" => status[current[p]] = answer[p]

(* A notification was preceded by its status, which no run changes again.  *)
NotifiedIsFinal ==
    \A i \in Intents :
        /\ queued[i]["payment.succeeded"] > 0 =>
               Decided(i) /\ settled[i] = "CAPTURED" /\ status[i] = "CAPTURED"
        /\ queued[i]["payment.failed"] > 0 =>
               Decided(i) /\ settled[i] = "FAILED" /\ status[i] = "FAILED"

(* The gateway decides once, and only what was undecided at the start.     *)
OpenWasOpen == \A i \in Intents : settled[i] = "PENDING" => InitialStatus[i] = "PENDING"

VerdictInv ==
    /\ ReconTypeOK
    /\ HandsAreRight
    /\ NotifiedIsFinal
    /\ OpenWasOpen
    /\ VerdictIsGateways

LEMMA VerdictInvInit == ReconciliationInit => VerdictInv
<1> SUFFICES ASSUME ReconciliationInit PROVE VerdictInv
  OBVIOUS
<1> USE StoreAssumption, ReconAssumption DEF ReconciliationInit, StoreInit, ReconInit
<1>1. ReconTypeOK
  BY DEF ReconTypeOK, StoreTypeOK, ReconSteps, OutboundEvents
<1>2. HandsAreRight
  BY DEF HandsAreRight
<1>3. NotifiedIsFinal
  <2>1. \A i \in Intents : queued[i]["payment.succeeded"] = 0 /\ queued[i]["payment.failed"] = 0
    BY DEF OutboundEvents
  <2>2. ~(0 > 0)
    OBVIOUS
  <2> QED
    BY <2>1, <2>2, Zenon DEF NotifiedIsFinal
<1>4. OpenWasOpen /\ VerdictIsGateways
  BY DEF OpenWasOpen, VerdictIsGateways
<1> QED
  BY <1>1, <1>2, <1>3, <1>4 DEF VerdictInv

-----------------------------------------------------------------------------
(* Types, and what steps that write no row have in common.                 *)

LEMMA FaultTypes ==
    ASSUME StoreTypeOK, NEW kind, Fault(kind)
    PROVE  faults' \in 0 .. MaxFaults
BY StoreAssumption DEF StoreTypeOK, Fault

(* Another intent is taken: it is the only action that puts one in hand.   *)
LEMMA TakeIntentKeeps ==
    ASSUME VerdictInv, NEW p \in Runs, TakeIntent(p)
    PROVE  VerdictInv'
<1> USE ReconAssumption, StoreAssumption
<1>1. PICK i \in batch[p] :
        /\ batch' = [batch EXCEPT ![p] = @ \ {i}]
        /\ \/ i \in AtGateway /\ ReconGoto(p, "fetching") /\ current' = [current EXCEPT ![p] = i]
           \/ i \notin AtGateway /\ ReconGoto(p, "abandoning") /\ current' = [current EXCEPT ![p] = i]
           \/ UNCHANGED <<reconPc, current>>
  BY DEF TakeIntent
<1>2. UNCHANGED <<store, age, answer>> /\ reconPc[p] = "looping" /\ i \in Intents
  BY <1>1 DEF TakeIntent, VerdictInv, ReconTypeOK
<1>3. ReconTypeOK'
  <2>1. batch' \in [Runs -> SUBSET Intents]
    BY <1>1, <1>2 DEF VerdictInv, ReconTypeOK
  <2>2. CASE UNCHANGED <<reconPc, current>>
    BY <1>2, <2>1, <2>2 DEF VerdictInv, ReconTypeOK, StoreTypeOK, store
  <2>3. ASSUME NEW step \in {"fetching", "abandoning"}, ReconGoto(p, step),
               current' = [current EXCEPT ![p] = i]
        PROVE  ReconTypeOK'
    <3>1. \A r \in Runs : current'[r] = NoIntent <=> reconPc'[r] \in {"idle", "looping"}
      BY <1>2, <2>3 DEF VerdictInv, ReconTypeOK, ReconGoto
    <3>2. reconPc' \in [Runs -> ReconSteps] /\ current' \in [Runs -> Intents \cup {NoIntent}]
      BY <1>2, <2>3 DEF VerdictInv, ReconTypeOK, ReconGoto, ReconSteps
    <3> QED
      BY <1>2, <2>1, <3>1, <3>2 DEF VerdictInv, ReconTypeOK, StoreTypeOK, store
  <2> QED
    BY <1>1, <2>2, <2>3
<1>4. HandsAreRight'
  BY <1>1, <1>2 DEF VerdictInv, ReconTypeOK, HandsAreRight, Decided, ReconGoto, store
<1> QED
  BY <1>2, <1>3, <1>4 DEF VerdictInv, NotifiedIsFinal, Decided, OpenWasOpen, VerdictIsGateways, store

(* A run that has nothing in hand waits for no call about an intent.       *)
LEMMA LettingGoKeeps ==
    ASSUME VerdictInv, NEW p \in Runs, NEW step \in {"idle", "looping"},
           ReconGoto(p, step), current' = [current EXCEPT ![p] = NoIntent],
           batch' \in [Runs -> SUBSET Intents], StoreTypeOK',
           answer' \in [Runs -> {"PENDING", "CAPTURED", "FAILED"}],
           \A q \in Runs \ {p} : answer'[q] = answer[q],
           UNCHANGED <<age, status, settled, queued>>
    PROVE  VerdictInv'
<1> USE ReconAssumption DEF VerdictInv
<1>1. ReconTypeOK'
  BY DEF ReconTypeOK, ReconGoto, ReconSteps
<1>2. HandsAreRight'
  BY DEF HandsAreRight, Decided, ReconGoto, ReconTypeOK
<1>3. NotifiedIsFinal' /\ OpenWasOpen' /\ VerdictIsGateways'
  BY DEF NotifiedIsFinal, Decided, OpenWasOpen, VerdictIsGateways
<1> QED
  BY <1>1, <1>2, <1>3

LEMMA AbandonKeeps ==
    ASSUME VerdictInv, NEW p \in Runs, Abandon(p)
    PROVE  VerdictInv'
<1> USE ReconAssumption DEF VerdictInv
<1>1. /\ current[p] \in Intents \ AtGateway
      /\ status' = [status EXCEPT ![current[p]] = "FAILED"]
      /\ reconPc' = [reconPc EXCEPT ![p] = "looping"]
      /\ current' = [current EXCEPT ![p] = NoIntent]
      /\ UNCHANGED <<refunded, queued, settled, paidBack, faults, age, batch, answer>>
  BY DEF Abandon, HandsAreRight, UpdateStatus, NextIntent, ReconGoto
<1>2. ReconTypeOK'
  BY <1>1 DEF ReconTypeOK, StoreTypeOK, ReconSteps, Statuses
<1>3. HandsAreRight'
  BY <1>1 DEF HandsAreRight, Decided, ReconTypeOK, StoreTypeOK
<1>4. NotifiedIsFinal' /\ OpenWasOpen' /\ VerdictIsGateways'
  BY <1>1 DEF NotifiedIsFinal, Decided, OpenWasOpen, VerdictIsGateways, ReconTypeOK, StoreTypeOK
<1> QED
  BY <1>2, <1>3, <1>4

LEMMA FetchKeeps ==
    ASSUME VerdictInv, NEW p \in Runs, Fetch(p), answer'[p] # "PENDING"
    PROVE  VerdictInv'
<1> USE ReconAssumption DEF VerdictInv
<1>1. /\ current[p] \in AtGateway /\ current[p] \in Intents
      /\ settled[current[p]] \in {"CAPTURED", "FAILED"}
      /\ answer' = [answer EXCEPT ![p] = settled[current[p]]]
      /\ reconPc[p] = "fetching"
      /\ reconPc' = [reconPc EXCEPT ![p] = "updating"]
      /\ UNCHANGED <<store, age, batch, current>>
  BY StoreAssumption DEF Fetch, HandsAreRight, GatewayAnswer, ReconGoto, ReconTypeOK
<1>2. ReconTypeOK'
  BY <1>1 DEF ReconTypeOK, StoreTypeOK, ReconSteps, store
<1>3. HandsAreRight'
  BY <1>1 DEF HandsAreRight, Decided, ReconTypeOK, store
<1>4. NotifiedIsFinal' /\ OpenWasOpen' /\ VerdictIsGateways'
  BY <1>1 DEF NotifiedIsFinal, Decided, OpenWasOpen, VerdictIsGateways, store
<1> QED
  BY <1>2, <1>3, <1>4

LEMMA UpdateKeeps ==
    ASSUME VerdictInv, NEW p \in Runs, Update(p)
    PROVE  VerdictInv'
<1> USE ReconAssumption DEF VerdictInv
<1> DEFINE i == current[p]
<1>1. /\ i \in Intents /\ Decided(i) /\ reconPc[p] = "updating"
      /\ status' = [status EXCEPT ![i] = settled[i]]
      /\ answer[p] = settled[i]
      /\ reconPc' = [reconPc EXCEPT ![p] = "dispatching"]
      /\ UNCHANGED <<refunded, queued, settled, paidBack, faults, age, batch, current, answer>>
  BY StoreAssumption DEF Update, HandsAreRight, Decided, UpdateStatus, ReconGoto
<1>2. ReconTypeOK'
  BY <1>1 DEF ReconTypeOK, StoreTypeOK, ReconSteps, Decided, Statuses
<1>3. HandsAreRight'
  BY <1>1 DEF HandsAreRight, Decided, ReconTypeOK, StoreTypeOK
<1>4. NotifiedIsFinal' /\ OpenWasOpen' /\ VerdictIsGateways'
  BY <1>1 DEF NotifiedIsFinal, Decided, OpenWasOpen, VerdictIsGateways, ReconTypeOK, StoreTypeOK
<1> QED
  BY <1>2, <1>3, <1>4

LEMMA DispatchKeeps ==
    ASSUME VerdictInv, NEW p \in Runs, Dispatch(p)
    PROVE  VerdictInv'
<1> USE ReconAssumption DEF VerdictInv
<1> DEFINE i == current[p]  e == NotificationOf(answer[p])
<1>1. /\ i \in Intents /\ Decided(i) /\ reconPc[p] = "dispatching"
      /\ answer[p] = settled[i] /\ status[i] = answer[p]
      /\ queued' = [queued EXCEPT ![i][e] = @ + 1]
      /\ reconPc' = [reconPc EXCEPT ![p] = "looping"]
      /\ current' = [current EXCEPT ![p] = NoIntent]
      /\ UNCHANGED <<status, refunded, settled, paidBack, faults, age, batch, answer>>
  BY StoreAssumption
     DEF Dispatch, HandsAreRight, Decided, Enqueue, NextIntent, ReconGoto
<1>2. /\ e = IF settled[i] = "CAPTURED" THEN "payment.succeeded" ELSE "payment.failed"
      /\ queued \in [Intents -> [OutboundEvents -> Nat]]
  BY <1>1 DEF NotificationOf, ReconTypeOK, StoreTypeOK
<1>3. queued' \in [Intents -> [OutboundEvents -> Nat]]
  BY <1>1, <1>2 DEF OutboundEvents
<1>4. ReconTypeOK'
  BY <1>1, <1>3 DEF ReconTypeOK, StoreTypeOK, ReconSteps
<1>5. HandsAreRight'
  BY <1>1 DEF HandsAreRight, Decided, ReconTypeOK
<1>6. NotifiedIsFinal'
  <2> SUFFICES ASSUME NEW j \in Intents
               PROVE  /\ queued'[j]["payment.succeeded"] > 0 =>
                             Decided(j) /\ settled[j] = "CAPTURED" /\ status[j] = "CAPTURED"
                      /\ queued'[j]["payment.failed"] > 0 =>
                             Decided(j) /\ settled[j] = "FAILED" /\ status[j] = "FAILED"
    BY <1>1 DEF NotifiedIsFinal, Decided
  <2>1. CASE j # i
    BY <1>1, <1>2, <2>1 DEF NotifiedIsFinal
  <2>2. CASE j = i /\ settled[i] = "CAPTURED"
    <3>1. queued'[j]["payment.failed"] = queued[j]["payment.failed"]
      BY <1>1, <1>2, <2>2 DEF OutboundEvents
    <3> QED
      BY <1>1, <2>2, <3>1 DEF NotifiedIsFinal
  <2>3. CASE j = i /\ settled[i] = "FAILED"
    <3>1. queued'[j]["payment.succeeded"] = queued[j]["payment.succeeded"]
      BY <1>1, <1>2, <2>3 DEF OutboundEvents
    <3> QED
      BY <1>1, <2>3, <3>1 DEF NotifiedIsFinal
  <2> QED
    BY <1>1, <2>1, <2>2, <2>3 DEF Decided
<1>7. OpenWasOpen' /\ VerdictIsGateways'
  BY <1>1 DEF OpenWasOpen, VerdictIsGateways
<1> QED
  BY <1>4, <1>5, <1>6, <1>7

LEMMA SettlingKeeps ==
    ASSUME VerdictInv, PaymentsMove
    PROVE  VerdictInv'
<1> USE ReconAssumption, StoreAssumption DEF VerdictInv
<1>1. PICK i \in Intents, s \in {"CAPTURED", "FAILED"} :
        /\ i \in AtGateway /\ settled[i] = "PENDING" /\ settled' = [settled EXCEPT ![i] = s]
        /\ UNCHANGED <<status, refunded, queued, paidBack, faults, reconVars>>
  BY DEF PaymentsMove, GatewaySettles
<1>2. ReconTypeOK'
  BY <1>1 DEF ReconTypeOK, StoreTypeOK, reconVars, Statuses
<1>3. HandsAreRight'
  BY <1>1 DEF HandsAreRight, Decided, ReconTypeOK, StoreTypeOK, reconVars
<1>4. NotifiedIsFinal' /\ OpenWasOpen' /\ VerdictIsGateways'
  BY <1>1 DEF NotifiedIsFinal, Decided, OpenWasOpen, VerdictIsGateways, ReconTypeOK, StoreTypeOK
<1> QED
  BY <1>2, <1>3, <1>4

LEMMA VerdictInvStep ==
    ASSUME VerdictInv, [ReconNext \/ PaymentsMove]_<<store, reconVars>>
    PROVE  VerdictInv'
<1>1. CASE UNCHANGED <<store, reconVars>>
  BY <1>1 DEF VerdictInv, ReconTypeOK, StoreTypeOK, HandsAreRight, NotifiedIsFinal, Decided,
              OpenWasOpen, VerdictIsGateways, store, reconVars
<1>2. ASSUME NEW p \in Runs, Scan(p) PROVE VerdictInv'
  <2>1. /\ reconPc' = [reconPc EXCEPT ![p] = "looping"] /\ reconPc[p] = "idle"
        /\ batch' = [batch EXCEPT ![p] = StaleIntents] /\ StaleIntents \subseteq Intents
        /\ UNCHANGED <<store, age, current, answer>>
    BY <1>2 DEF Scan, StaleIntents, ReconGoto
  <2>2. ReconTypeOK'
    BY <2>1 DEF VerdictInv, ReconTypeOK, StoreTypeOK, ReconSteps, store
  <2>3. HandsAreRight'
    BY <2>1 DEF VerdictInv, HandsAreRight, Decided, ReconTypeOK, store
  <2> QED
    BY <2>1, <2>2, <2>3
       DEF VerdictInv, NotifiedIsFinal, Decided, OpenWasOpen, VerdictIsGateways, store
<1>3. ASSUME NEW p \in Runs, ScanFails(p) PROVE VerdictInv'
  <2>1. StoreTypeOK'
    BY <1>3, FaultTypes DEF ScanFails, VerdictInv, ReconTypeOK, StoreTypeOK
  <2> QED
    BY <1>3, <2>1 DEF ScanFails, VerdictInv, ReconTypeOK, HandsAreRight, NotifiedIsFinal, Decided,
                      OpenWasOpen, VerdictIsGateways, reconVars
<1>4. ASSUME NEW p \in Runs, FinishRun(p) \/ (Fetch(p) /\ answer'[p] = "PENDING") PROVE VerdictInv'
  <2>1. /\ \E step \in {"idle", "looping"} : ReconGoto(p, step)
        /\ UNCHANGED <<store, age, batch>>
        /\ current' = [current EXCEPT ![p] = NoIntent]
    BY <1>4 DEF FinishRun, Fetch, NextIntent, VerdictInv, ReconTypeOK
  <2>2. /\ answer' \in [Runs -> {"PENDING", "CAPTURED", "FAILED"}]
        /\ \A q \in Runs \ {p} : answer'[q] = answer[q]
    BY <1>4 DEF FinishRun, Fetch, GatewayAnswer, VerdictInv, ReconTypeOK
  <2>3. StoreTypeOK' /\ batch' \in [Runs -> SUBSET Intents]
    BY <2>1 DEF VerdictInv, ReconTypeOK, StoreTypeOK, store
  <2> QED
    BY <2>1, <2>2, <2>3, LettingGoKeeps DEF store
<1>5. ASSUME NEW p \in Runs, FetchFails(p) \/ UpdateFails(p) \/ DispatchFails(p) \/ ReconCrash(p)
      PROVE  VerdictInv'
  <2>1. /\ UNCHANGED faults \/ \E kind \in Faults : Fault(kind)
        /\ UNCHANGED <<status, refunded, queued, settled, paidBack, age, answer>>
        /\ \E step \in {"idle", "looping"} : ReconGoto(p, step)
        /\ current' = [current EXCEPT ![p] = NoIntent]
        /\ UNCHANGED batch \/ batch' = [batch EXCEPT ![p] = {}]
    BY <1>5 DEF FetchFails, UpdateFails, DispatchFails, ReconCrash, NextIntent, Faults
  <2>2. StoreTypeOK' /\ batch' \in [Runs -> SUBSET Intents]
    BY <2>1, FaultTypes DEF VerdictInv, ReconTypeOK, StoreTypeOK
  <2>3. answer' \in [Runs -> {"PENDING", "CAPTURED", "FAILED"}]
    BY <2>1 DEF VerdictInv, ReconTypeOK
  <2> QED
    BY <2>1, <2>2, <2>3, LettingGoKeeps
<1>6. ASSUME NEW i \in Intents, GrowOld(i) PROVE VerdictInv'
  BY <1>6 DEF GrowOld, VerdictInv, ReconTypeOK, StoreTypeOK, HandsAreRight, NotifiedIsFinal,
              Decided, OpenWasOpen, VerdictIsGateways, store
<1> QED
  BY <1>1, <1>2, <1>3, <1>4, <1>5, <1>6, TakeIntentKeeps, AbandonKeeps, FetchKeeps, UpdateKeeps,
     DispatchKeeps, SettlingKeeps DEF ReconNext, ReconStep

-----------------------------------------------------------------------------
LEMMA VerdictInvariant == ReconSpec => []VerdictInv
<1>1. VerdictInv /\ [ReconNext \/ PaymentsMove]_<<store, reconVars>> => VerdictInv'
  BY VerdictInvStep
<1> QED
  BY VerdictInvInit, <1>1, PTL DEF ReconSpec

(* However many runs go through the same rows, the status they leave is    *)
(* the gateway's verdict, or FAILED where nothing ever got to a gateway.   *)
THEOREM StoredVerdicts == ReconSpec => []VerdictIsGateways
<1>1. VerdictInv => VerdictIsGateways
  BY DEF VerdictInv
<1> QED
  BY <1>1, VerdictInvariant, PTL

(* The merchant is told the verdict that is stored, and no later run takes *)
(* it back.                                                                *)
THEOREM NotifiedVerdicts == ReconSpec => []NotifiedVerdictIsStored
<1>1. VerdictInv => NotifiedVerdictIsStored
  BY DEF VerdictInv, NotifiedIsFinal, NotifiedVerdictIsStored
<1> QED
  BY <1>1, VerdictInvariant, PTL

-----------------------------------------------------------------------------
(* Compensating events.  A run that may still announce an intent holds it: *)
(* it has the intent in its batch or in hand, never in both.  A run gets   *)
(* hold only of intents that are PENDING, which nothing was announced of;  *)
(* to announce is to let go.                                               *)

Holders(i) == {p \in Runs : i \in batch[p] \/ current[p] = i}

Announced(i) == queued[i]["payment.succeeded"] + queued[i]["payment.failed"]

HeldOnce ==
    \A p \in Runs :
        /\ current[p] \notin batch[p]
        /\ reconPc[p] = "idle" => batch[p] = {}

AnnouncedWithinRuns ==
    \A i \in Intents : Announced(i) + Cardinality(Holders(i)) <= Cardinality(Runs)

LEMMA HoldersFinite ==
    ASSUME IsFiniteSet(Runs), NEW i, NEW T \in SUBSET Holders(i)
    PROVE  /\ IsFiniteSet(T) /\ Cardinality(T) \in Nat /\ Cardinality(Runs) \in Nat
           /\ Cardinality(T) <= Cardinality(Holders(i))
           /\ Cardinality(Holders(i)) <= Cardinality(Runs)
           /\ IsFiniteSet(Holders(i)) /\ Cardinality(Holders(i)) \in Nat
<1>1. Holders(i) \in SUBSET Runs
  BY DEF Holders
<1>2. IsFiniteSet(Holders(i)) /\ Cardinality(Holders(i)) <= Cardinality(Runs)
  BY <1>1, FS_Subset
<1>3. IsFiniteSet(T) /\ Cardinality(T) <= Cardinality(Holders(i))
  BY <1>2, FS_Subset
<1> QED
  BY <1>2, <1>3, FS_CardinalityType

LEMMA AnnouncedIsNat ==
    ASSUME VerdictInv, NEW i \in Intents
    PROVE  /\ queued[i]["payment.succeeded"] \in Nat /\ queued[i]["payment.failed"] \in Nat
           /\ Announced(i) \in Nat
           /\ status[i] = "PENDING" => Announced(i) = 0
<1>1. queued[i]["payment.succeeded"] \in Nat /\ queued[i]["payment.failed"] \in Nat
  BY DEF VerdictInv, ReconTypeOK, StoreTypeOK, OutboundEvents
<1>2. status[i] = "PENDING" =>
        ~(queued[i]["payment.succeeded"] > 0) /\ ~(queued[i]["payment.failed"] > 0)
  BY DEF VerdictInv, NotifiedIsFinal
<1> QED
  BY <1>1, <1>2 DEF Announced

(* The three ways the events and the holders of an intent change.          *)
LEMMA AnnouncedCount ==
    ASSUME IsFiniteSet(Runs), VerdictInv, VerdictInv', AnnouncedWithinRuns, NEW i \in Intents,
           \/ Announced(i)' = Announced(i) /\ Holders(i)' \subseteq Holders(i)
           \/ Announced(i)' = 0
           \/ /\ Announced(i)' = Announced(i) + 1
              /\ \E p \in Holders(i) : Holders(i)' \subseteq Holders(i) \ {p}
    PROVE  Announced(i)' + Cardinality(Holders(i)') <= Cardinality(Runs)
<1>1. /\ Announced(i) \in Nat /\ Cardinality(Runs) \in Nat /\ Cardinality(Holders(i)) \in Nat
      /\ IsFiniteSet(Holders(i))
      /\ Announced(i) + Cardinality(Holders(i)) <= Cardinality(Runs)
  BY AnnouncedIsNat, HoldersFinite DEF AnnouncedWithinRuns
<1>2. CASE Announced(i)' = 0
  <2>1. Holders(i)' \in SUBSET Runs
    BY DEF Holders
  <2>2. Cardinality(Holders(i)') <= Cardinality(Runs) /\ IsFiniteSet(Holders(i)')
    BY <2>1, FS_Subset
  <2>3. Cardinality(Holders(i)') \in Nat
    BY <2>2, FS_CardinalityType
  <2> QED
    BY <1>1, <1>2, <2>2, <2>3
<1>3. CASE Announced(i)' = Announced(i) /\ Holders(i)' \subseteq Holders(i)
  <2>1. /\ Cardinality(Holders(i)') \in Nat
        /\ Cardinality(Holders(i)') <= Cardinality(Holders(i))
    BY <1>3, HoldersFinite
  <2> QED
    BY <1>1, <1>3, <2>1
<1>4. ASSUME Announced(i)' = Announced(i) + 1, NEW p \in Holders(i),
             Holders(i)' \subseteq Holders(i) \ {p}
      PROVE  Announced(i)' + Cardinality(Holders(i)') <= Cardinality(Runs)
  <2>1. /\ IsFiniteSet(Holders(i) \ {p})
        /\ Cardinality(Holders(i) \ {p}) = Cardinality(Holders(i)) - 1
    BY <1>1, FS_RemoveElement
  <2>2. IsFiniteSet(Holders(i)') /\ Cardinality(Holders(i)') <= Cardinality(Holders(i) \ {p})
    BY <1>4, <2>1, FS_Subset
  <2>3. Cardinality(Holders(i)') \in Nat
    BY <2>2, FS_CardinalityType
  <2> QED
    BY <1>1, <1>4, <2>1, <2>2, <2>3
<1> QED
  BY <1>2, <1>3, <1>4

LEMMA HeldOnceInit == ReconciliationInit => HeldOnce
BY ReconAssumption DEF ReconciliationInit, ReconInit, HeldOnce

LEMMA AnnouncedInit ==
    ASSUME IsFiniteSet(Runs), ReconciliationInit
    PROVE  AnnouncedWithinRuns
<1> SUFFICES ASSUME NEW i \in Intents
             PROVE  Announced(i) + Cardinality(Holders(i)) <= Cardinality(Runs)
  BY DEF AnnouncedWithinRuns
<1>1. Announced(i) = 0
  BY DEF ReconciliationInit, StoreInit, Announced, OutboundEvents
<1>2. Holders(i) \in SUBSET Runs
  BY DEF Holders
<1>3. IsFiniteSet(Holders(i)) /\ Cardinality(Holders(i)) <= Cardinality(Runs)
  BY <1>2, FS_Subset
<1>4. Cardinality(Holders(i)) \in Nat
  BY <1>3, FS_CardinalityType
<1> QED
  BY <1>1, <1>3, <1>4

LEMMA HeldOnceStep ==
    ASSUME VerdictInv, HeldOnce, ReconNext \/ PaymentsMove
    PROVE  HeldOnce'
<1> USE ReconAssumption DEF HeldOnce, VerdictInv, ReconTypeOK, ReconGoto
<1>1. ASSUME NEW p \in Runs, Scan(p) PROVE HeldOnce'
  BY <1>1 DEF Scan, StaleIntents
<1>2. ASSUME NEW p \in Runs, TakeIntent(p) PROVE HeldOnce'
  BY <1>2 DEF TakeIntent
<1>3. ASSUME NEW p \in Runs,
             FinishRun(p) \/ Fetch(p) \/ Update(p) \/ Abandon(p) \/ Dispatch(p)
      PROVE  HeldOnce'
  BY <1>3 DEF FinishRun, Fetch, Update, Abandon, Dispatch, NextIntent
<1>4. ASSUME NEW p \in Runs,
             ScanFails(p) \/ FetchFails(p) \/ UpdateFails(p) \/ DispatchFails(p) \/ ReconCrash(p)
      PROVE  HeldOnce'
  BY <1>4 DEF ScanFails, FetchFails, UpdateFails, DispatchFails, ReconCrash, NextIntent, reconVars
<1>5. ASSUME (\E i \in Intents : GrowOld(i)) \/ PaymentsMove PROVE HeldOnce'
  BY <1>5 DEF GrowOld, PaymentsMove, reconVars
<1> QED
  BY <1>1, <1>2, <1>3, <1>4, <1>5 DEF ReconNext, ReconStep

LEMMA AnnouncedStep ==
    ASSUME IsFiniteSet(Runs), VerdictInv, VerdictInv', HeldOnce, AnnouncedWithinRuns,
           ReconNext \/ PaymentsMove
    PROVE  AnnouncedWithinRuns'
<1> USE ReconAssumption DEF VerdictInv, ReconTypeOK
<1>1. ASSUME NEW i \in Intents
      PROVE  \/ Announced(i)' = Announced(i) /\ Holders(i)' \subseteq Holders(i)
             \/ Announced(i)' = 0
             \/ /\ Announced(i)' = Announced(i) + 1
                /\ \E p \in Holders(i) : Holders(i)' \subseteq Holders(i) \ {p}
  <2>1. CASE \E p \in Runs : Scan(p)
    <3>1. PICK p \in Runs : Scan(p)
      BY <2>1
    <3>2. Announced(i)' = Announced(i)
      BY <3>1 DEF Scan, store, Announced
    <3>3. CASE status[i] = "PENDING"
      BY <3>2, <3>3, AnnouncedIsNat
    <3>4. CASE status[i] # "PENDING"
      BY <3>1, <3>2, <3>4 DEF Scan, StaleIntents, Holders
    <3> QED
      BY <3>3, <3>4
  <2>2. CASE \E p \in Runs : Dispatch(p)
    <3>1. PICK p \in Runs : Dispatch(p)
      BY <2>2
    <3>2. /\ current[p] \in Intents
          /\ current' = [current EXCEPT ![p] = NoIntent] /\ batch' = batch
          /\ \E e \in {"payment.succeeded", "payment.failed"} :
                queued' = [queued EXCEPT ![current[p]][e] = @ + 1]
      BY <3>1 DEF Dispatch, NextIntent, Enqueue, NotificationOf
    <3>3. CASE i = current[p]
      <4>1. p \in Holders(i) /\ Holders(i)' \subseteq Holders(i) \ {p}
        BY <3>2, <3>3 DEF Holders, HeldOnce
      <4>2. PICK e \in {"payment.succeeded", "payment.failed"} :
              queued' = [queued EXCEPT ![i][e] = @ + 1]
        BY <3>2, <3>3
      <4>3. \A f \in {"payment.succeeded", "payment.failed"} :
              queued'[i][f] = IF f = e THEN queued[i][f] + 1 ELSE queued[i][f]
        BY <4>2 DEF StoreTypeOK, OutboundEvents
      <4>4. Announced(i)' = Announced(i) + 1
        BY <4>3, AnnouncedIsNat DEF Announced
      <4> QED
        BY <4>1, <4>4
    <3>4. CASE i # current[p]
      BY <3>2, <3>4 DEF Holders, Announced, StoreTypeOK
    <3> QED
      BY <3>3, <3>4
  <2>3. CASE ~(\E p \in Runs : Scan(p)) /\ ~(\E p \in Runs : Dispatch(p))
    <3>1. Announced(i)' = Announced(i)
      BY <2>3 DEF ReconNext, ReconStep, PaymentsMove, GatewaySettles, ScanFails, TakeIntent,
                  FinishRun, Abandon, Fetch, FetchFails, Update, UpdateFails, DispatchFails,
                  ReconCrash, GrowOld, Announced, store
    <3>2. CASE \E p \in Runs : TakeIntent(p)
      BY <3>1, <3>2 DEF TakeIntent, Holders
    <3>3. CASE ~\E p \in Runs : TakeIntent(p)
      <4>1. /\ \A p \in Runs : batch'[p] \subseteq batch[p]
            /\ \A p \in Runs : current'[p] \in {current[p], NoIntent}
        BY <2>3, <3>3
           DEF ReconNext, ReconStep, PaymentsMove, ScanFails, FinishRun, Abandon, Fetch, FetchFails,
               Update, UpdateFails, DispatchFails, ReconCrash, GrowOld, NextIntent, reconVars
      <4> QED
        BY <3>1, <4>1 DEF Holders
    <3> QED
      BY <3>2, <3>3
  <2> QED
    BY <2>1, <2>2, <2>3
<1> QED
  BY <1>1, AnnouncedCount, Zenon DEF AnnouncedWithinRuns

(* A merchant gets at most one compensating event for a payment from each  *)
(* run that is at work at the same time, however many follow each other.   *)
THEOREM EventsWithinRuns ==
    ASSUME IsFiniteSet(Runs)
    PROVE  ReconSpec => []CompensatedOnce
<1>1. HeldOnce /\ AnnouncedWithinRuns /\ UNCHANGED <<store, reconVars>>
        => HeldOnce' /\ AnnouncedWithinRuns'
  BY DEF HeldOnce, AnnouncedWithinRuns, Announced, Holders, store, reconVars
<1>2. VerdictInv /\ VerdictInv' /\ HeldOnce /\ AnnouncedWithinRuns
        /\ [ReconNext \/ PaymentsMove]_<<store, reconVars>>
        => HeldOnce' /\ AnnouncedWithinRuns'
  BY <1>1, HeldOnceStep, AnnouncedStep
<1>3. VerdictInv /\ AnnouncedWithinRuns => CompensatedOnce
  <2> SUFFICES ASSUME VerdictInv, AnnouncedWithinRuns, NEW i \in Intents
               PROVE  Announced(i) <= Cardinality(Runs)
    BY DEF CompensatedOnce, Announced
  <2>1. /\ Announced(i) \in Nat /\ Cardinality(Holders(i)) \in Nat /\ Cardinality(Runs) \in Nat
        /\ Announced(i) + Cardinality(Holders(i)) <= Cardinality(Runs)
    BY AnnouncedIsNat, HoldersFinite DEF AnnouncedWithinRuns
  <2> QED
    BY <2>1
<1>4. ReconciliationInit => HeldOnce /\ AnnouncedWithinRuns
  BY HeldOnceInit, AnnouncedInit
<1> QED
  BY <1>2, <1>3, <1>4, VerdictInvariant, PTL DEF ReconSpec

=============================================================================
