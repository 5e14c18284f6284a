------------------------ MODULE GuardedRefundProofs ------------------------
(***************************************************************************)
(* Proofs about IdempotentRefunds for every set of requests, keys and      *)
(* intents.  The composition does to the keys what the interceptor does    *)
(* and to the refunds what processRefund does, so what is proved of each   *)
(* alone holds of both together; what a merchant gets by the two needs an  *)
(* invariant across them.                                                  *)
(***************************************************************************)
EXTENDS IdempotentRefunds, RefundProofs

Guard == INSTANCE IdempotencyProofs

(* The assumptions of the interceptor hold here. *)
LEMMA GuardConstants ==
    /\ KeyOf \in [Requests -> Keys \cup {NoKey}] /\ NoKey \notin Keys
    /\ Absent # InFlight /\ {Absent, InFlight, NoResult} \cap Requests = {}
    /\ Expiring \subseteq Keys /\ {DbMayFail, MayCrash} \subseteq BOOLEAN
BY GuardAssumption, LifetimeAssumption

-----------------------------------------------------------------------------
(* The parts of the composition. *)

(* Each step by what it does to the two parts. *)
LEMMA StepCases ==
    ASSUME [Next]_vars
    PROVE  \/ UNCHANGED <<store, refundVars, guardVars, paid>>
           \/ \E q \in Requests : InterceptorAct(q)
           \/ \E q \in Requests : HandlerAct(q)
           \/ \E q \in Requests : HandlerReturns(q)
           \/ \E q \in Requests : UnguardedReturns(q)
           \/ \E q \in Requests : RequestDies(q)
BY DEF Next, vars

LEMMA InterceptorStep == [Next]_vars => [Guard!Next]_(Guard!vars)
<1> SUFFICES ASSUME [Next]_vars PROVE [Guard!Next]_(Guard!vars)
  OBVIOUS
<1> USE DEF Guard!Next, Guard!Step
<1>1. CASE UNCHANGED guardVars
  BY <1>1 DEF guardVars, Guard!vars
<1>2. ASSUME NEW q \in Requests, InterceptorAct(q) PROVE Guard!Next
  BY <1>2
     DEF InterceptorAct,
         Interceptor!Bypass, Interceptor!Lookup, Interceptor!Create, Interceptor!CreateConflicts,
         Interceptor!CreateFails, Interceptor!CacheResult, Interceptor!Release,
         Interceptor!LookupMiss, Interceptor!LookupExpired, Interceptor!LookupReplays,
         Interceptor!LookupConflicts, Interceptor!LookupFails,
         Interceptor!Goto, Interceptor!Answer, Interceptor!AnswerWith, Interceptor!RemoveRow,
         Guard!Bypass, Guard!Lookup, Guard!Create, Guard!CreateConflicts,
         Guard!CreateFails, Guard!CacheResult, Guard!Release,
         Guard!LookupMiss, Guard!LookupExpired, Guard!LookupReplays,
         Guard!LookupConflicts, Guard!LookupFails,
         Guard!Goto, Guard!Answer, Guard!AnswerWith, Guard!RemoveRow
<1>3. ASSUME NEW q \in Requests, HandlerReturns(q) \/ UnguardedReturns(q) \/ RequestDies(q)
      PROVE  Guard!Next
  BY <1>3
     DEF HandlerReturns, UnguardedReturns, RequestDies,
         Interceptor!HandlerSucceeds, Interceptor!HandlerFails, Interceptor!BypassReturns,
         Interceptor!Crash, Interceptor!Goto, Interceptor!Answer, Interceptor!AnswerWith,
         Guard!HandlerSucceeds, Guard!HandlerFails, Guard!BypassReturns,
         Guard!Crash, Guard!Goto, Guard!Answer, Guard!AnswerWith
<1>4. ASSUME NEW q \in Requests, HandlerAct(q) PROVE UNCHANGED guardVars
  BY <1>4 DEF HandlerAct
<1> QED
  BY StepCases, <1>1, <1>2, <1>3, <1>4

(* What guards the refunds is the interceptor: its promises hold for them. *)
THEOREM GuardIsInterceptor == Spec => Guard!Spec
<1>1. Init => Guard!Init
  BY DEF Init, Interceptor!Init, Guard!Init
<1> QED
  BY <1>1, InterceptorStep, PTL DEF Spec, Guard!Spec

LEMMA HandlerStep == [Next]_vars => [RefundNext]_<<store, refundVars>>
BY StepCases
   DEF InterceptorAct, HandlerAct, HandlerReturns, UnguardedReturns, RequestDies, RefundNext,
       RefundStep

(* What the guard lets through are refunds: the books, the marks and the   *)
(* types of Refunds are kept behind it.                                    *)
THEOREM GuardedAreRefunds == Spec => RefundSpec
<1>1. Init => RefundsInit
  BY DEF Init, RefundsInit
<1> QED
  BY <1>1, HandlerStep, PTL DEF Spec, RefundSpec

-----------------------------------------------------------------------------
(* A refused refund may be retried. *)

(* A row in flight belongs to a request at work or to one that died, when  *)
(* the database rejects no call: a refund that was refused, or failed at   *)
(* the gateway, leaves its key free.                                       *)
THEOREM RefusedRetries ==
    ASSUME DbMayFail = FALSE
    PROVE  Spec => []RefusedMayRetry
<1>1. Guard!Spec => []Guard!FailureFreesKey
  BY GuardConstants, Guard!FailureFrees
<1>2. Guard!FailureFreesKey <=> RefusedMayRetry
  BY DEF Guard!FailureFreesKey, RefusedMayRetry, Interceptor!FailureFreesKey
<1> QED
  BY <1>1, <1>2, GuardIsInterceptor, PTL

-----------------------------------------------------------------------------
(* Where the interceptor is tells where the refund of a request can be. *)

GuardTypes == Guard!TypeOK /\ Guard!OnlyKeyedReserve

LEMMA GuardTypesHold == Spec => [](RefundTypeOK /\ GuardTypes)
<1>1. Guard!Spec => []Guard!TypeOK
  BY GuardConstants, Guard!TypeCorrect
<1>2. Guard!Spec => []Guard!ResultInv
  BY GuardConstants, Guard!ResultInvariant
<1>3. Guard!ResultInv => Guard!OnlyKeyedReserve
  BY DEF Guard!ResultInv
<1> QED
  BY <1>1, <1>2, <1>3, GuardIsInterceptor, GuardedAreRefunds, RefundTypesCorrect, PTL
     DEF GuardTypes

(* One step of processRefund, seen from outside. *)
LEMMA HandlerView ==
    ASSUME RefundTypeOK, OpenHasNoOutcome, NEW q \in Requests, ProcessRefund(q)
    PROVE  /\ refundPc[q] \in {"idle", "calling", "recording", "dispatching"}
           /\ \A p \in Requests \ {q} :
                 refundPc'[p] = refundPc[p] /\ outcome'[p] = outcome[p] /\ asked'[p] = asked[p]
           /\ outcome'[q] # outcome[q] => refundPc[q] = "calling" /\ refundPc'[q] = "recording"
           /\ OpenHasNoOutcome'
           /\ \A i \in Intents : refunded'[i] >= refunded[i]
<1> USE DEF ProcessRefund, ReadIntent, GatewayRefunds, GatewayRefundFails, RecordRefund, RecordFails,
            DispatchRefunded, DispatchRefundedFails, RefundGoto
<1>1. refundPc[q] \in {"idle", "calling", "recording", "dispatching"}
  OBVIOUS
<1>2. \A p \in Requests \ {q} :
         refundPc'[p] = refundPc[p] /\ outcome'[p] = outcome[p] /\ asked'[p] = asked[p]
  BY DEF RefundTypeOK
<1>3. outcome'[q] # outcome[q] => refundPc[q] = "calling" /\ refundPc'[q] = "recording"
  BY DEF RefundTypeOK
<1>4. OpenHasNoOutcome'
  BY OpenStep DEF RefundStep
<1>5. \A i \in Intents : refunded'[i] >= refunded[i]
  <2>1. UNCHANGED refunded \/ refunded' = [refunded EXCEPT ![IntentOf[q]] = @ + asked[q]]
    OBVIOUS
  <2>2. refunded \in [Intents -> Nat] /\ asked[q] \in Nat
    BY RefundNats
  <2> QED
    BY <2>1, <2>2
<1> QED
  BY <1>1, <1>2, <1>3, <1>4, <1>5

(* The death of a request takes its refund along. *)
LEMMA DeathView ==
    ASSUME RefundTypeOK, OpenHasNoOutcome, NEW q \in Requests, RequestDies(q)
    PROVE  /\ pc[q] \notin {"idle", "over", "crashed"} /\ Guard!Goto(q, "crashed")
           /\ UNCHANGED <<row, expired, reply, result, executed, outcome, asked, refunded>>
           /\ OpenHasNoOutcome'
           /\ \/ UNCHANGED refundPc
              \/ /\ refundPc[q] \in {"calling", "recording", "dispatching"}
                 /\ refundPc' = [refundPc EXCEPT ![q] = "crashed"]
<1>1. \/ UNCHANGED <<store, refundVars>>
      \/ Active(q) /\ RefundCrash(q)
  BY DEF RequestDies
<1>2. OpenHasNoOutcome'
  BY <1>1, OpenStep DEF RefundStep, store, refundVars, OpenHasNoOutcome
<1> QED
  BY <1>1, <1>2 DEF RequestDies, Interceptor!Crash, Interceptor!Goto, Guard!Goto, RefundCrash,
                    RefundGoto, Active, store, refundVars

(* The handler has not begun before the guard lets it. *)
NotBegun ==
    \A q \in Requests : pc[q] \in {"idle", "deleting", "creating"} => refundPc[q] = "idle"

LEMMA NotBegunStep ==
    ASSUME RefundTypeOK, GuardTypes, NotBegun, OpenHasNoOutcome, [Next]_vars
    PROVE  NotBegun' /\ OpenHasNoOutcome'
<1> USE DEF NotBegun, OpenHasNoOutcome, GuardTypes, Guard!TypeOK
<1>1. CASE UNCHANGED <<store, refundVars, guardVars, paid>>
  BY <1>1 DEF refundVars, guardVars
<1>2. ASSUME NEW q \in Requests, HandlerAct(q) PROVE NotBegun' /\ OpenHasNoOutcome'
  BY <1>2, HandlerView DEF HandlerAct, guardVars
<1>3. ASSUME NEW q \in Requests, RequestDies(q) PROVE NotBegun' /\ OpenHasNoOutcome'
  BY <1>3, DeathView DEF Guard!Goto, RefundTypeOK
<1>4. ASSUME NEW q \in Requests, InterceptorAct(q) PROVE NotBegun' /\ OpenHasNoOutcome'
  <2>1. UNCHANGED <<refundPc, outcome>>
    BY <1>4 DEF InterceptorAct, refundVars
  <2>2. pc'[q] \in {"deleting", "creating"} => pc[q] = "idle"
    BY <1>4
       DEF InterceptorAct,
           Interceptor!Bypass, Interceptor!Lookup, Interceptor!Create, Interceptor!CreateConflicts,
           Interceptor!CreateFails, Interceptor!CacheResult, Interceptor!Release, Interceptor!Goto
  <2>3. pc'[q] # "idle" /\ \A p \in Requests \ {q} : pc'[p] = pc[p]
    BY <1>4
       DEF InterceptorAct,
           Interceptor!Bypass, Interceptor!Lookup, Interceptor!Create, Interceptor!CreateConflicts,
           Interceptor!CreateFails, Interceptor!CacheResult, Interceptor!Release, Interceptor!Goto,
           Interceptor!LookupMiss, Interceptor!LookupExpired, Interceptor!LookupReplays,
           Interceptor!LookupConflicts, Interceptor!LookupFails
  <2> QED
    BY <2>1, <2>2, <2>3
<1>5. ASSUME NEW q \in Requests, HandlerReturns(q) \/ UnguardedReturns(q)
      PROVE  NotBegun' /\ OpenHasNoOutcome'
  <2>1. UNCHANGED <<refundPc, outcome>>
    BY <1>5 DEF HandlerReturns, UnguardedReturns, refundVars
  <2>2. \E step \in {"caching", "releasing", "over"} : pc' = [pc EXCEPT ![q] = step]
    BY <1>5 DEF HandlerReturns, UnguardedReturns, Interceptor!HandlerSucceeds,
                Interceptor!HandlerFails, Interceptor!BypassReturns, Interceptor!Goto
  <2> QED
    BY <2>1, <2>2
<1> QED
  BY StepCases, <1>1, <1>2, <1>3, <1>4, <1>5

-----------------------------------------------------------------------------
(* A second payment for a key. *)

(* A request has taken its key from its reservation until its release; one *)
(* that the gateway has paid for keeps it, unless it fails and gives it    *)
(* back.                                                                   *)
Took(q) ==
    /\ KeyOf[q] # NoKey
    /\ pc[q] \in {"handling", "caching", "releasing"} \/ (q \in paid /\ ~GivenBack(q))

OneTaker == \A p, q \in Requests : Took(p) /\ Took(q) /\ KeyOf[p] = KeyOf[q] => p = q

TakenHasRow == \A q \in Requests : Took(q) => row[KeyOf[q]] # Absent

ReleasingHasFailed ==
    \A q \in Requests : pc[q] = "releasing" => refundPc[q] \in {"refused", "failed"}

PaidIsPast ==
    /\ paid \subseteq Requests
    /\ \A q \in paid : refundPc[q] \in {"recording", "dispatching", "answered", "failed", "crashed"}

PaidInv ==
    /\ NotBegun
    /\ OpenHasNoOutcome
    /\ OneTaker
    /\ TakenHasRow
    /\ ReleasingHasFailed
    /\ PaidIsPast

LEMMA PaidInit == Init => PaidInv
BY GuardAssumption
   DEF Init, RefundInit, Interceptor!Init, PaidInv, NotBegun, OpenHasNoOutcome, OneTaker, TakenHasRow,
       ReleasingHasFailed, PaidIsPast, Took

(* Steps that give no request a key and take no row away. *)
LEMMA TakersKept ==
    ASSUME GuardTypes, PaidInv,
           \A q \in Requests : Took(q)' => Took(q),
           \A k \in Keys : row[k] # Absent => row'[k] # Absent
    PROVE  OneTaker' /\ TakenHasRow'
BY GuardAssumption DEF PaidInv, OneTaker, TakenHasRow, Took, GuardTypes

LEMMA PaidInterceptor ==
    ASSUME GuardTypes, PaidInv, NEW q \in Requests, InterceptorAct(q)
    PROVE  OneTaker' /\ TakenHasRow' /\ ReleasingHasFailed' /\ PaidIsPast'
<1>1. UNCHANGED <<refundPc, paid>> /\ pc \in [Requests -> Guard!Steps]
      /\ row \in [Keys -> Requests \cup {Absent, InFlight}]
      /\ KeyOf[q] \in Keys \cup {NoKey}
  BY GuardAssumption DEF InterceptorAct, refundVars, GuardTypes, Guard!TypeOK
<1>2. PaidIsPast'
  BY <1>1 DEF PaidInv, PaidIsPast
<1>3. CASE Interceptor!Create(q)
  <2>1. /\ row[KeyOf[q]] = Absent /\ pc[q] = "creating" /\ KeyOf[q] \in Keys
        /\ row' = [row EXCEPT ![KeyOf[q]] = InFlight]
        /\ pc' = [pc EXCEPT ![q] = "handling"]
    BY <1>1, <1>3 DEF Interceptor!Create, Interceptor!Goto, GuardTypes, Guard!OnlyKeyedReserve,
                      Guard!KeyedSteps
  <2>2. \A p \in Requests : Took(p) => KeyOf[p] # KeyOf[q]
    BY <2>1 DEF PaidInv, TakenHasRow
  <2>3. \A p \in Requests \ {q} : Took(p)' <=> Took(p)
    BY <1>1, <2>1 DEF Took, GivenBack
  <2>4. OneTaker'
    BY <2>2, <2>3 DEF PaidInv, OneTaker
  <2>5. TakenHasRow'
    <3>1. ASSUME NEW p \in Requests, Took(p)' PROVE row'[KeyOf[p]] # Absent
      <4>1. CASE p = q
        BY <1>1, <2>1, <4>1, GuardAssumption
      <4>2. CASE p # q
        <5>1. Took(p) /\ KeyOf[p] # KeyOf[q] /\ KeyOf[p] \in Keys
          BY <2>2, <2>3, <3>1, <4>2, GuardAssumption DEF Took
        <5> QED
          BY <1>1, <2>1, <5>1 DEF PaidInv, TakenHasRow
      <4> QED
        BY <4>1, <4>2
    <3> QED
      BY <3>1 DEF TakenHasRow
  <2> QED
    BY <1>1, <1>2, <2>1, <2>4, <2>5 DEF PaidInv, ReleasingHasFailed
<1>4. CASE Interceptor!Release(q)
  <2>1. /\ pc[q] = "releasing" /\ KeyOf[q] \in Keys
        /\ row' = row \/ row' = [row EXCEPT ![KeyOf[q]] = Absent]
        /\ pc' = [pc EXCEPT ![q] = "over"]
    BY <1>1, <1>4 DEF Interceptor!Release, Interceptor!Goto, Interceptor!RemoveRow, GuardTypes,
                      Guard!OnlyKeyedReserve, Guard!KeyedSteps
  <2>2. q \in paid => refundPc[q] = "failed"
    BY <2>1 DEF PaidInv, ReleasingHasFailed, PaidIsPast
  <2>3. Took(q) /\ ~Took(q)'
    BY <1>1, <2>1, <2>2, GuardAssumption DEF Took, GivenBack
  <2>4. \A p \in Requests \ {q} : (Took(p)' <=> Took(p)) /\ (Took(p) => KeyOf[p] # KeyOf[q])
    <3>1. \A p \in Requests \ {q} : Took(p)' <=> Took(p)
      BY <1>1, <2>1 DEF Took, GivenBack
    <3> QED
      BY <2>3, <3>1 DEF PaidInv, OneTaker
  <2>5. OneTaker'
    BY <2>3, <2>4 DEF PaidInv, OneTaker
  <2>6. TakenHasRow'
    <3>1. ASSUME NEW p \in Requests, Took(p)' PROVE row'[KeyOf[p]] # Absent
      <4>1. p # q /\ Took(p) /\ KeyOf[p] # KeyOf[q]
        BY <2>3, <2>4, <3>1
      <4>2. KeyOf[p] \in Keys /\ row[KeyOf[p]] # Absent
        BY <4>1, GuardAssumption DEF Took, PaidInv, TakenHasRow
      <4> QED
        BY <1>1, <2>1, <4>1, <4>2
    <3> QED
      BY <3>1 DEF TakenHasRow
  <2> QED
    BY <1>1, <1>2, <2>1, <2>5, <2>6 DEF PaidInv, ReleasingHasFailed
<1>5. CASE \/ Interceptor!Bypass(q) \/ Interceptor!Lookup(q) \/ Interceptor!CreateConflicts(q)
           \/ Interceptor!CreateFails(q) \/ Interceptor!CacheResult(q)
  <2>1. /\ pc[q] # "over"
        /\ \E step \in {"bypass", "deleting", "creating", "over"} : pc' = [pc EXCEPT ![q] = step]
    BY <1>5 DEF Interceptor!Bypass, Interceptor!Lookup, Interceptor!CreateConflicts,
                Interceptor!CreateFails, Interceptor!CacheResult, Interceptor!Goto,
                Interceptor!LookupMiss, Interceptor!LookupExpired, Interceptor!LookupReplays,
                Interceptor!LookupConflicts, Interceptor!LookupFails
  <2>2. \A p \in Requests : Took(p)' => Took(p)
    BY <1>1, <2>1 DEF Took, GivenBack
  <2>3. \/ row' = row
        \/ row' = [row EXCEPT ![KeyOf[q]] = InFlight]
        \/ row' = [row EXCEPT ![KeyOf[q]] = q]
    BY <1>5 DEF Interceptor!Bypass, Interceptor!Lookup, Interceptor!CreateConflicts,
                Interceptor!CreateFails, Interceptor!CacheResult
  <2>4. \A k \in Keys : row[k] # Absent => row'[k] # Absent
    BY <1>1, <2>3, GuardAssumption
  <2>5. OneTaker' /\ TakenHasRow'
    BY <2>2, <2>4, TakersKept
  <2> QED
    BY <1>1, <1>2, <2>1, <2>5 DEF PaidInv, ReleasingHasFailed
<1> QED
  BY <1>3, <1>4, <1>5 DEF InterceptorAct

(* The gateway pays for a request whose handler waits for it, and for no   *)
(* other.                                                                  *)
LEMMA PaymentView ==
    ASSUME RefundTypeOK, NEW q \in Requests, HandlerAct(q)
    PROVE  \/ paid' = paid
           \/ /\ refundPc[q] = "calling" /\ refundPc'[q] \in {"recording", "failed"}
              /\ paid' = paid \cup {q}
BY DEF HandlerAct, ProcessRefund, ReadIntent, GatewayRefunds, GatewayRefundFails, RecordRefund,
       RecordFails, DispatchRefunded, DispatchRefundedFails, RefundGoto, RefundTypeOK

LEMMA PaidHandler ==
    ASSUME RefundTypeOK, GuardTypes, PaidInv, NEW q \in Requests, HandlerAct(q)
    PROVE  OneTaker' /\ TakenHasRow' /\ ReleasingHasFailed' /\ PaidIsPast'
<1>1. /\ pc[q] \in {"handling", "bypass"} /\ UNCHANGED <<row, pc>> /\ ProcessRefund(q)
      /\ pc[q] = "bypass" => KeyOf[q] = NoKey
      /\ \A p \in Requests \ {q} : refundPc'[p] = refundPc[p]
  BY HandlerView DEF HandlerAct, guardVars, GuardTypes, Guard!OnlyKeyedReserve, PaidInv
<1>2. paid' \subseteq paid \cup {q}
  BY PaymentView
<1>3. \A p \in Requests : Took(p)' => Took(p)
  BY <1>1, <1>2 DEF Took, GivenBack
<1>4. OneTaker' /\ TakenHasRow'
  BY <1>1, <1>3, TakersKept
<1>5. ReleasingHasFailed'
  BY <1>1 DEF PaidInv, ReleasingHasFailed
<1>6. refundPc[q] \in {"recording", "dispatching"}
        => refundPc'[q] \in {"dispatching", "answered", "failed"}
  BY <1>1
     DEF ProcessRefund, ReadIntent, GatewayRefunds, GatewayRefundFails, RecordRefund, RecordFails,
         DispatchRefunded, DispatchRefundedFails, RefundGoto, RefundTypeOK
<1>7. refundPc[q] \in {"idle", "calling", "recording", "dispatching"}
  BY HandlerView DEF HandlerAct, PaidInv
<1>8. PaidIsPast'
  <2>1. ASSUME q \in paid'
        PROVE  refundPc'[q] \in {"recording", "dispatching", "answered", "failed", "crashed"}
    BY <1>6, <1>7, <2>1, PaymentView DEF PaidInv, PaidIsPast
  <2> QED
    BY <1>1, <1>2, <2>1 DEF PaidInv, PaidIsPast
<1> QED
  BY <1>4, <1>5, <1>8

LEMMA PaidOthers ==
    ASSUME RefundTypeOK, GuardTypes, PaidInv, NEW q \in Requests,
           HandlerReturns(q) \/ UnguardedReturns(q) \/ RequestDies(q)
    PROVE  OneTaker' /\ TakenHasRow' /\ ReleasingHasFailed' /\ PaidIsPast'
<1> USE DEF GuardTypes, Guard!TypeOK
<1>1. /\ UNCHANGED <<row, paid>> /\ pc[q] # "over"
      /\ \E step \in {"caching", "releasing", "over", "crashed"} :
            /\ pc' = [pc EXCEPT ![q] = step]
            /\ step \in {"caching", "releasing"} => pc[q] = "handling"
            /\ step = "releasing" =>
                  refundPc[q] \in {"refused", "failed"} /\ UNCHANGED refundPc
  <2>1. CASE HandlerReturns(q)
    BY <2>1 DEF HandlerReturns, Interceptor!HandlerSucceeds, Interceptor!HandlerFails,
                Interceptor!Goto, refundVars
  <2>2. CASE UnguardedReturns(q)
    BY <2>2 DEF UnguardedReturns, Interceptor!BypassReturns, Interceptor!Goto, refundVars
  <2>3. CASE RequestDies(q)
    BY <2>3, DeathView DEF PaidInv, Guard!Goto, RequestDies
  <2> QED
    BY <2>1, <2>2, <2>3
<1>2. UNCHANGED refundPc \/ refundPc' = [refundPc EXCEPT ![q] = "crashed"]
  BY DeathView DEF HandlerReturns, UnguardedReturns, refundVars, PaidInv
<1>3. \A p \in Requests \ {q} : refundPc'[p] = refundPc[p] /\ pc'[p] = pc[p]
  BY <1>1, <1>2 DEF RefundTypeOK
<1>4. \A p \in Requests : Took(p)' => Took(p)
  BY <1>1, <1>3 DEF Took, GivenBack
<1>5. OneTaker' /\ TakenHasRow'
  BY <1>1, <1>4, TakersKept
<1>6. ReleasingHasFailed'
  BY <1>1, <1>3 DEF PaidInv, ReleasingHasFailed
<1>7. PaidIsPast'
  BY <1>1, <1>2, <1>3 DEF PaidInv, PaidIsPast, RefundTypeOK
<1> QED
  BY <1>5, <1>6, <1>7

LEMMA PaidStep ==
    ASSUME RefundTypeOK, GuardTypes, PaidInv, [Next]_vars
    PROVE  PaidInv'
<1>1. NotBegun' /\ OpenHasNoOutcome'
  BY NotBegunStep DEF PaidInv
<1>2. CASE UNCHANGED <<store, refundVars, guardVars, paid>>
  BY <1>2 DEF refundVars, guardVars, PaidInv, NotBegun, OpenHasNoOutcome, OneTaker, TakenHasRow,
              ReleasingHasFailed, PaidIsPast, Took, GivenBack
<1>3. ASSUME OneTaker' /\ TakenHasRow' /\ ReleasingHasFailed' /\ PaidIsPast' PROVE PaidInv'
  BY <1>1, <1>3 DEF PaidInv
<1> QED
  BY <1>2, <1>3, StepCases, PaidInterceptor, PaidHandler, PaidOthers

(* Whatever fails: of the attempts of one refund the gateway pays a second *)
(* one only after the handler of the first has failed and its key has been *)
(* given back.  Copies at once, the deaths of replicas, rejected writes of *)
(* the cache and the answers a merchant did not get never lead to it; a    *)
(* lost answer of the gateway, a rejected transaction or a rejected        *)
(* queue.add after the payment do.                                         *)
THEOREM PaidAgainAfterFailure == Spec => []PaidAgainOnlyAfterFailure
<1>1. RefundTypeOK /\ GuardTypes /\ PaidInv /\ [Next]_vars => PaidInv'
  BY PaidStep
<1>2. PaidInv => PaidAgainOnlyAfterFailure
  BY DEF PaidInv, OneTaker, PaidIsPast, Took, PaidAgainOnlyAfterFailure, SameRefund
<1> QED
  BY <1>1, <1>2, PaidInit, GuardTypesHold, PTL DEF Spec

-----------------------------------------------------------------------------
(* What a merchant is shown. *)

(* A request that waits for the gateway has asked it for something. *)
AskedSomething == \A q \in Requests : refundPc[q] = "calling" => asked[q] > 0

RecordedIsPaid ==
    \A q \in Requests :
        /\ refundPc[q] \in {"recording", "dispatching", "answered"} =>
              outcome[q] # "none" /\ (outcome[q] # "FAILED" => q \in paid)
        /\ refundPc[q] \in {"dispatching", "answered"} /\ outcome[q] = "SUCCEEDED" =>
              refunded[IntentOf[q]] >= asked[q]

ShownIsAnswered ==
    /\ \A q \in Requests : pc[q] = "caching" => refundPc[q] = "answered"
    /\ \A k \in Keys : row[k] \in Requests => refundPc[row[k]] = "answered"
    /\ \A q \in Requests : result[q] # NoResult => refundPc[result[q]] = "answered"

ShownInv == NotBegun /\ OpenHasNoOutcome /\ AskedSomething /\ RecordedIsPaid /\ ShownIsAnswered

LEMMA ShownInit == Init => ShownInv
BY GuardAssumption
   DEF Init, RefundInit, Interceptor!Init, ShownInv, NotBegun, OpenHasNoOutcome, AskedSomething,
       RecordedIsPaid, ShownIsAnswered

LEMMA AskedStep ==
    ASSUME RefundTypeOK, OpenHasNoOutcome, AskedSomething, NEW q \in Requests, ProcessRefund(q)
    PROVE  AskedSomething'
<1>1. \A p \in Requests \ {q} : refundPc'[p] = refundPc[p] /\ asked'[p] = asked[p]
  BY HandlerView
<1>2. refundPc'[q] = "calling" => asked'[q] > 0
  BY DEF ProcessRefund, ReadIntent, GatewayRefunds, GatewayRefundFails, RecordRefund, RecordFails,
         DispatchRefunded, DispatchRefundedFails, RefundGoto, RefundTypeOK, Eligible
<1> QED
  BY <1>1, <1>2 DEF AskedSomething

(* A payment of something is seen in what the gateway has paid. *)
LEMMA PaymentSeen ==
    ASSUME RefundTypeOK, AskedSomething, NEW q \in Requests, HandlerAct(q),
           refundPc[q] = "calling", refundPc'[q] = "recording"
    PROVE  outcome'[q] # "none" /\ (outcome'[q] # "FAILED" => q \in paid')
<1>1. GatewayRefunds(q)
  BY DEF HandlerAct, ProcessRefund, ReadIntent, GatewayRefundFails, RecordRefund, RecordFails,
         DispatchRefunded, DispatchRefundedFails, RefundGoto, RefundTypeOK
<1>2. PICK o \in RefundOutcomes :
         /\ outcome' = [outcome EXCEPT ![q] = o]
         /\ paidBack' = IF o = "FAILED" THEN paidBack
                        ELSE [paidBack EXCEPT ![IntentOf[q]] = @ + asked[q]]
  BY <1>1 DEF GatewayRefunds
<1>3. outcome'[q] = o /\ o # "none"
  BY <1>2, RefundAssumption DEF RefundTypeOK
<1>4. ASSUME o # "FAILED" PROVE q \in paid'
  <2>1. IntentOf[q] \in Intents /\ paidBack \in [Intents -> Nat] /\ asked[q] \in Nat
    BY RefundNats
  <2>2. asked[q] > 0
    BY DEF AskedSomething
  <2>3. paidBack'[IntentOf[q]] = paidBack[IntentOf[q]] + asked[q]
    BY <1>2, <1>4, <2>1
  <2>4. paidBack' # paidBack
    BY <2>1, <2>2, <2>3
  <2> QED
    BY <2>4 DEF HandlerAct
<1> QED
  BY <1>3, <1>4

(* A refund that is recorded stays in the books, and an answered one is    *)
(* answered for good.                                                      *)
LEMMA RecordedStep ==
    ASSUME RefundTypeOK, OpenHasNoOutcome, AskedSomething, RecordedIsPaid,
           NEW q \in Requests, HandlerAct(q)
    PROVE  RecordedIsPaid'
<1>1. /\ ProcessRefund(q)
      /\ \A p \in Requests \ {q} :
            refundPc'[p] = refundPc[p] /\ outcome'[p] = outcome[p] /\ asked'[p] = asked[p]
      /\ outcome'[q] # outcome[q] => refundPc[q] = "calling" /\ refundPc'[q] = "recording"
      /\ \A i \in Intents : refunded'[i] >= refunded[i]
      /\ \A p \in Requests : IntentOf[p] \in Intents /\ asked[p] \in Nat
      /\ refunded \in [Intents -> Nat]
  BY HandlerView, RefundNats DEF HandlerAct
<1>2. \A i \in Intents : refunded'[i] \in Nat
  BY <1>1, RefundTypeStep DEF RefundStep, RefundTypeOK, StoreTypeOK
<1>3. paid \subseteq paid'
  BY PaymentView
<1>4. ASSUME NEW p \in Requests, p # q
      PROVE  /\ refundPc'[p] \in {"recording", "dispatching", "answered"} =>
                   outcome'[p] # "none" /\ (outcome'[p] # "FAILED" => p \in paid')
             /\ refundPc'[p] \in {"dispatching", "answered"} /\ outcome'[p] = "SUCCEEDED" =>
                   refunded'[IntentOf[p]] >= asked'[p]
  BY <1>1, <1>2, <1>3, <1>4 DEF RecordedIsPaid
<1>5. ASSUME refundPc'[q] \in {"recording", "dispatching", "answered"}
      PROVE  outcome'[q] # "none" /\ (outcome'[q] # "FAILED" => q \in paid')
  <2>1. CASE refundPc[q] = "calling"
    <3>1. refundPc'[q] = "recording"
      BY <1>1, <1>5, <2>1
         DEF ProcessRefund, ReadIntent, GatewayRefunds, GatewayRefundFails, RecordRefund,
             RecordFails, DispatchRefunded, DispatchRefundedFails, RefundGoto, RefundTypeOK
    <3> QED
      BY <2>1, <3>1, PaymentSeen
  <2>2. CASE refundPc[q] # "calling"
    <3>1. refundPc[q] \in {"recording", "dispatching"}
      BY <1>1, <1>5, <2>2
         DEF ProcessRefund, ReadIntent, GatewayRefunds, GatewayRefundFails, RecordRefund,
             RecordFails, DispatchRefunded, DispatchRefundedFails, RefundGoto, RefundTypeOK
    <3> QED
      BY <1>1, <1>3, <2>2, <3>1 DEF RecordedIsPaid
  <2> QED
    BY <2>1, <2>2
<1>6. ASSUME refundPc'[q] \in {"dispatching", "answered"}, outcome'[q] = "SUCCEEDED"
      PROVE  refunded'[IntentOf[q]] >= asked'[q]
  <2>1. CASE RecordRefund(q)
    <3>1. outcome[q] = "SUCCEEDED" /\ asked' = asked
      BY <1>6, <2>1 DEF RecordRefund
    <3>2. refunded'[IntentOf[q]] = refunded[IntentOf[q]] + asked[q]
      BY <1>1, <2>1, <3>1 DEF RecordRefund
    <3> QED
      BY <1>1, <3>1, <3>2
  <2>2. CASE DispatchRefunded(q)
    BY <1>6, <2>2 DEF DispatchRefunded, RecordedIsPaid
  <2>3. CASE ~RecordRefund(q) /\ ~DispatchRefunded(q)
    BY <1>1, <1>6, <2>3
       DEF ProcessRefund, ReadIntent, GatewayRefunds, GatewayRefundFails, RecordFails,
           DispatchRefundedFails, RefundGoto, RefundTypeOK
  <2> QED
    BY <2>1, <2>2, <2>3
<1> QED
  BY <1>4, <1>5, <1>6 DEF RecordedIsPaid

LEMMA ShownStep ==
    ASSUME RefundTypeOK, GuardTypes, ShownInv, [Next]_vars
    PROVE  ShownInv'
<1>1. NotBegun' /\ OpenHasNoOutcome'
  BY NotBegunStep DEF ShownInv
<1>2. CASE UNCHANGED <<store, refundVars, guardVars, paid>>
  BY <1>1, <1>2 DEF store, refundVars, guardVars, ShownInv, AskedSomething, RecordedIsPaid,
                    ShownIsAnswered
<1>3. ASSUME NEW q \in Requests, HandlerAct(q)
      PROVE  AskedSomething' /\ RecordedIsPaid' /\ ShownIsAnswered'
  <2>1. AskedSomething' /\ RecordedIsPaid'
    BY <1>3, AskedStep, RecordedStep DEF HandlerAct, ShownInv
  <2>2. /\ refundPc[q] # "answered" /\ UNCHANGED guardVars
        /\ \A p \in Requests \ {q} : refundPc'[p] = refundPc[p]
    BY <1>3, HandlerView DEF HandlerAct, ShownInv
  <2>3. \A p \in Requests : refundPc[p] = "answered" => refundPc'[p] = "answered"
    BY <2>2
  <2>4. \A p \in Requests : result[p] # NoResult => result[p] \in Requests
    BY DEF GuardTypes, Guard!TypeOK
  <2>5. ShownIsAnswered'
    BY <2>2, <2>3, <2>4 DEF ShownInv, ShownIsAnswered, guardVars
  <2> QED
    BY <2>1, <2>5
<1>4. ASSUME NEW q \in Requests, RequestDies(q)
      PROVE  AskedSomething' /\ RecordedIsPaid' /\ ShownIsAnswered'
  <2>1. /\ pc' = [pc EXCEPT ![q] = "crashed"]
        /\ UNCHANGED <<row, result, outcome, asked, refunded, paid>>
        /\ \/ UNCHANGED refundPc
           \/ refundPc[q] # "answered" /\ refundPc' = [refundPc EXCEPT ![q] = "crashed"]
    BY <1>4, DeathView DEF Guard!Goto, ShownInv, RequestDies
  <2>2. \A p \in Requests :
           /\ refundPc[p] = "answered" => refundPc'[p] = "answered"
           /\ refundPc'[p] \in {refundPc[p], "crashed"}
    BY <2>1 DEF RefundTypeOK
  <2>3. AskedSomething' /\ RecordedIsPaid'
    BY <2>1, <2>2 DEF ShownInv, AskedSomething, RecordedIsPaid
  <2>4. \A p \in Requests : result[p] # NoResult => result[p] \in Requests
    BY DEF GuardTypes, Guard!TypeOK
  <2>5. ShownIsAnswered'
    BY <2>1, <2>2, <2>4 DEF ShownInv, ShownIsAnswered, GuardTypes, Guard!TypeOK
  <2> QED
    BY <2>3, <2>5
<1>5. ASSUME NEW q \in Requests, InterceptorAct(q) \/ HandlerReturns(q) \/ UnguardedReturns(q)
      PROVE  AskedSomething' /\ RecordedIsPaid' /\ ShownIsAnswered'
  <2>1. UNCHANGED <<store, refundVars, paid>>
    BY <1>5 DEF InterceptorAct, HandlerReturns, UnguardedReturns
  <2>2. AskedSomething' /\ RecordedIsPaid'
    BY <2>1 DEF ShownInv, AskedSomething, RecordedIsPaid, store, refundVars
  <2>3. /\ pc \in [Requests -> Guard!Steps] /\ result \in [Requests -> Requests \cup {NoResult}]
        /\ row \in [Keys -> Requests \cup {Absent, InFlight}]
        /\ KeyOf[q] \in Keys \cup {NoKey} /\ NoKey \notin Keys
    BY GuardAssumption DEF GuardTypes, Guard!TypeOK
  <2>4. ASSUME pc'[q] = "caching" PROVE refundPc[q] = "answered"
    BY <1>5, <2>3, <2>4
       DEF InterceptorAct, HandlerReturns, UnguardedReturns, Interceptor!Bypass, Interceptor!Lookup,
           Interceptor!Create, Interceptor!CreateConflicts, Interceptor!CreateFails,
           Interceptor!CacheResult, Interceptor!Release, Interceptor!Goto, Interceptor!LookupMiss,
           Interceptor!LookupExpired, Interceptor!LookupReplays, Interceptor!LookupConflicts,
           Interceptor!LookupFails, Interceptor!HandlerSucceeds, Interceptor!HandlerFails,
           Interceptor!BypassReturns
  <2>5. \A p \in Requests \ {q} : pc'[p] = pc[p]
    BY <1>5, <2>3
       DEF InterceptorAct, HandlerReturns, UnguardedReturns, Interceptor!Bypass, Interceptor!Lookup,
           Interceptor!Create, Interceptor!CreateConflicts, Interceptor!CreateFails,
           Interceptor!CacheResult, Interceptor!Release, Interceptor!Goto, Interceptor!LookupMiss,
           Interceptor!LookupExpired, Interceptor!LookupReplays, Interceptor!LookupConflicts,
           Interceptor!LookupFails, Interceptor!HandlerSucceeds, Interceptor!HandlerFails,
           Interceptor!BypassReturns
  <2>6. ASSUME NEW k \in Keys, row'[k] \in Requests PROVE refundPc[row'[k]] = "answered"
    <3>1. \/ UNCHANGED row
          \/ \E v \in {Absent, InFlight} : row' = [row EXCEPT ![KeyOf[q]] = v]
          \/ pc[q] = "caching" /\ row' = [row EXCEPT ![KeyOf[q]] = q]
      BY <1>5
         DEF InterceptorAct, HandlerReturns, UnguardedReturns, Interceptor!Bypass,
             Interceptor!Lookup, Interceptor!Create, Interceptor!CreateConflicts,
             Interceptor!CreateFails, Interceptor!CacheResult, Interceptor!Release,
             Interceptor!RemoveRow, Interceptor!HandlerSucceeds, Interceptor!HandlerFails,
             Interceptor!BypassReturns
    <3>2. Absent \notin Requests /\ InFlight \notin Requests
      BY GuardAssumption
    <3> QED
      BY <2>3, <2>6, <3>1, <3>2 DEF ShownInv, ShownIsAnswered
  <2>7. ASSUME NEW p \in Requests, result'[p] # NoResult PROVE refundPc[result'[p]] = "answered"
    <3>1. \/ UNCHANGED result
          \/ refundPc[q] = "answered" /\ result' = [result EXCEPT ![q] = q]
          \/ /\ KeyOf[q] # NoKey /\ row[KeyOf[q]] \in Requests
             /\ result' = [result EXCEPT ![q] = row[KeyOf[q]]]
      <4>1. CASE InterceptorAct(q)
        BY <4>1
           DEF InterceptorAct, Interceptor!Bypass, Interceptor!Lookup, Interceptor!Create,
               Interceptor!CreateConflicts, Interceptor!CreateFails, Interceptor!CacheResult,
               Interceptor!Release, Interceptor!LookupMiss, Interceptor!LookupExpired,
               Interceptor!LookupReplays, Interceptor!LookupConflicts, Interceptor!LookupFails,
               Interceptor!Answer, Interceptor!AnswerWith
      <4>2. CASE HandlerReturns(q)
        BY <4>2 DEF HandlerReturns, Interceptor!HandlerSucceeds, Interceptor!HandlerFails,
                    Interceptor!Answer, Interceptor!AnswerWith
      <4>3. CASE UnguardedReturns(q)
        BY <4>3 DEF UnguardedReturns, Interceptor!BypassReturns, Interceptor!Answer,
                    Interceptor!AnswerWith, GuardTypes, Guard!TypeOK
      <4> QED
        BY <1>5, <4>1, <4>2, <4>3
    <3> QED
      BY <2>3, <2>7, <3>1 DEF ShownInv, ShownIsAnswered
  <2>8. ShownIsAnswered'
    BY <2>1, <2>4, <2>5, <2>6, <2>7 DEF ShownInv, ShownIsAnswered, refundVars
  <2> QED
    BY <2>2, <2>8
<1>6. ASSUME AskedSomething' /\ RecordedIsPaid' /\ ShownIsAnswered' PROVE ShownInv'
  BY <1>1, <1>6 DEF ShownInv
<1> QED
  BY <1>2, <1>3, <1>4, <1>5, <1>6, StepCases

(* Whoever is answered with a refund, by the handler or from the cache,    *)
(* is shown one that the gateway paid, unless the answer says that it was  *)
(* declined; if it says that it succeeded, the refund rows contain it.     *)
THEOREM AnsweredIsReal == Spec => []AnsweredRefundIsReal
<1>1. RefundTypeOK /\ GuardTypes /\ ShownInv /\ [Next]_vars => ShownInv'
  BY ShownStep
<1>2. GuardTypes /\ ShownInv => AnsweredRefundIsReal
  BY DEF GuardTypes, Guard!TypeOK, ShownInv, ShownIsAnswered, RecordedIsPaid, AnsweredRefundIsReal
<1> QED
  BY <1>1, <1>2, ShownInit, GuardTypesHold, PTL DEF Spec

=============================================================================
