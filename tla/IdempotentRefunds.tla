------------------------- MODULE IdempotentRefunds -------------------------
(***************************************************************************)
(* POST /payments/:id/refund as a merchant sees it: processRefund behind   *)
(* the idempotency interceptor.  The requests of Refunds are HTTP requests *)
(* here; several of them with one Idempotency-Key are the attempts of one  *)
(* refund.  The handler runs between Create and HandlerSucceeds or         *)
(* HandlerFails of the interceptor.  All this happens within the lifetime  *)
(* of a key's row: no row expires.                                         *)
(***************************************************************************)
EXTENDS Refunds

CONSTANTS Keys, NoKey, KeyOf, Absent, InFlight, NoResult,
          Expiring, DbMayFail, MayCrash

ASSUME LifetimeAssumption == Expiring = {}

ASSUME GuardAssumption ==
    /\ KeyOf \in [Requests -> Keys \cup {NoKey}]
    /\ NoKey \notin Keys
    /\ Absent # InFlight
    /\ {Absent, InFlight, NoResult} \cap Requests = {}
    /\ {DbMayFail, MayCrash} \subseteq BOOLEAN

VARIABLES
    row, expired, pc, reply, result, executed,
    paid  \* history: the attempts for which the gateway has paid, known to them or not

Interceptor == INSTANCE IdempotencyInterceptor

guardVars == <<row, expired, pc, reply, result, executed>>

vars == <<store, refundVars, guardVars, paid>>

Init == StoreInit /\ RefundInit /\ Interceptor!Init /\ paid = {}

(* The interceptor before and after the handler. *)
InterceptorAct(q) ==
    /\ \/ Interceptor!Bypass(q)
       \/ Interceptor!Lookup(q)
       \/ Interceptor!Create(q)
       \/ Interceptor!CreateConflicts(q)
       \/ Interceptor!CreateFails(q)
       \/ Interceptor!CacheResult(q)
       \/ Interceptor!Release(q)
    /\ UNCHANGED <<store, refundVars, paid>>

(* next.handle(): the steps of processRefund, one call of it per request. *)
HandlerAct(q) ==
    /\ pc[q] \in {"handling", "bypass"}
    /\ ProcessRefund(q)
    /\ paid' = IF paidBack' # paidBack THEN paid \cup {q} ELSE paid
    /\ UNCHANGED guardVars

(* The observable emits the result, or the exception. *)
HandlerReturns(q) ==
    /\ \/ refundPc[q] = "answered" /\ Interceptor!HandlerSucceeds(q)
       \/ refundPc[q] \in {"refused", "failed"} /\ Interceptor!HandlerFails(q)
    /\ UNCHANGED <<store, refundVars, paid>>

UnguardedReturns(q) ==
    /\ refundPc[q] \in {"answered", "refused", "failed"}
    /\ Interceptor!BypassReturns(q)
    /\ (reply'[q] = "result") = (refundPc[q] = "answered")
    /\ UNCHANGED <<store, refundVars, paid>>

(* The process dies, in the handler or in the interceptor around it. *)
RequestDies(q) ==
    /\ Interceptor!Crash(q)
    /\ IF Active(q) THEN RefundCrash(q) ELSE UNCHANGED <<store, refundVars>>
    /\ UNCHANGED paid

Next ==
    \E q \in Requests :
        \/ InterceptorAct(q)
        \/ HandlerAct(q)
        \/ HandlerReturns(q)
        \/ UnguardedReturns(q)
        \/ RequestDies(q)

Spec == Init /\ [][Next]_vars

-----------------------------------------------------------------------------
(* Properties *)

SameRefund(p, q) == KeyOf[p] # NoKey /\ KeyOf[p] = KeyOf[q]

(* An attempt whose handler has failed, and whose row is gone again or was *)
(* to be removed.                                                          *)
GivenBack(q) == refundPc[q] = "failed" /\ pc[q] = "over"

(* Of the attempts of one refund, sent at once or retried after a crash,   *)
(* an error or a lost answer, the gateway pays a second one only after the *)
(* handler of the first has failed and the interceptor has removed its row *)
(* (tapErr): neither copies at once, nor a crash, nor a rejected write of  *)
(* the cache make it pay twice.                                            *)
PaidAgainOnlyAfterFailure ==
    \A p, q \in paid : SameRefund(p, q) /\ p # q => GivenBack(p) \/ GivenBack(q)

(* The attempts of one refund make the gateway pay at most once, whatever  *)
(* fails on the way ("strict database-level idempotency to eliminate       *)
(* duplicate charges").                                                    *)
PaidOncePerKey == \A p, q \in paid : SameRefund(p, q) => p = q

(* A merchant that is answered with a refund, by the handler or from the   *)
(* cache, is shown one that the gateway has paid, unless it says it was    *)
(* declined, and that has a refund row if the gateway has confirmed it.    *)
AnsweredRefundIsReal ==
    \A q \in Requests :
        result[q] # NoResult =>
            /\ outcome[result[q]] # "none"
            /\ outcome[result[q]] # "FAILED" => result[q] \in paid
            /\ outcome[result[q]] = "SUCCEEDED" =>
                  refunded[IntentOf[result[q]]] >= asked[result[q]]

(* A refund that was refused, because another one has used up the balance, *)
(* or that failed may be tried again under its key: a row that is in       *)
(* flight belongs to a request still at work or to a process that died.    *)
RefusedMayRetry == Interceptor!FailureFreesKey

=============================================================================
