------------------------------ MODULE Reports ------------------------------
(***************************************************************************)
(* What analytics and metrics tell about payments: functions of the rows   *)
(* AnalyticsService.getOverview and MetricsService read, with S the        *)
(* intents a query selects, by merchant, gateway, currency or date.  Each  *)
(* of the two reads the intents in one call, so it sees one moment.        *)
(***************************************************************************)
EXTENDS PaymentLifecycle, FiniteSetsExt

-----------------------------------------------------------------------------
(* A mutated form of Successful: a refunded payment is no success.         *)
SuccessfulIfCaptured(S) == {i \in S : status[i] = "CAPTURED"}

-----------------------------------------------------------------------------
(* Money was taken, and perhaps returned. *)
Successful(S) == {i \in S : status[i] \in {"CAPTURED", "REFUNDED"}}

Failed(S) == {i \in S : status[i] = "FAILED"}

Pending(S) == {i \in S : status[i] \in {"PENDING", "AUTHORIZED"}}

(* Math.round((part / whole) * 10000): hundredths of a percent. *)
Rate(part, whole) == IF whole = 0 THEN 0 ELSE (20000 * part + whole) \div (2 * whole)

SuccessRate(successful, failed) == Rate(successful, successful + failed)

FailureRate(successful, failed) == Rate(failed, successful + failed)

(* paybridge_payment_volume_total, and totalAmount of the overview. *)
Volume(S) == MapThenSumSet(LAMBDA i : Amount[i], Successful(S))

GetOverview(S) ==
    LET n(T) == Cardinality(T)
    IN  [total          |-> n(S),
         successful     |-> n(Successful(S)),
         failed         |-> n(Failed(S)),
         pending        |-> n(Pending(S)),
         volume         |-> Volume(S),
         refundAmount   |-> MapThenSumSet(LAMBDA i : refunded[i], S),
         successRate    |-> SuccessRate(n(Successful(S)), n(Failed(S))),
         failureRate    |-> FailureRate(n(Successful(S)), n(Failed(S))),
         conversionRate |-> Rate(n(Successful(S)), n(S))]

-----------------------------------------------------------------------------
(* Properties *)

(* An overview adds up, for whatever intents a query selects.  It never   *)
(* shows more money returned than taken: no writer of the status moves a   *)
(* payment that has refunds out of the successful ones, and no refund      *)
(* exceeds its payment (one refund of a payment at a time).  Every payment *)
(* is counted once, and open payments only lower the conversion.           *)
OverviewAddsUp ==
    \A S \in SUBSET Patient :
        LET o == GetOverview(S)
        IN  /\ o.refundAmount <= o.volume
            /\ o.total = o.successful + o.failed + o.pending
            /\ o.conversionRate <= o.successRate

(* paybridge_payment_volume_total is exposed as a counter, and consumers   *)
(* take a fall for a restart.  The amount of an intent never changes, so:  *)
(* whatever webhooks, runs and refunds write in any order, a payment that  *)
(* was counted stays counted.                                              *)
VolumeNeverFalls == [][Successful(Intents) \subseteq Successful(Intents)']_vars

=============================================================================
