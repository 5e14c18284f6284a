--------------------------- MODULE Reconciliation ---------------------------
(***************************************************************************)
(* ReconciliationService.reconcileStaleIntents, run by the BullMQ worker   *)
(* at every interval and by the manual trigger at any time, also at once.  *)
(* A run reads the stale PENDING intents, then goes through them one by    *)
(* one: ask the gateway, write the status, enqueue the notification.  What *)
(* it writes is decided on the rows read at its start.                     *)
(***************************************************************************)
EXTENDS PaymentStore, FiniteSets

CONSTANTS
    Runs,         \* the concurrent executions of reconcileStaleIntents
    Worker,       \* the one the job scheduler starts again and again
    Unreachable,  \* the intents whose gateway answers no status query
    NoIntent      \* the run has no intent in hand

ASSUME ReconAssumption ==
    /\ Worker \in Runs
    /\ Unreachable \subseteq Intents
    /\ NoIntent \notin Intents

VARIABLES
    age,      \* age[i]: "fresh", "stale" (15 minutes) or "abandoned" (24 hours)
    batch,    \* batch[p]: the intents that run p read and has still to look at
    current,  \* current[p]: the intent run p is looking at
    reconPc,  \* reconPc[p]: the call run p waits for
    answer    \* answer[p]: the status the gateway gave for current[p]

reconVars == <<age, batch, current, reconPc, answer>>

ReconSteps == {"idle", "looping", "fetching", "abandoning", "updating", "dispatching"}

ReconTypeOK ==
    /\ StoreTypeOK
    /\ age \in [Intents -> {"fresh", "stale", "abandoned"}]
    /\ batch \in [Runs -> SUBSET Intents]
    /\ current \in [Runs -> Intents \cup {NoIntent}]
    /\ reconPc \in [Runs -> ReconSteps]
    /\ answer \in [Runs -> {"PENDING", "CAPTURED", "FAILED"}]
    /\ \A p \in Runs : current[p] = NoIntent <=> reconPc[p] \in {"idle", "looping"}

ReconInit ==
    /\ age = [i \in Intents |-> "fresh"]
    /\ batch = [p \in Runs |-> {}]
    /\ current = [p \in Runs |-> NoIntent]
    /\ reconPc = [p \in Runs |-> "idle"]
    /\ answer = [p \in Runs |-> "PENDING"]

ReconGoto(p, step) == reconPc' = [reconPc EXCEPT ![p] = step]

(* On to the next intent of the batch, whether this one went well or its   *)
(* error was pushed to summary.errors.                                     *)
NextIntent(p) ==
    /\ ReconGoto(p, "looping")
    /\ current' = [current EXCEPT ![p] = NoIntent]

\* Mutated form: every status but FAILED is taken for a success.
AnswerIsOptimistic(i) == IF settled[i] = "FAILED" THEN "FAILED" ELSE "CAPTURED"

(* The status query: FAILED and CAPTURED are final, everything else counts *)
(* as still pending.                                                       *)
GatewayAnswer(i) == IF settled[i] \in {"CAPTURED", "FAILED"} THEN settled[i] ELSE "PENDING"

NotificationOf(s) == IF s = "CAPTURED" THEN "payment.succeeded" ELSE "payment.failed"

-----------------------------------------------------------------------------
(* Mutated forms of definitions below. *)

\* The error of one intent ends the run instead of the iteration.
FetchFailureEndsRun(p) ==
    /\ reconPc[p] = "fetching"
    /\ current[p] \in Unreachable
    /\ ReconGoto(p, "idle")
    /\ batch' = [batch EXCEPT ![p] = {}]
    /\ current' = [current EXCEPT ![p] = NoIntent]
    /\ UNCHANGED <<store, age, answer>>

\* The query forgets to ask for status: 'PENDING'.
StaleWhateverStatus == {i \in Intents : age[i] # "fresh"}

\* The query has an upper bound on the age, for the rows given up on.
StaleNotAbandoned == {i \in Intents : status[i] = "PENDING" /\ age[i] = "stale"}

\* The next intent is taken before the batch is read to its end.
TakeDropsIntent(p) ==
    /\ reconPc[p] = "looping"
    /\ \E i \in batch[p] :
        /\ batch' = [batch EXCEPT ![p] = @ \ {i}]
        /\ IF i \in AtGateway THEN ReconGoto(p, "fetching") ELSE ReconGoto(p, "abandoning")
    /\ UNCHANGED <<store, age, current, answer>>

\* The notification of a status the update did not write.
DispatchWrongEvent(p) ==
    /\ reconPc[p] = "dispatching"
    /\ Enqueue(current[p], "payment.succeeded")
    /\ NextIntent(p)
    /\ UNCHANGED <<status, refunded, settled, paidBack, faults, age, batch, answer>>

-----------------------------------------------------------------------------
(* Time passes for a payment intent. *)
GrowOld(i) ==
    /\ age[i] # "abandoned"
    /\ age' = [age EXCEPT ![i] = IF @ = "fresh" THEN "stale" ELSE "abandoned"]
    /\ UNCHANGED <<store, batch, current, reconPc, answer>>

(* findMany: PENDING and older than the threshold. *)
StaleIntents == {i \in Intents : status[i] = "PENDING" /\ age[i] # "fresh"}

Scan(p) ==
    /\ reconPc[p] = "idle"
    /\ StaleIntents # {}
    /\ batch' = [batch EXCEPT ![p] = StaleIntents]
    /\ ReconGoto(p, "looping")
    /\ UNCHANGED <<store, age, current, answer>>

(* findMany is rejected and the run with it; the scheduler starts another. *)
ScanFails(p) ==
    /\ reconPc[p] = "idle"
    /\ Fault("db")
    /\ UNCHANGED <<status, refunded, queued, settled, paidBack, reconVars>>

(* The rows come in no particular order. *)
TakeIntent(p) ==
    /\ reconPc[p] = "looping"
    /\ \E i \in batch[p] :
        /\ batch' = [batch EXCEPT ![p] = @ \ {i}]
        /\ \/ /\ i \in AtGateway
              /\ ReconGoto(p, "fetching")
              /\ current' = [current EXCEPT ![p] = i]
           \/ /\ i \notin AtGateway
              /\ age[i] = "abandoned"
              /\ ReconGoto(p, "abandoning")
              /\ current' = [current EXCEPT ![p] = i]
           \/ /\ i \notin AtGateway
              /\ age[i] # "abandoned"
              /\ UNCHANGED <<reconPc, current>>
    /\ UNCHANGED <<store, age, answer>>

FinishRun(p) ==
    /\ reconPc[p] = "looping"
    /\ batch[p] = {}
    /\ ReconGoto(p, "idle")
    /\ UNCHANGED <<store, age, batch, current, answer>>

(* An intent that never got to a gateway fails after a day, silently. *)
Abandon(p) ==
    /\ reconPc[p] = "abandoning"
    /\ UpdateStatus(current[p], "FAILED")
    /\ NextIntent(p)
    /\ UNCHANGED <<refunded, queued, settled, paidBack, faults, age, batch, answer>>

Fetch(p) ==
    /\ reconPc[p] = "fetching"
    /\ current[p] \notin Unreachable
    /\ answer' = [answer EXCEPT ![p] = GatewayAnswer(current[p])]
    /\ IF answer'[p] = "PENDING"
       THEN NextIntent(p)
       ELSE ReconGoto(p, "updating") /\ UNCHANGED current
    /\ UNCHANGED <<store, age, batch>>

FetchFails(p) ==
    /\ reconPc[p] = "fetching"
    /\ \/ current[p] \in Unreachable /\ UNCHANGED faults
       \/ Fault("gateway")
    /\ NextIntent(p)
    /\ UNCHANGED <<status, refunded, queued, settled, paidBack, age, batch, answer>>

(* The update does not ask whether the intent is still PENDING. *)
Update(p) ==
    /\ reconPc[p] = "updating"
    /\ UpdateStatus(current[p], answer[p])
    /\ ReconGoto(p, "dispatching")
    /\ UNCHANGED <<refunded, queued, settled, paidBack, faults, age, batch, current, answer>>

UpdateFails(p) ==
    /\ reconPc[p] \in {"updating", "abandoning"}
    /\ Fault("db")
    /\ NextIntent(p)
    /\ UNCHANGED <<status, refunded, queued, settled, paidBack, age, batch, answer>>

Dispatch(p) ==
    /\ reconPc[p] = "dispatching"
    /\ Enqueue(current[p], NotificationOf(answer[p]))
    /\ NextIntent(p)
    /\ UNCHANGED <<status, refunded, settled, paidBack, faults, age, batch, answer>>

DispatchFails(p) ==
    /\ reconPc[p] = "dispatching"
    /\ Fault("redis")
    /\ NextIntent(p)
    /\ UNCHANGED <<status, refunded, queued, settled, paidBack, age, batch, answer>>

(* The process dies in the middle of a run. *)
ReconCrash(p) ==
    /\ reconPc[p] # "idle"
    /\ Fault("crash")
    /\ ReconGoto(p, "idle")
    /\ batch' = [batch EXCEPT ![p] = {}]
    /\ current' = [current EXCEPT ![p] = NoIntent]
    /\ UNCHANGED <<status, refunded, queued, settled, paidBack, age, answer>>

ReconStep(p) ==
    \/ TakeIntent(p)
    \/ FinishRun(p)
    \/ Abandon(p)
    \/ Fetch(p)
    \/ FetchFails(p)
    \/ Update(p)
    \/ UpdateFails(p)
    \/ Dispatch(p)
    \/ DispatchFails(p)

ReconNext ==
    \/ \E p \in Runs : Scan(p) \/ ScanFails(p) \/ ReconStep(p) \/ ReconCrash(p)
    \/ \E i \in Intents : GrowOld(i)

PaymentsMove == \E i \in Intents : GatewaySettles(i) /\ UNCHANGED reconVars

ReconciliationInit == StoreInit /\ ReconInit

ReconSpec == ReconciliationInit /\ [][ReconNext \/ PaymentsMove]_<<store, reconVars>>

(* The scheduler repeats the worker's job, a run that has started goes on, *)
(* and time passes.  Nobody has to press the manual trigger.               *)
ReconFairness ==
    /\ WF_<<store, reconVars>>(Scan(Worker))
    /\ \A p \in Runs : WF_<<store, reconVars>>(ReconStep(p))
    /\ \A i \in Intents : WF_<<store, reconVars>>(GrowOld(i))

ReconFairSpec == ReconSpec /\ ReconFairness

-----------------------------------------------------------------------------
(* Properties *)

(* A run never gives an intent the verdict of another one, nor one the     *)
(* gateway has not given: the status stored is the gateway's, or FAILED    *)
(* for an intent without a gatewayPaymentId.                               *)
VerdictIsGateways ==
    \A i \in Intents :
        \/ status[i] = InitialStatus[i]
        \/ i \in AtGateway /\ status[i] = settled[i]
        \/ i \notin AtGateway /\ status[i] = "FAILED"

(* The merchant is told what was stored: no payment.failed is enqueued for *)
(* an intent that ends CAPTURED, nor the other way round.                  *)
NotifiedVerdictIsStored ==
    \A i \in Intents :
        /\ queued[i]["payment.succeeded"] > 0 => status[i] = "CAPTURED"
        /\ queued[i]["payment.failed"] > 0 => status[i] = "FAILED"

(* No payment stays PENDING for ever once the gateway has settled it, even *)
(* when no webhook arrives, other intents of the batch fail, calls are     *)
(* rejected or the worker dies now and then.                               *)
SettledIsReconciled ==
    \A i \in AtGateway \ Unreachable :
        settled[i] \in {"CAPTURED", "FAILED"} ~> status[i] = settled[i]

(* A merchant gets at most one compensating event for a payment from each  *)
(* of the runs that are at work at the same time: one when the worker is   *)
(* alone, and no more however many runs follow.                            *)
CompensatedOnce ==
    \A i \in Intents :
        queued[i]["payment.succeeded"] + queued[i]["payment.failed"] <= Cardinality(Runs)

=============================================================================
