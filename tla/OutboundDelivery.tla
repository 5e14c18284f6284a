-------------------------- MODULE OutboundDelivery --------------------------
(***************************************************************************)
(* From dispatchPaymentEvent to the merchant's endpoint: the event's       *)
(* target is looked up, a job is added to the queue, and the workers POST  *)
(* it until it is answered 2xx or has failed too often, while merchants    *)
(* change their endpoints.  A dispatch is one call of                      *)
(* dispatchPaymentEvent by a webhook, a reconciliation run or a refund,    *)
(* and the job it adds.  BullMQ takes care of attempts, backoff and jobs   *)
(* whose worker has disappeared.                                           *)
(***************************************************************************)
EXTENDS Merchants, Naturals

CONSTANTS
    Dispatches,
    MerchantOf,      \* MerchantOf[d]: merchantId
    DefaultUrl, DefaultSecret,  \* MERCHANT_WEBHOOK_URL, WEBHOOK_SIGNING_SECRET
    NoEndpoint,      \* no target has been resolved
    Attempts,        \* attempts of a job (5 in the code)
    Concurrency,     \* jobs the workers process at the same time (5 for each replica)
    MaxFaults        \* how many calls are rejected and workers die (a bound of the model)

MaxStalls == 1     \* how often BullMQ starts a job again whose worker has disappeared

ASSUME OutboundAssumption ==
    /\ MerchantOf \in [Dispatches -> Merchants]
    /\ NoEndpoint \notin [url : Urls \cup {DefaultUrl}, secret : Secrets \cup {DefaultSecret}]
    /\ Attempts \in Nat \ {0}
    /\ Concurrency \in Nat \ {0}
    /\ MaxFaults \in Nat

VARIABLES
    dispatchPc,  \* dispatchPc[d]: where the call is, or how it ended
    endpoint,    \* endpoint[d]: targetUrl and secret of the job
    job,         \* job[d]: the state of the job in the queue
    attemptsMade, \* attemptsMade[d]: the attempts that have failed
    stalls,      \* stalls[d]: how often its worker has disappeared
    posted,      \* posted[d]: how many POSTs were begun
    post,        \* post[d]: the POST of the current attempt
    late,        \* the jobs with a POST that was abandoned on its way
    received,    \* the jobs whose event the endpoint has received
    faults       \* the faults spent so far

outVars == <<dispatchPc, endpoint, job, attemptsMade, stalls, posted, post, late,
             received, faults>>

jobVars == <<job, attemptsMade, stalls, posted, post, late, received>>

Endpoints == [url : Urls \cup {DefaultUrl}, secret : Secrets \cup {DefaultSecret}]

OutTypeOK ==
    /\ MerchantTypeOK
    /\ dispatchPc \in [Dispatches -> {"idle", "adding", "added", "failed"}]
    /\ endpoint \in [Dispatches -> Endpoints \cup {NoEndpoint}]
    /\ job \in [Dispatches -> {"none", "waiting", "active", "delayed", "stalled", "completed", "failed"}]
    /\ attemptsMade \in [Dispatches -> 0 .. Attempts]
    /\ stalls \in [Dispatches -> 0 .. MaxStalls + 1]
    /\ posted \in [Dispatches -> Nat]
    /\ post \in [Dispatches -> {"none", "sent", "accepted", "refused"}]
    /\ late \in SUBSET Dispatches
    /\ received \in SUBSET Dispatches
    /\ faults \in 0 .. MaxFaults

(* The target for a merchant's row: the defaults stand in for a missing    *)
(* webhookUrl and for a missing webhookSecret, each on its own.            *)
TargetOf(row) ==
    [url |-> IF row.url = NoUrl THEN DefaultUrl ELSE row.url,
     secret |-> IF row.secret = NoSecret THEN DefaultSecret ELSE row.secret]

DefaultTarget == [url |-> DefaultUrl, secret |-> DefaultSecret]

OutInit ==
    /\ dispatchPc = [d \in Dispatches |-> "idle"]
    /\ endpoint = [d \in Dispatches |-> NoEndpoint]
    /\ job = [d \in Dispatches |-> "none"]
    /\ attemptsMade = [d \in Dispatches |-> 0]
    /\ stalls = [d \in Dispatches |-> 0]
    /\ posted = [d \in Dispatches |-> 0]
    /\ post = [d \in Dispatches |-> "none"]
    /\ late = {}
    /\ received = {}
    /\ faults = 0

DispatchGoto(d, step) == dispatchPc' = [dispatchPc EXCEPT ![d] = step]

JobBecomes(d, state) == job' = [job EXCEPT ![d] = state]

PostBecomes(d, state) == post' = [post EXCEPT ![d] = state]

Fault ==
    /\ faults < MaxFaults
    /\ faults' = faults + 1

(* A failed attempt is delayed by the backoff, the last one is final. *)
AttemptFails(d) ==
    /\ attemptsMade' = [attemptsMade EXCEPT ![d] = @ + 1]
    /\ JobBecomes(d, IF attemptsMade[d] + 1 < Attempts THEN "delayed" ELSE "failed")
    /\ PostBecomes(d, "none")
    /\ UNCHANGED <<stalls, posted, received>>

-----------------------------------------------------------------------------
(* Mutated forms of definitions below. *)

\* response.ok is not looked at.
CompleteWhateverStatus(d) ==
    /\ job[d] = "active"
    /\ post[d] \in {"accepted", "refused"}
    /\ JobBecomes(d, "completed")
    /\ PostBecomes(d, "none")
    /\ UNCHANGED <<attemptsMade, stalls, posted, late, received>>

\* An attempt that timed out is not counted.
TimeoutNotCounted(d) ==
    /\ job[d] = "active"
    /\ post[d] \in {"sent", "accepted"}
    /\ JobBecomes(d, "delayed")
    /\ PostBecomes(d, "none")
    /\ posted[d] < 10
    /\ UNCHANGED <<attemptsMade, stalls, posted, late, received>>

\* The handler reports a timeout to the queue twice.
TimeoutCountedTwice(d) ==
    /\ job[d] = "active"
    /\ post[d] \in {"sent", "accepted"}
    /\ attemptsMade' = [attemptsMade EXCEPT ![d] = @ + 2]
    /\ JobBecomes(d, IF attemptsMade[d] + 2 < Attempts THEN "delayed" ELSE "failed")
    /\ PostBecomes(d, "none")
    /\ UNCHANGED <<stalls, posted, late, received>>

-----------------------------------------------------------------------------
(* dispatchPaymentEvent *)

(* The merchant's row is read in one call, url and secret together. *)
Resolve(d) ==
    /\ dispatchPc[d] = "idle"
    /\ DispatchGoto(d, "adding")
    /\ endpoint' = [endpoint EXCEPT ![d] = TargetOf(merchant[MerchantOf[d]])]
    /\ UNCHANGED <<jobVars, faults>>

(* A rejected lookup is logged; the event goes to the default target. *)
ResolveFails(d) ==
    /\ dispatchPc[d] = "idle"
    /\ Fault
    /\ DispatchGoto(d, "adding")
    /\ endpoint' = [endpoint EXCEPT ![d] = DefaultTarget]
    /\ UNCHANGED jobVars

AddJob(d) ==
    /\ dispatchPc[d] = "adding"
    /\ DispatchGoto(d, "added")
    /\ JobBecomes(d, "waiting")
    /\ UNCHANGED <<endpoint, attemptsMade, stalls, posted, post, late, received, faults>>

(* queue.add is rejected and the caller gets the exception, or the process *)
(* dies before it.                                                         *)
AddJobFails(d) ==
    /\ dispatchPc[d] = "adding"
    /\ Fault
    /\ DispatchGoto(d, "failed")
    /\ UNCHANGED <<endpoint, jobVars>>

-----------------------------------------------------------------------------
(* The worker: processWebhookDelivery under BullMQ *)

Start(d) ==
    /\ job[d] = "waiting"
    /\ Cardinality({e \in Dispatches : job[e] = "active"}) < Concurrency
    /\ JobBecomes(d, "active")
    /\ PostBecomes(d, "sent")
    /\ posted' = [posted EXCEPT ![d] = @ + 1]
    /\ UNCHANGED <<attemptsMade, stalls, late, received>>

(* fetch returned a 2xx and the queue was told. *)
Complete(d) ==
    /\ job[d] = "active"
    /\ post[d] = "accepted"
    /\ JobBecomes(d, "completed")
    /\ PostBecomes(d, "none")
    /\ UNCHANGED <<attemptsMade, stalls, posted, late, received>>

(* Any other status, or no connection. *)
AttemptRefused(d) ==
    /\ job[d] = "active"
    /\ post[d] = "refused"
    /\ AttemptFails(d)
    /\ UNCHANGED late

(* The abort after ten seconds: the POST may be on its way still, or its   *)
(* answer.                                                                 *)
AttemptTimesOut(d) ==
    /\ job[d] = "active"
    /\ post[d] \in {"sent", "accepted"}
    /\ AttemptFails(d)
    /\ late' = IF post[d] = "sent" THEN late \cup {d} ELSE late

(* The backoff has passed. *)
Retry(d) ==
    /\ job[d] = "delayed"
    /\ JobBecomes(d, "waiting")
    /\ UNCHANGED <<attemptsMade, stalls, posted, post, late, received>>

(* The worker dies, or cannot tell the queue how the attempt ended. *)
WorkerDies(d) ==
    /\ job[d] = "active"
    /\ Fault
    /\ JobBecomes(d, "stalled")
    /\ PostBecomes(d, "none")
    /\ late' = IF post[d] = "sent" THEN late \cup {d} ELSE late
    /\ UNCHANGED <<attemptsMade, stalls, posted, received>>

(* The queue notices that the job's lock has run out. *)
RecoverStalled(d) ==
    /\ job[d] = "stalled"
    /\ stalls' = [stalls EXCEPT ![d] = @ + 1]
    /\ JobBecomes(d, IF stalls[d] < MaxStalls THEN "waiting" ELSE "failed")
    /\ UNCHANGED <<attemptsMade, posted, post, late, received>>

(* The endpoint handles the POST, or answers it with an error. *)
EndpointAnswers(d) ==
    /\ post[d] = "sent"
    /\ \/ PostBecomes(d, "accepted") /\ received' = received \cup {d}
       \/ PostBecomes(d, "refused") /\ UNCHANGED received
    /\ UNCHANGED <<job, attemptsMade, stalls, posted, late>>

(* A POST that was given up reaches the endpoint after all. *)
LatePostArrives(d) ==
    /\ d \in late
    /\ late' = late \ {d}
    /\ received' = received \cup {d}
    /\ UNCHANGED <<job, attemptsMade, stalls, posted, post>>

JobStep(d) ==
    \/ Start(d)
    \/ Complete(d)
    \/ AttemptRefused(d)
    \/ AttemptTimesOut(d)
    \/ Retry(d)
    \/ RecoverStalled(d)

JobNext(d) ==
    \/ (JobStep(d) \/ EndpointAnswers(d) \/ LatePostArrives(d)) /\ UNCHANGED faults
    \/ WorkerDies(d)

DispatchNext(d) ==
    \/ Resolve(d)
    \/ ResolveFails(d)
    \/ AddJob(d)
    \/ AddJobFails(d)
    \/ JobNext(d) /\ UNCHANGED <<dispatchPc, endpoint>>

(* A merchant's endpoint changes while jobs are under way. *)
EndpointChanges(m) ==
    /\ UpdateMerchant(m)
    /\ UNCHANGED <<dispatchPc, endpoint, jobVars, faults>>

OutNext ==
    \/ \E d \in Dispatches : DispatchNext(d) /\ UNCHANGED merchantVars
    \/ \E m \in Merchants : EndpointChanges(m)

vars == <<merchantVars, outVars>>

DeliveryInit == MerchantInit /\ OutInit

OutSpec == DeliveryInit /\ [][OutNext]_vars

(* Workers are running, an aborted fetch ends, backoffs pass and stalled   *)
(* jobs are looked for.  No endpoint has to answer.                        *)
OutFairness ==
    \A d \in Dispatches :
        WF_vars(JobStep(d) /\ UNCHANGED <<faults, dispatchPc, endpoint, merchantVars>>)

OutFairSpec == OutSpec /\ OutFairness

-----------------------------------------------------------------------------
(* Properties *)

(* A job is failed only after all its attempts, or when its worker was lost   *)
(* twice.                                                                  *)
NotGivenUpEarly ==
    \A d \in Dispatches :
        job[d] = "failed" => attemptsMade[d] = Attempts \/ stalls[d] > MaxStalls

(* Attempts, timeouts and lost workers together: an endpoint is sent one   *)
(* event six times at most (five attempts and one job that is started      *)
(* again after its worker was lost).                                       *)
PostsAreBounded == \A d \in Dispatches : posted[d] <= Attempts + MaxStalls

-----------------------------------------------------------------------------
(* The promise this implements: at-least-once delivery, or giving up. *)

Fate(d) ==
    CASE job[d] = "none" -> "none"
      [] job[d] = "completed" -> "done"
      [] job[d] = "failed" -> "dropped"
      [] OTHER -> "owed"

Promise == INSTANCE AtLeastOnce
               WITH Notifications <- Dispatches,
                    fate <- [d \in Dispatches |-> Fate(d)]

(* Every job ends, completed only if the endpoint has received its event,  *)
(* although answers get lost, POSTs arrive after their timeout and workers *)
(* die.                                                                    *)
DeliveredAtLeastOnce == Promise!Spec

=============================================================================
