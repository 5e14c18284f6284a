--------------------------- MODULE DeliveryProofs ---------------------------
(***************************************************************************)
(* Proofs about Merchants and OutboundDelivery for every set of merchants, *)
(* keys, requests and dispatches, number of attempts and budget of faults: *)
(* unique emails, keys that come with their merchants, barred requests     *)
(* that stay out; how often an endpoint is sent an event, when a job is    *)
(* given up, and that deliveries keep the safety part of AtLeastOnce.      *)
(***************************************************************************)
EXTENDS OutboundDelivery, TLAPS

-----------------------------------------------------------------------------
(* Merchants, keys and the guard. *)

(* A merchant whose creation is still going on has no row. *)
CreationsArePending ==
    \A m \in Merchants : createPc[m] \in {"idle", "inserting"} => m \notin created

(* Why a barred request stays out: its key exists and does not admit it,   *)
(* and only an update that reactivates its merchant can change that.       *)
BarredCannotEnter ==
    \A r \in barred :
        /\ guardPc[r] # "admitted"
        /\ apiKey[KeyIn[r]] # "none"
        /\ ~Admitting(KeyIn[r])

IInv ==
    /\ MerchantTypeOK
    /\ CreationsArePending
    /\ EmailsAreUnique
    /\ MerchantsHaveKeys
    /\ BarredCannotEnter

LEMMA InitIInv == MerchantInit => IInv
BY MerchantAssumption
   DEF MerchantInit, IInv, MerchantTypeOK, CreationsArePending, EmailsAreUnique,
       MerchantsHaveKeys, BarredCannotEnter

LEMMA InsertKeeps ==
    ASSUME IInv, NEW m \in Merchants, Insert(m)
    PROVE  IInv'
<1> USE MerchantAssumption
<1>0. m \notin created
  BY DEF IInv, CreationsArePending, Insert
<1>1. MerchantTypeOK'
  BY DEF IInv, MerchantTypeOK, Insert, CreateGoto
<1>2. CreationsArePending'
  BY DEF IInv, MerchantTypeOK, CreationsArePending, Insert, CreateGoto
<1>3. EmailsAreUnique'
  BY <1>0 DEF IInv, MerchantTypeOK, EmailsAreUnique, EmailTaken, Insert
<1>4. MerchantsHaveKeys'
  <2>1. created' = created \cup {m} /\ FirstKey[m] \in Keys
    BY DEF Insert
  <2>2. \A k \in Keys : apiKey'[k] = IF k = FirstKey[m] THEN "active" ELSE apiKey[k]
    BY DEF IInv, MerchantTypeOK, Insert
  <2>3. \A n \in created' : apiKey'[FirstKey[n]] # "none"
    BY <2>1, <2>2 DEF IInv, MerchantTypeOK, MerchantsHaveKeys
  <2>4. \A k \in Keys : apiKey'[k] # "none" => IssuedTo[k] \in created'
    BY <2>1, <2>2 DEF IInv, MerchantsHaveKeys
  <2> QED
    BY <2>3, <2>4 DEF MerchantsHaveKeys
<1>5. BarredCannotEnter'
  <2>1. SUFFICES ASSUME NEW r \in barred
                 PROVE  apiKey'[KeyIn[r]] = apiKey[KeyIn[r]]
                        /\ merchant'[IssuedTo[KeyIn[r]]] = merchant[IssuedTo[KeyIn[r]]]
    BY DEF IInv, BarredCannotEnter, Admitting, Insert
  <2>2. IssuedTo[KeyIn[r]] \in created /\ KeyIn[r] \in Keys
    BY DEF IInv, MerchantTypeOK, BarredCannotEnter, MerchantsHaveKeys
  <2>3. KeyIn[r] # FirstKey[m]
    BY <1>0, <2>2
  <2> QED
    BY <1>0, <2>2, <2>3 DEF IInv, MerchantTypeOK, Insert
<1> QED
  BY <1>1, <1>2, <1>3, <1>4, <1>5 DEF IInv

LEMMA UpdateKeeps ==
    ASSUME IInv, NEW m \in Merchants, UpdateMerchant(m)
    PROVE  IInv'
<1> USE MerchantAssumption
<1>0. PICK new \in Rows :
        /\ new.email = merchant[m].email \/ ~EmailTaken(new.email)
        /\ merchant' = [merchant EXCEPT ![m] = new]
        /\ barred' = IF new.active
                     THEN {r \in barred : IssuedTo[KeyIn[r]] = m => apiKey[KeyIn[r]] = "revoked"}
                     ELSE barred
  BY DEF UpdateMerchant
<1>1. MerchantTypeOK'
  BY <1>0 DEF IInv, MerchantTypeOK, UpdateMerchant
<1>2. CreationsArePending'
  BY DEF IInv, CreationsArePending, UpdateMerchant
<1>3. EmailsAreUnique'
  BY <1>0 DEF IInv, MerchantTypeOK, EmailsAreUnique, EmailTaken, UpdateMerchant
<1>4. MerchantsHaveKeys'
  BY DEF IInv, MerchantsHaveKeys, UpdateMerchant
<1>5. BarredCannotEnter'
  <2>1. SUFFICES ASSUME NEW r \in barred'
                 PROVE  ~Admitting(KeyIn[r])'
    BY <1>0 DEF IInv, BarredCannotEnter, UpdateMerchant
  <2>2. r \in barred /\ r \in Requests /\ ~Admitting(KeyIn[r])
    BY <1>0, <2>1 DEF IInv, MerchantTypeOK, BarredCannotEnter
  <2>3. CASE IssuedTo[KeyIn[r]] # m
    BY <1>0, <2>2, <2>3 DEF IInv, MerchantTypeOK, Admitting, UpdateMerchant
  <2>4. CASE IssuedTo[KeyIn[r]] = m /\ new.active
    BY <1>0, <2>1, <2>4 DEF Admitting, UpdateMerchant
  <2>5. CASE IssuedTo[KeyIn[r]] = m /\ ~new.active
    BY <1>0, <2>5 DEF IInv, MerchantTypeOK, Admitting, UpdateMerchant
  <2> QED
    BY <2>3, <2>4, <2>5
<1> QED
  BY <1>1, <1>2, <1>3, <1>4, <1>5 DEF IInv

LEMMA KeyStepsKeep ==
    ASSUME IInv, NEW k \in Keys, RotateApiKey(k) \/ RevokeApiKey(k)
    PROVE  IInv'
<1> USE MerchantAssumption
<1>1. MerchantTypeOK'
  BY DEF IInv, MerchantTypeOK, RotateApiKey, RevokeApiKey
<1>2. CreationsArePending' /\ EmailsAreUnique'
  BY DEF IInv, CreationsArePending, EmailsAreUnique, RotateApiKey, RevokeApiKey
<1>3. MerchantsHaveKeys'
  BY DEF IInv, MerchantTypeOK, MerchantsHaveKeys, RotateApiKey, RevokeApiKey
<1>4. BarredCannotEnter'
  BY DEF IInv, MerchantTypeOK, BarredCannotEnter, Admitting, RotateApiKey, RevokeApiKey
<1> QED
  BY <1>1, <1>2, <1>3, <1>4 DEF IInv

LEMMA GuardStepsKeep ==
    ASSUME IInv, NEW r \in Requests, Arrive(r) \/ FindMerchant(r) \/ Touch(r)
    PROVE  IInv'
<1> USE MerchantAssumption
<1>1. MerchantTypeOK'
  BY DEF IInv, MerchantTypeOK, Arrive, FindMerchant, Touch
<1>2. CreationsArePending' /\ EmailsAreUnique' /\ MerchantsHaveKeys'
  BY DEF IInv, CreationsArePending, EmailsAreUnique, MerchantsHaveKeys, Arrive, FindMerchant, Touch
<1>3. BarredCannotEnter'
  BY DEF IInv, MerchantTypeOK, BarredCannotEnter, Admitting, Arrive, FindMerchant, Touch
<1> QED
  BY <1>1, <1>2, <1>3 DEF IInv

LEMMA NextIInv == IInv /\ [MerchantNext]_merchantVars => IInv'
<1> SUFFICES ASSUME IInv, [MerchantNext]_merchantVars PROVE IInv'
  OBVIOUS
<1>1. ASSUME NEW m \in Merchants, CheckEmail(m) \/ InsertFails(m) PROVE IInv'
  BY <1>1
     DEF IInv, MerchantTypeOK, CreationsArePending, EmailsAreUnique, MerchantsHaveKeys,
         BarredCannotEnter, Admitting, CheckEmail, InsertFails, CreateGoto
<1>2. CASE UNCHANGED merchantVars
  BY <1>2
     DEF merchantVars, IInv, MerchantTypeOK, CreationsArePending, EmailsAreUnique,
         MerchantsHaveKeys, BarredCannotEnter, Admitting
<1> QED
  BY <1>1, <1>2, InsertKeeps, UpdateKeeps, KeyStepsKeep, GuardStepsKeep
     DEF MerchantNext, AdminNext, GuardNext

-----------------------------------------------------------------------------
(* Rows, keys and guard decisions keep their types. *)
THEOREM MerchantTypes == MerchantSpec => []MerchantTypeOK
<1>1. IInv => MerchantTypeOK
  BY DEF IInv
<1> QED
  BY <1>1, InitIInv, NextIInv, PTL DEF MerchantSpec

(* No two merchants have one email, for any number of creations and        *)
(* updates that race each other (createMerchant's check is not atomic with *)
(* its insert; the unique column is what counts).                          *)
THEOREM UniqueEmails == MerchantSpec => []EmailsAreUnique
<1>1. IInv => EmailsAreUnique
  BY DEF IInv
<1> QED
  BY <1>1, InitIInv, NextIInv, PTL DEF MerchantSpec

(* A request that arrives with a revoked key, or for a deactivated         *)
(* merchant, is never admitted (findMerchantByApiKey and the guard).       *)
THEOREM BarredRequestsStayOut == MerchantSpec => []BarredStaysOut
<1>1. IInv => BarredStaysOut
  BY DEF IInv, BarredCannotEnter, BarredStaysOut
<1> QED
  BY <1>1, InitIInv, NextIInv, PTL DEF MerchantSpec

(* A merchant and its first key come together (the nested create).         *)
THEOREM KeysComeWithMerchants == MerchantSpec => []MerchantsHaveKeys
<1>1. IInv => MerchantsHaveKeys
  BY DEF IInv
<1> QED
  BY <1>1, InitIInv, NextIInv, PTL DEF MerchantSpec

-----------------------------------------------------------------------------
(* Jobs and their POSTs. *)

JobTypes ==
    /\ dispatchPc \in [Dispatches -> {"idle", "adding", "added", "failed"}]
    /\ job \in [Dispatches -> {"none", "waiting", "active", "delayed", "stalled", "completed", "failed"}]
    /\ attemptsMade \in [Dispatches -> Nat]
    /\ stalls \in [Dispatches -> Nat]
    /\ posted \in [Dispatches -> Nat]
    /\ post \in [Dispatches -> {"none", "sent", "accepted", "refused"}]
    /\ late \in SUBSET Dispatches
    /\ received \in SUBSET Dispatches

(* The POSTs that have not yet shown up in a counter. *)
Uncounted(d) == IF job[d] \in {"active", "stalled", "completed"} THEN 1 ELSE 0

(* Each POST ends as a failed attempt, as a lost worker, or as a success,  *)
(* and a job that goes on has attempts and restarts left.                  *)
Budget(d) ==
    /\ posted[d] = attemptsMade[d] + stalls[d] + Uncounted(d)
    /\ job[d] = "failed" =>
          \/ attemptsMade[d] = Attempts /\ stalls[d] <= MaxStalls
          \/ attemptsMade[d] < Attempts /\ stalls[d] = MaxStalls + 1
    /\ job[d] # "failed" => attemptsMade[d] < Attempts /\ stalls[d] <= MaxStalls

(* Where a job and its POST are. *)
Places(d) ==
    /\ dispatchPc[d] \in {"idle", "adding"} => job[d] = "none"
    /\ post[d] # "none" => job[d] = "active"
    /\ post[d] = "accepted" => d \in received
    /\ d \in late => job[d] # "none"

JobInv == JobTypes /\ \A d \in Dispatches : Budget(d) /\ Places(d)

LEMMA InitJobInv == DeliveryInit => JobInv
BY OutboundAssumption
   DEF DeliveryInit, OutInit, JobInv, JobTypes, Budget, Places, Uncounted, MaxStalls

(* What happens to a dispatch leaves the others as they are. *)
LEMMA OthersKeep ==
    ASSUME JobInv, NEW d \in Dispatches, DispatchNext(d), JobTypes',
           NEW e \in Dispatches, e # d
    PROVE  Budget(e)' /\ Places(e)'
<1>1. /\ dispatchPc'[e] = dispatchPc[e]
      /\ job'[e] = job[e]
      /\ attemptsMade'[e] = attemptsMade[e]
      /\ stalls'[e] = stalls[e]
      /\ posted'[e] = posted[e]
      /\ post'[e] = post[e]
      /\ e \in late' <=> e \in late
      /\ e \in received' <=> e \in received
  <2>1. CASE Resolve(d) \/ ResolveFails(d) \/ AddJob(d) \/ AddJobFails(d)
    BY <2>1 DEF JobInv, JobTypes, Resolve, ResolveFails, AddJob, AddJobFails, jobVars,
                DispatchGoto, JobBecomes
  <2>2. CASE JobNext(d) /\ UNCHANGED <<dispatchPc, endpoint>>
    BY <2>2 DEF JobInv, JobTypes, JobNext, JobStep, Start, Complete, AttemptRefused,
                AttemptTimesOut, AttemptFails, Retry, RecoverStalled, WorkerDies,
                EndpointAnswers, LatePostArrives, JobBecomes, PostBecomes
  <2> QED
    BY <2>1, <2>2 DEF DispatchNext
<1> QED
  BY <1>1 DEF JobInv, Budget, Places, Uncounted

LEMMA CallSteps ==
    ASSUME JobInv, NEW d \in Dispatches,
           Resolve(d) \/ ResolveFails(d) \/ AddJob(d) \/ AddJobFails(d)
    PROVE  JobTypes' /\ Budget(d)' /\ Places(d)'
BY DEF JobInv, JobTypes, Budget, Places, Uncounted, Resolve, ResolveFails, AddJob, AddJobFails,
       jobVars, DispatchGoto, JobBecomes

LEMMA StartStep ==
    ASSUME JobInv, NEW d \in Dispatches, Start(d), UNCHANGED dispatchPc
    PROVE  JobTypes' /\ Budget(d)' /\ Places(d)'
BY DEF JobInv, JobTypes, Budget, Places, Uncounted, Start, JobBecomes, PostBecomes

LEMMA FailureStep ==
    ASSUME JobInv, NEW d \in Dispatches, AttemptRefused(d) \/ AttemptTimesOut(d),
           UNCHANGED dispatchPc
    PROVE  JobTypes' /\ Budget(d)' /\ Places(d)'
<1> USE OutboundAssumption DEF MaxStalls
<1>1. job[d] = "active" /\ AttemptFails(d) /\ (late' = late \/ late' = late \cup {d})
  BY DEF AttemptRefused, AttemptTimesOut
<1>2. JobTypes'
  BY <1>1 DEF JobInv, JobTypes, AttemptFails, JobBecomes, PostBecomes
<1>3. Budget(d)'
  <2>1. /\ attemptsMade'[d] = attemptsMade[d] + 1
        /\ stalls'[d] = stalls[d]
        /\ posted'[d] = posted[d]
        /\ job'[d] = IF attemptsMade[d] + 1 < Attempts THEN "delayed" ELSE "failed"
    BY <1>1 DEF JobInv, JobTypes, AttemptFails, JobBecomes
  <2> QED
    BY <1>1, <2>1 DEF JobInv, JobTypes, Budget, Uncounted
<1>4. Places(d)'
  BY <1>1 DEF JobInv, JobTypes, Places, AttemptFails, JobBecomes, PostBecomes
<1> QED
  BY <1>2, <1>3, <1>4

LEMMA OtherJobSteps ==
    ASSUME JobInv, NEW d \in Dispatches, UNCHANGED dispatchPc,
           \/ Complete(d) \/ Retry(d) \/ RecoverStalled(d) \/ WorkerDies(d)
           \/ EndpointAnswers(d) \/ LatePostArrives(d)
    PROVE  JobTypes' /\ Budget(d)' /\ Places(d)'
<1>1. CASE Complete(d) \/ Retry(d) \/ WorkerDies(d)
  BY <1>1 DEF JobInv, JobTypes, Budget, Places, Uncounted, Complete, Retry, WorkerDies,
              JobBecomes, PostBecomes
<1>2. CASE RecoverStalled(d)
  BY <1>2 DEF JobInv, JobTypes, Budget, Places, Uncounted, RecoverStalled, JobBecomes, MaxStalls
<1>3. CASE EndpointAnswers(d) \/ LatePostArrives(d)
  BY <1>3 DEF JobInv, JobTypes, Budget, Places, Uncounted, EndpointAnswers, LatePostArrives,
              PostBecomes
<1> QED
  BY <1>1, <1>2, <1>3

LEMMA DispatchKeeps ==
    ASSUME JobInv, NEW d \in Dispatches, DispatchNext(d)
    PROVE  JobInv'
<1>1. JobTypes' /\ Budget(d)' /\ Places(d)'
  BY CallSteps, StartStep, FailureStep, OtherJobSteps DEF DispatchNext, JobNext, JobStep
<1>2. \A e \in Dispatches : e # d => Budget(e)' /\ Places(e)'
  BY <1>1, OthersKeep
<1> QED
  BY <1>1, <1>2 DEF JobInv

LEMMA NextJobInv == JobInv /\ [OutNext]_vars => JobInv'
<1> SUFFICES ASSUME JobInv, [OutNext]_vars PROVE JobInv'
  OBVIOUS
<1>1. CASE UNCHANGED <<dispatchPc, jobVars>>
  BY <1>1 DEF jobVars, JobInv, JobTypes, Budget, Places, Uncounted
<1>2. UNCHANGED vars => UNCHANGED <<dispatchPc, jobVars>>
  BY DEF vars, outVars, jobVars
<1>3. \A m \in Merchants : EndpointChanges(m) => UNCHANGED <<dispatchPc, jobVars>>
  BY DEF EndpointChanges, jobVars
<1> QED
  BY <1>1, <1>2, <1>3, DispatchKeeps DEF OutNext

-----------------------------------------------------------------------------
(* An endpoint is sent one event at most Attempts + MaxStalls times, six   *)
(* in the code: failed attempts, timeouts and lost workers are all         *)
(* accounted for.                                                          *)
THEOREM BoundedPosts == OutSpec => []PostsAreBounded
<1>1. JobInv => PostsAreBounded
  <2> SUFFICES ASSUME JobInv, NEW d \in Dispatches
               PROVE  posted[d] <= Attempts + MaxStalls
    BY DEF PostsAreBounded
  <2> QED
    BY OutboundAssumption DEF JobInv, JobTypes, Budget, Uncounted, MaxStalls
<1> QED
  BY <1>1, InitJobInv, NextJobInv, PTL DEF OutSpec

(* A job is given up only when its attempts, or the restarts of its        *)
(* worker, are used up.                                                    *)
THEOREM GivenUpLate == OutSpec => []NotGivenUpEarly
<1>1. JobInv => NotGivenUpEarly
  BY DEF JobInv, Budget, NotGivenUpEarly, MaxStalls
<1> QED
  BY <1>1, InitJobInv, NextJobInv, PTL DEF OutSpec

-----------------------------------------------------------------------------
(* The target of a job is a known one: a lookup that is rejected and a     *)
(* column that is null both have their defaults.                           *)

TargetInv ==
    /\ merchant \in [Merchants -> Rows]
    /\ endpoint \in [Dispatches -> Endpoints \cup {NoEndpoint}]

LEMMA TargetsAreEndpoints ==
    /\ \A row \in Rows : TargetOf(row) \in Endpoints
    /\ DefaultTarget \in Endpoints
BY DEF Rows, Endpoints, TargetOf, DefaultTarget

LEMMA InitTargetInv == DeliveryInit => TargetInv
BY MerchantAssumption DEF DeliveryInit, MerchantInit, OutInit, TargetInv

LEMMA NextTargetInv == TargetInv /\ [OutNext]_vars => TargetInv'
<1> SUFFICES ASSUME TargetInv, [OutNext]_vars PROVE TargetInv'
  OBVIOUS
<1>1. CASE UNCHANGED <<merchant, endpoint>>
  BY <1>1 DEF TargetInv
<1>2. ASSUME NEW d \in Dispatches, Resolve(d) \/ ResolveFails(d), UNCHANGED merchant
      PROVE  TargetInv'
  <2>1. MerchantOf[d] \in Merchants
    BY OutboundAssumption
  <2>2. PICK target \in Endpoints : endpoint' = [endpoint EXCEPT ![d] = target]
    BY <1>2, <2>1, TargetsAreEndpoints DEF Resolve, ResolveFails, TargetInv
  <2> QED
    BY <1>2, <2>2 DEF TargetInv
<1>3. ASSUME NEW m \in Merchants, EndpointChanges(m) PROVE TargetInv'
  BY <1>3 DEF EndpointChanges, UpdateMerchant, TargetInv
<1>4. UNCHANGED vars => UNCHANGED <<merchant, endpoint>>
  BY DEF vars, outVars, merchantVars
<1>5. \A d \in Dispatches : AddJob(d) \/ AddJobFails(d) => UNCHANGED endpoint
  BY DEF AddJob, AddJobFails
<1> QED
  BY <1>1, <1>2, <1>3, <1>4, <1>5 DEF OutNext, DispatchNext, merchantVars

-----------------------------------------------------------------------------
(* Types: those of the merchants are kept because deliveries only read the *)
(* merchants' rows, those of the jobs because attempts and restarts are    *)
(* within their budget.                                                    *)

LEMMA StepIsMerchantStep == [OutNext]_vars => [MerchantNext]_merchantVars
BY DEF OutNext, EndpointChanges, MerchantNext, AdminNext, UpdateMerchant, vars

(* Deliveries do to merchants, keys and requests nothing but what the      *)
(* specification of merchants allows: what is proved of it holds here.     *)
THEOREM DeliveriesKeepMerchants == OutSpec => MerchantSpec
<1>1. DeliveryInit => MerchantInit
  BY DEF DeliveryInit
<1> QED
  BY <1>1, StepIsMerchantStep, PTL DEF OutSpec, MerchantSpec

FaultsInBudget == faults \in 0 .. MaxFaults

LEMMA FaultsStep == FaultsInBudget /\ [OutNext]_vars => FaultsInBudget'
<1> SUFFICES ASSUME FaultsInBudget, [OutNext]_vars PROVE FaultsInBudget'
  OBVIOUS
<1>1. UNCHANGED faults \/ Fault
  BY DEF OutNext, DispatchNext, Resolve, ResolveFails, AddJob, AddJobFails, JobNext, WorkerDies,
         EndpointChanges, vars, outVars
<1> QED
  BY <1>1, OutboundAssumption DEF Fault, FaultsInBudget

(* Everything keeps its type; no job has more failed attempts or lost      *)
(* workers than it is allowed.                                             *)
THEOREM DeliveryTypes == OutSpec => []OutTypeOK
<1>1. DeliveryInit => FaultsInBudget
  BY OutboundAssumption DEF DeliveryInit, OutInit, FaultsInBudget
<1>2. JobInv => /\ attemptsMade \in [Dispatches -> 0 .. Attempts]
                /\ stalls \in [Dispatches -> 0 .. MaxStalls + 1]
  <2> SUFFICES ASSUME JobInv, NEW d \in Dispatches
               PROVE  attemptsMade[d] \in 0 .. Attempts /\ stalls[d] \in 0 .. MaxStalls + 1
    BY DEF JobInv, JobTypes
  <2>1. attemptsMade[d] \in Nat /\ stalls[d] \in Nat /\ Attempts \in Nat
    BY OutboundAssumption DEF JobInv, JobTypes
  <2> QED
    BY <2>1 DEF JobInv, Budget, MaxStalls
<1>3. JobInv /\ TargetInv /\ FaultsInBudget /\ MerchantTypeOK => OutTypeOK
  BY <1>2 DEF JobInv, JobTypes, TargetInv, FaultsInBudget, OutTypeOK
<1> QED
  BY <1>1, <1>3, InitJobInv, NextJobInv, InitTargetInv, NextTargetInv, FaultsStep,
     DeliveriesKeepMerchants, MerchantTypes, PTL DEF OutSpec

-----------------------------------------------------------------------------
(* Deliveries keep the safety part of AtLeastOnce: every step accepts a    *)
(* notification, receives, finishes or gives up one, or changes neither    *)
(* fates nor receipts.                                                     *)

Fates == [d \in Dispatches |-> Fate(d)]

LEMMA PromiseInit == DeliveryInit => Promise!Init
BY DEF DeliveryInit, OutInit, Promise!Init, Fate

LEMMA JobPromise ==
    ASSUME JobInv, NEW d \in Dispatches, JobNext(d)
    PROVE  UNCHANGED <<Fates, received>> \/ Promise!Next
<1> USE DEF JobInv, JobTypes, Places, JobBecomes, PostBecomes
<1>1. ASSUME Start(d) \/ Retry(d) \/ WorkerDies(d) PROVE UNCHANGED <<Fates, received>>
  BY <1>1 DEF Start, Retry, WorkerDies, Fates, Fate
<1>2. ASSUME Complete(d) PROVE Promise!Finish(d)
  BY <1>2 DEF Complete, Fate, Promise!Finish
<1>3. ASSUME NEW state \in {"waiting", "delayed", "failed"},
             job[d] \in {"active", "stalled"}, JobBecomes(d, state), UNCHANGED received
      PROVE  UNCHANGED <<Fates, received>> \/ Promise!GiveUp(d)
  BY <1>3 DEF Fates, Fate, Promise!GiveUp
<1>4. ASSUME AttemptRefused(d) \/ AttemptTimesOut(d) \/ RecoverStalled(d)
      PROVE  UNCHANGED <<Fates, received>> \/ Promise!GiveUp(d)
  BY <1>3, <1>4 DEF AttemptRefused, AttemptTimesOut, AttemptFails, RecoverStalled
<1>5. ASSUME EndpointAnswers(d) \/ LatePostArrives(d)
      PROVE  UNCHANGED <<Fates, received>> \/ Promise!Receive(d)
  BY <1>5 DEF EndpointAnswers, LatePostArrives, Fates, Fate, Promise!Receive
<1> QED
  BY <1>1, <1>2, <1>4, <1>5 DEF JobNext, JobStep, Promise!Next

LEMMA PromiseStep ==
    ASSUME JobInv, [OutNext]_vars
    PROVE  [Promise!Next]_(Promise!promise)
<1> USE DEF Promise!promise, Fates
<1>1. CASE UNCHANGED jobVars
  BY <1>1 DEF jobVars, Fate
<1>2. ASSUME NEW d \in Dispatches, AddJob(d) PROVE Promise!Next
  <2>1. Promise!Accept(d)
    BY <1>2 DEF AddJob, JobInv, JobTypes, Places, JobBecomes, Fate, Promise!Accept
  <2> QED
    BY <2>1 DEF Promise!Next
<1>3. UNCHANGED vars => UNCHANGED jobVars
  BY DEF vars, outVars, jobVars
<1>4. \A d \in Dispatches : Resolve(d) \/ ResolveFails(d) \/ AddJobFails(d) => UNCHANGED jobVars
  BY DEF Resolve, ResolveFails, AddJobFails
<1>5. \A m \in Merchants : EndpointChanges(m) => UNCHANGED jobVars
  BY DEF EndpointChanges
<1> QED
  BY <1>1, <1>2, <1>3, <1>4, <1>5, JobPromise DEF OutNext, DispatchNext

(* A job is completed only after its endpoint has received it, and what is *)
(* completed or given up stays so, whatever workers and late POSTs do.     *)
THEOREM ImplementsAtLeastOnce == OutSpec => Promise!Safety
<1>1. JobInv /\ [OutNext]_vars => [Promise!Next]_(Promise!promise)
  BY PromiseStep
<1> QED
  BY PromiseInit, <1>1, InitJobInv, NextJobInv, PTL DEF OutSpec, Promise!Safety

=============================================================================
