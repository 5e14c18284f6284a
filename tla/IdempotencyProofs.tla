-------------------------- MODULE IdempotencyProofs --------------------------
(***************************************************************************)
(* Proofs about IdempotencyInterceptor for every set of requests and keys. *)
(* ResultInv says where results come from; OwnerInv says which request     *)
(* owns the row of a key that is not used beyond its row's lifetime.       *)
(***************************************************************************)
EXTENDS IdempotencyInterceptor, TLAPS

LEMMA NamesDistinct ==
    /\ Absent \notin Requests
    /\ InFlight \notin Requests
    /\ NoResult \notin Requests
    /\ Absent # InFlight
BY RowAssumption

(* The sub-actions of a request, by name. *)
LEMMA NextCases ==
    ASSUME [Next]_vars
    PROVE  \/ UNCHANGED vars
           \/ \E r \in Requests : Bypass(r)
           \/ \E r \in Requests : Lookup(r)
           \/ \E r \in Requests : BypassReturns(r)
           \/ \E r \in Requests : DeleteExpired(r)
           \/ \E r \in Requests : Create(r)
           \/ \E r \in Requests : CreateConflicts(r)
           \/ \E r \in Requests : CreateFails(r)
           \/ \E r \in Requests : HandlerSucceeds(r)
           \/ \E r \in Requests : HandlerFails(r)
           \/ \E r \in Requests : CacheResult(r)
           \/ \E r \in Requests : Release(r)
           \/ \E r \in Requests : Crash(r)
           \/ \E k \in Keys : Expire(k)
BY DEF Next, Step

-----------------------------------------------------------------------------
(* Every variable keeps its type. *)
THEOREM TypeCorrect == Spec => []TypeOK
<1>1. Init => TypeOK
  BY DEF Init, TypeOK, Steps, Replies
<1>2. TypeOK /\ [Next]_vars => TypeOK'
  <2> SUFFICES ASSUME TypeOK, [Next]_vars PROVE TypeOK'
    OBVIOUS
  <2> USE KeyAssumption DEF TypeOK, Steps, Replies, Goto, Answer, AnswerWith, RemoveRow
  <2>1. CASE UNCHANGED vars
    BY <2>1 DEF vars
  <2>2. ASSUME NEW r \in Requests, Bypass(r) PROVE TypeOK'
    BY <2>2 DEF Bypass
  <2>3. ASSUME NEW r \in Requests, Lookup(r) PROVE TypeOK'
    BY <2>3 DEF Lookup, LookupMiss, LookupExpired, LookupReplays, LookupConflicts, LookupFails
  <2>4. ASSUME NEW r \in Requests, BypassReturns(r) PROVE TypeOK'
    BY <2>4 DEF BypassReturns
  <2>5. ASSUME NEW r \in Requests, DeleteExpired(r) PROVE TypeOK'
    BY <2>5 DEF DeleteExpired
  <2>6. ASSUME NEW r \in Requests, Create(r) PROVE TypeOK'
    BY <2>6 DEF Create
  <2>7. ASSUME NEW r \in Requests, CreateConflicts(r) PROVE TypeOK'
    BY <2>7 DEF CreateConflicts
  <2>8. ASSUME NEW r \in Requests, CreateFails(r) PROVE TypeOK'
    BY <2>8 DEF CreateFails
  <2>9. ASSUME NEW r \in Requests, HandlerSucceeds(r) PROVE TypeOK'
    BY <2>9 DEF HandlerSucceeds
  <2>10. ASSUME NEW r \in Requests, HandlerFails(r) PROVE TypeOK'
    BY <2>10 DEF HandlerFails
  <2>11. ASSUME NEW r \in Requests, CacheResult(r) PROVE TypeOK'
    BY <2>11 DEF CacheResult
  <2>12. ASSUME NEW r \in Requests, Release(r) PROVE TypeOK'
    BY <2>12 DEF Release
  <2>13. ASSUME NEW r \in Requests, Crash(r) PROVE TypeOK'
    BY <2>13 DEF Crash
  <2>14. ASSUME NEW k \in Keys, Expire(k) PROVE TypeOK'
    BY <2>14 DEF Expire
  <2> QED
    BY NextCases, <2>1, <2>2, <2>3, <2>4, <2>5, <2>6, <2>7, <2>8, <2>9, <2>10,
       <2>11, <2>12, <2>13, <2>14
<1>3. QED
  BY <1>1, <1>2, PTL DEF Spec

-----------------------------------------------------------------------------
(* Where results come from: only a keyed request passes the lookup, only a *)
(* request whose handler succeeded writes the row of its key, and a client *)
(* is told its own result or the one the row holds.                        *)

KeyedSteps == {"deleting", "creating", "handling", "caching", "releasing"}

OnlyKeyedReserve ==
    /\ \A r \in Requests : pc[r] \in KeyedSteps => KeyOf[r] # NoKey
    /\ \A r \in Requests : pc[r] = "bypass" => KeyOf[r] = NoKey

CachingFollowsSuccess == \A r \in Requests : pc[r] = "caching" => r \in executed

RowsAreReal ==
    \A k \in Keys : row[k] \in Requests => row[k] \in executed /\ KeyOf[row[k]] = k

ResultInv == OnlyKeyedReserve /\ CachingFollowsSuccess /\ RowsAreReal /\ ResultsAreReal

LEMMA ResultInvInit == Init => ResultInv
BY NamesDistinct
   DEF Init, ResultInv, OnlyKeyedReserve, CachingFollowsSuccess, RowsAreReal, ResultsAreReal, KeyedSteps

LEMMA ResultInvStep ==
    ASSUME TypeOK, ResultInv, [Next]_vars
    PROVE  ResultInv'
<1> USE KeyAssumption, NamesDistinct
    DEF TypeOK, Steps, Replies, ResultInv, OnlyKeyedReserve, CachingFollowsSuccess, RowsAreReal,
        ResultsAreReal, KeyedSteps, Goto, Answer, AnswerWith, RemoveRow
<1>1. CASE UNCHANGED vars
  BY <1>1 DEF vars
<1>2. ASSUME NEW r \in Requests, Bypass(r) PROVE ResultInv'
  BY <1>2 DEF Bypass
<1>3. ASSUME NEW r \in Requests, Lookup(r) PROVE ResultInv'
  BY <1>3 DEF Lookup, LookupMiss, LookupExpired, LookupReplays, LookupConflicts, LookupFails
<1>4. ASSUME NEW r \in Requests, BypassReturns(r) PROVE ResultInv'
  BY <1>4 DEF BypassReturns
<1>5. ASSUME NEW r \in Requests, DeleteExpired(r) PROVE ResultInv'
  BY <1>5 DEF DeleteExpired
<1>6. ASSUME NEW r \in Requests, Create(r) PROVE ResultInv'
  BY <1>6 DEF Create
<1>7. ASSUME NEW r \in Requests, CreateConflicts(r) PROVE ResultInv'
  BY <1>7 DEF CreateConflicts
<1>8. ASSUME NEW r \in Requests, CreateFails(r) PROVE ResultInv'
  BY <1>8 DEF CreateFails
<1>9. ASSUME NEW r \in Requests, HandlerSucceeds(r) PROVE ResultInv'
  BY <1>9 DEF HandlerSucceeds
<1>10. ASSUME NEW r \in Requests, HandlerFails(r) PROVE ResultInv'
  BY <1>10 DEF HandlerFails
<1>11. ASSUME NEW r \in Requests, CacheResult(r) PROVE ResultInv'
  BY <1>11 DEF CacheResult
<1>12. ASSUME NEW r \in Requests, Release(r) PROVE ResultInv'
  BY <1>12 DEF Release
<1>13. ASSUME NEW r \in Requests, Crash(r) PROVE ResultInv'
  BY <1>13 DEF Crash
<1>14. ASSUME NEW k \in Keys, Expire(k) PROVE ResultInv'
  BY <1>14 DEF Expire
<1> QED
  BY NextCases, <1>1, <1>2, <1>3, <1>4, <1>5, <1>6, <1>7, <1>8, <1>9, <1>10, <1>11, <1>12,
     <1>13, <1>14

LEMMA ResultInvariant == Spec => []ResultInv
<1>1. TypeOK /\ ResultInv /\ [Next]_vars => ResultInv'
  BY ResultInvStep
<1> QED
  BY ResultInvInit, TypeCorrect, <1>1, PTL DEF Spec

(* An answer that carries a result carries that of a handler that          *)
(* succeeded under the same key, expired rows and their take-over          *)
(* included.                                                               *)
THEOREM ResultsReal == Spec => []ResultsAreReal
<1>1. ResultInv => ResultsAreReal
  BY DEF ResultInv
<1> QED
  BY <1>1, ResultInvariant, PTL

-----------------------------------------------------------------------------
(* A row without a result has a request at work, or one that died, as long *)
(* as the database rejects no call: also for keys whose rows expire.       *)

LEMMA FreesKeyStep ==
    ASSUME DbMayFail = FALSE, TypeOK, FailureFreesKey, [Next]_vars
    PROVE  FailureFreesKey'
<1> USE KeyAssumption, NamesDistinct
    DEF TypeOK, FailureFreesKey, Goto, Answer, AnswerWith, RemoveRow
<1>1. CASE UNCHANGED vars
  BY <1>1 DEF vars
<1>2. ASSUME NEW r \in Requests,
             Bypass(r) \/ Lookup(r) \/ BypassReturns(r) \/ CreateConflicts(r) \/ CreateFails(r)
      PROVE  FailureFreesKey'
  <2>1. row' = row /\ pc[r] \in {"idle", "bypass", "creating"}
    BY <1>2 DEF Bypass, Lookup, BypassReturns, CreateConflicts, CreateFails
  <2>2. \A s \in Requests : s # r => pc'[s] = pc[s]
    BY <1>2 DEF Bypass, Lookup, LookupMiss, LookupExpired, LookupReplays, LookupConflicts,
                LookupFails, BypassReturns, CreateConflicts, CreateFails
  <2> QED
    BY <2>1, <2>2
<1>3. ASSUME NEW r \in Requests, DeleteExpired(r) PROVE FailureFreesKey'
  BY <1>3 DEF DeleteExpired
<1>4. ASSUME NEW r \in Requests, Create(r) PROVE FailureFreesKey'
  BY <1>4 DEF Create
<1>5. ASSUME NEW r \in Requests, HandlerSucceeds(r) \/ HandlerFails(r) \/ Crash(r)
      PROVE  FailureFreesKey'
  BY <1>5 DEF HandlerSucceeds, HandlerFails, Crash
<1>6. ASSUME NEW r \in Requests, CacheResult(r) PROVE FailureFreesKey'
  BY <1>6 DEF CacheResult
<1>7. ASSUME NEW r \in Requests, Release(r) PROVE FailureFreesKey'
  BY <1>7 DEF Release
<1>8. ASSUME NEW k \in Keys, Expire(k) PROVE FailureFreesKey'
  BY <1>8 DEF Expire
<1> QED
  BY NextCases, <1>1, <1>2, <1>3, <1>4, <1>5, <1>6, <1>7, <1>8

(* A request whose handler failed does not leave its key blocked: a retry  *)
(* gets a 409 only while another attempt is at work or after one has died. *)
THEOREM FailureFrees ==
    ASSUME DbMayFail = FALSE
    PROVE  Spec => []FailureFreesKey
<1>1. Init => FailureFreesKey
  BY NamesDistinct DEF Init, FailureFreesKey
<1>2. TypeOK /\ FailureFreesKey /\ [Next]_vars => FailureFreesKey'
  BY FreesKeyStep
<1> QED
  BY <1>1, <1>2, TypeCorrect, PTL DEF Spec

-----------------------------------------------------------------------------
(* Who owns a row of a key not in Expiring: a request owns the row of its  *)
(* key from the insert until it releases it, and for ever once its handler *)
(* has succeeded.                                                          *)

Holds(r) == pc[r] \in {"handling", "caching", "releasing"}

Lasting == Keys \ Expiring

Owns(r) == KeyOf[r] \in Lasting /\ (r \in executed \/ Holds(r))

NothingExpired ==
    /\ expired \cap Lasting = {}
    /\ \A r \in Requests : pc[r] = "deleting" => KeyOf[r] \notin Lasting

OwnerHasRow == \A r \in Requests : Owns(r) => row[KeyOf[r]] # Absent

OneOwner == \A r, s \in Requests : Owns(r) /\ Owns(s) /\ KeyOf[r] = KeyOf[s] => r = s

(* A request that is still to run, or has failed, has not succeeded. *)
SuccessIsLate ==
    \A r \in Requests :
        pc[r] \in {"idle", "deleting", "creating", "handling", "releasing"} => r \notin executed

(* The request whose result is cached has nothing left to do. *)
CachedIsOver ==
    \A k \in Lasting : row[k] \in Requests => ~Holds(row[k])

ExecutedIsKeyed == \A r \in executed : KeyOf[r] # NoKey

OwnerInv ==
    /\ NothingExpired
    /\ OwnerHasRow
    /\ OneOwner
    /\ SuccessIsLate
    /\ CachedIsOver
    /\ ExecutedIsKeyed

LEMMA OwnerInvInit == Init => OwnerInv
BY NamesDistinct
   DEF Init, OwnerInv, NothingExpired, OwnerHasRow, OneOwner, SuccessIsLate, CachedIsOver,
       ExecutedIsKeyed, Owns, Holds, Lasting

LEMMA OwnerInvStep ==
    ASSUME TypeOK, ResultInv, OwnerInv, [Next]_vars
    PROVE  OwnerInv'
<1> USE KeyAssumption, NamesDistinct
    DEF TypeOK, Steps, Replies, ResultInv, OnlyKeyedReserve, CachingFollowsSuccess, RowsAreReal,
        KeyedSteps, OwnerInv, NothingExpired, OwnerHasRow, OneOwner, SuccessIsLate, CachedIsOver,
        ExecutedIsKeyed, Owns, Holds, Lasting, Goto, Answer, AnswerWith, RemoveRow
<1>1. CASE UNCHANGED vars
  BY <1>1 DEF vars
<1>2. ASSUME NEW r \in Requests, Bypass(r) PROVE OwnerInv'
  BY <1>2 DEF Bypass
<1>3. ASSUME NEW r \in Requests, Lookup(r) PROVE OwnerInv'
  BY <1>3 DEF Lookup, LookupMiss, LookupExpired, LookupReplays, LookupConflicts, LookupFails
<1>4. ASSUME NEW r \in Requests, BypassReturns(r) PROVE OwnerInv'
  BY <1>4 DEF BypassReturns
<1>5. ASSUME NEW r \in Requests, DeleteExpired(r) PROVE OwnerInv'
  BY <1>5 DEF DeleteExpired
<1>6. ASSUME NEW r \in Requests, Create(r) PROVE OwnerInv'
  <2>1. KeyOf[r] \in Keys /\ row[KeyOf[r]] = Absent
    BY <1>6 DEF Create
  <2>2. /\ row' = [row EXCEPT ![KeyOf[r]] = InFlight]
        /\ pc' = [pc EXCEPT ![r] = "handling"]
        /\ UNCHANGED <<expired, executed>>
    BY <1>6 DEF Create
  <2>3. \A s \in Requests : KeyOf[s] = KeyOf[r] => ~Owns(s)
    BY <2>1
  <2>4. \A s \in Requests : s # r => (Owns(s)' <=> Owns(s))
    BY <2>2
  <2>5. OneOwner'
    BY <2>3, <2>4
  <2>6. OwnerHasRow' /\ SuccessIsLate'
    BY <1>6, <2>1, <2>2 DEF Create
  <2>7. NothingExpired' /\ ExecutedIsKeyed'
    BY <2>2
  <2>8. CachedIsOver'
    BY <2>1, <2>2
  <2> QED
    BY <2>5, <2>6, <2>7, <2>8
<1>7. ASSUME NEW r \in Requests, CreateConflicts(r) PROVE OwnerInv'
  BY <1>7 DEF CreateConflicts
<1>8. ASSUME NEW r \in Requests, CreateFails(r) PROVE OwnerInv'
  BY <1>8 DEF CreateFails
<1>9. ASSUME NEW r \in Requests, HandlerSucceeds(r) PROVE OwnerInv'
  BY <1>9 DEF HandlerSucceeds
<1>10. ASSUME NEW r \in Requests, HandlerFails(r) PROVE OwnerInv'
  BY <1>10 DEF HandlerFails
<1>11. ASSUME NEW r \in Requests, CacheResult(r) PROVE OwnerInv'
  BY <1>11 DEF CacheResult
<1>12. ASSUME NEW r \in Requests, Release(r) PROVE OwnerInv'
  BY <1>12 DEF Release
<1>13. ASSUME NEW r \in Requests, Crash(r) PROVE OwnerInv'
  BY <1>13 DEF Crash
<1>14. ASSUME NEW k \in Keys, Expire(k) PROVE OwnerInv'
  BY <1>14 DEF Expire
<1> QED
  BY NextCases, <1>1, <1>2, <1>3, <1>4, <1>5, <1>6, <1>7, <1>8, <1>9, <1>10, <1>11, <1>12,
     <1>13, <1>14

LEMMA OwnerInvariant == Spec => []OwnerInv
<1>1. TypeOK /\ ResultInv /\ OwnerInv /\ [Next]_vars => OwnerInv'
  BY OwnerInvStep
<1> QED
  BY OwnerInvInit, TypeCorrect, ResultInvariant, <1>1, PTL DEF Spec

(* The handlers of two requests with one key never run at the same time,   *)
(* however many replicas serve them and whatever crashes or fails, unless  *)
(* the key is still used after its row has expired.                        *)
THEOREM OneHandlerAtATime == Spec => []NoConcurrentHandlers
<1>1. OwnerInv => NoConcurrentHandlers
  BY KeyAssumption DEF OwnerInv, OneOwner, Owns, Holds, Lasting, NoConcurrentHandlers, OneHandler, InTime, SameKey
<1> QED
  BY <1>1, OwnerInvariant, PTL

(* A key that is not used beyond its row's lifetime has one execution at   *)
(* most.                                                                   *)
THEOREM ExecutedOnce == Spec => []AtMostOneExecution
<1>1. TypeOK /\ OwnerInv => AtMostOneExecution
  BY KeyAssumption DEF TypeOK, OwnerInv, OneOwner, Owns, Lasting, AtMostOneExecution, InTime, SameKey
<1> QED
  BY <1>1, TypeCorrect, OwnerInvariant, PTL

(* Everyone who is told a result under such a key is told the result of    *)
(* the same execution.                                                     *)
THEOREM OneResult == Spec => []OneResultPerKey
<1>1. TypeOK /\ ResultInv /\ OwnerInv => OneResultPerKey
  <2> SUFFICES ASSUME TypeOK, ResultInv, OwnerInv,
                      NEW r \in Requests, NEW s \in Requests,
                      InTime(r, s), result[r] # NoResult, result[s] # NoResult
               PROVE  result[r] = result[s]
    BY DEF OneResultPerKey
  <2>1. /\ result[r] \in executed /\ KeyOf[result[r]] = KeyOf[r]
        /\ result[s] \in executed /\ KeyOf[result[s]] = KeyOf[s]
    BY DEF ResultInv, ResultsAreReal, InTime, SameKey
  <2>2. result[r] \in Requests /\ result[s] \in Requests
    BY <2>1 DEF TypeOK
  <2> QED
    BY <2>1, <2>2, KeyAssumption DEF OwnerInv, OneOwner, Owns, Lasting, InTime, SameKey
<1> QED
  BY <1>1, TypeCorrect, ResultInvariant, OwnerInvariant, PTL

(* A cached response stays what it is while its row cannot expire.         *)
THEOREM CacheIsStable == Spec => CachedResponseIsStable
<1> DEFINE Stable == \A k \in Lasting : row[k] \in Requests => row'[k] = row[k]
<1>1. TypeOK /\ ResultInv /\ OwnerInv /\ [Next]_vars => [Stable]_vars
  <2> SUFFICES ASSUME TypeOK, ResultInv, OwnerInv, [Next]_vars,
                      NEW k \in Lasting, row[k] \in Requests, row'[k] # row[k]
               PROVE  FALSE
    BY DEF vars
  <2> USE NamesDistinct, KeyAssumption DEF TypeOK, Lasting
  <2>1. \/ \E r \in Requests : DeleteExpired(r)
        \/ \E r \in Requests : Create(r)
        \/ \E r \in Requests : CreateFails(r)
        \/ \E r \in Requests : CacheResult(r)
        \/ \E r \in Requests : Release(r)
    BY NextCases
       DEF vars, Bypass, Lookup, BypassReturns, CreateConflicts, HandlerSucceeds, HandlerFails,
           Crash, Expire
  <2>2. ASSUME NEW r \in Requests, Create(r) \/ CreateFails(r) PROVE FALSE
    BY <2>2 DEF Create, CreateFails
  <2>3. ASSUME NEW r \in Requests, pc[r] \in {"caching", "releasing"}, KeyOf[r] = k PROVE FALSE
    <3>1. Owns(r) /\ Owns(row[k]) /\ KeyOf[row[k]] = k /\ ~Holds(row[k])
      BY <2>3 DEF ResultInv, OnlyKeyedReserve, KeyedSteps, RowsAreReal, OwnerInv, CachedIsOver,
                  Owns, Holds
    <3> QED
      BY <2>3, <3>1 DEF OwnerInv, OneOwner, Holds
  <2>4. ASSUME NEW r \in Requests, CacheResult(r) \/ Release(r) PROVE FALSE
    BY <2>3, <2>4 DEF CacheResult, Release, RemoveRow
  <2>5. ASSUME NEW r \in Requests, DeleteExpired(r) PROVE FALSE
    BY <2>5 DEF DeleteExpired, RemoveRow, OwnerInv, NothingExpired
  <2> QED
    BY <2>1, <2>2, <2>4, <2>5
<1>2. Stable <=> \A k \in Keys \ Expiring : row[k] \in Requests => row'[k] = row[k]
  BY DEF Lasting
<1> QED
  BY <1>1, <1>2, TypeCorrect, ResultInvariant, OwnerInvariant, PTL DEF Spec, CachedResponseIsStable

-----------------------------------------------------------------------------
(* The interceptor implements OncePerKey: every step of a timely request   *)
(* is a step of the promise or leaves running, finished and told as they   *)
(* are, and the others do not show.                                        *)

LEMMA PromiseInit == Init => Promise!Init
BY DEF Init, Timely, Promise!Init

LEMMA PromiseStep ==
    ASSUME TypeOK, ResultInv, OwnerInv, [Next]_vars
    PROVE  [Promise!Next]_(Promise!promise)
<1> DEFINE run == {r \in Timely : pc[r] = "handling"}
           fin == executed \cap Timely
           told == [r \in Timely |-> result[r]]
           Hidden == UNCHANGED <<run, fin, told>>
<1> USE KeyAssumption, NamesDistinct DEF TypeOK, Goto, Answer, AnswerWith, Timely
<1>1. ASSUME UNCHANGED vars PROVE Hidden
  BY <1>1 DEF vars
<1>2. ASSUME NEW r \in Requests, Bypass(r) PROVE Hidden
  BY <1>2 DEF Bypass
<1>3. ASSUME NEW r \in Requests, Lookup(r) PROVE Hidden \/ Promise!Next
  <2>1. run' = run /\ fin' = fin
    BY <1>3 DEF Lookup, LookupMiss, LookupExpired, LookupReplays, LookupConflicts, LookupFails
  <2>2. CASE LookupReplays(r) /\ r \in Timely
    <3>0. PICK s \in Requests : s = row[KeyOf[r]]
      BY <2>2 DEF LookupReplays
    <3>1. s \in fin /\ s \in Timely /\ KeyOf[s] = KeyOf[r]
      BY <1>3, <2>2, <3>0 DEF Lookup, LookupReplays, ResultInv, RowsAreReal
    <3>2. told' = [told EXCEPT ![r] = s]
      BY <2>2, <3>0 DEF LookupReplays
    <3>3. Promise!Tell(r, s)
      BY <2>1, <3>1, <3>2 DEF Promise!Tell
    <3> QED
      BY <2>2, <3>1, <3>3 DEF Promise!Next
  <2>3. CASE ~(LookupReplays(r) /\ r \in Timely)
    <3>1. told' = told
      BY <1>3, <2>3 DEF Lookup, LookupMiss, LookupExpired, LookupReplays, LookupConflicts, LookupFails
    <3> QED
      BY <2>1, <3>1
  <2> QED
    BY <2>2, <2>3
<1>4. ASSUME NEW r \in Requests, BypassReturns(r) PROVE Hidden \/ Promise!Next
  <2>1. run' = run /\ fin' = fin
    BY <1>4 DEF BypassReturns
  <2>2. KeyOf[r] = NoKey /\ r \in Timely
    BY <1>4, SwitchAssumption DEF BypassReturns, ResultInv, OnlyKeyedReserve
  <2>3. told' = told \/ told' = [told EXCEPT ![r] = r]
    BY <1>4 DEF BypassReturns
  <2> QED
    BY <2>1, <2>2, <2>3 DEF Promise!Unkeyed, Promise!Next
<1>5. ASSUME NEW r \in Requests, Create(r) PROVE Hidden \/ Promise!Next
  <2>1. fin' = fin /\ told' = told
    BY <1>5 DEF Create
  <2>2. CASE r \in Timely
    <3>1. KeyOf[r] # NoKey /\ KeyOf[r] \in Lasting
      BY <1>5, <2>2 DEF Create, ResultInv, OnlyKeyedReserve, KeyedSteps, Lasting
    <3>2. \A s \in run \cup fin : KeyOf[s] # KeyOf[r]
      BY <1>5, <3>1 DEF Create, OwnerInv, OwnerHasRow, Owns, Holds
    <3>3. run' = run \cup {r}
      BY <1>5, <2>2 DEF Create
    <3>4. Promise!Begin(r)
      BY <2>1, <3>1, <3>2, <3>3 DEF Promise!Begin, Promise!Taken
    <3> QED
      BY <2>2, <3>4 DEF Promise!Next
  <2>3. CASE r \notin Timely
    <3>1. run' = run
      BY <1>5, <2>3 DEF Create
    <3> QED
      BY <2>1, <3>1
  <2> QED
    BY <2>2, <2>3
<1>6. ASSUME NEW r \in Requests, HandlerSucceeds(r) PROVE Hidden \/ Promise!Next
  <2>1. CASE r \in Timely
    <3>1. r \in run /\ run' = run \ {r} /\ fin' = fin \cup {r}
      BY <1>6, <2>1 DEF HandlerSucceeds
    <3>2. told' = [told EXCEPT ![r] = r]
      BY <1>6, <2>1 DEF HandlerSucceeds
    <3>3. Promise!Finish(r)
      BY <3>1, <3>2 DEF Promise!Finish
    <3> QED
      BY <2>1, <3>3 DEF Promise!Next
  <2>2. CASE r \notin Timely
    <3>1. run' = run /\ fin' = fin
      BY <1>6, <2>2 DEF HandlerSucceeds
    <3>2. told' = told
      BY <1>6, <2>2 DEF HandlerSucceeds
    <3> QED
      BY <3>1, <3>2
  <2> QED
    BY <2>1, <2>2
<1>7. ASSUME NEW r \in Requests, HandlerFails(r) \/ Crash(r) PROVE Hidden \/ Promise!Next
  <2>1. fin' = fin /\ told' = told
    BY <1>7 DEF HandlerFails, Crash
  <2>2. run' = run \/ (r \in run /\ run' = run \ {r})
    BY <1>7 DEF HandlerFails, Crash
  <2> QED
    BY <2>1, <2>2 DEF Promise!Abort, Promise!Next
<1>8. ASSUME NEW r \in Requests,
             \/ DeleteExpired(r) \/ CreateConflicts(r) \/ CreateFails(r)
             \/ CacheResult(r) \/ Release(r)
      PROVE  Hidden
  BY <1>8 DEF DeleteExpired, CreateConflicts, CreateFails, CacheResult, Release
<1>9. ASSUME NEW k \in Keys, Expire(k) PROVE Hidden
  BY <1>9 DEF Expire
<1>10. Hidden \/ Promise!Next
  BY NextCases, <1>1, <1>2, <1>3, <1>4, <1>5, <1>6, <1>7, <1>8, <1>9
<1> QED
  BY <1>10 DEF Promise!promise

(* The interceptor keeps the promise of OncePerKey for the keys that are   *)
(* not used after their rows have expired.                                 *)
THEOREM ImplementsPromise == Spec => PromiseKept
<1>1. TypeOK /\ ResultInv /\ OwnerInv /\ [Next]_vars => [Promise!Next]_(Promise!promise)
  BY PromiseStep
<1> QED
  BY PromiseInit, <1>1, TypeCorrect, ResultInvariant, OwnerInvariant, PTL
     DEF Spec, PromiseKept, Promise!Spec

=============================================================================
