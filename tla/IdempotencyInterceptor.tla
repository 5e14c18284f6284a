----------------------- MODULE IdempotencyInterceptor -----------------------
(***************************************************************************)
(* The idempotency interceptor that guards POST /checkout/session and      *)
(* POST /payments/:id/refund.  Every `await` of the interceptor is a point *)
(* where other requests, on this replica or another, run: one action per   *)
(* stretch of code between two awaits.  A client's retry is a request of   *)
(* its own with the same key, sent at any time.                            *)
(***************************************************************************)

CONSTANTS
    Requests,       \* the HTTP requests, retries included
    Keys,           \* the Idempotency-Key values
    NoKey,          \* a missing or blank header
    KeyOf,          \* KeyOf[r]: the header of r
    Absent,         \* the key table has no row for the key
    InFlight,       \* the row's responseBody is null
    NoResult,       \* the request was answered with no handler's result
    Expiring,       \* the keys still in use after IDEMPOTENCY_TTL_SECONDS
    DbMayFail,      \* a database call may be rejected
    MayCrash        \* the process that serves a request may die

ASSUME KeyAssumption == KeyOf \in [Requests -> Keys \cup {NoKey}] /\ NoKey \notin Keys

ASSUME RowAssumption == Absent # InFlight /\ {Absent, InFlight, NoResult} \cap Requests = {}

ASSUME SwitchAssumption == Expiring \subseteq Keys /\ {DbMayFail, MayCrash} \subseteq BOOLEAN

VARIABLES
    row,      \* row[k]: Absent, InFlight, or the request whose result is cached
    expired,  \* the keys whose row is past its expiresAt
    pc,       \* pc[r]: the call r waits for
    reply,    \* reply[r]: what the client of r was answered
    result,   \* result[r]: the execution whose result that answer carries
    executed  \* history: the keyed requests whose handler has succeeded

vars == <<row, expired, pc, reply, result, executed>>

Steps == {"idle", "bypass", "deleting", "creating", "handling", "caching",
          "releasing", "over", "crashed"}

Replies == {"none", "result", "replay", "conflict", "error"}

TypeOK ==
    /\ row \in [Keys -> Requests \cup {Absent, InFlight}]
    /\ expired \in SUBSET Keys
    /\ pc \in [Requests -> Steps]
    /\ reply \in [Requests -> Replies]
    /\ result \in [Requests -> Requests \cup {NoResult}]
    /\ executed \in SUBSET Requests

Init ==
    /\ row = [k \in Keys |-> Absent]
    /\ expired = {}
    /\ pc = [r \in Requests |-> "idle"]
    /\ reply = [r \in Requests |-> "none"]
    /\ result = [r \in Requests |-> NoResult]
    /\ executed = {}

Goto(r, step) == pc' = [pc EXCEPT ![r] = step]

(* The client of r gets an answer that carries no handler's result. *)
Answer(r, kind) == reply' = [reply EXCEPT ![r] = kind] /\ UNCHANGED result

(* The client of r gets the result of the execution of s. *)
AnswerWith(r, kind, s) ==
    /\ reply' = [reply EXCEPT ![r] = kind]
    /\ result' = [result EXCEPT ![r] = s]

(* The row is deleted by key, whichever request's row it is by now.  The   *)
(* rejection of a delete is swallowed.                                     *)

RemoveRow(k) ==
    /\ row' = [row EXCEPT ![k] = Absent]
    /\ expired' = expired \ {k}

-----------------------------------------------------------------------------
(* Mutated forms of actions below: plausible mistakes in the code, each of *)
(* which breaks one of the properties.                                     *)

\* The in-flight case of the lookup is taken for a miss.
LookupIgnoresInFlight(r) ==
    /\ pc[r] = "idle"
    /\ KeyOf[r] # NoKey
    /\ \/ row[KeyOf[r]] = Absent /\ Goto(r, "creating") /\ UNCHANGED <<reply, result>>
       \/ row[KeyOf[r]] = InFlight /\ Goto(r, "handling") /\ UNCHANGED <<reply, result>>
       \/ row[KeyOf[r]] \in Requests /\ Goto(r, "over") /\ AnswerWith(r, "replay", row[KeyOf[r]])
    /\ UNCHANGED <<row, expired, executed>>

\* The reservation is an upsert, so a second one is not refused.
CreateUpserts(r) ==
    /\ pc[r] = "creating"
    /\ row' = [row EXCEPT ![KeyOf[r]] = InFlight]
    /\ Goto(r, "handling")
    /\ UNCHANGED <<expired, reply, result, executed>>

\* The key is released after a success as well (finalize instead of error).
CacheReleasesKey(r) ==
    /\ pc[r] = "caching"
    /\ RemoveRow(KeyOf[r])
    /\ Goto(r, "over")
    /\ UNCHANGED <<reply, result, executed>>

\* The update writes no responseBody at all.
CacheWritesNothing(r) ==
    /\ pc[r] = "caching"
    /\ row' = [row EXCEPT ![KeyOf[r]] = NoResult]
    /\ Goto(r, "over")
    /\ UNCHANGED <<expired, reply, result, executed>>

\* An error is cached like a result.
FailureIsCached(r) ==
    /\ pc[r] = "handling"
    /\ Goto(r, "caching")
    /\ Answer(r, "error")
    /\ UNCHANGED <<row, expired, executed>>

\* The error callback does not delete the row.
ReleaseForgotten(r) ==
    /\ pc[r] = "releasing"
    /\ Goto(r, "over")
    /\ UNCHANGED <<row, expired, reply, result, executed>>

\* expiresAt is only set when the result is cached.
ExpireCachedOnly(k) ==
    /\ k \in Expiring
    /\ row[k] \in Requests
    /\ k \notin expired
    /\ expired' = expired \cup {k}
    /\ UNCHANGED <<row, pc, reply, result, executed>>

-----------------------------------------------------------------------------
(* A request without a usable key: the handler runs and nothing is recorded. *)

Bypass(r) ==
    /\ pc[r] = "idle"
    /\ KeyOf[r] = NoKey
    /\ Goto(r, "bypass")
    /\ UNCHANGED <<row, expired, reply, result, executed>>

BypassReturns(r) ==
    /\ pc[r] = "bypass"
    /\ Goto(r, "over")
    /\ AnswerWith(r, "result", r) \/ Answer(r, "error")
    /\ UNCHANGED <<row, expired, executed>>

-----------------------------------------------------------------------------
(* findUnique: what the row says decides whether the request goes on.      *)

LookupMiss(r) ==
    /\ row[KeyOf[r]] = Absent
    /\ Goto(r, "creating")
    /\ UNCHANGED <<reply, result>>

LookupExpired(r) ==
    /\ row[KeyOf[r]] # Absent
    /\ KeyOf[r] \in expired
    /\ Goto(r, "deleting")
    /\ UNCHANGED <<reply, result>>

LookupReplays(r) ==
    /\ row[KeyOf[r]] \in Requests
    /\ KeyOf[r] \notin expired
    /\ Goto(r, "over")
    /\ AnswerWith(r, "replay", row[KeyOf[r]])

LookupConflicts(r) ==
    /\ row[KeyOf[r]] = InFlight
    /\ KeyOf[r] \notin expired
    /\ Goto(r, "over")
    /\ Answer(r, "conflict")

(* The read is rejected: intercept() rejects, the client gets a 500. *)
LookupFails(r) ==
    /\ DbMayFail
    /\ Goto(r, "over")
    /\ Answer(r, "error")

Lookup(r) ==
    /\ pc[r] = "idle"
    /\ KeyOf[r] # NoKey
    /\ \/ LookupMiss(r)
       \/ LookupExpired(r)
       \/ LookupReplays(r)
       \/ LookupConflicts(r)
       \/ LookupFails(r)
    /\ UNCHANGED <<row, expired, executed>>

-----------------------------------------------------------------------------
(* Clearing an expired row and reserving the key are two calls.            *)

DeleteExpired(r) ==
    /\ pc[r] = "deleting"
    /\ \/ RemoveRow(KeyOf[r])
       \/ DbMayFail /\ UNCHANGED <<row, expired>>
    /\ Goto(r, "creating")
    /\ UNCHANGED <<reply, result, executed>>

Create(r) ==
    /\ pc[r] = "creating"
    /\ row[KeyOf[r]] = Absent
    /\ row' = [row EXCEPT ![KeyOf[r]] = InFlight]
    /\ Goto(r, "handling")
    /\ UNCHANGED <<expired, reply, result, executed>>

(* The unique constraint rejects the insert with P2002. *)
CreateConflicts(r) ==
    /\ pc[r] = "creating"
    /\ row[KeyOf[r]] # Absent
    /\ Goto(r, "over")
    /\ Answer(r, "conflict")
    /\ UNCHANGED <<row, expired, executed>>

(* Any other rejection is rethrown; the insert may have been committed all *)
(* the same, and its row then stays in flight until it expires.            *)
CreateFails(r) ==
    /\ DbMayFail
    /\ pc[r] = "creating"
    /\ \/ UNCHANGED row
       \/ row[KeyOf[r]] = Absent /\ row' = [row EXCEPT ![KeyOf[r]] = InFlight]
    /\ Goto(r, "over")
    /\ Answer(r, "error")
    /\ UNCHANGED <<expired, executed>>

-----------------------------------------------------------------------------
(* The handler.  Its result goes to the client at once: the async callback *)
(* of tap() is not awaited, so the cache is written, or the key released,  *)
(* after the answer is out.                                                *)

HandlerSucceeds(r) ==
    /\ pc[r] = "handling"
    /\ executed' = executed \cup {r}
    /\ Goto(r, "caching")
    /\ AnswerWith(r, "result", r)
    /\ UNCHANGED <<row, expired>>

HandlerFails(r) ==
    /\ pc[r] = "handling"
    /\ Goto(r, "releasing")
    /\ Answer(r, "error")
    /\ UNCHANGED <<row, expired, executed>>

(* update() by key; without a row, or when the call is rejected, the error *)
(* is only logged.                                                         *)
CacheResult(r) ==
    /\ pc[r] = "caching"
    /\ \/ row[KeyOf[r]] # Absent /\ row' = [row EXCEPT ![KeyOf[r]] = r]
       \/ (row[KeyOf[r]] = Absent \/ DbMayFail) /\ UNCHANGED row
    /\ Goto(r, "over")
    /\ UNCHANGED <<expired, reply, result, executed>>

Release(r) ==
    /\ pc[r] = "releasing"
    /\ \/ RemoveRow(KeyOf[r])
       \/ DbMayFail /\ UNCHANGED <<row, expired>>
    /\ Goto(r, "over")
    /\ UNCHANGED <<reply, result, executed>>

-----------------------------------------------------------------------------
(* The process dies between two calls: the request goes no further and the *)
(* row it reserved stays as it is.                                         *)
Crash(r) ==
    /\ MayCrash
    /\ pc[r] \notin {"idle", "over", "crashed"}
    /\ Goto(r, "crashed")
    /\ UNCHANGED <<row, expired, reply, result, executed>>

(* The row gets older than the TTL.  The TTL is a day: no handler is still *)
(* running, and no result is still being written, when its row expires.    *)
Expire(k) ==
    /\ k \in Expiring
    /\ row[k] # Absent
    /\ k \notin expired
    /\ \A r \in Requests : KeyOf[r] = k => pc[r] \notin {"handling", "caching", "releasing"}
    /\ expired' = expired \cup {k}
    /\ UNCHANGED <<row, pc, reply, result, executed>>

Step(r) ==
    \/ BypassReturns(r)
    \/ DeleteExpired(r)
    \/ Create(r)
    \/ CreateConflicts(r)
    \/ CreateFails(r)
    \/ HandlerSucceeds(r)
    \/ HandlerFails(r)
    \/ CacheResult(r)
    \/ Release(r)

Next ==
    \/ \E r \in Requests :
        \/ Bypass(r)
        \/ Lookup(r)
        \/ Step(r)
        \/ Crash(r)
    \/ \E k \in Keys : Expire(k)

Spec == Init /\ [][Next]_vars

(* Node runs every continuation that is due, the database answers every    *)
(* call (if only with an error) and time passes.  Clients owe nothing, and *)
(* no process has to crash.                                                *)
Fairness ==
    /\ \A r \in Requests : WF_vars(Step(r))
    /\ \A k \in Keys : WF_vars(Expire(k))

FairSpec == Spec /\ Fairness

-----------------------------------------------------------------------------
(* Properties *)

SameKey(r, s) == KeyOf[r] # NoKey /\ KeyOf[r] = KeyOf[s]

(* All the attempts come within the lifetime of the key's row. *)
InTime(r, s) == SameKey(r, s) /\ KeyOf[r] \notin Expiring

OneHandler(r, s) == pc[r] = "handling" /\ pc[s] = "handling" => r = s

(* Two requests with one Idempotency-Key never run their handlers at the   *)
(* same time (the 409 of the in-flight branch and of P2002).  The code     *)
(* does not keep this once a row has expired.                              *)
ConcurrentDuplicatesRejected == \A r, s \in Requests : SameKey(r, s) => OneHandler(r, s)

(* The same for the attempts that come before their row can expire.        *)
NoConcurrentHandlers == \A r, s \in Requests : InTime(r, s) => OneHandler(r, s)

(* For one Idempotency-Key the handler succeeds at most once, whatever     *)
(* crashes, rejected database calls and retries happen in between.         *)
AtMostOneExecution ==
    \A r, s \in executed : InTime(r, s) => r = s

(* All the clients that are given a result for one key are given the       *)
(* result of the same execution, whether they are answered by the handler  *)
(* or by the cached row.                                                   *)
OneResultPerKey ==
    \A r, s \in Requests :
        InTime(r, s) /\ result[r] # NoResult /\ result[s] # NoResult
            => result[r] = result[s]

(* An answer that carries a result carries that of a handler which did     *)
(* succeed under the same key; also when rows expire and are taken over by *)
(* several retries at once.                                                *)
ResultsAreReal ==
    \A r \in Requests :
        KeyOf[r] # NoKey /\ result[r] # NoResult
            => result[r] \in executed /\ KeyOf[result[r]] = KeyOf[r]

(* A cached response is neither replaced nor dropped before it expires: no *)
(* late continuation of another request (caching, releasing) touches it.   *)
CachedResponseIsStable ==
    [][\A k \in Keys \ Expiring : row[k] \in Requests => row'[k] = row[k]]_vars

(* No key is blocked for ever: an in-flight row is resolved by its request *)
(* or, when that crashed or its database call was lost, by its expiry.     *)
NoKeyBlockedForever ==
    \A k \in Expiring : row[k] = InFlight ~> row[k] # InFlight \/ k \in expired

(* A failed handler frees the key: unless a database call is rejected, a   *)
(* row without a result belongs to a request that is still at work or died *)
(* half-way, so a retry is not met by a 409 for a request that is over.    *)
FailureFreesKey ==
    \A k \in Keys :
        row[k] = InFlight =>
            \E r \in Requests :
                KeyOf[r] = k /\ pc[r] \in {"handling", "caching", "releasing", "crashed"}

-----------------------------------------------------------------------------
(* The promise this implements for the keys whose rows do not expire. *)

Timely == {r \in Requests : KeyOf[r] \notin Expiring}

Promise == INSTANCE OncePerKey
               WITH Requests <- Timely,
                    running  <- {r \in Timely : pc[r] = "handling"},
                    finished <- executed \cap Timely,
                    told     <- [r \in Timely |-> result[r]]

PromiseKept == Promise!Spec

=============================================================================
