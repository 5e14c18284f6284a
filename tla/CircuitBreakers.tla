--------------------------- MODULE CircuitBreakers ---------------------------
(***************************************************************************)
(* CircuitBreakerService: one opossum breaker per gateway, and the calls   *)
(* of OrchestratorService.safeCreateIntent that go through it.  opossum is *)
(* a library: its automaton is modelled from the options the service gives *)
(* it.  Time advances in ticks, timers fire in the tick they are due.      *)
(***************************************************************************)
EXTENDS Naturals

CONSTANTS
    Gateways,     \* the members of GatewayProvider
    Calls,        \* calls that may be under way at once; used again when over
    Timeout,      \* breakerOptions.timeout, in ticks
    ResetTimeout  \* breakerOptions.resetTimeout, in ticks

Outcomes == {"new", "result", "error", "unavailable"}

ASSUME BreakerAssumption ==
    /\ Gateways \cap Outcomes = {}
    /\ Timeout \in Nat /\ ResetTimeout \in Nat
    /\ 0 < Timeout /\ Timeout < ResetTimeout

VARIABLES
    breaker,  \* breaker[g]: "none" until the first call creates it
    mayTry,   \* mayTry[g]: half-open, and the trial is still to come
    openFor,  \* openFor[g]: the ticks since the breaker opened, while it is
    at,       \* at[c]: the gateway c waits for, or how the call has ended
    age       \* age[c]: the ticks since the gateway was called

breakerVars == <<breaker, mayTry, openFor, at, age>>

States == {"none", "CLOSED", "OPEN", "HALF_OPEN"}

BreakerTypeOK ==
    /\ breaker \in [Gateways -> States]
    /\ mayTry \in [Gateways -> BOOLEAN]
    /\ openFor \in [Gateways -> 0 .. ResetTimeout]
    /\ at \in [Calls -> Gateways \cup Outcomes]
    /\ age \in [Calls -> 0 .. Timeout]

BreakerInit ==
    /\ breaker = [g \in Gateways |-> "none"]
    /\ mayTry = [g \in Gateways |-> FALSE]
    /\ openFor = [g \in Gateways |-> 0]
    /\ at = [c \in Calls |-> "new"]
    /\ age = [c \in Calls |-> 0]

On(g) == {c \in Calls : at[c] = g}

(* The call is over; the caller has its result or an exception. *)
End(c, outcome) ==
    /\ at' = [at EXCEPT ![c] = outcome]
    /\ age' = [age EXCEPT ![c] = 0]

-----------------------------------------------------------------------------
(* Mutated forms of definitions below. *)

\* The rejection of an open breaker is rethrown like any other error.
RejectRaw(c, g) ==
    /\ at[c] \in Outcomes
    /\ breaker[g] \in {"OPEN", "HALF_OPEN"}
    /\ ~mayTry[g]
    /\ End(c, "EOPENBREAKER")
    /\ UNCHANGED <<breaker, mayTry, openFor>>

\* The two durations of breakerOptions are exchanged.
DueAfterReset(c) == age[c] >= ResetTimeout

\* breakerOptions.timeout is false.
NeverDue(c) == FALSE

-----------------------------------------------------------------------------
(* fire(): getBreaker creates a missing breaker, which is closed.  A closed *)
(* breaker lets the call pass, a half-open one the first call only.        *)
Admit(c, g) ==
    /\ at[c] \in Outcomes
    /\ breaker[g] \in {"none", "CLOSED"} \/ mayTry[g]
    /\ breaker' = [breaker EXCEPT ![g] = IF @ = "none" THEN "CLOSED" ELSE @]
    /\ mayTry' = [mayTry EXCEPT ![g] = FALSE]
    /\ at' = [at EXCEPT ![c] = g]
    /\ age' = [age EXCEPT ![c] = 0]
    /\ UNCHANGED openFor

(* EOPENBREAKER becomes "currently unavailable"; the gateway is not called. *)
Reject(c, g) ==
    /\ at[c] \in Outcomes
    /\ breaker[g] \in {"OPEN", "HALF_OPEN"}
    /\ ~mayTry[g]
    /\ End(c, "unavailable")
    /\ UNCHANGED <<breaker, mayTry, openFor>>

SafeCreateIntent(c, g) == Admit(c, g) \/ Reject(c, g)

Opens(g) ==
    /\ breaker' = [breaker EXCEPT ![g] = "OPEN"]
    /\ mayTry' = [mayTry EXCEPT ![g] = FALSE]
    /\ openFor' = [openFor EXCEPT ![g] = 0]

(* Any success closes a half-open breaker, whoever it is answered to. *)
Succeeds(c) ==
    /\ at[c] \in Gateways
    /\ End(c, "result")
    /\ breaker' = [breaker EXCEPT ![at[c]] = IF @ = "HALF_OPEN" THEN "CLOSED" ELSE @]
    /\ mayTry' = [mayTry EXCEPT ![at[c]] = FALSE]
    /\ UNCHANGED openFor

(* A failure opens a half-open breaker, and a closed one if the statistics *)
(* of the last seconds have passed both thresholds: any failure may be the *)
(* one that does it.                                                       *)
Fails(c) ==
    /\ at[c] \in Gateways
    /\ End(c, "error")
    /\ \/ breaker[at[c]] \in {"CLOSED", "HALF_OPEN"} /\ Opens(at[c])
       \/ breaker[at[c]] # "HALF_OPEN" /\ UNCHANGED <<breaker, mayTry, openFor>>

(* The timeout counts as a failure, and a later answer is ignored. *)
Due(c) == age[c] >= Timeout

TimesOut(c) == Due(c) /\ Fails(c)

ResetDue(g) == openFor[g] >= ResetTimeout

HalfOpens(g) ==
    /\ breaker[g] = "OPEN"
    /\ ResetDue(g)
    /\ breaker' = [breaker EXCEPT ![g] = "HALF_OPEN"]
    /\ mayTry' = [mayTry EXCEPT ![g] = TRUE]
    /\ openFor' = [openFor EXCEPT ![g] = 0]
    /\ UNCHANGED <<at, age>>

(* No clock counts beyond the longer of the two durations. *)
Later(t) == IF t < ResetTimeout THEN t + 1 ELSE t

(* No timer that is due waits for the next tick. *)
Tick ==
    /\ \A c \in Calls : at[c] \in Gateways => ~Due(c)
    /\ \A g \in Gateways : breaker[g] = "OPEN" => ~ResetDue(g)
    /\ age' = [c \in Calls |-> IF at[c] \in Gateways THEN Later(age[c]) ELSE age[c]]
    /\ openFor' = [g \in Gateways |-> IF breaker[g] = "OPEN" THEN Later(openFor[g]) ELSE openFor[g]]
    /\ UNCHANGED <<breaker, mayTry, at>>

BreakerNext ==
    \/ \E c \in Calls, g \in Gateways : SafeCreateIntent(c, g)
    \/ \E c \in Calls : Succeeds(c) \/ Fails(c) \/ TimesOut(c)
    \/ \E g \in Gateways : HalfOpens(g)
    \/ Tick

BreakerSpec == BreakerInit /\ [][BreakerNext]_breakerVars

(* Timers fire and time passes.  Nobody has to call, no gateway to answer. *)
BreakerFairness ==
    /\ \A c \in Calls : WF_breakerVars(TimesOut(c))
    /\ \A g \in Gateways : WF_breakerVars(HalfOpens(g))
    /\ WF_breakerVars(Tick)

-----------------------------------------------------------------------------
(* What the rest of the service asks a breaker. *)

IsAvailable(g) == breaker[g] # "OPEN"

GetBreakerStatus(g) == IF breaker[g] = "none" THEN "CLOSED" ELSE breaker[g]

-----------------------------------------------------------------------------
(* Properties *)

(* A half-open breaker is decided by its trial: either the trial is still  *)
(* to come and nothing is under way, or the trial is the one call under    *)
(* way.  No call from before the outage closes or reopens the breaker, and *)
(* no breaker waits for a trial that is gone.                              *)
HalfOpenHasItsTrial ==
    \A g \in Gateways :
        breaker[g] = "HALF_OPEN" =>
            /\ mayTry[g] <=> On(g) = {}
            /\ \A c, d \in On(g) : c = d

Shut(g) == breaker[g] \in {"OPEN", "HALF_OPEN"} /\ ~mayTry[g]

(* However a gateway fails, its breaker lets a call pass again.            *)
NeverShutForGood == \A g \in Gateways : Shut(g) ~> ~Shut(g)

=============================================================================
