---------------------------- MODULE HealthReports ----------------------------
(***************************************************************************)
(* What the service tells about its breakers: GET /health and the gauge    *)
(* paybridge_circuit_breaker_open of GET /metrics.  Both only read.        *)
(***************************************************************************)
EXTENDS SmartRouting

-----------------------------------------------------------------------------
(* Mutated forms of definitions below. *)

\* A half-open breaker is counted as open.
CountsHalfOpen ==
    LET open == {g \in Gateways : GetBreakerStatus(g) # "CLOSED"}
    IN  CASE open = Gateways -> "DOWN"
          [] open = {}       -> "UP"
          [] OTHER           -> "DEGRADED"

-----------------------------------------------------------------------------
CheckCircuitBreakers ==
    LET open == {g \in Gateways : GetBreakerStatus(g) = "OPEN"}
    IN  CASE open = Gateways -> "DOWN"
          [] open = {}       -> "UP"
          [] OTHER           -> "DEGRADED"

(* database and redis are what SELECT 1 and PING have found. *)
CheckHealth(database, redis) ==
    IF "DOWN" \in {database, redis}
    THEN "DOWN"
    ELSE IF CheckCircuitBreakers = "UP" THEN "UP" ELSE "DEGRADED"

(* 503 takes the replica out of service. *)
HealthCode(database, redis) == IF CheckHealth(database, redis) = "DOWN" THEN 503 ELSE 200

BreakerOpenGauge(g) == IF GetBreakerStatus(g) = "OPEN" THEN 1 ELSE 0

-----------------------------------------------------------------------------
(* The report and the routes agree: UP means that every checkout goes      *)
(* where its strategy sends it, DOWN that every checkout begins with an    *)
(* open gateway, whatever it asks for.                                     *)
(* No number of open breakers takes a replica out of service.              *)
HealthTellsRoutes ==
    LET Primary(q) == Head(HealthPrioritized(q.base))
    IN  /\ CheckHealth("UP", "UP") = "UP" <=>
               \A q \in Asked : Primary(q) = Head(q.base) /\ BreakerOpenGauge(Primary(q)) = 0
        /\ CheckCircuitBreakers = "DOWN" <=>
               \A q \in Asked : BreakerOpenGauge(Primary(q)) = 1
        /\ HealthCode("UP", "UP") = 200

=============================================================================
