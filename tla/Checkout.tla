------------------------------ MODULE Checkout ------------------------------
(***************************************************************************)
(* CheckoutService.createSession among the calls of safeCreateIntent.      *)
(* The function it hands its route to, safeCreateIntentWithFallback, is    *)
(* declared in OrchestratorService and never assigned: the call throws,    *)
(* and the client is answered 500 before any gateway is called or any row  *)
(* is written.                                                             *)
(***************************************************************************)
EXTENDS HealthReports

CONSTANTS Sessions, NoRoute

VARIABLE route  \* route[s]: the candidates createSession has logged for s

vars == <<breakerVars, route>>

Init == BreakerInit /\ route = [s \in Sessions |-> NoRoute]

CreateSession(s, ctx) ==
    /\ route[s] = NoRoute
    /\ route' = [route EXCEPT ![s] = ResolveRoute(ctx)]
    /\ UNCHANGED breakerVars

Next ==
    \/ BreakerNext /\ UNCHANGED route
    \/ \E s \in Sessions, ctx \in Contexts : CreateSession(s, ctx)

Spec == Init /\ [][Next]_vars

FairSpec == Spec /\ BreakerFairness

=============================================================================
