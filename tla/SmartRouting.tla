---------------------------- MODULE SmartRouting ----------------------------
(***************************************************************************)
(* SmartRoutingService.resolveRoute: from a checkout's currency, amount,   *)
(* preferred gateway and strategy to a list of gateways, those with an     *)
(* open breaker last.  It runs without an await, so it sees the breakers   *)
(* of one moment.                                                          *)
(***************************************************************************)
EXTENDS CircuitBreakers, SequencesExt

CONSTANTS
    UpperCase,  \* UpperCase[c]: the currency code a request's spelling c stands for
    Amounts,    \* the amounts asked for
    Absent      \* an optional field is missing

Strategies == {"CURRENCY_OPTIMIZED", "FEE_OPTIMIZED", "LOWEST_LATENCY"}

ASSUME RoutingAssumption ==
    /\ Gateways = {"STRIPE", "PAYMOB", "FAWRY"}
    /\ DOMAIN UpperCase # {}
    /\ Amounts \subseteq Nat /\ Amounts # {}
    /\ Absent \notin Gateways \cup Strategies

Contexts == [currency: DOMAIN UpperCase, amount: Amounts,
             preferred: Gateways \cup {Absent}, strategy: Strategies \cup {Absent}]

(* The gateways of a chain that are in S, in their order: a push for each. *)
Kept(chain, S) ==
    LET kept[n \in 0 .. Len(chain)] ==
            IF n = 0 THEN <<>>
            ELSE IF chain[n] \in S THEN Append(kept[n - 1], chain[n]) ELSE kept[n - 1]
    IN  kept[Len(chain)]

Available == {g \in Gateways : IsAvailable(g)}

-----------------------------------------------------------------------------
(* Mutated forms of definitions below. *)

\* The preferred gateway is not taken out of the currency's chain.
PreferredTwice(preferred, chain) == <<preferred>> \o chain

\* The tripped gateways are put in front.
TrippedFirst(chain) ==
    Kept(chain, Gateways \ Available) \o Kept(chain, Available)

-----------------------------------------------------------------------------
CurrencyOptimized(currency) ==
    CASE currency = "EGP"                   -> <<"PAYMOB", "FAWRY", "STRIPE">>
      [] currency \in {"USD", "EUR", "GBP"} -> <<"STRIPE", "PAYMOB">>
      [] currency \in {"SAR", "AED"}        -> <<"PAYMOB", "STRIPE", "FAWRY">>
      [] OTHER                              -> <<"STRIPE", "PAYMOB", "FAWRY">>

(* The limit is in units of the currency. *)
FeeOptimized(amount, currency) ==
    CASE currency = "EGP" /\ amount < 100  -> <<"FAWRY", "PAYMOB", "STRIPE">>
      [] currency = "EGP" /\ amount >= 100 -> <<"PAYMOB", "FAWRY", "STRIPE">>
      [] OTHER                             -> <<"STRIPE", "PAYMOB">>

LatencyOptimized(currency) ==
    IF currency \in {"EGP", "SAR", "AED", "KWD"} THEN <<"PAYMOB", "FAWRY", "STRIPE">>
                                                 ELSE <<"STRIPE", "PAYMOB">>

PreferredChain(preferred, chain) ==
    <<preferred>> \o Kept(chain, Gateways \ {preferred})

(* A preferred gateway makes the strategy irrelevant. *)
BaseCandidates(ctx) ==
    LET currency == UpperCase[ctx.currency]
    IN  CASE ctx.preferred # Absent ->
                 PreferredChain(ctx.preferred, CurrencyOptimized(currency))
          [] ctx.preferred = Absent /\ ctx.strategy = "FEE_OPTIMIZED" ->
                 FeeOptimized(ctx.amount, currency)
          [] ctx.preferred = Absent /\ ctx.strategy = "LOWEST_LATENCY" ->
                 LatencyOptimized(currency)
          [] OTHER -> CurrencyOptimized(currency)

(* If every breaker is open the order is kept as it is. *)
HealthPrioritized(chain) ==
    Kept(chain, Available) \o Kept(chain, Gateways \ Available)

ResolveRoute(ctx) == HealthPrioritized(BaseCandidates(ctx))

-----------------------------------------------------------------------------
(* Properties *)

(* What the strategies can say, of all the requests there are. *)
Asked == {[base |-> BaseCandidates(ctx), preferred |-> ctx.preferred] : ctx \in Contexts}

(* A route tries every gateway that serves the request once: an open one   *)
(* only after all that are not, and otherwise in the order of the          *)
(* strategy, the merchant's preference first.                              *)
RoutesPreferAvailable ==
    \A q \in Asked :
        LET route == HealthPrioritized(q.base)
        IN  /\ ToSet(route) = ToSet(q.base) /\ Len(route) = Cardinality(ToSet(route))
            /\ \A i, j \in DOMAIN route :
                   i < j =>
                       \/ IsAvailable(route[i]) /\ ~IsAvailable(route[j])
                       \/ /\ IsAvailable(route[i]) = IsAvailable(route[j])
                          /\ \E m, n \in DOMAIN q.base :
                                 m < n /\ q.base[m] = route[i] /\ q.base[n] = route[j]
            /\ q.preferred \in Gateways /\ IsAvailable(q.preferred) => Head(route) = q.preferred

=============================================================================
