# PayBridge: TLA+ models and proofs

These modules model the request handlers and background workers of PayBridge
(NestJS, PostgreSQL through Prisma, Redis through BullMQ, payment gateways) and
check and prove what has to hold when they run at the same time, fail half-way,
are retried, or die. Every definition is translated from the TypeScript source;
`PROJECT.json` maps each one to the lines it stands for.

Run a check with `tlc -config MCIdempotency_keys.cfg MCIdempotency`, a proof with
`tlapm LifecycleProofs.tla`.

## The system

| Part | State it keeps | Operations | What is hard |
| --- | --- | --- | --- |
| Idempotency interceptor | rows of `IdempotencyKey` | lookup, delete of an expired row, reserve, cache, release | each call is a separate await; the cache is written after the answer; rows expire |
| Refunds | rows of `Refund`, `paymentIntent.status` | `processRefund` | the balance is read before the gateway call and not again; gateway, transaction and queue fail one by one |
| Inbound webhooks | rows of `WebhookEvent`, `paymentIntent.status` | `handleIncomingWebhook` | copies, retries after a 500, a crash between commit and notification |
| Reconciliation | a run's batch; `paymentIntent.status` | scheduled worker, manual trigger | decides on rows read at its start; two runs at once; one intent's failure |
| Outbound delivery | BullMQ jobs | `dispatchPaymentEvent`, `processWebhookDelivery` | late answers, lost workers, endpoints that change |
| Merchants and API keys | rows of `Merchant`, `ApiKey` | create, update, rotate, revoke, guard | checks that are not atomic with writes; an update nobody waits for |
| Circuit breaker | one opossum breaker per gateway, created by the first call | `fire`, `isAvailable`, `getBreakerStatus` | calls from before an outage end while the breaker is open or half-open; timers; one trial decides |
| Smart routing | none | `resolveRoute` | reads breakers that change between the reading and the use |
| Checkout | none at this commit | `createSession` | throws after routing (see below) |
| Providers | none: mocks at this commit | create, fetch status, refund, verify signature | environment of the models |
| Analytics, health, metrics | none | `getOverview`, `checkHealth`, `getPrometheusMetrics` | computed from rows and breakers others overwrite; a counter that must not fall |

The parts share nothing but the rows, the queue and, in one process, the breakers:
checkout asks routing, routing and health ask the breakers, only `fire` and
opossum's timers change them. Webhooks, reconciliation and
refunds all write `paymentIntent.status`, none with a condition on the status
the row has; all three call `dispatchPaymentEvent`. Refund requests pass the
API-key guard and the idempotency interceptor first. No lock and no transaction
spans two calls, so one action of a model is the code between two awaits
together with the call that ends it. A crash may come between any two of them.

Correctness, part by part: a key runs its handler once and answers with one
result; no more is paid back than was charged, and the rows agree with the
gateway; an event is recorded and applied together and announced once; a
payment the gateway has settled does not stay PENDING; a notification is
delivered at least once or given up late; a revoked key stays out; a gateway
that has recovered is used again, and routes and reports say what the breakers
say.

## Modules

| Module | What it models |
| --- | --- |
| `OncePerKey` | abstract: of the requests with one key at most one is executed, and all are told its result |
| `IdempotencyInterceptor` | `IdempotencyInterceptor.intercept` with its `tap` callbacks |
| `PaymentStore` | the rows of payment intents and refunds, the queue as a count of jobs per event, the gateway's view, faults |
| `Refunds` | `RefundsService.processRefund` over `PaymentStore` |
| `InboundWebhooks` | `WebhooksController.handleIncomingWebhook` and a gateway that repeats its deliveries |
| `Reconciliation` | `ReconciliationService.reconcileStaleIntents`, for the worker and the manual trigger |
| `PaymentLifecycle` | composition: webhooks, reconciliation and refunds on the same rows |
| `IdempotentRefunds` | composition: `processRefund` behind the interceptor |
| `Merchants` | `MerchantsService` and `ApiKeyGuard` |
| `AtLeastOnce` | abstract: a notification is received or given up |
| `OutboundDelivery` | `OutboundWebhooksService` and `OutboundWebhooksProcessor`, BullMQ as an external queue; merchants that change their endpoints come from `Merchants` |
| `CircuitBreakers` | `CircuitBreakerService` and the calls of `OrchestratorService.safeCreateIntent`; opossum as an external automaton |
| `SmartRouting` | `SmartRoutingService.resolveRoute`, as operators over the state of the breakers |
| `HealthReports` | `HealthService.checkHealth`, the status of `GET /health`, the breaker gauge of `GET /metrics` |
| `Checkout` | composition: `CheckoutService.createSession` among the calls through the breakers |
| `Reports` | `AnalyticsService.getOverview` and the volume of `MetricsService`, as functions of the rows of `PaymentLifecycle` |
| `*Proofs` | theorems about the module they are named for (`RefundProofs`: `Refunds`; `GuardedRefundProofs`: `IdempotentRefunds`; `LifecycleProofs`: `PaymentLifecycle` and `Reports`; `DeliveryProofs`: `Merchants` and `OutboundDelivery`; `BreakerProofs`: `CircuitBreakers`, `SmartRouting`, `HealthReports` and `Checkout`; `IdempotencyProofs`, `WebhookProofs` and `ReconciliationProofs`) |
| `MC*` | the instances TLC checks |

How state corresponds to code:

- `pc`, `refundPc`, `hookPc`, `reconPc`, `dispatchPc`, `createPc`, `guardPc` say
  which call a handler waits for, or how it has ended.
- `row[k]` is the idempotency row: absent, in flight (`responseBody` null), or
  the request whose result it caches. A result is named by the request that
  produced it.
- `seen`, `asked` are `totalRefundedSoFar` and `requestedAmount`: values read
  before the gateway call and used after it. `refunded[i]` is the sum of the
  SUCCEEDED refund rows, `paidBack[i]` what the gateway has returned.
- `batch`, `current`, `answer` are the loop of a reconciliation run. `age` stands
  for the two thresholds on `createdAt`.
- `job`, `attemptsMade`, `stalls`, `post` are a BullMQ job and the POST of its
  current attempt; `late` are POSTs that were aborted on their way.
- `breaker[g]` is the state `getBreakerStatus` reports, or that there is no breaker
  yet; `mayTry` is opossum's pending-close flag; `at[c]` is where a call through a
  breaker waits or how it has ended; `age` and `openFor` are the timers of its
  `timeout` and of the breaker's `resetTimeout`, in ticks. When a closed breaker
  trips depends on statistics of the last ten seconds; the model lets any failure
  be the one, which allows every behaviour of `volumeThreshold` and
  `errorThresholdPercentage`.
- A report takes a set `S` of intents: those its query selects, by merchant, date,
  gateway or currency, so the sums per gateway and currency are the same function.
  Rates are hundredths of a percent, rounded as `Math.round` does on exact
  numbers; floating-point error in them is not modelled.
- `barred`, `posted`, `executed` and `paid` are history; no guard depends on them.
  `paid` are the requests for which the gateway has paid, whether or not the answer
  got back.

Mutated forms of definitions, which say what a plausible bug would do, stand in a
section of their own before the definitions they vary. Nothing else uses them.

## Runs and what they show

All bounds are in the `.cfg` files. `MaxFaults` bounds how many calls are rejected
and processes die in one behaviour; `FaultKinds` says which.

| Run | Instance | Shows |
| --- | --- | --- |
| `idempotency_keys` | two attempts with a key whose row stays, two with one whose row may expire, one without a key; crashes, database errors | one execution, one result and a stable cache for the first key, and that the interceptor implements `OncePerKey` on it; real results for both; no key is in flight for ever |
| `idempotency_expiry` | one key that expires, without crashes and errors | **violated**: two handlers at once after an expiry |
| `refunds_concurrent` | requests for one intent at once | **violated**: more is paid back than was charged |
| `idempotent_refunds_faults` | two attempts of one refund under a key; on another intent a refund with a key and one without, at the same time; two faults of any kind in the handler, crashes anywhere; confirmed, PENDING and declined refunds | a key is paid again only after a handler of it has failed; answers are real; REFUNDED means paid in full; the rows never claim more than was paid; an intent used up in turn is marked; a failure frees its key |
| `idempotent_refunds_retried` | the same with one fault, which is not a crash | **violated**: the gateway pays one key twice |
| `webhooks_faults` | an event on two channels, unsigned, malformed and unknown ones; two faults | one notification per event; event row and status together; every verified report that names an intent gets through |
| `reconciliation_runs` | worker and manual run, an unreachable gateway, one fault of any kind | verdicts are the gateway's; notifications agree with rows; the rest of the batch is reconciled |
| `lifecycle_all` | one payment: two copies of its webhook, two runs, two refunds, in every order | types, real captures and bounded refunds survive the others' stale writes; overviews add up, the volume never falls; a settled payment is resolved and announced |
| `lifecycle_unannounced` | the same with a rejected `queue.add` | **violated**: a capture nobody announces |
| `outbound_delivery` | two events, one slot, a row that changes, two faults, two attempts | `AtLeastOnce`, including that every job ends; bounded POSTs |
| `checkout_gateways` | three gateways, two calls at a time, a timeout of one tick and a reset of two; one checkout with any currency, strategy and preference | one trial decides a half-open breaker; no breaker is shut for good; routes keep every gateway once, available ones first, in their order; health and gauge agree with the routes |
| `merchants_keys` | two creations with one email, four keys, three requests | unique emails; too late stays out; keys come with merchants |

Why the bounds are enough: every race in this code is between two holders of the
same row, or between a holder and one writer, so two requests on an object and one
bystander show it; a third attempt with a key is there because the interceptor's
expiry takes three. Amounts of two or three cents distinguish nothing left,
part left and all left. One or two faults suffice because a property that fails
with several fails on the path to the last one; `outbound_delivery` needs two for a
job that loses its worker twice. The code's five attempts and five slots for each
replica are the constants `Attempts` and `Concurrency`: TLC uses two and one, so
that the last attempt and a full worker do occur. No property of the runs asks where
a job goes, so merchants have no url of their own there, and a secret or none; the
theorems hold for all values.
In `checkout_gateways` two calls at a time are one from before a breaker opened and a
trial, or two that fail together; calls are used again, so their number is not
bounded. The code's 5 and 30 seconds keep their order as one and two ticks; the
theorems hold for every pair of which the timeout is shorter. Amounts 99 and 100
are the two sides of the fee limit, four spellings give each currency rule a
member, one in lower case.
`Patient` intents are those whose merchant sends one refund at a time;
properties that need this say so by ranging over `Patient`. In
`idempotent_refunds_faults` the two attempts with one key are of a patient merchant,
whose copies race in the interceptor but reach the handler in turn, and the
two refunds of the other intent race in the handler as well. Two faults are a payment
that fails after the money has moved and one more in the retry.

Preconditions of runs that pass, each because the code does not have the property
without it: `lifecycle_all` has no faults (with one, `lifecycle_unannounced`);
`PaidBackWithinAmount` needs patient merchants (else `refunds_concurrent`);
`PaidAgainOnlyAfterFailure` allows the second payment that a failed handler leads to
(else `idempotent_refunds_retried`); `RefusedMayRetry` needs a database that rejects no
call of the interceptor, whose delete is not repeated; every event reports a
capture, since the handler writes CAPTURED for any event; `CapturesGetThrough` is about
reports that name an intent by its own id, since any other is answered 500 for ever.

## Fairness

Weak fairness of the steps a handler or run has begun: Node runs every
continuation that is due, calls of the database and gateways return, if only
with an error, and an aborted `fetch` ends. Weak fairness of the worker's scan:
BullMQ repeats the job. Weak fairness of expiry and ageing: time passes. Weak fairness
of opossum's timers and of the clock in `checkout_gateways`; none of the gateways,
whose calls may hang until the timeout. In
`webhooks_faults` also of `Deliver`: gateways deliver again until answered 200; in
`PaymentLifecycle` not, because reconciliation exists for webhooks that are lost.
None is assumed of customers, merchants, the manual trigger, crashes, or
endpoints: no endpoint has to answer. Weak fairness is enough because no step of a
handler is disabled by another one again and again (a job waiting for a slot is,
but each other job starts a bounded number of times).

## Theorems

Proved with TLAPS for every value of the constants, under the named `ASSUME`s of
the modules. Where a theorem assumes more, it is said here, with what breaks
without it. Every invariant a passing run checks is the subject of a theorem.

- `IdempotencyProofs`: the types; results are real, also when rows expire; and
  for every key whose row does not (not in `Expiring`), whatever the others do, no
  concurrent handlers, one execution, one result, a stable cache, and the
  refinement of `OncePerKey`. The inductive
  invariant says who owns a row in flight: of the requests with one key that are
  past `Create`, at most one is handling, caching or releasing, and the row is in
  flight until it is over. `AtMostOneExecution` alone is not inductive, since it does
  not exclude a second owner that has yet to succeed. `FailureFreesKey` assumes that
  the database rejects no call (`DbMayFail = FALSE`): the delete of the row is not
  repeated, so one that is rejected blocks the key until its row expires. The
  property is the converse of ownership, a row in flight has an owner, alive or dead,
  and is inductive as it stands.
- `RefundProofs`, for any number of concurrent refunds of one intent and every fault:
  the types; `LedgerMatchesGateway`; `RefundedIsPaidInFull`; and `ExhaustedIsMarked` for
  patient intents. The rows and the refunds that are about to record together never
  exceed what the gateway has returned, and equal it while nothing has failed; the sum of
  the latter, over requests, is the size of a set with one element for each cent. Whether
  an intent that is used up gets marked rests on the sum a refund has read being the sum
  it adds to, which holds for `Patient` intents only.
- `GuardedRefundProofs`: `IdempotentRefunds` refines both the interceptor and `Refunds`, so
  that what is proved of each alone holds of both together (the theorems of
  `IdempotencyProofs` are used through an INSTANCE). Across the two:
  `RefusedMayRetry` (`DbMayFail = FALSE`, as above); `PaidAgainOnlyAfterFailure` and
  `AnsweredRefundIsReal`, both with every fault and every answer of the gateway. The
  invariant of the first extends ownership: a request has taken its key from its
  reservation until its release, and for good once the gateway has paid, unless its
  handler has failed and the key was given back; a key has one taker, a taken key has its
  row, a request that releases has been refused or has failed, and one that was paid is
  past its call of the gateway. The second rests on what a handler past that call knows:
  the gateway has answered, has paid unless it declined, and has its row if it confirmed.
- `LifecycleProofs`: the types of the composition; `RefundedIsPaidInFull` and
  `LedgerMatchesGateway` with every
  fault and interleaving; and, under `Careful` (every intent is patient, no fault but
  a rejected `queue.add`, no refund PENDING at the gateway), `PaidBackWithinAmount` and
  `RefundsOnTheWayFit`. The invariant: at most one refund of an intent is active,
  the active one fits into what is left, one about to be recorded has been paid,
  and otherwise the rows equal what was paid back. It does not mention
  `status`, which is why no stale write of a webhook or a run can hurt; dropping a
  part of `Careful` makes the proof fail where the code does.
- `LifecycleProofs`, what is reported: `CapturedAtGateway` and `VolumeNeverFalls`, if every
  event reports a capture and no intent starts out refunded (`Truthful`). The invariant
  says of each handler, run and refund that may still write a status why it may: a verified
  webhook and an active refund are of a captured payment, a verdict about to be
  written is the gateway's and final, and a row a run has read as PENDING without a
  gateway id never gets captured. `OverviewAddsUp`, under `Truthful` and for finitely many
  patient intents, adds that a refund is begun for a success only and fits into what is
  left. A sum over a finite set is shown to be the number of its cents, the pairs
  of an intent and one cent of its amount; sums are then compared as sets. The step
  needs no induction over the set: two functions that satisfy the recursion of the sum
  agree, since a smallest set on which they differ would have a smaller one.
- `DeliveryProofs`: of `Merchants`, the types, `EmailsAreUnique`, `MerchantsHaveKeys` and
  `BarredStaysOut`, which needs that a barred request's key exists and does not admit
  it, which in turn needs that no key belongs to a merchant still being created. Of
  `OutboundDelivery`, the types; a budget that ties POSTs to failed attempts, lost
  workers and the one under way gives `PostsAreBounded` and `NotGivenUpEarly`; the safety
  part of `AtLeastOnce` is implemented step by step; and so is `Merchants`, whose
  theorems therefore hold among deliveries.
- `BreakerProofs`: types, and `HalfOpenHasItsTrial`. The invariant that carries it is
  that a call still waiting for a gateway whose breaker is open is at least as old
  as the opening. With the timeout shorter than the reset no such call is left when
  the breaker becomes half-open; swapped durations break it (a mutant of the run).
  `RoutesPreferAvailable` and `HealthTellsRoutes`, for every currency, amount, preference,
  strategy and state of the breakers, of the three gateways there are: a strategy names
  two or three of them, so the loops over its chain are unfolded, once for each answer
  of the breakers. A checkout only reads breakers (`CheckoutIsBreakers`).
- `WebhookProofs`, for finite `Events` and `Deliveries`: `OneNotificationPerEvent` and
  `RecordedIsCaptured`. A count carries the first: the notifications enqueued and those
  that committed requests have yet to enqueue do not exceed the event rows; a
  commit adds one to both sides, a dispatch moves one, a fault only drops one.
- `ReconciliationProofs`: `VerdictIsGateways` and `NotifiedVerdictIsStored`. An intent in
  hand for an update or a notification is decided at the gateway, which decides
  once; so runs that hold the same row cannot disagree. It fails for a gateway that
  changes its mind, which the model, like `stripe.service.ts`, does not have.
  `CompensatedOnce`, for finitely many `Runs`, is a count as well: the compensating
  events of an intent and the runs that hold it, in their batch or in hand, do not
  exceed the number of runs; to announce is to let go, and a run that scans after an
  announcement finds the intent no longer PENDING.

Only model-checked: liveness and everything else that rests on fairness or ENABLED
(`NoKeyBlockedForever`, `CapturesGetThrough`, `SettledIsReconciled`, `SettledIsResolved`,
`CaptureIsAnnounced`, `NeverShutForGood`, and `DeliveredAtLeastOnce`, whose safety part
is proved). Proved and no longer checked in a run:
`RefundsOnTheWayFit`, `NotGivenUpEarly`, `MerchantTypeOK`.

`SmartRouting` writes the loops of its source as a recursive function, `Kept`, instead
of `SelectSeq`, which the provers cannot unfold.

## Where code and documentation disagree

The four violation runs, each with its finding in `PROJECT.json`. Met while
modelling and kept as preconditions above, without a run of their own: a reported
failure marks the intent CAPTURED; a payload with the gateway's own payment id is
answered 500 for ever; a late webhook, or a run that scanned earlier, takes a
REFUNDED intent back to CAPTURED; a run compensates a webhook that has arrived since its
scan; idempotency keys are one name space for all merchants; a transaction
rejected after the gateway has paid leaves a payment without a row; two part
refunds at once may use an intent up without marking it; the target of a job is
looked up when it is added, not by the worker as `src/README.md:254` draws it, so
retries go to an endpoint that may be out of date; a lookup that is rejected sends the
merchant's event to the default endpoint; a merchant whose `webhookSecret` is null, after
an update that says so, has its own url signed with the default secret, where
`src/README.md:785` promises the private one; five
attempts have four delays, 2 to 16 seconds, not the five of `src/README.md:89`.

Also: `createSession` always throws, since `safeCreateIntentWithFallback`
(`orchestrator.service.ts:24`) is assigned nowhere, so there is no failover at this
commit, and only the specs call `safeCreateIntent`; refunds and status queries go to the
providers without a breaker; a half-open breaker counts as available, and all but
the trial are then rejected; `paybridge_payment_intents_total` is exposed as a
counter, though the count of a status falls when payments leave it; a refund of
0.995 out of 1.00 is taken for a full one, because the amount is not limited to two
decimals and both the check and the column round.

## Not modelled

`getOverview` reads intents with their refunds in one `findMany` with an include; the
model takes what it returns for one snapshot of the rows. The route a checkout was given
is kept in `route` but used by nobody, so the properties are about what `resolveRoute`
returns at every moment, whichever of these moments a checkout sees.

Signatures and payload bytes (a delivery is signed or not), the wording of errors,
summaries and logs, pagination and other listings that only read, decimals below a
cent, gateways beyond their answers, the admin guard (one comparison with a constant),
uptime and memory figures, wiring, DTO decorators and seed data. The lines of
`createSession` after the call that throws are unreachable and stand for no behaviour.

## Plan

1. Done: interceptor, refunds, webhooks, reconciliation, lifecycle, guarded refunds,
   outbound delivery, merchants, breakers, routing, checkout, reports; the theorems above.
2. Rounding of refund amounts to the two decimals of the column; an abstract
   specification of a payment's money, from charge to refund, that the composition
   implements.
3. Proofs: routes for any set of gateways, which needs an induction over chains; the
   safety of `webhooks_faults` and `reconciliation_runs` under their composition, beyond
   what `LifecycleProofs` has of the status and the refunds.
