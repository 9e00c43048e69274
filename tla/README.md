# Verification of razoragentMesh

TLA+ models of the parts of razoragentMesh that move money and stock, the TLC
runs that check them on small instances, and TLAPS proofs that hold for every
instance. Paths below are relative to `src/`.

## 1. The system

An AI agent buys from merchants through an MCP server. It gets a quote, may
negotiate the price, reserves stock, has a cart signed by the merchant, signs
an execution mandate, and has the bundle settled by the mandate engine, which
captures a payment at Razorpay and splits it over Route transfers.

| Part | Where | State | Operations | Talks to |
|---|---|---|---|---|
| Settlement orchestrator and saga | `packages/mandateEngine/settlement/{settlementOrchestrator,twoPhaseCommitSaga}.py` | the coroutine of each request | verify, consume nonce, claim cart, book spend, capture, split, compensate | ledger, nonce ledger, Route client, DLQ |
| Settlement and nonce ledgers | `.../verification/settlementLedger.py`, `.../nonce/nonceLedger.py` | Redis: `settled:*` claims (7 days), `spend:*` counters and `nonce:*` (expiring) | claim, record, release, roll back | Redis |
| Route client, compensation DLQ and worker | `.../settlement/{razorpayRouteClient,compensationDlq*}.py` | Redis: pending and dead-letter lists, tombstones, idempotency keys | transfer, reverse, enqueue, pop, requeue, escalate, mark | Razorpay, Redis |
| Mandate verification | `.../verification/*`, `.../{mandates,crypto}/*` | none | signatures, hash chain, budget gate, clock window | — |
| Tax, manifest, invoices | `.../tax/*`, `.../splitManifestBuilder.py` | none | GST/TCS arithmetic, payouts, rendering | — |
| Inventory locker and sweeper | `packages/mcpServer/src/inventory/*`, `tools/inventoryLocker.ts` | reservations, stock, fencing counter (memory or Redis) | acquire, sweep, consume, reclaim | catalog store |
| Purchase session | `packages/mcpServer/src/session/*`, `tools/{delegationEstablisher,cartMandateCreator,executionMandateSigner,settlementExecutor}.ts` | sessions (Redis or memory), purchases and spend per connection | pair, build cart, sign, settle | engine (HTTP), locker |
| Quotes, bargains, prices | `.../inventory/issuedQuoteRegistry.ts`, `.../negotiation/agreedPriceRegistry.ts`, `.../tools/skuQuoter.ts`, `.../catalog/pricingEngine.ts` | issued quotes, agreed prices | price, quote, record, match, expire | negotiation |
| Negotiation | `.../negotiation/*`, `packages/x402Gateway/src/{escrow,negotiation,routes}/*` | escrows, negotiators, contracts | open escrow, turn, debit, release | gateway (HTTP), merchant terms in Redis |
| Price-drop alerts | `packages/x402Gateway/src/alerts/*` | two Redis keys, the watcher | register, cancel, dispatch | Redis, webhooks |
| Catalog propagation | `.../mcpServer/src/catalog/*`, `packages/merchantApi/src/{catalog,routes}/*` | Redis listings, in-memory store | upsert, publish, hydrate, apply | Redis pub/sub |
| SDKs | `packages/{buyerSdkTs,buyerSdkPy}` | none | build, sign and pre-check the three documents | the servers |
| Contract compiler, webhook, ingestion adapters, vector healer, sanitizer, transport, dashboard, examples | `packages/*`, `examples`, `scripts` | seen deliveries, vectors, caches | section 6 | — |

What is hard in it, and what makes each part correct:

* **Saga.** Every request is a coroutine that gives way at every `await`; nonce,
  cart claim and spend counter are three Redis keys changed one after the other,
  some of them undone later. Correct means: a cart is in at most one settlement,
  the booked spend never exceeds the ceiling and is counted exactly, money is
  captured only behind all three, a rollback skips nothing and leaves a settled
  split whole.
* **Mandates.** Three documents of three signers, a clock the caller may shift,
  keys that expire. Correct means: what is captured was signed for by all three,
  expiries bind, a nonce outlives its mandate and a counter its budget.
* **Compensation.** A reversal that times out may still execute; saga and workers
  may try the same transfer. Correct means: refunded at most once, a tombstone
  never ahead of the refund, nothing forgotten, the queue drains.
* **Reservations.** Locks lapse while their purchase is under way; sweeps run
  lazily, from whoever comes next. Correct means: units neither leak nor are
  minted, an unexpired signed lock is backed, a refusal is justified.
* **Session.** A call works on a copy of its session across awaits and writes it
  back; a store that fails leaves two copies. Correct means: a session ceiling that
  no second delegation raises, one purchase per delegation, no repetition nobody
  asked for, a replay that settles nothing new.
* **Quotes.** The same price is computed at two moments from a catalog, a clock and a
  registry that move in between. Correct means: what is paid was quoted, a live
  quote is honoured, a discount was bargained for, an announced sale is charged.
* **Negotiation.** Calls of one buyer share a negotiator; a request that timed out
  is executed. Correct means: no price past a ceiling, no paisa of an escrow lost,
  no fee where the merchant does not negotiate, and an end.
* **Catalog, alerts.** Read-modify-write over Redis, two connections nobody
  orders, events that are lost. Correct means: a quiet store agrees with Redis, an
  acknowledged alert stands, a cancelled one is gone, a price that arrives is announced.

`hazards` in `PROJECT.json` lists these places line by line, with the property
that is about each, or why there is none.

## 2. Modules

| Module | What it is |
|---|---|
| `SettlementSaga` | the engine: attempts over one ledger and one provider |
| `SettlementPromise` | abstract specification: admission of a settlement as one indivisible step |
| `MandateVerification` | documents, signatures, clocks and the keys that expire |
| `SettlementArithmetic` | the amounts: gate, split, invoice (operators, no state) |
| `CompensationDlq` | compensators, queue, workers, requests on the wire |
| `RefundPromise` | abstract specification: what a rollback owes each transfer |
| `InventoryReservations` | locks, sweeper, consume, on both backends |
| `PurchaseSession` | the mandate tools over session store and purchase memory |
| `Pricing` | discount stack and GST split (operators, no state) |
| `QuoteBinding` | quote, bargain, lock check, cart check; extends `Pricing` |
| `Negotiation` | the tool's call and the gateway's turn |
| `CatalogPropagation` | merchant API, Redis, subscription, hydration |
| `PriceAlerts` | registrations, cancels and the watcher |
| `*_proofs` | theorems, eight modules (section 4) |
| `MC*` | TLC instances: constant functions, symmetry, one constraint |

How they meet: `SettlementSaga` is the inside of the one step by which
`PurchaseSession`, `InventoryReservations` and `MandateVerification` settle, and
`SettlementPromise` says what that step promises; `SettlementArithmetic` gives it
`Amount`, `Overdraft` and `LegCount`; `CompensationDlq` takes over the legs it
cannot reverse, and `RefundPromise` is what that amounts to. A contract of `Negotiation` is a bargain of `QuoteBinding`, whose
listing is what `CatalogPropagation` brings to the store.

Definitions whose comment starts with *Mutant* are deliberately wrong variants of
the definition below them. They are used by no specification; a property counts
as meaningful only if TLC refutes it once its mutant takes the place of the
original (`mutants` in `PROJECT.json`).

### SettlementSaga

An *attempt* is one call of `executeSettlementSaga`, with the fresh payment id
`settlementExecutor.newPaymentId` gives each. `pc[a]` names the `await` the
coroutine is at; whatever runs between two awaits is one action.

| `pc` | action | code |
|---|---|---|
| start | `VerifyMandates` | synchronous checks of `verifyAndCapturePhase` |
| nonce | `ValidateAndRecordNonce` | SET NX; an error refuses, written or not |
| claim | `ClaimCartSettlement` | SET NX; an error fails open |
| book, unbook | `RecordCumulativeSpend`, `UndoBreach` | INCRBY first, compare, undo; an error fails open |
| capture | `CapturePayment` | any exception, a timeout included, leads to the release |
| freeClaim, freeSpend | `ReleaseCartClaim`, `ReleaseCumulativeSpend` | `releaseSettlementSlot` |
| order | `PrepareSplit` | evidence order (never fails), manifest (may reject, outside the `try`) |
| transfer | `CreateTransfer` | one leg per step |
| compensate | `CompensateLeg` | one leg per step, newest first: skip, reverse, enqueue or lose |
| release | `ReleaseProvisionalSpend` | the spend goes back, the claim stays |

`Faults` says what the environment does wrong: the provider refuses; it executes
and the reply is lost; a Redis command fails, with or without effect; a process
dies (an `asyncio` cancellation looks the same). Data is abstracted to what the
properties tell apart: hashes and ids are model values, legs are numbers, the
verdict of the verification is the environment's, except that an amount above
the ceiling is always refused. `Total[S]` is the sum of the amounts of the
attempts in `S`; a set sum needs recursion, so the module states it as a constant
with the two laws of addition (`TotalAssumption`), which TLC evaluates against the
real sum in every run.

`SettlementPromise` is what the ledger's comments promise: cart and budget are
tested and taken in one step, and a reserved settlement is then voided, captured,
settled, rolled back or stranded. `Stage` is the refinement mapping. The linearization
point of a reservation is the increment that passes the cap. The slot is given up
with the deletion of the cart key. A rolled-back settlement keeps its cart and
frees its budget, as the code does on purpose.

### MandateVerification

A request carries a bundle of three documents. A signature is the pair of a key
and the body it was made for, a hash is the body (no collisions, no forgeries). The
builders and the checks of the SDKs stand beside the engine's checks. Time is in
seconds; a key set with a life time of *n* is gone *n* seconds later; claims do
not expire within any model time (7 days in the code). `ExecuteSettlement` is
everything up to the capture in one step, because what happens between its awaits
is `SettlementSaga`'s subject; a refusal before the nonce leaves no trace, one
behind it ends the request as `cartTaken` or `overBudget`. `RollbackSpend` decrements
a key that may have expired meanwhile, which creates a negative counter without
life time, as INCRBY does.

### SettlementArithmetic

The tax is computed twice, by `pricingEngine.ts` when the cart is built and by
`arithmeticEnclave.py` when it is judged, so the operators are translated from both.
Carts have one line, which is what `create_cart_mandate` builds. There is no run:
everything about it is for all amounts, and proved in `QuoteBinding_proofs`.

### CompensationDlq

Compensators are concurrent calls of `compensateTransfers` for the same
transfers; production has one per settlement, the tests and the word
"Idempotently" in `enqueueReversal` concern several. A call of the provider is
`SendReversal`, then `ExecuteReversal` or `RefuseReversal` at the provider, then
`AwaitInline` / `AwaitEvent`; a caller that times out leaves its request on the
wire, where it may execute at any later time. The provider remembers idempotency
keys, as the live one is relied on to. The mock's `reverseTransfer` ignores them and
is not modelled. A worker holds a popped event in `hand`; the time of its backoff is
`pc = "requeue"`. No code of the repository starts `runWorkerLoop`, so `StartWorker`
is an action of the environment, and a loop that Redis errors have ended may be
started again. Event records (`razoragent:dlq:event:*`) are never read and left out.

`RefundPromise` knows no queue, keys or provider: a transfer is repaid at most once,
recorded only when repaid, and passed by a saga only when it is repaid or somebody is in charge
of it, whom nothing but the repayment releases. Under the refinement mapping somebody is in
charge of a transfer that is queued, in a worker's hand, a dead letter, or claimed and about to
be pushed (`InCharge`). `Unreliable` stands for Redis errors and crashes, under which the code
may lose a charge, and nothing else is relaxed.

### InventoryReservations

A *purchase* is one reservation and the settlement it is for. `backend` is chosen
in `Init`: `toolRegistry` passes no Redis client, so the tools run on
`InMemoryAtomicLocker`; the scripts are used when one is given. In memory sweep,
comparison and taking are one action (`ExecuteLock`, no await in between). Over
Redis they are two EVALs (`SweepRedis`, `AcquireRedis`). Time is a bounded counter
of ticks; locks expire at a tick, while the cart carries whole seconds rounded
down (`Second`), and `PostSettlement` makes the engine's comparison in seconds with
the time the server read. The engine's answer is `SettleInEngine`, whose inside is
`SettlementSaga`. `LeaveReservation` is the lost answer or the failed consume,
which the code logs and ignores. `PublishListing` is `CatalogStore.addSku`, which
overwrites the stock in memory; the Redis stock is written by nobody else, because
the merchant API writes `inventory:stock:<sku>` and the locker reads
`{inventory}:stock:<sku>`. `Units[S]` is a set sum given by its laws, like `Total`.
One reservation per purchase; removing a SKU and retrying after an unknown outcome
(which the nonce refuses) are left out.

### PurchaseSession

`Begin…` reads the delegation's session (from Redis, from memory, or from
neither: `Read`), the action behind it works on that copy and writes it back
(`Save`); a call that settles passes through `PostSettlement`, the engine's verdict and
`RecordPurchase`. Calls of one connection overlap at these points. A Redis write
that fails leaves the new copy in memory and the old one in Redis, whose copy
later reads prefer. Carts and payloads are numbered in the order they are signed,
so a session holds numbers. The properties of the purchase memory are about calls that
do not overlap, since the guards are read before the await of the settlement and the
books written after it; `overlapped`, `failed`, `lost` and `charged` are history.

### Pricing, QuoteBinding

`Pricing` is the stack of `computeAutoDiscountStack` step by step: sale, volume tier,
campaign and cap, cashback, code, floor. A quote hash is the record of the fields it
covers. `now` moves between quote and cart; `PublishListing` is what
`CatalogPropagation` delivers; `Restart` loses both registries. `LockVerdict` and
`CartVerdict` are the two guards as they stand in the locker and in the cart tool.

### Negotiation

`Call(k)` are the steps of the tool (open the escrow, bid, give up, time out, read an
answer, release), `Serve(k)` the two of the gateway: it reads the merchant's terms in
an await of its own, and the rest of a turn (terms, turn limit, escrow, monotone bids,
fee, counter-offer, contract, in this order) is one step of its event loop. A request that timed out
may be executed at any later time; a failed release leaves the hold open.

### CatalogPropagation

A listing is the number of the write it comes from, so "outdated" is "smaller". A
request of the merchant API reads, stores and publishes in separate steps, and may
die before it publishes. The server subscribes on one connection and scans on the other;
`MergeListings` applies what `ReadListings` read, possibly behind newer events. `exposed`
is the set of SKUs that met one of five named hazards since the server started. Redis holds
records that the merchant API validated, so the malformed one that the hydration skips does not occur.

### PriceAlerts

Each Redis command of a registration or a cancel is a step, so are the steps of
the watcher's loop. The bucket of a SKU is one list under one key with one life
time. `stale` says that a call wrote back a list that was no longer current; what the
code does then is section 5. `AlertsInit`, `AlertsNext`, `AlertsSpec` and `AlertsTypeOK` carry
the module's name because its theorems share a module with those of `CatalogPropagation`,
which publishes the events that arrive in `inbox`.

## 3. Runs

| Run | Instance | Shows |
|---|---|---|
| `saga_race` | 4 attempts, 3 carts, 1 mandate of 3 paise; refusals, lost replies | `OneSettlementPerCart`, `BudgetNeverExceeded`, `CounterIsExact`, `CaptureIsAuthorized`; the engine implements `SettlementPromise` (`KeepsPromise`) |
| `saga_faults` | 3 attempts, two with one nonce; refusals, lost replies, Redis errors, crashes; fair | `RollbackRunsToTheEnd`, `SettledIsWhole`, `AttemptsConclude` |
| `mandates` | 7 requests, 2 mandates, 3 carts, 5 clocks, 6 seconds | `AcceptedIsAuthorized`, `ExpiryBinds`, `NonceOutlivesMandate`, `BudgetHeldUntilExpiry` |
| `dlq_faults` | 1 saga, 2 workers, 2 transfers; all faults | `RefundedAtMostOnce`, `NoReversalAfterTombstone` |
| `dlq_drains` | 2 sagas on 1 transfer, 2 workers; refusals, lost replies; fair | `NothingForgotten`, `QueueDrains`; the queue implements `RefundPromise` (`KeepsRefundPromise`) |
| `inventory_locks` | 3 purchases of 1+2+1 units, 2 listed; lock of 2 ticks, 4 ticks; one listing edit, one restart; all faults | `UnitsAccountedFor`, `LiveLockIsBacked`, `RefusalIsHonest` |
| `sessions` | 2 calls, 2 delegations, 2 items, 2 carts, 2 payloads; either store; lost answers, Redis errors | `SessionCeilingHeld`, `ReplayIsOriginal`, `DelegationUsedOnce`, `NoUnwittingRepeat`, `KeyDiesWithPurchase` |
| `quotes` | 2 buyers, 2 requests, 3 listings, 1 bargain, 4 seconds, 1 edit | `LiveQuoteHonoured`, `PayableIsLockable`, `DiscountIsBargained`, `SaleHonoured`, `PaidAsQuoted` |
| `negotiation` | 2 calls of one buyer, 3 turns, 4 policies, 2 edits, 2 failures; fair | `CeilingHeld`, `EscrowConserved`, `HoldsReleased`, `DeclinedFirstTurnIsFree`, `CallsConclude` |
| `catalog` | 2 SKUs, one with a fixture, 2 requests at a time, 4 writes, 1 fault, 1 restart; fair | `QuietStoreAgrees`, `Converges` |
| `alerts` | 2 alerts, 2 prices, 2 events, clock 1 to 2; all faults; fair watcher | `AlertStands`, `CancelSticks`, `HeardWhenDue` |
| `claim_double_charge` | 3 attempts, one retried | section 5 |

**Bounds.** The saga properties relate two attempts (same cart, same nonce) or a
set of attempts to one ceiling. `saga_race` has two attempts for one cart and two
carts that cannot both be paid beside one that can, so every pairing of claim,
breach, undo and release occurs, with rollbacks of up to two legs; `saga_faults` has
three legs, which tells an early abort from a finished rollback. In `mandates` the
tolerances are 1 and 2 seconds, a nonce lives 5 and the run lasts 5, which keeps the
inequality of the real figures (120 against 60 and 5) with a margin of one second,
so that a replay by a clock ahead does occur; the first and last clock are refused.
Two workers suffice for the queue: an event is in one hand, and the second
worker is the one that could take it as well. `MaxRetries = 2` gives one retry and
one dead letter. In `inventory_locks` the second buyer needs both units, so each
refusal, sweep and lapse matters; four ticks are two lifetimes of a lock, and with
two ticks a second the cart's expiry rounds down for locks taken at odd ticks; an EVAL may be a
tick on its way (`Delay`), so a life time may begin before its grant. In `sessions` the
first budget pays either item and the second delegation more, and the memory
holds one purchase, so the limit is reached; the constraint `OneHazard` explores
overlapping calls, a failing Redis and lost answers beside a failing Redis apart from each
other (`PurchaseSession_proofs` covers them together). In `quotes` a sale opens
and ends, a quote and a bargain expire, and one listing cannot be evaluated. In
`negotiation` the two calls can converge, be declined, run out of turns and find each
other's bids. In `catalog` one fault and one restart are what `exposed` and its healing
need. In `alerts` the two targets make an event match one alert or both; the second event may
wait behind one that fails or whose callbacks do not answer, and one alert expires within the run.

**Constants of the bounds.** `MaxTime`, `MaxPublications`, `MaxRestarts`, `MaxEdits`,
`MaxFaults`, `MaxWrites`, `MaxEvents`, `MaxBargains`, `MaxQuotes`, `MaxIssued`, `MaxCarts`,
`MaxExecutions`, `Delay`; `MaxRetries` and `MaxRemembered` are the code's own limits. Deadlock is
not checked: every model stops when all requests are answered or a bound is reached.

**Fairness.** Saga: weak fairness of each admitted attempt's next step. The event loop
resumes a coroutine whose await has completed, and each provider call carries
`timeoutSeconds`; a Redis command answers or raises. A request need not arrive, and a
dead process takes no step. DLQ: weak fairness of each saga's and worker's next step
and, as an assumption on the operator and not on the code, of starting the workers;
the provider owes nothing, and Redis is reliable. Negotiation: the tool's call and the gateway's
turn go on (both are event loops, and the client's requests time out); the merchant
owes nothing. Catalog: both connections deliver and a request under way
goes on; no fault need end and no restart happens. Alerts: the watcher's loop alone.

## 4. Proofs

Eight modules, for every value of the constants that satisfies the named
assumptions (types, positive amounts, and the two laws of addition for the set sums
`Total` and `Units`, which TLC evaluates against the real sums).

**SettlementSaga_proofs.** Two invariants are stacked:

* `AttemptInv`, inductive under every fault: `TypeOK`, that a nonce admits one
  attempt, and for each attempt that legs up to `completed` are at the provider
  before a rollback, that a rollback has dealt with exactly the legs above its
  cursor, and that whoever is past the nonce has it in the ledger. `SettledIsWhole` says
  nothing of the attempts still under way, hence the strengthening. Theorems:
  `TypeCorrect`, `NonceSafety`, `RollbackOrder`, `RollbackCompleteness`,
  `SettlementAtomicity`.
* `LedgerInv`, inductive on top of it when `"redis"` is not among the faults: one
  settlement per cart, a claim key for each attempt in its slot, and the counter
  equal to the sum of what is booked. `BudgetNeverExceeded` is not inductive
  without the exact counter, because the comparison reads the counter and the
  property speaks of attempts. Theorems: `CartExclusion`, `ClaimSafety`, `BudgetSafety`,
  `CounterExactness`, `CaptureAuthorization` (an action property) and `PromiseKept`, the
  refinement of `SettlementPromise` step by step. `PromiseIsSafe` says what the promise is
  worth by itself: one occupant per cart, and no mandate charged beyond its budget. An attempt
  that moves changes the charge of its own mandate only, and a set of attempts that shrinks
  has a smaller sum.

Without the assumption on Redis these six are false, by design of the code: claim
and counter fail open (`GUIDE.md:903`).

**MandateVerification_proofs.** `NonceInv`: every presented request passed all checks by
the clock it was judged by (`Dated`), and two uses of one nonce are a life time apart
(`Apart`). It gives `Authorization`, `ExpirySafety` and `NonceLifetime`; the last is arithmetic
over the windows of two requests, and its margin is NonceTtl − MaxDrift −
2·MinDrift, 50 s in the code. `SpendInv` on top of it: until a mandate ends, its counter is
there and equals what is booked, or nothing is booked; it is conditional on no
clock having been ahead, and gives `BudgetLifetime`. `SdkBundleSettles` and
`PreflightSound` relate the SDKs' documents and checks to the engine's, as statements
about all documents; the TypeScript SDK's check is the engine's only for executions that are not
dated ahead of the settlement.

**CompensationDlq_proofs.** Three invariants, with different assumptions, and a refinement:

* `DlqInv`, under every fault and for any sagas: each request on the wire carries the
  idempotency key of its transfer, and whoever is about to write a tombstone has seen a
  refund. Theorems `DlqTypeCorrect`, `RefundOnce`, `TombstonesAreBacked`.
* `KeptInv`, when neither Redis nor a process fails (`Live`): a transfer that a saga has
  passed, *or whose idempotency key is taken*, is refunded, queued, in a hand, about to
  be pushed or with the operator. The second half is what the property lacks: a saga that finds the
  key taken relies on the one that took it. Theorem `Unforgotten`. Without `Live` it is false
  in the code: a dead worker's event is in no queue (section 5).
* `CustodyInv`, under every fault, when no two sagas roll back the same settlement (`OneSaga`, as in
  production): an event is in one place, and a transfer not passed yet has no trace. It makes
  the check for a tombstone and the call behind it as good as one step. Theorems
  `RecordedIsFinal` (an action property) and `OneCustody`. With two sagas both are false:
  two callers that both miss the key both push (section 5).
* `RefundPromiseKept`, under every fault and for any sagas: each step concerns one transfer and,
  seen from `RefundPromise`, takes a charge, releases one, repays, records or lets a saga go on.
  `DlqInv` justifies the repayments, records and releases, `KeptInv` (where stores and processes
  live) the saga that goes on because the key is taken. `RefundPromiseIsSafe` says what any
  implementation of the promise has: one repayment, no record ahead of it, and nothing left
  behind that is neither repaid nor in charge. `TombstoneMeansRefund`, which no run checks by
  itself, is part of it.

**InventoryReservations_proofs.** `InventoryInv` is `TypeOK`, `UnitsAccountedFor`, that a purchase on
file is neither unasked nor sold, and that an entry leaves the file only once the
expiry the buyer holds has passed. The third makes a grant add its
units exactly once; the fourth links the buyer's document to the locker's file. Theorems
`StockTypeCorrect`, `StockConservation`, `SignedLocksAreBacked`. `SweptForAsker` on top of
it: between sweep and acquire nothing on file has lapsed by the moment the buyer asked,
though others file their locks in between. It gives the action property
`RefusalsAreHonest` on both backends. It needs `Delay < Ttl`: an acquire that travels longer than
a lock lives files an entry that has lapsed already.

**PurchaseSession_proofs.** `SessionInv` (documents, sessions and calls, counters): every copy of
a session refers to documents that exist and holds a bundle exactly when settled,
which is what makes a stale write-back harmless (`SettledSessionReplays`). Three more on top of it:

* `BudgetInv`: the ceiling is at most the first budget, nothing is in store or in
  flight while there is none, and, without overlap, the connection's books stay within
  the first budget and what was charged exceeds them by the lost answers alone
  (`CeilingNeverExceeded`).
* `MemoryInv`: without overlap, what arrived is remembered until the memory overflows, a
  posted bundle passed the duplicate guard as the memory stands *now*, and an answered
  call owns the last receipt (`RepetitionAsked`).
* `UseInv`: while the store works only one backend holds copies, and the delegation of
  every receipt that arrived is used up in all of them or its call is about to write
  that (`DelegationUse`, `KeyLifetime`).

**QuoteBinding_proofs.** What is quoted, signed and settled.

* Prices: the price stack stays between zero and the list price and never above an open sale
  (`AutomaticPriceBounded`, `VolumePriceBounded`); a tax is the sum of its heads and short of the
  exact rate by less than a paisa per head (`GstRoundsDown`).
* Quotes: `QuoteInv` says what each hash in an agent's hands, each agreement and each cart is
  made of; theorems `PriceBinding`, `DiscountBacking`, `GuardsAgree`, `SaleSafety`. `WorthInv`
  follows a quote behind which nothing changed: it is at the automatic price of its
  moment with no cheaper agreement on file, or at an agreement that lives at least as long
  as itself. It gives `QuotesAreHonoured`.
* Amounts: a cart the server signs passes the gate (`SignedCartSettles`), unless its place of
  supply contradicts the quote's (`WrongPlaceRefused`: refused, except when there is no
  tax); payouts add up to the captured amount in two to four transfers, none of them
  empty (`PayoutsAddUp`); a captured cart above 50 paise of goods has a manifest
  (`CapturedCartHasManifest`); the invoice totals the settlement (`InvoiceMatchesSettlement`); the
  tax across a state border exceeds the tax within one by a paisa exactly when
  taxable · rateBps mod 20000 ≥ 10000 (`TotalsDifferByAPaise`, the comment at
  `budgetGate.py:49`).

**Negotiation_proofs.** One invariant per call (`CallInv`: flow, fees paid, deal) and three
over what calls share (environment, negotiators, contracts). A step of one call leaves
the others' invariant alone, a lemma of its own. Theorems `NegotiationTypeCorrect`,
`CeilingSafety`, `EscrowConservation`, `FreeDecline`. `LeftInv` sets the holds that calls left open,
together with the calls whose turns were cut short, against the requests that failed: a call that
was cut short has used up its failure, so a hold left behind takes another. It says also that
both are finitely many, so `HoldsAreReleased` needs no assumption on the number of calls.

**Catalog_proofs.** The two readers of a merchant's catalog events, `CatalogPropagation` and
`PriceAlerts`; the module extends both.

* `AlertInv` follows one alert through the shared list. What an acknowledged
  registration put there survives the other alerts' calls only because each of them writes
  what it read, unless `stale`, and because a rewrite gives the key the life time of its
  longest-lived entry, which a lemma on lists shows to cover every other. Lookup keys and
  list can disagree, so the invariant keeps both. Theorems `AlertInvariant`,
  `AlertsStand`, `CancelsStick`; `AlertsTypeCorrect` has an invariant of its own.
* `CatalogInv` says of each SKU that met no hazard where its last stored listing is: with the one
  request that is about to announce it, else in the last event on the wire, else it is what the store
  will offer after the hydration (`Coming`: still to be read, in the reply, or in
  the store). An event undelivered for want of a subscription is harmless exactly when it is not
  `Beyond` the hydration. Theorems `CatalogInvariant`, `QuietStoresAgree`.
* `CatalogTypeCorrect` needs two facts on top of it. Nobody knows a listing that was not
  written (`Numbered`), which the type of every listing says; and the writes
  still to come have a number left (`Room`: those written and the requests that have yet to
  store are at most `MaxWrites` together), without which the counter might leave its bound.

**Model-checked only.** Liveness and everything that rests on `ENABLED`
(`AttemptsConclude`, `QueueDrains`, `CallsConclude`, `Converges`, `HeardWhenDue`); that the
set sums of the instances satisfy the laws; the one `violation` run. Every other property of a
run is a theorem.

## 5. Disagreements found

One run states a sentence of the code and TLC returns a behaviour that violates it:

| Run | Statement | Behaviour |
|---|---|---|
| `claim_double_charge` | `twoPhaseCommitSaga.py:275`: a capture that raised moved no money | a capture that timed out was executed; cart and spend are released and a retry captures again |

The others are behaviours of the models, described here without a run of their own.
File names are those of the parts in section 1.

*Settlement.*

* `README.md:21` says compensation eliminates orphan allocations; a transfer whose reply
  is lost is in no list the rollback reads.
* `settlementLedger.py:93` wants an incomplete settlement not to lock the buyer out of the
  cart; a refusal by the budget leaves the cart claimed.
* `twoPhaseCommitSaga.py:153` calls the DLQ what guarantees a retry; a worker that dies
  holds an event that is in no queue.
* `testAdversarialChallengerM2DlqStress.py:310` expects one pending item of twenty
  concurrent enqueues; two callers that both miss the key both push.
* `GUIDE.md:869` describes nonces of 300 s and a ledger that fails closed; the code has 120 s
  and fails open, as `GUIDE.md:903` says.
* A manifest rejected after the capture (`settlementOrchestrator.py:217`) is outside the
  `try` block. A cart the server signs meets it only with goods of at most 50 paise
  (`CapturedCartHasManifest`). The gate never compares the declared taxable subtotal with
  the lines.

*Mandates.*

* `mandateToolsManifest.ts:238` and `settle_before_timestamp` announce 65 seconds to settle;
  `settlementExecutor.ts:312` sends the present time and `nonceLedger.py:25` refuses from
  the sixth second on.
* `settlementLedger.py:125` says the counter expires with the mandate. It lives at least a
  minute from the last settlement, so it may outlive the mandate; a clock ahead of the
  engine's shortens it, and a rollback on an expired counter creates a negative one without life time.
* `settlementLedger.py:25` says a claim outlives any mandate; that holds of the intents the
  server makes (at most a day), the engine bounds no other.
* `amendmentMandateSchema.py:26` documents a negative delta for a decrease; the SDK's
  `handlePriceDropAlert` fills in the positive saving. Nothing consumes the document.

*Inventory and session.*

* `GUIDE.md:182` says a reservation prevents overselling; a lock that lapses between the
  engine's check and the consume is swept and sold again.
* `sessionBudgetCeiling.test.ts:8` says the first budget is the most a session can spend. Of
  two overlapping settlements both pass the guard (`settlementExecutor.ts:187`), whose
  books are written after the await.
* `sessionPurchaseRegistry.ts:77` says the first budget wins and the minimum is not taken; a later,
  smaller budget does lower the ceiling.
* `delegationSessionStore.ts:10` says a signing key cannot outlive its delegation; a Redis write
  that fails leaves the older copy, key included, where later reads find it.

*Quotes and negotiation.*

* `skuQuoter.ts:262` wants a lapsed bargain to arrive as an expired quote; in the seconds of
  grace behind the expiry it arrives as a mismatch.
* `issuedQuoteRegistry.ts:90` says the two guards agree; they agree on the expiry
  (`PayableIsLockable`), and a listing edited in between makes a lockable quote unusable.
* `pricingEngine.ts:192` wants a malformed promotion to cost its discount only; the list of
  upcoming promotions evaluates the same record, unguarded, after the quote was recorded.
* `GUIDE.md:925` says a negotiated price is recorded and not applied; it is applied.
* `negotiationResponse.ts:121` advises to negotiate again; the negotiator outlives the call, and
  the next one is refused on its opening turn for not raising the last bid.
* `negotiationResponse.ts:114` says nothing was charged; if the merchant switches
  negotiation off between two turns, the earlier turns were.
* The fees a response reports are those of the negotiator, not of the call. An answer lost when
  the escrow is opened leaves its hold open.

*Catalog and alerts.*

* `catalogSubscriber.ts:57` says a change published during the scan is not lost; it is when the
  scan read the record before the change and merges it after the event.
* A restart posts the fixtures over listings the merchant edited or removed. Events lost
  while the connection was down are not read again.
* A registration and a cancel of one SKU that overlap (`priceDropAlertManager.py:93` and `:119`) lose an
  acknowledged alert or bring a cancelled one back.
* A Redis error in `subscribe` or `get_message` (`catalogPriceWatcher.py:108`) ends the watcher for
  good while registrations are still acknowledged. `gatewayApp.py:62` says alerts degrade to
  memory when Redis is unreachable at boot; creating the client does not connect, so they do not.

## 6. Not modelled

* *Sessions and escrows*: their life times, a restart of the MCP server, a second server.
* *Redis keys* that expire outside any model time: cart claims (7 days), tombstones.
* *Carts* of several lines, and the largest-remainder shares and the spending cap, which no
  settlement uses; the GSTIN checksum; the rendering of invoices.
* *Cryptography*: canonical JSON, key derivation and encodings. Signatures and hashes are
  symbolic, so the models assume that different bodies have different hashes.
* *Amendment mandates*: the schema and a builder exist, no service reads one.
* *Webhook*: verifies a delivery and does one SET NX; it changes no order.
* *Contract compiler*, sanitizer, substitutes, browsing, SLA check: pure functions of text and
  lists, with no state to be wrong between two steps.
* *Merchant API adapters and registration, vector healer*: sequential I/O and a ranking by an
  external store. What the merchant API does to the catalog is `CatalogPropagation`.
* *Transport, telemetry, configuration, wiring*: wire formats and fire-and-forget events.
* *Dashboard, examples, scripts, the SDKs' HTTP clients*: by far the largest part of the
  source. They display and drive; none of the state above depends on them.

This is why the models stand for a small share of the source: most lines are user
interface, formatting, adapters and descriptions of tools.

## 7. What is left

1. Composition of `PurchaseSession` with `InventoryReservations`: two carts on one signed
   lock, which the models have on either side only.
2. The vector index and the healer's cache as a second replica of `CatalogPropagation`.
3. Restart and session life time in `PurchaseSession`.
