-------------------------- MODULE MandateVerification --------------------------
(***************************************************************************)
(* The mandate chain and the clocks it is judged by.  A request carries    *)
(* three documents: what a user allowed (intent), what a merchant offers   *)
(* (cart) and what an agent commits to (execution).  The engine verifies   *)
(* them against its clock, which the caller may shift within bounds, and   *)
(* keeps three kinds of Redis keys: nonces and spend counters, which       *)
(* expire, and cart claims, which do not for as long as anything here is   *)
(* valid (7 days).  Admission is one step; SettlementSaga is its inside.   *)
(* The cart's total is the one the arithmetic of the gate recomputes       *)
(* (SettlementArithmetic).                                                 *)
(***************************************************************************)
EXTENDS Integers

CONSTANTS
  Requests,       \* calls of POST /api/v1/settlement/execute
  Bundle,         \* the three documents of each
  Shifts,         \* serverTime minus the engine's clock, as callers send it
  Unclassified,   \* the category of a line that has none
  Uncategorized,  \* uncategorizedCartItemCategory
  MinDrift,       \* minNtpDriftToleranceSeconds
  MaxDrift,       \* maxNtpDriftToleranceSeconds
  NonceTtl,       \* nonceTtlSeconds
  MinSpendTtl,    \* minimumSpendTtlSeconds
  Total,          \* Total[S]: the paise the requests in S settle together
  MaxTime         \* bound: seconds the clock runs

\* Ed25519 and SHA-256 over canonical JSON, without collisions or forgeries: a
\* signature is the key and what it signed, a hash is the body it was taken of.
Sign(key, body) == [by |-> key, of |-> body]
Signed(key, body) == [body |-> body, signature |-> Sign(key, body)]
VerifiedBy(key, document) == document.signature = Sign(key, document.body)
computeMandateHash(document) == document.body

\* What the schemas let through; times count from the start of the model, and an
\* intent and a cart stand for their ids.
IsPaise(n) == n \in Nat \ {0}
IsIntent(i) == IsPaise(i.maxBudget) /\ IsPaise(i.singleLimit) /\ i.validUntil \in Nat
IsCart(c) == IsPaise(c.total) /\ c.lockExpiresAt \in Nat /\ c.categories # {}
IsExecution(e) == IsPaise(e.amount) /\ e.timestamp \in Nat

IntentOf(r) == Bundle[r].intent.body
CartOf(r) == Bundle[r].cart.body
ExecutionOf(r) == Bundle[r].execution.body
AmountOf(r) == ExecutionOf(r).amount
Intents == {IntentOf(r) : r \in Requests}
Nonces == {ExecutionOf(r).nonce : r \in Requests}

ASSUME BundleAssumption ==
  \A r \in Requests :
    IsIntent(IntentOf(r)) /\ IsCart(CartOf(r)) /\ IsExecution(ExecutionOf(r))

ASSUME ClockAssumption ==
  /\ Shifts \subseteq Int
  /\ MinDrift \in Nat /\ MaxDrift \in Nat
  /\ NonceTtl \in Nat \ {0} /\ MinSpendTtl \in Nat \ {0} /\ MaxTime \in Nat

\* Total is addition over sets of requests, stated by the laws the proofs use.
ASSUME TotalAssumption ==
  /\ Total \in [SUBSET Requests -> Nat]
  /\ \A r \in Requests : Total[{r}] = AmountOf(r)
  /\ \A S, T \in SUBSET Requests :
       S \cap T = {} => Total[S \cup T] = Total[S] + Total[T]

VARIABLES
  now,       \* the engine's clock, in seconds
  nonces,    \* razoragent:nonce:*, when each expires
  claims,    \* razoragent:settled:*
  spend,     \* razoragent:spend:*, paise and expiry of each counter
  requests   \* what became of each request, when, and by which clock

vars == <<now, nonces, claims, spend, requests>>
-----------------------------------------------------------------------------
(* The SDKs: documents as their builders sign them *)

createSignedIntentMandate(user, agent, maxBudget, singleLimit, categories, until) ==
  Signed(user, [user |-> user, agent |-> agent, maxBudget |-> maxBudget,
                singleLimit |-> singleLimit, categories |-> categories,
                validUntil |-> until])

\* _withSignedCategory: a line the merchant did not classify is signed with a
\* category all the same, as the engine's schema would read it.
withSignedCategory(category) ==
  IF category = Unclassified THEN Uncategorized ELSE category

\* The lines of a cart are the set of their categories.
createSignedCartMandate(merchant, lines, total, lockExpiresAt) ==
  Signed(merchant, [merchant |-> merchant,
                    categories |-> {withSignedCategory(c) : c \in lines},
                    total |-> total, lockExpiresAt |-> lockExpiresAt])

buildUnsignedExecutionPayload(agent, intent, cart, amount, nonce, timestamp) ==
  [agent |-> agent, intentHash |-> computeMandateHash(intent),
   cartHash |-> computeMandateHash(cart), amount |-> amount, nonce |-> nonce,
   timestamp |-> timestamp]

createSignedExecutionMandate(agent, intent, cart, amount, nonce, timestamp) ==
  Signed(agent, buildUnsignedExecutionPayload(agent, intent, cart, amount, nonce, timestamp))

\* What the TypeScript SDK checks before it posts a bundle.
SdkVerifiesChain(b) ==
  LET i == b.intent.body c == b.cart.body e == b.execution.body IN
  /\ e.intentHash = computeMandateHash(b.intent)
  /\ e.cartHash = computeMandateHash(b.cart)
  /\ e.amount = c.total
  /\ c.total <= i.maxBudget /\ c.total <= i.singleLimit
  /\ e.timestamp <= i.validUntil

\* What the Python SDK checks, by the time it is going to send or by its own.
SdkValidatesInvariants(b, t) ==
  LET i == b.intent.body c == b.cart.body e == b.execution.body IN
  /\ t <= i.validUntil
  /\ e.amount <= i.maxBudget /\ e.amount <= i.singleLimit
  /\ c.total = e.amount
  /\ e.intentHash = computeMandateHash(b.intent)
  /\ e.cartHash = computeMandateHash(b.cart)
-----------------------------------------------------------------------------
(* The engine's checks; t is the time it judges by *)

verifyMandateSignatures(b) ==
  /\ VerifiedBy(b.intent.body.user, b.intent)
  /\ VerifiedBy(b.cart.body.merchant, b.cart)
  /\ VerifiedBy(b.execution.body.agent, b.execution)

verifyMandateChain(b) ==
  /\ b.execution.body.intentHash = computeMandateHash(b.intent)
  /\ b.execution.body.cartHash = computeMandateHash(b.cart)

\* Mutant: whoever signs the execution may spend.
AnyAgent(b) == TRUE

verifyDelegatedAgent(b) == b.execution.body.agent = b.intent.body.agent

\* No categories named: all allowed.  A cart always has lines.
verifyCategoryAuthorization(b) ==
  b.intent.body.categories # {} => b.cart.body.categories \subseteq b.intent.body.categories

validateBudgetGate(b, t) ==
  LET i == b.intent.body e == b.execution.body IN
  /\ t <= i.validUntil
  /\ verifyDelegatedAgent(b)
  /\ e.amount = b.cart.body.total
  /\ e.amount <= i.maxBudget /\ e.amount <= i.singleLimit
  /\ verifyCategoryAuthorization(b)

Verified(b, t) ==
  /\ verifyMandateSignatures(b)
  /\ verifyMandateChain(b)
  /\ validateBudgetGate(b, t)
  /\ t <= b.cart.body.lockExpiresAt

verifyTimestampWindow(timestamp, t) ==
  t - MinDrift <= timestamp /\ timestamp <= t + MaxDrift

\* Mutant: a clock may lag behind by any amount.
AnyLaggingClock(shift) == shift <= MaxDrift

\* rejectOutOfWindowServerTime; a request without serverTime has shift 0.
IsPermitted(shift) == -MinDrift <= shift /\ shift <= MaxDrift
-----------------------------------------------------------------------------
(* The keys *)

\* An expiry no clock of the model reaches: a key without TTL.
Never == MaxTime + 1

Value(i) == IF now < spend[i].until THEN spend[i].paise ELSE 0

\* Mutant: the counter lives a minute, however long the mandate does.
MinimumLife(i, t) == MinSpendTtl

\* _applySpendExpiry
SpendTtl(i, t) ==
  IF i.validUntil - t > MinSpendTtl THEN i.validUntil - t ELSE MinSpendTtl

\* INCRBY, then EXPIRE; the decrement after a breach leaves the expiry alone.
RecordCumulativeSpend(r, shift) ==
  LET i == IntentOf(r)
      until == now + SpendTtl(i, now + shift)
      cumulative == Value(i) + AmountOf(r) IN
  \/ /\ cumulative <= i.maxBudget
     /\ spend' = [spend EXCEPT ![i] = [paise |-> cumulative, until |-> until]]
     /\ requests' = [requests EXCEPT ![r] = [at |-> "admitted", time |-> now, shift |-> shift]]
  \/ /\ cumulative > i.maxBudget
     /\ spend' = [spend EXCEPT ![i] = [paise |-> Value(i), until |-> until]]
     /\ requests' = [requests EXCEPT ![r] = [at |-> "overBudget", time |-> now, shift |-> shift]]

\* _rollbackSpend: on an expired counter it makes a negative one that stays.
RollbackSpend(r) ==
  LET i == IntentOf(r) IN
  spend' = [spend EXCEPT ![i] =
             [paise |-> Value(i) - AmountOf(r),
              until |-> IF now < spend[i].until THEN spend[i].until ELSE Never]]

ClaimSettlementSlot(r, shift) ==
  \/ /\ CartOf(r) \in claims
     /\ requests' = [requests EXCEPT ![r] = [at |-> "cartTaken", time |-> now, shift |-> shift]]
     /\ UNCHANGED <<claims, spend>>
  \/ /\ CartOf(r) \notin claims
     /\ claims' = claims \cup {CartOf(r)}
     /\ RecordCumulativeSpend(r, shift)

\* Mutant: a nonce is remembered for the window's width.
RecordNonceForWindow(n) ==
  /\ now >= nonces[n]
  /\ nonces' = [nonces EXCEPT ![n] = now + MaxDrift]

\* SET NX EX
RecordNonce(n) ==
  /\ now >= nonces[n]
  /\ nonces' = [nonces EXCEPT ![n] = now + NonceTtl]
-----------------------------------------------------------------------------
Unasked == [at |-> "idle", time |-> 0, shift |-> 0]

Init ==
  /\ now = 0
  /\ nonces = [n \in Nonces |-> 0]
  /\ claims = {}
  /\ spend = [i \in Intents |-> [paise |-> 0, until |-> 0]]
  /\ requests = [r \in Requests |-> Unasked]

\* A request that is refused before it reaches the keys leaves no trace and may
\* come again.
ExecuteSettlement(r, shift) ==
  /\ requests[r].at = "idle"
  /\ IsPermitted(shift)
  /\ Verified(Bundle[r], now + shift)
  /\ verifyTimestampWindow(ExecutionOf(r).timestamp, now + shift)
  /\ RecordNonce(ExecutionOf(r).nonce)
  /\ ClaimSettlementSlot(r, shift)
  /\ UNCHANGED now

Conclude(r, end) ==
  /\ requests[r].at = "admitted"
  /\ requests' = [requests EXCEPT ![r].at = end]
  /\ UNCHANGED <<now, nonces>>

\* releaseSettlementSlot: cart and spend come back, the nonce does not.
FailCapture(r) ==
  /\ Conclude(r, "failed")
  /\ claims' = claims \ {CartOf(r)}
  /\ RollbackSpend(r)

\* _releaseProvisionalSpend: the cart stays claimed.
RollBackSplit(r) ==
  /\ Conclude(r, "rolledBack")
  /\ RollbackSpend(r)
  /\ UNCHANGED claims

CompleteSplit(r) == Conclude(r, "settled") /\ UNCHANGED <<claims, spend>>

Tick ==
  /\ now < MaxTime
  /\ now' = now + 1
  /\ UNCHANGED <<nonces, claims, spend, requests>>

Settle(r) ==
  \/ \E shift \in Shifts : ExecuteSettlement(r, shift)
  \/ FailCapture(r)
  \/ RollBackSplit(r)
  \/ CompleteSplit(r)

Next == Tick \/ \E r \in Requests : Settle(r)

Spec == Init /\ [][Next]_vars
-----------------------------------------------------------------------------
Outcomes == {"idle", "cartTaken", "overBudget", "admitted", "failed", "rolledBack", "settled"}

TypeOK ==
  /\ now \in 0..MaxTime
  /\ nonces \in [Nonces -> Nat]
  /\ claims \subseteq {CartOf(r) : r \in Requests}
  /\ spend \in [Intents -> [paise : Int, until : Nat]]
  /\ requests \in [Requests -> [at : Outcomes, time : 0..MaxTime, shift : Int]]

\* Past the nonce, and past all reservations: the provider was asked to capture.
IsPresented(r) == requests[r].at # "idle"
IsAdmitted(r) == requests[r].at \in {"admitted", "failed", "rolledBack", "settled"}

\* Money is asked for only where the three signatures together say so: the user's
\* names the agent whose signature covers exactly this user's mandate, this
\* merchant's cart and this amount, within what the user allowed, whatever
\* documents a request puts together (verifyAndCapturePhase).
AcceptedIsAuthorized ==
  \A r \in Requests :
    IsAdmitted(r) =>
      LET b == Bundle[r] i == IntentOf(r) c == CartOf(r) e == ExecutionOf(r) IN
      /\ b.intent.signature = Sign(i.user, i)
      /\ b.cart.signature = Sign(c.merchant, c)
      /\ b.execution.signature = Sign(i.agent, e)
      /\ e.intentHash = i /\ e.cartHash = c /\ e.amount = c.total
      /\ c.total <= i.maxBudget /\ c.total <= i.singleLimit
      /\ i.categories = {} \/ c.categories \subseteq i.categories

\* Whatever clock the caller sends, nothing is admitted more than MinDrift after
\* the mandate or the stock lock expired, nor more than twice that after the
\* execution was dated (the comment of clockOverrideGuard: unbounded, it is a
\* clock the caller owns).
ExpiryBinds ==
  \A r \in Requests :
    IsAdmitted(r) =>
      /\ requests[r].time <= IntentOf(r).validUntil + MinDrift
      /\ requests[r].time <= CartOf(r).lockExpiresAt + MinDrift
      /\ requests[r].time <= ExecutionOf(r).timestamp + 2 * MinDrift

\* A nonce is remembered for longer than its execution mandate can be presented,
\* although nonces expire: the same mandate passes twice only if the first clock
\* was ahead by what the life time leaves over (50 seconds; MinDrift is 5,
\* MaxDrift 60, NonceTtl 120).
NonceOutlivesMandate ==
  \A p, q \in Requests :
    /\ p # q /\ IsPresented(p) /\ IsPresented(q)
    /\ ExecutionOf(p) = ExecutionOf(q)
    /\ requests[p].time <= requests[q].time
    => requests[p].shift >= NonceTtl - MaxDrift - 2 * MinDrift

IsBooked(r) == requests[r].at \in {"admitted", "settled"}
BookedEarly(i) ==
  {r \in Requests : IntentOf(r) = i /\ IsBooked(r) /\ requests[r].time < i.validUntil}
\* No request against the mandate was judged by a clock that was ahead.
NoneAhead(i) ==
  \A r \in Requests : IntentOf(r) = i /\ IsPresented(r) => requests[r].shift <= 0

\* The counter of a mandate lives as long as the mandate, although every
\* settlement sets its expiry anew and callers shift the clock: what is booked
\* before the mandate ends never exceeds its budget.  A clock that is ahead, or
\* a settlement in the mandate's last second, is outside the promise.
BudgetHeldUntilExpiry ==
  \A i \in Intents : NoneAhead(i) => Total[BookedEarly(i)] <= i.maxBudget
=============================================================================
