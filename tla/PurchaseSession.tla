--------------------------- MODULE PurchaseSession ---------------------------
(***************************************************************************)
(* The mandate tools of the MCP server, as one MCP connection calls them:  *)
(* pair (establish_agent_delegation), create_cart_mandate,                 *)
(* sign_execution_mandate and execute_settlement, over the session store   *)
(* (Redis, with an in-process copy for the writes Redis refuses) and the   *)
(* purchase memory of the connection (what it bought, what it may spend).  *)
(*                                                                         *)
(* A call reads the delegation's session, works on that copy across its    *)
(* awaits and writes the copy back.  Calls of one connection may overlap.  *)
(* The mandate engine is its promise: a settlement is admitted in one step.*)
(***************************************************************************)
EXTENDS Integers, Sequences

CONSTANTS
  Delegations,    \* delegation ids the connection may be given
  Items,          \* what a cart can hold: lines and total, the cart key
  Calls,          \* tool calls that may be in flight at a time
  Price,          \* totalPaise of a cart of an item
  Budget,         \* max_budget_paise a delegation is established with
  Custodial,      \* delegations whose buyer key the mesh holds
  MaxRemembered,  \* maxRememberedPurchasesPerSession
  MaxCarts,       \* bound: cart mandates signed
  MaxExecutions,  \* bound: execution payloads issued
  Faults          \* what the environment does wrong

FaultKinds == {"lostReply",  \* the engine settles and its answer never arrives
               "redis"}      \* a Redis command of the session store fails

ASSUME SessionAssumption ==
  /\ Price \in [Items -> Nat \ {0}]
  /\ Budget \in [Delegations -> Nat \ {0}]
  /\ Custodial \subseteq Delegations
  /\ MaxRemembered \in Nat \ {0}
  /\ MaxCarts \in Nat /\ MaxExecutions \in Nat
  /\ Faults \subseteq FaultKinds

VARIABLES
  backend,      \* which store the process uses
  redis,        \* mesh:delegation:* keys
  memory,       \* InMemorySessionStore._entries
  carts,        \* cart mandates signed, in order: the item of each
  executions,   \* unsigned execution payloads issued: the cart each binds
  calls,        \* the tool calls in flight
  ceiling,      \* sessionCeilingPaise, 0 while none was declared
  spent,        \* sessionSpentPaise
  remembered,   \* settledPurchasesBySession: cart keys, oldest first
  receipts,     \* engine: settlements in order
  booked,       \* engine: spend counter of each delegation
  firstBudget,  \* history: the first budget declared, 0 before
  charged,      \* history: paise settled for this connection
  lost,         \* history: paise settled whose answer was lost
  overlapped,   \* history: two calls have been in flight together
  failed        \* history: a Redis command has failed

store == <<redis, memory>>
registry == <<ceiling, spent, remembered>>
engine == <<receipts, booked>>
documents == <<carts, executions>>
history == <<firstBudget, charged, lost, overlapped, failed>>
vars == <<backend, store, documents, calls, registry, engine, history>>

\* A stored DelegationSession; 0 stands for a field that is absent.
Sessions == [key: BOOLEAN, cart: 0..MaxCarts, unsigned: 0..MaxExecutions,
             signed: 0..MaxExecutions, settled: BOOLEAN]

Idle == [at |-> "idle"]

Init ==
  /\ backend \in {"redis", "memory"}
  /\ redis = <<>> /\ memory = <<>>
  /\ carts = <<>> /\ executions = <<>>
  /\ calls = [k \in Calls |-> Idle]
  /\ ceiling = 0 /\ spent = 0 /\ remembered = <<>>
  /\ receipts = <<>> /\ booked = [d \in Delegations |-> 0]
  /\ firstBudget = 0 /\ charged = 0 /\ lost = 0
  /\ overlapped = FALSE /\ failed = FALSE

With(f, d, s) == [x \in DOMAIN f \cup {d} |-> IF x = d THEN s ELSE f[x]]
PriceOf(c) == Price[carts[c]]
-----------------------------------------------------------------------------
(* The session store *)

InMemory(d) == IF d \in DOMAIN memory THEN {memory[d]} ELSE {}

\* loadDelegationSession: the set is empty for an unknown delegation.  A failing
\* read falls back to memory.
Read(d, fails) ==
  IF backend = "redis" /\ ~fails /\ d \in DOMAIN redis
  THEN {redis[d]} ELSE InMemory(d)

ReadFailures ==
  IF backend = "redis" /\ "redis" \in Faults THEN BOOLEAN ELSE {FALSE}

\* saveDelegationSession: a failing write, executed or not, leaves the session
\* in memory as well.
Save(d, s) ==
  \/ /\ backend = "memory"
     /\ memory' = With(memory, d, s)
     /\ UNCHANGED <<redis, failed>>
  \/ /\ backend = "redis"
     /\ redis' = With(redis, d, s)
     /\ UNCHANGED <<memory, failed>>
  \/ /\ backend = "redis" /\ "redis" \in Faults
     /\ redis' \in {redis, With(redis, d, s)}
     /\ memory' = With(memory, d, s)
     /\ failed' = TRUE
-----------------------------------------------------------------------------
(* A call: Begin reads the session, Return ends the call.  A call that is   *)
(* refused while it begins changes nothing and is no step.                  *)

Busy(k) == \E j \in Calls \ {k} : calls[j] # Idle

Begin(k, c) ==
  /\ calls[k] = Idle
  /\ calls' = [calls EXCEPT ![k] = c]
  /\ overlapped' = (overlapped \/ Busy(k))

Goto(k, l) == calls' = [calls EXCEPT ![k].at = l]
Return(k) == calls' = [calls EXCEPT ![k] = Idle]
At(k, l) == calls[k].at = l

\* Mutant: the budget declared last is the session's.
DeclareLatest(b) ==
  /\ ceiling' = b
  /\ firstBudget' = IF firstBudget = 0 THEN b ELSE firstBudget

DeclareSessionCeiling(b) ==
  /\ ceiling' = IF ceiling = 0 \/ b < ceiling THEN b ELSE ceiling
  /\ firstBudget' = IF firstBudget = 0 THEN b ELSE firstBudget

\* The budget is declared before the proof of possession is verified, so an
\* agent-held pairing that fails declares one too.  The new id is known to
\* nobody before the call returns, hence one step.
EstablishDelegation(k, d) ==
  /\ calls[k] = Idle
  /\ d \notin DOMAIN redis \cup DOMAIN memory
  /\ DeclareSessionCeiling(Budget[d])
  /\ \/ Save(d, [key |-> d \in Custodial, cart |-> 0, unsigned |-> 0,
                 signed |-> 0, settled |-> FALSE])
     \/ d \notin Custodial /\ UNCHANGED <<store, failed>>
  /\ overlapped' = (overlapped \/ Busy(k))
  /\ UNCHANGED <<backend, documents, calls, spent, remembered, engine,
                 charged, lost>>

\* Mutant: a settled delegation is given another cart.
BeginCartUnguarded(k, d, i) ==
  /\ \E fails \in ReadFailures : \E s \in Read(d, fails) :
       /\ Begin(k, [at |-> "cart", delegation |-> d, session |-> s, item |-> i])
       /\ failed' = (failed \/ fails)
  /\ UNCHANGED <<backend, store, documents, registry, engine,
                 firstBudget, charged, lost>>

BeginCart(k, d, i) ==
  /\ \E fails \in ReadFailures : \E s \in Read(d, fails) :
       /\ ~s.settled
       /\ Begin(k, [at |-> "cart", delegation |-> d, session |-> s, item |-> i])
       /\ failed' = (failed \/ fails)
  /\ UNCHANGED <<backend, store, documents, registry, engine,
                 firstBudget, charged, lost>>

\* Quote and lock reconciled, the merchant signs a new cart.  The payload
\* issued for an earlier cart stays.
SignAndStoreCart(k) ==
  /\ At(k, "cart")
  /\ Len(carts) < MaxCarts
  /\ carts' = Append(carts, calls[k].item)
  /\ Save(calls[k].delegation,
          [calls[k].session EXCEPT !.cart = Len(carts) + 1,
                                   !.signed = 0, !.settled = FALSE])
  /\ Return(k)
  /\ UNCHANGED <<backend, executions, registry, engine,
                 firstBudget, charged, lost, overlapped>>

BeginSign(k, d) ==
  /\ \E fails \in ReadFailures : \E s \in Read(d, fails) :
       /\ ~s.settled /\ s.cart # 0
       /\ Begin(k, [at |-> "sign", delegation |-> d, session |-> s])
       /\ failed' = (failed \/ fails)
  /\ UNCHANGED <<backend, store, documents, registry, engine,
                 firstBudget, charged, lost>>

\* A fresh execution id and nonce for the session's cart.
IssuePayload(k) ==
  /\ At(k, "sign")
  /\ Len(executions) < MaxExecutions
  /\ executions' = Append(executions, calls[k].session.cart)
  /\ Save(calls[k].delegation,
          [calls[k].session EXCEPT !.unsigned = Len(executions) + 1,
                                   !.signed = 0])
  /\ Return(k)
  /\ UNCHANGED <<backend, carts, registry, engine,
                 firstBudget, charged, lost, overlapped>>
-----------------------------------------------------------------------------
(* execute_settlement *)

\* The request names the execution id, which must be the session's.
BeginExecute(k, d, repeat) ==
  /\ \E fails \in ReadFailures : \E s \in Read(d, fails) :
       /\ s.unsigned # 0 /\ s.cart # 0
       /\ Begin(k, [at |-> "guard", delegation |-> d, session |-> s,
                    repeat |-> repeat])
       /\ failed' = (failed \/ fails)
  /\ UNCHANGED <<backend, store, documents, registry, engine,
                 firstBudget, charged, lost>>

CartOf(k) == calls[k].session.cart
ItemOf(k) == carts[CartOf(k)]
IsRemembered(i) == \E n \in 1..Len(remembered) : remembered[n] = i

\* Mutant: a purchase is recognized by its cart document.
PassesGuardOfOwnCart(k) ==
  calls[k].repeat \/ ~\E n \in 1..Len(receipts) :
                        executions[receipts[n].execution] = CartOf(k)

PassesDuplicateGuard(k) == calls[k].repeat \/ ~IsRemembered(ItemOf(k))
PassesBudgetGuard(k) == ceiling = 0 \/ spent + PriceOf(CartOf(k)) <= ceiling

\* The bundle posted before is posted again; otherwise the issued payload is
\* signed, by the agent or with the key the mesh holds.
Mandate(k) ==
  LET s == calls[k].session IN IF s.signed # 0 THEN s.signed ELSE s.unsigned
CanSign(k) ==
  LET s == calls[k].session
  IN s.signed # 0 \/ s.key \/ calls[k].delegation \notin Custodial

\* After the payout account is resolved: the guards, and the bundle goes out.
PostSettlement(k) ==
  /\ At(k, "guard")
  /\ IF PassesDuplicateGuard(k) /\ PassesBudgetGuard(k) /\ CanSign(k)
     THEN Goto(k, "posted") ELSE Return(k)
  /\ UNCHANGED <<backend, store, documents, registry, engine, history>>

Settled(x) == \E n \in 1..Len(receipts) : receipts[n].execution = x
CartSettled(c) == \E n \in 1..Len(receipts) : executions[receipts[n].execution] = c

\* The engine admits a bundle whose mandate binds the cart that came with it,
\* once per nonce and per cart, within the budget of the delegation.
SettleInEngine(k) ==
  LET d == calls[k].delegation  x == Mandate(k)  p == PriceOf(CartOf(k)) IN
  /\ At(k, "posted")
  /\ executions[x] = CartOf(k)
  /\ ~Settled(x) /\ ~CartSettled(CartOf(k))
  /\ booked[d] + p <= Budget[d]
  /\ receipts' = Append(receipts, [execution |-> x, delegation |-> d,
                                   repeat |-> calls[k].repeat, known |-> FALSE])
  /\ booked' = [booked EXCEPT ![d] = @ + p]
  /\ charged' = charged + p
  /\ Goto(k, "answered")
  /\ UNCHANGED <<backend, store, documents, registry,
                 firstBudget, lost, overlapped, failed>>

\* It may refuse any bundle: a check fails, a payment is declined.
RefuseInEngine(k) ==
  /\ At(k, "posted")
  /\ Return(k)
  /\ UNCHANGED <<backend, store, documents, registry, engine, history>>

\* The connection to the engine breaks, or the client's call is cut off.
LoseReply(k) ==
  /\ At(k, "answered") /\ "lostReply" \in Faults
  /\ lost' = lost + PriceOf(CartOf(k))
  /\ Return(k)
  /\ UNCHANGED <<backend, store, documents, registry, engine,
                 firstBudget, charged, overlapped, failed>>

\* recordSettledPurchase: at the limit the oldest entry goes, whichever it is.
Remember(i) ==
  LET kept == IF Len(remembered) >= MaxRemembered
              THEN Tail(remembered) ELSE remembered
  IN remembered' = IF \E n \in 1..Len(kept) : kept[n] = i
                   THEN kept ELSE Append(kept, i)

MarkKnown(k) ==
  receipts' = [n \in 1..Len(receipts) |->
                 IF receipts[n].execution = Mandate(k)
                 THEN [receipts[n] EXCEPT !.known = TRUE] ELSE receipts[n]]

\* The receipt arrives: purchase and spend are recorded before the next await.
RecordPurchase(k) ==
  /\ At(k, "answered")
  /\ Remember(ItemOf(k))
  /\ spent' = spent + PriceOf(CartOf(k))
  /\ MarkKnown(k)
  /\ Goto(k, "settled")
  /\ UNCHANGED <<backend, store, documents, ceiling, booked, history>>

\* Mutant: the settlement is written onto the session of the moment.
DiscardKeyFromCurrent(k) ==
  /\ At(k, "settled")
  /\ \E s \in Read(calls[k].delegation, FALSE) :
       Save(calls[k].delegation,
            [s EXCEPT !.key = FALSE, !.signed = Mandate(k), !.settled = TRUE])
  /\ Return(k)
  /\ UNCHANGED <<backend, documents, registry, engine,
                 firstBudget, charged, lost, overlapped>>

\* Mutant: the key is kept for the rest of the delegation.
KeepSessionBuyerKey(k) ==
  /\ At(k, "settled")
  /\ Save(calls[k].delegation,
          [calls[k].session EXCEPT !.signed = Mandate(k), !.settled = TRUE])
  /\ Return(k)
  /\ UNCHANGED <<backend, documents, registry, engine,
                 firstBudget, charged, lost, overlapped>>

\* After the reservation is consumed: the session read when the call began is
\* written back, without its key.
DiscardSessionBuyerKey(k) ==
  /\ At(k, "settled")
  /\ Save(calls[k].delegation,
          [calls[k].session EXCEPT !.key = FALSE, !.signed = Mandate(k),
                                   !.settled = TRUE])
  /\ Return(k)
  /\ UNCHANGED <<backend, documents, registry, engine,
                 firstBudget, charged, lost, overlapped>>

Call(k) ==
  \/ \E d \in Delegations :
       \/ EstablishDelegation(k, d)
       \/ \E i \in Items : BeginCart(k, d, i)
       \/ BeginSign(k, d)
       \/ \E repeat \in BOOLEAN : BeginExecute(k, d, repeat)
  \/ SignAndStoreCart(k) \/ IssuePayload(k)
  \/ PostSettlement(k)
  \/ SettleInEngine(k) \/ RefuseInEngine(k) \/ LoseReply(k)
  \/ RecordPurchase(k) \/ DiscardSessionBuyerKey(k)

Next == \E k \in Calls : Call(k)
Spec == Init /\ [][Next]_vars
-----------------------------------------------------------------------------
(* Properties *)

Steps == {"guard", "posted", "answered", "settled"}
CallStates ==
  {Idle}
  \cup [at: {"cart"}, delegation: Delegations, session: Sessions, item: Items]
  \cup [at: {"sign"}, delegation: Delegations, session: Sessions]
  \cup [at: Steps, delegation: Delegations, session: Sessions, repeat: BOOLEAN]
Receipts == [execution: 1..MaxExecutions, delegation: Delegations,
             repeat: BOOLEAN, known: BOOLEAN]

IsStore(f) ==
  DOMAIN f \subseteq Delegations /\ \A d \in DOMAIN f : f[d] \in Sessions

\* Every variable stays in its domain; the purchase memory stays bounded
\* (maxRememberedPurchasesPerSession) and documents are issued within bounds.
TypeOK ==
  /\ backend \in {"redis", "memory"}
  /\ IsStore(redis) /\ IsStore(memory)
  /\ carts \in Seq(Items) /\ Len(carts) <= MaxCarts
  /\ executions \in Seq(1..MaxCarts) /\ Len(executions) <= MaxExecutions
  /\ calls \in [Calls -> CallStates]
  /\ ceiling \in Nat /\ spent \in Nat
  /\ remembered \in Seq(Items) /\ Len(remembered) <= MaxRemembered
  /\ receipts \in Seq(Receipts)
  /\ booked \in [Delegations -> Nat]
  /\ firstBudget \in Nat /\ charged \in Nat /\ lost \in Nat
  /\ overlapped \in BOOLEAN /\ failed \in BOOLEAN

\* Copies of a delegation's session, wherever they are kept.
Copies(d) ==
  InMemory(d) \cup (IF d \in DOMAIN redis THEN {redis[d]} ELSE {})

\* As long as the connection's calls do not overlap, it is charged at most the
\* first budget it declared plus what it was never told of, however many
\* delegations it opens and whichever store fails (_rejectOverSessionBudget).
SessionCeilingHeld == ~overlapped => charged <= firstBudget + lost

\* When no answer is on its way, the connection's own books and the engine's
\* receipts differ by the lost answers alone, overlapping calls included.
BooksAgree ==
  (\A k \in Calls : ~At(k, "answered")) => charged = spent + lost

\* A session marked settled, wherever a copy of it is kept or in use, holds the
\* bundle of its own payload, and the engine has settled that one: executing it
\* again can only be refused, and never settles an earlier purchase instead.
IsReplay(s) == s.settled => s.signed = s.unsigned /\ Settled(s.signed)
ReplayIsOriginal ==
  /\ \A d \in Delegations : \A s \in Copies(d) : IsReplay(s)
  /\ \A k \in Calls : calls[k] # Idle => IsReplay(calls[k].session)

\* The purchase memory recognizes a repeated purchase: among the first
\* MaxRemembered + 1 settlements of a connection whose calls do not overlap,
\* none repeats one whose receipt arrived, unless the caller asked for it.
ItemSettled(n) == carts[executions[receipts[n].execution]]
NoUnwittingRepeat ==
  ~overlapped =>
    \A m, n \in 1..Len(receipts) :
      /\ m < n /\ n <= MaxRemembered + 1
      /\ ItemSettled(m) = ItemSettled(n) /\ receipts[m].known
      => receipts[n].repeat

\* A delegation authorizes a single purchase: once the receipt of one arrived,
\* nothing more is settled under it, if calls do not overlap and the store works
\* (errorDelegationAlreadySettled in the cart and signing tools).
DelegationUsedOnce ==
  ~overlapped /\ ~failed =>
    \A m, n \in 1..Len(receipts) :
      m < n /\ receipts[m].delegation = receipts[n].delegation
        => ~receipts[m].known

\* The buyer key's lifetime is the purchase: under the same conditions no copy
\* of the session holds it once the receipt arrived and the call has returned.
KeyDiesWithPurchase ==
  ~overlapped /\ ~failed =>
    \A n \in 1..Len(receipts) :
      receipts[n].known
      /\ ~(\E k \in Calls : At(k, "settled")
             /\ calls[k].delegation = receipts[n].delegation)
      => \A s \in Copies(receipts[n].delegation) : ~s.key
=============================================================================
