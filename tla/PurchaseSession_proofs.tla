----------------------- MODULE PurchaseSession_proofs -----------------------
(***************************************************************************)
(* Proofs about PurchaseSession, for any delegations, items, prices,       *)
(* budgets and calls, either store and every fault.                        *)
(***************************************************************************)
EXTENDS PurchaseSession, TLAPS

\* A session refers to documents that exist, and holds a bundle exactly when it
\* is marked settled.
Good(s) ==
  /\ s \in [key: BOOLEAN, cart: 0..Len(carts), unsigned: 0..Len(executions),
            signed: 0..Len(executions), settled: BOOLEAN]
  /\ IsReplay(s)
  /\ s.signed # 0 => s.settled

\* The bundle a call posts.
MandateOf(s) == IF s.signed # 0 THEN s.signed ELSE s.unsigned

\* A call works on a good session; one past the engine's verdict has its bundle
\* settled.
GoodCart(c) ==
  /\ c \in [at: {"cart"}, delegation: Delegations, session: Sessions, item: Items]
  /\ Good(c.session) /\ ~c.session.settled
GoodSign(c) ==
  /\ c \in [at: {"sign"}, delegation: Delegations, session: Sessions]
  /\ Good(c.session) /\ ~c.session.settled /\ c.session.cart # 0
GoodSettle(c) ==
  /\ c \in [at: Steps, delegation: Delegations, session: Sessions, repeat: BOOLEAN]
  /\ Good(c.session) /\ c.session.cart # 0 /\ c.session.unsigned # 0
  /\ c.at \in {"answered", "settled"} => Settled(MandateOf(c.session))
GoodCall(c) == c = Idle \/ GoodCart(c) \/ GoodSign(c) \/ GoodSettle(c)

GoodStore(f) == DOMAIN f \subseteq Delegations /\ \A d \in DOMAIN f : Good(f[d])

Documents ==
  /\ carts \in Seq(Items) /\ Len(carts) <= MaxCarts
  /\ executions \in Seq(1..MaxCarts) /\ Len(executions) <= MaxExecutions
  /\ receipts \in Seq(Receipts)
Sessioned ==
  /\ backend \in {"redis", "memory"}
  /\ GoodStore(redis) /\ GoodStore(memory)
  /\ DOMAIN calls = Calls /\ calls = [k \in Calls |-> calls[k]]
  /\ \A k \in Calls : GoodCall(calls[k])
Counted ==
  /\ ceiling \in Nat /\ spent \in Nat
  /\ remembered \in Seq(Items) /\ Len(remembered) <= MaxRemembered
  /\ booked \in [Delegations -> Nat]
  /\ firstBudget \in Nat /\ charged \in Nat /\ lost \in Nat
  /\ overlapped \in BOOLEAN /\ failed \in BOOLEAN

SessionInv == Documents /\ Sessioned /\ Counted
-----------------------------------------------------------------------------
(* Sessions and calls stay good while documents are only added *)

\* Documents are never withdrawn, nor a settlement undone.
Growing ==
  /\ Len(carts) <= Len(carts)' /\ Len(executions) <= Len(executions)'
  /\ \A x : Settled(x) => Settled(x)'

LEMMA GoodSessionIsSession ==
  ASSUME Documents, NEW s, Good(s)
  PROVE  s \in Sessions
  BY SessionAssumption DEF Documents, Good, Sessions

LEMMA GoodStays ==
  ASSUME Documents, Growing, NEW s, Good(s)
  PROVE  Good(s)'
  <1>1. Len(carts) \in Nat /\ Len(executions) \in Nat
    BY DEF Documents
  <1>2. s \in [key: BOOLEAN, cart: 0..Len(carts)', unsigned: 0..Len(executions)',
               signed: 0..Len(executions)', settled: BOOLEAN]
    BY <1>1 DEF Growing, Good
  <1>3. IsReplay(s)'
    BY DEF Growing, Good, IsReplay
  <1> QED BY <1>2, <1>3 DEF Good

LEMMA GoodCallStays ==
  ASSUME Documents, Growing, NEW c, GoodCall(c)
  PROVE  GoodCall(c)'
  <1>1. CASE c = Idle
    BY <1>1 DEF GoodCall
  <1>2. CASE GoodCart(c)
    BY <1>2, GoodStays DEF GoodCall, GoodCart
  <1>3. CASE GoodSign(c)
    BY <1>3, GoodStays DEF GoodCall, GoodSign
  <1>4. CASE GoodSettle(c)
    BY <1>4, GoodStays DEF GoodCall, GoodSettle, Growing
  <1> QED BY <1>1, <1>2, <1>3, <1>4 DEF GoodCall

\* Whatever read answers is a good session of a delegation.
LEMMA ReadIsGood ==
  ASSUME Sessioned, NEW d \in Delegations, NEW fails, NEW s \in Read(d, fails)
  PROVE  Good(s)
  BY DEF Sessioned, GoodStore, Read, InMemory

\* Writing a good session keeps the stores good, whether the write fails or not.
LEMMA SaveIsGood ==
  ASSUME Documents, Sessioned, Growing, NEW d \in Delegations, NEW s, Good(s)', Save(d, s)
  PROVE  GoodStore(redis)' /\ GoodStore(memory)'
  <1>1. ASSUME NEW f, GoodStore(f) PROVE GoodStore(f)' /\ GoodStore(With(f, d, s))'
    <2>1. \A e \in DOMAIN f : Good(f[e])'
      BY <1>1, GoodStays DEF GoodStore
    <2>2. DOMAIN With(f, d, s) = DOMAIN f \cup {d}
          /\ \A e \in DOMAIN f \cup {d} : With(f, d, s)[e] = IF e = d THEN s ELSE f[e]
      BY DEF With
    <2> QED BY <1>1, <2>1, <2>2 DEF GoodStore
  <1>2. GoodStore(redis) /\ GoodStore(memory)
    BY DEF Sessioned
  <1>3. redis' = redis \/ redis' = With(redis, d, s)
    BY DEF Save
  <1>4. memory' = memory \/ memory' = With(memory, d, s)
    BY DEF Save
  <1>5. ASSUME NEW g, g = redis' \/ g = memory'
        PROVE  DOMAIN g \subseteq Delegations /\ \A e \in DOMAIN g : Good(g[e])'
    <2>1. PICK f : GoodStore(f) /\ (g = f \/ g = With(f, d, s))
      BY <1>2, <1>3, <1>4, <1>5
    <2>2. GoodStore(f)' /\ GoodStore(With(f, d, s))'
      BY <1>1, <2>1
    <2>3. /\ DOMAIN f \subseteq Delegations /\ \A e \in DOMAIN f : Good(f[e])'
          /\ DOMAIN With(f, d, s) \subseteq Delegations
          /\ \A e \in DOMAIN With(f, d, s) : Good(With(f, d, s)[e])'
      BY <2>2 DEF GoodStore
    <2> QED BY <2>1, <2>3
  <1> QED BY <1>5 DEF GoodStore, Good, IsReplay

\* A step of one call leaves the others good.
LEMMA CallsStayGood ==
  ASSUME Documents, Sessioned, Growing, NEW k \in Calls, NEW c, GoodCall(c)',
         calls' = [calls EXCEPT ![k] = c]
  PROVE  /\ DOMAIN calls' = Calls /\ calls' = [j \in Calls |-> calls'[j]]
         /\ \A j \in Calls : GoodCall(calls[j])'
  <1>1. \A j \in Calls : calls'[j] = IF j = k THEN c ELSE calls[j]
    BY DEF Sessioned
  <1>2. \A j \in Calls : GoodCall(calls[j])
    BY DEF Sessioned
  <1>3. ASSUME NEW j \in Calls PROVE GoodCall(calls[j])'
    <2>1. CASE j = k
      BY <1>1, <2>1 DEF GoodCall, GoodCart, GoodSign, GoodSettle
    <2>2. CASE j # k
      <3>1. \A x : x = calls[j] => GoodCall(x)'
        BY <1>2, GoodCallStays
      <3> QED BY <1>1, <2>2, <3>1 DEF GoodCall, GoodCart, GoodSign, GoodSettle
    <2> QED BY <2>1, <2>2
  <1> QED BY <1>1, <1>3 DEF Sessioned

LEMMA StoreStays ==
  ASSUME Documents, Sessioned, Growing, UNCHANGED store
  PROVE  GoodStore(redis)' /\ GoodStore(memory)'
  <1>2. ASSUME NEW f, GoodStore(f) PROVE GoodStore(f)'
    BY <1>2, GoodStays DEF GoodStore
  <1>3. ASSUME NEW f, f = redis \/ f = memory PROVE GoodStore(f)'
    BY <1>2, <1>3 DEF Sessioned
  <1> QED BY <1>3 DEF GoodStore, Good, IsReplay, store

LEMMA DocumentsStay ==
  ASSUME Documents, UNCHANGED <<documents, receipts>>
  PROVE  Documents' /\ Growing
  BY DEF Documents, Growing, documents, Settled

\* A step that changes no document, leaves the store alone and puts call k into a good
\* state.
LEMMA CallMoves ==
  ASSUME SessionInv, UNCHANGED <<documents, receipts, store, backend>>, NEW k \in Calls,
         NEW c, GoodCall(c), calls' = [calls EXCEPT ![k] = c]
  PROVE  Documents' /\ Sessioned'
  <1>1. Documents /\ Sessioned /\ Documents' /\ Growing
    BY DocumentsStay DEF SessionInv
  <1>2. GoodCall(c)'
    BY <1>1, GoodCallStays
  <1>3. GoodStore(redis)' /\ GoodStore(memory)'
    BY <1>1, StoreStays
  <1>4. /\ DOMAIN calls' = Calls /\ calls' = [j \in Calls |-> calls'[j]]
        /\ \A j \in Calls : GoodCall(calls[j])'
    BY <1>1, <1>2, CallsStayGood
  <1> QED BY <1>1, <1>3, <1>4 DEF Sessioned

\* A call that writes a session back and returns.
LEMMA CallSaves ==
  ASSUME SessionInv, Documents', Growing, backend' = backend, NEW k \in Calls,
         NEW d \in Delegations, NEW s, Good(s)', Save(d, s), Return(k)
  PROVE  Sessioned'
  <1>1. Documents /\ Sessioned
    BY DEF SessionInv
  <1>2. GoodCall(Idle)'
    BY DEF GoodCall
  <1>3. /\ DOMAIN calls' = Calls /\ calls' = [j \in Calls |-> calls'[j]]
        /\ \A j \in Calls : GoodCall(calls[j])'
    BY <1>1, <1>2, CallsStayGood DEF Return
  <1>4. GoodStore(redis)' /\ GoodStore(memory)'
    BY <1>1, SaveIsGood
  <1> QED BY <1>1, <1>3, <1>4 DEF Sessioned

LEMMA SaveCounted ==
  ASSUME Counted, NEW d, NEW s, Save(d, s)
  PROVE  failed' \in BOOLEAN
  BY DEF Counted, Save
-----------------------------------------------------------------------------
(* One lemma per kind of call *)

LEMMA EstablishKeeps ==
  ASSUME SessionInv, NEW k \in Calls, NEW d \in Delegations, EstablishDelegation(k, d)
  PROVE  SessionInv'
  <1> DEFINE s == [key |-> d \in Custodial, cart |-> 0, unsigned |-> 0,
                   signed |-> 0, settled |-> FALSE]
  <1>1. Documents' /\ Growing /\ Documents /\ Sessioned /\ Counted
    BY DocumentsStay DEF EstablishDelegation, engine, SessionInv
  <1>2. Good(s)
    BY <1>1 DEF Good, Documents, IsReplay
  <1>3. Good(s)'
    BY <1>1, <1>2, GoodStays
  <1>4. \/ Save(d, s)
        \/ UNCHANGED <<store, failed>>
    BY DEF EstablishDelegation
  <1> HIDE DEF s
  <1>5. GoodStore(redis)' /\ GoodStore(memory)'
    BY <1>1, <1>3, <1>4, SaveIsGood, StoreStays
  <1>6. calls' = calls /\ backend' = backend
    BY DEF EstablishDelegation
  <1>7. calls' = [calls EXCEPT ![k] = calls[k]]
    BY <1>1, <1>6 DEF Sessioned
  <1>8. \A x : x = calls[k] => GoodCall(x)'
    BY <1>1, GoodCallStays DEF Sessioned
  <1>9. /\ DOMAIN calls' = Calls /\ calls' = [j \in Calls |-> calls'[j]]
        /\ \A j \in Calls : GoodCall(calls[j])'
    BY <1>1, <1>7, <1>8, CallsStayGood
  <1>10. Sessioned'
    BY <1>1, <1>5, <1>6, <1>9 DEF Sessioned
  <1>11. failed' \in BOOLEAN
    BY <1>1, <1>4, SaveCounted DEF Counted
  <1>12. Budget[d] \in Nat
    BY SessionAssumption
  <1>13. Counted'
    BY <1>1, <1>11, <1>12 DEF EstablishDelegation, DeclareSessionCeiling, Counted, engine
  <1> QED BY <1>1, <1>10, <1>13 DEF SessionInv

\* A call begins on a copy it has read.
LEMMA BeginKeeps ==
  ASSUME SessionInv, NEW k \in Calls, NEW c, GoodCall(c), Begin(k, c),
         UNCHANGED <<backend, store, documents, registry, engine, firstBudget, charged, lost>>,
         failed' \in BOOLEAN
  PROVE  SessionInv'
  <1>1. Documents' /\ Sessioned'
    BY CallMoves DEF Begin, engine
  <1>2. Counted'
    BY DEF SessionInv, Counted, Begin, registry, engine
  <1> QED BY <1>1, <1>2 DEF SessionInv

LEMMA BeginCallsKeep ==
  ASSUME SessionInv, NEW k \in Calls, NEW d \in Delegations,
         \/ \E i \in Items : BeginCart(k, d, i)
         \/ BeginSign(k, d)
         \/ \E repeat \in BOOLEAN : BeginExecute(k, d, repeat)
  PROVE  SessionInv'
  <1>1. Documents /\ Sessioned /\ Counted
    BY DEF SessionInv
  <1>2. ASSUME NEW fails \in ReadFailures, NEW s \in Read(d, fails)
        PROVE  Good(s) /\ s \in Sessions /\ (failed \/ fails) \in BOOLEAN
    <2>1. Good(s)
      BY <1>1, ReadIsGood
    <2> QED BY <1>1, <2>1, GoodSessionIsSession
  <1>3. CASE \E i \in Items : BeginCart(k, d, i)
    <2>0. PICK i \in Items : BeginCart(k, d, i)
      BY <1>3
    <2>a. PICK fails \in ReadFailures : \E s \in Read(d, fails) :
            /\ ~s.settled
            /\ Begin(k, [at |-> "cart", delegation |-> d, session |-> s, item |-> i])
            /\ failed' = (failed \/ fails)
      BY <2>0 DEF BeginCart
    <2>1. PICK s \in Read(d, fails) :
            /\ ~s.settled
            /\ Begin(k, [at |-> "cart", delegation |-> d, session |-> s, item |-> i])
            /\ failed' = (failed \/ fails)
      BY <2>a
    <2> DEFINE c == [at |-> "cart", delegation |-> d, session |-> s, item |-> i]
    <2>2. GoodCall(c)
      BY <1>2, <2>1 DEF GoodCall, GoodCart
    <2>3. Begin(k, c) /\ failed' \in BOOLEAN
      BY <1>2, <2>1
    <2> HIDE DEF c
    <2> QED BY <2>0, <2>2, <2>3, BeginKeeps DEF BeginCart
  <1>4. CASE BeginSign(k, d)
    <2>0. PICK fails \in ReadFailures : \E s \in Read(d, fails) :
            /\ ~s.settled /\ s.cart # 0
            /\ Begin(k, [at |-> "sign", delegation |-> d, session |-> s])
            /\ failed' = (failed \/ fails)
      BY <1>4 DEF BeginSign
    <2>1. PICK s \in Read(d, fails) :
            /\ ~s.settled /\ s.cart # 0
            /\ Begin(k, [at |-> "sign", delegation |-> d, session |-> s])
            /\ failed' = (failed \/ fails)
      BY <2>0
    <2> DEFINE c == [at |-> "sign", delegation |-> d, session |-> s]
    <2>2. GoodCall(c)
      BY <1>2, <2>1 DEF GoodCall, GoodSign
    <2>3. Begin(k, c) /\ failed' \in BOOLEAN
      BY <1>2, <2>1
    <2> HIDE DEF c
    <2> QED BY <1>4, <2>2, <2>3, BeginKeeps DEF BeginSign
  <1>5. CASE \E repeat \in BOOLEAN : BeginExecute(k, d, repeat)
    <2>0. PICK repeat \in BOOLEAN : BeginExecute(k, d, repeat)
      BY <1>5
    <2>a. PICK fails \in ReadFailures : \E s \in Read(d, fails) :
            /\ s.unsigned # 0 /\ s.cart # 0
            /\ Begin(k, [at |-> "guard", delegation |-> d, session |-> s,
                         repeat |-> repeat])
            /\ failed' = (failed \/ fails)
      BY <2>0 DEF BeginExecute
    <2>1. PICK s \in Read(d, fails) :
            /\ s.unsigned # 0 /\ s.cart # 0
            /\ Begin(k, [at |-> "guard", delegation |-> d, session |-> s,
                         repeat |-> repeat])
            /\ failed' = (failed \/ fails)
      BY <2>a
    <2> DEFINE c == [at |-> "guard", delegation |-> d, session |-> s, repeat |-> repeat]
    <2>2. GoodCall(c)
      BY <1>2, <2>1 DEF GoodCall, GoodSettle, Steps
    <2>3. Begin(k, c) /\ failed' \in BOOLEAN
      BY <1>2, <2>1
    <2> HIDE DEF c
    <2> QED BY <2>0, <2>2, <2>3, BeginKeeps DEF BeginExecute
  <1> QED BY <1>3, <1>4, <1>5

\* A call that holds a cart to sign holds a good session of its delegation.
LEMMA AtCart ==
  ASSUME SessionInv, NEW k \in Calls, At(k, "cart")
  PROVE  GoodCart(calls[k])
  BY DEF SessionInv, Sessioned, At, GoodCall, GoodSign, GoodSettle, Idle, Steps

LEMMA AtSign ==
  ASSUME SessionInv, NEW k \in Calls, At(k, "sign")
  PROVE  GoodSign(calls[k])
  BY DEF SessionInv, Sessioned, At, GoodCall, GoodCart, GoodSettle, Idle, Steps

LEMMA AtSteps ==
  ASSUME SessionInv, NEW k \in Calls, NEW l \in Steps, At(k, l)
  PROVE  GoodSettle(calls[k]) /\ calls[k].at = l
  BY DEF SessionInv, Sessioned, At, GoodCall, GoodCart, GoodSign, Idle, Steps

LEMMA SignAndStoreCartKeeps ==
  ASSUME SessionInv, NEW k \in Calls, SignAndStoreCart(k)
  PROVE  SessionInv'
  <1>0. PICK d, s :
          /\ d = calls[k].delegation
          /\ s = [calls[k].session EXCEPT !.cart = Len(carts) + 1, !.signed = 0,
                                          !.settled = FALSE]
    OBVIOUS
  <1>1. Documents /\ Sessioned /\ Counted
    BY DEF SessionInv
  <1>2. /\ d \in Delegations /\ calls[k].item \in Items /\ Good(calls[k].session)
    BY <1>0, AtCart DEF SignAndStoreCart, GoodCart
  <1>3. /\ carts' \in Seq(Items) /\ Len(carts') = Len(carts) + 1
        /\ executions' = executions /\ receipts' = receipts
    BY <1>1, <1>2 DEF SignAndStoreCart, Documents, engine
  <1>4. Documents' /\ Growing
    <2>1. Len(carts) < MaxCarts /\ Len(carts) \in Nat /\ MaxCarts \in Nat
      BY <1>1, SessionAssumption DEF SignAndStoreCart, Documents
    <2>2. \A x : Settled(x) => Settled(x)'
      BY <1>3 DEF Settled
    <2> QED BY <1>1, <1>3, <2>1, <2>2 DEF Documents, Growing
  <1>5. Good(s)'
    <2>1. Len(carts) \in Nat /\ Len(executions) \in Nat
      BY <1>1 DEF Documents
    <2>2. PICK r : r = calls[k].session /\ Good(r)
      BY <1>2
    <2>3. r = [key |-> r.key, cart |-> r.cart, unsigned |-> r.unsigned,
               signed |-> r.signed, settled |-> r.settled]
          /\ r.key \in BOOLEAN /\ r.unsigned \in 0..Len(executions)
      BY <2>2 DEF Good
    <2>4. s = [key |-> r.key, cart |-> Len(carts) + 1, unsigned |-> r.unsigned,
               signed |-> 0, settled |-> FALSE]
      BY <1>0, <2>2, <2>3
    <2>5. s \in [key: BOOLEAN, cart: 0..Len(carts'), unsigned: 0..Len(executions'),
                 signed: 0..Len(executions'), settled: BOOLEAN]
      BY <1>3, <2>1, <2>3, <2>4
    <2>6. ~s.settled /\ s.signed = 0
      BY <2>4
    <2> QED BY <2>5, <2>6 DEF Good, IsReplay
  <1>6. Save(d, s) /\ Return(k) /\ backend' = backend
    BY <1>0 DEF SignAndStoreCart
  <1>7. Sessioned'
    BY <1>2, <1>4, <1>5, <1>6, CallSaves
  <1>8. Counted'
    BY <1>1, <1>6, SaveCounted DEF SignAndStoreCart, Counted, registry, engine
  <1> QED BY <1>4, <1>7, <1>8 DEF SessionInv

LEMMA IssuePayloadKeeps ==
  ASSUME SessionInv, NEW k \in Calls, IssuePayload(k)
  PROVE  SessionInv'
  <1>0. PICK d, s :
          /\ d = calls[k].delegation
          /\ s = [calls[k].session EXCEPT !.unsigned = Len(executions) + 1,
                                          !.signed = 0]
    OBVIOUS
  <1>1. Documents /\ Sessioned /\ Counted
    BY DEF SessionInv
  <1>2. /\ d \in Delegations /\ Good(calls[k].session) /\ ~calls[k].session.settled
        /\ calls[k].session.cart # 0
    BY <1>0, AtSign DEF IssuePayload, GoodSign
  <1>3. calls[k].session.cart \in 1..MaxCarts
    BY <1>1, <1>2, SessionAssumption DEF Good, Documents
  <1>4. /\ executions' \in Seq(1..MaxCarts) /\ Len(executions') = Len(executions) + 1
        /\ carts' = carts /\ receipts' = receipts
    BY <1>1, <1>3 DEF IssuePayload, Documents, engine
  <1>5. Documents' /\ Growing
    <2>1. Len(executions) < MaxExecutions /\ Len(executions) \in Nat /\ MaxExecutions \in Nat
      BY <1>1, SessionAssumption DEF IssuePayload, Documents
    <2>2. \A x : Settled(x) => Settled(x)'
      BY <1>4 DEF Settled
    <2> QED BY <1>1, <1>4, <2>1, <2>2 DEF Documents, Growing
  <1>6. Good(s)'
    <2>1. Len(carts) \in Nat /\ Len(executions) \in Nat
      BY <1>1 DEF Documents
    <2>2. PICK r : r = calls[k].session /\ Good(r) /\ ~r.settled
      BY <1>2
    <2>3. r = [key |-> r.key, cart |-> r.cart, unsigned |-> r.unsigned,
               signed |-> r.signed, settled |-> r.settled]
          /\ r.key \in BOOLEAN /\ r.cart \in 0..Len(carts) /\ r.settled = FALSE
      BY <2>2 DEF Good
    <2>4. s = [key |-> r.key, cart |-> r.cart, unsigned |-> Len(executions) + 1,
               signed |-> 0, settled |-> FALSE]
      BY <1>0, <2>2, <2>3
    <2>5. s \in [key: BOOLEAN, cart: 0..Len(carts'), unsigned: 0..Len(executions'),
                 signed: 0..Len(executions'), settled: BOOLEAN]
      BY <1>4, <2>1, <2>3, <2>4
    <2>6. ~s.settled /\ s.signed = 0
      BY <2>4
    <2> QED BY <2>5, <2>6 DEF Good, IsReplay
  <1>7. Save(d, s) /\ Return(k) /\ backend' = backend
    BY <1>0 DEF IssuePayload
  <1>8. Sessioned'
    BY <1>2, <1>5, <1>6, <1>7, CallSaves
  <1>9. Counted'
    BY <1>1, <1>7, SaveCounted DEF IssuePayload, Counted, registry, engine
  <1> QED BY <1>5, <1>8, <1>9 DEF SessionInv

\* The guards send a call on, or end it.
LEMMA PostKeeps ==
  ASSUME SessionInv, NEW k \in Calls, PostSettlement(k)
  PROVE  SessionInv'
  <1>1. GoodSettle(calls[k])
    BY AtSteps DEF PostSettlement, Steps
  <1>2. GoodCall([calls[k] EXCEPT !.at = "posted"]) /\ GoodCall(Idle)
    BY <1>1 DEF GoodCall, GoodSettle, Steps
  <1>3. \/ calls' = [calls EXCEPT ![k] = [calls[k] EXCEPT !.at = "posted"]]
        \/ calls' = [calls EXCEPT ![k] = Idle]
    BY DEF PostSettlement, Goto, Return, SessionInv, Sessioned
  <1>4. UNCHANGED <<documents, receipts, store, backend>>
    BY DEF PostSettlement, engine
  <1>5. Documents' /\ Sessioned'
    BY <1>2, <1>3, <1>4, CallMoves
  <1>6. Counted'
    BY DEF SessionInv, Counted, PostSettlement, registry, engine, history
  <1> QED BY <1>5, <1>6 DEF SessionInv

LEMMA EndsKeep ==
  ASSUME SessionInv, NEW k \in Calls, RefuseInEngine(k) \/ LoseReply(k)
  PROVE  SessionInv'
  <1>1. GoodCall(Idle)
    BY DEF GoodCall
  <1>2. UNCHANGED <<documents, receipts, store, backend>> /\ Return(k)
    BY DEF RefuseInEngine, LoseReply, engine
  <1>3. Documents' /\ Sessioned'
    BY <1>1, <1>2, CallMoves DEF Return
  <1>4. lost' \in Nat
    <2>1. CASE RefuseInEngine(k)
      BY <2>1 DEF SessionInv, Counted, RefuseInEngine, history
    <2>2. CASE LoseReply(k)
      <3>1. GoodSettle(calls[k])
        BY <2>2, AtSteps DEF LoseReply, Steps
      <3>2. PriceOf(CartOf(k)) \in Nat
        BY <3>1, SessionAssumption DEF SessionInv, Documents, GoodSettle, Good, PriceOf, CartOf
      <3> QED BY <2>2, <3>2 DEF SessionInv, Counted, LoseReply
    <2> QED BY <2>1, <2>2
  <1>5. Counted'
    BY <1>4 DEF SessionInv, Counted, RefuseInEngine, LoseReply, registry, engine, history
  <1> QED BY <1>3, <1>5 DEF SessionInv

\* The bundle and the price of a call on its way through the engine.
LEMMA Posting ==
  ASSUME SessionInv, NEW k \in Calls, GoodSettle(calls[k])
  PROVE  /\ Mandate(k) = MandateOf(calls[k].session)
         /\ Mandate(k) \in 1..Len(executions) /\ Mandate(k) \in 1..MaxExecutions
         /\ calls[k].delegation \in Delegations /\ CartOf(k) \in 1..Len(carts)
         /\ ItemOf(k) \in Items /\ PriceOf(CartOf(k)) \in Nat \ {0}
  <1>1. Mandate(k) \in 1..Len(executions) /\ CartOf(k) \in 1..Len(carts)
        /\ calls[k].delegation \in Delegations
    BY DEF GoodSettle, Good, Mandate, CartOf, SessionInv, Documents
  <1>2. /\ Len(executions) \in Nat /\ Len(executions) <= MaxExecutions
        /\ carts \in Seq(Items)
    BY DEF SessionInv, Documents
  <1>3. ItemOf(k) \in Items
    BY <1>1, <1>2 DEF ItemOf
  <1>4. PriceOf(CartOf(k)) \in Nat \ {0}
    BY <1>3, SessionAssumption DEF PriceOf, ItemOf
  <1> QED BY <1>1, <1>2, <1>3, <1>4, SessionAssumption DEF Mandate, MandateOf

LEMMA SettleKeeps ==
  ASSUME SessionInv, NEW k \in Calls, SettleInEngine(k)
  PROVE  SessionInv'
  <1>1. Documents /\ Sessioned /\ Counted
    BY DEF SessionInv
  <1>2. GoodSettle(calls[k])
    BY AtSteps DEF SettleInEngine, Steps
  <1>3. PICK x, d, p, c :
          /\ x = Mandate(k) /\ d = calls[k].delegation /\ p = PriceOf(CartOf(k))
          /\ c = [calls[k] EXCEPT !.at = "answered"]
    OBVIOUS
  <1>4. x \in 1..MaxExecutions /\ d \in Delegations /\ p \in Nat
    BY <1>2, <1>3, Posting
  <1>5. receipts' = Append(receipts, [execution |-> x, delegation |-> d,
                                      repeat |-> calls[k].repeat, known |-> FALSE])
        /\ booked' = [booked EXCEPT ![d] = @ + p] /\ charged' = charged + p
        /\ calls' = [calls EXCEPT ![k] = c]
    BY <1>3 DEF SettleInEngine, Goto
  <1>6. calls[k].repeat \in BOOLEAN
    BY <1>2 DEF GoodSettle
  <1>7. receipts' \in Seq(Receipts) /\ Len(receipts') = Len(receipts) + 1
        /\ receipts'[Len(receipts')].execution = x
        /\ \A n \in 1..Len(receipts) : receipts'[n] = receipts[n]
    BY <1>1, <1>4, <1>5, <1>6 DEF Documents, Receipts
  <1>8. Len(receipts) \in Nat
    BY <1>1 DEF Documents
  <1>9. Settled(x)' /\ \A y : Settled(y) => Settled(y)'
    <2>1. ASSUME NEW y PROVE Settled(y)' <=> \E n \in 1..Len(receipts') : receipts'[n].execution = y
      BY DEF Settled
    <2>2. Len(receipts') \in 1..Len(receipts') /\ 1..Len(receipts) \subseteq 1..Len(receipts')
      BY <1>7, <1>8
    <2>3. \E n \in 1..Len(receipts') : receipts'[n].execution = x
      BY <1>7, <2>2
    <2>4. ASSUME NEW y, Settled(y) PROVE Settled(y)'
      BY <1>7, <2>1, <2>2, <2>4 DEF Settled
    <2> QED BY <2>1, <2>3, <2>4
  <1>10. Documents' /\ Growing
    BY <1>1, <1>7, <1>9 DEF SettleInEngine, documents, Documents, Growing
  <1>11. UNCHANGED store /\ UNCHANGED documents /\ backend' = backend
    BY DEF SettleInEngine
  <1>12. GoodCall(c)'
    <2>1. Good(calls[k].session)
      BY <1>2 DEF GoodSettle
    <2>2. PICK r : r = calls[k].session /\ Good(r) /\ r.cart # 0 /\ r.unsigned # 0
      BY <1>2 DEF GoodSettle
    <2>3. Good(r)'
      BY <1>1, <1>10, <2>2, GoodStays
    <2>4. c = [at |-> "answered", delegation |-> d, session |-> r, repeat |-> calls[k].repeat]
      BY <1>2, <1>3, <2>2 DEF GoodSettle
    <2>5. r \in Sessions
      BY <1>1, <2>2, GoodSessionIsSession
    <2>6. MandateOf(r) = x
      BY <1>2, <1>3, <2>2, Posting
    <2>7. Settled(MandateOf(r))'
      BY <1>9, <2>6 DEF Settled, MandateOf
    <2> QED BY <1>4, <1>6, <2>2, <2>3, <2>4, <2>5, <2>7 DEF GoodCall, GoodSettle, Steps
  <1>13. GoodStore(redis)' /\ GoodStore(memory)'
    BY <1>1, <1>10, <1>11, StoreStays
  <1>14. /\ DOMAIN calls' = Calls /\ calls' = [j \in Calls |-> calls'[j]]
         /\ \A j \in Calls : GoodCall(calls[j])'
    BY <1>1, <1>5, <1>10, <1>12, CallsStayGood
  <1>15. Sessioned'
    BY <1>1, <1>11, <1>13, <1>14 DEF Sessioned
  <1>16. booked' \in [Delegations -> Nat] /\ charged' \in Nat
    BY <1>1, <1>4, <1>5 DEF Counted
  <1>17. Counted'
    BY <1>1, <1>16 DEF SettleInEngine, Counted, registry
  <1> QED BY <1>10, <1>15, <1>17 DEF SessionInv

\* What Remember leaves is bounded and holds keys of carts.
LEMMA RememberBounded ==
  ASSUME Counted, NEW i \in Items, Remember(i)
  PROVE  remembered' \in Seq(Items) /\ Len(remembered') <= MaxRemembered
  <1>1. remembered \in Seq(Items) /\ Len(remembered) <= MaxRemembered
    BY DEF Counted
  <1>2. PICK kept : kept = IF Len(remembered) >= MaxRemembered
                           THEN Tail(remembered) ELSE remembered
    OBVIOUS
  <1>3. MaxRemembered \in Nat \ {0}
    BY SessionAssumption
  <1>4. kept \in Seq(Items) /\ Len(kept) < MaxRemembered
    BY <1>1, <1>2, <1>3
  <1>5. remembered' = kept \/ remembered' = Append(kept, i)
    BY <1>2 DEF Remember
  <1> QED BY <1>3, <1>4, <1>5

LEMMA RecordKeeps ==
  ASSUME SessionInv, NEW k \in Calls, RecordPurchase(k)
  PROVE  SessionInv'
  <1>1. Documents /\ Sessioned /\ Counted
    BY DEF SessionInv
  <1>2. GoodSettle(calls[k]) /\ calls[k].at = "answered"
    BY AtSteps DEF RecordPurchase, Steps
  <1>3. PICK c : c = [calls[k] EXCEPT !.at = "settled"]
    OBVIOUS
  <1>4. ItemOf(k) \in Items /\ PriceOf(CartOf(k)) \in Nat
    BY <1>2, Posting
  <1>5. calls' = [calls EXCEPT ![k] = c] /\ backend' = backend /\ UNCHANGED store
        /\ UNCHANGED documents
    BY <1>3 DEF RecordPurchase, Goto
  <1>6. DOMAIN receipts = 1..Len(receipts) /\ Len(receipts) \in Nat
        /\ \A n \in 1..Len(receipts) : receipts[n] \in Receipts
    BY <1>1 DEF Documents
  <1>7. receipts' = [n \in 1..Len(receipts) |->
                       IF receipts[n].execution = Mandate(k)
                       THEN [receipts[n] EXCEPT !.known = TRUE] ELSE receipts[n]]
    BY DEF RecordPurchase, MarkKnown
  <1>8. \A n \in 1..Len(receipts) :
          receipts'[n] \in Receipts /\ receipts'[n].execution = receipts[n].execution
    BY <1>6, <1>7 DEF Receipts
  <1>9. receipts' \in Seq(Receipts) /\ Len(receipts') = Len(receipts)
    <2>1. receipts' \in [1..Len(receipts) -> Receipts]
      BY <1>7, <1>8
    <2> QED BY <1>6, <2>1
  <1>10. \A x : Settled(x) <=> Settled(x)'
    BY <1>8, <1>9 DEF Settled
  <1>11. Documents' /\ Growing
    BY <1>1, <1>5, <1>9, <1>10 DEF documents, Documents, Growing
  <1>12. GoodCall(c)
    BY <1>2, <1>3 DEF GoodCall, GoodSettle, Steps
  <1>13. GoodCall(c)'
    BY <1>1, <1>11, <1>12, GoodCallStays
  <1>14. GoodStore(redis)' /\ GoodStore(memory)'
    BY <1>1, <1>5, <1>11, StoreStays
  <1>15. /\ DOMAIN calls' = Calls /\ calls' = [j \in Calls |-> calls'[j]]
         /\ \A j \in Calls : GoodCall(calls[j])'
    BY <1>1, <1>5, <1>11, <1>13, CallsStayGood
  <1>16. Sessioned'
    BY <1>1, <1>5, <1>14, <1>15 DEF Sessioned
  <1>17. remembered' \in Seq(Items) /\ Len(remembered') <= MaxRemembered
    BY <1>1, <1>4, RememberBounded DEF RecordPurchase
  <1>18. spent' \in Nat
    BY <1>1, <1>4 DEF RecordPurchase, Counted
  <1>19. Counted'
    BY <1>1, <1>17, <1>18 DEF RecordPurchase, Counted, history
  <1> QED BY <1>11, <1>16, <1>19 DEF SessionInv

LEMMA DiscardKeeps ==
  ASSUME SessionInv, NEW k \in Calls, DiscardSessionBuyerKey(k)
  PROVE  SessionInv'
  <1>1. Documents /\ Sessioned /\ Counted
    BY DEF SessionInv
  <1>2. GoodSettle(calls[k]) /\ calls[k].at = "settled"
    BY AtSteps DEF DiscardSessionBuyerKey, Steps
  <1>3. PICK r, d : r = calls[k].session /\ d = calls[k].delegation
    OBVIOUS
  <1>4. Good(r) /\ d \in Delegations /\ Settled(MandateOf(r)) /\ r.unsigned # 0
    BY <1>2, <1>3 DEF GoodSettle
  <1>5. PICK s : s = [r EXCEPT !.key = FALSE, !.signed = Mandate(k), !.settled = TRUE]
    OBVIOUS
  <1>6. Documents' /\ Growing
    BY <1>1, DocumentsStay DEF DiscardSessionBuyerKey, engine
  <1>7. Mandate(k) = MandateOf(r) /\ MandateOf(r) = r.unsigned
        /\ r.unsigned \in 0..Len(executions)
    <2>1. r.signed # 0 => r.signed = r.unsigned
      BY <1>4 DEF Good, IsReplay
    <2> QED BY <1>2, <1>3, <1>4, <2>1, Posting DEF MandateOf, Good
  <1>8. Good(s)
    <2>1. r = [key |-> r.key, cart |-> r.cart, unsigned |-> r.unsigned,
               signed |-> r.signed, settled |-> r.settled] /\ r.cart \in 0..Len(carts)
      BY <1>4 DEF Good
    <2>2. s = [key |-> FALSE, cart |-> r.cart, unsigned |-> r.unsigned,
               signed |-> r.unsigned, settled |-> TRUE]
      BY <1>5, <1>7, <2>1
    <2>3. Settled(s.signed) /\ s.signed = s.unsigned
      BY <1>4, <1>7, <2>2
    <2>4. s \in [key: BOOLEAN, cart: 0..Len(carts), unsigned: 0..Len(executions),
                 signed: 0..Len(executions), settled: BOOLEAN] /\ s.settled
      BY <1>7, <2>1, <2>2
    <2> QED BY <2>3, <2>4 DEF Good, IsReplay
  <1>9. Good(s)'
    BY <1>1, <1>6, <1>8, GoodStays
  <1>10. Save(d, s) /\ Return(k) /\ backend' = backend
    BY <1>3, <1>5 DEF DiscardSessionBuyerKey
  <1>11. Sessioned'
    BY <1>4, <1>6, <1>9, <1>10, CallSaves
  <1>12. Counted'
    BY <1>1, <1>10, SaveCounted DEF DiscardSessionBuyerKey, Counted, registry, engine
  <1> QED BY <1>6, <1>11, <1>12 DEF SessionInv
-----------------------------------------------------------------------------
(* The theorems *)

LEMMA SessionInitially == Init => SessionInv
  <1> SUFFICES ASSUME Init PROVE SessionInv
    OBVIOUS
  <1>1. Documents
    BY SessionAssumption DEF Init, Documents
  <1>2. Sessioned
    BY DEF Init, Sessioned, GoodStore, GoodCall
  <1>3. Counted
    <2>1. remembered \in Seq(Items) /\ Len(remembered) = 0
      BY DEF Init
    <2>2. Len(remembered) <= MaxRemembered
      BY <2>1, SessionAssumption
    <2> QED BY <2>1, <2>2 DEF Init, Counted
  <1> QED BY <1>1, <1>2, <1>3 DEF SessionInv

LEMMA SessionNext == SessionInv /\ [Next]_vars => SessionInv'
  <1> SUFFICES ASSUME SessionInv, [Next]_vars PROVE SessionInv'
    OBVIOUS
  <1>1. CASE UNCHANGED vars
    <2>1. UNCHANGED <<documents, receipts, store, backend, calls>>
      BY <1>1 DEF vars, engine
    <2>2. Documents' /\ Growing /\ Documents /\ Sessioned
      BY <2>1, DocumentsStay DEF SessionInv
    <2>3. GoodStore(redis)' /\ GoodStore(memory)'
      BY <2>1, <2>2, StoreStays
    <2>4. ASSUME NEW j \in Calls PROVE GoodCall(calls[j])'
      <3>1. \A x : x = calls[j] => GoodCall(x)'
        BY <2>2, GoodCallStays DEF Sessioned
      <3> QED BY <2>1, <3>1 DEF GoodCall, GoodCart, GoodSign, GoodSettle
    <2>5. Sessioned'
      BY <2>1, <2>2, <2>3, <2>4 DEF Sessioned
    <2>6. Counted'
      BY <1>1 DEF SessionInv, Counted, vars, registry, engine, history
    <2> QED BY <2>2, <2>5, <2>6 DEF SessionInv
  <1>2. CASE Next
    <2>1. PICK k \in Calls : Call(k)
      BY <1>2 DEF Next
    <2>2. CASE \E d \in Delegations : EstablishDelegation(k, d)
      BY <2>2, EstablishKeeps
    <2>3. CASE \E d \in Delegations : \/ \E i \in Items : BeginCart(k, d, i)
                                      \/ BeginSign(k, d)
                                      \/ \E repeat \in BOOLEAN : BeginExecute(k, d, repeat)
      BY <2>3, BeginCallsKeep
    <2>4. CASE SignAndStoreCart(k) \/ IssuePayload(k)
      BY <2>4, SignAndStoreCartKeeps, IssuePayloadKeeps
    <2>5. CASE PostSettlement(k) \/ RefuseInEngine(k) \/ LoseReply(k)
      BY <2>5, PostKeeps, EndsKeep
    <2>6. CASE SettleInEngine(k) \/ RecordPurchase(k) \/ DiscardSessionBuyerKey(k)
      BY <2>6, SettleKeeps, RecordKeeps, DiscardKeeps
    <2> QED BY <2>1, <2>2, <2>3, <2>4, <2>5, <2>6 DEF Call
  <1> QED BY <1>1, <1>2

\* Sessions, calls, documents and counters stay in their domains, whatever fails and
\* however calls overlap; the purchase memory stays within its limit.
THEOREM SessionTypeCorrect == Spec => []TypeOK
  <1>1. SessionInv => TypeOK
    <2> SUFFICES ASSUME SessionInv PROVE TypeOK
      OBVIOUS
    <2>1. Documents /\ Sessioned /\ Counted
      BY DEF SessionInv
    <2>2. IsStore(redis) /\ IsStore(memory)
      BY <2>1, GoodSessionIsSession DEF Sessioned, GoodStore, IsStore
    <2>3. ASSUME NEW k \in Calls PROVE calls[k] \in CallStates
      BY <2>1 DEF Sessioned, GoodCall, GoodCart, GoodSign, GoodSettle, CallStates
    <2>4. calls \in [Calls -> CallStates]
      BY <2>1, <2>3 DEF Sessioned
    <2> QED BY <2>1, <2>2, <2>4 DEF Documents, Sessioned, Counted, TypeOK
  <1> QED BY <1>1, SessionInitially, SessionNext, PTL DEF Spec

\* A settled delegation only ever replays its own settled bundle: the copy of the session
\* that execute_settlement writes back, however old, cannot settle anything else.
THEOREM SettledSessionReplays == Spec => []ReplayIsOriginal
  <1>1. SessionInv => ReplayIsOriginal
    <2> SUFFICES ASSUME SessionInv PROVE ReplayIsOriginal
      OBVIOUS
    <2>1. Sessioned
      BY DEF SessionInv
    <2>2. \A d \in Delegations : \A s \in Copies(d) : IsReplay(s)
      BY <2>1 DEF Sessioned, GoodStore, Copies, InMemory, Good
    <2>3. \A k \in Calls : calls[k] # Idle => IsReplay(calls[k].session)
      BY <2>1 DEF Sessioned, GoodCall, GoodCart, GoodSign, GoodSettle, Good
    <2> QED BY <2>2, <2>3 DEF ReplayIsOriginal
  <1> QED BY <1>1, SessionInitially, SessionNext, PTL DEF Spec
-----------------------------------------------------------------------------
(* The budget of a connection whose calls do not overlap.  A call may be        *)
(* posted under a budget that a later pairing lowers, so the bound is the first *)
(* one; between the engine's verdict and its record the books owe one price.    *)

Ceiling ==
  /\ ceiling <= firstBudget /\ (ceiling = 0 => firstBudget = 0)
  /\ ceiling = 0 => /\ DOMAIN redis = {} /\ DOMAIN memory = {}
                    /\ \A k \in Calls : calls[k] = Idle

OnlyCall(k) == \A j \in Calls \ {k} : calls[j] = Idle
Alone == \A k \in Calls : calls[k] # Idle => OnlyCall(k)
Owing(k) == IF At(k, "answered") THEN PriceOf(CartOf(k)) ELSE 0
AccountOf(k) ==
  /\ spent <= firstBudget
  /\ At(k, "posted") \/ At(k, "answered") => spent + PriceOf(CartOf(k)) <= firstBudget
  /\ Owing(k) \in Nat /\ charged = spent + lost + Owing(k)
Accounts ==
  /\ Alone /\ charged <= firstBudget + lost
  /\ \A k \in Calls : OnlyCall(k) => AccountOf(k)

BudgetInv == Ceiling /\ (~overlapped => Accounts)

\* The accounts of the only call that may be in flight are those of the connection.
LEMMA AccountsOfOne ==
  ASSUME SessionInv', NEW k \in Calls, OnlyCall(k)', AccountOf(k)'
  PROVE  Accounts'
  <1>1. \A j \in Calls \ {k} :
          (calls[j] = Idle)' /\ ~At(j, "posted")' /\ ~At(j, "answered")'
    BY DEF OnlyCall, At, Idle
  <1>2. Alone'
    BY <1>1 DEF Alone, OnlyCall
  <1>3. (spent \in Nat)' /\ (lost \in Nat)' /\ (charged \in Nat)' /\ (firstBudget \in Nat)'
    BY DEF SessionInv, Counted
  <1>4. charged' <= firstBudget' + lost'
    <2>1. CASE At(k, "answered")'
      <3>1. PICK p \in Nat : p = Owing(k)'
        BY DEF AccountOf
      <3>2. spent' + p <= firstBudget' /\ charged' = spent' + lost' + p
        BY <1>3, <2>1, <3>1 DEF AccountOf, Owing
      <3> QED BY <1>3, <3>1, <3>2
    <2>2. CASE ~At(k, "answered")'
      <3>1. PICK s \in Nat, l \in Nat, c \in Nat, f \in Nat :
              s = spent' /\ l = lost' /\ c = charged' /\ f = firstBudget'
        BY <1>3
      <3>2. c = s + l + 0 /\ s <= f
        BY <2>2, <3>1 DEF AccountOf, Owing
      <3>3. c <= f + l
        BY <3>2
      <3> QED BY <3>1, <3>3
    <2> QED BY <2>1, <2>2
  <1>5. ASSUME NEW j \in Calls, OnlyCall(j)' PROVE AccountOf(j)'
    <2>1. CASE j = k
      BY <2>1
    <2>2. CASE j # k
      <3>1. (calls[k] = Idle)'
        BY <1>5, <2>2 DEF OnlyCall
      <3>2. ~At(k, "answered")' /\ ~At(j, "answered")' /\ ~At(j, "posted")'
        BY <1>1, <2>2, <3>1 DEF At, Idle
      <3> QED BY <3>2 DEF AccountOf, Owing
    <2> QED BY <2>1, <2>2
  <1> QED BY <1>2, <1>4, <1>5 DEF Accounts

\* The call that takes a step is the only one in flight, before and after it.
LEMMA StepsAlone ==
  ASSUME SessionInv, ~overlapped => Accounts, NEW k \in Calls, ~overlapped',
         \/ calls[k] # Idle /\ overlapped' = overlapped
         \/ overlapped' = (overlapped \/ Busy(k)),
         NEW c, calls' = [calls EXCEPT ![k] = c]
  PROVE  OnlyCall(k) /\ AccountOf(k) /\ OnlyCall(k)' /\ calls'[k] = c
  <1>1. ~overlapped /\ Accounts
    BY DEF SessionInv, Counted
  <1>2. OnlyCall(k)
    BY <1>1 DEF Accounts, Alone, OnlyCall, Busy
  <1>3. DOMAIN calls = Calls
    BY DEF SessionInv, Sessioned
  <1>4. calls'[k] = c /\ \A j \in Calls \ {k} : calls'[j] = calls[j]
    BY <1>3
  <1>5. OnlyCall(k)'
    BY <1>2, <1>4 DEF OnlyCall
  <1> QED BY <1>1, <1>2, <1>4, <1>5 DEF Accounts

\* Every step but a pairing needs a session or a call, so a declared budget.
LEMMA CeilingStays ==
  ASSUME SessionInv, Ceiling, NEW k \in Calls, ceiling' = ceiling, firstBudget' = firstBudget,
         calls[k] # Idle \/ (\E d \in Delegations : \E fails \in ReadFailures : Read(d, fails) # {})
  PROVE  Ceiling'
  <1>1. ceiling # 0
    BY DEF Ceiling, Read, InMemory
  <1> QED BY <1>1 DEF Ceiling

LEMMA EstablishBudget ==
  ASSUME SessionInv, SessionInv', BudgetInv, NEW k \in Calls, NEW d \in Delegations,
         EstablishDelegation(k, d)
  PROVE  BudgetInv'
  <1>1. Budget[d] \in Nat /\ Budget[d] # 0
    BY SessionAssumption
  <1>2. ceiling \in Nat /\ firstBudget \in Nat /\ spent \in Nat
    BY DEF SessionInv, Counted
  <1>3. Ceiling' /\ firstBudget <= firstBudget'
    BY <1>1, <1>2 DEF EstablishDelegation, DeclareSessionCeiling, BudgetInv, Ceiling
  <1>4. ASSUME ~overlapped' PROVE Accounts'
    <2>1. calls' = [calls EXCEPT ![k] = Idle] /\ calls[k] = Idle
      BY DEF EstablishDelegation, SessionInv, Sessioned
    <2>2. OnlyCall(k) /\ AccountOf(k) /\ OnlyCall(k)' /\ calls'[k] = Idle
      BY <1>4, <2>1, StepsAlone DEF EstablishDelegation, BudgetInv
    <2>3. ~At(k, "answered") /\ ~At(k, "answered")' /\ ~At(k, "posted")'
      BY <2>1, <2>2 DEF At, Idle
    <2>4. spent' = spent /\ charged' = charged /\ lost' = lost
      BY DEF EstablishDelegation
    <2>5. firstBudget' \in Nat
      BY DEF SessionInv, Counted
    <2>6. AccountOf(k)'
      BY <1>2, <1>3, <2>2, <2>3, <2>4, <2>5 DEF AccountOf, Owing
    <2> QED BY <2>2, <2>6, AccountsOfOne
  <1> QED BY <1>3, <1>4 DEF BudgetInv

\* A step that changes no amount and leaves its call neither posted nor answered.
LEMMA QuietBudget ==
  ASSUME SessionInv, SessionInv', BudgetInv, NEW k \in Calls,
         UNCHANGED <<ceiling, firstBudget, spent, charged, lost>>,
         \/ calls[k] # Idle /\ overlapped' = overlapped
         \/ /\ overlapped' = (overlapped \/ Busy(k))
            /\ \E d \in Delegations : \E fails \in ReadFailures : Read(d, fails) # {},
         ~At(k, "answered"),
         NEW c, calls' = [calls EXCEPT ![k] = c], c.at \notin {"posted", "answered"}
  PROVE  BudgetInv'
  <1>1. Ceiling'
    BY CeilingStays DEF BudgetInv
  <1>2. ASSUME ~overlapped' PROVE Accounts'
    <2>1. OnlyCall(k) /\ AccountOf(k) /\ OnlyCall(k)' /\ calls'[k] = c
      BY <1>2, StepsAlone DEF BudgetInv
    <2>2. ~At(k, "answered")' /\ ~At(k, "posted")'
      BY <2>1 DEF At
    <2>3. AccountOf(k)'
      BY <2>1, <2>2 DEF AccountOf, Owing
    <2> QED BY <2>1, <2>3, AccountsOfOne
  <1> QED BY <1>1, <1>2 DEF BudgetInv

LEMMA BeginBudget ==
  ASSUME SessionInv, SessionInv', BudgetInv, NEW k \in Calls, NEW d \in Delegations,
         \/ \E i \in Items : BeginCart(k, d, i)
         \/ BeginSign(k, d)
         \/ \E repeat \in BOOLEAN : BeginExecute(k, d, repeat)
  PROVE  BudgetInv'
  <1>1. PICK c : Begin(k, c) /\ c.at \in {"cart", "sign", "guard"}
    <2>1. CASE \E i \in Items : BeginCart(k, d, i)
      BY <2>1 DEF BeginCart
    <2>2. CASE BeginSign(k, d)
      BY <2>2 DEF BeginSign
    <2>3. CASE \E repeat \in BOOLEAN : BeginExecute(k, d, repeat)
      BY <2>3 DEF BeginExecute
    <2> QED BY <2>1, <2>2, <2>3
  <1>2. \E fails \in ReadFailures : Read(d, fails) # {}
    BY DEF BeginCart, BeginSign, BeginExecute
  <1>3. UNCHANGED <<ceiling, firstBudget, spent, charged, lost>>
    BY DEF BeginCart, BeginSign, BeginExecute, registry
  <1>4. ~At(k, "answered")
    BY <1>1 DEF Begin, At, Idle
  <1> QED BY <1>1, <1>2, <1>3, <1>4, QuietBudget DEF Begin

LEMMA ReturnsBudget ==
  ASSUME SessionInv, SessionInv', BudgetInv, NEW k \in Calls,
         \/ SignAndStoreCart(k) \/ IssuePayload(k) \/ RefuseInEngine(k)
         \/ DiscardSessionBuyerKey(k)
  PROVE  BudgetInv'
  <1>1. /\ calls[k] # Idle /\ overlapped' = overlapped /\ ~At(k, "answered")
        /\ calls' = [calls EXCEPT ![k] = Idle]
        /\ UNCHANGED <<ceiling, firstBudget, spent, charged, lost>>
    BY DEF SignAndStoreCart, IssuePayload, RefuseInEngine, DiscardSessionBuyerKey,
           At, Idle, Return, registry, history
  <1>2. Idle.at \notin {"posted", "answered"}
    BY DEF Idle
  <1> QED BY <1>1, <1>2, QuietBudget

LEMMA PostBudget ==
  ASSUME SessionInv, SessionInv', BudgetInv, NEW k \in Calls, PostSettlement(k)
  PROVE  BudgetInv'
  <1>1. /\ calls[k] # Idle /\ overlapped' = overlapped /\ ~At(k, "answered")
        /\ UNCHANGED <<ceiling, firstBudget, spent, charged, lost, carts>>
    BY DEF PostSettlement, At, Idle, registry, history, documents
  <1>2. CASE Return(k)
    BY <1>1, <1>2, QuietBudget DEF Return, Idle
  <1>3. CASE Goto(k, "posted") /\ PassesBudgetGuard(k)
    <2>1. PICK c : c = [calls[k] EXCEPT !.at = "posted"]
      OBVIOUS
    <2>2. GoodSettle(calls[k])
      BY AtSteps DEF PostSettlement, Steps
    <2>3. c.at = "posted" /\ c.session = calls[k].session
      BY <2>1, <2>2 DEF GoodSettle
    <2>4. calls' = [calls EXCEPT ![k] = c]
      BY <1>3, <2>1 DEF Goto
    <2>5. PriceOf(CartOf(k)) \in Nat
      BY <2>2, Posting
    <2>6. Ceiling /\ Ceiling'
      BY <1>1, CeilingStays DEF BudgetInv
    <2>7. ASSUME ~overlapped' PROVE Accounts'
      <3>1. OnlyCall(k) /\ AccountOf(k) /\ OnlyCall(k)' /\ calls'[k] = c
        BY <1>1, <2>4, <2>7, StepsAlone DEF BudgetInv
      <3>2. ceiling # 0
        BY <1>1, <2>6 DEF Ceiling
      <3>3. spent + PriceOf(CartOf(k)) <= firstBudget
        BY <1>3, <2>5, <2>6, <3>2 DEF Ceiling, PassesBudgetGuard, SessionInv, Counted
      <3>4. PriceOf(CartOf(k))' = PriceOf(CartOf(k)) /\ ~At(k, "answered")'
        BY <1>1, <2>3, <3>1 DEF PriceOf, CartOf, At
      <3>5. AccountOf(k)'
        BY <1>1, <3>1, <3>3, <3>4 DEF AccountOf, Owing
      <3> QED BY <3>1, <3>5, AccountsOfOne
    <2> QED BY <2>6, <2>7 DEF BudgetInv
  <1> QED BY <1>2, <1>3 DEF PostSettlement

\* The price passes from the verdict to what is owed, and on to the books, or to what the
\* connection never hears of.
LEMMA MoneyBudget ==
  ASSUME SessionInv, SessionInv', BudgetInv, NEW k \in Calls,
         SettleInEngine(k) \/ RecordPurchase(k) \/ LoseReply(k)
  PROVE  BudgetInv'
  <1>1. /\ calls[k] # Idle /\ overlapped' = overlapped
        /\ UNCHANGED <<ceiling, firstBudget, carts>>
    BY DEF SettleInEngine, RecordPurchase, LoseReply, At, Idle, registry, history, documents
  <1>2. Ceiling'
    BY <1>1, CeilingStays DEF BudgetInv
  <1>3. GoodSettle(calls[k])
    BY AtSteps DEF SettleInEngine, RecordPurchase, LoseReply, Steps
  <1>4. PICK p \in Nat : p = PriceOf(CartOf(k))
    BY <1>3, Posting
  <1>5. spent \in Nat /\ lost \in Nat /\ charged \in Nat /\ firstBudget \in Nat
    BY DEF SessionInv, Counted
  <1>6. PICK c :
          /\ calls' = [calls EXCEPT ![k] = c]
          /\ \/ /\ At(k, "posted") /\ c.at = "answered" /\ c.session = calls[k].session
                /\ charged' = charged + p /\ spent' = spent /\ lost' = lost
             \/ /\ At(k, "answered") /\ c.at \notin {"posted", "answered"}
                /\ charged' = charged
                /\ \/ spent' = spent + p /\ lost' = lost
                   \/ spent' = spent /\ lost' = lost + p
    <2>0. ASSUME NEW l \in Steps
          PROVE  /\ [calls[k] EXCEPT !.at = l].at = l
                 /\ [calls[k] EXCEPT !.at = l].session = calls[k].session
      BY <1>3 DEF GoodSettle
    <2>1. CASE SettleInEngine(k)
      <3>1. /\ calls' = [calls EXCEPT ![k] = [calls[k] EXCEPT !.at = "answered"]]
            /\ At(k, "posted") /\ charged' = charged + p /\ spent' = spent /\ lost' = lost
        BY <1>4, <2>1 DEF SettleInEngine, Goto, registry
      <3> QED BY <2>0, <3>1 DEF Steps
    <2>2. CASE RecordPurchase(k)
      <3>1. /\ calls' = [calls EXCEPT ![k] = [calls[k] EXCEPT !.at = "settled"]]
            /\ At(k, "answered") /\ charged' = charged /\ spent' = spent + p /\ lost' = lost
        BY <1>4, <2>2 DEF RecordPurchase, Goto, history
      <3>2. [calls[k] EXCEPT !.at = "settled"].at \notin {"posted", "answered"}
        BY <2>0 DEF Steps
      <3> QED BY <3>1, <3>2
    <2>3. CASE LoseReply(k)
      <3>1. /\ calls' = [calls EXCEPT ![k] = Idle] /\ Idle.at \notin {"posted", "answered"}
            /\ At(k, "answered") /\ charged' = charged /\ spent' = spent /\ lost' = lost + p
        BY <1>4, <2>3 DEF LoseReply, Return, Idle, registry
      <3> QED BY <3>1
    <2> QED BY <2>1, <2>2, <2>3
  <1>7. ASSUME ~overlapped' PROVE Accounts'
    <2>1. OnlyCall(k) /\ AccountOf(k) /\ OnlyCall(k)' /\ calls'[k] = c
      BY <1>1, <1>6, <1>7, StepsAlone DEF BudgetInv
    <2>2. CASE At(k, "posted") /\ c.at = "answered" /\ c.session = calls[k].session
               /\ charged' = charged + p /\ spent' = spent /\ lost' = lost
      <3>1. PriceOf(CartOf(k))' = p /\ At(k, "answered")' /\ ~At(k, "answered")
        BY <1>1, <1>4, <2>1, <2>2 DEF PriceOf, CartOf, At
      <3>2. AccountOf(k)'
        BY <1>1, <1>4, <1>5, <2>1, <2>2, <3>1 DEF AccountOf, Owing
      <3> QED BY <2>1, <3>2, AccountsOfOne
    <2>3. CASE /\ At(k, "answered") /\ c.at \notin {"posted", "answered"}
               /\ charged' = charged
               /\ \/ spent' = spent + p /\ lost' = lost
                  \/ spent' = spent /\ lost' = lost + p
      <3>1. ~At(k, "answered")' /\ ~At(k, "posted")'
        BY <2>1, <2>3 DEF At
      <3>2. spent + p <= firstBudget /\ charged = spent + lost + p
        BY <1>4, <2>1, <2>3 DEF AccountOf, Owing
      <3>3. AccountOf(k)'
        BY <1>1, <1>5, <2>3, <3>1, <3>2 DEF AccountOf, Owing
      <3> QED BY <2>1, <3>3, AccountsOfOne
    <2> QED BY <1>6, <2>2, <2>3
  <1> QED BY <1>2, <1>7 DEF BudgetInv

LEMMA BudgetInitially == Init => BudgetInv
  BY DEF Init, BudgetInv, Ceiling, Accounts, Alone, OnlyCall, AccountOf, Owing, At, Idle

LEMMA BudgetNext == SessionInv /\ SessionInv' /\ BudgetInv /\ [Next]_vars => BudgetInv'
  <1> SUFFICES ASSUME SessionInv, SessionInv', BudgetInv, [Next]_vars PROVE BudgetInv'
    OBVIOUS
  <1>1. CASE UNCHANGED vars
    BY <1>1 DEF vars, store, documents, registry, engine, history, BudgetInv, Ceiling,
                Accounts, Alone, OnlyCall, AccountOf, Owing, At, PriceOf, CartOf
  <1>2. CASE Next
    <2>1. PICK k \in Calls : Call(k)
      BY <1>2 DEF Next
    <2>2. CASE \E d \in Delegations : EstablishDelegation(k, d)
      BY <2>2, EstablishBudget
    <2>3. CASE \E d \in Delegations : \/ \E i \in Items : BeginCart(k, d, i)
                                      \/ BeginSign(k, d)
                                      \/ \E repeat \in BOOLEAN : BeginExecute(k, d, repeat)
      BY <2>3, BeginBudget
    <2>4. CASE \/ SignAndStoreCart(k) \/ IssuePayload(k) \/ RefuseInEngine(k)
               \/ DiscardSessionBuyerKey(k)
      BY <2>4, ReturnsBudget
    <2>5. CASE PostSettlement(k)
      BY <2>5, PostBudget
    <2>6. CASE SettleInEngine(k) \/ RecordPurchase(k) \/ LoseReply(k)
      BY <2>6, MoneyBudget
    <2> QED BY <2>1, <2>2, <2>3, <2>4, <2>5, <2>6 DEF Call
  <1> QED BY <1>1, <1>2

\* A connection that makes one call at a time is charged at most the first budget it
\* declared, plus what it was never told of, however many delegations it opens, whatever
\* the session store loses and whatever the engine refuses.
THEOREM CeilingNeverExceeded == Spec => []SessionCeilingHeld
  <1>1. BudgetInv => SessionCeilingHeld
    BY DEF BudgetInv, Accounts, SessionCeilingHeld
  <1> QED BY <1>1, SessionInitially, SessionNext, BudgetInitially, BudgetNext, PTL DEF Spec
-----------------------------------------------------------------------------
(* What the connection and its delegations remember.  The duplicate guard reads *)
(* the purchase memory, a delegation is used up by the session that is written  *)
(* back after its settlement; both are read before the engine's verdict.        *)

\* Payloads bind carts that exist, receipts payloads that exist, each one once.
References ==
  /\ \A n \in 1..Len(executions) : executions[n] \in 1..Len(carts)
  /\ \A n \in 1..Len(receipts) : receipts[n].execution \in 1..Len(executions)
  /\ \A m, n \in 1..Len(receipts) :
       receipts[m].execution = receipts[n].execution => m = n

\* The call the engine has answered owns the newest receipt, which is in no memory yet.
OwnsReceipt(k) ==
  /\ Len(receipts) # 0 /\ Len(remembered) < Len(receipts)
  /\ receipts[Len(receipts)].execution = Mandate(k)
  /\ receipts[Len(receipts)].delegation = calls[k].delegation
  /\ executions[Mandate(k)] = CartOf(k)

\* Nothing is evicted from the memory before it is full.
Recalled ==
  /\ Len(remembered) <= Len(receipts)
  /\ Len(receipts) <= MaxRemembered =>
       \A n \in 1..Len(receipts) : receipts[n].known => IsRemembered(ItemSettled(n))

Unrepeated ==
  \A m, n \in 1..Len(receipts) :
    /\ m < n /\ n <= MaxRemembered + 1
    /\ ItemSettled(m) = ItemSettled(n) /\ receipts[m].known
    => receipts[n].repeat

MemoryInv ==
  /\ References
  /\ ~overlapped =>
       /\ Recalled /\ Unrepeated
       /\ \A k \in Calls : At(k, "posted") => PassesDuplicateGuard(k)
       /\ \A k \in Calls : At(k, "answered") => OwnsReceipt(k)

\* A store that has not failed keeps one copy of a session.
OneStore ==
  ~failed => /\ backend = "redis" => DOMAIN memory = {}
             /\ backend = "memory" => DOMAIN redis = {}

\* Every copy of the session is that of a finished purchase, its key discarded.
Spent(s) == s.settled /\ ~s.key
UsedUp(d) ==
  /\ d \in DOMAIN redis \cup DOMAIN memory
  /\ \A s \in Copies(d) : Spent(s)
  /\ \A k \in Calls : calls[k] # Idle /\ calls[k].delegation = d => Spent(calls[k].session)

\* The delegation of a receipt that arrived is used up, or its call is about to write that.
Writing(d) == \E k \in Calls : At(k, "settled") /\ calls[k].delegation = d
Exhausted ==
  \A n \in 1..Len(receipts), d \in Delegations :
    receipts[n].known /\ receipts[n].delegation = d => Writing(d) \/ UsedUp(d)
UsedOnce ==
  \A m, n \in 1..Len(receipts) :
    m < n /\ receipts[m].delegation = receipts[n].delegation => ~receipts[m].known

UseInv == OneStore /\ (~overlapped /\ ~failed => Exhausted /\ UsedOnce)

\* Documents are only added, and receipts keep their payload.
Appended ==
  /\ \A n \in 1..Len(carts) : n \in 1..Len(carts') /\ carts'[n] = carts[n]
  /\ \A n \in 1..Len(executions) : n \in 1..Len(executions') /\ executions'[n] = executions[n]
  /\ Len(receipts') = Len(receipts)
  /\ \A n \in 1..Len(receipts) : receipts'[n].execution = receipts[n].execution

LEMMA ItemsStay ==
  ASSUME References, Appended, NEW n \in 1..Len(receipts)
  PROVE  ItemSettled(n)' = ItemSettled(n)
  <1>1. receipts[n].execution \in 1..Len(executions)
    BY DEF References
  <1>2. executions[receipts[n].execution] \in 1..Len(carts)
    BY <1>1 DEF References
  <1> QED BY <1>1, <1>2 DEF Appended, ItemSettled

\* A step that changes neither receipts nor memory and whose call is left outside the engine.
LEMMA QuietMemory ==
  ASSUME SessionInv, BudgetInv, MemoryInv, References', Appended,
         UNCHANGED <<receipts, remembered>>, NEW k \in Calls,
         \/ calls[k] # Idle /\ overlapped' = overlapped
         \/ overlapped' = (overlapped \/ Busy(k)),
         NEW c, calls' = [calls EXCEPT ![k] = c], c.at \notin {"posted", "answered"}
  PROVE  MemoryInv'
  <1> SUFFICES ASSUME ~overlapped'
               PROVE  /\ Recalled' /\ Unrepeated'
                      /\ \A j \in Calls : ~At(j, "posted")' /\ ~At(j, "answered")'
    BY DEF MemoryInv
  <1>1. OnlyCall(k)' /\ calls'[k] = c
    BY StepsAlone DEF BudgetInv
  <1>2. \A j \in Calls : ~At(j, "posted")' /\ ~At(j, "answered")'
    BY <1>1 DEF OnlyCall, At, Idle
  <1>3. References /\ Recalled /\ Unrepeated
    BY DEF SessionInv, Counted, MemoryInv
  <1>4. \A n \in 1..Len(receipts) : ItemSettled(n)' = ItemSettled(n)
    BY <1>3, ItemsStay
  <1>5. Recalled'
    BY <1>3, <1>4 DEF Recalled, IsRemembered
  <1>6. Unrepeated'
    BY <1>3, <1>4 DEF Unrepeated
  <1> QED BY <1>2, <1>5, <1>6

\* A step that leaves the documents alone.
LEMMA SameDocuments ==
  ASSUME MemoryInv, UNCHANGED <<documents, receipts>>
  PROVE  References' /\ Appended
  BY DEF MemoryInv, References, Appended, documents

LEMMA BeginMemory ==
  ASSUME SessionInv, BudgetInv, MemoryInv, NEW k \in Calls, NEW d \in Delegations,
         \/ EstablishDelegation(k, d)
         \/ \E i \in Items : BeginCart(k, d, i)
         \/ BeginSign(k, d)
         \/ \E repeat \in BOOLEAN : BeginExecute(k, d, repeat)
  PROVE  MemoryInv'
  <1>1. UNCHANGED <<documents, receipts, remembered>>
    BY DEF EstablishDelegation, BeginCart, BeginSign, BeginExecute, registry, engine
  <1>2. References' /\ Appended
    BY <1>1, SameDocuments
  <1>3. PICK c : /\ overlapped' = (overlapped \/ Busy(k)) /\ c.at \notin {"posted", "answered"}
                 /\ calls' = [calls EXCEPT ![k] = c]
    <2>1. CASE EstablishDelegation(k, d)
      <3>1. calls' = [calls EXCEPT ![k] = Idle]
        BY <2>1 DEF EstablishDelegation, SessionInv, Sessioned
      <3> QED BY <2>1, <3>1 DEF EstablishDelegation, Idle
    <2>2. CASE \E i \in Items : BeginCart(k, d, i)
      BY <2>2 DEF BeginCart, Begin
    <2>3. CASE BeginSign(k, d)
      BY <2>3 DEF BeginSign, Begin
    <2>4. CASE \E repeat \in BOOLEAN : BeginExecute(k, d, repeat)
      BY <2>4 DEF BeginExecute, Begin
    <2> QED BY <2>1, <2>2, <2>3, <2>4
  <1> QED BY <1>1, <1>2, <1>3, QuietMemory

LEMMA SignAndStoreCartMemory ==
  ASSUME SessionInv, BudgetInv, MemoryInv, NEW k \in Calls, SignAndStoreCart(k)
  PROVE  MemoryInv'
  <1>1. calls[k].item \in Items /\ carts \in Seq(Items) /\ executions \in Seq(1..MaxCarts)
    BY AtCart DEF SignAndStoreCart, GoodCart, SessionInv, Documents
  <1>2. /\ Len(carts') = Len(carts) + 1 /\ Len(carts) \in Nat
        /\ \A n \in 1..Len(carts) : carts'[n] = carts[n]
    BY <1>1 DEF SignAndStoreCart
  <1>3. UNCHANGED <<executions, receipts, remembered>>
    BY DEF SignAndStoreCart, registry, engine
  <1>4. References' /\ Appended
    <2>1. Appended
      BY <1>2, <1>3 DEF Appended
    <2>2. \A n \in 1..Len(executions) : executions[n] \in 1..Len(carts')
      BY <1>2 DEF MemoryInv, References
    <2>3. References'
      BY <1>3, <2>2 DEF MemoryInv, References
    <2> QED BY <2>1, <2>3
  <1>5. /\ calls[k] # Idle /\ overlapped' = overlapped
        /\ calls' = [calls EXCEPT ![k] = Idle] /\ Idle.at \notin {"posted", "answered"}
    BY DEF SignAndStoreCart, At, Idle, Return
  <1> QED BY <1>3, <1>4, <1>5, QuietMemory

LEMMA IssuePayloadMemory ==
  ASSUME SessionInv, BudgetInv, MemoryInv, NEW k \in Calls, IssuePayload(k)
  PROVE  MemoryInv'
  <1>1. calls[k].session.cart \in 1..Len(carts) /\ executions \in Seq(1..MaxCarts)
        /\ carts \in Seq(Items) /\ Len(carts) <= MaxCarts
    BY AtSign DEF IssuePayload, GoodSign, Good, SessionInv, Documents
  <1>2. calls[k].session.cart \in 1..MaxCarts
    BY <1>1, SessionAssumption
  <1>3. /\ executions' = Append(executions, calls[k].session.cart)
        /\ UNCHANGED <<carts, receipts, remembered>>
    BY DEF IssuePayload, registry, engine
  <1>4. /\ Len(executions') = Len(executions) + 1 /\ Len(executions) \in Nat
        /\ executions'[Len(executions) + 1] = calls[k].session.cart
        /\ \A n \in 1..Len(executions) : executions'[n] = executions[n]
    BY <1>1, <1>2, <1>3
  <1>5. References' /\ Appended
    <2>1. Appended
      BY <1>3, <1>4 DEF Appended
    <2>2. \A n \in 1..Len(executions') : executions'[n] \in 1..Len(carts)
      BY <1>1, <1>4 DEF MemoryInv, References
    <2>3. \A n \in 1..Len(receipts) : receipts[n].execution \in 1..Len(executions')
      BY <1>4 DEF MemoryInv, References
    <2>4. References'
      BY <1>3, <2>2, <2>3 DEF MemoryInv, References
    <2> QED BY <2>1, <2>4
  <1>6. /\ calls[k] # Idle /\ overlapped' = overlapped
        /\ calls' = [calls EXCEPT ![k] = Idle] /\ Idle.at \notin {"posted", "answered"}
    BY DEF IssuePayload, At, Idle, Return
  <1> QED BY <1>3, <1>5, <1>6, QuietMemory

LEMMA ReturnsMemory ==
  ASSUME SessionInv, BudgetInv, MemoryInv, NEW k \in Calls,
         \/ RefuseInEngine(k) \/ LoseReply(k) \/ DiscardSessionBuyerKey(k)
         \/ PostSettlement(k) /\ Return(k)
  PROVE  MemoryInv'
  <1>1. UNCHANGED <<documents, receipts, remembered>>
    BY DEF RefuseInEngine, LoseReply, DiscardSessionBuyerKey, PostSettlement, registry, engine
  <1>2. References' /\ Appended
    BY <1>1, SameDocuments
  <1>3. /\ calls[k] # Idle /\ overlapped' = overlapped
        /\ calls' = [calls EXCEPT ![k] = Idle] /\ Idle.at \notin {"posted", "answered"}
    BY DEF RefuseInEngine, LoseReply, DiscardSessionBuyerKey, PostSettlement, At, Idle,
           Return, history
  <1> QED BY <1>1, <1>2, <1>3, QuietMemory

\* A call moves to another step on the session it has.
LEMMA GoesOn ==
  ASSUME SessionInv, NEW k \in Calls, GoodSettle(calls[k]), NEW l \in Steps, Goto(k, l)
  PROVE  \E c : /\ calls' = [calls EXCEPT ![k] = c] /\ c.at = l
                /\ c.session = calls[k].session /\ c.delegation = calls[k].delegation
                /\ c.repeat = calls[k].repeat
  <1>1. PICK c : c = [calls[k] EXCEPT !.at = l]
    OBVIOUS
  <1>2. /\ c.at = l /\ c.session = calls[k].session /\ c.delegation = calls[k].delegation
        /\ c.repeat = calls[k].repeat
    BY <1>1 DEF GoodSettle
  <1> QED BY <1>1, <1>2 DEF Goto

\* What a call that goes on is about does not change with it.
LEMMA SameSubject ==
  ASSUME UNCHANGED <<carts, executions>>, NEW k \in Calls, NEW c,
         calls'[k] = c, c.session = calls[k].session
  PROVE  /\ Mandate(k)' = Mandate(k) /\ CartOf(k)' = CartOf(k) /\ ItemOf(k)' = ItemOf(k)
  BY DEF Mandate, CartOf, ItemOf

LEMMA PostMemory ==
  ASSUME SessionInv, BudgetInv, MemoryInv, NEW k \in Calls, PostSettlement(k)
  PROVE  MemoryInv'
  <1>1. CASE Return(k)
    BY <1>1, ReturnsMemory
  <1>2. CASE Goto(k, "posted") /\ PassesDuplicateGuard(k)
    <2>0. GoodSettle(calls[k])
      BY AtSteps DEF PostSettlement, Steps
    <2>1. PICK c : /\ calls' = [calls EXCEPT ![k] = c] /\ c.at = "posted"
                   /\ c.session = calls[k].session /\ c.delegation = calls[k].delegation
                   /\ c.repeat = calls[k].repeat
      BY <1>2, <2>0, GoesOn DEF Steps
    <2>2. UNCHANGED <<documents, receipts, remembered>> /\ calls[k] # Idle
          /\ overlapped' = overlapped
      BY DEF PostSettlement, registry, engine, history, At, Idle
    <2>3. References' /\ Appended
      BY <2>2, SameDocuments
    <2>4. ASSUME ~overlapped'
          PROVE  /\ Recalled' /\ Unrepeated'
                 /\ \A j \in Calls : At(j, "posted")' => PassesDuplicateGuard(j)'
                 /\ \A j \in Calls : At(j, "answered")' => OwnsReceipt(j)'
      <3>1. OnlyCall(k)' /\ calls'[k] = c
        BY <2>1, <2>2, <2>4, StepsAlone DEF BudgetInv
      <3>2. \A j \in Calls \ {k} : ~At(j, "posted")' /\ ~At(j, "answered")'
        BY <3>1 DEF OnlyCall, At, Idle
      <3>3. References /\ Recalled /\ Unrepeated
        BY <2>2, <2>4 DEF MemoryInv
      <3>4. \A n \in 1..Len(receipts) : ItemSettled(n)' = ItemSettled(n)
        BY <2>3, <3>3, ItemsStay
      <3>5. Recalled' /\ Unrepeated'
        BY <2>2, <3>3, <3>4 DEF Recalled, IsRemembered, Unrepeated
      <3>6. ItemOf(k)' = ItemOf(k)
        BY <2>1, <2>2, <3>1, SameSubject DEF documents
      <3>7. PassesDuplicateGuard(k)' /\ ~At(k, "answered")'
        BY <1>2, <2>1, <2>2, <3>1, <3>6 DEF PassesDuplicateGuard, IsRemembered, At
      <3> QED BY <3>2, <3>5, <3>7
    <2> QED BY <2>3, <2>4 DEF MemoryInv
  <1> QED BY <1>1, <1>2 DEF PostSettlement

\* The engine's verdict: a new receipt, for the item the guard has passed.
LEMMA SettleMemory ==
  ASSUME SessionInv, BudgetInv, MemoryInv, NEW k \in Calls, SettleInEngine(k)
  PROVE  MemoryInv'
  <1>0. GoodSettle(calls[k])
    BY AtSteps DEF SettleInEngine, Steps
  <1>1. PICK c : /\ calls' = [calls EXCEPT ![k] = c] /\ c.at = "answered"
                 /\ c.session = calls[k].session /\ c.delegation = calls[k].delegation
                 /\ c.repeat = calls[k].repeat
    BY <1>0, GoesOn DEF SettleInEngine, Steps
  <1>2. PICK r : r = [execution |-> Mandate(k), delegation |-> calls[k].delegation,
                      repeat |-> calls[k].repeat, known |-> FALSE]
    OBVIOUS
  <1>3. receipts' = Append(receipts, r) /\ UNCHANGED <<carts, executions, remembered>>
        /\ calls[k] # Idle /\ overlapped' = overlapped
        /\ executions[Mandate(k)] = CartOf(k) /\ ~Settled(Mandate(k))
    BY <1>2 DEF SettleInEngine, documents, registry, At, Idle
  <1>4. r \in Receipts /\ Mandate(k) \in 1..Len(executions) /\ receipts \in Seq(Receipts)
    BY <1>0, <1>2, Posting DEF Receipts, GoodSettle, SessionInv, Documents
  <1>5. PICK z \in Nat : z = Len(receipts)
    BY <1>4
  <1>6. /\ Len(receipts') = z + 1 /\ receipts'[z + 1] = r
        /\ \A n \in 1..z : receipts'[n] = receipts[n]
    BY <1>3, <1>4, <1>5
  <1>7. References
    BY DEF MemoryInv
  <1>8. References'
    <2>1. \A n \in 1..z + 1 : receipts'[n].execution \in 1..Len(executions)
      BY <1>2, <1>4, <1>5, <1>6, <1>7 DEF References
    <2>2. ASSUME NEW m \in 1..z + 1, NEW n \in 1..z + 1,
                 receipts'[m].execution = receipts'[n].execution
          PROVE  m = n
      <3>1. \A i \in 1..z : receipts'[i].execution # Mandate(k)
        BY <1>3, <1>5, <1>6 DEF Settled
      <3>2. CASE m \in 1..z /\ n \in 1..z
        BY <1>5, <1>6, <1>7, <2>2, <3>2 DEF References
      <3>3. CASE m = z + 1 \/ n = z + 1
        BY <1>2, <1>5, <1>6, <2>2, <3>1, <3>3
      <3> QED BY <1>5, <3>2, <3>3
    <2> QED BY <1>3, <1>6, <1>7, <2>1, <2>2 DEF References
  <1>9. ASSUME ~overlapped'
        PROVE  /\ Recalled' /\ Unrepeated'
               /\ \A j \in Calls : At(j, "posted")' => PassesDuplicateGuard(j)'
               /\ \A j \in Calls : At(j, "answered")' => OwnsReceipt(j)'
    <2>1. OnlyCall(k)' /\ calls'[k] = c
      BY <1>1, <1>3, <1>9, StepsAlone DEF BudgetInv
    <2>2. \A j \in Calls \ {k} : ~At(j, "posted")' /\ ~At(j, "answered")'
      BY <2>1 DEF OnlyCall, At, Idle
    <2>3. Recalled /\ Unrepeated /\ PassesDuplicateGuard(k)
      BY <1>3, <1>9 DEF MemoryInv, SettleInEngine
    <2>4. Len(remembered) \in Nat /\ Len(remembered) <= z
      BY <1>5, <2>3 DEF Recalled, SessionInv, Counted
    <2>5. \A n \in 1..z : ItemSettled(n)' = ItemSettled(n)
      BY <1>3, <1>6 DEF ItemSettled
    <2>6. ItemSettled(z + 1)' = ItemOf(k)
      BY <1>2, <1>3, <1>6 DEF ItemSettled, ItemOf
    <2>7. MaxRemembered \in Nat /\ ~r.known /\ r.repeat = calls[k].repeat
      BY <1>2, SessionAssumption
    <2>8. Recalled'
      <3>1. Len(remembered') <= z + 1
        BY <1>3, <2>4
      <3>2. ASSUME z + 1 <= MaxRemembered, NEW n \in 1..z + 1, receipts'[n].known
            PROVE  IsRemembered(ItemSettled(n))'
        <4>1. n \in 1..z /\ receipts[n].known /\ z <= MaxRemembered
          BY <1>6, <2>7, <3>2
        <4> QED BY <1>3, <1>5, <2>3, <2>5, <4>1 DEF Recalled, IsRemembered
      <3> QED BY <1>6, <3>1, <3>2 DEF Recalled
    <2>9. Unrepeated'
      <3> SUFFICES ASSUME NEW m \in 1..z + 1, NEW n \in 1..z + 1, m < n,
                          n <= MaxRemembered + 1,
                          ItemSettled(m)' = ItemSettled(n)', receipts'[m].known
                   PROVE  receipts'[n].repeat
        BY <1>6 DEF Unrepeated
      <3>1. m \in 1..z /\ receipts[m].known
        BY <1>6
      <3>2. CASE n \in 1..z
        BY <1>5, <1>6, <2>3, <2>5, <3>1, <3>2 DEF Unrepeated
      <3>3. CASE n = z + 1
        <4>1. z <= MaxRemembered /\ ItemSettled(m) = ItemOf(k)
          BY <2>5, <2>6, <2>7, <3>1, <3>3
        <4>2. IsRemembered(ItemOf(k))
          BY <1>5, <2>3, <3>1, <4>1 DEF Recalled
        <4> QED BY <1>6, <2>3, <2>7, <3>3, <4>2 DEF PassesDuplicateGuard
      <3> QED BY <3>2, <3>3
    <2>10. OwnsReceipt(k)' /\ ~At(k, "posted")'
      <3>1. Mandate(k)' = Mandate(k) /\ CartOf(k)' = CartOf(k)
        BY <1>1, <1>3, <2>1, SameSubject
      <3>2. calls'[k].delegation = calls[k].delegation
        BY <1>1, <2>1
      <3> QED BY <1>1, <1>2, <1>3, <1>6, <2>1, <2>4, <3>1, <3>2 DEF OwnsReceipt, At
    <2> QED BY <2>2, <2>8, <2>9, <2>10
  <1> QED BY <1>8, <1>9 DEF MemoryInv

\* What is remembered stays so until the memory is full, and a new purchase is added.
LEMMA RemembersUntilFull ==
  ASSUME Counted, NEW i \in Items, Remember(i)
  PROVE  /\ Len(remembered') <= Len(remembered) + 1
         /\ Len(remembered) < MaxRemembered =>
              \A j \in Items : IsRemembered(j)' <=> IsRemembered(j) \/ j = i
  <1>1. remembered \in Seq(Items) /\ Len(remembered) <= MaxRemembered
        /\ MaxRemembered \in Nat \ {0}
    BY SessionAssumption DEF Counted
  <1>2. PICK kept : /\ kept = IF Len(remembered) >= MaxRemembered
                              THEN Tail(remembered) ELSE remembered
                    /\ remembered' = IF \E n \in 1..Len(kept) : kept[n] = i
                                     THEN kept ELSE Append(kept, i)
    BY DEF Remember
  <1>3. kept \in Seq(Items) /\ Len(kept) <= Len(remembered)
    BY <1>1, <1>2
  <1>4. Len(remembered') <= Len(remembered) + 1
    BY <1>1, <1>2, <1>3
  <1>5. ASSUME Len(remembered) < MaxRemembered, NEW j \in Items
        PROVE  IsRemembered(j)' <=> IsRemembered(j) \/ j = i
    <2>1. kept = remembered
      BY <1>1, <1>2, <1>5
    <2>2. CASE \E n \in 1..Len(kept) : kept[n] = i
      BY <1>2, <2>1, <2>2 DEF IsRemembered
    <2>3. CASE ~\E n \in 1..Len(kept) : kept[n] = i
      <3>1. PICK z \in Nat : z = Len(remembered)
        BY <1>1
      <3>2. /\ Len(remembered') = z + 1 /\ remembered'[z + 1] = i
            /\ \A n \in 1..z : remembered'[n] = remembered[n]
        BY <1>1, <1>2, <2>1, <2>3, <3>1
      <3>3. ASSUME IsRemembered(j)' PROVE IsRemembered(j) \/ j = i
        BY <3>1, <3>2, <3>3 DEF IsRemembered
      <3>4. ASSUME IsRemembered(j) PROVE IsRemembered(j)'
        BY <3>1, <3>2, <3>4 DEF IsRemembered
      <3>5. ASSUME j = i PROVE IsRemembered(j)'
        BY <3>1, <3>2, <3>5 DEF IsRemembered
      <3> QED BY <3>3, <3>4, <3>5
    <2> QED BY <2>2, <2>3
  <1> QED BY <1>4, <1>5

\* The receipt arrives: it is the newest, so nothing settled later can repeat it yet.
LEMMA RecordMemory ==
  ASSUME SessionInv, BudgetInv, MemoryInv, NEW k \in Calls, RecordPurchase(k)
  PROVE  MemoryInv'
  <1>0. GoodSettle(calls[k])
    BY AtSteps DEF RecordPurchase, Steps
  <1>1. PICK c : calls' = [calls EXCEPT ![k] = c] /\ c.at = "settled"
    BY <1>0, GoesOn DEF RecordPurchase, Steps
  <1>2. UNCHANGED <<carts, executions>> /\ calls[k] # Idle /\ overlapped' = overlapped
    BY DEF RecordPurchase, documents, history, At, Idle
  <1>3. receipts \in Seq(Receipts) /\ Counted
    BY DEF SessionInv, Documents
  <1>4. PICK z \in Nat : z = Len(receipts)
    BY <1>3
  <1>5. /\ Len(receipts') = z
        /\ \A n \in 1..z : /\ receipts'[n].execution = receipts[n].execution
                           /\ receipts'[n].repeat = receipts[n].repeat
                           /\ receipts'[n].known <=>
                                \/ receipts[n].known
                                \/ receipts[n].execution = Mandate(k)
    <2>1. receipts' = [n \in 1..z |-> IF receipts[n].execution = Mandate(k)
                                      THEN [receipts[n] EXCEPT !.known = TRUE] ELSE receipts[n]]
      BY <1>4 DEF RecordPurchase, MarkKnown
    <2>2. \A n \in 1..z : receipts[n] \in Receipts
      BY <1>3, <1>4
    <2>3. Len(receipts') = z
      BY <2>1
    <2> QED BY <2>1, <2>2, <2>3 DEF Receipts
  <1>6. References /\ Appended
    BY <1>2, <1>4, <1>5 DEF MemoryInv, Appended
  <1>7. References'
    BY <1>2, <1>4, <1>5, <1>6 DEF References
  <1>8. ASSUME ~overlapped'
        PROVE  /\ Recalled' /\ Unrepeated'
               /\ \A j \in Calls : ~At(j, "posted")' /\ ~At(j, "answered")'
    <2>1. OnlyCall(k)' /\ calls'[k] = c
      BY <1>1, <1>2, <1>8, StepsAlone DEF BudgetInv
    <2>2. \A j \in Calls : ~At(j, "posted")' /\ ~At(j, "answered")'
      BY <1>1, <2>1 DEF OnlyCall, At, Idle
    <2>3. Recalled /\ Unrepeated /\ OwnsReceipt(k)
      BY <1>2, <1>8 DEF MemoryInv, RecordPurchase
    <2>4. /\ z # 0 /\ Len(remembered) < z /\ receipts[z].execution = Mandate(k)
          /\ executions[Mandate(k)] = CartOf(k)
      BY <1>4, <2>3 DEF OwnsReceipt
    <2>5. \A n \in 1..z : receipts[n].execution = Mandate(k) <=> n = z
      BY <1>4, <1>6, <2>4 DEF References
    <2>6. \A n \in 1..z : ItemSettled(n)' = ItemSettled(n)
      BY <1>4, <1>6, ItemsStay
    <2>7. ItemSettled(z) = ItemOf(k) /\ ItemOf(k) \in Items
      BY <1>0, <2>4, Posting DEF ItemSettled, ItemOf
    <2>8. PICK s \in Nat : s = Len(remembered) /\ s < z
      BY <1>3, <2>4 DEF Counted
    <2>9. /\ Len(remembered') <= s + 1 /\ Len(remembered') \in Nat
          /\ s < MaxRemembered =>
               \A j \in Items : IsRemembered(j)' <=> IsRemembered(j) \/ j = ItemOf(k)
      BY <1>3, <2>7, <2>8, RemembersUntilFull, RememberBounded DEF RecordPurchase
    <2>10. ASSUME NEW n \in 1..z, z <= MaxRemembered, receipts'[n].known
           PROVE  IsRemembered(ItemSettled(n))'
      <3>1. s < MaxRemembered
        BY <2>8, <2>10, SessionAssumption
      <3>2. CASE n = z
        BY <2>6, <2>7, <2>9, <3>1, <3>2 DEF IsRemembered
      <3>3. CASE n # z
        <4>1. receipts[n].known
          BY <1>5, <2>5, <2>10, <3>3
        <4>2. IsRemembered(ItemSettled(n))
          BY <1>4, <2>3, <2>10, <4>1 DEF Recalled
        <4>3. ItemSettled(n) \in Items
          <5>1. ItemSettled(n) = carts[executions[receipts[n].execution]]
                /\ executions[receipts[n].execution] \in 1..Len(carts)
            BY <1>4, <1>6 DEF ItemSettled, References
          <5> QED BY <5>1 DEF SessionInv, Documents
        <4> QED BY <2>6, <2>9, <3>1, <4>2, <4>3 DEF IsRemembered
      <3> QED BY <3>2, <3>3
    <2>11. Recalled'
      BY <1>5, <2>8, <2>9, <2>10 DEF Recalled
    <2>12. Unrepeated'
      <3> SUFFICES ASSUME NEW m \in 1..z, NEW n \in 1..z, m < n, n <= MaxRemembered + 1,
                          ItemSettled(m)' = ItemSettled(n)', receipts'[m].known
                   PROVE  receipts'[n].repeat
        BY <1>5 DEF Unrepeated
      <3>1. receipts[m].known
        BY <1>5, <2>5
      <3>2. ItemSettled(m) = ItemSettled(n)
        BY <2>6
      <3>3. receipts[n].repeat
        BY <1>4, <2>3, <3>1, <3>2 DEF Unrepeated
      <3> QED BY <1>5, <3>3
    <2> QED BY <2>2, <2>11, <2>12
  <1> QED BY <1>7, <1>8 DEF MemoryInv

LEMMA MemoryInitially == Init => MemoryInv
  BY DEF Init, MemoryInv, References, Recalled, Unrepeated, At, Idle

LEMMA MemoryNext == SessionInv /\ BudgetInv /\ MemoryInv /\ [Next]_vars => MemoryInv'
  <1> SUFFICES ASSUME SessionInv, BudgetInv, MemoryInv, [Next]_vars PROVE MemoryInv'
    OBVIOUS
  <1>1. CASE UNCHANGED vars
    BY <1>1 DEF vars, documents, registry, engine, history, MemoryInv, References, Recalled,
                Unrepeated, IsRemembered, ItemSettled, PassesDuplicateGuard, OwnsReceipt,
                At, Mandate, CartOf, ItemOf
  <1>2. CASE Next
    <2>1. PICK k \in Calls : Call(k)
      BY <1>2 DEF Next
    <2>2. CASE \E d \in Delegations : \/ EstablishDelegation(k, d)
                                      \/ \E i \in Items : BeginCart(k, d, i)
                                      \/ BeginSign(k, d)
                                      \/ \E repeat \in BOOLEAN : BeginExecute(k, d, repeat)
      BY <2>2, BeginMemory
    <2>3. CASE SignAndStoreCart(k) \/ IssuePayload(k)
      BY <2>3, SignAndStoreCartMemory, IssuePayloadMemory
    <2>4. CASE RefuseInEngine(k) \/ LoseReply(k) \/ DiscardSessionBuyerKey(k)
      BY <2>4, ReturnsMemory
    <2>5. CASE PostSettlement(k) \/ SettleInEngine(k) \/ RecordPurchase(k)
      BY <2>5, PostMemory, SettleMemory, RecordMemory
    <2> QED BY <2>1, <2>2, <2>3, <2>4, <2>5 DEF Call
  <1> QED BY <1>1, <1>2

\* A connection that makes one call at a time is never charged twice for the same purchase
\* without having asked for it, as long as its memory has not overflowed, whatever the store
\* loses and whichever delegation it pays with.
THEOREM RepetitionAsked == Spec => []NoUnwittingRepeat
  <1>1. MemoryInv => NoUnwittingRepeat
    BY DEF MemoryInv, Unrepeated, NoUnwittingRepeat
  <1> QED BY <1>1, SessionInitially, SessionNext, BudgetInitially, BudgetNext,
             MemoryInitially, MemoryNext, PTL DEF Spec

-----------------------------------------------------------------------------
(* A delegation is used once *)

LEMMA SaveOneStore ==
  ASSUME Sessioned, OneStore, NEW d, NEW s, Save(d, s), backend' = backend
  PROVE  OneStore'
  BY DEF Sessioned, OneStore, Save

\* A write that succeeds replaces the session's only copy and no other session's.
LEMMA SavedCopies ==
  ASSUME Sessioned, OneStore, ~failed, ~failed', NEW d, NEW s, Save(d, s)
  PROVE  /\ d \in DOMAIN redis' \cup DOMAIN memory' /\ Copies(d)' = {s}
         /\ \A e : e # d =>
              /\ e \in DOMAIN redis' \cup DOMAIN memory' <=> e \in DOMAIN redis \cup DOMAIN memory
              /\ Copies(e)' = Copies(e)
  <1>1. \A f : /\ DOMAIN With(f, d, s) = DOMAIN f \cup {d} /\ With(f, d, s)[d] = s
               /\ \A e \in DOMAIN f : e # d => With(f, d, s)[e] = f[e]
    BY DEF With
  <1>2. \/ /\ DOMAIN redis = {} /\ redis' = redis /\ memory' = With(memory, d, s)
        \/ /\ DOMAIN memory = {} /\ memory' = memory /\ redis' = With(redis, d, s)
    BY DEF Sessioned, OneStore, Save
  <1>3. CASE DOMAIN redis = {} /\ redis' = redis /\ memory' = With(memory, d, s)
    <2>1. d \in DOMAIN memory' /\ DOMAIN memory' = DOMAIN memory \cup {d} /\ memory'[d] = s
          /\ DOMAIN redis' = {}
      BY <1>1, <1>3
    <2>2. \A e : e # d /\ e \in DOMAIN memory => memory'[e] = memory[e]
      BY <1>1, <1>3
    <2> QED BY <1>3, <2>1, <2>2 DEF Copies, InMemory
  <1>4. CASE DOMAIN memory = {} /\ memory' = memory /\ redis' = With(redis, d, s)
    <2>1. d \in DOMAIN redis' /\ DOMAIN redis' = DOMAIN redis \cup {d} /\ redis'[d] = s
          /\ DOMAIN memory' = {}
      BY <1>1, <1>4
    <2>2. \A e : e # d /\ e \in DOMAIN redis => redis'[e] = redis[e]
      BY <1>1, <1>4
    <2> QED BY <1>4, <2>1, <2>2 DEF Copies, InMemory
  <1> QED BY <1>2, <1>3, <1>4

\* A step that leaves the store alone, on a delegation that is not used up or by a call
\* that holds a spent session.
LEMMA UsedUpStays ==
  ASSUME SessionInv, UNCHANGED store, NEW k \in Calls, NEW c,
         calls' = [calls EXCEPT ![k] = c], NEW d, UsedUp(d),
         c = Idle \/ c.delegation # d \/ Spent(c.session)
  PROVE  UsedUp(d)'
  <1>1. \A j \in Calls : calls'[j] = IF j = k THEN c ELSE calls[j]
    BY DEF SessionInv, Sessioned
  <1>2. \A j \in Calls : calls'[j] # Idle /\ calls'[j].delegation = d => Spent(calls'[j].session)
    BY <1>1 DEF UsedUp
  <1>3. Copies(d)' = Copies(d) /\ d \in DOMAIN redis' \cup DOMAIN memory'
    BY DEF Copies, InMemory, store, UsedUp
  <1> QED BY <1>2, <1>3 DEF UsedUp, Spent

\* A call that writes a session back and returns.
LEMMA UsedUpSaved ==
  ASSUME SessionInv, OneStore, ~failed, ~failed', NEW k \in Calls, calls[k] # Idle => Return(k),
         calls[k] = Idle => calls' = calls,
         NEW e, NEW s, Save(e, s), NEW d, UsedUp(d), d # e
  PROVE  UsedUp(d)'
  <1>1. \A j \in Calls : calls'[j] # Idle => calls'[j] = calls[j]
    BY DEF SessionInv, Sessioned, Return
  <1>2. \A j \in Calls : calls'[j] # Idle /\ calls'[j].delegation = d => Spent(calls'[j].session)
    BY <1>1 DEF UsedUp
  <1>3. Sessioned
    BY DEF SessionInv
  <1>4. Copies(d)' = Copies(d) /\ d \in DOMAIN redis' \cup DOMAIN memory'
    BY <1>3, SavedCopies DEF UsedUp
  <1> QED BY <1>2, <1>4 DEF UsedUp, Spent

\* A step that adds no receipt keeps UseInv if what is used up stays so, and what its call
\* was about to use up is.
LEMMA QuietUse ==
  ASSUME SessionInv, BudgetInv, UseInv, OneStore', UNCHANGED receipts, failed => failed',
         NEW k \in Calls,
         \/ calls[k] # Idle /\ overlapped' = overlapped
         \/ overlapped' = (overlapped \/ Busy(k)),
         NEW c, calls' = [calls EXCEPT ![k] = c],
         ASSUME ~overlapped', ~overlapped, ~failed', ~failed, NEW d \in Delegations
         PROVE  /\ UsedUp(d) => UsedUp(d)'
                /\ At(k, "settled") /\ calls[k].delegation = d => UsedUp(d)'
  PROVE  UseInv'
  <1> SUFFICES ASSUME ~overlapped', ~failed' PROVE Exhausted' /\ UsedOnce'
    BY DEF UseInv
  <1>1. ~overlapped /\ ~failed
    BY DEF SessionInv, Counted
  <1>2. OnlyCall(k)
    BY StepsAlone DEF BudgetInv
  <1>3. Exhausted /\ UsedOnce
    BY <1>1 DEF UseInv
  <1>4. ASSUME NEW n \in 1..Len(receipts), NEW d \in Delegations, receipts[n].known,
               receipts[n].delegation = d
        PROVE  UsedUp(d)'
    <2>1. CASE UsedUp(d)
      BY <1>1, <2>1
    <2>2. CASE Writing(d)
      <3>1. PICK j \in Calls : At(j, "settled") /\ calls[j].delegation = d
        BY <2>2 DEF Writing
      <3>2. j = k
        BY <1>2, <3>1 DEF OnlyCall, At, Idle
      <3> QED BY <1>1, <3>1, <3>2
    <2> QED BY <1>3, <1>4, <2>1, <2>2 DEF Exhausted
  <1>5. Exhausted'
    BY <1>4 DEF Exhausted
  <1>6. UsedOnce'
    BY <1>3 DEF UsedOnce
  <1> QED BY <1>5, <1>6

LEMMA EstablishUse ==
  ASSUME SessionInv, BudgetInv, UseInv, NEW k \in Calls, NEW e \in Delegations,
         EstablishDelegation(k, e)
  PROVE  UseInv'
  <1>0. PICK s : \/ Save(e, s)
                 \/ UNCHANGED <<store, failed>>
    BY DEF EstablishDelegation
  <1>1. /\ calls' = [calls EXCEPT ![k] = Idle] /\ calls[k] = Idle /\ calls' = calls
        /\ UNCHANGED <<receipts, backend>> /\ overlapped' = (overlapped \/ Busy(k))
        /\ e \notin DOMAIN redis \cup DOMAIN memory
    BY DEF EstablishDelegation, SessionInv, Sessioned, engine
  <1>2. OneStore' /\ (failed => failed')
    <2>1. CASE Save(e, s)
      <3>1. failed => failed'
        BY <2>1 DEF Save
      <3> QED BY <1>1, <2>1, <3>1, SaveOneStore DEF SessionInv, UseInv
    <2>2. CASE UNCHANGED <<store, failed>>
      BY <1>1, <2>2 DEF UseInv, OneStore, store
    <2> QED BY <1>0, <2>1, <2>2
  <1>3. ASSUME ~overlapped', ~overlapped, ~failed', ~failed, NEW d \in Delegations
        PROVE  /\ UsedUp(d) => UsedUp(d)'
               /\ At(k, "settled") /\ calls[k].delegation = d => UsedUp(d)'
    <2>1. ~At(k, "settled")
      BY <1>1 DEF At, Idle
    <2>2. ASSUME UsedUp(d) PROVE UsedUp(d)'
      <3>1. d # e
        BY <1>1, <2>2 DEF UsedUp
      <3>2. CASE Save(e, s)
        BY <1>1, <1>3, <2>2, <3>1, <3>2, UsedUpSaved DEF UseInv
      <3>3. CASE UNCHANGED <<store, failed>>
        BY <1>1, <2>2, <3>3, UsedUpStays
      <3> QED BY <1>0, <3>2, <3>3
    <2> QED BY <2>1, <2>2
  <1> QED BY <1>1, <1>2, <1>3, QuietUse

\* A call that begins on a used-up delegation begins with its spent session: the cart and
\* signing tools refuse that one, a settlement replays it.
LEMMA BeginUse ==
  ASSUME SessionInv, BudgetInv, UseInv, NEW k \in Calls, NEW e \in Delegations,
         \/ \E i \in Items : BeginCart(k, e, i)
         \/ BeginSign(k, e)
         \/ \E repeat \in BOOLEAN : BeginExecute(k, e, repeat)
  PROVE  UseInv'
  <1>1. /\ UNCHANGED <<store, receipts, backend>> /\ (failed => failed')
        /\ calls[k] = Idle /\ overlapped' = (overlapped \/ Busy(k))
    BY DEF BeginCart, BeginSign, BeginExecute, Begin, engine
  <1>2. PICK c : /\ calls' = [calls EXCEPT ![k] = c] /\ c.delegation = e
                 /\ \E fails \in ReadFailures : c.session \in Read(e, fails)
    <2>1. CASE \E i \in Items : BeginCart(k, e, i)
      <3>1. PICK i \in Items, fails \in ReadFailures : \E s \in Read(e, fails) :
              Begin(k, [at |-> "cart", delegation |-> e, session |-> s, item |-> i])
        BY <2>1 DEF BeginCart
      <3>2. PICK s \in Read(e, fails) :
              Begin(k, [at |-> "cart", delegation |-> e, session |-> s, item |-> i])
        BY <3>1
      <3>3. PICK c : c = [at |-> "cart", delegation |-> e, session |-> s, item |-> i]
        OBVIOUS
      <3>4. calls' = [calls EXCEPT ![k] = c] /\ c.delegation = e /\ c.session = s
        BY <3>2, <3>3 DEF Begin
      <3> QED BY <3>4
    <2>2. CASE BeginSign(k, e)
      <3>1. PICK fails \in ReadFailures : \E s \in Read(e, fails) :
              Begin(k, [at |-> "sign", delegation |-> e, session |-> s])
        BY <2>2 DEF BeginSign
      <3>2. PICK s \in Read(e, fails) : Begin(k, [at |-> "sign", delegation |-> e, session |-> s])
        BY <3>1
      <3>3. PICK c : c = [at |-> "sign", delegation |-> e, session |-> s]
        OBVIOUS
      <3>4. calls' = [calls EXCEPT ![k] = c] /\ c.delegation = e /\ c.session = s
        BY <3>2, <3>3 DEF Begin
      <3> QED BY <3>4
    <2>3. CASE \E repeat \in BOOLEAN : BeginExecute(k, e, repeat)
      <3>1. PICK repeat \in BOOLEAN, fails \in ReadFailures : \E s \in Read(e, fails) :
              Begin(k, [at |-> "guard", delegation |-> e, session |-> s, repeat |-> repeat])
        BY <2>3 DEF BeginExecute
      <3>2. PICK s \in Read(e, fails) :
              Begin(k, [at |-> "guard", delegation |-> e, session |-> s, repeat |-> repeat])
        BY <3>1
      <3>3. PICK c : c = [at |-> "guard", delegation |-> e, session |-> s, repeat |-> repeat]
        OBVIOUS
      <3>4. calls' = [calls EXCEPT ![k] = c] /\ c.delegation = e /\ c.session = s
        BY <3>2, <3>3 DEF Begin
      <3> QED BY <3>4
    <2> QED BY <2>1, <2>2, <2>3
  <1>3. c.session \in Copies(e)
    BY <1>2 DEF Read, Copies, InMemory
  <1>4. OneStore'
    BY <1>1 DEF UseInv, OneStore, store
  <1>5. ASSUME ~overlapped', ~overlapped, ~failed', ~failed, NEW d \in Delegations
        PROVE  /\ UsedUp(d) => UsedUp(d)'
               /\ At(k, "settled") /\ calls[k].delegation = d => UsedUp(d)'
    <2>1. ~At(k, "settled")
      BY <1>1 DEF At, Idle
    <2>2. ASSUME UsedUp(d) PROVE UsedUp(d)'
      <3>1. c.delegation # d \/ Spent(c.session)
        BY <1>2, <1>3, <2>2 DEF UsedUp
      <3> QED BY <1>1, <1>2, <2>2, <3>1, UsedUpStays
    <2> QED BY <2>1, <2>2
  <1> QED BY <1>1, <1>2, <1>4, <1>5, QuietUse

\* A cart or a payload is written back to a delegation that is not used up.
LEMMA WriteBackUse ==
  ASSUME SessionInv, BudgetInv, UseInv, NEW k \in Calls, SignAndStoreCart(k) \/ IssuePayload(k)
  PROVE  UseInv'
  <1>1. PICK e, s : e = calls[k].delegation /\ Save(e, s)
    BY DEF SignAndStoreCart, IssuePayload
  <1>2. /\ calls[k] # Idle /\ overlapped' = overlapped /\ ~At(k, "settled") /\ Return(k)
        /\ calls' = [calls EXCEPT ![k] = Idle] /\ UNCHANGED <<receipts, backend>>
    BY DEF SignAndStoreCart, IssuePayload, At, Idle, Return, engine
  <1>3. ~calls[k].session.settled
    BY AtCart, AtSign DEF SignAndStoreCart, IssuePayload, GoodCart, GoodSign
  <1>4. OneStore' /\ (failed => failed')
    <2>1. failed => failed'
      BY <1>1 DEF Save
    <2> QED BY <1>1, <1>2, <2>1, SaveOneStore DEF SessionInv, UseInv
  <1>5. ASSUME ~overlapped', ~overlapped, ~failed', ~failed, NEW d \in Delegations
        PROVE  /\ UsedUp(d) => UsedUp(d)'
               /\ At(k, "settled") /\ calls[k].delegation = d => UsedUp(d)'
    <2>1. ASSUME UsedUp(d) PROVE UsedUp(d)'
      <3>1. d # e
        BY <1>1, <1>2, <1>3, <2>1 DEF UsedUp, Spent
      <3> QED BY <1>1, <1>2, <1>5, <2>1, <3>1, UsedUpSaved DEF UseInv
    <2> QED BY <1>2, <2>1
  <1> QED BY <1>2, <1>4, <1>5, QuietUse

\* The settled session is written over the only copy: the delegation is used up.
LEMMA DiscardUse ==
  ASSUME SessionInv, BudgetInv, UseInv, NEW k \in Calls, DiscardSessionBuyerKey(k)
  PROVE  UseInv'
  <1>1. PICK e, s : /\ e = calls[k].delegation /\ Save(e, s)
                    /\ s = [calls[k].session EXCEPT !.key = FALSE, !.signed = Mandate(k),
                                                    !.settled = TRUE]
    BY DEF DiscardSessionBuyerKey
  <1>2. /\ calls[k] # Idle /\ overlapped' = overlapped /\ Return(k)
        /\ calls' = [calls EXCEPT ![k] = Idle] /\ UNCHANGED <<receipts, backend>>
    BY DEF DiscardSessionBuyerKey, At, Idle, Return, engine
  <1>3. Spent(s)
    <2>1. GoodSettle(calls[k])
      BY AtSteps DEF DiscardSessionBuyerKey, Steps
    <2>2. Good(calls[k].session)
      BY <2>1 DEF GoodSettle
    <2> QED BY <1>1, <2>2 DEF Good, Spent
  <1>4. OneStore' /\ (failed => failed')
    <2>1. failed => failed'
      BY <1>1 DEF Save
    <2> QED BY <1>1, <1>2, <2>1, SaveOneStore DEF SessionInv, UseInv
  <1>5. ASSUME ~overlapped', ~overlapped, ~failed', ~failed, NEW d \in Delegations
        PROVE  /\ UsedUp(d) => UsedUp(d)'
               /\ At(k, "settled") /\ calls[k].delegation = d => UsedUp(d)'
    <2>1. CASE d # e
      BY <1>1, <1>2, <1>5, <2>1, UsedUpSaved DEF UseInv
    <2>2. CASE d = e
      <3>1. OnlyCall(k)' /\ calls'[k] = Idle
        BY <1>2, <1>5, StepsAlone DEF BudgetInv
      <3>2. \A j \in Calls : calls'[j] = Idle
        BY <3>1 DEF OnlyCall
      <3>3. e \in DOMAIN redis' \cup DOMAIN memory' /\ Copies(e)' = {s}
        BY <1>1, <1>5, SavedCopies DEF SessionInv, UseInv
      <3> QED BY <1>3, <2>2, <3>2, <3>3 DEF UsedUp, Spent
    <2> QED BY <1>1, <2>1, <2>2
  <1> QED BY <1>2, <1>4, <1>5, QuietUse

LEMMA ReturnsUse ==
  ASSUME SessionInv, BudgetInv, UseInv, NEW k \in Calls,
         PostSettlement(k) \/ RefuseInEngine(k) \/ LoseReply(k)
  PROVE  UseInv'
  <1>1. /\ UNCHANGED <<store, receipts, backend, failed>> /\ calls[k] # Idle
        /\ ~At(k, "settled") /\ overlapped' = overlapped
    BY DEF PostSettlement, RefuseInEngine, LoseReply, engine, history, At, Idle
  <1>2. GoodSettle(calls[k])
    BY AtSteps DEF PostSettlement, RefuseInEngine, LoseReply, Steps
  <1>3. PICK c : /\ calls' = [calls EXCEPT ![k] = c]
                 /\ c = Idle \/ (/\ c.session = calls[k].session
                                 /\ c.delegation = calls[k].delegation)
    <2>1. CASE Return(k)
      BY <2>1 DEF Return
    <2>2. CASE Goto(k, "posted")
      BY <1>2, <2>2, GoesOn DEF Steps
    <2> QED BY <2>1, <2>2 DEF PostSettlement, RefuseInEngine, LoseReply
  <1>4. OneStore'
    BY <1>1 DEF UseInv, OneStore, store
  <1>5. ASSUME ~overlapped', ~overlapped, ~failed', ~failed, NEW d \in Delegations
        PROVE  /\ UsedUp(d) => UsedUp(d)'
               /\ At(k, "settled") /\ calls[k].delegation = d => UsedUp(d)'
    <2>1. ASSUME UsedUp(d) PROVE UsedUp(d)'
      <3>1. c = Idle \/ c.delegation # d \/ Spent(c.session)
        BY <1>1, <1>3, <2>1 DEF UsedUp
      <3> QED BY <1>1, <1>3, <2>1, <3>1, UsedUpStays
    <2> QED BY <1>1, <2>1
  <1> QED BY <1>1, <1>3, <1>4, <1>5, QuietUse

\* The engine settles nothing under a delegation that is used up: the call's session is
\* spent, so the bundle it posts has been settled.
LEMMA SettleUse ==
  ASSUME SessionInv, BudgetInv, UseInv, NEW k \in Calls, SettleInEngine(k)
  PROVE  UseInv'
  <1>0. GoodSettle(calls[k])
    BY AtSteps DEF SettleInEngine, Steps
  <1>1. PICK c : /\ calls' = [calls EXCEPT ![k] = c] /\ c.at = "answered"
                 /\ c.session = calls[k].session /\ c.delegation = calls[k].delegation
    BY <1>0, GoesOn DEF SettleInEngine, Steps
  <1>2. PICK r, d : /\ r = [execution |-> Mandate(k), delegation |-> d,
                            repeat |-> calls[k].repeat, known |-> FALSE]
                    /\ d = calls[k].delegation
    OBVIOUS
  <1>3. /\ receipts' = Append(receipts, r) /\ UNCHANGED <<store, backend, failed>>
        /\ calls[k] # Idle /\ At(k, "posted") /\ overlapped' = overlapped
        /\ ~Settled(Mandate(k))
    BY <1>2 DEF SettleInEngine, At, Idle
  <1>4. r \in Receipts /\ receipts \in Seq(Receipts)
    BY <1>0, <1>2, Posting DEF Receipts, GoodSettle, SessionInv, Documents
  <1>5. PICK z \in Nat : z = Len(receipts)
    BY <1>4
  <1>6. /\ Len(receipts') = z + 1 /\ receipts'[z + 1] = r
        /\ \A n \in 1..z : receipts'[n] = receipts[n]
    BY <1>3, <1>4, <1>5
  <1>7. OneStore'
    BY <1>3 DEF UseInv, OneStore, store
  <1>8. ASSUME ~overlapped', ~failed' PROVE Exhausted' /\ UsedOnce'
    <2>1. OnlyCall(k) /\ Exhausted /\ UsedOnce
      BY <1>1, <1>3, <1>8, StepsAlone DEF BudgetInv, UseInv
    <2>2. \A j \in Calls : ~At(j, "settled")
      BY <1>3, <2>1 DEF OnlyCall, At, Idle
    <2>3. ASSUME NEW n \in 1..z, NEW e \in Delegations, receipts[n].known,
                 receipts[n].delegation = e
          PROVE  UsedUp(e)
      BY <1>5, <2>1, <2>2, <2>3 DEF Exhausted, Writing
    <2>4. ~Spent(calls[k].session)
      <3>1. PICK s : s = calls[k].session /\ Good(s) /\ s.unsigned # 0
        BY <1>0 DEF GoodSettle
      <3>2. ASSUME s.settled PROVE FALSE
        <4>1. Settled(s.signed) /\ s.signed = s.unsigned
          BY <3>1, <3>2 DEF Good, IsReplay
        <4>2. Mandate(k) = s.signed
          BY <3>1, <4>1 DEF Mandate
        <4> QED BY <1>3, <4>1, <4>2
      <3> QED BY <3>1, <3>2 DEF Spent
    <2>5. \A n \in 1..z : receipts[n].known => receipts[n].delegation # d
      <3>1. d \in Delegations
        BY <1>0, <1>2 DEF GoodSettle
      <3> QED BY <1>2, <1>3, <2>3, <2>4, <3>1 DEF UsedUp
    <2>6. Exhausted'
      <3> SUFFICES ASSUME NEW n \in 1..z + 1, NEW e \in Delegations, receipts'[n].known,
                          receipts'[n].delegation = e
                   PROVE  UsedUp(e)'
        BY <1>6 DEF Exhausted
      <3>1. n \in 1..z /\ receipts[n].known /\ receipts[n].delegation = e
        BY <1>2, <1>6
      <3>2. UsedUp(e) /\ c.delegation # e
        BY <1>1, <1>2, <2>3, <2>5, <3>1
      <3> QED BY <1>1, <1>3, <3>2, UsedUpStays
    <2>7. UsedOnce'
      <3> SUFFICES ASSUME NEW m \in 1..z + 1, NEW n \in 1..z + 1, m < n,
                          receipts'[m].delegation = receipts'[n].delegation
                   PROVE  ~receipts'[m].known
        BY <1>6 DEF UsedOnce
      <3>1. m \in 1..z /\ receipts'[m] = receipts[m]
        BY <1>6
      <3>2. CASE n \in 1..z
        <4>1. receipts'[n] = receipts[n]
          BY <1>6, <3>2
        <4> QED BY <1>5, <2>1, <3>1, <3>2, <4>1 DEF UsedOnce
      <3>3. CASE n = z + 1
        <4>1. receipts'[n].delegation = d
          BY <1>2, <1>6, <3>3
        <4> QED BY <2>5, <3>1, <4>1
      <3> QED BY <3>2, <3>3
    <2> QED BY <2>6, <2>7
  <1> QED BY <1>7, <1>8 DEF UseInv

\* The receipt that becomes known is the newest, and its call is about to write it down.
LEMMA RecordUse ==
  ASSUME SessionInv, BudgetInv, MemoryInv, UseInv, NEW k \in Calls, RecordPurchase(k)
  PROVE  UseInv'
  <1>0. GoodSettle(calls[k])
    BY AtSteps DEF RecordPurchase, Steps
  <1>1. PICK c : /\ calls' = [calls EXCEPT ![k] = c] /\ c.at = "settled"
                 /\ c.session = calls[k].session /\ c.delegation = calls[k].delegation
    BY <1>0, GoesOn DEF RecordPurchase, Steps
  <1>2. UNCHANGED <<store, backend, failed>> /\ calls[k] # Idle /\ At(k, "answered")
        /\ overlapped' = overlapped
    BY DEF RecordPurchase, history, At, Idle
  <1>3. receipts \in Seq(Receipts)
    BY DEF SessionInv, Documents
  <1>4. PICK z \in Nat : z = Len(receipts)
    BY <1>3
  <1>5. /\ Len(receipts') = z
        /\ \A n \in 1..z : /\ receipts'[n].delegation = receipts[n].delegation
                           /\ receipts'[n].known <=>
                                \/ receipts[n].known
                                \/ receipts[n].execution = Mandate(k)
    <2>1. receipts' = [n \in 1..z |-> IF receipts[n].execution = Mandate(k)
                                      THEN [receipts[n] EXCEPT !.known = TRUE] ELSE receipts[n]]
      BY <1>4 DEF RecordPurchase, MarkKnown
    <2>2. \A n \in 1..z : receipts[n] \in Receipts
      BY <1>3, <1>4
    <2>3. Len(receipts') = z
      BY <2>1
    <2> QED BY <2>1, <2>2, <2>3 DEF Receipts
  <1>6. OneStore'
    BY <1>2 DEF UseInv, OneStore, store
  <1>7. ASSUME ~overlapped', ~failed' PROVE Exhausted' /\ UsedOnce'
    <2>1. OnlyCall(k) /\ calls'[k] = c /\ Exhausted /\ UsedOnce
      BY <1>1, <1>2, <1>7, StepsAlone DEF BudgetInv, UseInv
    <2>2. \A j \in Calls : ~At(j, "settled")
      BY <1>2, <2>1 DEF OnlyCall, At, Idle
    <2>3. OwnsReceipt(k) /\ References
      BY <1>2, <1>7 DEF MemoryInv
    <2>4. \A n \in 1..z : receipts[n].execution = Mandate(k) <=> n = z
      BY <1>4, <2>3 DEF OwnsReceipt, References
    <2>5. z # 0 /\ receipts[z].delegation = c.delegation
      BY <1>1, <1>4, <2>3 DEF OwnsReceipt
    <2>6. ASSUME NEW n \in 1..z, NEW e \in Delegations, receipts'[n].known,
                 receipts'[n].delegation = e
          PROVE  Writing(e)' \/ UsedUp(e)'
      <3>1. CASE e = c.delegation
        BY <1>1, <2>1, <3>1 DEF Writing, At
      <3>2. CASE e # c.delegation
        <4>1. receipts[n].known /\ receipts[n].delegation = e
          BY <1>5, <2>4, <2>5, <2>6, <3>2
        <4>2. UsedUp(e)
          BY <1>4, <2>1, <2>2, <4>1 DEF Exhausted, Writing
        <4> QED BY <1>1, <1>2, <3>2, <4>2, UsedUpStays
      <3> QED BY <3>1, <3>2
    <2>7. Exhausted'
      BY <1>5, <2>6 DEF Exhausted
    <2>8. UsedOnce'
      BY <1>4, <1>5, <2>1, <2>4 DEF UsedOnce
    <2> QED BY <2>7, <2>8
  <1> QED BY <1>6, <1>7 DEF UseInv

LEMMA UseInitially == Init => UseInv
  BY DEF Init, UseInv, OneStore, Exhausted, UsedOnce

LEMMA UseNext == SessionInv /\ BudgetInv /\ MemoryInv /\ UseInv /\ [Next]_vars => UseInv'
  <1> SUFFICES ASSUME SessionInv, BudgetInv, MemoryInv, UseInv, [Next]_vars PROVE UseInv'
    OBVIOUS
  <1>1. CASE UNCHANGED vars
    BY <1>1 DEF vars, store, engine, history, UseInv, OneStore, Exhausted, UsedOnce, Writing,
                UsedUp, Copies, InMemory, At
  <1>2. CASE Next
    <2>1. PICK k \in Calls : Call(k)
      BY <1>2 DEF Next
    <2>2. CASE \E d \in Delegations : EstablishDelegation(k, d)
      BY <2>2, EstablishUse
    <2>3. CASE \E d \in Delegations : \/ \E i \in Items : BeginCart(k, d, i)
                                      \/ BeginSign(k, d)
                                      \/ \E repeat \in BOOLEAN : BeginExecute(k, d, repeat)
      BY <2>3, BeginUse
    <2>4. CASE SignAndStoreCart(k) \/ IssuePayload(k) \/ DiscardSessionBuyerKey(k)
      BY <2>4, WriteBackUse, DiscardUse
    <2>5. CASE PostSettlement(k) \/ RefuseInEngine(k) \/ LoseReply(k)
      BY <2>5, ReturnsUse
    <2>6. CASE SettleInEngine(k) \/ RecordPurchase(k)
      BY <2>6, SettleUse, RecordUse
    <2> QED BY <2>1, <2>2, <2>3, <2>4, <2>5, <2>6 DEF Call
  <1> QED BY <1>1, <1>2

LEMMA SpecUse == Spec => [](SessionInv /\ UseInv)
  BY SessionInitially, SessionNext, BudgetInitially, BudgetNext, MemoryInitially, MemoryNext,
     UseInitially, UseNext, PTL DEF Spec

\* On a connection that makes one call at a time over a store that works, nothing is settled
\* under a delegation once the receipt of a purchase has arrived, by whichever cart, payload
\* or repetition of the call.
THEOREM DelegationUse == Spec => []DelegationUsedOnce
  <1>1. UseInv => DelegationUsedOnce
    BY DEF UseInv, UsedOnce, DelegationUsedOnce
  <1> QED BY <1>1, SpecUse, PTL

\* Under the same conditions no copy of the session holds the buyer's key once the call has
\* returned.
THEOREM KeyLifetime == Spec => []KeyDiesWithPurchase
  <1>1. ASSUME SessionInv, UseInv PROVE KeyDiesWithPurchase
    <2> SUFFICES ASSUME ~overlapped, ~failed, NEW n \in 1..Len(receipts), receipts[n].known,
                        NEW d, d = receipts[n].delegation, ~Writing(d)
                 PROVE  \A s \in Copies(d) : ~s.key
      BY DEF KeyDiesWithPurchase, Writing
    <2>1. d \in Delegations
      <3>1. receipts \in Seq(Receipts)
        BY <1>1 DEF SessionInv, Documents
      <3>2. receipts[n] \in Receipts
        BY <3>1
      <3> QED BY <3>2 DEF Receipts
    <2>2. UsedUp(d)
      BY <1>1, <2>1 DEF UseInv, Exhausted
    <2> QED BY <2>2 DEF UsedUp, Spent
  <1> QED BY <1>1, SpecUse, PTL
=============================================================================
