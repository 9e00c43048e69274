----------------------------- MODULE Negotiation -----------------------------
(***************************************************************************)
(* negotiate_price: a tool call of the MCP server that plays a bounded      *)
(* alternating-offer negotiation against the x402 gateway.  A call opens an *)
(* escrow, then takes turns, each a challenge and a request that debits a   *)
(* micro-fee, and releases the escrow whatever happened.  The gateway keeps *)
(* an escrow per call and a negotiator per buyer (and SKU, of which there   *)
(* is one here); it reads the merchant's terms in an await of its own       *)
(* before the rest of a turn, which is one step of its event loop.          *)
(*                                                                          *)
(* Calls overlap, also those of one buyer.  A request may time out and be   *)
(* executed all the same.  Every challenge is fresh, solved and accepted.   *)
(***************************************************************************)
EXTENDS Integers, FiniteSets

CONSTANTS
  Calls,               \* tool calls
  Buyers,              \* buyer agent DIDs
  Request,             \* what each call asks: buyer, opening bid, ceiling, turns
  Policies,            \* terms a merchant may set: enabled, floor, maxTurns
  ListPrice,           \* baseUnitPricePaise
  minConcessionPaise,
  concessionRateBps,   \* sellerConcessionRateBps and buyerConcessionRateBps
  maxNegotiationTurns,
  microFeePerTurnPaise,
  initialEscrowPoolPaise,
  MaxEdits,            \* bound: policies set while the calls run
  MaxFaults            \* bound: requests that fail or whose reply is lost

basisPointsDivisor == 10000

ASSUME NegotiationAssumption ==
  /\ Request \in [Calls -> [buyer: Buyers, opening: Nat, ceiling: Nat,
                            turns: 1..maxNegotiationTurns]]
  /\ \A k \in Calls : Request[k].opening <= Request[k].ceiling
  /\ Policies \subseteq [enabled: BOOLEAN, floor: 0..ListPrice, maxTurns: Nat \ {0}]
  /\ ListPrice \in Nat /\ minConcessionPaise \in Nat
  /\ concessionRateBps \in 0..basisPointsDivisor
  /\ maxNegotiationTurns \in Nat /\ microFeePerTurnPaise \in Nat
  /\ initialEscrowPoolPaise \in Nat
  /\ initialEscrowPoolPaise >= maxNegotiationTurns * microFeePerTurnPaise
  /\ MaxEdits \in Nat /\ MaxFaults \in Nat

VARIABLES
  policy,       \* the merchant's policy in Redis
  calls,        \* the tool calls
  turns,        \* the request of each call that the gateway has, or had
  escrow,       \* EscrowSessionManager: the session of each call
  negotiators,  \* activeNegotiators
  contracts,    \* contracts compiled
  agreements,   \* AgreedPriceRegistry: what the tool recorded
  edits, faults

client == <<calls, agreements>>
gateway == <<escrow, negotiators, contracts>>
vars == <<policy, client, turns, gateway, edits, faults>>

NoEscrow == [remaining |-> 0, debited |-> 0, refunded |-> 0, released |-> FALSE,
             open |-> FALSE]
NoTurn == [at |-> "none"]

Init ==
  /\ policy \in Policies
  /\ calls = [k \in Calls |->
                [at |-> "start", turn |-> 0, bid |-> Request[k].opening,
                 ask |-> ListPrice, fees |-> 0, agreed |-> {}, end |-> "none"]]
  /\ turns = [k \in Calls |-> NoTurn]
  /\ escrow = [k \in Calls |-> NoEscrow]
  /\ negotiators = <<>> /\ contracts = {} /\ agreements = {}
  /\ edits = 0 /\ faults = 0

Lower(a, b) == IF a <= b THEN a ELSE b
Higher(a, b) == IF a <= b THEN b ELSE a
BuyerOf(k) == Request[k].buyer
At(k, l) == calls[k].at = l

Fault == faults < MaxFaults /\ faults' = faults + 1
-----------------------------------------------------------------------------
(* The concessions of the tool *)

concessionStepPaise(open) ==
  IF open <= 0 THEN 0
  ELSE Higher(minConcessionPaise, (open * concessionRateBps) \div basisPointsDivisor)

nextSellerAskPaise(ask, bid) == Higher(ask - concessionStepPaise(ask - bid), bid)

\* Mutant: the last step is not clamped at the ceiling.
BidPastCeiling(bid, ceiling) == bid + concessionStepPaise(ceiling - bid)

nextBuyerBidPaise(bid, ceiling) ==
  Lower(bid + concessionStepPaise(ceiling - bid), ceiling)
-----------------------------------------------------------------------------
(* A tool call *)

End(k, how) == calls' = [calls EXCEPT ![k].at = "release", ![k].end = how]

\* createEscrowSession.  It precedes the try block: when its reply is lost, the
\* call fails and nobody releases what it opened.
CreateEscrow(k) ==
  /\ At(k, "start")
  /\ \/ /\ escrow' = [escrow EXCEPT ![k] = [NoEscrow EXCEPT !.open = TRUE,
                                             !.remaining = initialEscrowPoolPaise]]
        /\ \/ /\ calls' = [calls EXCEPT ![k].at = "bid", ![k].turn = 1]
              /\ UNCHANGED faults
           \/ /\ Fault
              /\ calls' = [calls EXCEPT ![k].at = "failed"]
     \/ /\ Fault /\ calls' = [calls EXCEPT ![k].at = "failed"]
        /\ UNCHANGED escrow
  /\ UNCHANGED <<policy, turns, negotiators, contracts, agreements, edits>>

\* A turn of _runNegotiationLoop: a challenge, and the request goes out.
SubmitTurn(k) ==
  /\ At(k, "bid")
  /\ turns' = [turns EXCEPT ![k] =
                 [at |-> "sent", turn |-> calls[k].turn, bid |-> calls[k].bid,
                  ask |-> calls[k].ask]]
  /\ calls' = [calls EXCEPT ![k].at = "wait"]
  /\ UNCHANGED <<policy, agreements, gateway, edits, faults>>

\* No challenge is to be had (an error), or the time for solving them is used up
\* (an exhausted call); neither leaves an agreement, and one outcome stands for both.
GiveUp(k) ==
  /\ At(k, "bid") /\ Fault
  /\ End(k, "unsolved")
  /\ UNCHANGED <<policy, turns, agreements, gateway, edits>>

\* requestGateway's timeout: the gateway may still have the request.
TimeOut(k) ==
  /\ At(k, "wait") /\ Fault
  /\ End(k, "error")
  /\ UNCHANGED <<policy, turns, agreements, gateway, edits>>

\* The price of the contract: the ask as the merchant's band clamped it.
AgreedPrice(k, step) == step.ask

\* Mutant: a refused turn is tried again.
RetryTurn(k) == calls' = [calls EXCEPT ![k].at = "bid"]

\* requestGateway throws for every other status than the expected one.
FailOnRefusal(k) == End(k, "error")

\* A 403 is an answer, any other refusal an error.
ReceiveAnswer(k) ==
  LET step == turns[k]  c == calls[k] IN
  /\ At(k, "wait")
  /\ \/ /\ step.at = "forbidden" /\ End(k, "declined")
     \/ /\ step.at \in {"conflict", "unpaid", "backwards"} /\ FailOnRefusal(k)
     \/ /\ step.at = "done" /\ step.converged
        /\ calls' = [calls EXCEPT ![k] =
             [c EXCEPT !.at = "release", !.end = "converged", !.fees = step.fees,
                       !.agreed = {AgreedPrice(k, step)}]]
     \/ /\ step.at = "done" /\ ~step.converged /\ c.turn = Request[k].turns
        /\ calls' = [calls EXCEPT ![k] =
             [c EXCEPT !.at = "release", !.end = "exhausted", !.fees = step.fees]]
     \/ /\ step.at = "done" /\ ~step.converged /\ c.turn < Request[k].turns
        /\ calls' = [calls EXCEPT ![k] =
             [c EXCEPT !.at = "bid", !.turn = c.turn + 1, !.fees = step.fees,
                       !.ask = nextSellerAskPaise(c.ask, c.bid),
                       !.bid = nextBuyerBidPaise(c.bid, Request[k].ceiling)]]
  /\ turns' = [turns EXCEPT ![k] = NoTurn]
  /\ UNCHANGED <<policy, agreements, gateway, edits, faults>>

\* Mutant: what is left is refunded and stays in the session.
RefundOnly(k) ==
  escrow' = [escrow EXCEPT ![k].refunded = @ + escrow[k].remaining]

\* EscrowSessionManager.releaseSession
ReleaseSession(k) ==
  escrow' = [escrow EXCEPT ![k] =
               [escrow[k] EXCEPT !.refunded = escrow[k].refunded + escrow[k].remaining,
                                 !.remaining = 0, !.released = TRUE]]

\* Mutant: only a call that ran its course releases its escrow.
ReleaseOnSuccess(k) ==
  /\ At(k, "release")
  /\ \/ calls[k].end \in {"converged", "exhausted"} /\ ReleaseSession(k)
     \/ calls[k].end \in {"unsolved", "declined", "error"} /\ UNCHANGED escrow
  /\ calls' = [calls EXCEPT ![k].at = "over"]
  /\ agreements' = agreements \cup
       {[call |-> k, price |-> p] : p \in calls[k].agreed}
  /\ UNCHANGED <<policy, turns, negotiators, contracts, edits, faults>>

\* The finally block; then _recordAgreement, before the next await.
Release(k) ==
  /\ At(k, "release")
  /\ \/ ReleaseSession(k) /\ UNCHANGED faults
     \/ Fault /\ (ReleaseSession(k) \/ UNCHANGED escrow)
  /\ calls' = [calls EXCEPT ![k].at = "over"]
  /\ agreements' = agreements \cup
       {[call |-> k, price |-> p] : p \in calls[k].agreed}
  /\ UNCHANGED <<policy, turns, negotiators, contracts, edits>>
-----------------------------------------------------------------------------
(* The gateway *)

\* resolveMerchantNegotiationTerms
ReadTerms(k) ==
  /\ turns[k].at = "sent"
  /\ turns' = [turns EXCEPT ![k] =
                 [at |-> "read", turn |-> turns[k].turn, bid |-> turns[k].bid,
                  ask |-> turns[k].ask, terms |-> policy]]
  /\ UNCHANGED <<policy, client, gateway, edits, faults>>

Answer(k, a) == turns' = [turns EXCEPT ![k] = a]
Refuse(k, at) == Answer(k, [at |-> at])

\* The merchant may allow fewer turns than the protocol, never more.
InTurns(t) == t.turn <= Lower(t.terms.maxTurns, maxNegotiationTurns)

clampSellerAskPaise(ask, terms) == Lower(Higher(ask, terms.floor), ListPrice)

\* debitSession refuses a session that is released or short of the fee.
CanDebit(k) ==
  ~escrow[k].released /\ escrow[k].remaining >= microFeePerTurnPaise
DebitSession(k) ==
  escrow' = [escrow EXCEPT ![k].remaining = @ - microFeePerTurnPaise,
                           ![k].debited = @ + microFeePerTurnPaise]

History(b) == IF b \in DOMAIN negotiators THEN {negotiators[b]} ELSE {}

\* validateMonotonicity, against the buyer's last turn, whichever call took it.
IsMonotonic(b, bid, ask) == \A h \in History(b) : bid >= h.bid /\ ask <= h.ask

FeesBefore(b) == IF b \in DOMAIN negotiators THEN negotiators[b].fees ELSE 0
Without(f, x) == [y \in DOMAIN f \ {x} |-> f[y]]
With(f, x, v) == [y \in DOMAIN f \cup {x} |-> IF y = x THEN v ELSE f[y]]

\* _executeNegotiationRound and compileContractIfConverged, the fee debited
Round(k, bid, ask) ==
  LET b == BuyerOf(k)
      fees == FeesBefore(b) + microFeePerTurnPaise
      converged == bid >= ask
  IN IF ~IsMonotonic(b, bid, ask)
     THEN Refuse(k, "backwards") /\ UNCHANGED <<negotiators, contracts>>
     ELSE /\ Answer(k, [at |-> "done", ask |-> ask, converged |-> converged,
                        fees |-> fees])
          /\ negotiators' =
               IF converged THEN Without(negotiators, b)
               ELSE With(negotiators, b, [bid |-> bid, ask |-> ask, fees |-> fees])
          /\ contracts' =
               IF converged
               THEN contracts \cup {[call |-> k, price |-> ask,
                                     floor |-> turns[k].terms.floor]}
               ELSE contracts

\* Mutant: the fee is debited before the terms are looked at.
ExecuteTurnDebitingFirst(k) ==
  LET t == turns[k] IN
  /\ t.at = "read"
  /\ IF CanDebit(k) THEN DebitSession(k) ELSE UNCHANGED escrow
  /\ \/ /\ CanDebit(k) /\ t.terms.enabled /\ InTurns(t)
        /\ Round(k, t.bid, clampSellerAskPaise(t.ask, t.terms))
     \/ /\ ~(CanDebit(k) /\ t.terms.enabled /\ InTurns(t))
        /\ Refuse(k, IF t.terms.enabled THEN "conflict" ELSE "forbidden")
        /\ UNCHANGED <<negotiators, contracts>>
  /\ UNCHANGED <<policy, client, edits, faults>>

\* negotiateTurn from the terms on: opted in, within the turns, paid for.
ExecuteTurn(k) ==
  LET t == turns[k] IN
  /\ t.at = "read"
  /\ \/ /\ ~t.terms.enabled
        /\ Refuse(k, "forbidden") /\ UNCHANGED gateway
     \/ /\ t.terms.enabled /\ ~InTurns(t)
        /\ Refuse(k, "conflict") /\ UNCHANGED gateway
     \/ /\ t.terms.enabled /\ InTurns(t) /\ ~CanDebit(k)
        /\ Refuse(k, "unpaid") /\ UNCHANGED gateway
     \/ /\ t.terms.enabled /\ InTurns(t) /\ CanDebit(k)
        /\ DebitSession(k)
        /\ Round(k, t.bid, clampSellerAskPaise(t.ask, t.terms))
  /\ UNCHANGED <<policy, client, edits, faults>>

\* The merchant sets another policy.
SetPolicy ==
  /\ edits < MaxEdits /\ edits' = edits + 1
  /\ policy' \in Policies \ {policy}
  /\ UNCHANGED <<client, turns, gateway, faults>>

Call(k) ==
  \/ CreateEscrow(k) \/ SubmitTurn(k) \/ GiveUp(k) \/ TimeOut(k)
  \/ ReceiveAnswer(k) \/ Release(k)
Serve(k) == ReadTerms(k) \/ ExecuteTurn(k)

Next == SetPolicy \/ \E k \in Calls : Call(k) \/ Serve(k)
Spec == Init /\ [][Next]_vars

\* The tool's code runs on, and a request it waits for is served or times out.
Fairness == \A k \in Calls : WF_vars(Call(k)) /\ WF_vars(Serve(k))
FairSpec == Spec /\ Fairness
-----------------------------------------------------------------------------
(* Properties *)

Turns == 1..maxNegotiationTurns
CallStates ==
  [at: {"start", "bid", "wait", "release", "over", "failed"},
   turn: 0..maxNegotiationTurns, bid: Nat, ask: Nat, fees: Nat,
   agreed: SUBSET Nat,
   end: {"none", "converged", "exhausted", "unsolved", "declined", "error"}]
TurnStates ==
  {NoTurn}
  \cup [at: {"sent"}, turn: Turns, bid: Nat, ask: Nat]
  \cup [at: {"read"}, turn: Turns, bid: Nat, ask: Nat, terms: Policies]
  \cup [at: {"forbidden", "conflict", "unpaid", "backwards"}]
  \cup [at: {"done"}, ask: Nat, converged: BOOLEAN, fees: Nat]

\* Every variable stays in its domain; bids stay between the opening bid and the
\* ceiling the agent declared, asks at or below the list price.
TypeOK ==
  /\ policy \in Policies
  /\ calls \in [Calls -> CallStates]
  /\ \A k \in Calls : /\ Request[k].opening <= calls[k].bid
                      /\ calls[k].bid <= Request[k].ceiling
  /\ turns \in [Calls -> TurnStates]
  /\ escrow \in [Calls -> [remaining: Nat, debited: Nat, refunded: Nat,
                           released: BOOLEAN, open: BOOLEAN]]
  /\ DOMAIN negotiators \subseteq Buyers
  /\ \A b \in DOMAIN negotiators : negotiators[b] \in [bid: Nat, ask: Nat, fees: Nat]
  /\ contracts \subseteq [call: Calls, price: Nat, floor: Nat]
  /\ agreements \subseteq [call: Calls, price: Nat]
  /\ edits \in 0..MaxEdits /\ faults \in 0..MaxFaults

\* A contract never costs more than the ceiling the agent declared or the list
\* price, nor less than the merchant's floor, however calls and policies overlap
\* (nextBuyerBidPaise's comment: a converged result is always affordable); and
\* only a contract puts a price in the registry that the quoter applies.
CeilingHeld ==
  /\ \A c \in contracts : /\ c.floor <= c.price /\ c.price <= ListPrice
                          /\ c.price <= Request[c.call].ceiling
  /\ \A a \in agreements : \E c \in contracts : c.call = a.call /\ c.price = a.price

\* No paisa of a hold is lost or made, and no call is debited more often than it
\* took turns, requests executed after their timeout or the release included.
EscrowConserved ==
  \A k \in Calls :
    LET e == escrow[k] IN
    e.open => /\ e.remaining + e.debited + e.refunded = initialEscrowPoolPaise
              /\ e.debited <= calls[k].turn * microFeePerTurnPaise
              /\ e.released => e.remaining = 0

\* The holds that stay open behind calls, and the calls whose turns were cut short: no
\* challenge for the next one, or no answer to the last.
HeldBehind == {k \in Calls : /\ calls[k].at \in {"over", "failed"}
                             /\ escrow[k].open /\ ~escrow[k].released}
CutShort == {k \in Calls : \/ calls[k].end = "unsolved"
                           \/ calls[k].at \in {"release", "over"} /\ turns[k] # NoTurn}

\* Only a failed open or release leaves a hold open behind a call (the finally block
\* of negotiatePrice): what cut a call short, or any other refusal, never does, so each
\* such hold takes a failed request of its own.
HoldsReleased == Cardinality(HeldBehind) + Cardinality(CutShort) <= faults

\* A merchant who does not negotiate costs the buyer nothing: a call declined on
\* its first turn was not debited (the comment at negotiateRoute.py:90).
DeclinedFirstTurnIsFree ==
  \A k \in Calls :
    calls[k].end = "declined" /\ calls[k].turn = 1 => escrow[k].debited = 0

\* Every call that opened an escrow ends, its release attempted.
CallsConclude == \A k \in Calls : At(k, "bid") ~> At(k, "over")
=============================================================================
