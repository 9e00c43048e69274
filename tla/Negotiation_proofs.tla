--------------------------- MODULE Negotiation_proofs ---------------------------
(***************************************************************************)
(* Proofs about Negotiation for all calls, requests, policies, prices,     *)
(* fees, pools and faults.  The invariant speaks of one call at a time, of *)
(* its state c, its request's state t and its escrow e; an action touches  *)
(* those of a single call.                                                 *)
(***************************************************************************)
EXTENDS Negotiation, FiniteSetTheorems, TLAPS

Escrows == [remaining: Nat, debited: Nat, refunded: Nat, released: BOOLEAN, open: BOOLEAN]

\* Where a call and its request can be at the same time.
Flow(k, c, t) ==
  /\ Request[k].opening <= c.bid /\ c.bid <= Request[k].ceiling
  /\ c.at \in {"bid", "wait"} => c.turn \in Turns
  /\ c.at \in {"start", "bid", "wait"} => c.end = "none"
  /\ c.at \in {"start", "bid", "failed"} => t = NoTurn
  /\ c.end = "declined" => t = NoTurn /\ c.at \in {"release", "over"}
  /\ t.at \in {"sent", "read"} => t.bid <= Request[k].ceiling

\* The turn a call is at has not been debited yet.
Undebited(c, t) ==
  \/ c.at = "bid" \/ c.end = "declined"
  \/ t.at \in {"sent", "read", "forbidden"}

\* What the escrow of a call has paid.
Paid(c, t, e) ==
  /\ e.debited <= c.turn * microFeePerTurnPaise
  /\ Undebited(c, t) =>
       e.debited + microFeePerTurnPaise <= c.turn * microFeePerTurnPaise
  /\ e.open => e.remaining + e.debited + e.refunded = initialEscrowPoolPaise
  /\ e.open /\ e.released => e.remaining = 0

\* A price that is agreed, or about to be, is a contract's.
IsContracted(k, p, ks) == \E x \in ks : x.call = k /\ x.price = p
Deal(k, c, t, ks) ==
  /\ \A p \in c.agreed : IsContracted(k, p, ks)
  /\ t.at = "done" => (t.converged => IsContracted(k, t.ask, ks))

CallInv(k, c, t, e, ks) ==
  /\ c \in CallStates /\ t \in TurnStates /\ e \in Escrows
  /\ Flow(k, c, t) /\ Paid(c, t, e) /\ Deal(k, c, t, ks)

Functions == /\ calls \in [Calls -> CallStates] /\ turns \in [Calls -> TurnStates]
             /\ escrow \in [Calls -> Escrows]
EachCall == \A k \in Calls : CallInv(k, calls[k], turns[k], escrow[k], contracts)
Environment == policy \in Policies /\ edits \in 0..MaxEdits /\ faults \in 0..MaxFaults
Table == /\ DOMAIN negotiators \subseteq Buyers
         /\ \A b \in DOMAIN negotiators : negotiators[b] \in [bid: Nat, ask: Nat, fees: Nat]
Paper == /\ contracts \subseteq [call: Calls, price: Nat, floor: Nat]
         /\ agreements \subseteq [call: Calls, price: Nat]
         /\ CeilingHeld

NegotiationInv == Functions /\ EachCall /\ Environment /\ Table /\ Paper

-----------------------------------------------------------------------------
(* Arithmetic *)

LEMMA ProductIsNatural ==
  ASSUME NEW m \in Nat, NEW n \in Nat
  PROVE  m * n \in Nat /\ (m + 1) * n = m * n + n /\ 0 * n = 0 /\ 1 * n = n
  BY SMTT(30)

LEMMA StepIsNatural ==
  ASSUME NEW open \in Int
  PROVE  concessionStepPaise(open) \in Nat
  <1>1. CASE open <= 0
    BY <1>1 DEF concessionStepPaise
  <1>2. CASE open > 0
    <2>1. PICK n \in Nat : n = open * concessionRateBps
      BY <1>2, NegotiationAssumption, ProductIsNatural DEF basisPointsDivisor
    <2>2. PICK r \in Nat : r = n \div basisPointsDivisor
      BY SMTT(30) DEF basisPointsDivisor
    <2>3. concessionStepPaise(open) = Higher(minConcessionPaise, r)
      BY <1>2, <2>1, <2>2 DEF concessionStepPaise
    <2> QED BY <2>3, NegotiationAssumption DEF Higher
  <1> QED BY <1>1, <1>2

\* A buyer's next bid is no lower than the last and never above the ceiling.
LEMMA BidInBand ==
  ASSUME NEW bid \in Nat, NEW ceiling \in Nat, bid <= ceiling
  PROVE  /\ nextBuyerBidPaise(bid, ceiling) \in Nat
         /\ bid <= nextBuyerBidPaise(bid, ceiling)
         /\ nextBuyerBidPaise(bid, ceiling) <= ceiling
  <1>1. PICK s \in Nat : s = concessionStepPaise(ceiling - bid)
    BY StepIsNatural
  <1> QED BY <1>1 DEF nextBuyerBidPaise, Lower

LEMMA AskIsNatural ==
  ASSUME NEW ask \in Nat, NEW bid \in Nat
  PROVE  nextSellerAskPaise(ask, bid) \in Nat
  <1>1. PICK s \in Nat : s = concessionStepPaise(ask - bid)
    BY StepIsNatural
  <1> QED BY <1>1 DEF nextSellerAskPaise, Higher

\* The merchant's band.
LEMMA AskInBand ==
  ASSUME NEW ask \in Nat, NEW terms \in Policies
  PROVE  /\ clampSellerAskPaise(ask, terms) \in Nat
         /\ terms.floor \in Nat
         /\ terms.floor <= clampSellerAskPaise(ask, terms)
         /\ clampSellerAskPaise(ask, terms) <= ListPrice
  <1>1. terms.floor \in 0..ListPrice /\ ListPrice \in Nat
    BY NegotiationAssumption
  <1> QED BY <1>1 DEF clampSellerAskPaise, Lower, Higher
-----------------------------------------------------------------------------
(* One call at a time *)

LEMMA ContractsStay ==
  ASSUME NEW k, NEW c, NEW t, NEW ks, NEW more, ks \subseteq more, Deal(k, c, t, ks)
  PROVE  Deal(k, c, t, more)
  BY DEF Deal, IsContracted

\* It is enough to look at the call that steps.
LEMMA OneCallSteps ==
  ASSUME Functions, EachCall, NEW k \in Calls, NEW c, NEW t, NEW e,
         calls' = [calls EXCEPT ![k] = c], turns' = [turns EXCEPT ![k] = t],
         escrow' = [escrow EXCEPT ![k] = e],
         contracts \subseteq contracts', CallInv(k, c, t, e, contracts')
  PROVE  Functions' /\ EachCall'
  <1>1. c \in CallStates /\ t \in TurnStates /\ e \in Escrows
    BY DEF CallInv
  <1>2. Functions'
    BY <1>1 DEF Functions
  <1>3. ASSUME NEW j \in Calls
        PROVE  CallInv(j, calls'[j], turns'[j], escrow'[j], contracts')
    <2>1. CASE j = k
      <3>1. calls'[j] = c /\ turns'[j] = t /\ escrow'[j] = e
        BY <2>1 DEF Functions
      <3> QED BY <2>1, <3>1
    <2>2. CASE j # k
      <3>1. calls'[j] = calls[j] /\ turns'[j] = turns[j] /\ escrow'[j] = escrow[j]
        BY <2>2 DEF Functions
      <3>2. CallInv(j, calls[j], turns[j], escrow[j], contracts)
        BY DEF EachCall
      <3>3. Deal(j, calls[j], turns[j], contracts')
        BY <3>2, ContractsStay DEF CallInv
      <3>4. CallInv(j, calls[j], turns[j], escrow[j], contracts')
        BY <3>2, <3>3 DEF CallInv
      <3> QED BY <3>1, <3>4
    <2> QED BY <2>1, <2>2
  <1>4. EachCall'
    BY <1>3 DEF EachCall
  <1> QED BY <1>2, <1>4

LEMMA RestStays ==
  /\ Environment /\ UNCHANGED <<policy, edits, faults>> => Environment'
  /\ Environment /\ UNCHANGED <<policy, edits>> /\ Fault => Environment'
  /\ Table /\ UNCHANGED negotiators => Table'
  /\ Paper /\ UNCHANGED <<contracts, agreements>> => Paper'
  <1>1. Environment /\ UNCHANGED <<policy, edits, faults>> => Environment'
    BY DEF Environment
  <1>2. Environment /\ UNCHANGED <<policy, edits>> /\ Fault => Environment'
    BY NegotiationAssumption DEF Environment, Fault
  <1>3. Table /\ UNCHANGED negotiators => Table'
    BY DEF Table
  <1>4. Paper /\ UNCHANGED <<contracts, agreements>> => Paper'
    BY DEF Paper, CeilingHeld
  <1> QED BY <1>1, <1>2, <1>3, <1>4

LEMMA NoTurnIsOne == NoTurn \in TurnStates /\ NoTurn.at = "none"
  BY DEF NoTurn, TurnStates

\* A call that opens its escrow, or fails to.
LEMMA OpeningKeeps ==
  ASSUME NEW k \in Calls, NEW c, NEW t, NEW e, NEW ks, CallInv(k, c, t, e, ks),
         c.at = "start", NEW d, NEW f,
         \/ /\ d = [c EXCEPT !.at = "bid", !.turn = 1]
            /\ f = [NoEscrow EXCEPT !.open = TRUE, !.remaining = initialEscrowPoolPaise]
         \/ /\ d = [c EXCEPT !.at = "failed"]
            /\ f = [NoEscrow EXCEPT !.open = TRUE, !.remaining = initialEscrowPoolPaise]
         \/ d = [c EXCEPT !.at = "failed"] /\ f = e
  PROVE  CallInv(k, d, t, f, ks)
  <1>1. /\ c \in CallStates /\ e \in Escrows /\ t = NoTurn /\ c.end = "none"
        /\ Request[k].opening <= c.bid /\ c.bid <= Request[k].ceiling
    BY DEF CallInv, Flow
  <1>2. /\ d \in CallStates /\ d.bid = c.bid /\ d.end = "none" /\ d.agreed = c.agreed
        /\ (d.at = "bid" /\ d.turn = 1 /\ 1 \in Turns) \/ (d.at = "failed" /\ d.turn = c.turn)
    <2>1. 1 \in Turns /\ 1 \in 0..maxNegotiationTurns
      <3>1. Request[k].turns \in 1..maxNegotiationTurns /\ maxNegotiationTurns \in Nat
        BY NegotiationAssumption
      <3> QED BY <3>1 DEF Turns
    <2>2. CASE d = [c EXCEPT !.at = "bid", !.turn = 1]
      BY <1>1, <2>1, <2>2 DEF CallStates
    <2>3. CASE d = [c EXCEPT !.at = "failed"]
      BY <1>1, <2>3 DEF CallStates
    <2> QED BY <2>2, <2>3
  <1>3. f \in Escrows
    <2>1. initialEscrowPoolPaise \in Nat
      BY NegotiationAssumption
    <2>2. [NoEscrow EXCEPT !.open = TRUE, !.remaining = initialEscrowPoolPaise] \in Escrows
      BY <2>1 DEF Escrows, NoEscrow
    <2> QED BY <1>1, <2>2
  <1>4. Flow(k, d, t)
    BY <1>1, <1>2, NoTurnIsOne DEF Flow
  <1>5. Paid(d, t, f)
    <2>1. PICK m \in Nat : m = c.turn * microFeePerTurnPaise
      BY <1>1, ProductIsNatural, NegotiationAssumption DEF CallStates
    <2>2. CASE d.at = "bid"
      <3>1. /\ f.debited = 0 /\ f.refunded = 0 /\ f.remaining = initialEscrowPoolPaise
            /\ f.released = FALSE
        BY <1>1, <2>2 DEF NoEscrow, CallStates
      <3>2. d.turn * microFeePerTurnPaise = microFeePerTurnPaise
        BY <1>2, <2>2, ProductIsNatural, NegotiationAssumption
      <3> QED BY <3>1, <3>2, NegotiationAssumption DEF Paid
    <2>3. CASE d.at = "failed"
      <3>1. ~Undebited(d, t)
        BY <1>1, <1>2, <2>3, NoTurnIsOne DEF Undebited
      <3>2. d.turn = c.turn
        BY <1>2, <2>3
      <3>3. CASE f = e
        BY <3>1, <3>2, <3>3 DEF CallInv, Paid
      <3>4. CASE f # e
        <4>1. /\ f.debited = 0 /\ f.refunded = 0 /\ f.remaining = initialEscrowPoolPaise
              /\ f.released = FALSE
          BY <1>1, <3>4 DEF NoEscrow
        <4> QED BY <2>1, <3>1, <3>2, <4>1, NegotiationAssumption DEF Paid
      <3> QED BY <3>3, <3>4
    <2> QED BY <1>2, <2>2, <2>3
  <1>6. Deal(k, d, t, ks)
    BY <1>2 DEF CallInv, Deal
  <1> QED BY <1>1, <1>2, <1>3, <1>4, <1>5, <1>6 DEF CallInv

LEMMA CreateEscrowKeeps ==
  ASSUME NegotiationInv, NEW k \in Calls, CreateEscrow(k)
  PROVE  NegotiationInv'
  <1>1. PICK c, t, e : /\ c = calls[k] /\ t = turns[k] /\ e = escrow[k]
                       /\ CallInv(k, c, t, e, contracts) /\ c.at = "start"
    BY DEF NegotiationInv, EachCall, CreateEscrow, At
  <1>2. PICK d, f :
          /\ calls' = [calls EXCEPT ![k] = d] /\ escrow' = [escrow EXCEPT ![k] = f]
          /\ \/ /\ d = [c EXCEPT !.at = "bid", !.turn = 1]
                /\ f = [NoEscrow EXCEPT !.open = TRUE, !.remaining = initialEscrowPoolPaise]
             \/ /\ d = [c EXCEPT !.at = "failed"]
                /\ f = [NoEscrow EXCEPT !.open = TRUE, !.remaining = initialEscrowPoolPaise]
             \/ d = [c EXCEPT !.at = "failed"] /\ f = e
          /\ UNCHANGED faults \/ Fault
    <2>1. CASE /\ escrow' = [escrow EXCEPT ![k] = [NoEscrow EXCEPT !.open = TRUE,
                                             !.remaining = initialEscrowPoolPaise]]
               /\ calls' = [calls EXCEPT ![k].at = "bid", ![k].turn = 1]
               /\ UNCHANGED faults
      <3>1. calls' = [calls EXCEPT ![k] = [c EXCEPT !.at = "bid", !.turn = 1]]
        BY <1>1, <2>1 DEF NegotiationInv, Functions
      <3> QED BY <2>1, <3>1
    <2>2. CASE /\ escrow' = [escrow EXCEPT ![k] = [NoEscrow EXCEPT !.open = TRUE,
                                             !.remaining = initialEscrowPoolPaise]]
               /\ calls' = [calls EXCEPT ![k].at = "failed"]
               /\ Fault
      <3>1. calls' = [calls EXCEPT ![k] = [c EXCEPT !.at = "failed"]]
        BY <1>1, <2>2 DEF NegotiationInv, Functions
      <3> QED BY <2>2, <3>1
    <2>3. CASE /\ UNCHANGED escrow /\ Fault
               /\ calls' = [calls EXCEPT ![k].at = "failed"]
      <3>1. calls' = [calls EXCEPT ![k] = [c EXCEPT !.at = "failed"]]
        BY <1>1, <2>3 DEF NegotiationInv, Functions
      <3>2. escrow' = [escrow EXCEPT ![k] = e]
        BY <1>1, <2>3 DEF NegotiationInv, Functions
      <3> QED BY <2>3, <3>1, <3>2
    <2> QED BY <2>1, <2>2, <2>3 DEF CreateEscrow
  <1>3. CallInv(k, d, t, f, contracts')
    <2>1. CallInv(k, d, t, f, contracts)
      BY <1>1, <1>2, OpeningKeeps
    <2> QED BY <2>1 DEF CreateEscrow
  <1>4. turns' = [turns EXCEPT ![k] = t]
    BY <1>1 DEF NegotiationInv, Functions, CreateEscrow
  <1>5. Functions' /\ EachCall'
    <2>1. contracts \subseteq contracts'
      BY DEF CreateEscrow
    <2> QED BY <1>2, <1>3, <1>4, <2>1, OneCallSteps DEF NegotiationInv
  <1>6. Environment' /\ Table' /\ Paper'
    BY <1>2, RestStays DEF NegotiationInv, CreateEscrow
  <1> QED BY <1>5, <1>6 DEF NegotiationInv

-----------------------------------------------------------------------------
(* The steps of the tool's loop *)

LEMMA SubmittingKeeps ==
  ASSUME NEW k \in Calls, NEW c, NEW t, NEW e, NEW ks, CallInv(k, c, t, e, ks),
         c.at = "bid", NEW d, d = [c EXCEPT !.at = "wait"],
         NEW u, u = [at |-> "sent", turn |-> c.turn, bid |-> c.bid, ask |-> c.ask]
  PROVE  CallInv(k, d, u, e, ks)
  <1>1. /\ c \in CallStates /\ e \in Escrows /\ c.turn \in Turns /\ c.end = "none"
        /\ Request[k].opening <= c.bid /\ c.bid <= Request[k].ceiling
    BY DEF CallInv, Flow
  <1>2. /\ d \in CallStates /\ d.bid = c.bid /\ d.end = "none" /\ d.agreed = c.agreed
        /\ d.turn = c.turn /\ d.at = "wait"
    BY <1>1 DEF CallStates
  <1>3. u \in TurnStates /\ u.at = "sent" /\ u.bid = c.bid
    BY <1>1 DEF TurnStates, CallStates
  <1>4. Flow(k, d, u)
    BY <1>1, <1>2, <1>3 DEF Flow
  <1>5. Paid(d, u, e)
    <2>1. Undebited(c, t)
      BY DEF Undebited
    <2> QED BY <1>2, <2>1 DEF CallInv, Paid
  <1>6. Deal(k, d, u, ks)
    BY <1>2, <1>3 DEF CallInv, Deal
  <1> QED BY <1>1, <1>2, <1>3, <1>4, <1>5, <1>6 DEF CallInv

LEMMA EndingKeeps ==
  ASSUME NEW k \in Calls, NEW c, NEW t, NEW e, NEW ks, CallInv(k, c, t, e, ks),
         c.at \in {"bid", "wait"}, NEW how \in {"error", "unsolved"},
         NEW d, d = [c EXCEPT !.at = "release", !.end = how]
  PROVE  CallInv(k, d, t, e, ks)
  <1>1. c \in CallStates /\ c.end = "none"
    BY DEF CallInv, Flow
  <1>2. /\ d \in CallStates /\ d.bid = c.bid /\ d.end = how /\ d.agreed = c.agreed
        /\ d.turn = c.turn /\ d.at = "release"
    BY <1>1 DEF CallStates
  <1>3. Flow(k, d, t)
    BY <1>1, <1>2 DEF Flow, CallInv
  <1>4. Paid(d, t, e)
    <2>1. Undebited(d, t) => Undebited(c, t)
      BY <1>2 DEF Undebited
    <2> QED BY <1>2, <2>1 DEF CallInv, Paid
  <1>5. Deal(k, d, t, ks)
    BY <1>2 DEF CallInv, Deal
  <1> QED BY <1>2, <1>3, <1>4, <1>5 DEF CallInv

\* An answer arrives: the call ends, agreed or not, or takes its next turn.
Answered(k, c, t, d) ==
  \/ t.at = "forbidden" /\ d = [c EXCEPT !.at = "release", !.end = "declined"]
  \/ /\ t.at \in {"conflict", "unpaid", "backwards"}
     /\ d = [c EXCEPT !.at = "release", !.end = "error"]
  \/ /\ t.at = "done" /\ t.converged
     /\ d = [c EXCEPT !.at = "release", !.end = "converged", !.fees = t.fees,
                      !.agreed = {t.ask}]
  \/ /\ t.at = "done"
     /\ d = [c EXCEPT !.at = "release", !.end = "exhausted", !.fees = t.fees]
  \/ /\ t.at = "done" /\ c.turn < Request[k].turns
     /\ d = [c EXCEPT !.at = "bid", !.turn = c.turn + 1, !.fees = t.fees,
                      !.ask = nextSellerAskPaise(c.ask, c.bid),
                      !.bid = nextBuyerBidPaise(c.bid, Request[k].ceiling)]

LEMMA AnswerKeeps ==
  ASSUME NEW k \in Calls, NEW c, NEW t, NEW e, NEW ks, CallInv(k, c, t, e, ks),
         c.at = "wait", NEW d, Answered(k, c, t, d)
  PROVE  CallInv(k, d, NoTurn, e, ks)
  <1>1. /\ c \in CallStates /\ t \in TurnStates /\ e \in Escrows
        /\ c.turn \in Turns /\ c.end = "none" /\ c.bid \in Nat /\ c.ask \in Nat
        /\ Request[k].opening <= c.bid /\ c.bid <= Request[k].ceiling
    BY DEF CallInv, Flow, CallStates
  <1>2. /\ Request[k].opening \in Nat /\ Request[k].ceiling \in Nat
        /\ Request[k].turns \in Turns /\ maxNegotiationTurns \in Nat
    BY NegotiationAssumption DEF Turns
  <1>3. t.at = "done" => t.ask \in Nat /\ t.fees \in Nat
    BY <1>1 DEF TurnStates, NoTurn
  <1>4. e.debited \in Nat /\ microFeePerTurnPaise \in Nat
    BY <1>1, NegotiationAssumption DEF Escrows
  <1>5. PICK m \in Nat : m = c.turn * microFeePerTurnPaise
    BY <1>1, <1>4, ProductIsNatural DEF Turns
  <1>6. e.debited <= m
    BY <1>5 DEF CallInv, Paid
  <1>7. CASE t.at = "forbidden" /\ d = [c EXCEPT !.at = "release", !.end = "declined"]
    <2>1. /\ d \in CallStates /\ d.bid = c.bid /\ d.end = "declined" /\ d.agreed = c.agreed
          /\ d.turn = c.turn /\ d.at = "release"
      BY <1>1, <1>7 DEF CallStates
    <2>2. Flow(k, d, NoTurn)
      BY <1>1, <2>1, NoTurnIsOne DEF Flow
    <2>3. Undebited(c, t)
      BY <1>7 DEF Undebited
    <2>4. Paid(d, NoTurn, e)
      BY <2>1, <2>3 DEF CallInv, Paid
    <2>5. Deal(k, d, NoTurn, ks)
      BY <2>1, NoTurnIsOne DEF CallInv, Deal
    <2> QED BY <1>1, <2>1, <2>2, <2>4, <2>5, NoTurnIsOne DEF CallInv
  <1>8. ASSUME d \in CallStates, d.bid = c.bid, d.end \in {"error", "exhausted", "converged"},
               d.turn = c.turn, d.at = "release",
               \A p \in d.agreed : p \in c.agreed \/ IsContracted(k, p, ks)
        PROVE  CallInv(k, d, NoTurn, e, ks)
    <2>1. Flow(k, d, NoTurn)
      BY <1>1, <1>8, NoTurnIsOne DEF Flow
    <2>2. ~Undebited(d, NoTurn)
      BY <1>8, NoTurnIsOne DEF Undebited
    <2>3. Paid(d, NoTurn, e)
      BY <1>8, <2>2 DEF CallInv, Paid
    <2>4. Deal(k, d, NoTurn, ks)
      BY <1>8, NoTurnIsOne DEF CallInv, Deal
    <2> QED BY <1>1, <1>8, <2>1, <2>3, <2>4, NoTurnIsOne DEF CallInv
  <1>9. CASE d = [c EXCEPT !.at = "release", !.end = "error"]
    <2>1. /\ d \in CallStates /\ d.bid = c.bid /\ d.end = "error" /\ d.agreed = c.agreed
          /\ d.turn = c.turn /\ d.at = "release"
      BY <1>1, <1>9 DEF CallStates
    <2> QED BY <1>8, <2>1
  <1>10. CASE /\ t.at = "done" /\ t.converged
              /\ d = [c EXCEPT !.at = "release", !.end = "converged", !.fees = t.fees,
                               !.agreed = {t.ask}]
    <2>1. /\ d \in CallStates /\ d.bid = c.bid /\ d.end = "converged" /\ d.agreed = {t.ask}
          /\ d.turn = c.turn /\ d.at = "release"
      BY <1>1, <1>3, <1>10 DEF CallStates
    <2>2. IsContracted(k, t.ask, ks)
      BY <1>10 DEF CallInv, Deal
    <2> QED BY <1>8, <2>1, <2>2
  <1>11. CASE /\ t.at = "done"
              /\ d = [c EXCEPT !.at = "release", !.end = "exhausted", !.fees = t.fees]
    <2>1. /\ d \in CallStates /\ d.bid = c.bid /\ d.end = "exhausted" /\ d.agreed = c.agreed
          /\ d.turn = c.turn /\ d.at = "release"
      BY <1>1, <1>3, <1>11 DEF CallStates
    <2> QED BY <1>8, <2>1
  <1>12. CASE /\ t.at = "done" /\ c.turn < Request[k].turns
              /\ d = [c EXCEPT !.at = "bid", !.turn = c.turn + 1, !.fees = t.fees,
                               !.ask = nextSellerAskPaise(c.ask, c.bid),
                               !.bid = nextBuyerBidPaise(c.bid, Request[k].ceiling)]
    <2>1. PICK a \in Nat, b \in Nat :
            /\ a = nextSellerAskPaise(c.ask, c.bid)
            /\ b = nextBuyerBidPaise(c.bid, Request[k].ceiling)
            /\ c.bid <= b /\ b <= Request[k].ceiling
      BY <1>1, <1>2, AskIsNatural, BidInBand
    <2>2. PICK n \in Turns : n = c.turn + 1
      BY <1>1, <1>2, <1>12 DEF Turns
    <2>3. d = [c EXCEPT !.at = "bid", !.turn = n, !.fees = t.fees, !.ask = a, !.bid = b]
      BY <1>12, <2>1, <2>2
    <2>4. n \in 0..maxNegotiationTurns
      BY <1>2 DEF Turns
    <2>5. /\ d \in CallStates /\ d.bid = b /\ d.end = "none" /\ d.agreed = c.agreed
          /\ d.turn = n /\ d.at = "bid"
      BY <1>1, <1>3, <1>12, <2>3, <2>4 DEF CallStates
    <2>6. Request[k].opening <= b
      BY <1>1, <1>2, <2>1
    <2>7. Flow(k, d, NoTurn)
      BY <2>1, <2>2, <2>5, <2>6, NoTurnIsOne DEF Flow
    <2>8. n * microFeePerTurnPaise = m + microFeePerTurnPaise
      <3>1. c.turn \in Nat
        BY <1>1 DEF Turns
      <3> QED BY <1>4, <1>5, <2>2, <3>1, ProductIsNatural
    <2>9. Paid(d, NoTurn, e)
      <3>1. /\ e.debited <= n * microFeePerTurnPaise
            /\ e.debited + microFeePerTurnPaise <= n * microFeePerTurnPaise
        BY <1>4, <1>6, <2>8
      <3> QED BY <2>5, <3>1 DEF CallInv, Paid
    <2>10. Deal(k, d, NoTurn, ks)
      BY <2>5, NoTurnIsOne DEF CallInv, Deal
    <2> QED BY <1>1, <2>5, <2>7, <2>9, <2>10, NoTurnIsOne DEF CallInv
  <1> QED BY <1>7, <1>9, <1>10, <1>11, <1>12 DEF Answered

LEMMA ReleasingKeeps ==
  ASSUME NEW k \in Calls, NEW c, NEW t, NEW e, NEW ks, CallInv(k, c, t, e, ks),
         c.at = "release", NEW d, d = [c EXCEPT !.at = "over"],
         NEW f, \/ f = e
                \/ f = [e EXCEPT !.refunded = e.refunded + e.remaining, !.remaining = 0,
                                 !.released = TRUE]
  PROVE  CallInv(k, d, t, f, ks)
  <1>1. c \in CallStates /\ e \in Escrows
    BY DEF CallInv
  <1>2. /\ d \in CallStates /\ d.bid = c.bid /\ d.end = c.end /\ d.agreed = c.agreed
        /\ d.turn = c.turn /\ d.at = "over"
    BY <1>1 DEF CallStates
  <1>3. PICK held \in Nat, gone \in Nat, back \in Nat :
          held = e.remaining /\ gone = e.debited /\ back = e.refunded
    BY <1>1 DEF Escrows
  <1>4. /\ f \in Escrows /\ f.debited = gone /\ f.open = e.open
        /\ f.remaining + f.debited + f.refunded = held + gone + back
        /\ f.released => f.remaining = 0 \/ f = e
    <2>1. CASE f = e
      BY <1>1, <1>3, <2>1
    <2>2. CASE f = [e EXCEPT !.refunded = e.refunded + e.remaining, !.remaining = 0,
                             !.released = TRUE]
      <3>1. PICK n \in Nat : n = back + held
        OBVIOUS
      <3>2. f = [e EXCEPT !.refunded = n, !.remaining = 0, !.released = TRUE]
        BY <1>3, <2>2, <3>1
      <3>3. f \in Escrows /\ f.remaining = 0 /\ f.refunded = n
        BY <1>1, <3>2 DEF Escrows
      <3>4. f.debited = e.debited /\ f.open = e.open
        BY <1>1, <3>2 DEF Escrows
      <3> QED BY <1>3, <3>1, <3>3, <3>4
    <2> QED BY <2>1, <2>2
  <1>5. Flow(k, d, t)
    BY <1>2 DEF CallInv, Flow
  <1>6. Paid(d, t, f)
    <2>1. Undebited(d, t) => Undebited(c, t)
      BY <1>2 DEF Undebited
    <2> QED BY <1>2, <1>3, <1>4, <2>1 DEF CallInv, Paid
  <1>7. Deal(k, d, t, ks)
    BY <1>2 DEF CallInv, Deal
  <1> QED BY <1>2, <1>4, <1>5, <1>6, <1>7 DEF CallInv

LEMMA SubmitTurnKeeps ==
  ASSUME NegotiationInv, NEW k \in Calls, SubmitTurn(k)
  PROVE  NegotiationInv'
  <1>1. PICK c, t, e : /\ c = calls[k] /\ t = turns[k] /\ e = escrow[k]
                       /\ CallInv(k, c, t, e, contracts) /\ c.at = "bid"
    BY DEF NegotiationInv, EachCall, SubmitTurn, At
  <1>2. PICK d, u : /\ d = [c EXCEPT !.at = "wait"]
                    /\ u = [at |-> "sent", turn |-> c.turn, bid |-> c.bid, ask |-> c.ask]
    OBVIOUS
  <1>3. calls' = [calls EXCEPT ![k] = d] /\ turns' = [turns EXCEPT ![k] = u]
    BY <1>1, <1>2 DEF NegotiationInv, Functions, SubmitTurn
  <1>4. escrow' = [escrow EXCEPT ![k] = e]
    BY <1>1 DEF NegotiationInv, Functions, SubmitTurn, gateway
  <1>5. CallInv(k, d, u, e, contracts') /\ contracts \subseteq contracts'
    BY <1>1, <1>2, SubmittingKeeps DEF SubmitTurn, gateway
  <1>6. Functions' /\ EachCall'
    BY <1>3, <1>4, <1>5, OneCallSteps DEF NegotiationInv
  <1>7. Environment' /\ Table' /\ Paper'
    BY RestStays DEF NegotiationInv, SubmitTurn, gateway
  <1> QED BY <1>6, <1>7 DEF NegotiationInv

LEMMA FailingKeeps ==
  ASSUME NegotiationInv, NEW k \in Calls, GiveUp(k) \/ TimeOut(k)
  PROVE  NegotiationInv'
  <1>1. PICK c, t, e : /\ c = calls[k] /\ t = turns[k] /\ e = escrow[k]
                       /\ CallInv(k, c, t, e, contracts) /\ c.at \in {"bid", "wait"}
    BY DEF NegotiationInv, EachCall, GiveUp, TimeOut, At
  <1>2. PICK how \in {"error", "unsolved"} : End(k, how)
    BY DEF GiveUp, TimeOut
  <1>3. PICK d : d = [c EXCEPT !.at = "release", !.end = how]
    OBVIOUS
  <1>4. calls' = [calls EXCEPT ![k] = d]
    BY <1>1, <1>2, <1>3 DEF NegotiationInv, Functions, End
  <1>5. UNCHANGED <<policy, turns, agreements, gateway, edits>> /\ Fault
    BY DEF GiveUp, TimeOut
  <1>6. turns' = [turns EXCEPT ![k] = t] /\ escrow' = [escrow EXCEPT ![k] = e]
    BY <1>1, <1>5 DEF NegotiationInv, Functions, gateway
  <1>7. CallInv(k, d, t, e, contracts') /\ contracts \subseteq contracts'
    BY <1>1, <1>3, <1>5, EndingKeeps DEF gateway
  <1>8. Functions' /\ EachCall'
    BY <1>4, <1>6, <1>7, OneCallSteps DEF NegotiationInv
  <1>9. Environment' /\ Table' /\ Paper'
    BY <1>5, RestStays DEF NegotiationInv, gateway
  <1> QED BY <1>8, <1>9 DEF NegotiationInv

LEMMA ReceiveAnswerKeeps ==
  ASSUME NegotiationInv, NEW k \in Calls, ReceiveAnswer(k)
  PROVE  NegotiationInv'
  <1>1. PICK c, t, e : /\ c = calls[k] /\ t = turns[k] /\ e = escrow[k]
                       /\ CallInv(k, c, t, e, contracts) /\ c.at = "wait"
    BY DEF NegotiationInv, EachCall, ReceiveAnswer, At
  <1>2. PICK d : calls' = [calls EXCEPT ![k] = d] /\ Answered(k, c, t, d)
    <2>1. ASSUME NEW how, End(k, how)
          PROVE  calls' = [calls EXCEPT ![k] = [c EXCEPT !.at = "release", !.end = how]]
      BY <1>1, <2>1 DEF NegotiationInv, Functions, End
    <2>2. CASE t.at = "forbidden" /\ End(k, "declined")
      BY <2>1, <2>2 DEF Answered
    <2>3. CASE t.at \in {"conflict", "unpaid", "backwards"} /\ FailOnRefusal(k)
      BY <2>1, <2>3 DEF FailOnRefusal, Answered
    <2> QED BY <1>1, <2>2, <2>3 DEF ReceiveAnswer, AgreedPrice, Answered
  <1>3. UNCHANGED <<policy, agreements, gateway, edits, faults>>
        /\ turns' = [turns EXCEPT ![k] = NoTurn]
    BY DEF ReceiveAnswer
  <1>4. escrow' = [escrow EXCEPT ![k] = e]
    BY <1>1, <1>3 DEF NegotiationInv, Functions, gateway
  <1>5. CallInv(k, d, NoTurn, e, contracts') /\ contracts \subseteq contracts'
    <2>1. CallInv(k, d, NoTurn, e, contracts)
      BY <1>1, <1>2, AnswerKeeps
    <2> QED BY <1>3, <2>1 DEF gateway
  <1>6. Functions' /\ EachCall'
    BY <1>2, <1>3, <1>4, <1>5, OneCallSteps DEF NegotiationInv
  <1>7. Environment' /\ Table' /\ Paper'
    BY <1>3, RestStays DEF NegotiationInv, gateway
  <1> QED BY <1>6, <1>7 DEF NegotiationInv

\* What the tool records is a contract's price.
LEMMA ReleaseKeeps ==
  ASSUME NegotiationInv, NEW k \in Calls, Release(k)
  PROVE  NegotiationInv'
  <1>1. PICK c, t, e : /\ c = calls[k] /\ t = turns[k] /\ e = escrow[k]
                       /\ CallInv(k, c, t, e, contracts) /\ c.at = "release"
    BY DEF NegotiationInv, EachCall, Release, At
  <1>2. PICK d : d = [c EXCEPT !.at = "over"]
    OBVIOUS
  <1>3. calls' = [calls EXCEPT ![k] = d]
    BY <1>1, <1>2 DEF NegotiationInv, Functions, Release
  <1>4. PICK f : /\ escrow' = [escrow EXCEPT ![k] = f]
                 /\ \/ f = e
                    \/ f = [e EXCEPT !.refunded = e.refunded + e.remaining, !.remaining = 0,
                                     !.released = TRUE]
    <2>1. CASE ReleaseSession(k)
      <3>1. escrow' = [escrow EXCEPT ![k] =
                         [e EXCEPT !.refunded = e.refunded + e.remaining, !.remaining = 0,
                                   !.released = TRUE]]
        BY <1>1, <2>1, Zenon DEF ReleaseSession
      <3> QED BY <3>1
    <2>2. CASE UNCHANGED escrow
      <3>1. escrow' = [escrow EXCEPT ![k] = e]
        BY <1>1, <2>2 DEF NegotiationInv, Functions
      <3> QED BY <3>1
    <2> QED BY <2>1, <2>2 DEF Release
  <1>5. turns' = [turns EXCEPT ![k] = t] /\ contracts' = contracts
    BY <1>1 DEF NegotiationInv, Functions, Release
  <1>6. CallInv(k, d, t, f, contracts)
    BY <1>1, <1>2, <1>4, ReleasingKeeps
  <1>7. Functions' /\ EachCall'
    BY <1>3, <1>4, <1>5, <1>6, OneCallSteps DEF NegotiationInv
  <1>8. Paper'
    <2>1. \A p \in c.agreed : p \in Nat /\ IsContracted(k, p, contracts)
      BY <1>1 DEF CallInv, Deal, CallStates
    <2>2. agreements' = agreements \cup {[call |-> k, price |-> p] : p \in c.agreed}
      BY <1>1 DEF Release
    <2>3. ASSUME NEW a \in agreements'
          PROVE  /\ a \in [call: Calls, price: Nat]
                 /\ \E x \in contracts : x.call = a.call /\ x.price = a.price
      <3>1. CASE a \in agreements
        BY <3>1 DEF NegotiationInv, Paper, CeilingHeld
      <3>2. CASE a \notin agreements
        <4>1. PICK p \in c.agreed : a = [call |-> k, price |-> p]
          BY <2>2, <2>3, <3>2
        <4> QED BY <2>1, <4>1 DEF IsContracted
      <3> QED BY <3>1, <3>2
    <2> QED BY <1>5, <2>3 DEF NegotiationInv, Paper, CeilingHeld
  <1>9. Environment' /\ Table'
    BY RestStays DEF NegotiationInv, Release
  <1> QED BY <1>7, <1>8, <1>9 DEF NegotiationInv

-----------------------------------------------------------------------------
(* The steps of the gateway *)

LEMMA ReadingKeeps ==
  ASSUME NEW k \in Calls, NEW c, NEW t, NEW e, NEW ks, CallInv(k, c, t, e, ks),
         t.at = "sent", NEW terms \in Policies,
         NEW u, u = [at |-> "read", turn |-> t.turn, bid |-> t.bid, ask |-> t.ask,
                     terms |-> terms]
  PROVE  CallInv(k, c, u, e, ks)
  <1>1. c \in CallStates /\ t \in TurnStates /\ e \in Escrows
    BY DEF CallInv
  <1>2. u \in TurnStates /\ u.at = "read" /\ u.bid = t.bid
    <2>1. t \in [at: {"sent"}, turn: Turns, bid: Nat, ask: Nat]
      BY <1>1, NoTurnIsOne DEF TurnStates
    <2> QED BY <2>1 DEF TurnStates
  <1>3. t # NoTurn
    BY NoTurnIsOne
  <1>4. Flow(k, c, u)
    BY <1>2, <1>3 DEF CallInv, Flow
  <1>5. Paid(c, u, e)
    <2>1. Undebited(c, t)
      BY DEF Undebited
    <2> QED BY <2>1 DEF CallInv, Paid
  <1>6. Deal(k, c, u, ks)
    BY <1>2 DEF CallInv, Deal
  <1> QED BY <1>1, <1>2, <1>4, <1>5, <1>6 DEF CallInv

LEMMA RefusingKeeps ==
  ASSUME NEW k \in Calls, NEW c, NEW t, NEW e, NEW ks, CallInv(k, c, t, e, ks),
         t.at = "read", NEW how \in {"forbidden", "conflict", "unpaid"},
         NEW u, u = [at |-> how]
  PROVE  CallInv(k, c, u, e, ks)
  <1>1. c \in CallStates /\ e \in Escrows
    BY DEF CallInv
  <1>2. u \in TurnStates /\ u.at = how
    BY DEF TurnStates
  <1>3. t # NoTurn
    BY NoTurnIsOne
  <1>4. Flow(k, c, u)
    BY <1>2, <1>3 DEF CallInv, Flow
  <1>5. Paid(c, u, e)
    <2>1. Undebited(c, t)
      BY DEF Undebited
    <2> QED BY <2>1 DEF CallInv, Paid
  <1>6. Deal(k, c, u, ks)
    BY <1>2 DEF CallInv, Deal
  <1> QED BY <1>1, <1>2, <1>4, <1>5, <1>6 DEF CallInv

LEMMA DebitingKeeps ==
  ASSUME NEW k \in Calls, NEW c, NEW t, NEW e, NEW ks, CallInv(k, c, t, e, ks),
         t.at = "read", ~e.released, e.remaining >= microFeePerTurnPaise,
         NEW f, f = [e EXCEPT !.remaining = e.remaining - microFeePerTurnPaise,
                              !.debited = e.debited + microFeePerTurnPaise],
         NEW more, ks \subseteq more,
         NEW u \in TurnStates, u.at \in {"backwards", "done"},
         u.at = "done" => (u.converged => IsContracted(k, u.ask, more))
  PROVE  CallInv(k, c, u, f, more)
  <1>1. c \in CallStates /\ e \in Escrows /\ t # NoTurn
    BY NoTurnIsOne DEF CallInv
  <1>2. PICK held \in Nat, gone \in Nat, back \in Nat, fee \in Nat :
          /\ held = e.remaining /\ gone = e.debited /\ back = e.refunded
          /\ fee = microFeePerTurnPaise
    BY <1>1, NegotiationAssumption DEF Escrows
  <1>3. PICK less \in Nat, spent \in Nat : less = held - fee /\ spent = gone + fee
    BY <1>2
  <1>4. f = [e EXCEPT !.remaining = less, !.debited = spent]
    BY <1>2, <1>3
  <1>5. /\ f \in Escrows /\ f.remaining = less /\ f.debited = spent
        /\ f.refunded = back /\ f.open = e.open /\ f.released = e.released
    BY <1>1, <1>2, <1>4 DEF Escrows
  <1>6. Flow(k, c, u)
    BY <1>1 DEF CallInv, Flow
  <1>7. ~Undebited(c, u)
    BY <1>1 DEF CallInv, Flow, Undebited
  <1>8. Paid(c, u, f)
    <2>1. gone + fee <= c.turn * fee
      BY <1>2 DEF CallInv, Paid, Undebited
    <2>2. f.debited <= c.turn * microFeePerTurnPaise
      BY <1>2, <1>3, <1>5, <2>1
    <2>3. f.open => f.remaining + f.debited + f.refunded = initialEscrowPoolPaise
      <3>1. e.open => held + gone + back = initialEscrowPoolPaise
        BY <1>2 DEF CallInv, Paid
      <3> QED BY <1>2, <1>3, <1>5, <3>1
    <2> QED BY <1>5, <1>7, <2>2, <2>3 DEF Paid
  <1>9. Deal(k, c, u, more)
    BY ContractsStay DEF CallInv, Deal, IsContracted
  <1> QED BY <1>1, <1>5, <1>6, <1>8, <1>9 DEF CallInv

LEMMA ReadTermsKeeps ==
  ASSUME NegotiationInv, NEW k \in Calls, ReadTerms(k)
  PROVE  NegotiationInv'
  <1>1. PICK c, t, e : /\ c = calls[k] /\ t = turns[k] /\ e = escrow[k]
                       /\ CallInv(k, c, t, e, contracts) /\ t.at = "sent"
    BY DEF NegotiationInv, EachCall, ReadTerms
  <1>2. PICK terms \in Policies : terms = policy
    BY DEF NegotiationInv, Environment
  <1>3. PICK u : u = [at |-> "read", turn |-> t.turn, bid |-> t.bid, ask |-> t.ask,
                      terms |-> terms]
    OBVIOUS
  <1>4. turns' = [turns EXCEPT ![k] = u]
    BY <1>1, <1>2, <1>3 DEF ReadTerms
  <1>5. calls' = [calls EXCEPT ![k] = c] /\ escrow' = [escrow EXCEPT ![k] = e]
    BY <1>1 DEF NegotiationInv, Functions, ReadTerms, client, gateway
  <1>6. CallInv(k, c, u, e, contracts') /\ contracts \subseteq contracts'
    BY <1>1, <1>3, ReadingKeeps DEF ReadTerms, gateway
  <1>7. Functions' /\ EachCall'
    BY <1>4, <1>5, <1>6, OneCallSteps DEF NegotiationInv
  <1>8. Environment' /\ Table' /\ Paper'
    BY RestStays DEF NegotiationInv, ReadTerms, client, gateway
  <1> QED BY <1>7, <1>8 DEF NegotiationInv

LEMMA RefusedTurnKeeps ==
  ASSUME NegotiationInv, NEW k \in Calls, turns[k].at = "read",
         NEW how \in {"forbidden", "conflict", "unpaid"}, Refuse(k, how),
         UNCHANGED <<policy, client, gateway, edits, faults>>
  PROVE  NegotiationInv'
  <1>1. PICK c, t, e : /\ c = calls[k] /\ t = turns[k] /\ e = escrow[k]
                       /\ CallInv(k, c, t, e, contracts) /\ t.at = "read"
    BY DEF NegotiationInv, EachCall
  <1>2. PICK u : u = [at |-> how]
    OBVIOUS
  <1>3. turns' = [turns EXCEPT ![k] = u]
    BY <1>2 DEF Refuse, Answer
  <1>4. calls' = [calls EXCEPT ![k] = c] /\ escrow' = [escrow EXCEPT ![k] = e]
    BY <1>1 DEF NegotiationInv, Functions, client, gateway
  <1>5. CallInv(k, c, u, e, contracts') /\ contracts \subseteq contracts'
    BY <1>1, <1>2, RefusingKeeps DEF gateway
  <1>6. Functions' /\ EachCall'
    BY <1>3, <1>4, <1>5, OneCallSteps DEF NegotiationInv
  <1>7. Environment' /\ Table' /\ Paper'
    BY RestStays DEF NegotiationInv, client, gateway
  <1> QED BY <1>6, <1>7 DEF NegotiationInv

\* The negotiators stay typed, and a compiled contract lies in both bands.
LEMMA RoundKeeps ==
  ASSUME NegotiationInv, NEW k \in Calls, NEW t, t = turns[k], t.at = "read",
         NEW ask, ask = clampSellerAskPaise(t.ask, t.terms), Round(k, t.bid, ask),
         UNCHANGED agreements
  PROVE  /\ Table' /\ Paper' /\ contracts \subseteq contracts'
         /\ \E u \in TurnStates :
              /\ turns' = [turns EXCEPT ![k] = u] /\ u.at \in {"backwards", "done"}
              /\ u.at = "done" => (u.converged => IsContracted(k, u.ask, contracts'))
  <1>1. /\ t \in [at: {"read"}, turn: Turns, bid: Nat, ask: Nat, terms: Policies]
        /\ t.bid <= Request[k].ceiling
    BY NoTurnIsOne DEF NegotiationInv, EachCall, CallInv, Flow, TurnStates
  <1>2. /\ ask \in Nat /\ t.terms.floor \in Nat /\ t.terms.floor <= ask
        /\ ask <= ListPrice
    BY <1>1, AskInBand
  <1>3. BuyerOf(k) \in Buyers /\ Request[k].ceiling \in Nat
    BY NegotiationAssumption DEF BuyerOf
  <1>4. PICK fees \in Nat : fees = FeesBefore(BuyerOf(k)) + microFeePerTurnPaise
    BY NegotiationAssumption DEF FeesBefore, NegotiationInv, Table
  <1>5. CASE ~IsMonotonic(BuyerOf(k), t.bid, ask)
    <2>1. Refuse(k, "backwards") /\ UNCHANGED <<negotiators, contracts>>
      BY <1>5 DEF Round
    <2>2. PICK u \in TurnStates : u = [at |-> "backwards"]
      BY DEF TurnStates
    <2>3. turns' = [turns EXCEPT ![k] = u] /\ u.at = "backwards"
      BY <2>1, <2>2 DEF Refuse, Answer
    <2> QED BY <2>1, <2>3, RestStays DEF NegotiationInv
  <1>6. CASE IsMonotonic(BuyerOf(k), t.bid, ask)
    <2>1. PICK converged \in BOOLEAN : converged = (t.bid >= ask)
      <3>1. (t.bid >= ask) \in BOOLEAN
        BY <1>1, <1>2
      <3> QED BY <3>1, Zenon
    <2>2. PICK u \in TurnStates :
            u = [at |-> "done", ask |-> ask, converged |-> converged, fees |-> fees]
      BY <1>2 DEF TurnStates
    <2>3. turns' = [turns EXCEPT ![k] = u]
      BY <1>4, <1>6, <2>1, <2>2 DEF Round, Answer
    <2>4. negotiators' =
             IF converged THEN Without(negotiators, BuyerOf(k))
             ELSE With(negotiators, BuyerOf(k), [bid |-> t.bid, ask |-> ask, fees |-> fees])
      BY <1>4, <1>6, <2>1 DEF Round
    <2>5. PICK x : x = [call |-> k, price |-> ask, floor |-> t.terms.floor]
      OBVIOUS
    <2>6. contracts' = IF converged THEN contracts \cup {x} ELSE contracts
      BY <1>6, <2>1, <2>5 DEF Round
    <2>7. Table'
      <3>1. CASE converged
        BY <2>4, <3>1 DEF NegotiationInv, Table, Without
      <3>2. CASE ~converged
        <4>1. [bid |-> t.bid, ask |-> ask, fees |-> fees] \in [bid: Nat, ask: Nat, fees: Nat]
          BY <1>1, <1>2
        <4> QED BY <1>3, <2>4, <3>2, <4>1 DEF NegotiationInv, Table, With
      <3> QED BY <3>1, <3>2
    <2>8. Paper'
      <3>1. CASE converged
        <4>1. ask <= t.bid
          <5>1. t.bid >= ask
            BY <2>1, <3>1, Zenon
          <5> QED BY <1>1, <1>2, <5>1
        <4>2. ask <= Request[k].ceiling
          BY <1>1, <1>2, <1>3, <4>1
        <4>3. x \in [call: Calls, price: Nat, floor: Nat]
          BY <1>2, <2>5
        <4>4. /\ x.floor <= x.price /\ x.price <= ListPrice
              /\ x.price <= Request[x.call].ceiling
          BY <1>2, <2>5, <4>2
        <4> QED BY <2>6, <3>1, <4>3, <4>4 DEF NegotiationInv, Paper, CeilingHeld
      <3>2. CASE ~converged
        BY <2>6, <3>2, RestStays DEF NegotiationInv
      <3> QED BY <3>1, <3>2
    <2>9. u.converged => IsContracted(k, u.ask, contracts')
      BY <2>2, <2>5, <2>6 DEF IsContracted
    <2>10. u.at = "done" /\ contracts \subseteq contracts'
      BY <2>2, <2>6
    <2> QED BY <2>3, <2>7, <2>8, <2>9, <2>10
  <1> QED BY <1>5, <1>6

LEMMA ExecuteTurnKeeps ==
  ASSUME NegotiationInv, NEW k \in Calls, ExecuteTurn(k)
  PROVE  NegotiationInv'
  <1>1. UNCHANGED <<policy, client, edits, faults>> /\ turns[k].at = "read"
    BY DEF ExecuteTurn
  <1>2. CASE \E how \in {"forbidden", "conflict", "unpaid"} : Refuse(k, how) /\ UNCHANGED gateway
    BY <1>1, <1>2, RefusedTurnKeeps
  <1>3. CASE /\ CanDebit(k) /\ DebitSession(k)
             /\ Round(k, turns[k].bid, clampSellerAskPaise(turns[k].ask, turns[k].terms))
    <2>1. PICK c, t, e : /\ c = calls[k] /\ t = turns[k] /\ e = escrow[k]
                         /\ CallInv(k, c, t, e, contracts) /\ t.at = "read"
      BY <1>1 DEF NegotiationInv, EachCall
    <2>2. UNCHANGED agreements /\ calls' = [calls EXCEPT ![k] = c]
      BY <1>1, <2>1 DEF NegotiationInv, Functions, client
    <2>3. /\ Table' /\ Paper' /\ contracts \subseteq contracts'
          /\ \E u \in TurnStates :
               /\ turns' = [turns EXCEPT ![k] = u] /\ u.at \in {"backwards", "done"}
               /\ u.at = "done" => (u.converged => IsContracted(k, u.ask, contracts'))
      BY <1>3, <2>1, <2>2, RoundKeeps
    <2>4. PICK u \in TurnStates :
            /\ turns' = [turns EXCEPT ![k] = u] /\ u.at \in {"backwards", "done"}
            /\ u.at = "done" => (u.converged => IsContracted(k, u.ask, contracts'))
      BY <2>3
    <2>5. PICK f : f = [e EXCEPT !.remaining = e.remaining - microFeePerTurnPaise,
                                 !.debited = e.debited + microFeePerTurnPaise]
      OBVIOUS
    <2>6. escrow' = [escrow EXCEPT ![k] = f]
      BY <1>3, <2>1, <2>5 DEF NegotiationInv, Functions, DebitSession, Escrows
    <2>7. ~e.released /\ e.remaining >= microFeePerTurnPaise
      BY <1>3, <2>1 DEF CanDebit
    <2>8. CallInv(k, c, u, f, contracts')
      BY <2>1, <2>3, <2>4, <2>5, <2>7, DebitingKeeps
    <2>9. Functions' /\ EachCall'
      BY <2>2, <2>3, <2>4, <2>6, <2>8, OneCallSteps DEF NegotiationInv
    <2>10. Environment'
      BY <1>1, RestStays DEF NegotiationInv
    <2> QED BY <2>3, <2>9, <2>10 DEF NegotiationInv
  <1> QED BY <1>2, <1>3 DEF ExecuteTurn

LEMMA SetPolicyKeeps ==
  ASSUME NegotiationInv, SetPolicy
  PROVE  NegotiationInv'
  <1>1. Functions' /\ EachCall'
    BY DEF NegotiationInv, Functions, EachCall, SetPolicy, client, gateway
  <1>2. Environment'
    BY NegotiationAssumption DEF NegotiationInv, Environment, SetPolicy
  <1>3. Table' /\ Paper'
    BY RestStays DEF NegotiationInv, SetPolicy, client, gateway
  <1> QED BY <1>1, <1>2, <1>3 DEF NegotiationInv

LEMMA StutterKeeps == NegotiationInv /\ UNCHANGED vars => NegotiationInv'
  <1> SUFFICES ASSUME NegotiationInv, UNCHANGED vars  PROVE NegotiationInv'
    OBVIOUS
  <1>1. Functions' /\ EachCall'
    BY DEF NegotiationInv, Functions, EachCall, vars, client, gateway
  <1>2. Environment' /\ Table' /\ Paper'
    BY RestStays DEF NegotiationInv, vars, client, gateway
  <1> QED BY <1>1, <1>2 DEF NegotiationInv

LEMMA InitEstablishes == Init => NegotiationInv
  <1> SUFFICES ASSUME Init  PROVE NegotiationInv
    OBVIOUS
  <1>1. ASSUME NEW k \in Calls
        PROVE  CallInv(k, calls[k], turns[k], escrow[k], contracts)
    <2>1. PICK c : c = [at |-> "start", turn |-> 0, bid |-> Request[k].opening,
                        ask |-> ListPrice, fees |-> 0, agreed |-> {}, end |-> "none"]
      OBVIOUS
    <2>2. calls[k] = c /\ turns[k] = NoTurn /\ escrow[k] = NoEscrow
      BY <2>1 DEF Init
    <2>3. /\ Request[k].opening \in Nat /\ Request[k].ceiling \in Nat /\ ListPrice \in Nat
          /\ Request[k].opening <= Request[k].ceiling /\ 0 \in 0..maxNegotiationTurns
      BY NegotiationAssumption
    <2>4. c \in CallStates
      BY <2>1, <2>3 DEF CallStates
    <2>5. NoEscrow \in Escrows
      BY DEF Escrows, NoEscrow
    <2>6. Flow(k, c, NoTurn)
      BY <2>1, <2>3, NoTurnIsOne DEF Flow
    <2>7. Paid(c, NoTurn, NoEscrow)
      <3>1. ~Undebited(c, NoTurn)
        BY <2>1, NoTurnIsOne DEF Undebited
      <3>2. c.turn * microFeePerTurnPaise = 0
        BY <2>1, ProductIsNatural, NegotiationAssumption
      <3> QED BY <3>1, <3>2 DEF Paid, NoEscrow
    <2>8. Deal(k, c, NoTurn, contracts)
      BY <2>1, NoTurnIsOne DEF Deal
    <2> QED BY <2>2, <2>4, <2>5, <2>6, <2>7, <2>8, NoTurnIsOne DEF CallInv
  <1>2. EachCall
    BY <1>1 DEF EachCall
  <1>3. Functions
    <2>1. \A k \in Calls : calls[k] \in CallStates /\ turns[k] \in TurnStates /\ escrow[k] \in Escrows
      BY <1>1 DEF CallInv
    <2> QED BY <2>1 DEF Functions, Init
  <1>4. Environment
    BY NegotiationAssumption DEF Init, Environment
  <1>5. Table
    BY DEF Init, Table
  <1>6. Paper
    BY DEF Init, Paper, CeilingHeld
  <1> QED BY <1>2, <1>3, <1>4, <1>5, <1>6 DEF NegotiationInv

LEMMA NextKeeps ==
  ASSUME NegotiationInv, [Next]_vars
  PROVE  NegotiationInv'
  <1>1. CASE SetPolicy
    BY <1>1, SetPolicyKeeps
  <1>2. ASSUME NEW k \in Calls, Call(k)
        PROVE  NegotiationInv'
    BY <1>2, CreateEscrowKeeps, SubmitTurnKeeps, FailingKeeps, ReceiveAnswerKeeps, ReleaseKeeps
       DEF Call
  <1>3. ASSUME NEW k \in Calls, Serve(k)
        PROVE  NegotiationInv'
    BY <1>3, ReadTermsKeeps, ExecuteTurnKeeps DEF Serve
  <1>4. CASE UNCHANGED vars
    BY <1>4, StutterKeeps
  <1> QED BY <1>1, <1>2, <1>3, <1>4 DEF Next

\* Each call, its request and its escrow stay consistent, and what is on paper
\* stays within the bands, for all instances.
THEOREM NegotiationInvariant == Spec => []NegotiationInv
  <1>1. NegotiationInv /\ [Next]_vars => NegotiationInv'
    BY NextKeeps
  <1> QED BY InitEstablishes, <1>1, PTL DEF Spec

\* TypeOK holds for all instances: in particular no bid leaves the band between
\* the opening bid and the declared ceiling.
THEOREM NegotiationTypeCorrect == Spec => []TypeOK
  <1>1. NegotiationInv => TypeOK
    <2> SUFFICES ASSUME NegotiationInv  PROVE TypeOK
      OBVIOUS
    <2>1. \A k \in Calls : /\ Request[k].opening <= calls[k].bid
                           /\ calls[k].bid <= Request[k].ceiling
      BY DEF NegotiationInv, EachCall, CallInv, Flow
    <2> QED BY <2>1 DEF NegotiationInv, Functions, Escrows, Environment, Table, Paper, TypeOK
  <1> QED BY NegotiationInvariant, <1>1, PTL

\* A contract's price lies between the merchant's floor, the list price and the
\* agent's ceiling, and only a contract's price is recorded for the quoter.
THEOREM CeilingSafety == Spec => []CeilingHeld
  <1>1. NegotiationInv => CeilingHeld
    BY DEF NegotiationInv, Paper
  <1> QED BY NegotiationInvariant, <1>1, PTL

\* Every hold is accounted for to the paisa, and no call is debited more often
\* than it took turns, for any number of calls, faults and policy changes.
THEOREM EscrowConservation == Spec => []EscrowConserved
  <1>1. NegotiationInv => EscrowConserved
    BY DEF NegotiationInv, EachCall, CallInv, Paid, EscrowConserved
  <1> QED BY NegotiationInvariant, <1>1, PTL

\* A call declined on its first turn was never debited, for all instances.
THEOREM FreeDecline == Spec => []DeclinedFirstTurnIsFree
  <1>1. NegotiationInv => DeclinedFirstTurnIsFree
    <2> SUFFICES ASSUME NegotiationInv, NEW k \in Calls,
                        calls[k].end = "declined", calls[k].turn = 1
                 PROVE  escrow[k].debited = 0
      BY DEF DeclinedFirstTurnIsFree
    <2>1. escrow[k].debited + microFeePerTurnPaise <= 1 * microFeePerTurnPaise
      BY DEF NegotiationInv, EachCall, CallInv, Paid, Undebited
    <2>2. escrow[k].debited \in Nat /\ microFeePerTurnPaise \in Nat
      BY NegotiationAssumption DEF NegotiationInv, Functions, Escrows
    <2> QED BY <2>1, <2>2
  <1> QED BY NegotiationInvariant, <1>1, PTL
-----------------------------------------------------------------------------
(* Holds left behind and calls cut short.  They are counted against the     *)
(* faults, so the invariant has to say that they are finitely many, whatever *)
(* Calls is.                                                                 *)

IsLeft(c, e) == c.at \in {"over", "failed"} /\ e.open /\ ~e.released
IsCut(c, t) == c.end = "unsolved" \/ (c.at \in {"release", "over"} /\ t # NoTurn)

LeftInv ==
  /\ IsFiniteSet(HeldBehind) /\ IsFiniteSet(CutShort)
  /\ Cardinality(HeldBehind) + Cardinality(CutShort) <= faults

\* A set that gains k at most, for the counting below.
LEMMA OneMore ==
  ASSUME NEW now, IsFiniteSet(now), NEW next, NEW k, next \subseteq now \cup {k}
  PROVE  /\ IsFiniteSet(next) /\ Cardinality(next) \in Nat /\ Cardinality(now) \in Nat
         /\ Cardinality(next) <= Cardinality(now) + 1
         /\ next \subseteq now => Cardinality(next) <= Cardinality(now)
  <1>1. IsFiniteSet(now \cup {k}) /\ Cardinality(now \cup {k}) <= Cardinality(now) + 1
    <2>1. /\ IsFiniteSet(now \cup {k})
          /\ \/ k \in now /\ Cardinality(now \cup {k}) = Cardinality(now)
             \/ k \notin now /\ Cardinality(now \cup {k}) = Cardinality(now) + 1
      BY FS_AddElement
    <2>2. Cardinality(now) \in Nat
      BY FS_CardinalityType
    <2> QED BY <2>1, <2>2
  <1>2. IsFiniteSet(next) /\ Cardinality(next) <= Cardinality(now \cup {k})
    BY <1>1, FS_Subset
  <1>3. /\ Cardinality(next) \in Nat /\ Cardinality(now \cup {k}) \in Nat
        /\ Cardinality(now) \in Nat
    BY <1>1, <1>2, FS_CardinalityType
  <1>4. next \subseteq now => Cardinality(next) <= Cardinality(now)
    BY FS_Subset
  <1> QED BY <1>1, <1>2, <1>3, <1>4

\* Neither set grows, or one of them by one call and a fault with it.
LEMMA FewLeft ==
  ASSUME NegotiationInv, LeftInv, NEW k,
         \/ /\ HeldBehind' \subseteq HeldBehind /\ CutShort' \subseteq CutShort
            /\ UNCHANGED faults
         \/ /\ HeldBehind' \subseteq HeldBehind \cup {k} /\ CutShort' \subseteq CutShort
            /\ Fault
         \/ /\ HeldBehind' \subseteq HeldBehind /\ CutShort' \subseteq CutShort \cup {k}
            /\ Fault
  PROVE  LeftInv'
  <1>1. faults \in Nat /\ (Fault => faults' = faults + 1)
    BY NegotiationAssumption DEF NegotiationInv, Environment, Fault
  <1>2. PICK h, g, c, d :
          h = HeldBehind /\ g = HeldBehind' /\ c = CutShort /\ d = CutShort'
    OBVIOUS
  <1>3. /\ g \subseteq h \cup {k} /\ d \subseteq c \cup {k}
        /\ IsFiniteSet(h) /\ IsFiniteSet(c)
        /\ Cardinality(h) + Cardinality(c) <= faults
    BY <1>2 DEF LeftInv
  <1>4. /\ IsFiniteSet(g) /\ Cardinality(g) \in Nat /\ Cardinality(h) \in Nat
        /\ Cardinality(g) <= Cardinality(h) + 1
        /\ g \subseteq h => Cardinality(g) <= Cardinality(h)
    BY <1>3, OneMore
  <1>5. /\ IsFiniteSet(d) /\ Cardinality(d) \in Nat /\ Cardinality(c) \in Nat
        /\ Cardinality(d) <= Cardinality(c) + 1
        /\ d \subseteq c => Cardinality(d) <= Cardinality(c)
    BY <1>3, OneMore
  <1>6. Cardinality(g) + Cardinality(d) <= faults'
    <2>1. \/ g \subseteq h /\ d \subseteq c /\ faults' = faults
          \/ g \subseteq h \cup {k} /\ d \subseteq c /\ faults' = faults + 1
          \/ g \subseteq h /\ d \subseteq c \cup {k} /\ faults' = faults + 1
      BY <1>1, <1>2
    <2> QED BY <1>1, <1>3, <1>4, <1>5, <2>1
  <1> QED BY <1>2, <1>4, <1>5, <1>6 DEF LeftInv

\* A step of one call leaves no other call's hold behind and cuts no other call short.
LEMMA OthersAreLeftAlone ==
  ASSUME NegotiationInv, NEW k \in Calls, NEW d, NEW t, NEW f,
         calls' = [calls EXCEPT ![k] = d], turns' = [turns EXCEPT ![k] = t],
         escrow' = [escrow EXCEPT ![k] = f]
  PROVE  /\ HeldBehind' \subseteq HeldBehind \cup {k}
         /\ (IsLeft(d, f) => k \in HeldBehind) => HeldBehind' \subseteq HeldBehind
         /\ CutShort' \subseteq CutShort \cup {k}
         /\ (IsCut(d, t) => k \in CutShort) => CutShort' \subseteq CutShort
  <1>1. ASSUME NEW j \in Calls, j # k
        PROVE  calls'[j] = calls[j] /\ escrow'[j] = escrow[j] /\ turns'[j] = turns[j]
    BY <1>1 DEF NegotiationInv, Functions
  <1>2. calls'[k] = d /\ escrow'[k] = f /\ turns'[k] = t
    BY DEF NegotiationInv, Functions
  <1>3. ASSUME NEW j \in HeldBehind', j # k PROVE j \in HeldBehind
    BY <1>1, <1>3 DEF HeldBehind
  <1>4. ASSUME k \in HeldBehind' PROVE IsLeft(d, f)
    BY <1>2, <1>4 DEF HeldBehind, IsLeft
  <1>5. ASSUME NEW j \in CutShort', j # k PROVE j \in CutShort
    BY <1>1, <1>5 DEF CutShort
  <1>6. ASSUME k \in CutShort' PROVE IsCut(d, t)
    BY <1>2, <1>6 DEF CutShort, IsCut
  <1> QED BY <1>3, <1>4, <1>5, <1>6

LEMMA LeftAfterOpening ==
  ASSUME NegotiationInv, LeftInv, NEW k \in Calls, CreateEscrow(k)
  PROVE  LeftInv'
  <1>1. /\ calls \in [Calls -> CallStates] /\ escrow \in [Calls -> Escrows]
        /\ turns \in [Calls -> TurnStates]
    BY DEF NegotiationInv, Functions
  <1>2. PICK d, f : calls' = [calls EXCEPT ![k] = d] /\ escrow' = [escrow EXCEPT ![k] = f]
                    /\ d.at \in {"bid", "failed"} /\ d.end = calls[k].end
                    /\ ((d.at = "bid" /\ UNCHANGED faults) \/ Fault)
    <2>1. CASE /\ escrow' = [escrow EXCEPT ![k] = [NoEscrow EXCEPT !.open = TRUE,
                                             !.remaining = initialEscrowPoolPaise]]
               /\ calls' = [calls EXCEPT ![k].at = "bid", ![k].turn = 1]
               /\ UNCHANGED faults
      <3>1. PICK d : d = [calls[k] EXCEPT !.at = "bid", !.turn = 1]
        OBVIOUS
      <3>2. /\ calls' = [calls EXCEPT ![k] = d] /\ d.at = "bid"
            /\ d.end = calls[k].end
        BY <1>1, <2>1, <3>1 DEF CallStates
      <3> QED BY <2>1, <3>2
    <2>2. CASE /\ escrow' = [escrow EXCEPT ![k] = [NoEscrow EXCEPT !.open = TRUE,
                                             !.remaining = initialEscrowPoolPaise]]
               /\ calls' = [calls EXCEPT ![k].at = "failed"]
               /\ Fault
      <3>1. PICK d : d = [calls[k] EXCEPT !.at = "failed"]
        OBVIOUS
      <3>2. /\ calls' = [calls EXCEPT ![k] = d] /\ d.at = "failed"
            /\ d.end = calls[k].end
        BY <1>1, <2>2, <3>1 DEF CallStates
      <3> QED BY <2>2, <3>2
    <2>3. CASE /\ UNCHANGED escrow /\ Fault
               /\ calls' = [calls EXCEPT ![k].at = "failed"]
      <3>1. PICK d : d = [calls[k] EXCEPT !.at = "failed"]
        OBVIOUS
      <3>2. /\ calls' = [calls EXCEPT ![k] = d] /\ d.at = "failed"
            /\ d.end = calls[k].end /\ escrow' = [escrow EXCEPT ![k] = escrow[k]]
        BY <1>1, <2>3, <3>1 DEF CallStates
      <3> QED BY <2>3, <3>2
    <2> QED BY <2>1, <2>2, <2>3 DEF CreateEscrow
  <1>3. turns' = [turns EXCEPT ![k] = turns[k]]
    BY <1>1 DEF CreateEscrow
  <1>4. IsCut(d, turns[k]) => k \in CutShort
    BY <1>2 DEF IsCut, CutShort
  <1>5. CutShort' \subseteq CutShort /\ HeldBehind' \subseteq HeldBehind \cup {k}
    BY <1>2, <1>3, <1>4, OthersAreLeftAlone
  <1>6. CASE d.at = "bid" /\ UNCHANGED faults
    <2>1. ~IsLeft(d, f)
      BY <1>6 DEF IsLeft
    <2>2. HeldBehind' \subseteq HeldBehind
      BY <1>2, <1>3, <2>1, OthersAreLeftAlone
    <2> QED BY <1>5, <1>6, <2>2, FewLeft
  <1>7. CASE Fault
    BY <1>5, <1>7, FewLeft
  <1> QED BY <1>2, <1>6, <1>7

LEMMA LeftAfterRelease ==
  ASSUME NegotiationInv, LeftInv, NEW k \in Calls, Release(k)
  PROVE  LeftInv'
  <1>1. /\ calls \in [Calls -> CallStates] /\ escrow \in [Calls -> Escrows]
        /\ turns \in [Calls -> TurnStates]
    BY DEF NegotiationInv, Functions
  <1>2. PICK d : d = [calls[k] EXCEPT !.at = "over"]
    OBVIOUS
  <1>3. /\ calls' = [calls EXCEPT ![k] = d] /\ turns' = [turns EXCEPT ![k] = turns[k]]
        /\ d.at = "over" /\ d.end = calls[k].end /\ calls[k].at = "release"
    BY <1>1, <1>2 DEF Release, CallStates, At
  <1>4. IsCut(d, turns[k]) => k \in CutShort
    BY <1>3 DEF IsCut, CutShort
  <1>5. ASSUME ReleaseSession(k)
        PROVE  \E f : escrow' = [escrow EXCEPT ![k] = f] /\ f.released
    <2>1. PICK f : f = [escrow[k] EXCEPT !.refunded = escrow[k].refunded + escrow[k].remaining,
                                         !.remaining = 0, !.released = TRUE]
      OBVIOUS
    <2>2. escrow' = [escrow EXCEPT ![k] = f]
      BY <1>5, <2>1, Zenon DEF ReleaseSession
    <2>3. f.released
      BY <1>1, <2>1 DEF Escrows
    <2> QED BY <2>2, <2>3
  <1>6. CASE ReleaseSession(k) /\ UNCHANGED faults
    <2>1. PICK f : escrow' = [escrow EXCEPT ![k] = f] /\ f.released
      BY <1>5, <1>6
    <2>2. ~IsLeft(d, f)
      BY <2>1 DEF IsLeft
    <2>3. HeldBehind' \subseteq HeldBehind /\ CutShort' \subseteq CutShort
      BY <1>3, <1>4, <2>1, <2>2, OthersAreLeftAlone
    <2> QED BY <1>6, <2>3, FewLeft
  <1>7. CASE Fault
    <2>1. PICK f : escrow' = [escrow EXCEPT ![k] = f]
      <3>1. CASE ReleaseSession(k)
        BY <1>5, <3>1
      <3>2. CASE UNCHANGED escrow
        <4>1. escrow' = [escrow EXCEPT ![k] = escrow[k]]
          BY <1>1, <3>2
        <4> QED BY <4>1
      <3> QED BY <3>1, <3>2 DEF Release
    <2>2. HeldBehind' \subseteq HeldBehind \cup {k} /\ CutShort' \subseteq CutShort
      BY <1>3, <1>4, <2>1, OthersAreLeftAlone
    <2> QED BY <1>7, <2>2, FewLeft
  <1> QED BY <1>6, <1>7 DEF Release

\* No challenge, or no answer: the call is cut short, at the cost of a fault.
LEMMA LeftAfterFailing ==
  ASSUME NegotiationInv, LeftInv, NEW k \in Calls, GiveUp(k) \/ TimeOut(k)
  PROVE  LeftInv'
  <1>1. /\ calls \in [Calls -> CallStates] /\ escrow \in [Calls -> Escrows]
        /\ turns \in [Calls -> TurnStates]
    BY DEF NegotiationInv, Functions
  <1>2. PICK how : End(k, how)
    BY DEF GiveUp, TimeOut
  <1>3. PICK d : d = [calls[k] EXCEPT !.at = "release", !.end = how]
    OBVIOUS
  <1>4. calls' = [calls EXCEPT ![k] = d] /\ d.at = "release"
    BY <1>1, <1>2, <1>3 DEF End, CallStates
  <1>5. /\ escrow' = [escrow EXCEPT ![k] = escrow[k]]
        /\ turns' = [turns EXCEPT ![k] = turns[k]] /\ Fault
    BY <1>1 DEF GiveUp, TimeOut, gateway
  <1>6. ~IsLeft(d, escrow[k])
    BY <1>4 DEF IsLeft
  <1>7. HeldBehind' \subseteq HeldBehind /\ CutShort' \subseteq CutShort \cup {k}
    BY <1>4, <1>5, <1>6, OthersAreLeftAlone
  <1> QED BY <1>5, <1>7, FewLeft

\* Between the opening and the release a call is not over; an answer that came leaves
\* no request behind.
LEMMA LeftAfterCall ==
  ASSUME NegotiationInv, LeftInv, NEW k \in Calls, SubmitTurn(k) \/ ReceiveAnswer(k)
  PROVE  LeftInv'
  <1>1. /\ calls \in [Calls -> CallStates] /\ escrow \in [Calls -> Escrows]
        /\ turns \in [Calls -> TurnStates]
    BY DEF NegotiationInv, Functions
  <1>2. PICK c : c = calls[k] /\ c \in CallStates
    BY <1>1
  <1>3. PICK d, t : /\ calls' = [calls EXCEPT ![k] = d] /\ turns' = [turns EXCEPT ![k] = t]
                    /\ d.at \in {"bid", "wait", "release"}
                    /\ d.at = "release" => t = NoTurn
                    /\ d.end = "unsolved" => c.end = "unsolved"
    <2>1. CASE SubmitTurn(k)
      <3>1. PICK d : d = [c EXCEPT !.at = "wait"]
        OBVIOUS
      <3>2. calls' = [calls EXCEPT ![k] = d] /\ d.at = "wait" /\ d.end = c.end
        BY <1>1, <1>2, <2>1, <3>1 DEF SubmitTurn, CallStates
      <3> QED BY <2>1, <3>2 DEF SubmitTurn
    <2>2. CASE ReceiveAnswer(k)
      <3>1. turns' = [turns EXCEPT ![k] = NoTurn]
        BY <2>2 DEF ReceiveAnswer
      <3>2. ASSUME NEW how \in {"declined", "error"}, End(k, how)
            PROVE  \E d : /\ calls' = [calls EXCEPT ![k] = d] /\ d.at = "release"
                          /\ d.end # "unsolved"
        <4>1. PICK d : d = [c EXCEPT !.at = "release", !.end = how]
          OBVIOUS
        <4>2. calls' = [calls EXCEPT ![k] = d] /\ d.at = "release" /\ d.end = how
          BY <1>1, <1>2, <3>2, <4>1 DEF End, CallStates
        <4> QED BY <4>2
      <3>3. ASSUME NEW d, calls' = [calls EXCEPT ![k] = d],
                   \/ d = [c EXCEPT !.at = "release", !.end = "converged",
                                    !.fees = turns[k].fees,
                                    !.agreed = {AgreedPrice(k, turns[k])}]
                   \/ d = [c EXCEPT !.at = "release", !.end = "exhausted",
                                    !.fees = turns[k].fees]
                   \/ d = [c EXCEPT !.at = "bid", !.turn = c.turn + 1,
                             !.fees = turns[k].fees,
                             !.ask = nextSellerAskPaise(c.ask, c.bid),
                             !.bid = nextBuyerBidPaise(c.bid, Request[k].ceiling)]
            PROVE  d.at \in {"bid", "release"} /\ (d.end = "unsolved" => c.end = "unsolved")
        BY <1>2, <3>3 DEF CallStates
      <3>4. \E d : /\ calls' = [calls EXCEPT ![k] = d] /\ d.at \in {"bid", "release"}
                   /\ d.end = "unsolved" => c.end = "unsolved"
        <4>1. CASE \E how \in {"declined", "error"} : End(k, how)
          BY <3>2, <4>1
        <4>2. CASE ~\E how \in {"declined", "error"} : End(k, how)
          BY <1>2, <2>2, <3>3, <4>2 DEF ReceiveAnswer, FailOnRefusal
        <4> QED BY <4>1, <4>2
      <3> QED BY <3>1, <3>4
    <2> QED BY <2>1, <2>2
  <1>4. escrow' = [escrow EXCEPT ![k] = escrow[k]] /\ UNCHANGED faults
    BY <1>1 DEF SubmitTurn, ReceiveAnswer, gateway
  <1>5. ~IsLeft(d, escrow[k])
    BY <1>3 DEF IsLeft
  <1>6. IsCut(d, t) => k \in CutShort
    BY <1>2, <1>3 DEF IsCut, CutShort
  <1>7. HeldBehind' \subseteq HeldBehind /\ CutShort' \subseteq CutShort
    BY <1>3, <1>4, <1>5, <1>6, OthersAreLeftAlone
  <1> QED BY <1>4, <1>7, FewLeft

\* The gateway's debit leaves a session as open and as released as it was, and a request
\* that nobody waits for any more stays one.
LEMMA LeftAfterServing ==
  ASSUME NegotiationInv, LeftInv, NEW k \in Calls, Serve(k)
  PROVE  LeftInv'
  <1>1. /\ calls \in [Calls -> CallStates] /\ escrow \in [Calls -> Escrows]
        /\ turns \in [Calls -> TurnStates]
    BY DEF NegotiationInv, Functions
  <1>2. calls' = [calls EXCEPT ![k] = calls[k]] /\ UNCHANGED faults
    BY <1>1 DEF Serve, ReadTerms, ExecuteTurn, client
  <1>3. PICK f : /\ escrow' = [escrow EXCEPT ![k] = f]
                 /\ f.open = escrow[k].open /\ f.released = escrow[k].released
    <2>1. CASE UNCHANGED escrow
      <3>1. escrow' = [escrow EXCEPT ![k] = escrow[k]]
        BY <1>1, <2>1
      <3> QED BY <3>1
    <2>2. CASE DebitSession(k)
      <3>1. PICK e : e = escrow[k] /\ e \in Escrows
        BY <1>1
      <3>2. PICK f : f = [e EXCEPT !.remaining = e.remaining - microFeePerTurnPaise,
                                   !.debited = e.debited + microFeePerTurnPaise]
        OBVIOUS
      <3>3. escrow' = [escrow EXCEPT ![k] = f]
        BY <1>1, <2>2, <3>1, <3>2 DEF DebitSession, Escrows
      <3>4. f.open = e.open /\ f.released = e.released
        BY <3>1, <3>2 DEF Escrows
      <3> QED BY <3>1, <3>3, <3>4
    <2> QED BY <2>1, <2>2 DEF Serve, ReadTerms, ExecuteTurn, gateway
  <1>4. PICK t : turns' = [turns EXCEPT ![k] = t]
    BY DEF Serve, ReadTerms, ExecuteTurn, Refuse, Answer, Round
  <1>5. turns[k] # NoTurn
    BY DEF Serve, ReadTerms, ExecuteTurn, NoTurn
  <1>6. IsLeft(calls[k], f) => k \in HeldBehind
    BY <1>3 DEF HeldBehind, IsLeft
  <1>7. IsCut(calls[k], t) => k \in CutShort
    BY <1>5 DEF CutShort, IsCut
  <1>8. HeldBehind' \subseteq HeldBehind /\ CutShort' \subseteq CutShort
    BY <1>2, <1>3, <1>4, <1>6, <1>7, OthersAreLeftAlone
  <1> QED BY <1>2, <1>8, FewLeft

LEMMA LeftStays ==
  ASSUME LeftInv, UNCHANGED <<calls, turns, escrow, faults>>
  PROVE  LeftInv'
  BY DEF LeftInv, HeldBehind, CutShort

LEMMA LeftInvariant == Spec => []LeftInv
  <1>1. Init => LeftInv
    <2> SUFFICES ASSUME Init PROVE LeftInv
      OBVIOUS
    <2>1. HeldBehind = {} /\ CutShort = {}
      BY DEF Init, HeldBehind, CutShort
    <2> QED BY <2>1, FS_EmptySet DEF Init, LeftInv
  <1>2. NegotiationInv /\ LeftInv /\ [Next]_vars => LeftInv'
    <2> SUFFICES ASSUME NegotiationInv, LeftInv, [Next]_vars PROVE LeftInv'
      OBVIOUS
    <2>1. CASE SetPolicy
      BY <2>1, LeftStays DEF SetPolicy, client, gateway
    <2>2. ASSUME NEW k \in Calls, Call(k) PROVE LeftInv'
      BY <2>2, LeftAfterOpening, LeftAfterFailing, LeftAfterCall, LeftAfterRelease DEF Call
    <2>3. ASSUME NEW k \in Calls, Serve(k) PROVE LeftInv'
      BY <2>3, LeftAfterServing
    <2>4. CASE UNCHANGED vars
      BY <2>4, LeftStays DEF vars, client, gateway
    <2> QED BY <2>1, <2>2, <2>3, <2>4 DEF Next
  <1> QED BY NegotiationInvariant, <1>1, <1>2, PTL DEF Spec

\* A hold stays open behind a call only where its own open or release failed: neither
\* the calls that were cut short nor any refusal leave one (the finally block of
\* negotiatePrice), for any number of calls of any buyers.
THEOREM HoldsAreReleased == Spec => []HoldsReleased
  <1>1. LeftInv => HoldsReleased
    BY DEF LeftInv, HoldsReleased
  <1> QED BY LeftInvariant, <1>1, PTL
=============================================================================
