-------------------------- MODULE MCSettlementSaga --------------------------
(***************************************************************************)
(* Small instances of SettlementSaga for TLC.                              *)
(***************************************************************************)
EXTENDS SettlementSaga, FiniteSetsExt, TLC

CONSTANTS a1, a2, a3, a4, c1, c2, c3, m1, n1, n2, n3, n4

OneMandate == [a \in Attempts |-> m1]
SumOfAmounts == [S \in SUBSET Attempts |-> MapThenSumSet(AmountOf, S)]

\* a1 and a2 race for one cart, and all four for one budget: it holds one of the
\* two-paise carts and the one-paise cart, never two of the former.
RaceCart == a1 :> c1 @@ a2 :> c1 @@ a3 :> c2 @@ a4 :> c3
RaceNonce == a1 :> n1 @@ a2 :> n2 @@ a3 :> n3 @@ a4 :> n4
RaceAmount == c1 :> 2 @@ c2 :> 2 @@ c3 :> 1
RaceBudget == [m \in Mandates |-> 3]
RaceLegs == c1 :> 2 @@ c2 :> 1 @@ c3 :> 1

\* a1 replays the nonce of a2 on a cart of three legs, a3 settles the cart of a2,
\* and the budget pays one cart.
ReplayCart == a1 :> c1 @@ a2 :> c2 @@ a3 :> c2
ReplayNonce == a1 :> n1 @@ a2 :> n1 @@ a3 :> n2
ReplayAmount == c1 :> 2 @@ c2 :> 2
ReplayLegs == c1 :> 3 @@ c2 :> 1

\* Three attempts of which two share a cart, each with a fresh nonce.
RetryCart == a1 :> c1 @@ a2 :> c1 @@ a3 :> c2
RetryNonce == a1 :> n1 @@ a2 :> n2 @@ a3 :> n3
RetryAmount == c1 :> 2 @@ c2 :> 1
RetryLegs == c1 :> 3 @@ c2 :> 2
=============================================================================
