-------------------------- MODULE MCPurchaseSession --------------------------
(***************************************************************************)
(* Small instances of PurchaseSession for TLC.                             *)
(***************************************************************************)
EXTENDS PurchaseSession, TLC

CONSTANTS d1, d2, i1, i2, k1, k2

Prices == i1 :> 1 @@ i2 :> 2
\* The first budget pays either item alone, the second delegation more.
Budgets == d1 :> 2 @@ d2 :> 3
SameCalls == Permutations(Calls)

\* Calls that overlap and a Redis store that fails are explored apart, and so are
\* its failures and lost answers; the two stores differ by the failures only.
OneHazard ==
  /\ overlapped => ~failed /\ backend = "redis"
  /\ failed => lost = 0
=============================================================================
