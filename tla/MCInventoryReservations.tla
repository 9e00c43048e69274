----------------------- MODULE MCInventoryReservations -----------------------
(***************************************************************************)
(* Small instances of InventoryReservations for TLC.                       *)
(***************************************************************************)
EXTENDS InventoryReservations, FiniteSetsExt, TLC

CONSTANTS p1, p2, p3, k1, k2

SumOfQuantities == [S \in SUBSET Purchases |-> MapThenSumSet(LAMBDA p : Quantity[p], S)]

\* p1 and p2 compete for two units of k1 of which p2 wants both; p3 takes one.
ScarceSku == [p \in Purchases |-> k1]
ScarceQuantity == p1 :> 1 @@ p2 :> 2 @@ p3 :> 1
ScarceListing == k1 :> 2
=============================================================================
