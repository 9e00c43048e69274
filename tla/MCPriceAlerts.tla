--------------------------- MODULE MCPriceAlerts ---------------------------
(* Two alerts of one SKU with different targets and lifetimes. *)
EXTENDS PriceAlerts, TLC

CONSTANTS a1, a2

MCTarget == (a1 :> 2) @@ (a2 :> 1)
MCExpiry == (a1 :> 2) @@ (a2 :> 3)
=============================================================================
