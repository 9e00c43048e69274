------------------------ MODULE MCCatalogPropagation ------------------------
(* One SKU that is compiled into the server and one that is not.             *)
EXTENDS CatalogPropagation

CONSTANTS s1, s2, w1, w2
=============================================================================
