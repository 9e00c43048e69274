--------------------------- MODULE MCNegotiation ---------------------------
(* Two calls of one buyer whose opening bids and ceilings differ; a merchant  *)
(* with a high or a low floor, one who allows a single turn, and one who does *)
(* not negotiate.                                                             *)
EXTENDS Negotiation

CONSTANTS k1, k2, b1

MCCalls == {k1, k2}
MCRequest ==
  [k \in MCCalls |->
     IF k = k1 THEN [buyer |-> b1, opening |-> 9, ceiling |-> 12, turns |-> 3]
     ELSE [buyer |-> b1, opening |-> 12, ceiling |-> 16, turns |-> 3]]
MCPolicies == {[enabled |-> TRUE, floor |-> 15, maxTurns |-> 5],
               [enabled |-> TRUE, floor |-> 10, maxTurns |-> 5],
               [enabled |-> TRUE, floor |-> 10, maxTurns |-> 1],
               [enabled |-> FALSE, floor |-> 0, maxTurns |-> 5]}
=============================================================================
