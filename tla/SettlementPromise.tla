-------------------------- MODULE SettlementPromise --------------------------
(***************************************************************************)
(* What the settlement engine promises, with no Redis and no provider in   *)
(* sight: a settlement is admitted in one indivisible step that finds its  *)
(* cart free and its mandate able to pay, and from then on it is voided,   *)
(* settled, rolled back or stranded exactly once.                          *)
(***************************************************************************)
EXTENDS Integers, FiniteSets

CONSTANTS Attempts, Mandates, CartOf, MandateOf, MaxBudget, Total

VARIABLE stage

Occupying == {"reserved", "captured", "settled", "rolledBack", "stranded"}
Charging == {"reserved", "captured", "settled", "stranded"}
Stages == Occupying \cup {"open", "refused", "void"}

ChargedTo(m) == {a \in Attempts : MandateOf[a] = m /\ stage[a] \in Charging}

Move(a, from, to) == stage[a] = from /\ stage' = [stage EXCEPT ![a] = to]

Init == stage = [a \in Attempts |-> "open"]

Refuse(a) == Move(a, "open", "refused")

\* Cart and budget are tested and taken together.
Reserve(a) ==
  /\ \A b \in Attempts \ {a} :
       CartOf[b] = CartOf[a] => stage[b] \notin Occupying
  /\ Total[ChargedTo(MandateOf[a]) \cup {a}] <= MaxBudget[MandateOf[a]]
  /\ Move(a, "open", "reserved")

Capture(a) == Move(a, "reserved", "captured")
Void(a) == Move(a, "reserved", "void")
Settle(a) == Move(a, "captured", "settled")
RollBack(a) == Move(a, "captured", "rolledBack")
Strand(a) == Move(a, "captured", "stranded")

Next == \E a \in Attempts :
          \/ Refuse(a) \/ Reserve(a) \/ Capture(a) \/ Void(a)
          \/ Settle(a) \/ RollBack(a) \/ Strand(a)

Spec == Init /\ [][Next]_stage
-----------------------------------------------------------------------------
(* What the promise is worth *)

\* A cart is occupied by one attempt at a time, which keeps it for good unless its
\* payment is voided.
OneOccupantPerCart ==
  \A a, b \in Attempts :
    CartOf[a] = CartOf[b] /\ stage[a] \in Occupying /\ stage[b] \in Occupying => a = b

\* What is charged to a mandate together never exceeds its budget.
ChargesFitBudget == \A a \in Attempts : LET m == MandateOf[a] IN
  Total[ChargedTo(m)] <= MaxBudget[m]
=============================================================================
