------------------------- MODULE MCMandateVerification -------------------------
(***************************************************************************)
(* A small instance of MandateVerification for TLC.                        *)
(***************************************************************************)
EXTENDS MandateVerification, FiniteSetsExt, TLC

CONSTANTS user, agent, stranger, merchant, food, tools, n1, n2, n3, n4, n5,
          r1, r2, r3, r4, r5, r6, r7

\* The budget pays two of three paise; the second mandate allows anything.
Groceries == createSignedIntentMandate(user, agent, 3, 2, {food}, 4)
Anything == createSignedIntentMandate(user, agent, 2, 2, {}, 5)

Rice == createSignedCartMandate(merchant, {food}, 2, 5)
Bread == createSignedCartMandate(merchant, {food}, 2, 3)
Hammer == createSignedCartMandate(merchant, {tools, Unclassified}, 1, 0)

Buy(a, i, c, n, t) ==
  [intent |-> i, cart |-> c,
   execution |-> createSignedExecutionMandate(a, i, c, c.body.total, n, t)]

\* r1 and r2 present one execution, r3 spends the same budget, and r7 the other
\* mandate's.  r4 is signed by an agent the user did not name, r5 buys what the
\* mandate does not allow, and r6 pairs a mandate with another one's execution.
Presented ==
  r1 :> Buy(agent, Groceries, Rice, n1, 3)
  @@ r2 :> Buy(agent, Groceries, Rice, n1, 3)
  @@ r3 :> Buy(agent, Groceries, Bread, n2, 3)
  @@ r4 :> Buy(stranger, Groceries, Bread, n3, 3)
  @@ r5 :> Buy(agent, Groceries, Hammer, n4, 0)
  @@ r6 :> [Buy(agent, Groceries, Rice, n5, 3) EXCEPT !.intent = Anything]
  @@ r7 :> Buy(agent, Anything, Hammer, n5, 0)

\* The first clock lags too far behind to be accepted, the last is too far ahead.
Clocks == {-2, -1, 0, 1, 3}
Retries == Permutations({r1, r2})

SumOfAmounts == [S \in SUBSET Requests |-> MapThenSumSet(AmountOf, S)]
=============================================================================
