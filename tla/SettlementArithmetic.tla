------------------------- MODULE SettlementArithmetic -------------------------
(***************************************************************************)
(* The amounts of a settlement, in integer paise: the cart that the MCP    *)
(* server signs, the arithmetic of the engine's budget gate over it, the   *)
(* split of the captured payment and the invoice.  Tax is computed twice,  *)
(* by pricingEngine.ts (module Pricing) and by arithmeticEnclave.py (here).*)
(* A cart has one line, as the ones of create_cart_mandate have:           *)
(*   unitPrice, quantity, rate   of the line                               *)
(*   taxable, tax                taxableSubtotalPaise and taxBreakdown     *)
(*   shipping, discount, total                                             *)
(*   intra                       merchant and delivery state codes agree   *)
(* For SettlementSaga, total is Amount, IsOverdraft is Overdraft and the   *)
(* length of buildTransferRequests is LegCount.                            *)
(***************************************************************************)
EXTENDS Pricing

defaultProtocolFeePaise == 50
tcsCgstBasisPoints == 25
tcsSgstBasisPoints == 25
tcsIgstBasisPoints == 50
-----------------------------------------------------------------------------
(* The arithmetic enclave *)

computeLineItemTotal(unitPrice, quantity) == unitPrice * quantity

calculate_gst(base, rateBps, intra) ==
  LET half == (base * rateBps) \div intraStateHalfBpsDivisor
      igst == (base * rateBps) \div bpsDivisor
  IN IF intra
     THEN [cgst |-> half, sgst |-> half, igst |-> 0, total |-> half + half + 0]
     ELSE [cgst |-> 0, sgst |-> 0, igst |-> igst, total |-> 0 + 0 + igst]

computeGstBreakdown(subtotal, ratePercent, intra) ==
  calculate_gst(subtotal, ratePercent * percentDivisor, intra)

\* totalTcsPaise of Section 52.
computeTcsWithholding(subtotal, intra) ==
  IF intra
  THEN (subtotal * tcsCgstBasisPoints) \div bpsDivisor
       + (subtotal * tcsSgstBasisPoints) \div bpsDivisor
  ELSE (subtotal * tcsIgstBasisPoints) \div bpsDivisor
-----------------------------------------------------------------------------
(* The cart *)

\* What the schema of a cart mandate admits.
IsCart(c) ==
  /\ c.unitPrice \in Nat \ {0} /\ c.quantity \in Nat \ {0} /\ c.rate \in 0..28
  /\ c.taxable \in Nat \ {0} /\ c.total \in Nat \ {0}
  /\ c.tax.cgst \in Nat /\ c.tax.sgst \in Nat /\ c.tax.igst \in Nat
  /\ c.tax.total \in Nat
  /\ c.shipping \in Nat /\ c.discount \in Nat /\ c.intra \in BOOLEAN

\* _signAndStoreCart: the price and the tax of the quote, whose place of supply is
\* that of the delivery pincode; the state code on the cart is the caller's.
SignedCart(unitPrice, quantity, rate, quotedIntra, shipping, intra) ==
  LET line == unitPrice * quantity
      tax == calculateGstBreakdown(line, rate, quotedIntra)
  IN [unitPrice |-> unitPrice, quantity |-> quantity, rate |-> rate,
      taxable |-> line, tax |-> tax, shipping |-> shipping, discount |-> 0,
      total |-> line + tax.total + shipping, intra |-> intra]
-----------------------------------------------------------------------------
(* The budget gate *)

LineTax(c) ==
  computeGstBreakdown(computeLineItemTotal(c.unitPrice, c.quantity), c.rate, c.intra)

verifyTaxHeads(c) ==
  /\ c.tax.cgst = LineTax(c).cgst
  /\ c.tax.sgst = LineTax(c).sgst
  /\ c.tax.igst = LineTax(c).igst

recomputeEnclaveTotal(c) ==
  computeLineItemTotal(c.unitPrice, c.quantity) + LineTax(c).total
  + c.shipping - c.discount

\* The order of the checks picks only the diagnosis.  A negative total is refused.
validateBudgetGate(c, amount, maxBudget, singleTransactionLimit) ==
  /\ verifyTaxHeads(c)
  /\ recomputeEnclaveTotal(c) >= 0
  /\ recomputeEnclaveTotal(c) = amount /\ c.total = amount
  /\ amount <= maxBudget /\ amount <= singleTransactionLimit
-----------------------------------------------------------------------------
(* The split and the invoice *)

totalDeductions(c) ==
  defaultProtocolFeePaise + c.shipping + computeTcsWithholding(c.taxable, c.intra)

\* buildSplitManifest raises, behind the capture.
IsOverdraft(c) == totalDeductions(c) >= c.total

buildSplitManifest(c) ==
  [merchant  |-> c.total - totalDeductions(c),
   protocol  |-> defaultProtocolFeePaise,
   logistics |-> c.shipping,
   tcs       |-> computeTcsWithholding(c.taxable, c.intra)]

\* One transfer to the merchant, and one for each other share that is not nothing.
Leg(amount) == IF amount > 0 THEN <<amount>> ELSE <<>>
buildTransferRequests(m) ==
  <<m.merchant>> \o Leg(m.protocol) \o Leg(m.logistics) \o Leg(m.tcs)

\* The totals of generateGstrInvoice, from the lines and not from the cart's own.
generateGstrInvoice(c) ==
  LET taxable == computeLineItemTotal(c.unitPrice, c.quantity)
  IN [taxable |-> taxable, cgst |-> LineTax(c).cgst, sgst |-> LineTax(c).sgst,
      igst |-> LineTax(c).igst,
      tcs |-> computeTcsWithholding(taxable, c.intra),
      grandTotal |-> taxable + LineTax(c).cgst + LineTax(c).sgst + LineTax(c).igst
                     + c.shipping - c.discount]
=============================================================================
