------------------------------- MODULE Pricing -------------------------------
(***************************************************************************)
(* The discount stack and the GST split of catalog/pricingEngine.ts, in    *)
(* integer paise.  Every step floors.  A listing is what a quote reads of  *)
(* a CatalogSkuItem:                                                       *)
(*   base        baseUnitPricePaise                                        *)
(*   gst         gstRatePercent                                            *)
(*   tiers       volumeTiers, a sequence of [minQuantity, discountBps]     *)
(*   offers      merchantOffers; authored = FALSE where there are none     *)
(*   promotions  a set of [starts, ends, kind, value], scheduled sales     *)
(***************************************************************************)
EXTENDS Integers, Sequences

bpsDivisor == 10000
intraStateHalfBpsDivisor == 20000
percentDivisor == 100
festiveCampaignBps == 1000
festiveCampaignCapPaise == 2000
upiCashbackPaise == 150
corporatePromoBps == 500

NoCode == "none"
CorporateCode == "CORP_5PCT"
Uncapped == -1       \* campaignCapPaise = null
Unpriced == -1       \* the price of a promotion that cannot be evaluated

Lower(a, b) == IF a <= b THEN a ELSE b
Higher(a, b) == IF a <= b THEN b ELSE a
Portion(price, bps) == (price * bps) \div bpsDivisor

\* What the schemas let into the catalog.
Rates == 0..bpsDivisor
IsTier(t) == t.minQuantity \in Nat /\ t.discountBps \in Rates
IsPromotion(p) ==
  /\ p.starts \in Nat /\ p.ends \in Nat /\ p.value \in Nat
  /\ p.kind \in {"fixed", "bps", "paise", "none"}
  /\ p.kind = "bps" => p.value \in Rates
IsOffers(o) ==
  o.authored =>
    /\ o.campaignBps \in Rates
    /\ o.campaignCapPaise \in Nat \cup {Uncapped}
    /\ o.cashbackPaise \in Nat
    /\ \A c \in DOMAIN o.promoCodes : o.promoCodes[c] \in Rates
IsListing(l) ==
  /\ l.base \in Nat /\ l.gst \in Nat
  /\ DOMAIN l.tiers = 1..Len(l.tiers)
  /\ \A n \in DOMAIN l.tiers : IsTier(l.tiers[n])
  /\ IsOffers(l.offers)
  /\ \A p \in l.promotions : IsPromotion(p)
-----------------------------------------------------------------------------
(* Scheduled sales *)

calculatePromotionUnitPrice(base, p) ==
  CASE p.kind = "fixed" -> p.value
    [] p.kind = "bps"   -> (base * (bpsDivisor - p.value)) \div bpsDivisor
    [] p.kind = "paise" -> Higher(0, base - p.value)
    [] OTHER -> base

\* evaluateSingleScheduledPromotion throws on any other.
IsWellFormed(base, p) ==
  /\ p.starts < p.ends
  /\ calculatePromotionUnitPrice(base, p) <= base

\* evaluateScheduledPromotions throws on the first promotion it cannot price,
\* whether that one is active, upcoming or over.
Evaluates(l) == \A p \in l.promotions : IsWellFormed(l.base, p)

IsOpen(p, now) == p.starts <= now /\ now < p.ends
ActivePrices(l, now) ==
  {calculatePromotionUnitPrice(l.base, p) : p \in {q \in l.promotions : IsOpen(q, now)}}
Upcoming(l, now) == {p \in l.promotions : now < p.starts}

\* Mutant: upcoming sales are advertised and open ones are never charged.
SaleNeverCharged(l, now) == l.base

\* applyScheduledPromotionStep: the deepest open sale, or none when one throws.
SalePrice(l, now) ==
  IF Evaluates(l) /\ ActivePrices(l, now) # {}
  THEN CHOOSE x \in ActivePrices(l, now) : \A y \in ActivePrices(l, now) : x <= y
  ELSE l.base
-----------------------------------------------------------------------------
(* Volume tier, campaign, payment rail, promo code: each on what is left *)

\* The first of the tiers with the highest minimum that the quantity reaches.
IsMatchingVolumeTier(n, quantity, tiers) ==
  /\ tiers[n].minQuantity <= quantity
  /\ \A m \in DOMAIN tiers :
       tiers[m].minQuantity <= quantity =>
         \/ tiers[m].minQuantity < tiers[n].minQuantity
         \/ tiers[m].minQuantity = tiers[n].minQuantity /\ n <= m

TierBps(quantity, tiers) ==
  IF \E n \in DOMAIN tiers : IsMatchingVolumeTier(n, quantity, tiers)
  THEN tiers[CHOOSE n \in DOMAIN tiers :
               IsMatchingVolumeTier(n, quantity, tiers)].discountBps
  ELSE 0

AfterVolumeTier(price, quantity, tiers) ==
  price - Portion(price, TierBps(quantity, tiers))

\* A listing without merchantOffers keeps the demo's; one with them states all.
resolveSkuOffers(o) ==
  IF o.authored THEN o
  ELSE [authored |-> TRUE,
        campaignBps |-> festiveCampaignBps,
        campaignCapPaise |-> festiveCampaignCapPaise,
        cashbackPaise |-> upiCashbackPaise,
        promoCodes |-> [c \in {CorporateCode} |-> corporatePromoBps]]

AfterCampaign(price, o) ==
  LET uncapped == Portion(price, o.campaignBps)
  IN price - IF o.campaignCapPaise = Uncapped THEN uncapped
             ELSE Lower(o.campaignCapPaise, uncapped)

AfterPaymentRail(price, o) == price - Lower(price, o.cashbackPaise)

AfterPromoCode(price, code, o) ==
  IF code \in DOMAIN o.promoCodes
  THEN price - Portion(price, o.promoCodes[code]) ELSE price

\* computeAutoDiscountStack
AutomaticPrice(l, quantity, code, now) ==
  LET o == resolveSkuOffers(l.offers)
      tiered == AfterVolumeTier(SalePrice(l, now), quantity, l.tiers)
  IN Higher(0, AfterPromoCode(AfterPaymentRail(AfterCampaign(tiered, o), o), code, o))

\* The legacy path: volume tiers alone.
calculateVolumePricing(l, quantity) == AfterVolumeTier(l.base, quantity, l.tiers)
-----------------------------------------------------------------------------
(* GST *)

\* Half the rate twice within the merchant's state, the whole rate once outside.
calculateGstBreakdown(taxable, rate, intraState) ==
  LET half == (taxable * rate * percentDivisor) \div intraStateHalfBpsDivisor
      whole == (taxable * rate * percentDivisor) \div bpsDivisor
  IN IF intraState
     THEN [cgst |-> half, sgst |-> half, igst |-> 0, total |-> half + half]
     ELSE [cgst |-> 0, sgst |-> 0, igst |-> whole, total |-> whole]
=============================================================================
