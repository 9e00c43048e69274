-------------------------- MODULE QuoteBinding_proofs --------------------------
(***************************************************************************)
(* What is quoted, signed and settled.  Proofs about Pricing, for every    *)
(* listing the catalog's schemas admit, every quantity, code and moment;   *)
(* about QuoteBinding for all listings, requests, bargains, life times and *)
(* bounds; and about SettlementArithmetic for all prices, quantities,      *)
(* rates, shipping costs and places of supply.                             *)
(*                                                                         *)
(* A quote in hand stays what its hash covers, its hash stays on file      *)
(* until its grace is over, every agreement on file was struck, and a      *)
(* quote whose marks are clear is worth its price for as long as it lives. *)
(***************************************************************************)
EXTENDS QuoteBinding, SettlementArithmetic, WellFoundedInduction, TLAPS

\* A nonempty set of naturals has a least element.
LEMMA LeastNatural ==
  ASSUME NEW S \in SUBSET Nat, S # {}
  PROVE  \E x \in S : \A y \in S : x <= y
  <1> DEFINE R == {ss \in Nat \X Nat : ss[1] < ss[2]}
  <1>1. IsWellFoundedOn(R, Nat)
    BY NatLessThanWellFounded DEF OpToRel
  <1>2. PICK x \in S : \A y \in S : <<y, x>> \notin R
    BY <1>1, WFMin
  <1>3. ASSUME NEW y \in S PROVE x <= y
    <2>1. x \in Nat /\ y \in Nat /\ <<y, x>> \in Nat \X Nat
      OBVIOUS
    <2>2. ~(<<y, x>>[1] < <<y, x>>[2])
      BY <1>2, <2>1
    <2>3. ~(y < x)
      BY <2>2
    <2> QED BY <2>1, <2>3
  <1> QED BY <1>3

\* A share in basis points of a price lies between nothing and the price.
LEMMA PortionBounded ==
  ASSUME NEW price \in Nat, NEW bps \in Rates
  PROVE  Portion(price, bps) \in 0..price
  <1>1. bps \in Nat /\ bps <= 10000
    BY DEF Rates, bpsDivisor
  <1> DEFINE n == price * bps
  <1>2. n \in Nat /\ n <= price * 10000
    BY <1>1, SMTT(30)
  <1> HIDE DEF n
  <1>3. n \div 10000 \in 0..price
    BY <1>2, SMTT(30)
  <1> QED BY <1>3 DEF n, Portion, bpsDivisor

\* Each step of the stack leaves a price between nothing and what it was given.
LEMMA StepsBounded ==
  ASSUME NEW price \in Nat, NEW o, IsOffers(o), o.authored, NEW code
  PROVE  /\ AfterCampaign(price, o) \in 0..price
         /\ AfterPaymentRail(price, o) \in 0..price
         /\ AfterPromoCode(price, code, o) \in 0..price
  <1>1. AfterCampaign(price, o) \in 0..price
    <2>1. Portion(price, o.campaignBps) \in 0..price
      BY PortionBounded DEF IsOffers
    <2> QED BY <2>1 DEF IsOffers, AfterCampaign, Lower, Uncapped
  <1>2. AfterPaymentRail(price, o) \in 0..price
    BY DEF IsOffers, AfterPaymentRail, Lower
  <1>3. AfterPromoCode(price, code, o) \in 0..price
    <2>1. CASE code \in DOMAIN o.promoCodes
      <3>1. Portion(price, o.promoCodes[code]) \in 0..price
        BY <2>1, PortionBounded DEF IsOffers
      <3> QED BY <2>1, <3>1 DEF AfterPromoCode
    <2>2. CASE code \notin DOMAIN o.promoCodes
      BY <2>2 DEF AfterPromoCode
    <2> QED BY <2>1, <2>2
  <1> QED BY <1>1, <1>2, <1>3

\* The demo's offers are offers a merchant could have stated.
LEMMA DefaultOffers ==
  ASSUME NEW o, IsOffers(o)
  PROVE  IsOffers(resolveSkuOffers(o)) /\ resolveSkuOffers(o).authored
  <1>1. CASE o.authored
    BY <1>1 DEF resolveSkuOffers
  <1>2. CASE ~o.authored
    <2> DEFINE d == resolveSkuOffers(o)
    <2>1. d = [authored |-> TRUE, campaignBps |-> 1000, campaignCapPaise |-> 2000,
               cashbackPaise |-> 150, promoCodes |-> [c \in {CorporateCode} |-> 500]]
      BY <1>2 DEF resolveSkuOffers, festiveCampaignBps, festiveCampaignCapPaise,
                  upiCashbackPaise, corporatePromoBps
    <2> HIDE DEF d
    <2>2. /\ d.authored /\ d.campaignBps = 1000 /\ d.campaignCapPaise = 2000
          /\ d.cashbackPaise = 150 /\ d.promoCodes = [c \in {CorporateCode} |-> 500]
      BY <2>1
    <2>3. \A c \in DOMAIN d.promoCodes : d.promoCodes[c] = 500
      BY <2>2
    <2>4. 1000 \in Rates /\ 500 \in Rates /\ 2000 \in Nat \cup {Uncapped} /\ 150 \in Nat
      BY DEF Rates, bpsDivisor
    <2>5. d.campaignBps \in Rates /\ d.campaignCapPaise \in Nat \cup {Uncapped}
          /\ d.cashbackPaise \in Nat
          /\ \A c \in DOMAIN d.promoCodes : d.promoCodes[c] \in Rates
      BY <2>2, <2>3, <2>4
    <2>6. IsOffers(d)
      BY <2>5, Zenon DEF IsOffers
    <2> QED BY <2>2, <2>6 DEF d
  <1> QED BY <1>1, <1>2

\* A volume tier takes off a share of the price.
LEMMA VolumeTierBounded ==
  ASSUME NEW l, IsListing(l), NEW price \in Nat, NEW quantity \in Nat
  PROVE  AfterVolumeTier(price, quantity, l.tiers) \in 0..price
  <1>1. TierBps(quantity, l.tiers) \in Rates
    <2>1. CASE \E n \in DOMAIN l.tiers : IsMatchingVolumeTier(n, quantity, l.tiers)
      <3> DEFINE n == CHOOSE k \in DOMAIN l.tiers :
                        IsMatchingVolumeTier(k, quantity, l.tiers)
      <3>1. n \in DOMAIN l.tiers
        BY <2>1
      <3>2. TierBps(quantity, l.tiers) = l.tiers[n].discountBps
        BY <2>1 DEF TierBps
      <3> HIDE DEF n
      <3> QED BY <3>1, <3>2 DEF IsListing, IsTier
    <2>2. CASE ~\E n \in DOMAIN l.tiers : IsMatchingVolumeTier(n, quantity, l.tiers)
      BY <2>2 DEF TierBps, Rates, bpsDivisor
    <2> QED BY <2>1, <2>2
  <1>2. Portion(price, TierBps(quantity, l.tiers)) \in 0..price
    BY <1>1, PortionBounded
  <1> QED BY <1>2 DEF AfterVolumeTier

\* A promotion that can be evaluated asks for a natural price up to the base price.
LEMMA PromotionBounded ==
  ASSUME NEW base \in Nat, NEW p, IsPromotion(p), IsWellFormed(base, p)
  PROVE  calculatePromotionUnitPrice(base, p) \in 0..base
  <1>1. calculatePromotionUnitPrice(base, p) \in Nat
    <2>1. CASE p.kind = "bps"
      <3>1. bpsDivisor - p.value \in Rates
        <4>1. p.value \in 0..10000
          <5>1. p.kind = "bps" => p.value \in Rates
            BY Zenon DEF IsPromotion
          <5>2. p.value \in Rates
            BY <2>1, <5>1, Zenon
          <5> QED BY <5>2 DEF Rates, bpsDivisor
        <4> DEFINE v == p.value
        <4>2. v \in 0..10000
          BY <4>1
        <4> HIDE DEF v
        <4>3. bpsDivisor - v \in Rates
          BY <4>2 DEF Rates, bpsDivisor
        <4> QED BY <4>3 DEF v
      <3>2. Portion(base, bpsDivisor - p.value) \in Nat
        BY <3>1, PortionBounded
      <3> QED BY <2>1, <3>2 DEF calculatePromotionUnitPrice, Portion
    <2>2. CASE p.kind # "bps"
      BY <2>2 DEF calculatePromotionUnitPrice, IsPromotion, Higher
    <2> QED BY <2>1, <2>2
  <1> QED BY <1>1 DEF IsWellFormed

\* The sale step takes the deepest open sale of a listing that can be evaluated.
LEMMA SaleIsDeepest ==
  ASSUME NEW l, IsListing(l), NEW t \in Nat
  PROVE  /\ SalePrice(l, t) \in 0..l.base
         /\ Evaluates(l) => \A x \in ActivePrices(l, t) : SalePrice(l, t) <= x
  <1>1. CASE Evaluates(l) /\ ActivePrices(l, t) # {}
    <2> DEFINE A == ActivePrices(l, t)
    <2>1. \A x \in A : x \in 0..l.base
      <3>1. \A p \in l.promotions : calculatePromotionUnitPrice(l.base, p) \in 0..l.base
        BY <1>1, PromotionBounded DEF IsListing, Evaluates
      <3> QED BY <3>1 DEF ActivePrices
    <2>2. A \in SUBSET Nat /\ A # {}
      BY <1>1, <2>1 DEF IsListing
    <2>3. \E x \in A : \A y \in A : x <= y
      <3> HIDE DEF A
      <3> QED BY <2>2, LeastNatural
    <2>4. SalePrice(l, t) = CHOOSE x \in A : \A y \in A : x <= y
      BY <1>1 DEF SalePrice
    <2> HIDE DEF A
    <2>5. SalePrice(l, t) \in A /\ \A y \in A : SalePrice(l, t) <= y
      BY <2>3, <2>4
    <2> QED BY <2>1, <2>5 DEF A
  <1>2. CASE ~(Evaluates(l) /\ ActivePrices(l, t) # {})
    BY <1>2 DEF SalePrice, IsListing
  <1> QED BY <1>1, <1>2

\* The automatic price is a natural number of paise, never above the base price and
\* never above an open sale, whatever offers, tiers and codes add
\* (computeAutoDiscountStack).
THEOREM AutomaticPriceBounded ==
  ASSUME NEW l, IsListing(l), NEW quantity \in Nat, NEW code, NEW t \in Nat
  PROVE  /\ AutomaticPrice(l, quantity, code, t) \in 0..l.base
         /\ Evaluates(l) =>
              \A x \in ActivePrices(l, t) : AutomaticPrice(l, quantity, code, t) <= x
  <1> DEFINE o == resolveSkuOffers(l.offers)
             sale == SalePrice(l, t)
             tiered == AfterVolumeTier(sale, quantity, l.tiers)
             campaign == AfterCampaign(tiered, o)
             rail == AfterPaymentRail(campaign, o)
             promo == AfterPromoCode(rail, code, o)
  <1>1. IsOffers(o) /\ o.authored
    BY DefaultOffers DEF IsListing
  <1>2. /\ sale \in 0..l.base /\ l.base \in Nat
        /\ Evaluates(l) => \A x \in ActivePrices(l, t) : sale <= x
    BY SaleIsDeepest DEF IsListing
  <1>3. AutomaticPrice(l, quantity, code, t) = Higher(0, promo)
    BY DEF AutomaticPrice
  <1> HIDE DEF o, sale
  <1>4. tiered \in 0..sale
    <2>1. sale \in Nat
      BY <1>2
    <2> QED BY <2>1, VolumeTierBounded
  <1> HIDE DEF tiered
  <1>5. campaign \in 0..tiered
    BY <1>1, <1>2, <1>4, StepsBounded
  <1> HIDE DEF campaign
  <1>6. rail \in 0..campaign
    BY <1>1, <1>2, <1>4, <1>5, StepsBounded
  <1> HIDE DEF rail
  <1>7. promo \in 0..rail
    BY <1>1, <1>2, <1>4, <1>5, <1>6, StepsBounded
  <1> HIDE DEF promo
  <1>8. Higher(0, promo) = promo /\ promo \in 0..sale
    BY <1>2, <1>4, <1>5, <1>6, <1>7 DEF Higher
  <1>9. promo \in 0..l.base
    BY <1>2, <1>8
  <1>10. Evaluates(l) => \A x \in ActivePrices(l, t) : promo <= x
    <2> SUFFICES ASSUME Evaluates(l), NEW x \in ActivePrices(l, t) PROVE promo <= x
      OBVIOUS
    <2>1. sale <= x /\ x \in Nat
      <3>1. \A p \in l.promotions : calculatePromotionUnitPrice(l.base, p) \in 0..l.base
        BY PromotionBounded DEF IsListing, Evaluates
      <3> QED BY <1>2, <3>1 DEF ActivePrices
    <2> QED BY <1>2, <1>8, <2>1
  <1> QED BY <1>3, <1>8, <1>9, <1>10

\* The price by volume tiers alone stays between nothing and the base price
\* (calculateVolumePricing).
THEOREM VolumePriceBounded ==
  ASSUME NEW l, IsListing(l), NEW quantity \in Nat
  PROVE  calculateVolumePricing(l, quantity) \in 0..l.base
  BY VolumeTierBounded DEF calculateVolumePricing, IsListing

\* A product of natural numbers is one, and zero only if a factor is.
LEMMA ProductIsNatural ==
  ASSUME NEW m \in Nat, NEW n \in Nat
  PROVE  m * n \in Nat /\ (m # 0 /\ n # 0 => m * n # 0)
  BY SMTT(30)

\* A quoted tax is the sum of its heads and never above the exact rate; it falls short
\* of it by less than a paisa per head, for any taxable value and rate
\* (calculateGstBreakdown).
THEOREM GstRoundsDown ==
  ASSUME NEW taxable \in Nat, NEW rate \in Nat, NEW intraState \in BOOLEAN
  PROVE  LET g == calculateGstBreakdown(taxable, rate, intraState)
             heads == IF intraState THEN 2 ELSE 1
         IN /\ g.total \in Nat /\ g.total = g.cgst + g.sgst + g.igst
            /\ IF intraState THEN g.cgst = g.sgst /\ g.igst = 0
                             ELSE g.cgst = 0 /\ g.sgst = 0
            /\ 100 * g.total <= taxable * rate
            /\ taxable * rate < 100 * g.total + 100 * heads
  <1>1. PICK m \in Nat : m = taxable * rate
    BY ProductIsNatural
  <1>2. PICK half \in Nat : half = (m * 100) \div 20000
    BY <1>1, SMTT(30)
  <1>3. PICK whole \in Nat : whole = (m * 100) \div 10000
    BY <1>1, SMTT(30)
  <1>4. 200 * half <= m /\ m < 200 * half + 200
    BY <1>2, SMTT(30)
  <1>5. 100 * whole <= m /\ m < 100 * whole + 100
    BY <1>3, SMTT(30)
  <1>6. CASE intraState
    <2>1. PICK g : g = calculateGstBreakdown(taxable, rate, intraState)
      OBVIOUS
    <2>2. g = [cgst |-> half, sgst |-> half, igst |-> 0, total |-> half + half]
      BY <1>1, <1>2, <1>6, <2>1
         DEF calculateGstBreakdown, percentDivisor, intraStateHalfBpsDivisor
    <2>3. /\ g.total \in Nat /\ g.total = g.cgst + g.sgst + g.igst
          /\ g.cgst = g.sgst /\ g.igst = 0
          /\ 100 * g.total <= m /\ m < 100 * g.total + 100 * 2
      BY <1>4, <2>2
    <2> QED BY <1>1, <1>6, <2>1, <2>3
  <1>7. CASE ~intraState
    <2>1. PICK g : g = calculateGstBreakdown(taxable, rate, intraState)
      OBVIOUS
    <2>2. g = [cgst |-> 0, sgst |-> 0, igst |-> whole, total |-> whole]
      BY <1>1, <1>3, <1>7, <2>1 DEF calculateGstBreakdown, percentDivisor, bpsDivisor
    <2>3. /\ g.total \in Nat /\ g.total = g.cgst + g.sgst + g.igst
          /\ g.cgst = 0 /\ g.sgst = 0
          /\ 100 * g.total <= m /\ m < 100 * g.total + 100 * 1
      BY <1>5, <2>2
    <2> QED BY <1>1, <1>7, <2>1, <2>3
  <1> QED BY <1>6, <1>7
-----------------------------------------------------------------------------
(* QuoteBinding *)

IsMarked(x) ==
  x = [quote |-> x.quote, at |-> x.at, edited |-> x.edited,
       rebargained |-> x.rebargained, forgotten |-> x.forgotten]

\* The hash covers what the agent was shown.
IsCovered(q) ==
  /\ q.hash = computeQuoteHash(q.buyer, q.request, q.price, q.tax, q.expiry)
  /\ q.expiry \in Int

IsOnFile(q, hashes, t) == q.hash \in hashes \/ q.expiry < t - quoteExpiryGraceSeconds

IsStruck(key, a, bargains, t) ==
  \E s \in bargains :
    /\ key = agreementKey(s.buyer, s.quantity) /\ a.price = s.price /\ s.price \in Nat
    /\ s.at \in Nat /\ s.at <= t /\ a.expires = s.at + agreedPriceValiditySeconds

Types == now \in Nat /\ listing \in Listings /\ \A h \in issued : h.expiry \in Int
Quotes ==
  \A x \in handed :
    /\ IsMarked(x) /\ IsCovered(x.quote)
    /\ ~x.forgotten => IsOnFile(x.quote, issued, now)
    /\ ~x.edited => Evaluates(listing)
Struck == \A k \in DOMAIN agreements : IsStruck(k, agreements[k], struck, now)
Signed == PaidAsQuoted /\ DiscountIsBargained

QuoteInv == Types /\ Quotes /\ Struck /\ Signed
-----------------------------------------------------------------------------
\* What a request is priced at: no more than the automatic price, less only by a
\* bargain that was struck and is still valid.
LEMMA PricedIsBacked ==
  ASSUME Types, Struck, NEW b, NEW r \in Requests,
         NEW f, f = Priced(b, r), NEW automatic, automatic = AutomaticOffer(r)
  PROVE  /\ automatic \in Nat /\ f.price \in Nat /\ f.price <= automatic
         /\ f.price < automatic =>
              \E s \in struck :
                /\ s.buyer = b /\ s.quantity = r.quantity /\ s.price = f.price
                /\ s.at <= now /\ now <= s.at + agreedPriceValiditySeconds
         /\ f.buyer = b /\ f.request = r /\ IsCovered(f)
  <1>1. automatic \in Nat
    <2>1. IsListing(listing) /\ r.quantity \in Nat
      BY QuoteAssumption DEF Types
    <2>2. AutomaticPrice(listing, r.quantity, r.code, now) \in 0..listing.base
      BY <2>1, AutomaticPriceBounded DEF Types
    <2> QED BY <2>1, <2>2 DEF AutomaticOffer, IsListing
  <1>2. PICK applied : applied = AppliedAgreement(b, r.quantity, automatic)
    OBVIOUS
  <1>3. PICK price : price = IF applied = {} THEN automatic
                             ELSE (CHOOSE x \in applied : TRUE).price
    OBVIOUS
  <1>4. PICK tax, expiry : tax = TaxOf(r, price) /\ expiry = QuoteExpiry(applied)
    OBVIOUS
  <1>5. f = [buyer |-> b, request |-> r, price |-> price, tax |-> tax, expiry |-> expiry,
             hash |-> computeQuoteHash(b, r, price, tax, expiry)]
    BY <1>2, <1>3, <1>4, Zenon DEF Priced
  <1>6. CASE applied = {}
    <2>1. price = automatic /\ expiry \in Int
      BY <1>3, <1>4, <1>6, QuoteAssumption DEF QuoteExpiry, Types
    <2> QED BY <1>1, <1>5, <2>1 DEF IsCovered
  <1>7. CASE applied # {}
    <2>1. PICK a \in applied : a = CHOOSE x \in applied : TRUE
      BY <1>7
    <2>2. price = a.price
      BY <1>3, <1>7, <2>1
    <2>3. PICK key \in DOMAIN agreements :
            /\ a = agreements[key] /\ key = agreementKey(b, r.quantity)
            /\ a.expires >= now /\ a.price < automatic
      BY <1>2 DEF AppliedAgreement, LookupAgreement
    <2>4. PICK s \in struck :
            /\ key = agreementKey(s.buyer, s.quantity) /\ a.price = s.price /\ s.price \in Nat
            /\ s.at \in Nat /\ s.at <= now /\ a.expires = s.at + agreedPriceValiditySeconds
      BY <2>3 DEF Struck, IsStruck
    <2>5. s.buyer = b /\ s.quantity = r.quantity
      BY <2>3, <2>4 DEF agreementKey
    <2>6. now <= s.at + agreedPriceValiditySeconds /\ a.expires \in Int
      BY <2>3, <2>4, QuoteAssumption DEF Types
    <2>7. expiry \in Int
      <3>1. expiry = Lower(now + quoteValiditySeconds, a.expires)
        BY <1>4, <1>7, <2>1 DEF QuoteExpiry
      <3> QED BY <2>6, <3>1, QuoteAssumption DEF Types, Lower
    <2>8. price \in Nat /\ price <= automatic
      BY <1>1, <2>2, <2>3, <2>4
    <2> QED BY <1>1, <1>5, <2>2, <2>4, <2>5, <2>6, <2>7, <2>8 DEF IsCovered
  <1> QED BY <1>6, <1>7

\* Recording a quote keeps the hashes of the others that are not over.
LEMMA RecordingKeeps ==
  ASSUME Types, NEW f, IsCovered(f), RecordIssued(f)
  PROVE  /\ f.hash \in issued' /\ \A h \in issued' : h.expiry \in Int
         /\ \A q : IsCovered(q) /\ IsOnFile(q, issued, now) => IsOnFile(q, issued', now)
  <1>1. issued' = WithoutLapsed(issued) \cup {f.hash}
    BY DEF RecordIssued
  <1>2. \A q : IsCovered(q) => q.hash.expiry = q.expiry /\ q.expiry \in Int
    BY DEF IsCovered, computeQuoteHash
  <1>3. ASSUME NEW q, IsCovered(q), IsOnFile(q, issued, now)
        PROVE  IsOnFile(q, issued', now)
    <2>1. CASE q.hash \in issued
      <3>1. q.hash.expiry = q.expiry /\ q.expiry \in Int
        BY <1>2, <1>3
      <3>2. CASE q.expiry >= now - quoteExpiryGraceSeconds
        BY <1>1, <2>1, <3>1, <3>2 DEF WithoutLapsed, IsOnFile
      <3>3. CASE q.expiry < now - quoteExpiryGraceSeconds
        BY <3>3 DEF IsOnFile
      <3> QED BY <3>1, <3>2, <3>3, QuoteAssumption DEF Types
    <2>2. CASE q.hash \notin issued
      BY <1>3, <2>2 DEF IsOnFile
    <2> QED BY <2>1, <2>2
  <1>4. \A h \in issued' : h.expiry \in Int
    BY <1>1, <1>2 DEF WithoutLapsed, Types
  <1> QED BY <1>1, <1>3, <1>4

\* A cart is signed for what the presented quote showed.
LEMMA SignedAsShown ==
  ASSUME NEW b, NEW r, NEW q, IsCovered(q),
         CartVerdict(b, r, q.hash, q.expiry) = "matches"
  PROVE  /\ b = q.buyer /\ r.quantity = q.request.quantity
         /\ Priced(b, r).price = q.price /\ Priced(b, r).tax = q.tax
         /\ ~(q.expiry < now - quoteExpiryGraceSeconds)
  <1>1. PICK price, tax : price = Priced(b, r).price /\ tax = Priced(b, r).tax
    OBVIOUS
  <1>2. /\ q.hash = computeQuoteHash(b, r, price, tax, q.expiry)
        /\ ~(q.expiry < now - quoteExpiryGraceSeconds)
    BY <1>1 DEF CartVerdict
  <1>3. /\ q.hash.buyer = b /\ q.hash.quantity = r.quantity
        /\ q.hash.price = price /\ q.hash.tax = tax
    BY <1>2 DEF computeQuoteHash
  <1>4. /\ q.hash.buyer = q.buyer /\ q.hash.quantity = q.request.quantity
        /\ q.hash.price = q.price /\ q.hash.tax = q.tax
    BY DEF IsCovered, computeQuoteHash
  <1> QED BY <1>1, <1>2, <1>3, <1>4
-----------------------------------------------------------------------------
(* The steps *)

\* Signed speaks of carts and bargains alone, and bargains are never taken back.
LEMMA SignedStays ==
  Signed /\ UNCHANGED carts /\ struck \subseteq struck' => Signed'
  BY DEF Signed, PaidAsQuoted, DiscountIsBargained

LEMMA QuoteKeeps ==
  ASSUME QuoteInv, NEW b \in Buyers, NEW r \in Requests, ExecuteSkuQuote(b, r)
  PROVE  QuoteInv'
  <1>1. PICK f : f = Priced(b, r) /\ IsCovered(f)
    BY PricedIsBacked DEF QuoteInv
  <1>2. RecordIssued(f) /\ UNCHANGED <<now, listing, agreements, carts, struck>>
    BY <1>1 DEF ExecuteSkuQuote
  <1>3. /\ f.hash \in issued' /\ \A h \in issued' : h.expiry \in Int
        /\ \A q : IsCovered(q) /\ IsOnFile(q, issued, now) => IsOnFile(q, issued', now)
    BY <1>1, <1>2, RecordingKeeps DEF QuoteInv
  <1>4. Quotes'
    <2>1. ASSUME NEW x \in handed'
          PROVE  /\ IsMarked(x) /\ IsCovered(x.quote)
                 /\ ~x.forgotten => IsOnFile(x.quote, issued', now)
                 /\ ~x.edited => Evaluates(listing)
      <3>1. CASE x \in handed
        BY <1>3, <3>1 DEF QuoteInv, Quotes
      <3>2. CASE x \notin handed
        <4>1. x = HandOut(f) /\ Evaluates(listing)
          BY <1>1, <2>1, <3>2 DEF ExecuteSkuQuote, Answers
        <4>2. x.quote = f /\ IsMarked(x)
          BY <4>1 DEF HandOut, IsMarked
        <4> QED BY <1>1, <1>3, <4>1, <4>2 DEF IsOnFile
      <3> QED BY <3>1, <3>2
    <2> QED BY <1>2, <2>1 DEF Quotes
  <1>5. Types' /\ Struck' /\ Signed'
    BY <1>2, <1>3, SignedStays DEF QuoteInv, Types, Struck
  <1> QED BY <1>4, <1>5 DEF QuoteInv

LEMMA ReservationKeeps ==
  ASSUME QuoteInv, NEW b, NEW q, NEW h, ReserveInventoryLock(b, q, h)
  PROVE  QuoteInv'
  <1>1. UNCHANGED <<now, listing, agreements, issued, handed, carts, edits, struck>>
    BY DEF ReserveInventoryLock
  <1> QED BY <1>1, SignedStays DEF QuoteInv, Types, Quotes, Struck

LEMMA CartKeeps ==
  ASSUME QuoteInv, NEW b \in Buyers, NEW r \in Requests, NEW held \in handed,
         CreateCartMandate(b, r, held)
  PROVE  QuoteInv'
  <1>1. PICK f, automatic :
          /\ f = Priced(b, r) /\ automatic = AutomaticOffer(r) /\ IsCovered(f)
          /\ automatic \in Nat /\ f.price \in Nat /\ f.price <= automatic
          /\ f.price < automatic =>
              \E s \in struck :
                /\ s.buyer = b /\ s.quantity = r.quantity /\ s.price = f.price
                /\ s.at <= now /\ now <= s.at + agreedPriceValiditySeconds
    BY PricedIsBacked DEF QuoteInv
  <1>2. RecordIssued(f) /\ UNCHANGED <<now, listing, agreements, handed, struck>>
    BY <1>1 DEF CreateCartMandate
  <1>3. /\ \A h \in issued' : h.expiry \in Int
        /\ \A q : IsCovered(q) /\ IsOnFile(q, issued, now) => IsOnFile(q, issued', now)
    BY <1>1, <1>2, RecordingKeeps DEF QuoteInv
  <1>4. Types' /\ Quotes' /\ Struck'
    BY <1>2, <1>3 DEF QuoteInv, Types, Quotes, Struck
  <1>5. ASSUME NEW c \in carts', c \notin carts
        PROVE  /\ c.buyer = c.shown.buyer /\ c.request.quantity = c.shown.request.quantity
               /\ c.price = c.shown.price /\ c.tax = c.shown.tax
               /\ c.price <= c.automatic
               /\ c.price < c.automatic =>
                    \E s \in struck :
                      /\ s.buyer = c.buyer /\ s.quantity = c.request.quantity
                      /\ s.price = c.price
                      /\ s.at <= c.at /\ c.at <= s.at + agreedPriceValiditySeconds
    <2>1. /\ c = [buyer |-> b, request |-> r, price |-> f.price, tax |-> f.tax,
                  shown |-> held.quote, automatic |-> automatic, at |-> now]
          /\ CartVerdict(b, r, held.quote.hash, held.quote.expiry) = "matches"
      BY <1>1, <1>5 DEF CreateCartMandate
    <2>2. IsCovered(held.quote)
      BY DEF QuoteInv, Quotes
    <2>3. /\ b = held.quote.buyer /\ r.quantity = held.quote.request.quantity
          /\ f.price = held.quote.price /\ f.tax = held.quote.tax
      BY <1>1, <2>1, <2>2, SignedAsShown
    <2>4. /\ c.buyer = b /\ c.request = r /\ c.price = f.price /\ c.tax = f.tax
          /\ c.shown = held.quote /\ c.automatic = automatic /\ c.at = now
      BY <2>1
    <2> QED BY <1>1, <2>3, <2>4
  <1>6. Signed'
    BY <1>2, <1>5 DEF QuoteInv, Signed, PaidAsQuoted, DiscountIsBargained
  <1> QED BY <1>4, <1>6 DEF QuoteInv

\* Marking quotes in hand changes nothing else of them.
LEMMA BargainKeeps ==
  ASSUME QuoteInv, NEW b \in Buyers, NEW q \in Quantities, NEW p \in Bargains,
         RecordBargain(b, q, p)
  PROVE  QuoteInv'
  <1>1. UNCHANGED <<now, listing, issued, carts>> /\ struck \subseteq struck'
    BY DEF RecordBargain
  <1>2. Quotes'
    <2>1. ASSUME NEW y \in handed'
          PROVE  \E x \in handed : IsMarked(y) /\ y.quote = x.quote
                                   /\ y.forgotten = x.forgotten /\ y.edited = x.edited
      <3>1. PICK x \in handed : y = IF x.quote.buyer = b THEN [x EXCEPT !.rebargained = TRUE] ELSE x
        BY DEF RecordBargain
      <3>2. IsMarked(x)
        BY DEF QuoteInv, Quotes
      <3> QED BY <3>1, <3>2 DEF IsMarked
    <2> QED BY <1>1, <2>1 DEF QuoteInv, Quotes
  <1>3. Struck'
    <2>1. PICK key : key = agreementKey(b, q)
      OBVIOUS
    <2>2. agreements' = [k \in StillAgreed \cup {key} |->
                           IF k = key
                           THEN [price |-> p, expires |-> now + agreedPriceValiditySeconds]
                           ELSE agreements[k]]
      BY <2>1 DEF RecordBargain, RecordAgreement
    <2>3. PICK s \in struck' : s = [buyer |-> b, quantity |-> q, price |-> p, at |-> now]
      BY DEF RecordBargain
    <2>4. ASSUME NEW k \in DOMAIN agreements'
          PROVE  IsStruck(k, agreements'[k], struck', now)
      <3>1. CASE k = key
        <4>1. agreements'[k] = [price |-> p, expires |-> now + agreedPriceValiditySeconds]
          BY <2>2, <3>1
        <4> QED BY <2>1, <2>3, <3>1, <4>1, QuoteAssumption DEF IsStruck, QuoteInv, Types
      <3>2. CASE k # key
        <4>1. k \in DOMAIN agreements /\ agreements'[k] = agreements[k]
          BY <2>2, <3>2 DEF StillAgreed
        <4> QED BY <1>1, <4>1 DEF QuoteInv, Struck, IsStruck
      <3> QED BY <3>1, <3>2
    <2> QED BY <1>1, <2>4 DEF Struck
  <1>4. Types' /\ Signed'
    BY <1>1, SignedStays DEF QuoteInv, Types
  <1> QED BY <1>2, <1>3, <1>4 DEF QuoteInv

LEMMA PublicationKeeps ==
  ASSUME QuoteInv, NEW l \in Listings, PublishListing(l)
  PROVE  QuoteInv'
  <1>1. listing' = l /\ UNCHANGED <<now, agreements, issued, carts, struck>>
    BY DEF PublishListing
  <1>2. Quotes'
    <2>1. ASSUME NEW y \in handed'
          PROVE  \E x \in handed : /\ IsMarked(y) /\ y.quote = x.quote
                                   /\ y.forgotten = x.forgotten /\ y.edited
      <3>1. PICK x \in handed : y = [x EXCEPT !.edited = TRUE]
        BY DEF PublishListing
      <3>2. IsMarked(x)
        BY DEF QuoteInv, Quotes
      <3> QED BY <3>1, <3>2 DEF IsMarked
    <2> QED BY <1>1, <2>1 DEF QuoteInv, Quotes
  <1>3. Types' /\ Struck' /\ Signed'
    BY <1>1, SignedStays DEF QuoteInv, Types, Struck
  <1> QED BY <1>2, <1>3 DEF QuoteInv

LEMMA RestartKeeps ==
  ASSUME QuoteInv, Restart
  PROVE  QuoteInv'
  <1>1. /\ agreements' = <<>> /\ issued' = {}
        /\ UNCHANGED <<now, listing, carts, struck>>
    BY DEF Restart
  <1>2. Quotes'
    <2>1. ASSUME NEW y \in handed'
          PROVE  \E x \in handed : /\ IsMarked(y) /\ y.quote = x.quote
                                   /\ y.forgotten /\ y.edited = x.edited
      <3>1. PICK x \in handed : y = [x EXCEPT !.forgotten = TRUE]
        BY DEF Restart
      <3>2. IsMarked(x)
        BY DEF QuoteInv, Quotes
      <3> QED BY <3>1, <3>2 DEF IsMarked
    <2> QED BY <1>1, <2>1 DEF QuoteInv, Quotes
  <1>3. Types' /\ Struck' /\ Signed'
    BY <1>1, SignedStays DEF QuoteInv, Types, Struck
  <1> QED BY <1>2, <1>3 DEF QuoteInv

LEMMA TickKeeps ==
  ASSUME QuoteInv, Tick
  PROVE  QuoteInv'
  <1>1. /\ now' = now + 1 /\ now \in Nat /\ now' \in Nat
        /\ UNCHANGED <<listing, agreements, issued, handed, carts, struck>>
    BY DEF Tick, QuoteInv, Types
  <1>2. ASSUME NEW q, IsCovered(q), IsOnFile(q, issued, now)
        PROVE  IsOnFile(q, issued, now')
    BY <1>1, <1>2, QuoteAssumption DEF IsOnFile, IsCovered
  <1>3. Quotes'
    BY <1>1, <1>2 DEF QuoteInv, Quotes
  <1>4. Struck'
    <2>1. ASSUME NEW k, NEW a, IsStruck(k, a, struck, now)
          PROVE  IsStruck(k, a, struck, now')
      BY <1>1, <2>1 DEF IsStruck
    <2> QED BY <1>1, <2>1 DEF QuoteInv, Struck
  <1>5. Types' /\ Signed'
    BY <1>1, SignedStays DEF QuoteInv, Types
  <1> QED BY <1>3, <1>4, <1>5 DEF QuoteInv

\* What is quoted, agreed and signed stays consistent, for all instances.
THEOREM QuoteInvariant == Spec => []QuoteInv
  <1>1. Init => QuoteInv
    BY DEF Init, QuoteInv, Types, Quotes, Struck, Signed, PaidAsQuoted, DiscountIsBargained
  <1>2. QuoteInv /\ [Next]_vars => QuoteInv'
    <2> SUFFICES ASSUME QuoteInv, [Next]_vars  PROVE QuoteInv'
      OBVIOUS
    <2>1. CASE Next
      BY <2>1, QuoteKeeps, ReservationKeeps, CartKeeps, BargainKeeps, PublicationKeeps,
         RestartKeeps, TickKeeps DEF Next
    <2>2. CASE UNCHANGED vars
      <3>1. UNCHANGED <<now, listing, agreements, issued, handed, carts, struck>>
        BY <2>2 DEF vars
      <3> QED BY <3>1, SignedStays DEF QuoteInv, Types, Quotes, Struck
    <2> QED BY <2>1, <2>2
  <1> QED BY <1>1, <1>2, PTL DEF Spec

\* A signed cart has the buyer, quantity, price and tax of the quote presented for
\* it, whatever happened in between, for all instances.
THEOREM PriceBinding == Spec => []PaidAsQuoted
  <1>1. QuoteInv => PaidAsQuoted
    BY DEF QuoteInv, Signed
  <1> QED BY QuoteInvariant, <1>1, PTL

\* A cart below the automatic price is backed by a bargain of its buyer for its
\* quantity that was valid when it was signed, for all instances.
THEOREM DiscountBacking == Spec => []DiscountIsBargained
  <1>1. QuoteInv => DiscountIsBargained
    BY DEF QuoteInv, Signed
  <1> QED BY QuoteInvariant, <1>1, PTL

\* A quote usable for a cart is known to the locker until the process restarts,
\* for all instances.
THEOREM GuardsAgree == Spec => []PayableIsLockable
  <1>1. QuoteInv => PayableIsLockable
    <2> SUFFICES ASSUME QuoteInv, NEW x \in handed, NEW q, q = x.quote, ~x.forgotten,
                        CartVerdict(q.buyer, q.request, q.hash, q.expiry) = "matches"
                 PROVE  LockVerdict(q.hash, q.buyer, q.request.quantity) = "issued"
      BY DEF PayableIsLockable
    <2>1. IsCovered(q) /\ IsOnFile(q, issued, now)
      BY DEF QuoteInv, Quotes
    <2>2. ~(q.expiry < now - quoteExpiryGraceSeconds)
      BY <2>1, SignedAsShown
    <2>3. /\ q.hash \in issued /\ q.hash.expiry = q.expiry /\ q.hash.buyer = q.buyer
          /\ q.hash.quantity = q.request.quantity
      BY <2>1, <2>2 DEF IsOnFile, IsCovered, computeQuoteHash
    <2> QED BY <2>2, <2>3 DEF LockVerdict
  <1> QED BY QuoteInvariant, <1>1, PTL

\* When a sale that a quote announced is open and the listing was not edited, no
\* request is priced above it, for all instances.
THEOREM SaleSafety == Spec => []SaleHonoured
  <1>1. QuoteInv => SaleHonoured
    <2> SUFFICES ASSUME QuoteInv, NEW x \in handed, NEW p \in Upcoming(listing, x.at),
                        ~x.edited, IsOpen(p, now), NEW b \in Buyers, NEW r \in Requests
                 PROVE  Priced(b, r).price <= calculatePromotionUnitPrice(listing.base, p)
      BY DEF SaleHonoured
    <2>1. /\ Evaluates(listing) /\ IsListing(listing) /\ p \in listing.promotions
          /\ now \in Nat /\ r.quantity \in Nat
      BY QuoteAssumption DEF QuoteInv, Quotes, Types, Upcoming
    <2>2. PICK sale \in Nat : sale = calculatePromotionUnitPrice(listing.base, p)
      BY <2>1, PromotionBounded DEF Evaluates, IsListing
    <2>3. sale \in ActivePrices(listing, now)
      BY <2>1, <2>2 DEF ActivePrices
    <2>4. AutomaticOffer(r) <= sale
      BY <2>1, <2>3, AutomaticPriceBounded DEF AutomaticOffer
    <2>5. /\ AutomaticOffer(r) \in Nat /\ Priced(b, r).price \in Nat
          /\ Priced(b, r).price <= AutomaticOffer(r)
      BY PricedIsBacked DEF QuoteInv
    <2> QED BY <2>2, <2>4, <2>5
  <1> QED BY QuoteInvariant, <1>1, PTL
-----------------------------------------------------------------------------
(* A live quote is honoured.  QuoteInv says where a quote's hash is; what a  *)
(* quote is still worth needs the agreement that priced it, or the absence   *)
(* of a cheaper one, for as long as nothing on its marks has changed.        *)

\* The automatic price of a quote's request at the moment the quote was given.
AutomaticThen(x) ==
  AutomaticPrice(listing, x.quote.request.quantity, x.quote.request.code, x.at)

KeyOf(q) == agreementKey(q.buyer, q.request.quantity)

\* No agreement of the buyer for the quantity is below the quoted automatic price.
AtAutomatic(x) ==
  /\ x.quote.price = AutomaticThen(x)
  /\ KeyOf(x.quote) \in DOMAIN agreements /\ agreements[KeyOf(x.quote)].expires >= now
     => agreements[KeyOf(x.quote)].price >= AutomaticThen(x)

\* The agreement that priced the quote is on file for as long as the quote lives.
AtAgreement(x) ==
  now <= x.quote.expiry =>
    /\ KeyOf(x.quote) \in DOMAIN agreements
    /\ agreements[KeyOf(x.quote)].price = x.quote.price
    /\ agreements[KeyOf(x.quote)].expires >= x.quote.expiry
    /\ x.quote.price < AutomaticThen(x)

Unmarked(x) == ~x.edited /\ ~x.rebargained /\ ~x.forgotten

IsWorth(x) == /\ AtAutomatic(x) \/ AtAgreement(x)
              /\ x.quote.tax = TaxOf(x.quote.request, x.quote.price)

IsRequested(x) == x.quote.request \in Requests /\ x.at \in Nat

WorthInv == \A x \in handed : IsRequested(x) /\ (Unmarked(x) => IsWorth(x))

\* What a request is priced at, in its two cases.
LEMMA PricedByCase ==
  ASSUME NEW b, NEW r, NEW f, f = Priced(b, r),
         NEW automatic, automatic = AutomaticOffer(r),
         NEW applied, applied = AppliedAgreement(b, r.quantity, automatic)
  PROVE  /\ f.buyer = b /\ f.request = r /\ f.tax = TaxOf(r, f.price)
         /\ f.expiry = QuoteExpiry(applied)
         /\ applied = {} => f.price = automatic
         /\ applied # {} => f.price = (CHOOSE a \in applied : TRUE).price
  <1>1. PICK price : price = IF applied = {} THEN automatic
                             ELSE (CHOOSE a \in applied : TRUE).price
    OBVIOUS
  <1>2. PICK tax, expiry : tax = TaxOf(r, price) /\ expiry = QuoteExpiry(applied)
    OBVIOUS
  <1>3. f = [buyer |-> b, request |-> r, price |-> price, tax |-> tax, expiry |-> expiry,
             hash |-> computeQuoteHash(b, r, price, tax, expiry)]
    BY <1>1, <1>2, Zenon DEF Priced
  <1>4. /\ f.buyer = b /\ f.request = r /\ f.price = price /\ f.tax = tax
        /\ f.expiry = expiry
    BY <1>3
  <1> QED BY <1>1, <1>2, <1>4

\* The agreement looked up is the one of its key, if that has not lapsed.
LEMMA LookupIsKeyed ==
  ASSUME NEW b, NEW quantity, NEW key, key = agreementKey(b, quantity)
  PROVE  /\ \A a \in LookupAgreement(b, quantity) :
              key \in DOMAIN agreements /\ a = agreements[key] /\ a.expires >= now
         /\ key \in DOMAIN agreements /\ agreements[key].expires >= now
            => agreements[key] \in LookupAgreement(b, quantity)
  BY DEF LookupAgreement

\* An agreement on file is for a natural price.
LEMMA AgreedAreNatural ==
  ASSUME QuoteInv, NEW k \in DOMAIN agreements
  PROVE  agreements[k].price \in Nat /\ agreements[k].expires \in Nat
  BY QuoteAssumption DEF QuoteInv, Struck, IsStruck

LEMMA AutomaticIsNatural ==
  ASSUME QuoteInv, NEW r \in Requests, NEW t \in Nat
  PROVE  AutomaticPrice(listing, r.quantity, r.code, t) \in Nat
  <1>1. IsListing(listing) /\ r.quantity \in Nat
    BY QuoteAssumption DEF QuoteInv, Types
  <1>2. AutomaticPrice(listing, r.quantity, r.code, t) \in 0..listing.base
    BY <1>1, AutomaticPriceBounded
  <1> QED BY <1>1, <1>2 DEF IsListing

\* A fresh quote is worth what it says.
LEMMA FreshIsWorth ==
  ASSUME QuoteInv, NEW b \in Buyers, NEW r \in Requests,
         NEW x, x = HandOut(Priced(b, r))
  PROVE  IsRequested(x) /\ IsWorth(x)
  <1>1. PICK automatic : automatic = AutomaticOffer(r)
    OBVIOUS
  <1>2. PICK applied : applied = AppliedAgreement(b, r.quantity, automatic)
    OBVIOUS
  <1>3. PICK q : q = Priced(b, r)
    OBVIOUS
  <1>4. x.quote = q /\ x.at = now
    BY <1>3 DEF HandOut
  <1>5. /\ q.buyer = b /\ q.request = r /\ q.tax = TaxOf(r, q.price)
        /\ q.expiry = QuoteExpiry(applied)
        /\ applied = {} => q.price = automatic
        /\ applied # {} => q.price = (CHOOSE a \in applied : TRUE).price
    BY <1>1, <1>2, <1>3, PricedByCase
  <1>6. now \in Nat /\ automatic \in Nat /\ AutomaticThen(x) = automatic
    BY <1>1, <1>4, <1>5, AutomaticIsNatural DEF QuoteInv, Types, AutomaticThen, AutomaticOffer
  <1>7. PICK key : key = agreementKey(b, r.quantity) /\ KeyOf(q) = key
    BY <1>5 DEF KeyOf
  <1>8. CASE applied = {}
    <2>1. ASSUME key \in DOMAIN agreements, agreements[key].expires >= now
          PROVE  agreements[key].price >= automatic
      <3>1. agreements[key] \in LookupAgreement(b, r.quantity)
        BY <1>7, <2>1, LookupIsKeyed
      <3>2. ~(agreements[key].price < automatic)
        BY <1>2, <1>8, <3>1 DEF AppliedAgreement
      <3> QED BY <1>6, <2>1, <3>2, AgreedAreNatural
    <2>2. AtAutomatic(x)
      BY <1>4, <1>5, <1>6, <1>7, <1>8, <2>1 DEF AtAutomatic
    <2> QED BY <1>4, <1>5, <1>6, <2>2 DEF IsRequested, IsWorth
  <1>9. CASE applied # {}
    <2>1. PICK a \in applied : a = CHOOSE y \in applied : TRUE
      BY <1>9
    <2>2. a \in LookupAgreement(b, r.quantity) /\ a.price < automatic
      BY <1>2 DEF AppliedAgreement
    <2>3. key \in DOMAIN agreements /\ a = agreements[key]
      BY <1>7, <2>2, LookupIsKeyed
    <2>4. a.expires \in Nat
      BY <2>3, AgreedAreNatural
    <2>5. q.expiry = Lower(now + quoteValiditySeconds, a.expires)
      BY <1>5, <1>9, <2>1 DEF QuoteExpiry
    <2>6. a.expires >= q.expiry
      BY <1>6, <2>4, <2>5, QuoteAssumption DEF Lower
    <2>7. AtAgreement(x)
      BY <1>4, <1>5, <1>6, <1>7, <1>9, <2>1, <2>2, <2>3, <2>6 DEF AtAgreement
    <2> QED BY <1>4, <1>5, <1>6, <2>7 DEF IsRequested, IsWorth
  <1> QED BY <1>8, <1>9

LEMMA WorthAfterQuote ==
  ASSUME QuoteInv, WorthInv, NEW b \in Buyers, NEW r \in Requests, ExecuteSkuQuote(b, r)
  PROVE  WorthInv'
  <1>1. UNCHANGED <<now, listing, agreements>>
    BY DEF ExecuteSkuQuote
  <1>2. ASSUME NEW x \in handed' PROVE IsRequested(x) /\ (Unmarked(x) => IsWorth(x))
    <2>1. CASE x \in handed
      BY <2>1 DEF WorthInv
    <2>2. CASE x \notin handed
      <3>1. x = HandOut(Priced(b, r))
        BY <1>2, <2>2 DEF ExecuteSkuQuote
      <3> QED BY <3>1, FreshIsWorth
    <2> QED BY <2>1, <2>2
  <1> QED BY <1>1, <1>2 DEF WorthInv, IsRequested, Unmarked, IsWorth, AtAutomatic, AtAgreement,
                            AutomaticThen, TaxOf

\* A bargain disturbs no quote but its buyer's, and clears out only what lapsed.
LEMMA WorthAfterBargain ==
  ASSUME QuoteInv, WorthInv, NEW b \in Buyers, NEW quantity, NEW p \in Bargains,
         RecordBargain(b, quantity, p)
  PROVE  WorthInv'
  <1>1. UNCHANGED <<now, listing>>
    BY DEF RecordBargain
  <1>2. PICK made : made = agreementKey(b, quantity)
    OBVIOUS
  <1>3. agreements' = [k \in StillAgreed \cup {made} |->
                         IF k = made
                         THEN [price |-> p, expires |-> now + agreedPriceValiditySeconds]
                         ELSE agreements[k]]
    BY <1>2 DEF RecordBargain, RecordAgreement
  <1>4. ASSUME NEW k, k # made
        PROVE  /\ k \in DOMAIN agreements' => k \in DOMAIN agreements
               /\ k \in DOMAIN agreements /\ agreements[k].expires >= now
                  => k \in DOMAIN agreements'
               /\ k \in DOMAIN agreements' => agreements'[k] = agreements[k]
    BY <1>3, <1>4 DEF StillAgreed
  <1>5. ASSUME NEW y \in handed' PROVE IsRequested(y)
    <2>1. PICK x \in handed :
            y = IF x.quote.buyer = b THEN [x EXCEPT !.rebargained = TRUE] ELSE x
      BY DEF RecordBargain
    <2>2. IsMarked(x) /\ IsRequested(x)
      BY DEF QuoteInv, Quotes, WorthInv
    <2> QED BY <2>1, <2>2 DEF IsMarked, IsRequested
  <1>6. ASSUME NEW y \in handed', Unmarked(y) PROVE IsWorth(y)'
    <2>1. PICK x \in handed :
            y = IF x.quote.buyer = b THEN [x EXCEPT !.rebargained = TRUE] ELSE x
      BY DEF RecordBargain
    <2>2. IsMarked(x) /\ IsCovered(x.quote) /\ (Unmarked(x) => IsWorth(x))
      BY DEF QuoteInv, Quotes, WorthInv
    <2>3. y = x /\ x.quote.buyer # b
      <3>1. ASSUME x.quote.buyer = b PROVE y.rebargained
        BY <2>1, <2>2, <3>1 DEF IsMarked
      <3> QED BY <1>6, <2>1, <3>1 DEF Unmarked
    <2>4. IsCovered(y.quote) /\ IsWorth(y) /\ y.quote.buyer # b
      BY <1>6, <2>2, <2>3
    <2>5. PICK key : key = KeyOf(y.quote) /\ key # made
      <3>1. /\ KeyOf(y.quote) = <<y.quote.buyer, y.quote.request.quantity>>
            /\ made = <<b, quantity>>
        BY <1>2 DEF KeyOf, agreementKey
      <3>2. KeyOf(y.quote) # made
        <4>1. ASSUME KeyOf(y.quote) = made PROVE y.quote.buyer = b
          BY <3>1, <4>1
        <4> QED BY <2>4, <4>1
      <3> QED BY <3>2
    <2>6. y.quote.tax = TaxOf(y.quote.request, y.quote.price)
      BY <2>4 DEF IsWorth
    <2>7. CASE AtAutomatic(y)
      <3>1. AtAutomatic(y)'
        BY <1>1, <1>4, <2>5, <2>7 DEF AtAutomatic, AutomaticThen
      <3> QED BY <1>1, <2>6, <3>1 DEF IsWorth, TaxOf
    <2>8. CASE AtAgreement(y)
      <3>1. ASSUME now <= y.quote.expiry
            PROVE  /\ key \in DOMAIN agreements' /\ agreements'[key] = agreements[key]
        <4>1. key \in DOMAIN agreements /\ agreements[key].expires >= y.quote.expiry
          BY <2>5, <2>8, <3>1 DEF AtAgreement
        <4>2. agreements[key].expires \in Nat /\ now \in Nat /\ y.quote.expiry \in Int
          BY <2>4, <4>1, AgreedAreNatural DEF QuoteInv, Types, IsCovered
        <4>3. agreements[key].expires >= now
          BY <3>1, <4>1, <4>2
        <4> QED BY <1>4, <2>5, <4>1, <4>3
      <3>2. AtAgreement(y)'
        BY <1>1, <2>5, <2>8, <3>1 DEF AtAgreement, AutomaticThen
      <3> QED BY <1>1, <2>6, <3>2 DEF IsWorth, TaxOf
    <2> QED BY <2>4, <2>7, <2>8 DEF IsWorth
  <1> QED BY <1>5, <1>6 DEF WorthInv, IsRequested, Unmarked

LEMMA WorthAfterPublication ==
  ASSUME QuoteInv, WorthInv, NEW l, PublishListing(l)
  PROVE  WorthInv'
  <1>1. ASSUME NEW y \in handed' PROVE IsRequested(y) /\ ~Unmarked(y)
    <2>1. PICK x \in handed : y = [x EXCEPT !.edited = TRUE]
      BY DEF PublishListing
    <2>2. IsMarked(x) /\ IsRequested(x)
      BY DEF QuoteInv, Quotes, WorthInv
    <2> QED BY <2>1, <2>2 DEF IsMarked, IsRequested, Unmarked
  <1> QED BY <1>1 DEF WorthInv, IsRequested, Unmarked

LEMMA WorthAfterRestart ==
  ASSUME QuoteInv, WorthInv, Restart
  PROVE  WorthInv'
  <1>1. ASSUME NEW y \in handed' PROVE IsRequested(y) /\ ~Unmarked(y)
    <2>1. PICK x \in handed : y = [x EXCEPT !.forgotten = TRUE]
      BY DEF Restart
    <2>2. IsMarked(x) /\ IsRequested(x)
      BY DEF QuoteInv, Quotes, WorthInv
    <2> QED BY <2>1, <2>2 DEF IsMarked, IsRequested, Unmarked
  <1> QED BY <1>1 DEF WorthInv, IsRequested, Unmarked

LEMMA WorthAfterTick ==
  ASSUME QuoteInv, WorthInv, Tick
  PROVE  WorthInv'
  <1>1. /\ now' = now + 1 /\ now \in Nat
        /\ UNCHANGED <<listing, agreements, handed>>
    BY DEF Tick, QuoteInv, Types
  <1>2. ASSUME NEW x \in handed, IsWorth(x) PROVE IsWorth(x)'
    <2>1. PICK key : key = KeyOf(x.quote)
      OBVIOUS
    <2>2. x.quote.expiry \in Int
      BY DEF QuoteInv, Quotes, IsCovered
    <2>3. CASE AtAutomatic(x)
      <3>1. ASSUME key \in DOMAIN agreements, agreements[key].expires >= now'
            PROVE  agreements[key].expires >= now
        BY <1>1, <3>1, AgreedAreNatural
      <3>2. AtAutomatic(x)'
        BY <1>1, <2>1, <2>3, <3>1 DEF AtAutomatic, AutomaticThen
      <3> QED BY <1>1, <1>2, <3>2 DEF IsWorth, TaxOf
    <2>4. CASE AtAgreement(x)
      <3>1. now' <= x.quote.expiry => now <= x.quote.expiry
        BY <1>1, <2>2
      <3>2. AtAgreement(x)'
        BY <1>1, <2>4, <3>1 DEF AtAgreement, AutomaticThen
      <3> QED BY <1>1, <1>2, <3>2 DEF IsWorth, TaxOf
    <2> QED BY <1>2, <2>3, <2>4 DEF IsWorth
  <1>3. ASSUME NEW x \in handed' PROVE IsRequested(x) /\ (Unmarked(x) => IsWorth(x)')
    BY <1>1, <1>2, <1>3 DEF WorthInv
  <1> QED BY <1>3 DEF WorthInv, IsRequested, Unmarked

LEMMA WorthStays ==
  ASSUME WorthInv, UNCHANGED <<now, listing, agreements, handed>>
  PROVE  WorthInv'
  BY DEF WorthInv, IsRequested, Unmarked, IsWorth, AtAutomatic, AtAgreement, AutomaticThen, TaxOf

\* Two moments at which the same sales are open have the same automatic prices.
LEMMA SameSalesSamePrice ==
  ASSUME NEW t, NEW quantity, NEW code, SameSales(t)
  PROVE  AutomaticPrice(listing, quantity, code, t)
           = AutomaticPrice(listing, quantity, code, now)
  <1>1. {p \in listing.promotions : IsOpen(p, t)}
          = {p \in listing.promotions : IsOpen(p, now)}
    BY DEF SameSales
  <1>2. ActivePrices(listing, t) = ActivePrices(listing, now)
    BY <1>1 DEF ActivePrices
  <1>3. SalePrice(listing, t) = SalePrice(listing, now)
    BY <1>2 DEF SalePrice
  <1> QED BY <1>3 DEF AutomaticPrice

\* As long as its marks are clear and no sale changed, pricing a quote's request
\* again gives the quote's price and tax.
LEMMA WorthIsRepeated ==
  ASSUME QuoteInv, WorthInv, NEW x \in handed, NEW q, q = x.quote,
         Unmarked(x), now <= q.expiry, SameSales(x.at)
  PROVE  /\ Priced(q.buyer, q.request).price = q.price
         /\ Priced(q.buyer, q.request).tax = q.tax
  <1>1. PICK r \in Requests : r = q.request
    BY DEF WorthInv, IsRequested
  <1>2. PICK b : b = q.buyer
    OBVIOUS
  <1>3. PICK automatic : automatic = AutomaticOffer(r)
    OBVIOUS
  <1>4. PICK applied : applied = AppliedAgreement(b, r.quantity, automatic)
    OBVIOUS
  <1>5. PICK f : f = Priced(b, r)
    OBVIOUS
  <1>6. /\ f.tax = TaxOf(r, f.price)
        /\ applied = {} => f.price = automatic
        /\ applied # {} => f.price = (CHOOSE a \in applied : TRUE).price
    BY <1>3, <1>4, <1>5, PricedByCase
  <1>7. AutomaticThen(x) = automatic /\ automatic \in Nat
    BY <1>1, <1>3, SameSalesSamePrice, AutomaticIsNatural
    DEF AutomaticThen, AutomaticOffer, QuoteInv, Types
  <1>8. PICK key : key = agreementKey(b, r.quantity) /\ KeyOf(q) = key
    BY <1>1, <1>2 DEF KeyOf
  <1>9. IsWorth(x) /\ q.tax = TaxOf(r, q.price)
    BY <1>1 DEF WorthInv, IsWorth
  <1>10. f.price = q.price
    <2>1. CASE AtAutomatic(x)
      <3>1. applied = {}
        <4> SUFFICES ASSUME NEW a \in applied PROVE FALSE
          OBVIOUS
        <4>1. a \in LookupAgreement(b, r.quantity) /\ a.price < automatic
          BY <1>4 DEF AppliedAgreement
        <4>2. key \in DOMAIN agreements /\ a = agreements[key] /\ a.expires >= now
          BY <1>8, <4>1, LookupIsKeyed
        <4>3. a.price >= automatic /\ a.price \in Nat
          BY <1>7, <1>8, <2>1, <4>2, AgreedAreNatural DEF AtAutomatic
        <4> QED BY <1>7, <4>1, <4>3
      <3> QED BY <1>6, <1>7, <2>1, <3>1 DEF AtAutomatic
    <2>2. CASE AtAgreement(x)
      <3>1. /\ key \in DOMAIN agreements /\ agreements[key].price = q.price
            /\ agreements[key].expires >= q.expiry /\ q.price < automatic
        BY <1>7, <1>8, <2>2 DEF AtAgreement
      <3>2. agreements[key].expires >= now
        <4>1. agreements[key].expires \in Nat /\ now \in Nat /\ q.expiry \in Int
          BY <3>1, AgreedAreNatural DEF QuoteInv, Types, Quotes, IsCovered
        <4> QED BY <3>1, <4>1
      <3>3. agreements[key] \in applied
        BY <1>4, <1>8, <3>1, <3>2, LookupIsKeyed DEF AppliedAgreement
      <3>4. \A a \in applied : a = agreements[key]
        BY <1>4, <1>8, LookupIsKeyed DEF AppliedAgreement
      <3>5. (CHOOSE a \in applied : TRUE) = agreements[key]
        BY <3>3, <3>4
      <3> QED BY <1>6, <3>1, <3>3, <3>5
    <2> QED BY <1>9, <2>1, <2>2 DEF IsWorth
  <1> QED BY <1>1, <1>2, <1>5, <1>6, <1>9, <1>10

LEMMA WorthInvariant == Spec => []WorthInv
  <1>1. Init => WorthInv
    BY DEF Init, WorthInv
  <1>2. QuoteInv /\ WorthInv /\ [Next]_vars => WorthInv'
    <2> SUFFICES ASSUME QuoteInv, WorthInv, [Next]_vars PROVE WorthInv'
      OBVIOUS
    <2>1. ASSUME NEW b \in Buyers, NEW r \in Requests, ExecuteSkuQuote(b, r)
          PROVE  WorthInv'
      BY <2>1, WorthAfterQuote
    <2>2. ASSUME NEW b, NEW q, NEW h, ReserveInventoryLock(b, q, h)
          PROVE  WorthInv'
      BY <2>2, WorthStays DEF ReserveInventoryLock
    <2>3. ASSUME NEW b, NEW r, NEW x, CreateCartMandate(b, r, x)
          PROVE  WorthInv'
      BY <2>3, WorthStays DEF CreateCartMandate
    <2>4. ASSUME NEW b \in Buyers, NEW q, NEW p \in Bargains, RecordBargain(b, q, p)
          PROVE  WorthInv'
      BY <2>4, WorthAfterBargain
    <2>5. ASSUME NEW l, PublishListing(l)
          PROVE  WorthInv'
      BY <2>5, WorthAfterPublication
    <2>6. CASE UNCHANGED vars
      BY <2>6, WorthStays DEF vars
    <2> QED BY <2>1, <2>2, <2>3, <2>4, <2>5, <2>6, WorthAfterRestart, WorthAfterTick DEF Next
  <1> QED BY QuoteInvariant, <1>1, <1>2, PTL DEF Spec

\* A quote that has not expired is good for a lock and for a cart, unless the listing
\* changed, a sale opened or ended, its buyer bargained again or the process
\* restarted: an agreement that set the price lives at least as long as the quote
\* (_resolveQuoteExpiry), and nothing cheaper turns up, for all instances.
THEOREM QuotesAreHonoured == Spec => []LiveQuoteHonoured
  <1>1. QuoteInv /\ WorthInv => LiveQuoteHonoured
    <2> SUFFICES ASSUME QuoteInv, WorthInv, NEW x \in handed, NEW q, q = x.quote,
                        Unmarked(x), now <= q.expiry, SameSales(x.at)
                 PROVE  /\ LockVerdict(q.hash, q.buyer, q.request.quantity) = "issued"
                        /\ CartVerdict(q.buyer, q.request, q.hash, q.expiry) = "matches"
      BY DEF LiveQuoteHonoured, Unmarked
    <2>1. IsCovered(q) /\ IsOnFile(q, issued, now) /\ Evaluates(listing)
      BY DEF QuoteInv, Quotes, Unmarked
    <2>2. ~(q.expiry < now - quoteExpiryGraceSeconds)
      BY <2>1, QuoteAssumption DEF QuoteInv, Types, IsCovered
    <2>3. /\ q.hash \in issued /\ q.hash.expiry = q.expiry /\ q.hash.buyer = q.buyer
          /\ q.hash.quantity = q.request.quantity
      BY <2>1, <2>2 DEF IsOnFile, IsCovered, computeQuoteHash
    <2>4. LockVerdict(q.hash, q.buyer, q.request.quantity) = "issued"
      BY <2>2, <2>3 DEF LockVerdict
    <2>5. PICK f : f = Priced(q.buyer, q.request)
      OBVIOUS
    <2>6. f.price = q.price /\ f.tax = q.tax
      BY <2>5, WorthIsRepeated
    <2>7. q.hash = computeQuoteHash(q.buyer, q.request, f.price, f.tax, q.expiry)
      BY <2>1, <2>6 DEF IsCovered
    <2>8. CartVerdict(q.buyer, q.request, q.hash, q.expiry) = "matches"
      BY <2>1, <2>2, <2>5, <2>7 DEF CartVerdict, Answers
    <2> QED BY <2>4, <2>8
  <1> QED BY QuoteInvariant, WorthInvariant, <1>1, PTL
-----------------------------------------------------------------------------
(* The amounts of a settlement *)

\* What two floors of a half lose to one floor of the whole.
CarriedPaise(n) == IF n % 20000 >= 10000 THEN 1 ELSE 0

\* The whole of n basis points of a paise, and half of it twice.
LEMMA FloorOnceOrTwice ==
  ASSUME NEW n \in Nat
  PROVE  /\ n \div bpsDivisor \in Nat /\ n \div intraStateHalfBpsDivisor \in Nat
         /\ CarriedPaise(n) \in {0, 1}
         /\ n \div bpsDivisor
            = n \div intraStateHalfBpsDivisor + n \div intraStateHalfBpsDivisor + CarriedPaise(n)
  <1>1. n \div 20000 \in Nat /\ n \div 10000 \in Nat /\ n % 20000 \in Nat
    BY SMTT(30)
  <1>2. PICK q \in Nat : q = n \div 20000
    BY <1>1
  <1>3. PICK r \in Nat : r = n % 20000
    BY <1>1
  <1>4. r = n - 20000 * q /\ r < 20000
    BY <1>2, <1>3, Z3
  <1>5. n = 20000 * q + r
    BY <1>4
  <1>6. CASE r < 10000
    <2>1. n \div 10000 = 2 * q
      BY <1>5, <1>6, SMTT(30)
    <2>2. CarriedPaise(n) = 0
      BY <1>3, <1>6 DEF CarriedPaise
    <2> QED BY <1>1, <1>2, <2>1, <2>2 DEF bpsDivisor, intraStateHalfBpsDivisor
  <1>7. CASE ~(r < 10000)
    <2>1. n \div 10000 = 2 * q + 1
      BY <1>4, <1>5, <1>7, SMTT(30)
    <2>2. CarriedPaise(n) = 1
      BY <1>3, <1>7 DEF CarriedPaise
    <2> QED BY <1>1, <1>2, <2>1, <2>2 DEF bpsDivisor, intraStateHalfBpsDivisor
  <1> QED BY <1>6, <1>7

\* Three heads of tax and their sum.
AreHeads(g) ==
  /\ g.cgst \in Nat /\ g.sgst \in Nat /\ g.igst \in Nat /\ g.total \in Nat
  /\ g.total = g.cgst + g.sgst + g.igst

\* Both implementations of the tax of a line compute natural numbers, and the same.
LEMMA ImplementationsAgree ==
  ASSUME NEW line \in Nat, NEW rate \in Nat, NEW intra \in BOOLEAN
  PROVE  /\ computeGstBreakdown(line, rate, intra) = calculateGstBreakdown(line, rate, intra)
         /\ AreHeads(calculateGstBreakdown(line, rate, intra))
  <1>1. PICK n \in Nat : n = line * (rate * percentDivisor) /\ n = line * rate * percentDivisor
    BY ProductIsNatural, SMTT(30) DEF percentDivisor
  <1>2. n \div bpsDivisor \in Nat /\ n \div intraStateHalfBpsDivisor \in Nat
    BY FloorOnceOrTwice
  <1> QED BY <1>1, <1>2 DEF computeGstBreakdown, calculate_gst, calculateGstBreakdown, AreHeads

\* What is withheld is at most half a percent.
LEMMA WithholdingBounded ==
  ASSUME NEW subtotal \in Nat, NEW intra \in BOOLEAN
  PROVE  /\ computeTcsWithholding(subtotal, intra) \in Nat
         /\ 200 * computeTcsWithholding(subtotal, intra) <= subtotal
  <1>1. /\ (subtotal * 25) \div 10000 \in Nat
        /\ 400 * ((subtotal * 25) \div 10000) <= subtotal
    BY SMTT(30)
  <1>2. /\ (subtotal * 50) \div 10000 \in Nat
        /\ 200 * ((subtotal * 50) \div 10000) <= subtotal
    BY SMTT(30)
  <1> QED BY <1>1, <1>2 DEF computeTcsWithholding, tcsCgstBasisPoints, tcsSgstBasisPoints,
             tcsIgstBasisPoints, bpsDivisor
-----------------------------------------------------------------------------
(* The theorems *)

\* The tax across a state border exceeds the tax within one by a paise exactly when
\* (taxable * rateBps) mod 20000 >= 10000, and is equal to it otherwise: what
\* budgetGate.py:49 says of carts that declare the wrong heads.
THEOREM TotalsDifferByAPaise ==
  ASSUME NEW taxable \in Nat, NEW rateBps \in Nat
  PROVE  calculate_gst(taxable, rateBps, FALSE).total
         - calculate_gst(taxable, rateBps, TRUE).total
           = CarriedPaise(taxable * rateBps)
  <1>1. taxable * rateBps \in Nat
    BY ProductIsNatural
  <1>2. /\ calculate_gst(taxable, rateBps, FALSE).total
           = 0 + 0 + (taxable * rateBps) \div bpsDivisor
        /\ calculate_gst(taxable, rateBps, TRUE).total
           = (taxable * rateBps) \div intraStateHalfBpsDivisor
             + (taxable * rateBps) \div intraStateHalfBpsDivisor + 0
    BY DEF calculate_gst
  <1>3. ASSUME NEW n \in Nat
        PROVE  (0 + 0 + n \div bpsDivisor)
               - (n \div intraStateHalfBpsDivisor + n \div intraStateHalfBpsDivisor + 0)
               = CarriedPaise(n)
    <2>1. PICK whole \in Nat, half \in Nat, d \in {0, 1} :
            /\ whole = n \div bpsDivisor /\ half = n \div intraStateHalfBpsDivisor
            /\ d = CarriedPaise(n) /\ whole = half + half + d
      BY FloorOnceOrTwice, Zenon
    <2>2. (0 + 0 + whole) - (half + half + 0) = d
      BY <2>1
    <2> QED BY <2>1, <2>2, Zenon
  <1> QED BY <1>1, <1>2, <1>3, Zenon

\* The facts about a signed cart that the theorems below share.
Facts(c, price, quantity, rate, shipping, quoted, intra) ==
  /\ c.taxable = price * quantity
  /\ c.total = price * quantity + c.tax.total + shipping
  /\ c.tax = calculateGstBreakdown(price * quantity, rate, quoted)
  /\ LineTax(c) = calculateGstBreakdown(price * quantity, rate, intra)
  /\ c.tax.cgst \in Nat /\ c.tax.sgst \in Nat /\ c.tax.igst \in Nat
  /\ c.tax.total \in Nat /\ c.tax.total = c.tax.cgst + c.tax.sgst + c.tax.igst
  /\ c.shipping = shipping /\ c.discount = 0 /\ c.intra = intra
  /\ c.unitPrice = price /\ c.quantity = quantity /\ c.rate = rate

LEMMA SignedCartFacts ==
  ASSUME NEW price \in Nat \ {0}, NEW quantity \in Nat \ {0}, NEW rate \in 0..28,
         NEW shipping \in Nat, NEW quoted \in BOOLEAN, NEW intra \in BOOLEAN
  PROVE  Facts(SignedCart(price, quantity, rate, quoted, shipping, intra),
               price, quantity, rate, shipping, quoted, intra)
  <1>1. PICK c : c = SignedCart(price, quantity, rate, quoted, shipping, intra)
    OBVIOUS
  <1>2. PICK line : line = price * quantity
    OBVIOUS
  <1>3. line \in Nat /\ rate \in Nat
    BY <1>2, ProductIsNatural
  <1>4. /\ c.taxable = line /\ c.intra = intra
        /\ c.unitPrice = price /\ c.quantity = quantity /\ c.rate = rate
        /\ c.shipping = shipping /\ c.discount = 0
        /\ c.tax = calculateGstBreakdown(line, rate, quoted)
        /\ c.total = line + c.tax.total + shipping
    BY <1>1, <1>2 DEF SignedCart
  <1>5. AreHeads(calculateGstBreakdown(line, rate, quoted))
    BY <1>3, ImplementationsAgree
  <1>6. AreHeads(c.tax)
    BY <1>4, <1>5
  <1>7. LineTax(c) = calculateGstBreakdown(line, rate, intra)
    BY <1>2, <1>3, <1>4, ImplementationsAgree DEF LineTax, computeLineItemTotal
  <1> QED BY <1>1, <1>2, <1>4, <1>6, <1>7 DEF Facts, AreHeads

\* A cart that the MCP server signs for the place it quoted passes the engine's gate to
\* the paise, whatever was bought, if the mandate covers it: the two implementations of
\* tax and total, in two languages, never disagree about it.
THEOREM SignedCartSettles ==
  ASSUME NEW price \in Nat \ {0}, NEW quantity \in Nat \ {0}, NEW rate \in 0..28,
         NEW shipping \in Nat, NEW intra \in BOOLEAN, NEW limit \in Nat,
         NEW c, c = SignedCart(price, quantity, rate, intra, shipping, intra),
         c.total <= limit
  PROVE  IsCart(c) /\ validateBudgetGate(c, c.total, limit, limit)
  <1>1. PICK line \in Nat \ {0} : line = price * quantity
    BY ProductIsNatural
  <1>2. /\ c.taxable = line /\ LineTax(c) = c.tax
        /\ c.tax.cgst \in Nat /\ c.tax.sgst \in Nat /\ c.tax.igst \in Nat
        /\ c.tax.total \in Nat /\ c.total = line + c.tax.total + shipping
        /\ c.shipping = shipping /\ c.discount = 0 /\ c.intra = intra
        /\ c.unitPrice = price /\ c.quantity = quantity /\ c.rate = rate
    <2>1. Facts(c, price, quantity, rate, shipping, intra, intra)
      BY SignedCartFacts
    <2> QED BY <1>1, <2>1 DEF Facts
  <1>3. c.total \in Nat \ {0}
    BY <1>2
  <1>4. recomputeEnclaveTotal(c) = c.total
    <2>1. recomputeEnclaveTotal(c) = line + c.tax.total + shipping - 0
      BY <1>1, <1>2 DEF recomputeEnclaveTotal, computeLineItemTotal
    <2> QED BY <1>2, <2>1
  <1>5. verifyTaxHeads(c)
    BY <1>2 DEF verifyTaxHeads
  <1> QED BY <1>2, <1>3, <1>4, <1>5 DEF IsCart, validateBudgetGate

\* A cart whose state code contradicts the pincode its quote was taxed for never settles
\* with the heads of the wrong place: it passes the head check only if no tax is due.
THEOREM WrongPlaceRefused ==
  ASSUME NEW price \in Nat \ {0}, NEW quantity \in Nat \ {0}, NEW rate \in 0..28,
         NEW shipping \in Nat, NEW quoted \in BOOLEAN, NEW intra \in BOOLEAN,
         NEW c, c = SignedCart(price, quantity, rate, quoted, shipping, intra),
         quoted # intra, verifyTaxHeads(c)
  PROVE  c.tax.total = 0
  <1>1. /\ LineTax(c) = calculateGstBreakdown(price * quantity, rate, intra)
        /\ c.tax = calculateGstBreakdown(price * quantity, rate, quoted)
        /\ c.tax.total = c.tax.cgst + c.tax.sgst + c.tax.igst
    <2>1. Facts(c, price, quantity, rate, shipping, quoted, intra)
      BY SignedCartFacts
    <2> QED BY <2>1 DEF Facts
  <1>2. /\ c.tax.cgst = LineTax(c).cgst /\ c.tax.sgst = LineTax(c).sgst
        /\ c.tax.igst = LineTax(c).igst
    BY DEF verifyTaxHeads
  <1>3. CASE intra = TRUE /\ quoted = FALSE
    <2>1. LineTax(c).igst = 0 /\ c.tax.cgst = 0 /\ c.tax.sgst = 0
      BY <1>1, <1>3 DEF calculateGstBreakdown
    <2> QED BY <1>1, <1>2, <2>1
  <1>4. CASE intra = FALSE /\ quoted = TRUE
    <2>1. LineTax(c).cgst = 0 /\ LineTax(c).sgst = 0 /\ c.tax.igst = 0
      BY <1>1, <1>4 DEF calculateGstBreakdown
    <2> QED BY <1>1, <1>2, <2>1
  <1>5. (intra = TRUE /\ quoted = FALSE) \/ (intra = FALSE /\ quoted = TRUE)
    OBVIOUS
  <1> QED BY <1>3, <1>4, <1>5

LEMMA ConcatenatedLengths ==
  ASSUME NEW S, NEW s \in Seq(S), NEW t \in Seq(S)
  PROVE  s \o t \in Seq(S) /\ Len(s \o t) = Len(s) + Len(t)
  OBVIOUS

\* The shares of a manifest add up to what was captured, the merchant's is never nothing,
\* and a settlement has two to four transfers, none of them empty.
THEOREM PayoutsAddUp ==
  ASSUME NEW c, IsCart(c), ~IsOverdraft(c)
  PROVE  LET m == buildSplitManifest(c)  legs == buildTransferRequests(m) IN
         /\ m.merchant + m.protocol + m.logistics + m.tcs = c.total
         /\ legs \in Seq(Nat \ {0}) /\ Len(legs) \in 2..4
  <1> DEFINE m == buildSplitManifest(c)
  <1>1. PICK w \in Nat : w = computeTcsWithholding(c.taxable, c.intra)
    BY WithholdingBounded DEF IsCart
  <1>2. c.total \in Nat /\ c.shipping \in Nat
    BY DEF IsCart
  <1>3. totalDeductions(c) = 50 + c.shipping + w /\ totalDeductions(c) < c.total
    BY <1>1, <1>2 DEF totalDeductions, defaultProtocolFeePaise, IsOverdraft
  <1>4. /\ m.merchant = c.total - (50 + c.shipping + w)
        /\ m.protocol = 50 /\ m.logistics = c.shipping /\ m.tcs = w
    BY <1>1, <1>3 DEF buildSplitManifest, defaultProtocolFeePaise
  <1>5. m.merchant \in Nat \ {0}
    BY <1>2, <1>3, <1>4
  <1>6. m.merchant + m.protocol + m.logistics + m.tcs = c.total
    BY <1>2, <1>4
  <1>7. ASSUME NEW x \in Nat
        PROVE  /\ Leg(x) \in Seq(Nat \ {0}) /\ Len(Leg(x)) \in 0..1
               /\ x > 0 => Len(Leg(x)) = 1
    <2>1. CASE x > 0
      <3>1. Leg(x) = <<x>> /\ x \in Nat \ {0}
        BY <2>1 DEF Leg
      <3> QED BY <3>1
    <2>2. CASE ~(x > 0)
      <3>1. Leg(x) = <<>>
        BY <2>2 DEF Leg
      <3> QED BY <2>2, <3>1
    <2> QED BY <2>1, <2>2
  <1>8. /\ <<m.merchant>> \in Seq(Nat \ {0}) /\ Len(<<m.merchant>>) = 1
    BY <1>5
  <1>9. /\ Leg(m.protocol) \in Seq(Nat \ {0}) /\ Len(Leg(m.protocol)) = 1
        /\ Leg(m.logistics) \in Seq(Nat \ {0}) /\ Len(Leg(m.logistics)) \in 0..1
        /\ Leg(m.tcs) \in Seq(Nat \ {0}) /\ Len(Leg(m.tcs)) \in 0..1
    BY <1>1, <1>2, <1>4, <1>7
  <1> HIDE DEF m
  <1>10. /\ buildTransferRequests(m) \in Seq(Nat \ {0})
         /\ Len(buildTransferRequests(m)) \in 2..4
    <2>1. PICK u \in Seq(Nat \ {0}), v \in Seq(Nat \ {0}), x \in Seq(Nat \ {0}),
               y \in Seq(Nat \ {0}) :
            /\ u = <<m.merchant>> /\ v = Leg(m.protocol) /\ x = Leg(m.logistics) /\ y = Leg(m.tcs)
            /\ Len(u) = 1 /\ Len(v) = 1 /\ Len(x) \in 0..1 /\ Len(y) \in 0..1
      BY <1>8, <1>9
    <2>2. u \o v \in Seq(Nat \ {0}) /\ Len(u \o v) = 2
      <3>1. u \o v \in Seq(Nat \ {0}) /\ Len(u \o v) = Len(u) + Len(v)
        BY <2>1, ConcatenatedLengths, Zenon
      <3> QED BY <2>1, <3>1
    <2>3. (u \o v) \o x \in Seq(Nat \ {0}) /\ Len((u \o v) \o x) \in 2..3
      <3>1. /\ (u \o v) \o x \in Seq(Nat \ {0})
            /\ Len((u \o v) \o x) = Len(u \o v) + Len(x)
        BY <2>1, <2>2, ConcatenatedLengths, Zenon
      <3> QED BY <2>1, <2>2, <3>1
    <2>4. ((u \o v) \o x) \o y \in Seq(Nat \ {0}) /\ Len(((u \o v) \o x) \o y) \in 2..4
      <3>1. /\ ((u \o v) \o x) \o y \in Seq(Nat \ {0})
            /\ Len(((u \o v) \o x) \o y) = Len((u \o v) \o x) + Len(y)
        BY <2>1, <2>3, ConcatenatedLengths, Zenon
      <3>2. ASSUME NEW k \in 2..3, NEW l \in 0..1
            PROVE  k + l \in 2..4
        OBVIOUS
      <3> QED BY <2>1, <2>3, <3>1, <3>2, Zenon
    <2> QED BY <2>1, <2>4 DEF buildTransferRequests
  <1> QED BY <1>6, <1>10 DEF m

\* A cart the server signs is rejected behind its capture only if it is worth no more than
\* the protocol fee: from 51 paise of goods on, every captured cart has a manifest.
THEOREM CapturedCartHasManifest ==
  ASSUME NEW price \in Nat \ {0}, NEW quantity \in Nat \ {0}, NEW rate \in 0..28,
         NEW shipping \in Nat, NEW quoted \in BOOLEAN, NEW intra \in BOOLEAN,
         NEW c, c = SignedCart(price, quantity, rate, quoted, shipping, intra),
         price * quantity > defaultProtocolFeePaise
  PROVE  ~IsOverdraft(c)
  <1>1. PICK line \in Nat : line = price * quantity /\ line > 50
    BY ProductIsNatural DEF defaultProtocolFeePaise
  <1>2. PICK t \in Nat : t = c.tax.total /\ c.total = line + t + shipping
                         /\ c.taxable = line /\ c.shipping = shipping /\ c.intra = intra
    <2>1. Facts(c, price, quantity, rate, shipping, quoted, intra)
      BY SignedCartFacts
    <2> QED BY <1>1, <2>1 DEF Facts
  <1>3. PICK w \in Nat : w = computeTcsWithholding(c.taxable, c.intra) /\ 200 * w <= line
    BY <1>2, WithholdingBounded
  <1>4. totalDeductions(c) = 50 + shipping + w
    BY <1>2, <1>3 DEF totalDeductions, defaultProtocolFeePaise
  <1>5. 50 + shipping + w < line + t + shipping
    BY <1>1, <1>2, <1>3
  <1> QED BY <1>2, <1>4, <1>5 DEF IsOverdraft

\* The invoice bills what was settled, and the tax collected at source that it reports is
\* what the split withholds, though one reads the lines and the other the cart's subtotal.
THEOREM InvoiceMatchesSettlement ==
  ASSUME NEW price \in Nat \ {0}, NEW quantity \in Nat \ {0}, NEW rate \in 0..28,
         NEW shipping \in Nat, NEW quoted \in BOOLEAN, NEW intra \in BOOLEAN,
         NEW c, c = SignedCart(price, quantity, rate, quoted, shipping, intra),
         NEW amount, NEW budget, NEW limit, validateBudgetGate(c, amount, budget, limit)
  PROVE  /\ generateGstrInvoice(c).grandTotal = amount
         /\ generateGstrInvoice(c).tcs = buildSplitManifest(c).tcs
  <1>1. PICK line \in Nat : line = price * quantity
    BY ProductIsNatural
  <1>0. Facts(c, price, quantity, rate, shipping, quoted, intra)
    BY SignedCartFacts
  <1>2. PICK x \in Nat, y \in Nat, z \in Nat :
          x = c.tax.cgst /\ y = c.tax.sgst /\ z = c.tax.igst /\ c.tax.total = x + y + z
    BY <1>0 DEF Facts
  <1>3. /\ c.taxable = line /\ c.total = line + c.tax.total + shipping
        /\ c.shipping = shipping /\ c.discount = 0
        /\ c.unitPrice = price /\ c.quantity = quantity
    BY <1>0, <1>1 DEF Facts
  <1>4. LineTax(c).cgst = x /\ LineTax(c).sgst = y /\ LineTax(c).igst = z /\ c.total = amount
    BY <1>2 DEF validateBudgetGate, verifyTaxHeads
  <1>5. generateGstrInvoice(c).grandTotal = line + x + y + z + shipping - 0
    BY <1>1, <1>3, <1>4 DEF generateGstrInvoice, computeLineItemTotal
  <1>6. line + x + y + z + shipping - 0 = line + (x + y + z) + shipping
    OBVIOUS
  <1>7. generateGstrInvoice(c).tcs = buildSplitManifest(c).tcs
    BY <1>1, <1>3 DEF generateGstrInvoice, buildSplitManifest, computeLineItemTotal
  <1> QED BY <1>2, <1>3, <1>4, <1>5, <1>6, <1>7
=============================================================================
