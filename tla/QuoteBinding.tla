---------------------------- MODULE QuoteBinding ----------------------------
(***************************************************************************)
(* How a price gets from the catalog into a signed cart: get_live_sku_quote *)
(* prices a request and signs it into a quote_hash, reserve_inventory_lock *)
(* takes only hashes it finds in the registry of issued quotes, and        *)
(* create_cart_mandate prices the request again and compares.  In between  *)
(* the clock moves, sales open and end, the merchant edits the listing,    *)
(* negotiate_price strikes bargains, and the server restarts.              *)
(*                                                                         *)
(* One SKU.  The two registries live in the process.  A hash is the record *)
(* of the fields it covers.                                                *)
(***************************************************************************)
EXTENDS Pricing, FiniteSets

CONSTANTS
  Buyers,         \* buyer agent DIDs
  Requests,       \* what is asked for: quantity, promo code, delivery within
                  \* the merchant's state or not
  Listings,       \* what the merchant may publish for the SKU
  Bargains,       \* unit prices a negotiation may converge at
  quoteValiditySeconds,
  quoteExpiryGraceSeconds,
  agreedPriceValiditySeconds,
  MaxTime,        \* bound: the clock
  MaxEdits,       \* bound: listings published
  MaxBargains,    \* bound: negotiations converged
  MaxQuotes,      \* bound: quotes in the agents' hands
  MaxIssued,      \* bound: hashes in the registry of issued quotes
  MaxCarts        \* bound: carts signed

ASSUME QuoteAssumption ==
  /\ \A r \in Requests : /\ DOMAIN r = {"quantity", "code", "intraState"}
                         /\ r.quantity \in Nat \ {0} /\ r.intraState \in BOOLEAN
  /\ \A l \in Listings : IsListing(l)
  /\ Bargains \subseteq Nat
  /\ quoteValiditySeconds \in Nat /\ quoteExpiryGraceSeconds \in Nat
  /\ agreedPriceValiditySeconds \in Nat
  /\ MaxTime \in Nat /\ MaxEdits \in Nat /\ MaxBargains \in Nat
  /\ MaxQuotes \in Nat /\ MaxIssued \in Nat /\ MaxCarts \in Nat

VARIABLES
  now,         \* unix seconds
  listing,     \* the SKU in the catalog store
  agreements,  \* AgreedPriceRegistry: buyer and quantity -> price, expiry
  issued,      \* IssuedQuoteRegistry: the hashes
  handed,      \* the quotes in the agents' hands
  locks,       \* quantities a lock signature was issued for
  carts,       \* the carts signed
  edits,       \* listings published since the start
  struck       \* history: every bargain struck, with its moment

vars == <<now, listing, agreements, issued, handed, locks, carts, edits, struck>>

Init ==
  /\ now = 0
  /\ listing \in Listings
  /\ agreements = <<>> /\ issued = {}
  /\ handed = {} /\ locks = {} /\ carts = {}
  /\ edits = 0 /\ struck = {}
-----------------------------------------------------------------------------
(* The two registries *)

agreementKey(b, q) == <<b, q>>

\* Mutant: a unit price agreed for one quantity is an offer on any.
LookupOfBuyer(b, q) ==
  {agreements[k] : k \in {x \in DOMAIN agreements : x[1] = b /\ agreements[x].expires >= now}}

\* AgreedPriceRegistry.lookup: the empty set stands for undefined.
LookupAgreement(b, q) ==
  {agreements[k] : k \in {x \in DOMAIN agreements :
                            x = agreementKey(b, q) /\ agreements[x].expires >= now}}

\* AgreedPriceRegistry._forgetLapsed, on every write
StillAgreed == {k \in DOMAIN agreements : agreements[k].expires >= now}

\* AgreedPriceRegistry.record, when the gateway reports CONVERGED: the newest
\* agreement replaces the one of its key.
RecordAgreement(b, q, p) ==
  LET key == agreementKey(b, q)
  IN agreements' = [k \in StillAgreed \cup {key} |->
                      IF k = key
                      THEN [price |-> p, expires |-> now + agreedPriceValiditySeconds]
                      ELSE agreements[k]]

\* Mutant: a quote is forgotten when it expires, without the grace.
WithoutExpired(hashes) == {h \in hashes : h.expiry > now}

\* IssuedQuoteRegistry._forgetLapsed, on every write
WithoutLapsed(hashes) == {h \in hashes : h.expiry >= now - quoteExpiryGraceSeconds}

\* IssuedQuoteRegistry.verify
LockVerdict(h, b, q) ==
  IF h \notin issued THEN "unknown"
  ELSE IF h.expiry < now - quoteExpiryGraceSeconds THEN "expired"
  ELSE IF h.quantity # q \/ h.buyer # b THEN "parametersDiffer"
  ELSE "issued"
-----------------------------------------------------------------------------
(* Pricing a request *)

AutomaticOffer(r) == AutomaticPrice(listing, r.quantity, r.code, now)

\* _applyNegotiatedAgreement: the agreement that sets the price, if one does.
AppliedAgreement(b, q, automatic) ==
  {a \in LookupAgreement(b, q) : a.price < automatic}

\* Mutant: a negotiated quote keeps its ordinary expiry.
OrdinaryExpiry(applied) == now + quoteValiditySeconds

\* _resolveQuoteExpiry: no longer than the agreement that priced it
QuoteExpiry(applied) ==
  IF applied = {} THEN now + quoteValiditySeconds
  ELSE LET a == CHOOSE x \in applied : TRUE
       IN Lower(now + quoteValiditySeconds, a.expires)

\* Mutant: the hash covers the purchase and not its price.
HashWithoutPrice(b, r, price, tax, expiry) ==
  [buyer |-> b, quantity |-> r.quantity, price |-> 0, tax |-> 0, expiry |-> expiry]

computeQuoteHash(b, r, price, tax, expiry) ==
  [buyer |-> b, quantity |-> r.quantity, price |-> price, tax |-> tax,
   expiry |-> expiry]

TaxOf(r, price) ==
  calculateGstBreakdown(price * r.quantity, listing.gst, r.intraState).total

\* executeSkuQuote: what it computes for a buyer's request at this moment.
Priced(b, r) ==
  LET automatic == AutomaticOffer(r)
      applied == AppliedAgreement(b, r.quantity, automatic)
      price == IF applied = {} THEN automatic ELSE (CHOOSE x \in applied : TRUE).price
      tax == TaxOf(r, price)
      expiry == QuoteExpiry(applied)
  IN [buyer |-> b, request |-> r, price |-> price, tax |-> tax, expiry |-> expiry,
      hash |-> computeQuoteHash(b, r, price, tax, expiry)]

\* The hash is recorded before upcoming promotions are resolved, which throws
\* for a listing with a promotion that cannot be evaluated.
RecordIssued(quote) ==
  /\ Cardinality(WithoutLapsed(issued) \cup {quote.hash}) <= MaxIssued
  /\ issued' = WithoutLapsed(issued) \cup {quote.hash}
Answers == Evaluates(listing)
-----------------------------------------------------------------------------
(* The tools *)

\* Marks on a quote in hand, for the properties alone: the moment it was given,
\* and whether the listing, the buyer's bargain or the process changed since.
HandOut(quote) ==
  [quote |-> quote, at |-> now, edited |-> FALSE, rebargained |-> FALSE,
   forgotten |-> FALSE]

\* get_live_sku_quote
ExecuteSkuQuote(b, r) ==
  LET quote == Priced(b, r) IN
  /\ Cardinality(handed) < MaxQuotes
  /\ RecordIssued(quote)
  /\ handed' = IF Answers THEN handed \cup {HandOut(quote)} ELSE handed
  /\ UNCHANGED <<now, listing, agreements, locks, carts, edits, struck>>

\* reserve_inventory_lock; the stock is InventoryReservations' subject
ReserveInventoryLock(b, q, h) ==
  /\ LockVerdict(h, b, q) = "issued"
  /\ locks' = locks \cup {q}
  /\ UNCHANGED <<now, listing, agreements, issued, handed, carts, edits, struck>>

\* reconcileQuote: the request is priced again, the hash must be that of the
\* new price with the quote's own expiry, and that expiry must not have passed.
CartVerdict(b, r, h, expiry) ==
  LET fresh == Priced(b, r) IN
  IF ~Answers THEN "error"
  ELSE IF h # computeQuoteHash(b, r, fresh.price, fresh.tax, expiry)
       THEN "mismatch"
  ELSE IF expiry < now - quoteExpiryGraceSeconds THEN "expired"
  ELSE "matches"

\* create_cart_mandate: a buyer presents the hash and the expiry of a quote for
\* a request.  Pricing again issues a hash, too.  A lock signature covers
\* quantity and SKU.
CreateCartMandate(b, r, held) ==
  LET fresh == Priced(b, r) IN
  /\ Cardinality(carts) < MaxCarts
  /\ RecordIssued(fresh)
  /\ carts' =
       IF /\ CartVerdict(b, r, held.quote.hash, held.quote.expiry) = "matches"
          /\ r.quantity \in locks
       THEN carts \cup {[buyer |-> b, request |-> r, price |-> fresh.price,
                         tax |-> fresh.tax, shown |-> held.quote,
                         automatic |-> AutomaticOffer(r), at |-> now]}
       ELSE carts
  /\ UNCHANGED <<now, listing, agreements, handed, locks, edits, struck>>

\* negotiate_price
RecordBargain(b, q, p) ==
  /\ Cardinality(struck) < MaxBargains
  /\ RecordAgreement(b, q, p)
  /\ struck' = struck \cup {[buyer |-> b, quantity |-> q, price |-> p, at |-> now]}
  /\ handed' = {IF x.quote.buyer = b THEN [x EXCEPT !.rebargained = TRUE] ELSE x :
                  x \in handed}
  /\ UNCHANGED <<now, listing, issued, locks, carts, edits>>

\* A merchant's publication reaches the catalog store.
PublishListing(l) ==
  /\ edits < MaxEdits /\ l # listing
  /\ listing' = l /\ edits' = edits + 1
  /\ handed' = {[x EXCEPT !.edited = TRUE] : x \in handed}
  /\ UNCHANGED <<now, agreements, issued, locks, carts, struck>>

\* The process restarts and forgets both registries.
Restart ==
  /\ agreements # <<>> \/ issued # {}
  /\ agreements' = <<>> /\ issued' = {}
  /\ handed' = {[x EXCEPT !.forgotten = TRUE] : x \in handed}
  /\ UNCHANGED <<now, listing, locks, carts, edits, struck>>

Tick ==
  /\ now < MaxTime /\ now' = now + 1
  /\ UNCHANGED <<listing, agreements, issued, handed, locks, carts, edits, struck>>

Quantities == {r.quantity : r \in Requests}

Next ==
  \/ \E b \in Buyers, r \in Requests : ExecuteSkuQuote(b, r)
  \/ \E b \in Buyers, q \in Quantities, x \in handed :
       ReserveInventoryLock(b, q, x.quote.hash)
  \/ \E b \in Buyers, r \in Requests, x \in handed : CreateCartMandate(b, r, x)
  \/ \E b \in Buyers, q \in Quantities, p \in Bargains : RecordBargain(b, q, p)
  \/ \E l \in Listings : PublishListing(l)
  \/ Restart
  \/ Tick

Spec == Init /\ [][Next]_vars
-----------------------------------------------------------------------------
(* Properties *)

\* No sale of the listing opened or ended since.
SameSales(t) == \A p \in listing.promotions : IsOpen(p, t) = IsOpen(p, now)

\* A quote that has not expired is good for a lock and for a cart, unless the
\* listing changed, a sale opened or ended, the buyer bargained again or the
\* server restarted: what a bargain priced does not outlive the bargain
\* (_resolveQuoteExpiry).
LiveQuoteHonoured ==
  \A x \in handed :
    LET q == x.quote IN
    /\ ~x.edited /\ ~x.rebargained /\ ~x.forgotten
    /\ now <= q.expiry /\ SameSales(x.at)
    => /\ LockVerdict(q.hash, q.buyer, q.request.quantity) = "issued"
       /\ CartVerdict(q.buyer, q.request, q.hash, q.expiry) = "matches"

\* The two guards agree: no quote is usable for a cart and unknown to the locker
\* (the comment at issuedQuoteRegistry.ts:90), unless the server restarted.
PayableIsLockable ==
  \A x \in handed :
    LET q == x.quote IN
    ~x.forgotten /\ CartVerdict(q.buyer, q.request, q.hash, q.expiry) = "matches"
    => LockVerdict(q.hash, q.buyer, q.request.quantity) = "issued"

\* A cart never costs more than the automatic price of its moment, and less only
\* where this buyer bargained for this quantity and the bargain was still valid:
\* one agent's bargain is not another's price, nor one quantity's (agreementKey).
DiscountIsBargained ==
  \A c \in carts :
    /\ c.price <= c.automatic
    /\ c.price < c.automatic =>
         \E s \in struck :
           /\ s.buyer = c.buyer /\ s.quantity = c.request.quantity
           /\ s.price = c.price
           /\ s.at <= c.at /\ c.at <= s.at + agreedPriceValiditySeconds

\* A sale that a quote announced is charged when it opens: as long as the listing
\* stays as it was, nobody is then quoted more than the price announced
\* (applyScheduledPromotionStep).
SaleHonoured ==
  \A x \in handed : \A p \in Upcoming(listing, x.at) :
    ~x.edited /\ IsOpen(p, now) =>
      \A b \in Buyers, r \in Requests :
        Priced(b, r).price <= calculatePromotionUnitPrice(listing.base, p)

\* Whatever happened between the two, a signed cart has the buyer, quantity, unit
\* price and tax of the quote whose hash was presented (reconcileQuote).
PaidAsQuoted ==
  \A c \in carts :
    /\ c.buyer = c.shown.buyer
    /\ c.request.quantity = c.shown.request.quantity
    /\ c.price = c.shown.price /\ c.tax = c.shown.tax
=============================================================================
