--------------------------- MODULE MCQuoteBinding ---------------------------
(* Two listings of one SKU: a fixture's, with the demo offers and a sale of    *)
(* one second, and a merchant's, with offers of its own and a fixed price that *)
(* is above the base price, which cannot be evaluated.                         *)
EXTENDS QuoteBinding, TLC

CONSTANTS b1, b2

MCBuyers == {b1, b2}
MCRequests == {[quantity |-> 1, code |-> NoCode, intraState |-> TRUE],
               [quantity |-> 2, code |-> CorporateCode, intraState |-> FALSE]}
Demo == [authored |-> FALSE]
Authored == [authored |-> TRUE, campaignBps |-> 500, campaignCapPaise |-> Uncapped,
             cashbackPaise |-> 0, promoCodes |-> [c \in {CorporateCode} |-> 250]]
Tiers == <<[minQuantity |-> 1, discountBps |-> 0], [minQuantity |-> 2, discountBps |-> 800]>>
Sale == [starts |-> 2, ends |-> 3, kind |-> "bps", value |-> 4000]
Malformed == [starts |-> 1, ends |-> 4, kind |-> "fixed", value |-> 3600]
Fixture == [base |-> 3001, gst |-> 18, tiers |-> Tiers, offers |-> Demo,
            promotions |-> {Sale}]
Merchant == [base |-> 2500, gst |-> 18, tiers |-> Tiers, offers |-> Authored,
             promotions |-> {}]
Broken == [Merchant EXCEPT !.promotions = {Sale, Malformed}]
MCListings == {Fixture, Merchant, Broken}
Symmetry == Permutations(MCBuyers)
=============================================================================
