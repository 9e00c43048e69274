-------------------- MODULE InventoryReservations_proofs --------------------
(***************************************************************************)
(* Proofs about InventoryReservations, for any purchases, listings,        *)
(* quantities, lock lifetime and faults.                                   *)
(***************************************************************************)
EXTENDS InventoryReservations, TLAPS

\* A purchase on file has been granted its lock and is not sold.
OnFile == \A p \in held : pc[p] \notin {"quoted", "acquire", "sold", "soldUnheld"}

\* The score of an entry never precedes the expiry signed for the buyer, and an
\* entry leaves the file only once its score has passed.
Backing(p) ==
  /\ asked[p] <= now
  /\ pc[p] \in {"locked", "posted", "captured"} =>
       /\ SignedExpiry(p) <= expiry[p]
       /\ restarts = 0 => p \in held \/ expiry[p] <= now

InventoryInv ==
  /\ TypeOK /\ OnFile /\ UnitsAccountedFor
  /\ \A p \in Purchases : Backing(p)
-----------------------------------------------------------------------------
(* Addition over sets of purchases *)

\* What two disjoint sets ask for of one SKU adds up.
LEMMA UnitsSplit ==
  ASSUME NEW S \in SUBSET Purchases, NEW T \in SUBSET Purchases, S \cap T = {}, NEW s
  PROVE  /\ Units[Of(s, S)] \in Nat /\ Units[Of(s, T)] \in Nat
         /\ Units[Of(s, S \cup T)] = Units[Of(s, S)] + Units[Of(s, T)]
  <1>1. Of(s, S) \in SUBSET Purchases /\ Of(s, T) \in SUBSET Purchases
    BY DEF Of
  <1>2. Of(s, S) \cap Of(s, T) = {} /\ Of(s, S \cup T) = Of(s, S) \cup Of(s, T)
    BY DEF Of
  <1> QED BY <1>1, <1>2, UnitsAssumption

\* Nothing asks for nothing.
LEMMA UnitsEmpty == Units[{}] = 0
  <1>1. {} \in SUBSET Purchases /\ {} \cap {} = {} /\ {} \cup {} = {}
    OBVIOUS
  <1>2. Units[{} \cup {}] = Units[{}] + Units[{}] /\ Units[{}] \in Nat
    BY <1>1, UnitsAssumption
  <1>3. \A n \in Nat : n = n + n => n = 0
    OBVIOUS
  <1> QED BY <1>1, <1>2, <1>3

\* One purchase asks for its quantity of its SKU and for no other.
LEMMA UnitsOne ==
  ASSUME NEW p \in Purchases, NEW s
  PROVE  Units[Of(s, {p})] = IF SkuOf[p] = s THEN Quantity[p] ELSE 0
  <1>1. CASE SkuOf[p] = s
    <2>1. Of(s, {p}) = {p}
      BY <1>1 DEF Of
    <2> QED BY <1>1, <2>1, UnitsAssumption
  <1>2. CASE SkuOf[p] # s
    <2>1. Of(s, {p}) = {}
      BY <1>2 DEF Of
    <2> QED BY <1>2, <2>1, UnitsEmpty
  <1> QED BY <1>1, <1>2
-----------------------------------------------------------------------------
(* What the helpers do to the units *)

USE InventoryAssumption
USE DEF Goto, PCs, reservation, resets

\* A sweep moves units from the file to the shelf and loses none.
LEMMA SweepConserves ==
  ASSUME TypeOK
  PROVE  /\ SweptStock \in [Skus -> Nat]
         /\ \A s \in Skus : SweptStock[s] + Units[Of(s, held \ Lapsed)]
                              = stock[s] + Units[Of(s, held)]
  <1> DEFINE Live == held \ Lapsed
  <1>1. Live \in SUBSET Purchases /\ Lapsed \in SUBSET Purchases
    BY DEF TypeOK, Lapsed
  <1>2. Live \cap Lapsed = {} /\ Live \cup Lapsed = held
    BY DEF Lapsed
  <1> HIDE DEF Live
  <1>3. ASSUME NEW s \in Skus
        PROVE  /\ Units[Of(s, held)] = Units[Of(s, Live)] + Units[Of(s, Lapsed)]
               /\ Units[Of(s, Live)] \in Nat /\ Units[Of(s, Lapsed)] \in Nat
    <2>1. /\ Units[Of(s, Live \cup Lapsed)] = Units[Of(s, Live)] + Units[Of(s, Lapsed)]
          /\ Units[Of(s, Live)] \in Nat /\ Units[Of(s, Lapsed)] \in Nat
      BY <1>1, <1>2, UnitsSplit
    <2> QED BY <2>1, <1>2
  <1>4. \A s \in Skus : SweptStock[s] = stock[s] + Units[Of(s, Lapsed)]
    BY DEF SweptStock
  <1>5. \A s \in Skus : stock[s] \in Nat
    BY DEF TypeOK
  <1>6. SweptStock \in [Skus -> Nat]
    BY <1>3, <1>5 DEF SweptStock
  <1>7. ASSUME NEW s \in Skus
        PROVE  SweptStock[s] + Units[Of(s, Live)] = stock[s] + Units[Of(s, held)]
    BY <1>3, <1>4, <1>5
  <1> QED BY <1>6, <1>7 DEF Live

\* A grant moves units from the shelf to the file.
LEMMA GrantConserves ==
  ASSUME TypeOK, NEW p \in Purchases, NEW available \in [Skus -> Nat],
         NEW onFile \in SUBSET Purchases, p \notin onFile,
         NEW moment \in Nat, Grant(p, available, onFile, moment)
  PROVE  /\ stock' \in [Skus -> Nat] /\ held' \in SUBSET Purchases
         /\ token' \in [Purchases -> Nat] /\ expiry' \in [Purchases -> Nat]
         /\ fencing' \in Nat
         /\ held' = onFile \cup {p} /\ expiry' = [expiry EXCEPT ![p] = moment + Ttl]
         /\ \A s \in Skus : stock'[s] + Units[Of(s, held')]
                              = available[s] + Units[Of(s, onFile)]
  <1> USE DEF Grant, Take
  <1>1. SkuOf[p] \in Skus /\ Quantity[p] \in Nat /\ available[SkuOf[p]] \in Nat
    OBVIOUS
  <1>2. stock' = [available EXCEPT ![SkuOf[p]] = available[SkuOf[p]] - Quantity[p]]
    OBVIOUS
  <1>3. available[SkuOf[p]] - Quantity[p] \in Nat
    BY <1>1
  <1>4. stock' \in [Skus -> Nat]
    BY <1>2, <1>3
  <1>5. moment + Ttl \in Nat /\ fencing + 1 \in Nat
    BY DEF TypeOK
  <1>6. token' \in [Purchases -> Nat] /\ expiry' \in [Purchases -> Nat]
    BY <1>5 DEF TypeOK
  <1>7. ASSUME NEW s \in Skus
        PROVE  stock'[s] + Units[Of(s, held')] = available[s] + Units[Of(s, onFile)]
    <2>1. onFile \cap {p} = {} /\ {p} \in SUBSET Purchases /\ held' = onFile \cup {p}
      OBVIOUS
    <2>2. /\ Units[Of(s, onFile \cup {p})] = Units[Of(s, onFile)] + Units[Of(s, {p})]
          /\ Units[Of(s, onFile)] \in Nat
      BY <2>1, UnitsSplit
    <2>3. Units[Of(s, {p})] = IF SkuOf[p] = s THEN Quantity[p] ELSE 0
      BY UnitsOne
    <2>4. stock'[s] = IF SkuOf[p] = s THEN available[s] - Quantity[p] ELSE available[s]
      BY <1>2
    <2>5. available[s] \in Nat
      OBVIOUS
    <2> QED BY <1>1, <2>1, <2>2, <2>3, <2>4, <2>5
  <1> QED BY <1>4, <1>5, <1>6, <1>7

\* A step that moves p elsewhere than to "sold" leaves the units sold alone.
LEMMA SoldUnmoved ==
  ASSUME TypeOK, NEW p \in Purchases, NEW l, Goto(p, l), l # "sold", pc[p] # "sold"
  PROVE  Sold' = Sold
  BY DEF TypeOK, Sold

\* The books balance after a step that sells nothing if, for each SKU, shelf and
\* file together are as before.
LEMMA BooksBalance ==
  ASSUME TypeOK, UnitsAccountedFor, UNCHANGED resets, Sold' = Sold,
         stock' \in [Skus -> Nat], held' \in SUBSET Purchases,
         \A s \in Skus : stock'[s] + Units[Of(s, held')] = stock[s] + Units[Of(s, held)]
  PROVE  UnitsAccountedFor'
  <1>1. SUFFICES ASSUME published = 0, restarts = 0, NEW s \in Skus
                 PROVE  stock'[s] + Units[Of(s, held')] + Units[Of(s, Sold')] = Listing[s]
    BY DEF UnitsAccountedFor
  <1>2. stock[s] + Units[Of(s, held)] + Units[Of(s, Sold)] = Listing[s]
    BY <1>1 DEF UnitsAccountedFor
  <1>3. Units[Of(s, Sold')] = Units[Of(s, Sold)]
    OBVIOUS
  <1> QED BY <1>2, <1>3
-----------------------------------------------------------------------------
(* One step at a time *)

\* Nothing is on file at first.
LEMMA InventoryInit == Init => InventoryInv
  <1> SUFFICES ASSUME Init PROVE InventoryInv
    OBVIOUS
  <1> USE DEF Init
  <1>1. TypeOK
    BY DEF TypeOK
  <1>2. OnFile
    BY DEF OnFile
  <1>3. UnitsAccountedFor
    <2>1. Sold = {} /\ held = {} /\ stock = Listing
      BY DEF Sold
    <2>2. \A s : Of(s, {}) = {}
      BY DEF Of
    <2>3. ASSUME NEW s \in Skus
          PROVE  stock[s] + Units[Of(s, held)] + Units[Of(s, Sold)] = Listing[s]
      <3>1. Units[Of(s, held)] = 0 /\ Units[Of(s, Sold)] = 0 /\ Listing[s] \in Nat
        BY <2>1, <2>2, UnitsEmpty
      <3> QED BY <2>1, <3>1
    <2> QED BY <2>3 DEF UnitsAccountedFor
  <1>4. ASSUME NEW p \in Purchases
        PROVE  Backing(p)
    <2>1. asked[p] = 0 /\ now = 0 /\ pc[p] = "quoted"
      OBVIOUS
    <2> QED BY <2>1 DEF Backing
  <1> QED BY <1>1, <1>2, <1>3, <1>4 DEF InventoryInv

\* A sweep of the file, whoever makes it.
LEMMA SweepStep ==
  ASSUME InventoryInv, Sweep
  PROVE  /\ stock' \in [Skus -> Nat] /\ held' \in SUBSET held
         /\ \A p \in held \ held' : expiry[p] <= now
         /\ \A s \in Skus : stock'[s] + Units[Of(s, held')]
                              = stock[s] + Units[Of(s, held)]
  BY SweepConserves DEF InventoryInv, TypeOK, Sweep, Lapsed

\* A grant or a refusal to p that finds the file as it is or freshly swept.
LEMMA AcquireStep ==
  ASSUME InventoryInv, NEW p \in Purchases, pc[p] \in {"quoted", "acquire"},
         NEW available \in [Skus -> Nat], NEW onFile \in SUBSET held,
         \A s \in Skus : available[s] + Units[Of(s, onFile)]
                           = stock[s] + Units[Of(s, held)],
         NEW moment \in Nat,
         Grant(p, available, onFile, moment) \/ Refuse(p, available, onFile)
  PROVE  /\ stock' \in [Skus -> Nat] /\ held' \in SUBSET Purchases
         /\ token' \in [Purchases -> Nat] /\ expiry' \in [Purchases -> Nat]
         /\ fencing' \in Nat
         /\ held' \ {p} = onFile
         /\ Grant(p, available, onFile, moment) =>
              p \in held' /\ expiry' = [expiry EXCEPT ![p] = moment + Ttl]
         /\ Refuse(p, available, onFile) => p \notin held' /\ expiry' = expiry
         /\ \A s \in Skus : stock'[s] + Units[Of(s, held')]
                              = stock[s] + Units[Of(s, held)]
  <1>1. TypeOK /\ held \in SUBSET Purchases /\ p \notin held /\ onFile \in SUBSET Purchases
    BY DEF InventoryInv, TypeOK, OnFile
  <1>2. ~ (Grant(p, available, onFile, moment) /\ Refuse(p, available, onFile))
    BY DEF Grant, Refuse
  <1>3. CASE Grant(p, available, onFile, moment)
    <2>1. p \notin onFile
      BY <1>1
    <2> QED BY <1>1, <1>2, <1>3, <2>1, GrantConserves
  <1>4. CASE Refuse(p, available, onFile)
    BY <1>1, <1>2, <1>4 DEF Refuse, TypeOK
  <1> QED BY <1>3, <1>4

\* The invariant after a step in which p asks for, is granted or is refused units.
LEMMA LockStep ==
  ASSUME InventoryInv, NEW p \in Purchases, ExecuteLock(p) \/ SweepRedis(p) \/ AcquireRedis(p)
  PROVE  InventoryInv'
  <1>0. TypeOK /\ OnFile /\ UnitsAccountedFor /\ \A q \in Purchases : Backing(q)
    BY DEF InventoryInv
  <1>1. pc[p] \in {"quoted", "acquire"} /\ pc[p] # "sold" /\ p \notin held
    BY <1>0 DEF ExecuteLock, SweepRedis, AcquireRedis, OnFile
  <1>2. UNCHANGED <<backend, now, resets>> /\ asked' \in [Purchases -> Nat]
        /\ \A q \in Purchases : asked'[q] <= now /\ (q # p => asked'[q] = asked[q])
    BY <1>0 DEF ExecuteLock, SweepRedis, AcquireRedis, TypeOK, Backing
  <1>3. PICK l \in {"acquire", "refused", "error", "locked"} : Goto(p, l)
    BY DEF ExecuteLock, SweepRedis, AcquireRedis
  <1>4. pc' \in [Purchases -> PCs] /\ pc'[p] = l /\ \A q \in Purchases \ {p} : pc'[q] = pc[q]
    BY <1>0, <1>3 DEF TypeOK
  <1>5. Sold' = Sold
    BY <1>0, <1>1, <1>3, SoldUnmoved
  <1>6. /\ stock' \in [Skus -> Nat] /\ held' \in SUBSET Purchases
        /\ token' \in [Purchases -> Nat] /\ expiry' \in [Purchases -> Nat]
        /\ fencing' \in Nat
        /\ held' \ {p} \in SUBSET held
        /\ \A q \in held \ held' : expiry[q] <= now
        /\ \A q \in Purchases \ {p} : expiry'[q] = expiry[q]
        /\ l = "locked" => p \in held' /\ expiry'[p] \in Nat /\ expiry'[p] >= asked'[p] + Ttl
        /\ l = "locked" => asked'[p] <= now
        /\ l = "acquire" => p \notin held'
        /\ \A s \in Skus : stock'[s] + Units[Of(s, held')] = stock[s] + Units[Of(s, held)]
    <2>1. CASE ExecuteLock(p)
      <3>1. /\ SweptStock \in [Skus -> Nat] /\ held \ Lapsed \in SUBSET held
            /\ \A s \in Skus : SweptStock[s] + Units[Of(s, held \ Lapsed)]
                                 = stock[s] + Units[Of(s, held)]
        BY <1>0, SweepConserves
      <3>2. \/ Grant(p, SweptStock, held \ Lapsed, now) /\ Goto(p, "locked")
            \/ Refuse(p, SweptStock, held \ Lapsed) /\ Goto(p, "refused")
        BY <2>1 DEF ExecuteLock
      <3>3. l = "locked" => Grant(p, SweptStock, held \ Lapsed, now)
        BY <1>0, <1>4, <3>2 DEF TypeOK
      <3>4. l # "acquire"
        BY <1>0, <1>4, <3>2 DEF TypeOK
      <3>5. \A q \in Lapsed : expiry[q] <= now
        BY DEF Lapsed
      <3>6. PICK A \in [Skus -> Nat], F \in SUBSET held : A = SweptStock /\ F = held \ Lapsed
        BY <3>1
      <3>7. /\ Grant(p, A, F, now) \/ Refuse(p, A, F)
            /\ Grant(p, SweptStock, held \ Lapsed, now) => Grant(p, A, F, now)
            /\ \A s \in Skus : A[s] + Units[Of(s, F)] = stock[s] + Units[Of(s, held)]
        BY <3>1, <3>2, <3>6
      <3>8. /\ stock' \in [Skus -> Nat] /\ held' \in SUBSET Purchases
            /\ token' \in [Purchases -> Nat] /\ expiry' \in [Purchases -> Nat]
            /\ fencing' \in Nat
            /\ held' \ {p} = F
            /\ Grant(p, A, F, now) => p \in held' /\ expiry' = [expiry EXCEPT ![p] = now + Ttl]
            /\ Refuse(p, A, F) => p \notin held' /\ expiry' = expiry
            /\ \A s \in Skus : stock'[s] + Units[Of(s, held')]
                                 = stock[s] + Units[Of(s, held)]
        <4>1. PICK m \in Nat : m = now
          BY <1>0 DEF TypeOK
        <4>2. Grant(p, A, F, m) \/ Refuse(p, A, F)
          BY <3>7, <4>1
        <4>3. pc[p] \in {"quoted", "acquire"} /\ InventoryInv
          BY <1>1
        <4> QED BY <3>6, <3>7, <4>1, <4>2, <4>3, AcquireStep
      <3>9. l = "locked" => /\ p \in held' /\ expiry'[p] = now + Ttl
                            /\ asked'[p] = now /\ now \in Nat
        BY <1>0, <2>1, <3>3, <3>7, <3>8 DEF TypeOK, ExecuteLock
      <3> QED BY <1>0, <1>1, <1>2, <3>4, <3>5, <3>6, <3>7, <3>8, <3>9 DEF TypeOK
    <2>2. CASE SweepRedis(p)
      <3>1. Sweep /\ Goto(p, "acquire") /\ UNCHANGED <<expiry, token, fencing>>
        BY <2>2 DEF SweepRedis
      <3>2. l = "acquire"
        BY <1>0, <1>4, <3>1 DEF TypeOK
      <3> QED BY <1>0, <1>1, <3>1, <3>2, SweepStep DEF TypeOK
    <2>3. CASE AcquireRedis(p)
      <3>1. \/ /\ \E t \in Sent(p) : Grant(p, stock, held, t)
               /\ Goto(p, "locked") \/ Goto(p, "error")
            \/ Refuse(p, stock, held) /\ Goto(p, "refused")
            \/ UNCHANGED <<held, stock, expiry, token, fencing>> /\ Goto(p, "error")
        BY <2>3 DEF AcquireRedis
      <3>2. l # "acquire" /\ (l = "locked" => \E t \in Sent(p) : Grant(p, stock, held, t))
        BY <1>0, <1>4, <3>1 DEF TypeOK
      <3>3. stock \in [Skus -> Nat] /\ held \in SUBSET held
        BY <1>0 DEF TypeOK
      <3>4. ASSUME NEW t \in Nat, Grant(p, stock, held, t) \/ Refuse(p, stock, held)
            PROVE  /\ stock' \in [Skus -> Nat] /\ held' \in SUBSET Purchases
                   /\ token' \in [Purchases -> Nat] /\ expiry' \in [Purchases -> Nat]
                   /\ fencing' \in Nat
                   /\ held' \ {p} = held
                   /\ Grant(p, stock, held, t) =>
                        p \in held' /\ expiry' = [expiry EXCEPT ![p] = t + Ttl]
                   /\ Refuse(p, stock, held) => p \notin held' /\ expiry' = expiry
                   /\ \A s \in Skus : stock'[s] + Units[Of(s, held')]
                                        = stock[s] + Units[Of(s, held)]
        BY <1>1, <3>3, <3>4, AcquireStep
      <3>6. CASE \E t \in Sent(p) : Grant(p, stock, held, t)
        <4>1. PICK t \in Nat : Grant(p, stock, held, t) /\ asked[p] <= t
          BY <1>0, <3>6 DEF Sent, TypeOK
        <4>2. asked'[p] = asked[p] /\ asked[p] \in Nat
          BY <1>0, <2>3 DEF AcquireRedis, TypeOK
        <4>3. p \in held' /\ expiry' = [expiry EXCEPT ![p] = t + Ttl] /\ held' \ {p} = held
          BY <3>4, <4>1
        <4>4. expiry'[p] \in Nat /\ expiry'[p] >= asked'[p] + Ttl
          BY <1>0, <4>1, <4>2, <4>3 DEF TypeOK
        <4> QED BY <1>0, <1>2, <3>2, <3>4, <4>1, <4>3, <4>4 DEF TypeOK
      <3>7. CASE Refuse(p, stock, held) /\ Goto(p, "refused")
        <4>1. l = "refused"
          BY <1>0, <1>4, <3>7 DEF TypeOK
        <4> QED BY <1>0, <1>2, <3>4, <3>7, <4>1 DEF TypeOK
      <3>5. CASE UNCHANGED <<held, stock, expiry, token, fencing>> /\ Goto(p, "error")
        <4>1. l = "error"
          BY <1>0, <1>4, <3>5 DEF TypeOK
        <4> QED BY <1>0, <3>5, <4>1 DEF TypeOK
      <3> QED BY <3>1, <3>5, <3>6, <3>7
    <2> QED BY <2>1, <2>2, <2>3
  <1>7. TypeOK'
    BY <1>0, <1>2, <1>4, <1>6 DEF TypeOK
  <1>8. OnFile'
    <2>1. ASSUME NEW q \in held'
          PROVE  pc'[q] \notin {"quoted", "acquire", "sold", "soldUnheld"}
      <3>1. CASE q = p
        BY <1>4, <1>6, <3>1
      <3>2. CASE q # p
        <4>1. q \in held /\ q \in Purchases \ {p}
          BY <1>6, <3>2
        <4> QED BY <1>0, <1>4, <4>1 DEF OnFile
      <3> QED BY <3>1, <3>2
    <2> QED BY <2>1 DEF OnFile
  <1>9. UnitsAccountedFor'
    BY <1>0, <1>2, <1>5, <1>6, BooksBalance
  <1>10. \A q \in Purchases : Backing(q)'
    <2>1. ASSUME NEW q \in Purchases, q # p
          PROVE  Backing(q)'
      <3>1. asked'[q] = asked[q] /\ now' = now /\ restarts' = restarts
            /\ expiry'[q] = expiry[q] /\ pc'[q] = pc[q]
        BY <1>2, <1>4, <1>6, <2>1
      <3>2. q \in held => q \in held' \/ expiry[q] <= now
        BY <1>6
      <3> QED BY <1>0, <3>1, <3>2 DEF Backing, SignedExpiry
    <2>2. Backing(p)'
      <3>1. asked'[p] <= now' /\ pc'[p] = l
        BY <1>2, <1>4
      <3>2. l = "locked" => /\ p \in held' /\ expiry'[p] >= asked'[p] + Ttl
                            /\ asked'[p] \in Nat /\ now \in Nat /\ Ttl \in Nat
        BY <1>0, <1>2, <1>6 DEF TypeOK
      <3>3. l = "locked" => SignedExpiry(p)' <= expiry'[p]
        BY <1>2, <3>2 DEF SignedExpiry
      <3> QED BY <3>1, <3>2, <3>3 DEF Backing
    <2> QED BY <2>1, <2>2
  <1> QED BY <1>7, <1>8, <1>9, <1>10 DEF InventoryInv

\* The invariant after a step of p's settlement.
LEMMA SettlementStep ==
  ASSUME InventoryInv, NEW p \in Purchases,
         \/ PostSettlement(p) \/ SettleInEngine(p)
         \/ ConsumeReservation(p) \/ LeaveReservation(p)
  PROVE  InventoryInv'
  <1>0. TypeOK /\ OnFile /\ UnitsAccountedFor /\ \A q \in Purchases : Backing(q)
    BY DEF InventoryInv
  <1>1. UNCHANGED <<backend, now, reservation, stock, fencing, resets>>
    BY DEF PostSettlement, SettleInEngine, ConsumeReservation, LeaveReservation
  <1>2. CASE ConsumeReservation(p)
    <2>1. /\ pc[p] = "captured" /\ held' = held \ {p}
          /\ pc' = [pc EXCEPT ![p] = IF p \in held THEN "sold" ELSE "soldUnheld"]
      BY <1>2 DEF ConsumeReservation
    <2>2. TypeOK'
      BY <1>0, <1>1, <2>1 DEF TypeOK
    <2>3. OnFile'
      BY <1>0, <2>1 DEF TypeOK, OnFile
    <2>4. \A q \in Purchases : Backing(q)'
      <3>1. ASSUME NEW q \in Purchases, q # p
            PROVE  Backing(q)'
        BY <1>0, <1>1, <2>1, <3>1 DEF TypeOK, Backing, SignedExpiry
      <3>2. Backing(p)'
        BY <1>0, <1>1, <2>1 DEF TypeOK, Backing
      <3> QED BY <3>1, <3>2
    <2>5. UnitsAccountedFor'
      <3>1. CASE p \notin held
        <4>1. held' = held /\ pc'[p] = "soldUnheld" /\ pc[p] # "sold" /\ Goto(p, "soldUnheld")
          BY <1>0, <2>1, <3>1 DEF TypeOK
        <4>2. Sold' = Sold
          BY <1>0, <4>1, SoldUnmoved
        <4> QED BY <1>0, <1>1, <2>2, <4>1, <4>2, BooksBalance DEF TypeOK
      <3>2. CASE p \in held
        <4>1. /\ Sold' = Sold \cup {p} /\ p \notin Sold
              /\ Sold \in SUBSET Purchases /\ held' \in SUBSET Purchases
              /\ held = held' \cup {p} /\ p \notin held'
          BY <1>0, <2>1, <3>2 DEF TypeOK, Sold
        <4>2. SUFFICES ASSUME published = 0, restarts = 0, NEW s \in Skus
                       PROVE  stock[s] + Units[Of(s, held')] + Units[Of(s, Sold')] = Listing[s]
          BY <1>1 DEF UnitsAccountedFor
        <4>3. stock[s] + Units[Of(s, held)] + Units[Of(s, Sold)] = Listing[s]
          BY <1>0, <4>2 DEF UnitsAccountedFor
        <4>4. PICK H \in SUBSET Purchases, Z \in SUBSET Purchases :
                /\ H = held' /\ Z = Sold
                /\ H \cap {p} = {} /\ Z \cap {p} = {} /\ {p} \in SUBSET Purchases
          BY <4>1
        <4>5. /\ Units[Of(s, H \cup {p})] = Units[Of(s, H)] + Units[Of(s, {p})]
              /\ Units[Of(s, Z \cup {p})] = Units[Of(s, Z)] + Units[Of(s, {p})]
              /\ Units[Of(s, H)] \in Nat /\ Units[Of(s, Z)] \in Nat
              /\ Units[Of(s, {p})] \in Nat
          BY <4>4, UnitsSplit
        <4>6. stock[s] \in Nat
          BY <1>0 DEF TypeOK
        <4> QED BY <4>1, <4>3, <4>4, <4>5, <4>6
      <3> QED BY <3>1, <3>2
    <2> QED BY <2>2, <2>3, <2>4, <2>5 DEF InventoryInv
  <1>3. CASE PostSettlement(p) \/ SettleInEngine(p) \/ LeaveReservation(p)
    <2>1. PICK l \in {"locked", "posted", "captured", "refused", "unknown"} :
            /\ pc' = [pc EXCEPT ![p] = l] /\ held' = held
            /\ pc[p] \in {"locked", "posted", "captured"}
      BY <1>3 DEF PostSettlement, SettleInEngine, LeaveReservation
    <2>2. TypeOK'
      BY <1>0, <1>1, <2>1 DEF TypeOK
    <2>3. OnFile'
      BY <1>0, <2>1 DEF TypeOK, OnFile
    <2>4. \A q \in Purchases : Backing(q)'
      BY <1>0, <1>1, <2>1 DEF TypeOK, Backing, SignedExpiry
    <2>5. Sold' = Sold
      BY <1>0, <2>1, SoldUnmoved
    <2>6. UnitsAccountedFor'
      BY <1>0, <1>1, <2>1, <2>2, <2>5, BooksBalance DEF TypeOK
    <2> QED BY <2>2, <2>3, <2>4, <2>6 DEF InventoryInv
  <1> QED BY <1>2, <1>3

\* The invariant after a sweep before a quote, a tick, a listing edit or a restart.
LEMMA SurroundingsStep ==
  ASSUME InventoryInv, Reclaim \/ Tick \/ Restart \/ \E s \in Skus : PublishListing(s)
  PROVE  InventoryInv'
  <1>0. TypeOK /\ OnFile /\ UnitsAccountedFor /\ \A q \in Purchases : Backing(q)
    BY DEF InventoryInv
  <1>1. UNCHANGED <<backend, pc, reservation>>
    BY DEF Reclaim, Tick, Restart, PublishListing
  <1>2. Sold' = Sold
    BY <1>1 DEF Sold
  <1>3. CASE Reclaim
    <2>1. Sweep /\ UNCHANGED <<now, fencing, resets>>
      BY <1>3 DEF Reclaim
    <2>2. /\ stock' \in [Skus -> Nat] /\ held' \in SUBSET held
          /\ \A p \in held \ held' : expiry[p] <= now
          /\ \A s \in Skus : stock'[s] + Units[Of(s, held')] = stock[s] + Units[Of(s, held)]
      BY <2>1, SweepStep
    <2>3. TypeOK' /\ OnFile'
      BY <1>0, <1>1, <2>1, <2>2 DEF TypeOK, OnFile
    <2>4. \A q \in Purchases : Backing(q)'
      BY <1>0, <1>1, <2>1, <2>2 DEF Backing, SignedExpiry
    <2>5. UnitsAccountedFor'
      BY <1>0, <1>2, <2>1, <2>2, <2>3, BooksBalance DEF TypeOK
    <2> QED BY <2>3, <2>4, <2>5 DEF InventoryInv
  <1>4. CASE Tick
    <2>1. now' = now + 1 /\ now < MaxTime /\ UNCHANGED <<held, stock, fencing, resets>>
      BY <1>4 DEF Tick
    <2>2. TypeOK' /\ OnFile'
      BY <1>0, <1>1, <2>1 DEF TypeOK, OnFile
    <2>3. ASSUME NEW q \in Purchases
          PROVE  Backing(q)'
      <3>1. asked[q] \in Nat /\ expiry[q] \in Nat /\ now \in Nat
        BY <1>0 DEF TypeOK
      <3> QED BY <1>0, <1>1, <2>1, <3>1 DEF Backing, SignedExpiry
    <2>4. UnitsAccountedFor'
      BY <1>0, <1>2, <2>1, <2>2, BooksBalance DEF TypeOK
    <2> QED BY <2>2, <2>3, <2>4 DEF InventoryInv
  <1>5. ASSUME NEW s \in Skus, PublishListing(s)
        PROVE  InventoryInv'
    <2>1. /\ published < MaxPublications /\ published' = published + 1
          /\ stock' = [stock EXCEPT ![s] = Listing[s]]
          /\ UNCHANGED <<now, held, fencing, restarts>>
      BY <1>5 DEF PublishListing
    <2>2. TypeOK' /\ OnFile'
      BY <1>0, <1>1, <2>1 DEF TypeOK, OnFile
    <2>3. \A q \in Purchases : Backing(q)'
      BY <1>0, <1>1, <2>1 DEF Backing, SignedExpiry
    <2>4. published' # 0
      BY <1>0, <2>1 DEF TypeOK
    <2> QED BY <2>2, <2>3, <2>4 DEF InventoryInv, UnitsAccountedFor
  <1>6. CASE Restart
    <2>1. /\ restarts < MaxRestarts /\ restarts' = restarts + 1
          /\ stock' = Listing /\ held' = {} /\ fencing' = 0
          /\ UNCHANGED <<now, published>>
      BY <1>6 DEF Restart
    <2>2. TypeOK' /\ OnFile'
      BY <1>0, <1>1, <2>1 DEF TypeOK, OnFile
    <2>3. restarts' # 0
      BY <1>0, <2>1 DEF TypeOK
    <2>4. \A q \in Purchases : Backing(q)'
      BY <1>0, <1>1, <2>1, <2>3 DEF Backing, SignedExpiry
    <2> QED BY <2>2, <2>3, <2>4 DEF InventoryInv, UnitsAccountedFor
  <1> QED BY <1>3, <1>4, <1>5, <1>6

\* A stuttering step changes nothing the invariant reads.
LEMMA InventoryStutter ==
  ASSUME InventoryInv, UNCHANGED vars
  PROVE  InventoryInv'
  <1>1. TypeOK' /\ OnFile'
    BY DEF InventoryInv, vars, TypeOK, OnFile
  <1>2. UnitsAccountedFor'
    BY DEF InventoryInv, vars, UnitsAccountedFor, Sold
  <1>3. \A q \in Purchases : Backing(q)'
    BY DEF InventoryInv, vars, Backing, SignedExpiry
  <1> QED BY <1>1, <1>2, <1>3 DEF InventoryInv

\* The invariant is inductive.
THEOREM InventoryInvariant == Spec => []InventoryInv
  <1>1. Init => InventoryInv
    BY InventoryInit
  <1>2. InventoryInv /\ [Next]_vars => InventoryInv'
    <2>1. SUFFICES ASSUME InventoryInv, Next PROVE InventoryInv'
      BY InventoryStutter
    <2> QED BY <2>1, LockStep, SettlementStep, SurroundingsStep DEF Next
  <1> QED BY <1>1, <1>2, PTL DEF Spec
-----------------------------------------------------------------------------
(* Theorems *)

\* Every variable stays in its domain; no stock figure is ever negative, whatever
\* is lost, published or restarted.
THEOREM StockTypeCorrect == Spec => []TypeOK
  <1>1. InventoryInv => TypeOK
    BY DEF InventoryInv
  <1> QED BY <1>1, InventoryInvariant, PTL

\* Locks, sweeps, refusals, lost replies and sales neither leak nor mint a unit as
\* long as the catalog overwrites no figure.
THEOREM StockConservation == Spec => []UnitsAccountedFor
  <1>1. InventoryInv => UnitsAccountedFor
    BY DEF InventoryInv
  <1> QED BY <1>1, InventoryInvariant, PTL

\* The buyer of an unexpired signed lock has his units on file while the server
\* stays up.
THEOREM SignedLocksAreBacked == Spec => []LiveLockIsBacked
  <1>1. InventoryInv => LiveLockIsBacked
    <2>1. SUFFICES ASSUME InventoryInv, restarts = 0, NEW p \in Purchases,
                          pc[p] \in {"locked", "posted", "captured"}, now < SignedExpiry(p)
                   PROVE  p \in held
      BY DEF LiveLockIsBacked
    <2>2. SignedExpiry(p) <= expiry[p] /\ (p \in held \/ expiry[p] <= now)
      BY <2>1 DEF InventoryInv, Backing
    <2>3. now \in Nat /\ expiry[p] \in Nat /\ asked[p] \in Nat /\ Ttl \in Nat
      BY <2>1 DEF InventoryInv, TypeOK
    <2> QED BY <2>1, <2>2, <2>3 DEF SignedExpiry
  <1> QED BY <1>1, InventoryInvariant, PTL
-----------------------------------------------------------------------------
(* Refusals.  Between the two EVALs of the Redis path others may file units, but  *)
(* theirs lapse later than the moment the buyer asked.                            *)

SweptForAsker ==
  \A p \in Purchases : pc[p] = "acquire" => \A q \in held : expiry[q] > asked[p]

\* The file may shrink, and gain entries whose score is yet to come.
LEMMA StaysSwept ==
  ASSUME InventoryInv, SweptForAsker,
         \A p \in Purchases : pc'[p] = "acquire" => pc[p] = "acquire" /\ asked'[p] = asked[p],
         \A q \in held' :
           (q \in held /\ expiry'[q] = expiry[q]) \/ (expiry'[q] \in Nat /\ expiry'[q] > now)
  PROVE  SweptForAsker'
  <1> SUFFICES ASSUME NEW p \in Purchases, pc'[p] = "acquire", NEW q \in held'
               PROVE  expiry'[q] > asked'[p]
    BY DEF SweptForAsker
  <1>1. asked'[p] = asked[p] /\ asked[p] \in Nat /\ now \in Nat /\ asked[p] <= now
    BY DEF InventoryInv, TypeOK, Backing
  <1>2. CASE q \in held /\ expiry'[q] = expiry[q]
    BY <1>1, <1>2 DEF SweptForAsker
  <1>3. CASE expiry'[q] \in Nat /\ expiry'[q] > now
    BY <1>1, <1>3
  <1> QED BY <1>2, <1>3

LEMMA LockStaysSwept ==
  ASSUME InventoryInv, SweptForAsker, NEW p \in Purchases,
         ExecuteLock(p) \/ SweepRedis(p) \/ AcquireRedis(p)
  PROVE  SweptForAsker'
  <1>0. TypeOK /\ Lapsed \subseteq held
    BY DEF InventoryInv, Lapsed
  <1>1. ASSUME NEW available, NEW onFile \in SUBSET held, NEW l, l # "acquire", Goto(p, l),
               \A r \in Purchases : r # p => asked'[r] = asked[r],
               \/ \E t \in Nat : Grant(p, available, onFile, t) /\ t <= now /\ now - t <= Delay
               \/ Refuse(p, available, onFile)
               \/ UNCHANGED <<held, expiry>>
        PROVE  SweptForAsker'
    <2>1. \A r \in Purchases : pc'[r] = "acquire" => pc[r] = "acquire" /\ asked'[r] = asked[r]
      BY <1>0, <1>1 DEF Goto, TypeOK
    <2>2. \A q \in held' : \/ q \in held /\ expiry'[q] = expiry[q]
                           \/ expiry'[q] \in Nat /\ expiry'[q] > now
      <3>1. CASE Refuse(p, available, onFile) \/ UNCHANGED <<held, expiry>>
        <4>1. onFile \subseteq held /\ held' \subseteq held /\ expiry' = expiry
          BY <1>1, <3>1 DEF Refuse
        <4> QED BY <4>1
      <3>2. ASSUME NEW t \in Nat, Grant(p, available, onFile, t), t <= now,
                   now - t <= Delay
            PROVE  \A q \in held' : \/ q \in held /\ expiry'[q] = expiry[q]
                                    \/ expiry'[q] \in Nat /\ expiry'[q] > now
        <4>1. held' = onFile \cup {p} /\ expiry' = [expiry EXCEPT ![p] = t + Ttl]
          BY <3>2 DEF Grant, Take
        <4>2. t + Ttl \in Nat /\ t + Ttl > now
          BY <1>0, <3>2, InventoryAssumption DEF TypeOK
        <4>3. onFile \subseteq held /\ p \in DOMAIN expiry
          BY <1>0, <1>1 DEF TypeOK
        <4>4. \A q \in onFile : q # p => q \in held /\ expiry'[q] = expiry[q]
          BY <1>0, <4>1, <4>3 DEF TypeOK
        <4>5. expiry'[p] = t + Ttl
          BY <4>1, <4>3
        <4> QED BY <4>1, <4>2, <4>4, <4>5
      <3> QED BY <1>1, <3>1, <3>2
    <2> QED BY <2>1, <2>2, StaysSwept
  <1>2. CASE ExecuteLock(p)
    <2>1. \A r \in Purchases : r # p => asked'[r] = asked[r]
      BY <1>0, <1>2 DEF ExecuteLock, TypeOK
    <2>2. now \in Nat /\ now - now <= Delay
      BY <1>0, InventoryAssumption DEF TypeOK
    <2>3. CASE Grant(p, SweptStock, held \ Lapsed, now) /\ Goto(p, "locked")
      <3>1. \E t \in Nat : Grant(p, SweptStock, held \ Lapsed, t) /\ t <= now /\ now - t <= Delay
        BY <1>0, <2>2, <2>3 DEF TypeOK
      <3> QED BY <1>0, <1>1, <2>1, <2>3, <3>1
    <2>4. CASE Refuse(p, SweptStock, held \ Lapsed) /\ Goto(p, "refused")
      BY <1>0, <1>1, <2>1, <2>4
    <2> QED BY <1>2, <2>3, <2>4 DEF ExecuteLock
  <1>3. CASE AcquireRedis(p)
    <2>1. (\E t \in Sent(p) : Grant(p, stock, held, t))
            => \E t \in Nat : Grant(p, stock, held, t) /\ t <= now /\ now - t <= Delay
      BY <1>0 DEF Sent, TypeOK
    <2> QED BY <1>0, <1>1, <1>3, <2>1 DEF AcquireRedis
  <1>4. CASE SweepRedis(p)
    <2>1. /\ asked' = [asked EXCEPT ![p] = now] /\ held' = held \ Lapsed /\ expiry' = expiry
          /\ pc' = [pc EXCEPT ![p] = "acquire"]
      BY <1>4 DEF SweepRedis, Sweep, Goto
    <2>2. \A q \in held' : expiry[q] > now
      BY <1>0, <2>1 DEF Lapsed, TypeOK
    <2> SUFFICES ASSUME NEW r \in Purchases, pc'[r] = "acquire", NEW q \in held'
                 PROVE  expiry'[q] > asked'[r]
      BY DEF SweptForAsker
    <2>3. CASE r = p
      BY <1>0, <2>1, <2>2, <2>3 DEF TypeOK
    <2>4. CASE r # p
      BY <1>0, <2>1, <2>4 DEF TypeOK, SweptForAsker
    <2> QED BY <2>3, <2>4
  <1> QED BY <1>2, <1>3, <1>4

LEMMA SweptNext == InventoryInv /\ SweptForAsker /\ [Next]_vars => SweptForAsker'
  <1> SUFFICES ASSUME InventoryInv, SweptForAsker, [Next]_vars PROVE SweptForAsker'
    OBVIOUS
  <1>0. TypeOK
    BY DEF InventoryInv
  <1>1. ASSUME asked' = asked, expiry' = expiry, held' \subseteq held,
               pc' = pc \/ \E p \in Purchases, l \in PCs \ {"acquire"} : Goto(p, l)
        PROVE  SweptForAsker'
    <2>1. \A r \in Purchases : pc'[r] = "acquire" => pc[r] = "acquire"
      BY <1>0, <1>1 DEF Goto, TypeOK
    <2> QED BY <1>1, <2>1, StaysSwept
  <1> USE DEF reservation
  <1>2. CASE UNCHANGED vars
    BY <1>1, <1>2 DEF vars
  <1>3. CASE Reclaim \/ Tick \/ Restart \/ \E s \in Skus : PublishListing(s)
    BY <1>1, <1>3 DEF Reclaim, Sweep, Tick, Restart, PublishListing
  <1>4. ASSUME NEW p \in Purchases,
               \/ PostSettlement(p) \/ SettleInEngine(p)
               \/ ConsumeReservation(p) \/ LeaveReservation(p)
        PROVE  SweptForAsker'
    <2>1. asked' = asked /\ expiry' = expiry /\ held' \subseteq held
      BY <1>4 DEF PostSettlement, SettleInEngine, ConsumeReservation, LeaveReservation
    <2>2. \E l \in PCs \ {"acquire"} : Goto(p, l)
      BY <1>4 DEF PostSettlement, SettleInEngine, ConsumeReservation, LeaveReservation, PCs
    <2> QED BY <1>1, <2>1, <2>2
  <1> QED BY <1>2, <1>3, <1>4, LockStaysSwept DEF Next

\* Whoever is refused finds the shelf itself too small: nothing that had lapsed when he
\* asked is still on file, on either backend.
THEOREM RefusalsAreHonest == Spec => RefusalIsHonest
  <1>1. ASSUME InventoryInv, SweptForAsker, Next, NEW p \in Purchases,
               pc[p] \in {"quoted", "acquire"}, pc'[p] = "refused"
        PROVE  Quantity[p] > stock'[SkuOf[p]]
                 + Units[Of(SkuOf[p], {q \in held' : expiry[q] <= asked'[p]})]
    <2>0. TypeOK
      BY <1>1 DEF InventoryInv
    <2>1. ExecuteLock(p) \/ AcquireRedis(p)
      <3>1. pc' # pc /\ \A r \in Purchases, l \in PCs : r # p /\ Goto(r, l) => pc'[p] = pc[p]
        BY <1>1, <2>0 DEF Goto, TypeOK
      <3>2. ~ (Reclaim \/ Tick \/ Restart \/ \E s \in Skus : PublishListing(s))
        BY <3>1 DEF Reclaim, Tick, Restart, PublishListing
      <3>3. PICK r \in Purchases :
              \/ ExecuteLock(r) \/ SweepRedis(r) \/ AcquireRedis(r)
              \/ PostSettlement(r) \/ SettleInEngine(r)
              \/ ConsumeReservation(r) \/ LeaveReservation(r)
        BY <1>1, <3>2 DEF Next
      <3>4. \E l \in PCs : Goto(r, l)
        BY <3>3 DEF ExecuteLock, SweepRedis, AcquireRedis, PostSettlement, SettleInEngine,
                    ConsumeReservation, LeaveReservation, PCs
      <3>5. r = p
        BY <1>1, <3>1, <3>4
      <3>6. ~SweepRedis(p)
        BY <1>1, <2>0 DEF SweepRedis, Goto, TypeOK
      <3> QED BY <1>1, <3>3, <3>5, <3>6 DEF PostSettlement, SettleInEngine,
                                             ConsumeReservation, LeaveReservation
    <2>2. \A l : Goto(p, l) => pc'[p] = l
      BY <2>0 DEF Goto, TypeOK
    <2>3. /\ Quantity[p] > stock'[SkuOf[p]]
          /\ \A q \in held' : ~ (expiry[q] <= asked'[p])
      <3>1. SkuOf[p] \in Skus /\ Quantity[p] \in Nat
        BY InventoryAssumption
      <3>2. CASE ExecuteLock(p)
        <4>1. Refuse(p, SweptStock, held \ Lapsed) /\ asked'[p] = now
          BY <1>1, <2>0, <2>2, <3>2 DEF ExecuteLock, TypeOK
        <4>2. SweptStock \in [Skus -> Nat]
          BY <1>1, SweepConserves DEF InventoryInv, TypeOK
        <4>3. held' = held \ Lapsed /\ stock' = SweptStock /\ SweptStock[SkuOf[p]] < Quantity[p]
          BY <4>1 DEF Refuse
        <4> QED BY <2>0, <3>1, <4>1, <4>2, <4>3 DEF Lapsed, TypeOK
      <3>3. CASE AcquireRedis(p)
        <4>1. Refuse(p, stock, held) /\ asked' = asked /\ pc[p] = "acquire"
          BY <1>1, <2>2, <3>3 DEF AcquireRedis
        <4> QED BY <1>1, <2>0, <3>1, <4>1 DEF Refuse, SweptForAsker, TypeOK
      <3> QED BY <2>1, <3>2, <3>3
    <2>4. Of(SkuOf[p], {q \in held' : expiry[q] <= asked'[p]}) = {}
      BY <2>3 DEF Of
    <2>5. stock'[SkuOf[p]] \in Nat
      <3>1. InventoryInv'
        BY <1>1, LockStep, <2>1
      <3> QED BY <3>1, InventoryAssumption DEF InventoryInv, TypeOK
    <2> QED BY <2>3, <2>4, <2>5, UnitsEmpty
  <1>2. InventoryInv /\ SweptForAsker /\ [Next]_vars =>
          [\A p \in Purchases :
             pc[p] \in {"quoted", "acquire"} /\ pc'[p] = "refused" =>
               Quantity[p] > stock'[SkuOf[p]]
                 + Units[Of(SkuOf[p], {q \in held' : expiry[q] <= asked'[p]})]]_vars
    BY <1>1
  <1>3. Init => SweptForAsker
    BY DEF Init, SweptForAsker
  <1> QED BY <1>2, <1>3, SweptNext, InventoryInvariant, PTL DEF Spec, RefusalIsHonest
=============================================================================
