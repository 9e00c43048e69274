------------------------ MODULE InventoryReservations ------------------------
(***************************************************************************)
(* The time-bounded stock reservations of the MCP server: acquired by      *)
(* reserve_inventory_lock, credited back by the expiry sweeper, retired by *)
(* execute_settlement once the mandate engine has captured the payment.    *)
(*                                                                         *)
(* The tools run on InMemoryAtomicLocker, whose JavaScript runs to the     *)
(* next await undisturbed; given a Redis client they use the Lua scripts   *)
(* instead, one EVAL after the other.  Both are modelled, and a server     *)
(* uses one.                                                               *)
(***************************************************************************)
EXTENDS Integers

CONSTANTS
  Purchases,       \* one reservation each, with the settlement it is for
  Skus,
  SkuOf, Quantity, \* what a purchase reserves
  Listing,         \* availableStock of a listing, which no sale changes
  Units,           \* Units[S]: the units the purchases in S ask for together
  Ttl,             \* lock_ttl_seconds, in ticks
  TicksPerSecond,  \* locks expire at a tick, carts name whole seconds
  Delay,           \* bound of the time an EVAL is on its way to Redis
  MaxTime,         \* bound of the clock
  MaxPublications, \* bound of listing edits
  MaxRestarts,     \* bound of server restarts
  Faults           \* "lostReply", "redis"

ASSUME InventoryAssumption ==
  /\ SkuOf \in [Purchases -> Skus]
  /\ Quantity \in [Purchases -> Nat \ {0}]
  /\ Listing \in [Skus -> Nat]
  /\ Ttl \in Nat \ {0} /\ TicksPerSecond \in Nat \ {0}
  /\ Delay \in Nat /\ Delay < Ttl
  /\ MaxTime \in Nat /\ MaxPublications \in Nat /\ MaxRestarts \in Nat
  /\ Faults \subseteq {"lostReply", "redis"}

\* Units is addition over sets of purchases, stated by its laws.
ASSUME UnitsAssumption ==
  /\ Units \in [SUBSET Purchases -> Nat]
  /\ \A p \in Purchases : Units[{p}] = Quantity[p]
  /\ \A S, T \in SUBSET Purchases :
       S \cap T = {} => Units[S \cup T] = Units[S] + Units[T]

VARIABLES
  backend,  \* where the locker keeps its state
  now,      \* the clock, in ticks
  pc,       \* how far a purchase is
  asked,    \* when its reservation was requested
  expiry,   \* the score of its entry
  token,    \* its fencing token
  held,     \* the reservations on file
  stock,    \* stockMap, or the {inventory}:stock:* keys
  fencing,  \* the last fencing token given out
  published, restarts  \* listing edits and server restarts so far

reservation == <<asked, expiry, token>>
resets == <<published, restarts>>
vars == <<backend, now, pc, reservation, held, stock, fencing, resets>>

PCs == {"quoted", "acquire", "refused", "error", "locked", "posted", "captured",
        "unknown", "sold", "soldUnheld"}

Init ==
  /\ backend \in {"memory", "redis"}
  /\ now = 0
  /\ pc = [p \in Purchases |-> "quoted"]
  /\ asked = [p \in Purchases |-> 0]
  /\ expiry = [p \in Purchases |-> 0]
  /\ token = [p \in Purchases |-> 0]
  /\ held = {} /\ stock = Listing /\ fencing = 0
  /\ published = 0 /\ restarts = 0

Of(s, S) == {p \in S : SkuOf[p] = s}
Goto(p, l) == pc' = [pc EXCEPT ![p] = l]

\* The expiry the merchant signs for the buyer; the entry's score is computed
\* later and may exceed it.
SignedExpiry(p) == asked[p] + Ttl

Second(t) == t \div TicksPerSecond
-----------------------------------------------------------------------------
(* The sweeper *)

\* Mutant: a reservation lapses one tick early.
LapsedAheadOfTime == {p \in held : expiry[p] <= now + 1}

Lapsed == {p \in held : expiry[p] <= now}

\* Stock once every lapsed reservation has been credited back.
SweptStock == [s \in Skus |-> stock[s] + Units[Of(s, Lapsed)]]

Sweep ==
  /\ stock' = SweptStock
  /\ held' = held \ Lapsed

\* reclaimExpired, before a quote or a catalog listing is read.
Reclaim ==
  /\ backend = "memory"
  /\ Sweep
  /\ UNCHANGED <<backend, now, pc, reservation, fencing, resets>>
-----------------------------------------------------------------------------
(* reserve_inventory_lock *)

\* Take the units and file the reservation, whose score was computed at the given
\* moment, with the next fencing token.
Take(p, available, onFile, moment) ==
  /\ held' = onFile \cup {p}
  /\ stock' = [available EXCEPT ![SkuOf[p]] = @ - Quantity[p]]
  /\ fencing' = fencing + 1
  /\ token' = [token EXCEPT ![p] = fencing']
  /\ expiry' = [expiry EXCEPT ![p] = moment + Ttl]

Grant(p, available, onFile, moment) ==
  available[SkuOf[p]] >= Quantity[p] /\ Take(p, available, onFile, moment)

\* InsufficientStockException.
Refuse(p, available, onFile) ==
  /\ available[SkuOf[p]] < Quantity[p]
  /\ held' = onFile /\ stock' = available
  /\ UNCHANGED <<expiry, token, fencing>>

\* Mutant: as the locker was before it had a sweeper.
ExecuteLockWithoutSweep(p) ==
  /\ backend = "memory" /\ pc[p] = "quoted"
  /\ asked' = [asked EXCEPT ![p] = now]
  /\ \/ Grant(p, stock, held, now) /\ Goto(p, "locked")
     \/ Refuse(p, stock, held) /\ Goto(p, "refused")
  /\ UNCHANGED <<backend, now, resets>>

\* InMemoryAtomicLocker.executeLock: sweep, compare and take in one go.
ExecuteLock(p) ==
  /\ backend = "memory" /\ pc[p] = "quoted"
  /\ asked' = [asked EXCEPT ![p] = now]
  /\ \/ Grant(p, SweptStock, held \ Lapsed, now) /\ Goto(p, "locked")
     \/ Refuse(p, SweptStock, held \ Lapsed) /\ Goto(p, "refused")
  /\ UNCHANGED <<backend, now, resets>>

\* executeRedisLock, first EVAL: the sweep.
SweepRedis(p) ==
  /\ backend = "redis" /\ pc[p] = "quoted"
  /\ asked' = [asked EXCEPT ![p] = now]
  /\ Sweep
  /\ Goto(p, "acquire")
  /\ UNCHANGED <<backend, now, expiry, token, fencing, resets>>

\* When the second EVAL may have been sent: the expiry is computed before it is.
Sent(p) == {t \in asked[p]..now : now - t <= Delay}

\* Second EVAL.  When its reply is lost the units may be taken all the same.
AcquireRedis(p) ==
  /\ pc[p] = "acquire"
  /\ \/ (\E t \in Sent(p) : Grant(p, stock, held, t)) /\ Goto(p, "locked")
     \/ Refuse(p, stock, held) /\ Goto(p, "refused")
     \/ /\ "redis" \in Faults
        /\ \/ \E t \in Sent(p) : Grant(p, stock, held, t)
           \/ UNCHANGED <<held, stock, expiry, token, fencing>>
        /\ Goto(p, "error")
  /\ UNCHANGED <<backend, now, asked, resets>>
-----------------------------------------------------------------------------
(* create_cart_mandate to execute_settlement *)

\* The server's clock, in seconds, is what the engine compares with the expiry on
\* the cart, in seconds and rounded down.
PostSettlement(p) ==
  /\ pc[p] = "locked"
  /\ Goto(p, IF Second(now) > Second(SignedExpiry(p)) THEN "refused" ELSE "posted")
  /\ UNCHANGED <<backend, now, reservation, held, stock, fencing, resets>>

\* The mandate engine captures the payment, or refuses for reasons of its own and
\* the buyer may sign again.
SettleInEngine(p) ==
  /\ pc[p] = "posted"
  /\ Goto(p, "captured") \/ Goto(p, "locked")
  /\ UNCHANGED <<backend, now, reservation, held, stock, fencing, resets>>

\* Mutant: a settled reservation expires like an abandoned one.
ConsumeNothing(p) ==
  /\ pc[p] = "captured"
  /\ Goto(p, IF p \in held THEN "sold" ELSE "soldUnheld")
  /\ UNCHANGED <<backend, now, reservation, held, stock, fencing, resets>>

\* _consumeSettledReservation.  That the entry is already gone is not noticed.
ConsumeReservation(p) ==
  /\ pc[p] = "captured"
  /\ held' = held \ {p}
  /\ Goto(p, IF p \in held THEN "sold" ELSE "soldUnheld")
  /\ UNCHANGED <<backend, now, reservation, stock, fencing, resets>>

\* The engine's answer does not arrive, or Redis fails: the capture stands and the
\* reservation stays on file.
LeaveReservation(p) ==
  /\ pc[p] = "captured"
  /\ \/ "lostReply" \in Faults
     \/ "redis" \in Faults /\ backend = "redis"
  /\ Goto(p, "unknown")
  /\ UNCHANGED <<backend, now, reservation, held, stock, fencing, resets>>
-----------------------------------------------------------------------------
(* The surroundings *)

Tick ==
  /\ now < MaxTime
  /\ now' = now + 1
  /\ UNCHANGED <<backend, pc, reservation, held, stock, fencing, resets>>

\* CatalogStore.addSku: any edit of a listing overwrites the stock held in memory.
\* (The merchant API writes its Redis figure under a key no locker reads.)
PublishListing(s) ==
  /\ backend = "memory" /\ published < MaxPublications
  /\ stock' = [stock EXCEPT ![s] = Listing[s]]
  /\ published' = published + 1
  /\ UNCHANGED <<backend, now, pc, reservation, held, fencing, restarts>>

\* A restarted server has its catalog back and knows no reservation.
Restart ==
  /\ backend = "memory" /\ restarts < MaxRestarts
  /\ stock' = Listing /\ held' = {} /\ fencing' = 0
  /\ restarts' = restarts + 1
  /\ UNCHANGED <<backend, now, pc, reservation, published>>

Next ==
  \/ Reclaim \/ Tick \/ Restart
  \/ \E s \in Skus : PublishListing(s)
  \/ \E p \in Purchases :
       \/ ExecuteLock(p) \/ SweepRedis(p) \/ AcquireRedis(p)
       \/ PostSettlement(p) \/ SettleInEngine(p)
       \/ ConsumeReservation(p) \/ LeaveReservation(p)

Spec == Init /\ [][Next]_vars
-----------------------------------------------------------------------------
(* Safety *)

Sold == {p \in Purchases : pc[p] = "sold"}

\* Every variable stays in its domain; in particular no stock figure is negative.
TypeOK ==
  /\ backend \in {"memory", "redis"}
  /\ now \in 0..MaxTime
  /\ published \in 0..MaxPublications /\ restarts \in 0..MaxRestarts
  /\ pc \in [Purchases -> PCs]
  /\ asked \in [Purchases -> Nat] /\ expiry \in [Purchases -> Nat]
  /\ token \in [Purchases -> Nat] /\ fencing \in Nat
  /\ held \subseteq Purchases
  /\ stock \in [Skus -> Nat]

\* Until the catalog overwrites a figure, each unit is on the shelf, reserved or
\* sold: sweeps, refusals, retries and lost replies neither leak nor mint any.
UnitsAccountedFor ==
  published = 0 /\ restarts = 0 =>
    \A s \in Skus :
      stock[s] + Units[Of(s, held)] + Units[Of(s, Sold)] = Listing[s]

\* A buyer whose signed lock has not expired is on file with his units, whatever
\* other buyers, sweepers and publications do, unless the server restarted.
LiveLockIsBacked ==
  restarts = 0 =>
    \A p \in Purchases :
      pc[p] \in {"locked", "posted", "captured"} /\ now < SignedExpiry(p) => p \in held

\* Nobody is refused while reservations that had lapsed when he asked still hold
\* enough units for him.
RefusalIsHonest ==
  [][\A p \in Purchases :
       pc[p] \in {"quoted", "acquire"} /\ pc'[p] = "refused" =>
         Quantity[p] > stock'[SkuOf[p]]
           + Units[Of(SkuOf[p], {q \in held' : expiry[q] <= asked'[p]})]]_vars
=============================================================================
