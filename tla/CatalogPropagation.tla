------------------------- MODULE CatalogPropagation -------------------------
(***************************************************************************)
(* How a merchant's listing reaches the catalog an MCP server quotes from.  *)
(* The merchant API stores it in Redis and publishes an event.  A booting  *)
(* MCP server starts from its compiled fixtures, subscribes to the events  *)
(* on one connection, reads everything stored on another (SCAN, then MGET),*)
(* and posts its fixtures to the merchant API like any merchant.  Nothing  *)
(* orders the two connections.                                             *)
(*                                                                         *)
(* A listing is the number of the write it comes from: 0 for none, 1 for   *)
(* the compiled fixture, then one for each write.                          *)
(***************************************************************************)
EXTENDS Integers, Sequences, FiniteSets

CONSTANTS
  Skus,
  Fixtures,     \* SKUs compiled into the server
  Writers,      \* requests the merchant API serves at a time
  MaxWrites,    \* bound: listings stored or removed
  MaxFaults,    \* bound: connections lost, requests and scans that fail
  MaxRestarts   \* bound: restarts of the MCP server

ASSUME CatalogAssumption ==
  /\ Fixtures \subseteq Skus
  /\ MaxWrites \in Nat \ {0, 1} /\ MaxFaults \in Nat /\ MaxRestarts \in Nat

VARIABLES
  redis,      \* mesh:catalog:<sku>
  written,    \* number of the last write
  writers,    \* the requests under way at the merchant API
  link,       \* whether Redis has the server's SUBSCRIBE
  channel,    \* events on their way to the server
  hydration,  \* hydrateCatalogFromRedis
  unindexed,  \* fixtures that indexCompiledFixtures has yet to post
  store,      \* CatalogStore.itemsMap
  exposed,    \* history: SKUs that met a hazard since the server started
  faults, restarts

server == <<link, channel, hydration, unindexed, store>>
vars == <<redis, written, writers, server, exposed, faults, restarts>>

None == 0
Fixture(s) == IF s \in Fixtures THEN 1 ELSE None
Idle == [at |-> "idle"]
Scanning == [at |-> "scan"]
Seeded == [s \in Skus |-> Fixture(s)]

\* A fresh server beside a Redis in which merchants have been at work.
Init ==
  /\ redis \in [Skus -> {None, 2}]
  /\ written = 2
  /\ writers = [w \in Writers |-> Idle]
  /\ link = FALSE /\ channel = <<>>
  /\ hydration = Scanning /\ unindexed = Fixtures
  /\ store = Seeded
  /\ exposed = {} /\ faults = 0 /\ restarts = 0

Fault == faults < MaxFaults /\ faults' = faults + 1
Busy(s) == {w \in Writers : writers[w] # Idle /\ writers[w].sku = s}

\* The hydration will not bring what an event that is lost now would have: it has
\* read the stored listings or missed this key, or the event was a removal.
Beyond(s, listing) ==
  \/ listing = None
  \/ hydration.at \in {"reply", "done"}
  \/ hydration.at = "mget" /\ s \notin hydration.keys
Expose(S) == exposed' = exposed \cup S
-----------------------------------------------------------------------------
(* The merchant API: read, store or delete, publish, an await each *)

Start(w, op, s) ==
  /\ writers[w] = Idle
  /\ written + Cardinality({v \in Writers : writers[v] # Idle}) < MaxWrites
  /\ writers' = [writers EXCEPT ![w] = [at |-> "write", op |-> op, sku |-> s,
                                        listing |-> None]]
  /\ Expose(IF Busy(s) = {} THEN {} ELSE {s})

\* upsertSku, removeSku and applyStockPriceDelta: the last two return when there
\* is no such listing.
BeginWrite(w, op, s) ==
  /\ op # "upsert" => redis[s] # None
  /\ Start(w, op, s)
  /\ UNCHANGED <<redis, written, server, faults, restarts>>

\* indexCompiledFixtures goes on when a post fails or times out.
IndexFixture(w, s) ==
  /\ s \in unindexed /\ unindexed' = unindexed \ {s}
  /\ \/ Start(w, "upsert", s) /\ UNCHANGED faults
     \/ Fault /\ UNCHANGED <<writers, exposed>>
  /\ UNCHANGED <<redis, written, link, channel, hydration, store, restarts>>

\* upsert sets the listing, remove deletes it, the delta sets the one it computed.
StoreListing(w) ==
  LET listing == IF writers[w].op = "remove" THEN None ELSE written + 1 IN
  /\ writers[w].at = "write"
  /\ redis' = [redis EXCEPT ![writers[w].sku] = listing]
  /\ written' = written + 1
  /\ writers' = [writers EXCEPT ![w].at = "publish", ![w].listing = listing]
  /\ UNCHANGED <<server, exposed, faults, restarts>>

Lose(w) == Expose(IF Beyond(writers[w].sku, writers[w].listing)
                  THEN {writers[w].sku} ELSE {})

\* PUBLISH reaches the connections that are subscribed at that moment.
PublishEvent(w) ==
  /\ writers[w].at = "publish"
  /\ IF link
     THEN /\ channel' = Append(channel, [sku |-> writers[w].sku,
                                         listing |-> writers[w].listing])
          /\ UNCHANGED exposed
     ELSE Lose(w) /\ UNCHANGED channel
  /\ writers' = [writers EXCEPT ![w] = Idle]
  /\ UNCHANGED <<redis, written, link, hydration, unindexed, store, faults, restarts>>

\* The request dies between its two commands.  An older event that is still on its
\* way may undo what the hydration reads.
DieUnpublished(w) ==
  /\ writers[w].at = "publish" /\ Fault
  /\ IF \E n \in 1..Len(channel) : channel[n].sku = writers[w].sku
     THEN Expose({writers[w].sku})
     ELSE Lose(w)
  /\ writers' = [writers EXCEPT ![w] = Idle]
  /\ UNCHANGED <<redis, written, server, restarts>>
-----------------------------------------------------------------------------
(* The subscriber of the MCP server *)

\* The connection is up, for the first time or again, and its SUBSCRIBE in force.
Subscribe ==
  /\ ~link /\ link' = TRUE
  /\ UNCHANGED <<redis, written, writers, channel, hydration, unindexed, store,
                 exposed, faults, restarts>>

\* ioredis reconnects and subscribes again; nothing is read again.
Disconnect ==
  /\ link /\ Fault
  /\ link' = FALSE /\ channel' = <<>>
  /\ Expose({s \in Skus : \E n \in 1..Len(channel) :
                channel[n].sku = s /\ Beyond(s, channel[n].listing)})
  /\ UNCHANGED <<redis, written, writers, hydration, unindexed, store, restarts>>

\* _handleCatalogEvent: addSku replaces the listing, removeSku deletes it.  A
\* stored listing read before this event may yet be applied over it.
HandleCatalogEvent ==
  /\ channel # <<>>
  /\ LET e == Head(channel) IN
       /\ store' = [store EXCEPT ![e.sku] = e.listing]
       /\ Expose(IF /\ hydration.at = "reply" /\ e.sku \in hydration.keys
                    /\ hydration.payloads[e.sku] \notin {None, e.listing}
                 THEN {e.sku} ELSE {})
  /\ channel' = Tail(channel)
  /\ UNCHANGED <<redis, written, writers, link, hydration, unindexed, faults, restarts>>
-----------------------------------------------------------------------------
(* The hydration of the MCP server *)

\* Mutant: the cursor never comes back to its start.
ScanForever ==
  /\ hydration.at = "scan"
  /\ hydration' = [at |-> "scan"]
  /\ UNCHANGED <<redis, written, writers, link, channel, unindexed, store, exposed,
                 faults, restarts>>

\* scanCatalogKeys
ScanCatalogKeys ==
  /\ hydration.at = "scan"
  /\ hydration' = LET found == {s \in Skus : redis[s] # None}
                  IN IF found = {} THEN [at |-> "done"]
                     ELSE [at |-> "mget", keys |-> found]
  /\ UNCHANGED <<redis, written, writers, link, channel, unindexed, store, exposed,
                 faults, restarts>>

\* Redis executes the MGET; the reply is on its way.
ReadListings ==
  /\ hydration.at = "mget"
  /\ hydration' = [at |-> "reply", keys |-> hydration.keys,
                   payloads |-> [s \in hydration.keys |-> redis[s]]]
  /\ UNCHANGED <<redis, written, writers, link, channel, unindexed, store, exposed,
                 faults, restarts>>

\* The stored value of a key of the scan, None for one that is gone.  Redis holds
\* what the merchant API validated and wrote, so no malformed record is to be skipped.
Payload(s) == IF s \in hydration.keys THEN hydration.payloads[s] ELSE None

\* Mutant: a listing the store has is kept.
MergeMissing ==
  /\ hydration.at = "reply"
  /\ store' = [s \in Skus |->
                 IF Payload(s) # None /\ store[s] = None THEN Payload(s) ELSE store[s]]
  /\ hydration' = [at |-> "done"]
  /\ UNCHANGED <<redis, written, writers, link, channel, unindexed, exposed, faults,
                 restarts>>

\* hydrateCatalogFromRedis merges the records; a key that is gone is skipped.
MergeListings ==
  /\ hydration.at = "reply"
  /\ store' = [s \in Skus |-> IF Payload(s) # None THEN Payload(s) ELSE store[s]]
  /\ hydration' = [at |-> "done"]
  /\ UNCHANGED <<redis, written, writers, link, channel, unindexed, exposed, faults,
                 restarts>>

\* Hydration skipped: the fixtures and what the events bring stay.
FailHydration ==
  /\ hydration.at # "done" /\ Fault
  /\ hydration' = [at |-> "done"]
  /\ Expose(Skus)
  /\ UNCHANGED <<redis, written, writers, link, channel, unindexed, store, restarts>>

\* A restart heals every SKU that no request is at work on.
Restart ==
  /\ restarts < MaxRestarts /\ restarts' = restarts + 1
  /\ link' = FALSE /\ channel' = <<>>
  /\ hydration' = Scanning /\ unindexed' = Fixtures
  /\ store' = Seeded
  /\ exposed' = {s \in exposed : Busy(s) # {}}
  /\ UNCHANGED <<redis, written, writers, faults>>

Write(w) == StoreListing(w) \/ PublishEvent(w)

Next ==
  \/ \E w \in Writers, s \in Skus :
       IndexFixture(w, s) \/ \E op \in {"upsert", "delta", "remove"} : BeginWrite(w, op, s)
  \/ \E w \in Writers : Write(w) \/ DieUnpublished(w)
  \/ Subscribe \/ Disconnect \/ HandleCatalogEvent
  \/ ScanCatalogKeys \/ ReadListings \/ MergeListings \/ FailHydration
  \/ Restart

Spec == Init /\ [][Next]_vars

\* Both connections retry for ever (retryStrategy, maxRetriesPerRequest = null),
\* and a request that the merchant API began runs on.
Fairness ==
  /\ WF_vars(Subscribe) /\ WF_vars(HandleCatalogEvent)
  /\ WF_vars(ScanCatalogKeys) /\ WF_vars(ReadListings) /\ WF_vars(MergeListings)
  /\ \A w \in Writers : WF_vars(Write(w))
FairSpec == Spec /\ Fairness
-----------------------------------------------------------------------------
(* Properties *)

Listings == 0..MaxWrites
HydrationStates ==
  [at: {"scan", "done"}] \cup [at: {"mget"}, keys: SUBSET Skus]
  \cup UNION {[at: {"reply"}, keys: {K}, payloads: [K -> Listings]] : K \in SUBSET Skus}

\* Every variable stays in its domain, and no listing is ahead of the last write.
TypeOK ==
  /\ redis \in [Skus -> 0..written] /\ written \in 2..MaxWrites
  /\ writers \in [Writers -> {Idle} \cup
       [at: {"write", "publish"}, op: {"upsert", "delta", "remove"}, sku: Skus,
        listing: 0..written]]
  /\ link \in BOOLEAN /\ channel \in Seq([sku: Skus, listing: 0..written])
  /\ hydration \in HydrationStates
  /\ unindexed \subseteq Fixtures /\ store \in [Skus -> 0..written]
  /\ exposed \subseteq Skus
  /\ faults \in 0..MaxFaults /\ restarts \in 0..MaxRestarts

\* The server offers what Redis holds; where that is nothing, its own fixture or
\* nothing.
Agrees(s) ==
  IF redis[s] # None THEN store[s] = redis[s] ELSE store[s] \in {None, Fixture(s)}

Quiet(s) ==
  /\ Busy(s) = {} /\ hydration.at = "done"
  /\ \A n \in 1..Len(channel) : channel[n].sku # s

\* Once the hydration is through and no write or event of a listing is under way,
\* the server offers the stored listing, whatever order the two connections came
\* up in.  Only a SKU that met a hazard since the start may differ: writes that
\* overlapped, an event lost for want of a subscription, a request that died
\* unpublished, a reply applied over a newer event, or a failed hydration.
QuietStoreAgrees == \A s \in Skus : Quiet(s) => s \in exposed \/ Agrees(s)

\* When the merchants stop, the server comes to offer what Redis holds, and a
\* restart has healed what an earlier hazard broke.
Converges == <>[](\A s \in Skus : s \in exposed \/ Agrees(s))
=============================================================================
