----------------------------- MODULE PriceAlerts -----------------------------
(***************************************************************************)
(* Price-drop alerts of the x402 gateway: the HTTP calls that register and *)
(* cancel an alert, the two Redis keys behind them, and the watcher that   *)
(* reads the catalog channel and posts webhooks.                           *)
(*                                                                         *)
(* All alerts of a SKU are one JSON list under one key, read and written   *)
(* back by each call without WATCH or a script; every Redis command is an  *)
(* await and here a step.  SKUs share no key, so one SKU is modelled.      *)
(***************************************************************************)
EXTENDS Integers, Sequences, FiniteSetsExt

CONSTANTS
  Alerts,      \* alert ids
  Target,      \* targetPricePaise of an alert
  Expiry,      \* expiresAtUnix of an alert
  Prices,      \* prices the merchant may publish
  MaxEvents,   \* bound on price events
  MaxTime,     \* bound on the clock
  Faults       \* "store": a Redis command of a call fails, done or not; "watch": one
               \* of the watcher fails; "crash": the gateway restarts

ASSUME AlertAssumption ==
  /\ Target \in [Alerts -> Nat \ {0}] /\ Expiry \in [Alerts -> Nat \ {0}]
  /\ Prices \subseteq Nat /\ MaxEvents \in Nat /\ MaxTime \in Nat \ {0}
  /\ Faults \subseteq {"store", "watch", "crash"}

VARIABLES
  now,         \* the clock
  bucket,      \* mesh:alerts:priceDrop:<sku>
  bucketTill,  \* when Redis drops the bucket
  lookup,      \* mesh:alerts:lookup:<alert>: when Redis drops it, 0 if absent
  call,        \* where the call that registers or cancels an alert is
  began,       \* the time a call took at its start
  view,        \* the list a call has read
  watcher,     \* where the subscriber loop is
  inbox,       \* events waiting in its subscription
  price,       \* the event it is at
  todo,        \* matching alerts it has not posted yet
  posted,      \* webhooks attempted for the event it received last
  failedEvents,\* that event, if it was logged as "Price-drop dispatch failed"
  events,      \* events published
  stale        \* a call has written back a list that was no longer current

keys == <<bucket, bucketTill, lookup>>
calls == <<call, began, view>>
watching == <<watcher, inbox, price, todo, posted, failedEvents>>
alertVars == <<now, keys, calls, watching, events, stale>>

Calls == {"register", "cancel"} \X Alerts
Listening == {"listening", "reading", "posting"}

AlertsInit ==
  /\ now = 1
  /\ bucket = {} /\ bucketTill = 0 /\ lookup = [a \in Alerts |-> 0]
  /\ call = [c \in Calls |-> "idle"] /\ began = [c \in Calls |-> 0]
  /\ view = [c \in Calls |-> {}]
  /\ watcher = "off" /\ inbox = <<>> /\ price = 0 /\ todo = {} /\ posted = {}
  /\ failedEvents = {} /\ events = 0 /\ stale = FALSE

Stored == IF now < bucketTill THEN bucket ELSE {}
Goto(c, l) == call' = [call EXCEPT ![c] = l]

\* A call that returns forgets the time it took and the list it read.
End(c, l) ==
  Goto(c, l) /\ began' = [began EXCEPT ![c] = 0] /\ view' = [view EXCEPT ![c] = {}]

\* The exception of a Redis client ends the call with a 500.
Fail(c) == "store" \in Faults /\ End(c, "failed")
-----------------------------------------------------------------------------
(* Both calls: read the list, write it back *)

\* GET of the bucket.
ReadBucket(c) ==
  /\ call[c] = "read"
  /\ \/ view' = [view EXCEPT ![c] = Stored]
        /\ Goto(c, IF c[1] = "cancel" /\ Stored = {} THEN "index" ELSE "write")
        /\ UNCHANGED began
     \/ Fail(c)
  /\ UNCHANGED <<now, keys, watching, events, stale>>

Unexpired(list, t) == {a \in list : Expiry[a] > t}

\* Mutant: only expired alerts are left out.
KeptExpiredOut(c) ==
  Unexpired(view[c], began[c]) \cup (IF c[1] = "register" THEN {c[2]} ELSE {})

\* The list a call writes.
Kept(c) == IF c[1] = "register" THEN Unexpired(view[c], began[c]) \cup {c[2]}
           ELSE Unexpired(view[c], began[c]) \ {c[2]}

\* Mutant: the list lives as long as its shortest alert.
ShortestLife(list, t) == Max({1, Min({Expiry[a] : a \in list}) - t})

\* ex of a bucket: as long as its longest alert.
LongestLife(list, t) == Max({1, Max({Expiry[a] : a \in list}) - t})

Rewrite(c) ==
  /\ bucket' = Kept(c)
  /\ bucketTill' = IF Kept(c) = {} THEN 0 ELSE now + LongestLife(Kept(c), began[c])
  /\ stale' = (stale \/ Stored # view[c])

\* SET of the bucket, or its deletion when nothing is left.
WriteBucket(c) ==
  /\ call[c] = "write"
  /\ \/ Rewrite(c) /\ Goto(c, "index") /\ UNCHANGED <<began, view>>
     \/ Fail(c) /\ Rewrite(c)
     \/ Fail(c) /\ UNCHANGED <<bucket, bucketTill, stale>>
  /\ UNCHANGED <<now, lookup, watching, events>>

\* The index entry of an alert, as long as the alert itself; a cancel deletes it.
IndexedUntil(c) ==
  IF c[1] = "register" THEN now + Max({1, Expiry[c[2]] - began[c]}) ELSE 0

\* The last command of both calls; the answer is 201 or 200.
WriteIndex(c) ==
  /\ call[c] = "index"
  /\ \/ lookup' = [lookup EXCEPT ![c[2]] = IndexedUntil(c)] /\ End(c, "done")
     \/ Fail(c) /\ lookup' \in {lookup, [lookup EXCEPT ![c[2]] = IndexedUntil(c)]}
  /\ UNCHANGED <<now, bucket, bucketTill, watching, events, stale>>
-----------------------------------------------------------------------------
(* registerPriceDropAlert, cancelPriceDropAlert *)

\* An alert that has expired already is refused.
Register(a) ==
  LET c == <<"register", a>>
  IN
  /\ call[c] = "idle" /\ Expiry[a] > now
  /\ began' = [began EXCEPT ![c] = now] /\ Goto(c, "read")
  /\ UNCHANGED <<now, keys, view, watching, events, stale>>

\* A buyer who got the id of its alert cancels it; an id that is not in the index
\* is a 404, and a call that failed may be repeated.
Cancel(a) ==
  LET c == <<"cancel", a>>
  IN
  /\ call[<<"register", a>>] = "done" /\ call[c] \in {"idle", "failed"}
  /\ IF now < lookup[a] THEN Goto(c, "read") /\ began' = [began EXCEPT ![c] = now]
     ELSE Goto(c, "missing") /\ UNCHANGED began
  /\ UNCHANGED <<now, keys, view, watching, events, stale>>
-----------------------------------------------------------------------------
(* CatalogPriceWatcher *)

\* merchantApi publishes a price; a channel nobody listens to forgets it.
Publish(p) ==
  /\ events < MaxEvents
  /\ events' = events + 1
  /\ inbox' = IF watcher \in Listening THEN Append(inbox, p) ELSE inbox
  /\ UNCHANGED <<now, keys, calls, watcher, price, todo, posted, failedEvents, stale>>

\* Subscribing and waiting stand outside the try block: an exception there ends the
\* task, and nobody starts another.
SubscribeWatcher ==
  /\ watcher = "off"
  /\ watcher' \in {"listening"} \cup IF "watch" \in Faults THEN {"dead"} ELSE {}
  /\ UNCHANGED <<now, keys, calls, inbox, price, todo, posted, failedEvents, events,
                 stale>>

LoseConnection ==
  /\ "watch" \in Faults /\ watcher = "listening"
  /\ watcher' = "dead" /\ inbox' = <<>>
  /\ UNCHANGED <<now, keys, calls, price, todo, posted, failedEvents, events, stale>>

\* get_message.
Receive ==
  /\ watcher = "listening" /\ inbox # <<>>
  /\ price' = Head(inbox) /\ inbox' = Tail(inbox) /\ watcher' = "reading"
  /\ posted' = {} /\ failedEvents' = {}
  /\ UNCHANGED <<now, keys, calls, todo, events, stale>>

Matching == {a \in Unexpired(Stored, now) : Target[a] >= price}

\* The event is dealt with when nothing is left to post.
Dispatch(left) ==
  /\ todo' = left
  /\ watcher' = IF left = {} THEN "listening" ELSE "posting"
  /\ price' = IF left = {} THEN 0 ELSE price

\* getAlertsForSku and the comparison with the targets; an exception costs the event.
ReadAlerts ==
  /\ watcher = "reading"
  /\ \/ Dispatch(Matching) /\ UNCHANGED failedEvents
     \/ "watch" \in Faults /\ Dispatch({}) /\ failedEvents' = {price}
  /\ UNCHANGED <<now, keys, calls, inbox, posted, events, stale>>

\* Mutant: one unreachable callback URL ends the dispatch of the event.
PostOrGiveUp(a) ==
  /\ watcher = "posting" /\ a \in todo
  /\ posted' = posted \cup {<<a, price>>}
  /\ Dispatch(todo \ {a}) \/ Dispatch({})
  /\ UNCHANGED <<now, keys, calls, inbox, failedEvents, events, stale>>

\* _sendSingleWebhook: one attempt, whose outcome is reported and not acted upon.
Post(a) ==
  /\ watcher = "posting" /\ a \in todo
  /\ posted' = posted \cup {<<a, price>>}
  /\ Dispatch(todo \ {a})
  /\ UNCHANGED <<now, keys, calls, inbox, failedEvents, events, stale>>
-----------------------------------------------------------------------------
Tick ==
  /\ now < MaxTime
  /\ now' = now + 1
  /\ UNCHANGED <<keys, calls, watching, events, stale>>

\* The gateway restarts: open calls and the dispatch are gone, Redis is not.
RestartGateway ==
  /\ "crash" \in Faults
  /\ call' = [c \in Calls |-> IF call[c] \in {"read", "write", "index"} THEN "failed"
                              ELSE call[c]]
  /\ began' = [c \in Calls |-> 0] /\ view' = [c \in Calls |-> {}]
  /\ watcher' = "off" /\ inbox' = <<>> /\ price' = 0 /\ todo' = {}
  /\ posted' = {} /\ failedEvents' = {}
  /\ UNCHANGED <<now, keys, events, stale>>

Step(c) == ReadBucket(c) \/ WriteBucket(c) \/ WriteIndex(c)
Watch == SubscribeWatcher \/ Receive \/ ReadAlerts \/ \E a \in Alerts : Post(a)

AlertsNext ==
  \/ \E a \in Alerts : Register(a) \/ Cancel(a)
  \/ \E c \in Calls : Step(c)
  \/ \E p \in Prices : Publish(p)
  \/ Watch \/ LoseConnection
  \/ Tick \/ RestartGateway

AlertsSpec == AlertsInit /\ [][AlertsNext]_alertVars

\* The event loop keeps running the watcher's task; buyers and merchants owe nothing.
AlertsFairSpec == AlertsSpec /\ WF_alertVars(Watch)
-----------------------------------------------------------------------------
Live(a) == a \in Unexpired(Stored, now)
Acknowledged(a) == call[<<"register", a>>] = "done"

\* Every variable stays in its domain, and a dispatch has something to post.
AlertsTypeOK ==
  /\ now \in 1..MaxTime /\ events \in 0..MaxEvents /\ stale \in BOOLEAN
  /\ bucket \subseteq Alerts /\ bucketTill \in Nat /\ lookup \in [Alerts -> Nat]
  /\ call \in [Calls -> {"idle", "read", "write", "index", "done", "missing", "failed"}]
  /\ began \in [Calls -> 0..MaxTime] /\ view \in [Calls -> SUBSET Alerts]
  /\ watcher \in {"off", "dead"} \cup Listening
  /\ inbox \in Seq(Prices) /\ price \in Prices \cup {0}
  /\ todo \subseteq Alerts /\ (todo # {} <=> watcher = "posting")
  /\ posted \subseteq Alerts \X Prices /\ failedEvents \subseteq Prices

\* As long as no call wrote back an outdated list, the 201 is kept: an alert nobody
\* tried to cancel stays readable, and can be cancelled, until it expires, whatever the
\* other alerts of its SKU do to the shared key and its lifetime, and whatever fails or
\* restarts.
AlertStands ==
  \A a \in Alerts :
    ~stale /\ Acknowledged(a) /\ call[<<"cancel", a>>] = "idle" /\ now < Expiry[a]
      => Live(a) /\ now < lookup[a]

\* Likewise the 200 of a cancel: the alert never comes back.
CancelSticks ==
  \A a \in Alerts : ~stale /\ call[<<"cancel", a>>] = "done" => a \notin Stored

\* The event is in the inbox, or it is the one the loop turns to.
Arrived(p) == (\E n \in DOMAIN inbox : inbox[n] = p) \/ (watcher = "reading" /\ price = p)

\* A price that reaches the inbox while a matching alert is stored is announced to
\* that alert, however many other callbacks come first or fail and whatever became of
\* the events before it, unless the alert goes, this event is logged as failed, or the
\* loop ends.
HeardWhenDue ==
  \A a \in Alerts, p \in Prices :
    Live(a) /\ Target[a] >= p /\ Arrived(p)
      ~> <<a, p>> \in posted \/ ~Live(a) \/ p \in failedEvents
           \/ watcher \in {"off", "dead"}
=============================================================================
