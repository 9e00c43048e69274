----------------------------- MODULE Catalog_proofs -----------------------------
(***************************************************************************)
(* Proofs about the two readers of a merchant's catalog events.            *)
(*                                                                         *)
(* PriceAlerts, for all alerts, targets, lifetimes, prices, faults and     *)
(* bounds.  The shared list is written back whole, so what an acknowledged *)
(* call put there is kept by the other calls only as long as each of them  *)
(* writes what it read; the invariant follows one alert, with the two      *)
(* calls that are about it and the lifetime of the shared key.             *)
(*                                                                         *)
(* CatalogPropagation, for all SKUs, fixtures, requests, faults and       *)
(* restarts.  Its invariant follows one SKU that met no hazard, with the   *)
(* request, the events and the part of the hydration that are about it.    *)
(***************************************************************************)
EXTENDS PriceAlerts, CatalogPropagation, FiniteSetTheorems, TLAPS

RegisterOf(a) == <<"register", a>>
CancelOf(a) == <<"cancel", a>>

CallLabels == {"idle", "read", "write", "index", "done", "missing", "failed"}

\* A list is finite, whatever Alerts is, and no call started in the future.
AlertTypes ==
  /\ now \in Nat /\ stale \in BOOLEAN
  /\ bucket \in SUBSET Alerts /\ IsFiniteSet(bucket) /\ bucketTill \in Nat
  /\ lookup \in [Alerts -> Nat]
  /\ call \in [Calls -> CallLabels]
  /\ began \in [Calls -> Nat] /\ view \in [Calls -> SUBSET Alerts]
  /\ \A c \in Calls : began[c] <= now /\ IsFiniteSet(view[c])

\* An alert that was written is in the list, and the list outlives it.
Standing(a) ==
  /\ ~stale /\ call[RegisterOf(a)] \in {"index", "done"} /\ call[CancelOf(a)] = "idle"
  /\ now < Expiry[a]
  => a \in bucket /\ Expiry[a] <= bucketTill

\* The index entry of an acknowledged alert outlives it.
Indexed(a) ==
  call[RegisterOf(a)] = "done" /\ call[CancelOf(a)] = "idle" => Expiry[a] <= lookup[a]

\* A cancelled alert is out of the list from the write on.
Cancelled(a) == ~stale /\ call[CancelOf(a)] \in {"index", "done"} => a \notin Stored

\* Only an alert whose registration was answered can be cancelled.
Ordered(a) == call[CancelOf(a)] # "idle" => call[RegisterOf(a)] = "done"

Holds(a) == Standing(a) /\ Indexed(a) /\ Cancelled(a) /\ Ordered(a)
AlertInv == AlertTypes /\ \A a \in Alerts : Holds(a)
-----------------------------------------------------------------------------
(* The longest life of a list *)

\* A nonempty set of naturals has a least element.
LEMMA LeastNatural ==
  ASSUME NEW S \in SUBSET Nat, S # {}
  PROVE  \E x \in S : \A y \in S : x <= y
  <1> DEFINE R == {ss \in Nat \X Nat : ss[1] < ss[2]}
  <1>1. IsWellFoundedOn(R, Nat)
    BY NatLessThanWellFounded DEF OpToRel
  <1>2. PICK x \in S : \A y \in S : <<y, x>> \notin R
    BY <1>1, WFMin
  <1>3. ASSUME NEW y \in S PROVE x <= y
    <2>1. x \in Nat /\ y \in Nat /\ <<y, x>> \in Nat \X Nat
      OBVIOUS
    <2>2. ~(<<y, x>>[1] < <<y, x>>[2])
      BY <1>2, <2>1
    <2>3. ~(y < x)
      BY <2>2
    <2> QED BY <2>1, <2>3
  <1> QED BY <1>3

HasLongest(list) == \E a \in list : \A b \in list : Expiry[b] <= Expiry[a]

\* Of the alerts of a list one expires last: a smallest list without one would
\* have it once any of its alerts is put aside.
LEMMA SomeLivesLongest ==
  ASSUME NEW list \in SUBSET Alerts, IsFiniteSet(list), list # {}
  PROVE  HasLongest(list)
  <1> DEFINE Sizes == {n \in Nat : \E T \in SUBSET Alerts :
                         /\ IsFiniteSet(T) /\ T # {} /\ Cardinality(T) = n
                         /\ ~HasLongest(T)}
  <1> SUFFICES ASSUME ~HasLongest(list) PROVE FALSE
    OBVIOUS
  <1>1. Sizes \in SUBSET Nat /\ Cardinality(list) \in Sizes
    BY FS_CardinalityType
  <1>2. PICK n \in Sizes : \A m \in Sizes : n <= m
    <2> HIDE DEF Sizes
    <2> QED BY <1>1, LeastNatural
  <1>3. PICK T \in SUBSET Alerts : /\ IsFiniteSet(T) /\ T # {} /\ Cardinality(T) = n
                                   /\ ~HasLongest(T)
    BY <1>2
  <1>4. PICK x \in T : TRUE
    BY <1>3
  <1>5. PICK U : U = T \ {x}
    OBVIOUS
  <1>6. /\ U \in SUBSET Alerts /\ IsFiniteSet(U) /\ Cardinality(U) = n - 1 /\ n \in Nat
        /\ Cardinality(U) \in Nat
    BY <1>2, <1>3, <1>4, <1>5, FS_RemoveElement, FS_CardinalityType
  <1>7. Expiry[x] \in Nat
    BY <1>3, <1>4, AlertAssumption
  <1>8. CASE U = {}
    <2>1. T = {x}
      BY <1>4, <1>5, <1>8
    <2> QED BY <1>3, <1>7, <2>1 DEF HasLongest
  <1>9. CASE U # {}
    <2>1. HasLongest(U)
      <3>1. ~HasLongest(U) => n - 1 \in Sizes
        BY <1>6, <1>9
      <3>2. n - 1 \notin Sizes
        <4>1. ~(n <= n - 1)
          BY <1>6
        <4> QED BY <1>2, <4>1
      <3> QED BY <3>1, <3>2
    <2>2. PICK m \in U : \A b \in U : Expiry[b] <= Expiry[m]
      BY <2>1 DEF HasLongest
    <2>3. m \in T /\ Expiry[m] \in Nat
      BY <1>5, <1>6, <2>2, AlertAssumption
    <2>4. CASE Expiry[m] <= Expiry[x]
      <3>1. \A b \in T : Expiry[b] <= Expiry[x]
        <4>1. ASSUME NEW b \in T PROVE Expiry[b] <= Expiry[x]
          <5>1. CASE b = x
            BY <1>7, <5>1
          <5>2. CASE b # x
            <6>1. b \in U /\ Expiry[b] \in Nat
              BY <1>3, <1>5, <5>2, AlertAssumption
            <6> QED BY <1>7, <2>2, <2>3, <2>4, <6>1
          <5> QED BY <5>1, <5>2
        <4> QED BY <4>1
      <3> QED BY <1>3, <1>4, <3>1 DEF HasLongest
    <2>5. CASE ~(Expiry[m] <= Expiry[x])
      <3>1. \A b \in T : Expiry[b] <= Expiry[m]
        BY <1>5, <1>7, <2>2, <2>3, <2>5
      <3> QED BY <1>3, <2>3, <3>1 DEF HasLongest
    <2> QED BY <2>4, <2>5
  <1> QED BY <1>8, <1>9

\* The greater of one and a difference.
LEMMA AtLeastOne ==
  ASSUME NEW d \in Int, NEW m, m = Max({1, d})
  PROVE  m \in Nat /\ m >= d
  <1> DEFINE S == {1, d}
  <1>1. \E e \in S : \A f \in S : e >= f
    <2>1. CASE d >= 1
      BY <2>1
    <2>2. CASE ~(d >= 1)
      BY <2>2
    <2> QED BY <2>1, <2>2
  <1>2. m \in S /\ \A f \in S : m >= f
    <2> HIDE DEF S
    <2>1. m = CHOOSE x \in S : \A y \in S : x >= y
      BY DEF Max, S
    <2> QED BY <1>1, <2>1
  <1> QED BY <1>2

\* The life given to a list is a natural number and long enough for each alert.
LEMMA LifeCovers ==
  ASSUME NEW list \in SUBSET Alerts, IsFiniteSet(list), list # {}, NEW t \in Nat
  PROVE  /\ LongestLife(list, t) \in Nat
         /\ \A a \in list : Expiry[a] - t <= LongestLife(list, t)
  <1> DEFINE ends == {Expiry[a] : a \in list}
             latest == Max(ends)
             life == Max({1, latest - t})
  <1>1. PICK a \in list : \A b \in list : Expiry[b] <= Expiry[a]
    BY SomeLivesLongest DEF HasLongest
  <1>2. \A b \in list : Expiry[b] \in Nat
    BY AlertAssumption
  <1>3. \E e \in ends : \A f \in ends : e >= f
    BY <1>1, <1>2
  <1>4. latest \in ends /\ \A f \in ends : latest >= f
    <2> HIDE DEF ends
    <2> QED BY <1>3 DEF Max
  <1>5. latest \in Nat /\ \A b \in list : Expiry[b] <= latest
    BY <1>2, <1>4
  <1> HIDE DEF latest
  <1>6. life \in Nat /\ life >= latest - t
    BY <1>5, AtLeastOne
  <1>7. LongestLife(list, t) = life
    BY DEF LongestLife, latest
  <1> HIDE DEF life
  <1>8. ASSUME NEW b \in list PROVE Expiry[b] - t <= life
    BY <1>2, <1>5, <1>6
  <1> QED BY <1>6, <1>7, <1>8
-----------------------------------------------------------------------------
(* The calls *)

LEMMA CallsOfAlert ==
  ASSUME NEW a \in Alerts
  PROVE  /\ RegisterOf(a) \in Calls /\ CancelOf(a) \in Calls
         /\ RegisterOf(a) # CancelOf(a)
         /\ \A c \in Calls : c = RegisterOf(a) \/ c = CancelOf(a) \/ c[2] # a
         /\ RegisterOf(a)[1] = "register" /\ RegisterOf(a)[2] = a
         /\ CancelOf(a)[1] = "cancel" /\ CancelOf(a)[2] = a
  BY DEF RegisterOf, CancelOf, Calls

\* What a call writes back, when it read what is stored: its own alert in or out,
\* every other that has not expired, and a lifetime that covers them all.
LEMMA RewriteKeeps ==
  ASSUME AlertTypes, NEW c \in Calls, Rewrite(c), now' = now
  PROVE  /\ bucket' \in SUBSET Alerts /\ IsFiniteSet(bucket') /\ bucketTill' \in Nat
         /\ stale' \in BOOLEAN
         /\ \A a \in bucket' : Expiry[a] <= bucketTill'
         /\ c[1] = "register" => c[2] \in bucket'
         /\ c[1] = "cancel" => c[2] \notin bucket'
         /\ ~stale' => /\ ~stale
                       /\ \A a \in Alerts : c[2] # a =>
                            /\ a \in Stored /\ now < Expiry[a] => a \in bucket'
                            /\ a \notin Stored => a \notin bucket'
  <1>1. /\ now \in Nat /\ stale \in BOOLEAN /\ began[c] \in Nat /\ began[c] <= now
        /\ view[c] \in SUBSET Alerts /\ IsFiniteSet(view[c])
    BY DEF AlertTypes
  <1>2. c[2] \in Alerts /\ c[1] \in {"register", "cancel"}
    BY DEF Calls
  <1>3. PICK list : list = Kept(c) /\ bucket' = list
    BY DEF Rewrite
  <1>4. /\ list = IF c[1] = "register" THEN Unexpired(view[c], began[c]) \cup {c[2]}
                  ELSE Unexpired(view[c], began[c]) \ {c[2]}
        /\ Unexpired(view[c], began[c]) = {a \in view[c] : Expiry[a] > began[c]}
    BY <1>3 DEF Kept, Unexpired
  <1>5. list \in SUBSET Alerts /\ list \subseteq view[c] \cup {c[2]}
    BY <1>1, <1>2, <1>4
  <1>6. IsFiniteSet(list)
    <2>1. IsFiniteSet(view[c] \cup {c[2]})
      BY <1>1, FS_AddElement
    <2> QED BY <1>5, <2>1, FS_Subset
  <1>7. bucketTill' \in Nat /\ \A a \in list : Expiry[a] <= bucketTill'
    <2>1. CASE list = {}
      BY <1>3, <2>1 DEF Rewrite
    <2>2. CASE list # {}
      <3>1. PICK life : life = LongestLife(list, began[c])
        OBVIOUS
      <3>2. bucketTill' = now + life
        BY <1>3, <2>2, <3>1 DEF Rewrite
      <3>3. life \in Nat /\ \A a \in list : Expiry[a] - began[c] <= life
        BY <1>1, <1>5, <1>6, <2>2, <3>1, LifeCovers
      <3>4. ASSUME NEW a \in list PROVE Expiry[a] <= bucketTill'
        <4>1. Expiry[a] \in Nat /\ Expiry[a] - began[c] <= life
          BY <1>5, <3>3, AlertAssumption
        <4> QED BY <1>1, <3>2, <3>3, <4>1
      <3> QED BY <1>1, <3>2, <3>3, <3>4
    <2> QED BY <2>1, <2>2
  <1>8. stale' = (stale \/ Stored # view[c])
    BY DEF Rewrite
  <1>9. ASSUME NEW a \in Alerts, ~stale', c[2] # a
        PROVE  /\ a \in Stored /\ now < Expiry[a] => a \in list
               /\ a \notin Stored => a \notin list
    <2>1. view[c] = Stored
      BY <1>8, <1>9
    <2>2. Expiry[a] \in Nat
      BY AlertAssumption
    <2>3. now < Expiry[a] => Expiry[a] > began[c]
      BY <1>1, <2>2
    <2> QED BY <1>4, <1>9, <2>1, <2>3
  <1>10. c[1] = "register" => c[2] \in list
    BY <1>4
  <1>11. c[1] = "cancel" => c[2] \notin list
    BY <1>4
  <1> QED BY <1>1, <1>3, <1>5, <1>6, <1>7, <1>8, <1>9, <1>10, <1>11

\* Nothing in the list was stored, or all of it was.
LEMMA StoredIsBucket ==
  ASSUME AlertTypes
  PROVE  /\ Stored \in SUBSET bucket /\ IsFiniteSet(Stored)
         /\ \A a \in Alerts : Expiry[a] <= bucketTill /\ now < Expiry[a] => Stored = bucket
  <1>1. ASSUME NEW a \in Alerts, Expiry[a] <= bucketTill, now < Expiry[a]
        PROVE  now < bucketTill
    BY <1>1, AlertAssumption DEF AlertTypes
  <1> QED BY <1>1, FS_EmptySet DEF Stored, AlertTypes

\* A call steps alone.
LEMMA OneCallMoves ==
  ASSUME AlertTypes, NEW c \in Calls, NEW l, Goto(c, l)
  PROVE  call'[c] = l /\ \A d \in Calls : d # c => call'[d] = call[d]
  BY DEF AlertTypes, Goto
-----------------------------------------------------------------------------
(* The steps *)

\* What neither touches a call nor Redis is no concern of an alert.
LEMMA HoldsStays ==
  ASSUME AlertInv, UNCHANGED <<now, call, began, view, bucket, bucketTill, lookup, stale>>
  PROVE  AlertInv'
  BY DEF AlertInv, AlertTypes, Holds, Standing, Indexed, Cancelled, Ordered, Stored

LEMMA TickKeeps ==
  ASSUME AlertInv, Tick
  PROVE  AlertInv'
  <1>1. /\ now' = now + 1 /\ now \in Nat
        /\ UNCHANGED <<call, began, view, bucket, bucketTill, lookup, stale>>
    BY DEF Tick, keys, calls, AlertInv, AlertTypes
  <1>2. AlertTypes'
    <2>1. ASSUME NEW c \in Calls PROVE began[c] <= now'
      BY <1>1 DEF AlertInv, AlertTypes
    <2> QED BY <1>1, <2>1 DEF AlertInv, AlertTypes
  <1>3. ASSUME NEW a \in Alerts PROVE Holds(a)'
    <2>1. Holds(a) /\ Expiry[a] \in Nat
      BY AlertAssumption DEF AlertInv
    <2>2. now' < Expiry[a] => now < Expiry[a]
      BY <1>1, <2>1
    <2>3. Stored' \subseteq Stored
      BY <1>1 DEF Stored, AlertInv, AlertTypes
    <2> QED BY <1>1, <2>1, <2>2, <2>3 DEF Holds, Standing, Indexed, Cancelled, Ordered
  <1> QED BY <1>2, <1>3 DEF AlertInv

\* A restart fails the open calls and leaves Redis alone.
LEMMA RestartKeeps ==
  ASSUME AlertInv, RestartGateway
  PROVE  AlertInv'
  <1>1. /\ call' = [c \in Calls |-> IF call[c] \in {"read", "write", "index"} THEN "failed"
                                    ELSE call[c]]
        /\ began' = [c \in Calls |-> 0] /\ view' = [c \in Calls |-> {}]
        /\ UNCHANGED <<now, bucket, bucketTill, lookup, stale>>
    BY DEF RestartGateway, keys
  <1>2. AlertTypes'
    BY <1>1, FS_EmptySet DEF AlertInv, AlertTypes, CallLabels
  <1>3. ASSUME NEW a \in Alerts PROVE Holds(a)'
    <2>1. Holds(a) /\ Stored' = Stored
      BY <1>1 DEF AlertInv, Stored
    <2>2. ASSUME NEW c \in Calls
          PROVE  /\ call'[c] = "done" <=> call[c] = "done"
                 /\ call'[c] = "idle" <=> call[c] = "idle"
                 /\ call'[c] # "index"
      BY <1>1
    <2> QED BY <1>1, <2>1, <2>2, CallsOfAlert
            DEF Holds, Standing, Indexed, Cancelled, Ordered
  <1> QED BY <1>2, <1>3 DEF AlertInv

LEMMA RegisterKeeps ==
  ASSUME AlertInv, NEW b \in Alerts, Register(b)
  PROVE  AlertInv'
  <1>1. PICK c \in Calls : c = RegisterOf(b)
    BY CallsOfAlert
  <1>2. /\ call[c] = "idle" /\ Goto(c, "read") /\ began' = [began EXCEPT ![c] = now]
        /\ UNCHANGED <<now, bucket, bucketTill, lookup, view, stale>>
    BY <1>1 DEF Register, RegisterOf, keys
  <1>3. call'[c] = "read" /\ \A d \in Calls : d # c => call'[d] = call[d]
    BY <1>2, OneCallMoves DEF AlertInv
  <1>4. AlertTypes'
    BY <1>2 DEF AlertInv, AlertTypes, Goto, CallLabels
  <1>5. ASSUME NEW a \in Alerts PROVE Holds(a)'
    <2>1. Holds(a) /\ Stored' = Stored
      BY <1>2 DEF AlertInv, Stored
    <2>2. /\ CancelOf(a) # c /\ CancelOf(a) \in Calls /\ RegisterOf(a) \in Calls
      BY <1>1, CallsOfAlert DEF RegisterOf, CancelOf
    <2>3. call'[CancelOf(a)] = call[CancelOf(a)]
      BY <1>3, <2>2
    <2>4. CASE c = RegisterOf(a)
      BY <1>2, <1>3, <2>1, <2>3, <2>4 DEF Holds, Standing, Indexed, Cancelled, Ordered
    <2>5. CASE c # RegisterOf(a)
      <3>1. call'[RegisterOf(a)] = call[RegisterOf(a)]
        BY <1>3, <2>2, <2>5
      <3> QED BY <1>2, <2>1, <2>3, <3>1 DEF Holds, Standing, Indexed, Cancelled, Ordered
    <2> QED BY <2>4, <2>5
  <1> QED BY <1>4, <1>5 DEF AlertInv

LEMMA CancelKeeps ==
  ASSUME AlertInv, NEW b \in Alerts, Cancel(b)
  PROVE  AlertInv'
  <1>1. PICK c \in Calls : c = CancelOf(b)
    BY CallsOfAlert
  <1>2. PICK l \in {"read", "missing"} : Goto(c, l)
    BY <1>1 DEF Cancel, CancelOf
  <1>3. /\ call[RegisterOf(b)] = "done" /\ call[c] \in {"idle", "failed"}
        /\ began' = [began EXCEPT ![c] = now] \/ UNCHANGED began
        /\ UNCHANGED <<now, bucket, bucketTill, lookup, view, stale>>
    BY <1>1 DEF Cancel, RegisterOf, CancelOf, keys
  <1>4. call'[c] = l /\ \A d \in Calls : d # c => call'[d] = call[d]
    BY <1>2, OneCallMoves DEF AlertInv
  <1>5. AlertTypes'
    BY <1>2, <1>3 DEF AlertInv, AlertTypes, Goto, CallLabels
  <1>6. ASSUME NEW a \in Alerts PROVE Holds(a)'
    <2>1. Holds(a) /\ Stored' = Stored
      BY <1>3 DEF AlertInv, Stored
    <2>2. /\ RegisterOf(a) # c /\ CancelOf(a) \in Calls /\ RegisterOf(a) \in Calls
      BY <1>1, CallsOfAlert DEF RegisterOf, CancelOf
    <2>3. call'[RegisterOf(a)] = call[RegisterOf(a)]
      BY <1>4, <2>2
    <2>4. CASE c = CancelOf(a)
      <3>1. a = b
        BY <1>1, <2>4 DEF CancelOf
      <3>2. call'[CancelOf(a)] \in {"read", "missing"}
        BY <1>4, <2>4
      <3> QED BY <1>3, <2>3, <3>1, <3>2 DEF Holds, Standing, Indexed, Cancelled, Ordered
    <2>5. CASE c # CancelOf(a)
      <3>1. call'[CancelOf(a)] = call[CancelOf(a)]
        BY <1>4, <2>2, <2>5
      <3> QED BY <1>3, <2>1, <2>3, <3>1 DEF Holds, Standing, Indexed, Cancelled, Ordered
    <2> QED BY <2>4, <2>5
  <1> QED BY <1>5, <1>6 DEF AlertInv

\* The end of a call: it keeps no time and no list.
LEMMA EndingTypes ==
  ASSUME AlertTypes, NEW c \in Calls, NEW l \in CallLabels, End(c, l)
  PROVE  /\ call' \in [Calls -> CallLabels]
         /\ began' \in [Calls -> Nat] /\ view' \in [Calls -> SUBSET Alerts]
         /\ \A d \in Calls : began'[d] <= now /\ IsFiniteSet(view'[d])
         /\ Goto(c, l)
  <1>1. /\ call' = [call EXCEPT ![c] = l] /\ began' = [began EXCEPT ![c] = 0]
        /\ view' = [view EXCEPT ![c] = {}]
    BY DEF End, Goto
  <1>2. ASSUME NEW d \in Calls PROVE began'[d] <= now /\ IsFiniteSet(view'[d])
    <2>1. CASE d = c
      BY <1>1, <2>1, FS_EmptySet DEF AlertTypes
    <2>2. CASE d # c
      BY <1>1, <2>2 DEF AlertTypes
    <2> QED BY <2>1, <2>2
  <1> QED BY <1>1, <1>2 DEF AlertTypes, Goto

LEMMA ReadBucketKeeps ==
  ASSUME AlertInv, NEW c \in Calls, ReadBucket(c)
  PROVE  AlertInv'
  <1>1. /\ call[c] = "read"
        /\ UNCHANGED <<now, bucket, bucketTill, lookup, stale>>
    BY DEF ReadBucket, keys
  <1>2. PICK l : /\ l \in {"index", "write", "failed"} /\ Goto(c, l)
                 /\ l = "index" => c[1] = "cancel" /\ Stored = {}
                 /\ \/ view' = [view EXCEPT ![c] = Stored] /\ UNCHANGED began
                    \/ End(c, l)
    <2>1. CASE Fail(c)
      BY <2>1 DEF Fail, End
    <2>2. CASE /\ view' = [view EXCEPT ![c] = Stored]
               /\ Goto(c, IF c[1] = "cancel" /\ Stored = {} THEN "index" ELSE "write")
               /\ UNCHANGED began
      BY <2>2
    <2> QED BY <2>1, <2>2 DEF ReadBucket
  <1>3. call'[c] = l /\ \A d \in Calls : d # c => call'[d] = call[d]
    BY <1>2, OneCallMoves DEF AlertInv
  <1>4. AlertTypes'
    <2>1. CASE view' = [view EXCEPT ![c] = Stored] /\ UNCHANGED began
      <3>1. Stored \in SUBSET Alerts /\ IsFiniteSet(Stored)
        BY StoredIsBucket DEF AlertInv, AlertTypes
      <3>2. ASSUME NEW d \in Calls PROVE began'[d] <= now /\ IsFiniteSet(view'[d])
        <4>1. view'[d] = IF d = c THEN Stored ELSE view[d]
          BY <2>1 DEF AlertInv, AlertTypes
        <4> QED BY <2>1, <3>1, <4>1 DEF AlertInv, AlertTypes
      <3>3. call' \in [Calls -> CallLabels] /\ view' \in [Calls -> SUBSET Alerts]
        BY <1>2, <2>1, <3>1 DEF AlertInv, AlertTypes, Goto, CallLabels
      <3> QED BY <1>1, <2>1, <3>2, <3>3 DEF AlertInv, AlertTypes
    <2>2. CASE End(c, l)
      BY <1>1, <1>2, <2>2, EndingTypes DEF AlertInv, AlertTypes, CallLabels
    <2> QED BY <1>2, <2>1, <2>2
  <1>5. ASSUME NEW a \in Alerts PROVE Holds(a)'
    <2>1. Holds(a) /\ Stored' = Stored
      BY <1>1 DEF AlertInv, Stored
    <2>2. /\ RegisterOf(a) \in Calls /\ CancelOf(a) \in Calls /\ RegisterOf(a) # CancelOf(a)
          /\ RegisterOf(a)[1] = "register"
      BY CallsOfAlert
    <2>3. CASE c = RegisterOf(a)
      <3>1. call'[CancelOf(a)] = call[CancelOf(a)] /\ call'[c] \in {"write", "failed"}
        BY <1>2, <1>3, <2>2, <2>3
      <3> QED BY <1>1, <2>1, <2>3, <3>1 DEF Holds, Standing, Indexed, Cancelled, Ordered
    <2>4. CASE c = CancelOf(a)
      <3>1. /\ call'[RegisterOf(a)] = call[RegisterOf(a)] /\ call'[CancelOf(a)] = l
            /\ call[CancelOf(a)] = "read"
        BY <1>1, <1>3, <2>2, <2>4
      <3>2. l # "idle" /\ l # "done" /\ (l = "index" => a \notin Stored)
        BY <1>2
      <3> QED BY <1>1, <2>1, <3>1, <3>2 DEF Holds, Standing, Indexed, Cancelled, Ordered
    <2>5. CASE c # RegisterOf(a) /\ c # CancelOf(a)
      <3>1. /\ call'[RegisterOf(a)] = call[RegisterOf(a)]
            /\ call'[CancelOf(a)] = call[CancelOf(a)]
        BY <1>3, <2>2, <2>5
      <3> QED BY <1>1, <2>1, <3>1 DEF Holds, Standing, Indexed, Cancelled, Ordered
    <2> QED BY <2>3, <2>4, <2>5
  <1> QED BY <1>4, <1>5 DEF AlertInv

\* The write of a list: whichever call it is, the alert that is followed is in or out
\* of the list as its own calls left it.
LEMMA WriteBucketKeeps ==
  ASSUME AlertInv, NEW c \in Calls, WriteBucket(c)
  PROVE  AlertInv'
  <1>1. call[c] = "write" /\ UNCHANGED <<now, lookup>>
    BY DEF WriteBucket
  <1>2. PICK l : /\ l \in {"index", "failed"} /\ Goto(c, l)
                 /\ (l = "index" /\ UNCHANGED <<began, view>>) \/ End(c, l)
                 /\ \/ Rewrite(c)
                    \/ l = "failed" /\ UNCHANGED <<bucket, bucketTill, stale>>
    <2>1. CASE Rewrite(c) /\ Goto(c, "index") /\ UNCHANGED <<began, view>>
      BY <2>1
    <2>2. CASE Fail(c) /\ (Rewrite(c) \/ UNCHANGED <<bucket, bucketTill, stale>>)
      BY <2>2 DEF Fail, End
    <2> QED BY <2>1, <2>2 DEF WriteBucket
  <1>3. call'[c] = l /\ \A d \in Calls : d # c => call'[d] = call[d]
    BY <1>2, OneCallMoves DEF AlertInv
  <1>4. /\ call' \in [Calls -> CallLabels]
        /\ began' \in [Calls -> Nat] /\ view' \in [Calls -> SUBSET Alerts]
        /\ \A d \in Calls : began'[d] <= now /\ IsFiniteSet(view'[d])
    <2>1. CASE UNCHANGED <<began, view>>
      BY <1>2, <2>1 DEF AlertInv, AlertTypes, Goto, CallLabels
    <2>2. CASE End(c, l)
      BY <1>2, <2>2, EndingTypes DEF AlertInv, CallLabels
    <2> QED BY <1>2, <2>1, <2>2
  <1>5. CASE l = "failed" /\ UNCHANGED <<bucket, bucketTill, stale>>
    <2>1. AlertTypes'
      BY <1>1, <1>4, <1>5 DEF AlertInv, AlertTypes
    <2>2. ASSUME NEW a \in Alerts PROVE Holds(a)'
      <3>1. Holds(a) /\ Stored' = Stored
        BY <1>1, <1>5 DEF AlertInv, Stored
      <3>2. RegisterOf(a) \in Calls /\ CancelOf(a) \in Calls
        BY CallsOfAlert
      <3>3. /\ call'[RegisterOf(a)] \in {call[RegisterOf(a)], "failed"}
            /\ call'[CancelOf(a)] \in {call[CancelOf(a)], "failed"}
            /\ call[RegisterOf(a)] = "done" => call'[RegisterOf(a)] = "done"
            /\ call'[CancelOf(a)] = "failed" => call[CancelOf(a)] # "idle"
        <4>1. ASSUME NEW d \in Calls
              PROVE  /\ call'[d] \in {call[d], "failed"}
                     /\ call[d] = "done" => call'[d] = "done"
                     /\ call[d] = "idle" => call'[d] = "idle"
          BY <1>1, <1>3, <1>5
        <4> QED BY <3>2, <4>1
      <3> QED BY <1>1, <1>5, <3>1, <3>3 DEF Holds, Standing, Indexed, Cancelled, Ordered
    <2> QED BY <2>1, <2>2 DEF AlertInv
  <1>6. CASE Rewrite(c)
    <2>1. /\ bucket' \in SUBSET Alerts /\ IsFiniteSet(bucket') /\ bucketTill' \in Nat
          /\ stale' \in BOOLEAN
          /\ \A a \in bucket' : Expiry[a] <= bucketTill'
          /\ c[1] = "register" => c[2] \in bucket'
          /\ c[1] = "cancel" => c[2] \notin bucket'
          /\ ~stale' => /\ ~stale
                        /\ \A a \in Alerts : c[2] # a =>
                             /\ a \in Stored /\ now < Expiry[a] => a \in bucket'
                             /\ a \notin Stored => a \notin bucket'
      BY <1>1, <1>6, RewriteKeeps DEF AlertInv
    <2>2. AlertTypes'
      BY <1>1, <1>4, <2>1 DEF AlertInv, AlertTypes
    <2>3. Stored' \subseteq bucket'
      BY DEF Stored
    <2>4. ASSUME NEW a \in Alerts PROVE Holds(a)'
      <3>1. Holds(a)
        BY DEF AlertInv
      <3>2. /\ RegisterOf(a) \in Calls /\ CancelOf(a) \in Calls
            /\ RegisterOf(a) # CancelOf(a)
            /\ RegisterOf(a)[1] = "register" /\ RegisterOf(a)[2] = a
            /\ CancelOf(a)[1] = "cancel" /\ CancelOf(a)[2] = a
        BY CallsOfAlert
      <3>3. CASE c = RegisterOf(a)
        <4>1. /\ call'[CancelOf(a)] = call[CancelOf(a)] /\ call[RegisterOf(a)] = "write"
              /\ call'[RegisterOf(a)] \in {"index", "failed"}
          BY <1>1, <1>2, <1>3, <3>2, <3>3
        <4>2. call[CancelOf(a)] = "idle"
          BY <3>1, <4>1 DEF Holds, Ordered
        <4>3. a \in bucket' /\ Expiry[a] <= bucketTill'
          BY <2>1, <3>2, <3>3
        <4> QED BY <4>1, <4>2, <4>3 DEF Holds, Standing, Indexed, Cancelled, Ordered
      <3>4. CASE c = CancelOf(a)
        <4>1. /\ call'[RegisterOf(a)] = call[RegisterOf(a)] /\ call[CancelOf(a)] = "write"
              /\ call'[CancelOf(a)] \in {"index", "failed"}
          BY <1>1, <1>2, <1>3, <3>2, <3>4
        <4>2. a \notin Stored'
          BY <2>1, <2>3, <3>2, <3>4
        <4> QED BY <3>1, <4>1, <4>2 DEF Holds, Standing, Indexed, Cancelled, Ordered
      <3>5. CASE c # RegisterOf(a) /\ c # CancelOf(a)
        <4>1. /\ call'[RegisterOf(a)] = call[RegisterOf(a)]
              /\ call'[CancelOf(a)] = call[CancelOf(a)]
          BY <1>3, <3>2, <3>5
        <4>2. c[2] # a
          BY <3>5, CallsOfAlert
        <4>3. Indexed(a)' /\ Ordered(a)'
          BY <1>1, <3>1, <4>1 DEF Holds, Indexed, Ordered
        <4>4. Standing(a)'
          <5> SUFFICES ASSUME ~stale', call[RegisterOf(a)] \in {"index", "done"},
                              call[CancelOf(a)] = "idle", now < Expiry[a]
                       PROVE  a \in bucket' /\ Expiry[a] <= bucketTill'
            BY <1>1, <4>1 DEF Standing
          <5>1. a \in bucket /\ Expiry[a] <= bucketTill
            BY <2>1, <3>1 DEF Holds, Standing
          <5>2. a \in Stored
            BY <5>1, StoredIsBucket DEF AlertInv
          <5> QED BY <2>1, <4>2, <5>2
        <4>5. Cancelled(a)'
          <5> SUFFICES ASSUME ~stale', call[CancelOf(a)] \in {"index", "done"}
                       PROVE  a \notin Stored'
            BY <4>1 DEF Cancelled
          <5>1. a \notin Stored
            BY <2>1, <3>1 DEF Holds, Cancelled
          <5> QED BY <2>1, <2>3, <4>2, <5>1
        <4> QED BY <4>3, <4>4, <4>5 DEF Holds
      <3> QED BY <3>3, <3>4, <3>5
    <2> QED BY <2>2, <2>4 DEF AlertInv
  <1> QED BY <1>2, <1>5, <1>6

LEMMA WriteIndexKeeps ==
  ASSUME AlertInv, NEW c \in Calls, WriteIndex(c)
  PROVE  AlertInv'
  <1>1. call[c] = "index" /\ UNCHANGED <<now, bucket, bucketTill, stale>>
    BY DEF WriteIndex
  <1>2. c[2] \in Alerts /\ c[1] \in {"register", "cancel"}
    BY DEF Calls
  <1>3. PICK until \in Nat : /\ until = IndexedUntil(c)
                             /\ c[1] = "register" => Expiry[c[2]] <= until
    <2>1. CASE c[1] = "register"
      <3>1. PICK m : m = Max({1, Expiry[c[2]] - began[c]})
        OBVIOUS
      <3>2. /\ now \in Nat /\ began[c] \in Nat /\ began[c] <= now /\ Expiry[c[2]] \in Nat
        BY <1>2, AlertAssumption DEF AlertInv, AlertTypes
      <3>3. m \in Nat /\ m >= Expiry[c[2]] - began[c]
        BY <3>1, <3>2, AtLeastOne
      <3>4. IndexedUntil(c) = now + m
        BY <2>1, <3>1 DEF IndexedUntil
      <3> QED BY <3>2, <3>3, <3>4
    <2>2. CASE c[1] # "register"
      BY <2>2 DEF IndexedUntil
    <2> QED BY <2>1, <2>2
  <1>4. PICK l : /\ l \in {"done", "failed"} /\ End(c, l)
                 /\ lookup' = lookup \/ lookup' = [lookup EXCEPT ![c[2]] = until]
                 /\ l = "done" => lookup' = [lookup EXCEPT ![c[2]] = until]
    BY <1>3 DEF WriteIndex, Fail
  <1>5. call'[c] = l /\ \A d \in Calls : d # c => call'[d] = call[d]
    BY <1>4, OneCallMoves DEF AlertInv, End
  <1>6. AlertTypes'
    <2>1. lookup' \in [Alerts -> Nat]
      BY <1>3, <1>4 DEF AlertInv, AlertTypes
    <2> QED BY <1>1, <1>4, <2>1, EndingTypes DEF AlertInv, AlertTypes, CallLabels
  <1>7. ASSUME NEW a \in Alerts PROVE Holds(a)'
    <2>1. Holds(a) /\ Stored' = Stored
      BY <1>1 DEF AlertInv, Stored
    <2>2. /\ RegisterOf(a) \in Calls /\ CancelOf(a) \in Calls /\ RegisterOf(a) # CancelOf(a)
          /\ RegisterOf(a)[1] = "register" /\ RegisterOf(a)[2] = a
      BY CallsOfAlert
    <2>3. CASE c = RegisterOf(a)
      <3>1. /\ call'[CancelOf(a)] = call[CancelOf(a)] /\ call[RegisterOf(a)] = "index"
            /\ call'[RegisterOf(a)] = l
        BY <1>1, <1>5, <2>2, <2>3
      <3>2. l = "done" => Expiry[a] <= lookup'[a]
        BY <1>3, <1>4, <2>2, <2>3 DEF AlertInv, AlertTypes
      <3> QED BY <1>1, <1>4, <2>1, <3>1, <3>2
              DEF Holds, Standing, Indexed, Cancelled, Ordered
    <2>4. CASE c = CancelOf(a)
      <3>1. /\ call'[RegisterOf(a)] = call[RegisterOf(a)] /\ call[CancelOf(a)] = "index"
            /\ call'[CancelOf(a)] \in {"done", "failed"}
        BY <1>1, <1>4, <1>5, <2>2, <2>4
      <3> QED BY <1>1, <2>1, <3>1 DEF Holds, Standing, Indexed, Cancelled, Ordered
    <2>5. CASE c # RegisterOf(a) /\ c # CancelOf(a)
      <3>1. /\ call'[RegisterOf(a)] = call[RegisterOf(a)]
            /\ call'[CancelOf(a)] = call[CancelOf(a)]
        BY <1>5, <2>2, <2>5
      <3>2. c[2] # a
        BY <2>5, CallsOfAlert
      <3>3. lookup'[a] = lookup[a]
        BY <1>4, <3>2 DEF AlertInv, AlertTypes
      <3> QED BY <1>1, <2>1, <3>1, <3>3 DEF Holds, Standing, Indexed, Cancelled, Ordered
    <2> QED BY <2>3, <2>4, <2>5
  <1> QED BY <1>6, <1>7 DEF AlertInv
-----------------------------------------------------------------------------
(* The invariant and the two promises *)

\* An alert, the two calls about it and the shared key stay consistent, whatever the
\* other alerts' calls do and whatever fails, for all instances.
THEOREM AlertInvariant == AlertsSpec => []AlertInv
  <1>1. AlertsInit => AlertInv
    <2> SUFFICES ASSUME AlertsInit PROVE AlertInv
      OBVIOUS
    <2>1. AlertTypes
      <3>1. ASSUME NEW c \in Calls PROVE began[c] <= now /\ IsFiniteSet(view[c])
        <4>1. began[c] = 0 /\ now = 1 /\ view[c] = {}
          BY DEF AlertsInit
        <4> QED BY <4>1, FS_EmptySet
      <3>2. /\ call \in [Calls -> CallLabels] /\ began \in [Calls -> Nat]
            /\ view \in [Calls -> SUBSET Alerts] /\ lookup \in [Alerts -> Nat]
        BY DEF AlertsInit, CallLabels
      <3> QED BY <3>1, <3>2, FS_EmptySet DEF AlertsInit, AlertTypes
    <2>2. ASSUME NEW a \in Alerts PROVE Holds(a)
      BY CallsOfAlert DEF AlertsInit, Holds, Standing, Indexed, Cancelled, Ordered
    <2> QED BY <2>1, <2>2 DEF AlertInv
  <1>2. AlertInv /\ [AlertsNext]_alertVars => AlertInv'
    <2> SUFFICES ASSUME AlertInv, [AlertsNext]_alertVars PROVE AlertInv'
      OBVIOUS
    <2>1. ASSUME NEW a \in Alerts, Register(a) \/ Cancel(a) PROVE AlertInv'
      BY <2>1, RegisterKeeps, CancelKeeps
    <2>2. ASSUME NEW c \in Calls, Step(c) PROVE AlertInv'
      BY <2>2, ReadBucketKeeps, WriteBucketKeeps, WriteIndexKeeps DEF Step
    <2>3. ASSUME NEW p, Publish(p) PROVE AlertInv'
      BY <2>3, HoldsStays DEF Publish, keys, calls
    <2>4. CASE Watch
      BY <2>4, HoldsStays DEF Watch, SubscribeWatcher, Receive, ReadAlerts, Post, keys, calls
    <2>5. CASE LoseConnection
      BY <2>5, HoldsStays DEF LoseConnection, keys, calls
    <2>6. CASE UNCHANGED alertVars
      BY <2>6, HoldsStays DEF alertVars, keys, calls
    <2> QED BY <2>1, <2>2, <2>3, <2>4, <2>5, <2>6, TickKeeps, RestartKeeps DEF AlertsNext
  <1> QED BY <1>1, <1>2, PTL DEF AlertsSpec

\* The 201 of a registration is kept for all alerts, lifetimes and faults as long as
\* no call wrote back an outdated list: the alert is readable and can be cancelled
\* until it expires (priceDropAlertManager's read and write-back of the shared list).
THEOREM AlertsStand == AlertsSpec => []AlertStands
  <1>1. AlertInv => AlertStands
    <2> SUFFICES ASSUME AlertInv, NEW a \in Alerts, ~stale, call[RegisterOf(a)] = "done",
                        call[CancelOf(a)] = "idle", now < Expiry[a]
                 PROVE  Live(a) /\ now < lookup[a]
      BY DEF AlertStands, Acknowledged, RegisterOf, CancelOf
    <2>1. /\ a \in bucket /\ Expiry[a] <= bucketTill /\ Expiry[a] <= lookup[a]
      BY DEF AlertInv, Holds, Standing, Indexed
    <2>2. a \in Stored
      BY <2>1, StoredIsBucket DEF AlertInv
    <2>3. now \in Nat /\ Expiry[a] \in Nat /\ lookup[a] \in Nat
      BY AlertAssumption DEF AlertInv, AlertTypes
    <2> QED BY <2>1, <2>2, <2>3 DEF Live, Unexpired
  <1> QED BY AlertInvariant, <1>1, PTL

\* The 200 of a cancel is kept under the same condition: the alert is not stored
\* again, for all instances.
THEOREM CancelsStick == AlertsSpec => []CancelSticks
  <1>1. AlertInv => CancelSticks
    BY DEF AlertInv, Holds, Cancelled, CancelSticks, CancelOf
  <1> QED BY AlertInvariant, <1>1, PTL
-----------------------------------------------------------------------------
(* The watcher, whose state no promise to a caller depends on *)

\* A dispatch is about a price that was published, and has something to post.
WatcherTypes ==
  /\ watcher \in {"off", "dead"} \cup Listening
  /\ inbox \in Seq(Prices) /\ price \in Prices \cup {0}
  /\ watcher \in {"reading", "posting"} => price \in Prices
  /\ todo \in SUBSET Alerts /\ (todo # {} <=> watcher = "posting")
  /\ posted \in SUBSET (Alerts \X Prices) /\ failedEvents \in SUBSET Prices

LEMMA WatcherStep ==
  ASSUME AlertInv, WatcherTypes, AlertsNext
  PROVE  WatcherTypes'
  <1> USE DEF WatcherTypes, Listening
  <1>1. CASE \E a \in Alerts : Register(a) \/ Cancel(a)
    BY <1>1 DEF Register, Cancel, watching
  <1>2. CASE \E c \in Calls : Step(c)
    BY <1>2 DEF Step, ReadBucket, WriteBucket, WriteIndex, watching
  <1>3. CASE \E p \in Prices : Publish(p)
    BY <1>3 DEF Publish
  <1>4. CASE SubscribeWatcher
    <2>1. watcher = "off" /\ watcher' \in {"listening", "dead"}
      BY <1>4 DEF SubscribeWatcher
    <2> QED BY <1>4, <2>1 DEF SubscribeWatcher
  <1>5. CASE Receive
    <2>1. Head(inbox) \in Prices /\ Tail(inbox) \in Seq(Prices)
      BY <1>5 DEF Receive
    <2> QED BY <1>5, <2>1 DEF Receive
  <1>6. CASE ReadAlerts
    <2>1. Matching \in SUBSET Alerts
      BY DEF Matching, Unexpired, Stored, AlertInv, AlertTypes
    <2>2. PICK left \in SUBSET Alerts : Dispatch(left)
      BY <1>6, <2>1 DEF ReadAlerts
    <2>3. /\ todo' = left
          /\ left = {} => watcher' = "listening" /\ price' = 0
          /\ left # {} => watcher' = "posting" /\ price' = price
      BY <2>2 DEF Dispatch
    <2>4. failedEvents' \in SUBSET Prices /\ watcher = "reading"
      BY <1>6 DEF ReadAlerts
    <2>5. inbox' = inbox /\ posted' = posted
      BY <1>6 DEF ReadAlerts
    <2> QED BY <2>3, <2>4, <2>5
  <1>7. ASSUME NEW a \in Alerts, Post(a) PROVE WatcherTypes'
    <2>1. /\ watcher = "posting" /\ posted' = posted \cup {<<a, price>>}
          /\ inbox' = inbox /\ failedEvents' = failedEvents
      BY <1>7 DEF Post
    <2>2. /\ todo' = todo \ {a}
          /\ todo' = {} => watcher' = "listening" /\ price' = 0
          /\ todo' # {} => watcher' = "posting" /\ price' = price
      BY <1>7 DEF Post, Dispatch
    <2> QED BY <2>1, <2>2
  <1>8. CASE LoseConnection
    BY <1>8 DEF LoseConnection
  <1>9. CASE Tick
    BY <1>9 DEF Tick, watching
  <1>10. CASE RestartGateway
    BY <1>10 DEF RestartGateway
  <1> QED BY <1>1, <1>2, <1>3, <1>4, <1>5, <1>6, <1>7, <1>8, <1>9, <1>10 DEF AlertsNext, Watch

\* The clock and the events stay within their bounds, and no call began after now.
LEMMA BoundsStep ==
  ASSUME now \in 1..MaxTime, events \in 0..MaxEvents, AlertsNext
  PROVE  now' \in 1..MaxTime /\ events' \in 0..MaxEvents
  <1>1. now' = now \/ (now < MaxTime /\ now' = now + 1)
    BY DEF AlertsNext, Register, Cancel, Step, ReadBucket, WriteBucket, WriteIndex, Publish,
           Watch, SubscribeWatcher, Receive, ReadAlerts, Post, LoseConnection, Tick,
           RestartGateway
  <1>2. events' = events \/ (events < MaxEvents /\ events' = events + 1)
    BY DEF AlertsNext, Register, Cancel, Step, ReadBucket, WriteBucket, WriteIndex, Publish,
           Watch, SubscribeWatcher, Receive, ReadAlerts, Post, LoseConnection, Tick,
           RestartGateway
  <1> QED BY <1>1, <1>2, AlertAssumption

\* Every variable of the alerts stays in its domain, and a dispatch under way has
\* something left to post, for all instances.
THEOREM AlertsTypeCorrect == AlertsSpec => []AlertsTypeOK
  <1> DEFINE Inv == WatcherTypes /\ now \in 1..MaxTime /\ events \in 0..MaxEvents
  <1>1. AlertsInit => Inv
    BY AlertAssumption DEF AlertsInit, WatcherTypes, Listening
  <1>2. AlertInv /\ Inv /\ [AlertsNext]_alertVars => Inv'
    <2>1. CASE AlertsNext
      BY <2>1, WatcherStep, BoundsStep
    <2>2. CASE UNCHANGED alertVars
      BY <2>2 DEF alertVars, watching, WatcherTypes, Listening
    <2> QED BY <2>1, <2>2
  <1>3. AlertInv /\ Inv => AlertsTypeOK
    <2> SUFFICES ASSUME AlertInv, Inv PROVE AlertsTypeOK
      OBVIOUS
    <2>1. began \in [Calls -> 0..MaxTime]
      <3>1. began \in [Calls -> Nat] /\ \A c \in Calls : began[c] <= now
        BY DEF AlertInv, AlertTypes
      <3>2. \A c \in Calls : began[c] \in 0..MaxTime
        BY <3>1, AlertAssumption
      <3> QED BY <3>1, <3>2
    <2> QED BY <2>1 DEF AlertInv, AlertTypes, CallLabels, WatcherTypes, AlertsTypeOK
  <1> QED BY AlertInvariant, <1>1, <1>2, <1>3, PTL DEF AlertsSpec
-----------------------------------------------------------------------------
(* The catalog of an MCP server *)

\* What the variables hold, as far as the proofs need it.
Events == [sku: Skus, listing: Nat]
Requested == [at: {"write", "publish"}, op: {"upsert", "delta", "remove"}, sku: Skus,
              listing: Nat]
Hydrating(h) ==
  \/ h.at \in {"scan", "done"}
  \/ h.at = "mget" /\ h.keys \subseteq Skus
  \/ h.at = "reply" /\ h.keys \subseteq Skus /\ h.payloads \in [h.keys -> Nat]

CatalogTypes ==
  /\ redis \in [Skus -> Nat] /\ store \in [Skus -> Nat] /\ written \in Nat
  /\ writers \in [Writers -> {Idle} \cup Requested]
  /\ channel \in Seq(Events)
  /\ Hydrating(hydration)

\* The events of a SKU on their way, and its requests that have stored a listing but
\* not announced it.
OfSku(s) == {n \in 1..Len(channel) : channel[n].sku = s}
Publishing(s) == {w \in Writers : writers[w].at = "publish" /\ writers[w].sku = s}

\* What the store will offer once the hydration is through, if no event comes.
ToBeRead(s) == hydration.at = "scan" \/ (hydration.at = "mget" /\ s \in hydration.keys)
ToBeMerged(s) == hydration.at = "reply" /\ Payload(s) # 0
Coming(s) == IF ToBeRead(s) /\ redis[s] # 0 THEN redis[s]
             ELSE IF ToBeMerged(s) THEN Payload(s) ELSE store[s]

\* The last event on its way is that of the stored listing; if none is, the hydration
\* makes the store agree.
LastEvent(s) ==
  \A n \in OfSku(s) : (\A m \in OfSku(s) : m <= n) => channel[n].listing = redis[s]
Offered(s) ==
  IF redis[s] # 0 THEN Coming(s) = redis[s] ELSE Coming(s) \in {0, Fixture(s)}
Underway(s) == LastEvent(s) /\ (OfSku(s) = {} => Offered(s))

\* A SKU that met no hazard has one request at most, which is about to announce the
\* stored listing or has nothing of its own in Redis yet.
Alone(s) == \A v, w \in Busy(s) : v = w
Announced(s) == \A w \in Publishing(s) : writers[w].listing = redis[s]
Sound(s) == Alone(s) /\ Announced(s) /\ (Publishing(s) = {} => Underway(s))

CatalogInv ==
  /\ CatalogTypes
  /\ ~link => channel = <<>>
  /\ \A s \in Skus \ exposed : Sound(s)
-----------------------------------------------------------------------------
\* A request is idle or knows its SKU.
LEMMA IdleByLabel ==
  ASSUME NEW x \in {Idle} \cup Requested
  PROVE  /\ x # Idle <=> x.at # "idle"
         /\ x # Idle => x \in Requested
  <1>1. CASE x = Idle
    BY <1>1 DEF Idle
  <1>2. CASE x \in Requested
    BY <1>2 DEF Idle, Requested
  <1> QED BY <1>1, <1>2

LEMMA NoEvents ==
  ASSUME channel = <<>>, NEW s
  PROVE  OfSku(s) = {}
  BY DEF OfSku

\* What an action leaves alone, part by part: requests, events, what is to come.
LEMMA WritersStay ==
  ASSUME CatalogTypes, NEW s, writers' = writers, redis' = redis
  PROVE  /\ Alone(s) => Alone(s)'
         /\ Announced(s) => Announced(s)'
         /\ Publishing(s)' = Publishing(s)
  BY DEF Alone, Announced, Publishing, Busy, Idle

LEMMA EventsStay ==
  ASSUME NEW s, channel' = channel, redis'[s] = redis[s]
  PROVE  /\ LastEvent(s)' <=> LastEvent(s)
         /\ OfSku(s)' = OfSku(s)
  BY DEF LastEvent, OfSku

LEMMA OfferStays ==
  ASSUME NEW s, Coming(s)' = Coming(s), redis'[s] = redis[s]
  PROVE  Offered(s)' <=> Offered(s)
  BY DEF Offered, Fixture, None

LEMMA SameHydration ==
  ASSUME NEW s, hydration' = hydration, redis'[s] = redis[s], store'[s] = store[s]
  PROVE  Coming(s)' = Coming(s)
  BY DEF Coming, ToBeRead, ToBeMerged, Payload, None
-----------------------------------------------------------------------------
LEMMA CatalogInit == Init => CatalogInv
  <1> SUFFICES ASSUME Init PROVE CatalogInv
    OBVIOUS
  <1> USE DEF Init, None, Idle, Scanning, Seeded,
              Fixture
  <1>1. CatalogTypes
    BY DEF CatalogTypes, Hydrating
  <1>2. ASSUME NEW s \in Skus PROVE Sound(s)
    <2>1. Busy(s) = {} /\ Publishing(s) = {}
      BY DEF Busy, Publishing
    <2>2. OfSku(s) = {}
      BY NoEvents
    <2>3. Offered(s)
      BY DEF Offered, Coming, ToBeRead, ToBeMerged
    <2> QED BY <2>1, <2>2, <2>3 DEF Sound, Alone, Announced, Underway, LastEvent
  <1> QED BY <1>1, <1>2 DEF CatalogInv

\* A request begins: it is alone with its SKU, or the SKU is exposed.
LEMMA StartKeeps ==
  ASSUME CatalogInv, NEW w \in Writers, NEW op \in {"upsert", "delta", "remove"},
         NEW s \in Skus, Start(w, op, s),
         UNCHANGED <<redis, written, link, channel, hydration, store>>
  PROVE  CatalogInv'
  <1>0. PICK x : x = [at |-> "write", op |-> op, sku |-> s, listing |-> 0]
    OBVIOUS
  <1>1. /\ writers[w] = Idle /\ writers' = [writers EXCEPT ![w] = x]
        /\ exposed' = exposed \cup IF Busy(s) = {} THEN {} ELSE {s}
    BY <1>0 DEF Start, Expose, None
  <1>2. CatalogTypes'
    <2>1. x \in Requested
      BY <1>0 DEF Requested
    <2> QED BY <1>1, <2>1 DEF CatalogInv, CatalogTypes, Hydrating, Idle
  <1>3. ASSUME NEW r \in Skus \ exposed' PROVE Sound(r)'
    <2>1. r \notin exposed /\ Sound(r)
      BY <1>1 DEF CatalogInv
    <2>2. Busy(r)' = IF r = s THEN Busy(r) \cup {w} ELSE Busy(r)
      <3>1. \A v \in Writers : writers'[v] = IF v = w THEN x ELSE writers[v]
        BY <1>1 DEF CatalogInv, CatalogTypes
      <3>2. writers[w].at = "idle"
        BY <1>1 DEF Idle
      <3>3. x # Idle /\ x.sku = s
        BY <1>0 DEF Idle
      <3> QED BY <1>1, <3>1, <3>3 DEF Busy
    <2>3. Publishing(r)' = Publishing(r) /\ \A v \in Publishing(r) : writers'[v] = writers[v]
      BY <1>0, <1>1 DEF Publishing, CatalogInv, CatalogTypes, Idle
    <2>4. r = s => Busy(r) = {}
      BY <1>1, r \notin exposed'
    <2>5. Alone(r)' /\ Announced(r)'
      BY <2>1, <2>2, <2>3, <2>4 DEF Sound, Alone, Announced
    <2>6. Underway(r)' <=> Underway(r)
      BY EventsStay, OfferStays, SameHydration DEF Underway
    <2> QED BY <2>1, <2>3, <2>5, <2>6 DEF Sound
  <1> QED BY <1>2, <1>3 DEF CatalogInv

\* A request at another SKU goes on or ends.
LEMMA OtherSku ==
  ASSUME CatalogTypes, NEW r, NEW w \in Writers, writers[w].sku # r,
         NEW x, writers' = [writers EXCEPT ![w] = x], x = Idle \/ x.sku # r
  PROVE  /\ Busy(r)' = Busy(r)
         /\ Publishing(r)' = Publishing(r)
         /\ \A v \in Publishing(r) : writers'[v] = writers[v]
  <1>1. \A v \in Writers : writers'[v] = IF v = w THEN x ELSE writers[v]
    BY DEF CatalogTypes
  <1>2. x = Idle => x.at # "publish"
    BY DEF Idle
  <1> QED BY <1>1, <1>2 DEF Busy, Publishing

LEMMA SoundElsewhere ==
  ASSUME NEW r, Sound(r), Busy(r)' = Busy(r), Publishing(r)' = Publishing(r),
         \A v \in Publishing(r) : writers'[v] = writers[v],
         redis'[r] = redis[r], Underway(r) => Underway(r)'
  PROVE  Sound(r)'
  BY DEF Sound, Alone, Announced

\* The listing a request stores is the one it will announce.
LEMMA StoreListingKeeps ==
  ASSUME CatalogInv, NEW w \in Writers, StoreListing(w)
  PROVE  CatalogInv'
  <1>1. PICK s, listing, x :
          /\ s = writers[w].sku
          /\ listing = IF writers[w].op = "remove" THEN 0 ELSE written + 1
          /\ x = [writers[w] EXCEPT !.at = "publish", !.listing = listing]
    OBVIOUS
  <1>2. /\ writers[w].at = "write" /\ redis' = [redis EXCEPT ![s] = listing]
        /\ written' = written + 1 /\ writers' = [writers EXCEPT ![w] = x]
        /\ UNCHANGED <<link, channel, hydration, store, exposed>>
    BY <1>1 DEF StoreListing, server, None
  <1>3. /\ writers[w] \in Requested /\ writers[w] # Idle
        /\ s \in Skus /\ listing \in Nat
    <2>1. writers[w] \in {Idle} \cup Requested
      BY DEF CatalogInv, CatalogTypes
    <2>2. writers[w] \in Requested /\ writers[w] # Idle
      BY <1>2, <2>1, IdleByLabel
    <2> QED BY <1>1, <2>2 DEF CatalogInv, CatalogTypes, Requested
  <1>4. x \in Requested /\ x.at = "publish" /\ x.sku = s /\ x.listing = listing
    BY <1>1, <1>3 DEF Requested
  <1>5. CatalogTypes'
    BY <1>2, <1>3, <1>4 DEF CatalogInv, CatalogTypes, Hydrating
  <1>6. ASSUME NEW r \in Skus \ exposed' PROVE Sound(r)'
    <2>1. Sound(r)
      BY <1>2 DEF CatalogInv
    <2>2. CASE r # s
      <3>1. redis'[r] = redis[r]
        BY <1>2, <1>3, <2>2 DEF CatalogInv, CatalogTypes
      <3>2. Underway(r)' <=> Underway(r)
        BY <1>2, <3>1, EventsStay, OfferStays, SameHydration DEF Underway
      <3> QED BY <1>1, <1>2, <1>4, <2>1, <2>2, <3>1, <3>2, OtherSku, SoundElsewhere
              DEF CatalogInv
    <2>3. CASE r = s
      <3>1. \A v \in Writers : writers'[v] = IF v = w THEN x ELSE writers[v]
        BY <1>2 DEF CatalogInv, CatalogTypes
      <3>2. w \in Busy(s) /\ \A v \in Busy(s) : v = w
        BY <1>1, <1>3, <2>1, <2>3 DEF Sound, Alone, Busy
      <3>3. \A v \in Busy(s)' : v = w
        BY <3>1, <3>2 DEF Busy
      <3>4. w \in Publishing(s)' /\ Publishing(s)' \subseteq Busy(s)'
        BY <1>4, <3>1 DEF Publishing, Busy, Idle
      <3>5. redis'[s] = listing
        BY <1>2, <1>3 DEF CatalogInv, CatalogTypes
      <3> QED BY <1>4, <2>3, <3>1, <3>3, <3>4, <3>5 DEF Sound, Alone, Announced
    <2> QED BY <2>2, <2>3
  <1> QED BY <1>2, <1>5, <1>6 DEF CatalogInv

\* The request of a SKU that was announced, or not, is the last about it; what the
\* hydration has yet to read it need not announce.
LEMMA RequestEnds ==
  ASSUME CatalogInv, NEW w \in Writers, NEW s, writers[w].at = "publish", writers[w].sku = s,
         writers' = [writers EXCEPT ![w] = Idle],
         UNCHANGED <<redis, written, link, hydration, store>>,
         channel' \in Seq(Events), ~link => channel' = <<>>, exposed \subseteq exposed',
         \A r \in Skus : r # s => (Underway(r) => Underway(r)'),
         writers[w].listing = redis[s] /\ s \notin exposed' => Underway(s)'
  PROVE  CatalogInv'
  <1>1. CatalogTypes'
    BY DEF CatalogInv, CatalogTypes, Hydrating, Idle
  <1>2. ASSUME NEW r \in Skus \ exposed' PROVE Sound(r)'
    <2>1. Sound(r)
      BY DEF CatalogInv
    <2>2. CASE r # s
      BY <2>1, <2>2, OtherSku, SoundElsewhere DEF CatalogInv
    <2>3. CASE r = s
      <3>1. w \in Publishing(s) /\ w \in Busy(s)
        BY DEF Publishing, Busy, Idle
      <3>2. Busy(s)' = {} /\ Publishing(s)' = {}
        BY <2>1, <2>3, <3>1
           DEF Sound, Alone, Busy, Publishing, Idle, CatalogInv, CatalogTypes
      <3>3. writers[w].listing = redis[s]
        BY <2>1, <2>3, <3>1 DEF Sound, Announced
      <3> QED BY <2>3, <3>2, <3>3 DEF Sound, Alone, Announced
    <2> QED BY <2>2, <2>3
  <1> QED BY <1>1, <1>2 DEF CatalogInv

\* The channel holds a last event of a SKU if any.
LEMMA LastIndex ==
  ASSUME CatalogTypes, NEW s, OfSku(s) # {}
  PROVE  \E n \in OfSku(s) : \A m \in OfSku(s) : m <= n
  <1>1. PICK z \in Nat : z = Len(channel)
    BY DEF CatalogTypes
  <1>2. \A n \in OfSku(s) : n \in Nat /\ n <= z
    BY <1>1 DEF OfSku
  <1>3. PICK S \in SUBSET Nat : S = {d \in Nat : \E n \in OfSku(s) : d = z - n}
    OBVIOUS
  <1>4. S # {}
    BY <1>2, <1>3
  <1>5. PICK d \in S : \A b \in S : d <= b
    BY <1>4, LeastNatural
  <1>6. PICK n \in OfSku(s) : d = z - n
    BY <1>3
  <1>7. ASSUME NEW m \in OfSku(s) PROVE m <= n
    <2>1. z - m \in S
      BY <1>2, <1>3
    <2>2. d <= z - m
      BY <1>5, <2>1
    <2> QED BY <1>2, <1>6, <2>2
  <1> QED BY <1>7

\* What is not beyond the hydration is what it will bring.
LEMMA NotBeyond ==
  ASSUME CatalogTypes, NEW s, ~Beyond(s, redis[s])
  PROVE  Offered(s)
  <1>1. redis[s] # 0 /\ ToBeRead(s)
    BY DEF Beyond, None, CatalogTypes, Hydrating, ToBeRead
  <1> QED BY <1>1 DEF Offered, Coming

LEMMA OfferedStays ==
  ASSUME UNCHANGED <<redis, hydration, store>>, NEW s
  PROVE  Offered(s)' <=> Offered(s)
  BY OfferStays, SameHydration

LEMMA NoEventsUnderway ==
  ASSUME NEW s, OfSku(s) = {}
  PROVE  Underway(s) <=> Offered(s)
  BY DEF Underway, LastEvent

\* An event published goes last.
LEMMA EventPublished ==
  ASSUME CatalogTypes, NEW e \in Events, channel' = Append(channel, e),
         UNCHANGED <<redis, hydration, store>>, NEW r
  PROVE  /\ r # e.sku => (Underway(r)' <=> Underway(r))
         /\ r = e.sku /\ e.listing = redis[r] => Underway(r)'
  <1>1. PICK z \in Nat : z = Len(channel)
    BY DEF CatalogTypes
  <1>2. /\ Len(channel') = z + 1 /\ channel'[z + 1] = e
        /\ \A n \in 1..z : channel'[n] = channel[n]
    BY <1>1 DEF CatalogTypes
  <1>3. CASE r # e.sku
    <2>1. OfSku(r)' = OfSku(r)
      BY <1>1, <1>2, <1>3 DEF OfSku
    <2>2. \A n \in OfSku(r) : channel'[n] = channel[n]
      BY <1>1, <1>2 DEF OfSku
    <2>3. LastEvent(r)' <=> LastEvent(r)
      BY <2>1, <2>2 DEF LastEvent
    <2> QED BY <1>3, <2>1, <2>3, OfferedStays DEF Underway
  <1>4. CASE r = e.sku
    <2>1. z + 1 \in OfSku(r)' /\ \A n \in OfSku(r)' : n \in 1..z + 1
      BY <1>2, <1>4 DEF OfSku
    <2>2. ASSUME NEW n \in OfSku(r)', \A m \in OfSku(r)' : m <= n
          PROVE  channel'[n] = e
      BY <1>2, <2>1, <2>2
    <2>3. e.listing = redis[r] => LastEvent(r)'
      BY <2>2 DEF LastEvent
    <2> QED BY <1>4, <2>1, <2>3 DEF Underway
  <1> QED BY <1>3, <1>4

\* A publication is delivered, or found to be beyond the hydration, or not needed.
LEMMA PublishEventKeeps ==
  ASSUME CatalogInv, NEW w \in Writers, PublishEvent(w)
  PROVE  CatalogInv'
  <1>1. PICK s, e : s = writers[w].sku /\ e = [sku |-> s, listing |-> writers[w].listing]
    OBVIOUS
  <1>2. /\ writers[w].at = "publish" /\ writers' = [writers EXCEPT ![w] = Idle]
        /\ UNCHANGED <<redis, written, link, hydration, store>>
    BY DEF PublishEvent
  <1>3. s \in Skus /\ e \in Events /\ e.sku = s /\ e.listing = writers[w].listing
    <2>1. writers[w] \in {Idle} \cup Requested
      BY DEF CatalogInv, CatalogTypes
    <2>2. writers[w] \in Requested
      BY <1>2, <2>1, IdleByLabel
    <2> QED BY <1>1, <2>2 DEF Requested, Events
  <1>4. CASE link
    <2>1. channel' = Append(channel, e) /\ exposed' = exposed
      BY <1>1, <1>4 DEF PublishEvent
    <2>2. channel' \in Seq(Events)
      BY <1>3, <2>1 DEF CatalogInv, CatalogTypes
    <2>3. \A r : /\ r # s => (Underway(r)' <=> Underway(r))
                 /\ r = s /\ writers[w].listing = redis[r] => Underway(r)'
      BY <1>2, <1>3, <2>1, EventPublished DEF CatalogInv
    <2> QED BY <1>1, <1>2, <1>4, <2>1, <2>2, <2>3, RequestEnds
  <1>5. CASE ~link
    <2>1. /\ channel' = channel /\ channel = <<>>
          /\ exposed' = exposed \cup IF Beyond(s, writers[w].listing) THEN {s} ELSE {}
      BY <1>1, <1>5 DEF PublishEvent, Lose, Expose, CatalogInv
    <2>2. \A r : OfSku(r) = {} /\ OfSku(r)' = {}
      BY <2>1 DEF OfSku
    <2>3. \A r : Underway(r)' <=> Underway(r)
      BY <1>2, <2>1, OfferedStays, EventsStay DEF Underway
    <2>4. ASSUME writers[w].listing = redis[s], s \notin exposed'
          PROVE  Underway(s)'
      <3>1. Offered(s)
        BY <2>1, <2>4, NotBeyond DEF CatalogInv
      <3>2. Underway(s)
        BY <2>2, <3>1, NoEventsUnderway
      <3> QED BY <2>3, <3>2
    <2> QED BY <1>1, <1>2, <2>1, <2>3, <2>4, RequestEnds DEF CatalogInv, CatalogTypes
  <1> QED BY <1>4, <1>5

\* A request that dies leaves its SKU to the hydration, or exposed.
LEMMA DieUnpublishedKeeps ==
  ASSUME CatalogInv, NEW w \in Writers, DieUnpublished(w)
  PROVE  CatalogInv'
  <1>1. PICK s : s = writers[w].sku
    OBVIOUS
  <1>2. /\ writers[w].at = "publish" /\ writers' = [writers EXCEPT ![w] = Idle]
        /\ UNCHANGED <<redis, written, link, channel, hydration, store>>
    BY DEF DieUnpublished, server
  <1>3. exposed' = exposed \cup IF \/ OfSku(s) # {}
                                   \/ Beyond(s, writers[w].listing) THEN {s} ELSE {}
    BY <1>1 DEF DieUnpublished, Lose, Expose, OfSku
  <1>4. \A r : Underway(r)' <=> Underway(r)
    BY <1>2, OfferedStays, EventsStay DEF Underway
  <1>5. ASSUME writers[w].listing = redis[s], s \notin exposed'
        PROVE  Underway(s)'
    <2>1. OfSku(s) = {} /\ Offered(s)
      BY <1>3, <1>5, NotBeyond DEF CatalogInv
    <2> QED BY <1>4, <2>1, NoEventsUnderway
  <1> QED BY <1>1, <1>2, <1>3, <1>4, <1>5, RequestEnds DEF CatalogInv, CatalogTypes
-----------------------------------------------------------------------------
\* The server works, the requests stay as they are.
LEMMA ServerKeeps ==
  ASSUME CatalogInv, UNCHANGED <<redis, written, writers>>, CatalogTypes',
         ~link' => channel' = <<>>, exposed \subseteq exposed',
         \A s \in Skus \ exposed' : Underway(s) => Underway(s)'
  PROVE  CatalogInv'
  <1>1. ASSUME NEW s \in Skus \ exposed' PROVE Sound(s)'
    <2>1. Sound(s)
      BY DEF CatalogInv
    <2>2. Alone(s)' /\ Announced(s)' /\ Publishing(s)' = Publishing(s)
      BY <2>1, WritersStay DEF Sound, CatalogInv
    <2> QED BY <2>1, <2>2 DEF Sound
  <1> QED BY <1>1 DEF CatalogInv

LEMMA SubscribeKeeps ==
  ASSUME CatalogInv, Subscribe
  PROVE  CatalogInv'
  <1>1. /\ UNCHANGED <<redis, written, writers, channel, hydration, store, exposed>>
        /\ link'
    BY DEF Subscribe
  <1>2. CatalogTypes'
    BY <1>1 DEF CatalogInv, CatalogTypes, Hydrating, Idle
  <1> QED BY <1>1, <1>2, ServerKeeps, OfferedStays, EventsStay DEF Underway

\* Where the events lost were not beyond the hydration, it brings the last of them.
LEMMA DisconnectKeeps ==
  ASSUME CatalogInv, Disconnect
  PROVE  CatalogInv'
  <1>1. /\ UNCHANGED <<redis, written, writers, hydration, store>>
        /\ channel' = <<>> /\ exposed \subseteq exposed'
        /\ \A s \in Skus \ exposed' : \A n \in OfSku(s) :
             ~Beyond(s, channel[n].listing)
    BY DEF Disconnect, Expose, OfSku
  <1>2. CatalogTypes'
    BY <1>1 DEF CatalogInv, CatalogTypes, Hydrating, Idle
  <1>3. ASSUME NEW s \in Skus \ exposed', Underway(s) PROVE Underway(s)'
    <2>1. Offered(s)
      <3>1. CASE OfSku(s) = {}
        BY <1>3, <3>1 DEF Underway
      <3>2. CASE OfSku(s) # {}
        <4>1. PICK n \in OfSku(s) : \A m \in OfSku(s) : m <= n
          BY <3>2, LastIndex DEF CatalogInv
        <4>2. channel[n].listing = redis[s]
          BY <1>3, <4>1 DEF Underway, LastEvent
        <4> QED BY <1>1, <4>2, NotBeyond DEF CatalogInv
      <3> QED BY <3>1, <3>2
    <2>2. OfSku(s)' = {} /\ Offered(s)'
      BY <1>1, <2>1, OfferedStays DEF OfSku
    <2> QED BY <2>2 DEF Underway, LastEvent
  <1> QED BY <1>1, <1>2, <1>3, ServerKeeps

\* An event handled goes first; the last of a SKU leaves the stored listing behind, and
\* no other in the reply of the hydration.
LEMMA HandleCatalogEventKeeps ==
  ASSUME CatalogInv, HandleCatalogEvent
  PROVE  CatalogInv'
  <1>1. PICK e, k, z : e = Head(channel) /\ k = e.sku /\ z = Len(channel)
    OBVIOUS
  <1>2. /\ UNCHANGED <<redis, written, writers, link, hydration>>
        /\ channel # <<>> /\ channel' = Tail(channel)
        /\ store' = [store EXCEPT ![k] = e.listing]
        /\ exposed \subseteq exposed'
        /\ k \notin exposed' /\ hydration.at = "reply" /\ k \in hydration.keys
             => hydration.payloads[k] \in {0, e.listing}
    BY <1>1 DEF HandleCatalogEvent, Expose, None
  <1>3. /\ e = channel[1] /\ e \in Events /\ k \in Skus /\ e.listing \in Nat
        /\ z \in Nat \ {0} /\ Len(channel') = z - 1 /\ channel' \in Seq(Events)
        /\ \A n \in 1..z - 1 : channel'[n] = channel[n + 1]
    <2>1. e \in Events
      BY <1>1, <1>2 DEF CatalogInv, CatalogTypes
    <2> QED BY <1>1, <1>2, <2>1 DEF CatalogInv, CatalogTypes, Events
  <1>4. /\ store' \in [Skus -> Nat] /\ store'[k] = e.listing
        /\ \A r \in Skus : r # k => store'[r] = store[r]
    BY <1>2, <1>3 DEF CatalogInv, CatalogTypes
  <1>5. CatalogTypes'
    BY <1>2, <1>3, <1>4 DEF CatalogInv, CatalogTypes, Hydrating, Idle
  <1>6. ASSUME NEW r
        PROVE  /\ \A n : n \in OfSku(r)' <=> n \in Nat \ {0} /\ n + 1 \in OfSku(r)
               /\ \A n \in OfSku(r) : n \in 1..z
               /\ \A n \in OfSku(r)' : channel'[n] = channel[n + 1]
    BY <1>1, <1>3 DEF OfSku
  <1>7. ASSUME NEW r, LastEvent(r) PROVE LastEvent(r)'
    <2> SUFFICES ASSUME NEW n \in OfSku(r)', \A m \in OfSku(r)' : m <= n
                 PROVE  channel'[n].listing = redis[r]
      BY <1>2 DEF LastEvent
    <2>1. n \in Nat \ {0} /\ n + 1 \in OfSku(r) /\ channel'[n] = channel[n + 1]
      BY <1>6
    <2>2. ASSUME NEW m \in OfSku(r) PROVE m <= n + 1
      <3>1. m \in 1..z
        BY <1>6
      <3>2. CASE m = 1
        BY <2>1, <3>2
      <3>3. CASE m # 1
        <4>1. m - 1 \in Nat \ {0} /\ (m - 1) + 1 = m
          BY <3>1, <3>3
        <4>2. m - 1 \in OfSku(r)'
          BY <1>6, <4>1
        <4>3. m - 1 <= n
          BY <4>2
        <4> QED BY <2>1, <4>1, <4>3
      <3> QED BY <3>2, <3>3
    <2> QED BY <1>7, <2>1, <2>2 DEF LastEvent
  <1>8. ASSUME NEW r \in Skus \ exposed', Underway(r) PROVE Underway(r)'
    <2>1. CASE r # k
      <3>1. OfSku(r)' = {} => OfSku(r) = {}
        <4>1. ASSUME NEW n \in OfSku(r) PROVE n - 1 \in OfSku(r)'
          <5>1. n \in 1..z /\ n # 1
            BY <1>1, <1>3, <1>6, <2>1 DEF OfSku
          <5>2. n - 1 \in Nat \ {0} /\ (n - 1) + 1 = n
            BY <5>1, <1>3
          <5> QED BY <1>6, <5>2
        <4> QED BY <4>1
      <3>2. Offered(r)' <=> Offered(r)
        BY <1>2, <1>4, <2>1, OfferStays, SameHydration
      <3> QED BY <1>7, <1>8, <3>1, <3>2 DEF Underway
    <2>2. CASE r = k
      <3>1. ASSUME OfSku(k)' = {} PROVE Offered(k)'
        <4>1. 1 \in OfSku(k)
          BY <1>1, <1>3 DEF OfSku
        <4>2. ASSUME NEW m \in OfSku(k) PROVE m <= 1
          <5>1. m \in 1..z
            BY <1>6
          <5>2. CASE m # 1
            <6>1. m - 1 \in Nat \ {0} /\ (m - 1) + 1 = m
              BY <1>3, <5>1, <5>2
            <6>2. m - 1 \in OfSku(k)'
              BY <1>6, <6>1
            <6> QED BY <3>1, <6>2
          <5> QED BY <5>2
        <4>3. e.listing = redis[k]
          BY <1>3, <1>8, <2>2, <4>1, <4>2 DEF Underway, LastEvent
        <4>4. Coming(k)' = redis[k]
          BY <1>2, <1>4, <1>8, <2>2, <4>3
             DEF Coming, ToBeRead, ToBeMerged, Payload, None
        <4> QED BY <1>2, <4>4 DEF Offered
      <3> QED BY <1>7, <1>8, <2>2, <3>1 DEF Underway
    <2> QED BY <2>1, <2>2
  <1> QED BY <1>2, <1>5, <1>8, ServerKeeps DEF CatalogInv

\* The hydration takes its next step; what is to come does not change by it.
LEMMA HydrationKeeps ==
  ASSUME CatalogInv, UNCHANGED <<redis, written, writers, link, channel, exposed>>,
         Hydrating(hydration)', store' \in [Skus -> Nat],
         \A s \in Skus : Coming(s)' = Coming(s)
  PROVE  CatalogInv'
  <1>1. CatalogTypes'
    BY DEF CatalogInv, CatalogTypes, Idle
  <1>2. ASSUME NEW s \in Skus, Underway(s) PROVE Underway(s)'
    BY <1>2, EventsStay, OfferStays DEF Underway
  <1> QED BY <1>1, <1>2, ServerKeeps DEF CatalogInv

LEMMA HydrationStepsKeep ==
  ASSUME CatalogInv,
         ScanCatalogKeys \/ ReadListings \/ MergeListings
  PROVE  CatalogInv'
  <1> USE DEF None
  <1>1. CASE ScanCatalogKeys
    <2>1. PICK found : found = {s \in Skus : redis[s] # 0}
      OBVIOUS
    <2>2. /\ hydration.at = "scan"
          /\ hydration' = IF found = {} THEN [at |-> "done"]
                          ELSE [at |-> "mget", keys |-> found]
          /\ UNCHANGED <<redis, written, writers, link, channel, exposed, store>>
      BY <1>1, <2>1 DEF ScanCatalogKeys
    <2>3. Hydrating(hydration)' /\ store' \in [Skus -> Nat]
      BY <2>1, <2>2 DEF Hydrating, CatalogInv, CatalogTypes
    <2>4. ASSUME NEW s \in Skus PROVE Coming(s)' = Coming(s)
      BY <2>1, <2>2 DEF Coming, ToBeRead, ToBeMerged, Payload
    <2> QED BY <2>2, <2>3, <2>4, HydrationKeeps
  <1>2. CASE ReadListings
    <2>1. PICK K, p : K = hydration.keys /\ p = [s \in K |-> redis[s]]
      OBVIOUS
    <2>2. /\ hydration.at = "mget"
          /\ hydration' = [at |-> "reply", keys |-> K, payloads |-> p]
          /\ UNCHANGED <<redis, written, writers, link, channel, exposed, store>>
      BY <1>2, <2>1 DEF ReadListings
    <2>3. K \subseteq Skus /\ p \in [K -> Nat] /\ \A s \in K : p[s] = redis[s]
      BY <2>1, <2>2 DEF Hydrating, CatalogInv, CatalogTypes
    <2>4. Hydrating(hydration)' /\ store' \in [Skus -> Nat]
      BY <2>2, <2>3 DEF Hydrating, CatalogInv, CatalogTypes
    <2>5. ASSUME NEW s \in Skus PROVE Coming(s)' = Coming(s)
      BY <2>1, <2>2, <2>3 DEF Coming, ToBeRead, ToBeMerged, Payload
    <2> QED BY <2>2, <2>4, <2>5, HydrationKeeps
  <1>3. CASE MergeListings
    <2>1. /\ hydration.at = "reply" /\ hydration' = [at |-> "done"]
          /\ store' = [s \in Skus |-> IF Payload(s) # 0 THEN Payload(s)
                                         ELSE store[s]]
          /\ UNCHANGED <<redis, written, writers, link, channel, exposed>>
      BY <1>3 DEF MergeListings
    <2>2. ASSUME NEW s \in Skus PROVE store'[s] = Coming(s) /\ store'[s] \in Nat
      BY <2>1 DEF Coming, ToBeRead, ToBeMerged, Payload, CatalogInv, CatalogTypes,
                  Hydrating
    <2>3. Hydrating(hydration)' /\ store' \in [Skus -> Nat]
      BY <2>1, <2>2 DEF Hydrating
    <2>4. ASSUME NEW s \in Skus PROVE Coming(s)' = Coming(s)
      BY <2>1, <2>2 DEF Coming, ToBeRead, ToBeMerged
    <2> QED BY <2>1, <2>3, <2>4, HydrationKeeps
  <1> QED BY <1>1, <1>2, <1>3

LEMMA FailHydrationKeeps ==
  ASSUME CatalogInv, FailHydration
  PROVE  CatalogInv'
  <1>1. /\ UNCHANGED <<redis, written, writers, link, channel, store>>
        /\ hydration' = [at |-> "done"] /\ exposed' = exposed \cup Skus
    BY DEF FailHydration, Expose
  <1>2. CatalogTypes'
    BY <1>1 DEF CatalogInv, CatalogTypes, Hydrating, Idle
  <1> QED BY <1>1, <1>2, ServerKeeps DEF CatalogInv

\* A fresh server is as good as the first, whatever request is under way.
LEMMA RestartHeals ==
  ASSUME CatalogInv, Restart
  PROVE  CatalogInv'
  <1>1. /\ UNCHANGED <<redis, written, writers>> /\ channel' = <<>>
        /\ hydration' = Scanning /\ store' = Seeded
        /\ exposed' = {s \in exposed : Busy(s) # {}}
    BY DEF Restart
  <1>2. CatalogTypes'
    BY <1>1 DEF CatalogInv, CatalogTypes, Hydrating, Idle, Scanning,
                Seeded, Fixture, None
  <1>3. ASSUME NEW s \in Skus \ exposed' PROVE Sound(s)'
    <2>1. Alone(s) /\ Announced(s)
      <3>1. CASE s \in exposed
        <4>1. Busy(s) = {}
          BY <1>1, <1>3, <3>1
        <4>2. Publishing(s) \subseteq Busy(s)
          BY DEF Publishing, Busy, Idle
        <4> QED BY <4>1, <4>2 DEF Alone, Announced
      <3>2. CASE s \notin exposed
        BY <3>2 DEF CatalogInv, Sound
      <3> QED BY <3>1, <3>2
    <2>2. Alone(s)' /\ Announced(s)'
      BY <1>1, <2>1, WritersStay DEF CatalogInv
    <2>3. OfSku(s)' = {}
      BY <1>1 DEF OfSku
    <2>4. Offered(s)'
      BY <1>1 DEF Offered, Coming, ToBeRead, ToBeMerged, Scanning, Seeded,
                  Fixture, None
    <2> QED BY <2>2, <2>3, <2>4 DEF Sound, Underway, LastEvent
  <1> QED BY <1>1, <1>2, <1>3 DEF CatalogInv

LEMMA CatalogNext ==
  ASSUME CatalogInv, [Next]_vars
  PROVE  CatalogInv'
  <1>1. ASSUME NEW w \in Writers, NEW s \in Skus,
               IndexFixture(w, s)
                 \/ \E op \in {"upsert", "delta", "remove"} : BeginWrite(w, op, s)
        PROVE  CatalogInv'
    <2>1. UNCHANGED <<redis, written, link, channel, hydration, store>>
      BY <1>1 DEF IndexFixture, BeginWrite, server
    <2>2. CASE \E op \in {"upsert", "delta", "remove"} : Start(w, op, s)
      BY <2>1, <2>2, StartKeeps
    <2>3. CASE UNCHANGED <<writers, exposed>>
      <3>1. CatalogTypes'
        BY <2>1, <2>3 DEF CatalogInv, CatalogTypes, Hydrating, Idle
      <3> QED BY <2>1, <2>3, <3>1, ServerKeeps, OfferedStays, EventsStay
              DEF CatalogInv, Underway
    <2> QED BY <1>1, <2>2, <2>3 DEF IndexFixture, BeginWrite
  <1>2. ASSUME NEW w \in Writers, Write(w) \/ DieUnpublished(w)
        PROVE  CatalogInv'
    BY <1>2, StoreListingKeeps, PublishEventKeeps, DieUnpublishedKeeps DEF Write
  <1>3. CASE UNCHANGED vars
    <2>1. UNCHANGED <<redis, written, writers, link, channel, hydration, store, exposed>>
      BY <1>3 DEF vars, server
    <2>2. CatalogTypes'
      BY <2>1 DEF CatalogInv, CatalogTypes, Hydrating, Idle
    <2> QED BY <2>1, <2>2, ServerKeeps, OfferedStays, EventsStay DEF CatalogInv, Underway
  <1> QED BY <1>1, <1>2, <1>3, SubscribeKeeps, DisconnectKeeps, HandleCatalogEventKeeps,
             HydrationStepsKeep, FailHydrationKeeps, RestartHeals DEF Next

\* Whoever is late, a SKU that met none of the five hazards has its last stored listing
\* on its way to the store, for any SKUs, requests, faults and restarts.
THEOREM CatalogInvariant == Spec => []CatalogInv
  <1>1. CatalogInv /\ [Next]_vars => CatalogInv'
    BY CatalogNext
  <1> QED BY CatalogInit, <1>1, PTL DEF Spec

\* Once the hydration is through and nothing about a SKU is under way, the server offers
\* the stored listing in whatever order the subscription and the scan came up, unless
\* the SKU met one of the five hazards since the start (hydrateCatalogFromRedis beside
\* catalogSubscriber).
THEOREM QuietStoresAgree == Spec => []QuietStoreAgrees
  <1>1. CatalogInv => QuietStoreAgrees
    <2> SUFFICES ASSUME CatalogInv, NEW s \in Skus \ exposed, Quiet(s)
                 PROVE  Agrees(s)
      BY DEF QuietStoreAgrees
    <2>1. Busy(s) = {} /\ hydration.at = "done" /\ OfSku(s) = {}
      BY DEF Quiet, OfSku
    <2>2. Publishing(s) = {}
      BY <2>1 DEF Publishing, Busy, Idle
    <2>3. Offered(s) /\ Coming(s) = store[s]
      BY <2>1, <2>2 DEF CatalogInv, Sound, Underway, Coming, ToBeRead, ToBeMerged
    <2> QED BY <2>3 DEF Offered, Agrees, None
  <1> QED BY <1>1, CatalogInvariant, PTL
-----------------------------------------------------------------------------
(* The numbers of the listings *)

Open == {w \in Writers : writers[w] # Idle}
ToStore == {w \in Writers : writers[w].at = "write"}

\* Every request that has yet to store its listing finds a number left for it.
Room == IsFiniteSet(Open) /\ written + Cardinality(ToStore) <= MaxWrites

\* Nobody knows a listing that was not written.
Numbered ==
  /\ written \in 2..MaxWrites
  /\ \A s \in Skus : redis[s] <= written /\ store[s] <= written
  /\ \A w \in Writers : writers[w] # Idle => writers[w].listing <= written
  /\ \A n \in 1..Len(channel) : channel[n].listing <= written
  /\ hydration.at = "reply" =>
       \A s \in hydration.keys : hydration.payloads[s] <= written

Bounded ==
  /\ link \in BOOLEAN /\ hydration \in HydrationStates
  /\ unindexed \in SUBSET Fixtures /\ exposed \in SUBSET Skus
  /\ faults \in 0..MaxFaults /\ restarts \in 0..MaxRestarts

LEMMA StartRoom ==
  ASSUME CatalogTypes, Room, Numbered, NEW w \in Writers, NEW op, NEW s \in Skus,
         Start(w, op, s), written' = written
  PROVE  Room'
  <1>1. /\ writers[w] = Idle /\ written + Cardinality(Open) < MaxWrites
        /\ writers' = [writers EXCEPT ![w] = [at |-> "write", op |-> op, sku |-> s,
                                              listing |-> None]]
    BY DEF Start, Open
  <1>2. Open' = Open \cup {w} /\ ToStore' = ToStore \cup {w}
    BY <1>1 DEF CatalogTypes, Open, ToStore, Idle
  <1>3. ToStore \in SUBSET Open
    BY DEF ToStore, Open, Idle
  <1>4. /\ IsFiniteSet(ToStore) /\ Cardinality(ToStore) <= Cardinality(Open)
        /\ IsFiniteSet(Open')
    BY <1>2, <1>3, FS_Subset, FS_AddElement DEF Room
  <1>5. Cardinality(ToStore') <= Cardinality(ToStore) + 1
    <2>1. Cardinality(ToStore) \in Nat
      BY <1>4, FS_CardinalityType
    <2>2. Cardinality(ToStore \cup {w}) = IF w \in ToStore THEN Cardinality(ToStore)
                                           ELSE Cardinality(ToStore) + 1
      BY <1>4, FS_AddElement
    <2> QED BY <1>2, <2>1, <2>2
  <1>6. /\ Cardinality(ToStore') \in Nat /\ Cardinality(ToStore) \in Nat
        /\ Cardinality(Open) \in Nat /\ IsFiniteSet(ToStore')
    BY <1>2, <1>4, FS_AddElement, FS_CardinalityType DEF Room
  <1> QED BY <1>1, <1>4, <1>5, <1>6, CatalogAssumption DEF Room, Numbered

\* A request that ends, or stores what it has to, makes room.
LEMMA LeaveRoom ==
  ASSUME CatalogTypes, Room, NEW w \in Writers, NEW x, x.at # "write",
         writers[w] # Idle, writers' = [writers EXCEPT ![w] = x]
  PROVE  /\ IsFiniteSet(Open') /\ Cardinality(ToStore') \in Nat
         /\ Cardinality(ToStore') <= Cardinality(ToStore) /\ Cardinality(ToStore) \in Nat
         /\ writers[w].at = "write" => Cardinality(ToStore') + 1 = Cardinality(ToStore)
  <1>1. ToStore' = ToStore \ {w} /\ Open' \in SUBSET Open
    BY DEF CatalogTypes, ToStore, Open
  <1>2. ToStore \in SUBSET Open /\ (writers[w].at = "write" => w \in ToStore)
    BY DEF ToStore, Open, Idle
  <1>3. IsFiniteSet(ToStore) /\ IsFiniteSet(Open')
    BY <1>1, <1>2, FS_Subset DEF Room
  <1>4. Cardinality(ToStore) \in Nat
    BY <1>3, FS_CardinalityType
  <1>5. /\ IsFiniteSet(ToStore')
        /\ Cardinality(ToStore') = IF w \in ToStore THEN Cardinality(ToStore) - 1
                                   ELSE Cardinality(ToStore)
    BY <1>1, <1>3, FS_RemoveElement
  <1>6. Cardinality(ToStore') \in Nat
    BY <1>5, FS_CardinalityType
  <1> QED BY <1>2, <1>3, <1>4, <1>5, <1>6

LEMMA WriterDomains ==
  ASSUME CatalogInv, Room, Numbered, Bounded, NEW w \in Writers,
         Write(w) \/ DieUnpublished(w)
  PROVE  Room' /\ Numbered' /\ Bounded'
  <1> USE DEF CatalogInv
  <1>1. /\ writers[w] \in Requested /\ writers[w] # Idle
        /\ writers[w].sku \in Skus /\ writers[w].listing \in Nat
    <2>1. writers[w] \in {Idle} \cup Requested /\ writers[w].at # "idle"
      BY DEF Write, StoreListing, PublishEvent, DieUnpublished, CatalogTypes
    <2>2. writers[w] \in Requested /\ writers[w] # Idle
      BY <2>1, IdleByLabel
    <2> QED BY <2>2 DEF Requested
  <1>2. CASE StoreListing(w)
    <2>0. PICK l : /\ l = IF writers[w].op = "remove" THEN None ELSE written + 1
                   /\ written' = written + 1
                   /\ redis' = [redis EXCEPT ![writers[w].sku] = l]
                   /\ writers' = [writers EXCEPT ![w].at = "publish", ![w].listing = l]
      BY <1>2 DEF StoreListing
    <2>1. l \in Nat /\ l <= written'
      BY <2>0, CatalogAssumption DEF None, Numbered
    <2>2. /\ writers[w].at = "write"
          /\ UNCHANGED <<link, channel, hydration, unindexed, store, exposed, faults,
                         restarts>>
      BY <1>2 DEF StoreListing, server
    <2>3. PICK x : x = [writers[w] EXCEPT !.at = "publish", !.listing = l]
      OBVIOUS
    <2>4. x \in Requested /\ x.at = "publish" /\ x.listing = l
      BY <1>1, <2>1, <2>3 DEF Requested
    <2>5. writers' = [writers EXCEPT ![w] = x]
      BY <2>0, <2>3 DEF CatalogTypes
    <2>6. /\ IsFiniteSet(Open') /\ Cardinality(ToStore') \in Nat
          /\ Cardinality(ToStore') + 1 = Cardinality(ToStore) /\ Cardinality(ToStore) \in Nat
      BY <1>1, <2>2, <2>4, <2>5, LeaveRoom
    <2>7. written' \in 2..MaxWrites /\ written \in Nat /\ written <= written'
      BY <2>0, <2>6, CatalogAssumption DEF Room, Numbered
    <2>8. Room'
      BY <2>0, <2>6, CatalogAssumption DEF Room, Numbered
    <2>9. Numbered'
      <3>1. ASSUME NEW s \in Skus PROVE redis'[s] <= written' /\ store'[s] <= written'
        <4>1. redis[s] \in Nat /\ store[s] \in Nat /\ redis[s] <= written /\ store[s] <= written
          BY DEF Numbered, CatalogTypes
        <4>2. redis'[s] = l \/ redis'[s] = redis[s]
          BY <2>0 DEF CatalogTypes
        <4> QED BY <2>1, <2>2, <2>7, <4>1, <4>2
      <3>2. ASSUME NEW v \in Writers, writers'[v] # Idle
            PROVE  writers'[v].listing <= written'
        <4>1. CASE v = w
          BY <2>1, <2>4, <2>5, <4>1 DEF CatalogTypes
        <4>2. CASE v # w
          <5>1. writers[v] \in Requested /\ writers[v] # Idle /\ writers'[v] = writers[v]
            BY <2>5, <3>2, <4>2 DEF CatalogTypes
          <5> QED BY <2>7, <5>1 DEF Numbered, Requested
        <4> QED BY <4>1, <4>2
      <3>3. ASSUME NEW n \in 1..Len(channel) PROVE channel[n].listing <= written'
        <4>1. channel[n].listing \in Nat /\ channel[n].listing <= written
          <5>1. channel \in Seq(Events) /\ channel[n].listing <= written
            BY DEF Numbered, CatalogTypes
          <5>2. channel[n] \in Events
            BY <5>1
          <5> QED BY <5>1, <5>2 DEF Events
        <4> QED BY <2>7, <4>1
      <3>4. ASSUME hydration.at = "reply", NEW s \in hydration.keys
            PROVE  hydration.payloads[s] <= written'
        <4>1. hydration.payloads[s] \in Nat
          BY <3>4 DEF CatalogTypes, Hydrating
        <4> QED BY <2>7, <3>4, <4>1 DEF Numbered
      <3> QED BY <2>2, <2>7, <3>1, <3>2, <3>3, <3>4 DEF Numbered
    <2> QED BY <2>2, <2>8, <2>9 DEF Bounded
  <1>3. CASE PublishEvent(w) \/ DieUnpublished(w)
    <2>1. /\ writers' = [writers EXCEPT ![w] = Idle]
          /\ UNCHANGED <<redis, written, link, hydration, unindexed, store, restarts>>
      BY <1>3 DEF PublishEvent, DieUnpublished, server
    <2>2. faults' \in 0..MaxFaults
      BY <1>3, CatalogAssumption DEF PublishEvent, DieUnpublished, Fault, Bounded
    <2>3. exposed' \in SUBSET Skus
      <3>1. exposed' = exposed \/ exposed' = exposed \cup {writers[w].sku}
                               \/ exposed' = exposed \cup {}
        BY <1>3 DEF PublishEvent, DieUnpublished, Lose, Expose
      <3> QED BY <1>1, <3>1 DEF Bounded
    <2>4. \A n \in 1..Len(channel') : channel'[n].listing <= written
      <3>1. CASE channel' = channel
        BY <3>1 DEF Numbered
      <3>2. CASE channel' = Append(channel, [sku |-> writers[w].sku,
                                             listing |-> writers[w].listing])
        BY <1>1, <3>2 DEF Numbered, CatalogTypes
      <3> QED BY <1>3, <3>1, <3>2 DEF PublishEvent, DieUnpublished, server
    <2>5. /\ IsFiniteSet(Open') /\ Cardinality(ToStore') \in Nat
          /\ Cardinality(ToStore') <= Cardinality(ToStore) /\ Cardinality(ToStore) \in Nat
      BY <1>1, <2>1, LeaveRoom DEF Idle
    <2>6. Room'
      BY <2>1, <2>5, CatalogAssumption DEF Room, Numbered
    <2>7. \A v \in Writers : writers'[v] # Idle => writers'[v] = writers[v]
      BY <2>1 DEF CatalogTypes
    <2>8. Numbered'
      BY <2>1, <2>4, <2>7 DEF Numbered
    <2> QED BY <2>1, <2>2, <2>3, <2>6, <2>8 DEF Bounded
  <1> QED BY <1>2, <1>3 DEF Write

LEMMA RequestDomains ==
  ASSUME CatalogInv, Room, Numbered, Bounded, NEW w \in Writers, NEW s \in Skus,
         IndexFixture(w, s) \/ \E op \in {"upsert", "delta", "remove"} : BeginWrite(w, op, s)
  PROVE  Room' /\ Numbered' /\ Bounded'
  <1> USE DEF CatalogInv
  <1>1. /\ UNCHANGED <<redis, written, link, channel, hydration, store, restarts>>
        /\ unindexed' \in SUBSET Fixtures /\ faults' \in 0..MaxFaults
    BY CatalogAssumption DEF IndexFixture, BeginWrite, server, Fault, Bounded
  <1>2. CASE \E op \in {"upsert", "delta", "remove"} : Start(w, op, s)
    <2>1. PICK op \in {"upsert", "delta", "remove"} : Start(w, op, s)
      BY <1>2
    <2>2. Room'
      BY <1>1, <2>1, StartRoom
    <2>3. exposed' \in SUBSET Skus
      BY <2>1 DEF Start, Expose, Bounded
    <2>4. ASSUME NEW v \in Writers, writers'[v] # Idle
          PROVE  writers'[v].listing <= written
      <3>1. writers' = [writers EXCEPT ![w] = [at |-> "write", op |-> op, sku |-> s,
                                               listing |-> 0]]
        BY <2>1 DEF Start, None
      <3>2. CASE v = w
        BY <3>1, <3>2 DEF CatalogTypes, Numbered
      <3>3. CASE v # w
        <4>1. writers'[v] = writers[v]
          BY <3>1, <3>3 DEF CatalogTypes
        <4> QED BY <2>4, <4>1 DEF Numbered
      <3> QED BY <3>2, <3>3
    <2>5. Numbered'
      BY <1>1, <2>4 DEF Numbered
    <2> QED BY <1>1, <2>2, <2>3, <2>5 DEF Bounded
  <1>3. CASE UNCHANGED <<writers, exposed>>
    BY <1>1, <1>3 DEF Room, Open, ToStore, Numbered, Bounded
  <1> QED BY <1>2, <1>3 DEF IndexFixture, BeginWrite

LEMMA SubscriberDomains ==
  ASSUME CatalogInv, Room, Numbered, Bounded,
         Subscribe \/ Disconnect \/ HandleCatalogEvent
  PROVE  Room' /\ Numbered' /\ Bounded'
  <1> USE DEF CatalogInv
  <1>1. CASE Subscribe
    BY <1>1 DEF Subscribe, Room, Open, ToStore, Numbered, Bounded
  <1>2. CASE Disconnect
    <2>1. /\ UNCHANGED <<redis, written, writers, hydration, unindexed, store, restarts>>
          /\ link' = FALSE /\ channel' = <<>>
      BY <1>2 DEF Disconnect
    <2>2. exposed' \in SUBSET Skus /\ faults' \in 0..MaxFaults
      BY <1>2, CatalogAssumption DEF Disconnect, Expose, Fault, Bounded
    <2>3. \A n \in 1..Len(channel') : channel'[n].listing <= written
      BY <2>1
    <2> QED BY <2>1, <2>2, <2>3 DEF Room, Open, ToStore, Numbered, Bounded
  <1>3. CASE HandleCatalogEvent
    <2>1. PICK e : /\ e = Head(channel) /\ channel' = Tail(channel) /\ channel # <<>>
                   /\ store' = [store EXCEPT ![e.sku] = e.listing]
                   /\ exposed' = exposed \cup {e.sku} \/ exposed' = exposed \cup {}
                   /\ UNCHANGED <<redis, written, writers, link, hydration, unindexed,
                                  faults, restarts>>
      BY <1>3 DEF HandleCatalogEvent, Expose
    <2>2. /\ e = channel[1] /\ 1 \in 1..Len(channel) /\ e.sku \in Skus
          /\ Len(channel') = Len(channel) - 1
          /\ \A n \in 1..Len(channel') : channel'[n] = channel[n + 1]
      <3>1. channel \in Seq(Events) /\ Len(channel) \in Nat /\ Len(channel) # 0
        BY <2>1 DEF CatalogTypes
      <3>2. e = channel[1] /\ 1 \in 1..Len(channel)
        BY <2>1, <3>1
      <3>3. channel[1] \in Events
        BY <3>1, <3>2
      <3>4. /\ Len(Tail(channel)) = Len(channel) - 1
            /\ \A n \in 1..Len(Tail(channel)) : Tail(channel)[n] = channel[n + 1]
        BY <2>1, <3>1
      <3> QED BY <2>1, <3>2, <3>3, <3>4 DEF Events
    <2>3. e.listing <= written
      BY <2>2 DEF Numbered
    <2>4. \A n \in 1..Len(channel') : channel'[n].listing <= written
      <3> SUFFICES ASSUME NEW n \in 1..Len(channel') PROVE channel'[n].listing <= written
        OBVIOUS
      <3>1. n + 1 \in 1..Len(channel) /\ channel'[n] = channel[n + 1]
        BY <2>2 DEF CatalogTypes
      <3> QED BY <3>1 DEF Numbered
    <2>5. \A s \in Skus : store'[s] <= written
      BY <2>1, <2>3 DEF Numbered, CatalogTypes
    <2>6. exposed' \in SUBSET Skus
      BY <2>1, <2>2 DEF Bounded
    <2> QED BY <2>1, <2>4, <2>5, <2>6 DEF Room, Open, ToStore, Numbered, Bounded
  <1> QED BY <1>1, <1>2, <1>3

LEMMA HydrationDomains ==
  ASSUME CatalogInv, Room, Numbered, Bounded,
         ScanCatalogKeys \/ ReadListings \/ MergeListings \/ FailHydration \/ Restart
  PROVE  Room' /\ Numbered' /\ Bounded'
  <1> USE DEF CatalogInv
  <1>1. ASSUME UNCHANGED <<redis, written, writers>>,
               channel' = channel \/ channel' = <<>>, link' \in BOOLEAN,
               hydration' \in HydrationStates, unindexed' \in SUBSET Fixtures,
               exposed' \in SUBSET Skus, faults' \in 0..MaxFaults,
               restarts' \in 0..MaxRestarts, \A s \in Skus : store'[s] <= written,
               hydration'.at = "reply" =>
                 \A s \in hydration'.keys : hydration'.payloads[s] <= written
        PROVE  Room' /\ Numbered' /\ Bounded'
    BY <1>1 DEF Room, Open, ToStore, Numbered, Bounded
  <1>2. [at |-> "done"] \in HydrationStates /\ Scanning \in HydrationStates
    BY DEF HydrationStates, Scanning
  <1>3. CASE ScanCatalogKeys
    <2>1. hydration' \in HydrationStates /\ hydration'.at # "reply"
      BY <1>2, <1>3 DEF ScanCatalogKeys, HydrationStates
    <2> QED BY <1>1, <1>3, <2>1 DEF ScanCatalogKeys, Numbered, Bounded
  <1>4. CASE ReadListings
    <2>1. PICK f : /\ f = [s \in hydration.keys |-> redis[s]]
                   /\ hydration' = [at |-> "reply", keys |-> hydration.keys,
                                    payloads |-> f]
      BY <1>4 DEF ReadListings
    <2>2. hydration.keys \in SUBSET Skus
      BY <1>4 DEF ReadListings, CatalogTypes, Hydrating
    <2>3. \A s \in hydration.keys : f[s] \in Nat /\ f[s] <= written
      <3> SUFFICES ASSUME NEW s \in hydration.keys PROVE f[s] \in Nat /\ f[s] <= written
        OBVIOUS
      <3>1. s \in Skus /\ f[s] = redis[s]
        BY <2>1, <2>2
      <3>2. redis[s] \in Nat /\ redis[s] <= written
        BY <3>1 DEF CatalogTypes, Numbered
      <3> QED BY <3>1, <3>2
    <2>4. f \in [hydration.keys -> 0..MaxWrites]
      <3>1. \A s \in hydration.keys : f[s] \in 0..MaxWrites
        BY <2>3, CatalogAssumption DEF Numbered
      <3> QED BY <2>1, <3>1
    <2>5. hydration' \in [at: {"reply"}, keys: {hydration.keys},
                          payloads: [hydration.keys -> Listings]]
      BY <2>1, <2>4 DEF Listings
    <2>6. hydration' \in HydrationStates
      BY <2>2, <2>5 DEF HydrationStates
    <2>7. \A s \in hydration'.keys : hydration'.payloads[s] <= written
      BY <2>1, <2>3
    <2> QED BY <1>1, <1>4, <2>6, <2>7 DEF ReadListings, Numbered, Bounded
  <1>5. CASE MergeListings
    <2>1. hydration' = [at |-> "done"]
      BY <1>5 DEF MergeListings
    <2>2. ASSUME NEW s \in Skus PROVE store'[s] <= written
      <3>1. store'[s] = IF Payload(s) # None THEN Payload(s) ELSE store[s]
        BY <1>5 DEF MergeListings
      <3>2. Payload(s) # None => s \in hydration.keys /\ Payload(s) = hydration.payloads[s]
        BY DEF Payload
      <3> QED BY <1>5, <3>1, <3>2 DEF MergeListings, Numbered
    <2> QED BY <1>1, <1>2, <1>5, <2>1, <2>2 DEF MergeListings, Bounded
  <1>6. CASE FailHydration
    <2>1. exposed' \in SUBSET Skus /\ faults' \in 0..MaxFaults
      BY <1>6, CatalogAssumption DEF FailHydration, Expose, Fault, Bounded
    <2> QED BY <1>1, <1>2, <1>6, <2>1 DEF FailHydration, Numbered, Bounded
  <1>7. CASE Restart
    <2>1. restarts' \in 0..MaxRestarts
      BY <1>7, CatalogAssumption DEF Restart, Bounded
    <2>2. \A s \in Skus : store'[s] <= written
      BY <1>7, CatalogAssumption DEF Restart, Seeded, Fixture, None, Numbered
    <2>3. hydration'.at # "reply"
      BY <1>7 DEF Restart, Scanning
    <2> QED BY <1>1, <1>2, <1>7, <2>1, <2>2, <2>3 DEF Restart, Bounded
  <1> QED BY <1>3, <1>4, <1>5, <1>6, <1>7

LEMMA SequenceInto ==
  ASSUME NEW S, NEW T, NEW seq \in Seq(S), \A n \in 1..Len(seq) : seq[n] \in T
  PROVE  seq \in Seq(T)
  OBVIOUS

\* Every variable of the catalog stays in its domain: nobody, in Redis, on the wire or
\* in the server, knows a listing ahead of the last write, for any SKUs, requests,
\* faults and restarts.
THEOREM CatalogTypeCorrect == Spec => []TypeOK
  <1>1. Init => Room /\ Numbered /\ Bounded
    <2> SUFFICES ASSUME Init PROVE Room /\ Numbered /\ Bounded
      OBVIOUS
    <2>1. Open = {} /\ ToStore = {}
      BY DEF Init, Open, ToStore, Idle
    <2>2. Room
      BY <2>1, FS_EmptySet, CatalogAssumption DEF Init, Room
    <2>3. Numbered
      <3>1. written \in 2..MaxWrites
        BY CatalogAssumption DEF Init
      <3>2. ASSUME NEW s \in Skus PROVE redis[s] <= written /\ store[s] <= written
        <4>1. redis[s] \in {0, 2} /\ store[s] \in {0, 1} /\ written = 2
          BY DEF Init, None, Seeded, Fixture
        <4> QED BY <4>1
      <3>3. channel = <<>> /\ hydration.at # "reply" /\ \A w \in Writers : writers[w] = Idle
        BY DEF Init, Scanning
      <3>4. /\ \A w \in Writers : writers[w] # Idle => writers[w].listing <= written
            /\ \A n \in 1..Len(channel) : channel[n].listing <= written
        BY <3>3
      <3>5. hydration.at # "reply"
        BY <3>3
      <3> QED BY <3>1, <3>2, <3>4, <3>5 DEF Numbered
    <2>4. Bounded
      <3>1. hydration \in HydrationStates
        BY DEF Init, HydrationStates, Scanning
      <3>2. 0 \in 0..MaxFaults /\ 0 \in 0..MaxRestarts
        BY CatalogAssumption
      <3> QED BY <3>1, <3>2 DEF Init, Bounded
    <2> QED BY <2>2, <2>3, <2>4
  <1>2. CatalogInv /\ (Room /\ Numbered /\ Bounded) /\ [Next]_vars
          => (Room /\ Numbered /\ Bounded)'
    <2>1. CASE UNCHANGED vars
      BY <2>1 DEF vars, server, Room, Open, ToStore, Numbered, Bounded
    <2> QED BY <2>1, RequestDomains, WriterDomains, SubscriberDomains, HydrationDomains DEF Next
  <1>3. CatalogInv /\ (Room /\ Numbered /\ Bounded) => TypeOK
    <2> SUFFICES ASSUME CatalogInv, Room, Numbered, Bounded PROVE TypeOK
      OBVIOUS
    <2>1. redis \in [Skus -> 0..written] /\ store \in [Skus -> 0..written]
      BY DEF CatalogInv, CatalogTypes, Numbered
    <2>2. ASSUME NEW w \in Writers
          PROVE  writers[w] \in {Idle} \cup
                   [at: {"write", "publish"}, op: {"upsert", "delta", "remove"}, sku: Skus,
                    listing: 0..written]
      BY DEF CatalogInv, CatalogTypes, Numbered, Requested
    <2>3. channel \in Seq([sku: Skus, listing: 0..written])
      <3>1. channel \in Seq(Events)
        BY DEF CatalogInv, CatalogTypes
      <3>2. \A n \in 1..Len(channel) : channel[n] \in [sku: Skus, listing: 0..written]
        <4> SUFFICES ASSUME NEW n \in 1..Len(channel)
                     PROVE  channel[n] \in [sku: Skus, listing: 0..written]
          OBVIOUS
        <4>1. channel[n] \in Events /\ channel[n].listing <= written
          BY <3>1 DEF Numbered
        <4> QED BY <4>1 DEF Events, CatalogInv, CatalogTypes
      <3> QED BY <3>1, <3>2, SequenceInto
    <2> QED BY <2>1, <2>2, <2>3 DEF TypeOK, Bounded, Numbered, CatalogInv, CatalogTypes
  <1> QED BY CatalogInvariant, <1>1, <1>2, <1>3, PTL DEF Spec
=============================================================================
