--------------------------- MODULE CompensationDlq ---------------------------
(***************************************************************************)
(* The rollback of split transfers in detail: compensateTransfers, the     *)
(* Redis queue CompensationDlq it hands failed reversals to, the           *)
(* CompensationDlqWorkers that drain the queue, and the provider that      *)
(* executes reversals.                                                     *)
(*                                                                         *)
(* Every Redis command and every provider call is a step of its own.  A    *)
(* request to the provider stays on the wire until it is handled, so one   *)
(* that its caller gave up on may still be executed later.                 *)
(***************************************************************************)
EXTENDS Integers, Sequences, FiniteSets

CONSTANTS
  Compensators,        \* concurrent calls of compensateTransfers
  Workers,             \* loops of CompensationDlqWorker
  LegCount,            \* completed transfers to roll back, newest = LegCount
  MaxRetries,          \* maxRetries of an event
  Faults               \* "refusal", "lostReply", "redis", "crash", as in SettlementSaga

ASSUME DlqAssumption ==
  /\ Compensators \cap Workers = {}
  /\ LegCount \in Nat \ {0} /\ MaxRetries \in Nat \ {0}
  /\ Faults \subseteq {"refusal", "lostReply", "redis", "crash"}

VARIABLES
  pc,         \* where each compensator and each worker is
  leg,        \* the transfer a compensator handles, counting down to 0
  hand,       \* the event a worker has popped
  pending,    \* razoragent:dlq:pending, oldest first
  dead,       \* razoragent:dlq:dead_letter
  tombstones, \* razoragent:dlq:compensated:* keys
  idempotent, \* razoragent:dlq:idemp:* keys
  lost,       \* transfers logged as "2PC compensation LOST"
  wire,       \* reversal requests the provider has not handled
  reply,      \* the answer waiting for a client
  seenKeys,   \* idempotency keys the provider remembers
  refunds     \* how often the provider has reversed a transfer

queues == <<pending, dead>>
keys == <<tombstones, idempotent>>
provider == <<wire, reply, seenKeys, refunds>>
vars == <<pc, leg, hand, queues, keys, lost, provider>>

Transfers == 1..LegCount
Clients == Compensators \cup Workers
Events == [transfer : Transfers, retries : 0..MaxRetries]

\* Mutant: the saga does not use the queue's prefix.
InlineKeyOfItsOwn(t) == <<"rev", t>>

\* cmp_<transferId>, built by the saga for the inline reversal ...
InlineKey(t) == <<"cmp", t>>

\* ... and by the DLQ for its event, independently.
EventKey(t) == <<"cmp", t>>

Init ==
  /\ pc = [c \in Clients |-> IF c \in Workers THEN "off" ELSE "check"]
  /\ leg = [s \in Compensators |-> LegCount]
  /\ hand = [w \in Workers |-> {}]
  /\ pending = <<>> /\ dead = {}
  /\ tombstones = {} /\ idempotent = {} /\ lost = {}
  /\ wire = {} /\ reply = [c \in Clients |-> "none"]
  /\ seenKeys = {} /\ refunds = [t \in Transfers |-> 0]

Goto(c, l) == pc' = [pc EXCEPT ![c] = l]

\* What a client at "send" or "wait" reverses, and under which key.
Subject(c) == IF c \in Workers THEN CHOOSE e \in hand[c] : TRUE
              ELSE [transfer |-> leg[c], retries |-> 0]
Request(c) == [client |-> c, event |-> Subject(c),
               key |-> IF c \in Workers THEN EventKey(Subject(c).transfer)
                       ELSE InlineKey(Subject(c).transfer)]
-----------------------------------------------------------------------------
(* The provider and the HTTP call *)

SendReversal(c) ==
  /\ pc[c] = "send"
  /\ wire' = wire \cup {Request(c)}
  /\ reply' = [reply EXCEPT ![c] = "none"]
  /\ Goto(c, "wait")
  /\ UNCHANGED <<leg, hand, queues, keys, lost, seenKeys, refunds>>

\* Nobody reads the answer to a request its caller has given up on.
Answer(r, outcome) ==
  /\ wire' = wire \ {r}
  /\ reply' = IF pc[r.client] = "wait" /\ Request(r.client) = r
              THEN [reply EXCEPT ![r.client] = outcome] ELSE reply

\* A key the provider has seen gets its old answer and moves no money again.
ExecuteReversal(r) ==
  /\ r \in wire
  /\ Answer(r, "ok")
  /\ seenKeys' = seenKeys \cup {r.key}
  /\ refunds' = IF r.key \in seenKeys THEN refunds
                ELSE [refunds EXCEPT ![r.event.transfer] = @ + 1]
  /\ UNCHANGED <<pc, leg, hand, queues, keys, lost>>

RefuseReversal(r) ==
  /\ "refusal" \in Faults
  /\ r \in wire
  /\ Answer(r, "error")
  /\ UNCHANGED <<pc, leg, hand, queues, keys, lost, seenKeys, refunds>>
-----------------------------------------------------------------------------
(* compensateTransfers *)

\* The saga turns to the next older transfer, or is done.
NextLeg(s) ==
  /\ leg' = [leg EXCEPT ![s] = @ - 1]
  /\ Goto(s, IF leg[s] = 1 THEN "done" ELSE "check")

\* A transfer with a tombstone is skipped; a lookup that fails is ignored.
CheckBeforeReversal(s) ==
  /\ pc[s] = "check"
  /\ \/ leg[s] \in tombstones /\ NextLeg(s)
     \/ leg[s] \notin tombstones /\ Goto(s, "send") /\ UNCHANGED leg
     \/ "redis" \in Faults /\ Goto(s, "send") /\ UNCHANGED leg
  /\ UNCHANGED <<hand, queues, keys, lost, provider>>

\* A reply, or the client's timeout, which leaves the request on its way.
AwaitReversal(c, onSuccess, onFailure) ==
  /\ pc[c] = "wait"
  /\ \/ reply[c] = "ok" /\ onSuccess
     \/ reply[c] = "error" /\ onFailure
     \/ "lostReply" \in Faults /\ onFailure

\* Mutant: the tombstone is written whatever the outcome.
AwaitInlineMarkingAnyway(s) ==
  /\ AwaitReversal(s, Goto(s, "mark"), Goto(s, "mark"))
  /\ UNCHANGED <<leg, hand, queues, keys, lost, provider>>

AwaitInline(s) ==
  /\ AwaitReversal(s, Goto(s, "mark"), Goto(s, "recheck"))
  /\ UNCHANGED <<leg, hand, queues, keys, lost, provider>>

\* markCompensated; its failure is logged and the loop goes on.
MarkInline(s) ==
  /\ pc[s] = "mark"
  /\ \/ tombstones' = tombstones \cup {leg[s]}
     \/ "redis" \in Faults /\ UNCHANGED tombstones
  /\ NextLeg(s)
  /\ UNCHANGED <<hand, queues, idempotent, lost, provider>>

\* Any exception of enqueueReversal is logged as LOST and the loop goes on.
LoseLeg(s) ==
  /\ "redis" \in Faults
  /\ lost' = lost \cup {leg[s]}
  /\ NextLeg(s)

\* enqueueReversal, first lookup: the tombstone.
EnqueueRecheck(s) ==
  /\ pc[s] = "recheck"
  /\ \/ leg[s] \in tombstones /\ NextLeg(s) /\ UNCHANGED lost
     \/ leg[s] \notin tombstones /\ Goto(s, "lookup") /\ UNCHANGED <<leg, lost>>
     \/ LoseLeg(s)
  /\ UNCHANGED <<hand, queues, keys, provider>>

\* Second lookup: an event recorded under the same idempotency key is returned.
EnqueueLookup(s) ==
  /\ pc[s] = "lookup"
  /\ \/ leg[s] \in idempotent /\ NextLeg(s) /\ UNCHANGED lost
     \/ leg[s] \notin idempotent /\ Goto(s, "claim") /\ UNCHANGED <<leg, lost>>
     \/ LoseLeg(s)
  /\ UNCHANGED <<hand, queues, keys, provider>>

\* SET NX of the idempotency key, whose result is not looked at, and the event
\* record, which no code reads.
EnqueueClaim(s) ==
  /\ pc[s] = "claim"
  /\ \/ /\ idempotent' = idempotent \cup {leg[s]}
        /\ Goto(s, "push") /\ UNCHANGED <<leg, lost>>
     \/ /\ idempotent' \in {idempotent, idempotent \cup {leg[s]}}
        /\ LoseLeg(s)
  /\ UNCHANGED <<hand, queues, tombstones, provider>>

NewEvent(s) == [transfer |-> leg[s], retries |-> 0]

\* RPUSH.
EnqueuePush(s) ==
  /\ pc[s] = "push"
  /\ \/ /\ pending' = Append(pending, NewEvent(s))
        /\ NextLeg(s) /\ UNCHANGED lost
     \/ /\ pending' \in {pending, Append(pending, NewEvent(s))}
        /\ LoseLeg(s)
  /\ UNCHANGED <<hand, dead, keys, provider>>
-----------------------------------------------------------------------------
(* CompensationDlqWorker.processNext, called by runWorkerLoop *)

\* Somebody starts the loop; no code of the repository does.
StartWorker(w) ==
  /\ pc[w] \in {"off", "failed"}
  /\ Goto(w, "poll")
  /\ UNCHANGED <<leg, hand, queues, keys, lost, provider>>

\* An exception leaves processNext and with it the loop; the event is dropped.
FailLoop(w) ==
  /\ "redis" \in Faults
  /\ Goto(w, "failed")
  /\ hand' = [hand EXCEPT ![w] = {}]

Finish(w) == Goto(w, "poll") /\ hand' = [hand EXCEPT ![w] = {}]

\* LPOP.
PopEvent(w) ==
  /\ pc[w] = "poll" /\ pending # <<>>
  /\ \/ /\ pending' = Tail(pending)
        /\ hand' = [hand EXCEPT ![w] = {Head(pending)}]
        /\ Goto(w, "check")
     \/ /\ pending' \in {pending, Tail(pending)}
        /\ FailLoop(w)
  /\ UNCHANGED <<leg, dead, keys, lost, provider>>

\* Mutant: a retry does not look for the tombstone.
CheckEventFirstTimeOnly(w) ==
  /\ pc[w] = "check"
  /\ \/ Subject(w).transfer \in tombstones /\ Subject(w).retries = 0 /\ Finish(w)
     \/ /\ Subject(w).retries > 0 \/ Subject(w).transfer \notin tombstones
        /\ Goto(w, "send") /\ UNCHANGED hand
     \/ FailLoop(w)
  /\ UNCHANGED <<leg, queues, keys, lost, provider>>

\* The tombstone lookup stands outside the try block.
CheckEvent(w) ==
  /\ pc[w] = "check"
  /\ \/ Subject(w).transfer \in tombstones /\ Finish(w)
     \/ Subject(w).transfer \notin tombstones /\ Goto(w, "send") /\ UNCHANGED hand
     \/ FailLoop(w)
  /\ UNCHANGED <<leg, queues, keys, lost, provider>>

\* Mutant: retries are not counted.
RetryUncounted(w) ==
  LET n == Subject(w).retries + 1
  IN
  /\ Goto(w, IF n >= MaxRetries THEN "escalate" ELSE "requeue")
  /\ UNCHANGED hand

\* The except block: one more retry is counted, and the last one escalates.  The
\* backoff sleep is the time a worker spends at "requeue".
CountRetry(w) ==
  LET n == Subject(w).retries + 1
  IN
  /\ hand' = [hand EXCEPT ![w] = {[Subject(w) EXCEPT !.retries = n]}]
  /\ Goto(w, IF n >= MaxRetries THEN "escalate" ELSE "requeue")

\* Mutant: a reversal that failed is dropped instead of retried.
AwaitEventDroppingFailures(w) ==
  /\ AwaitReversal(w, Goto(w, "mark") /\ UNCHANGED hand, Finish(w))
  /\ UNCHANGED <<leg, queues, keys, lost, provider>>

AwaitEvent(w) ==
  /\ AwaitReversal(w, Goto(w, "mark") /\ UNCHANGED hand, CountRetry(w))
  /\ UNCHANGED <<leg, queues, keys, lost, provider>>

\* markCompensated is inside the try block: its failure counts as a failed
\* reversal.
MarkEvent(w) ==
  /\ pc[w] = "mark"
  /\ \/ /\ tombstones' = tombstones \cup {Subject(w).transfer}
        /\ Finish(w)
     \/ /\ "redis" \in Faults
        /\ tombstones' \in {tombstones, tombstones \cup {Subject(w).transfer}}
        /\ CountRetry(w)
  /\ UNCHANGED <<leg, queues, idempotent, lost, provider>>

\* requeueEvent, outside the try block.
RequeueEvent(w) ==
  /\ pc[w] = "requeue"
  /\ \/ pending' = Append(pending, Subject(w)) /\ Finish(w)
     \/ pending' \in {pending, Append(pending, Subject(w))} /\ FailLoop(w)
  /\ UNCHANGED <<leg, dead, keys, lost, provider>>

\* escalateToDeadLetter, likewise.
EscalateEvent(w) ==
  /\ pc[w] = "escalate"
  /\ \/ dead' = dead \cup {Subject(w)} /\ Finish(w)
     \/ dead' \in {dead, dead \cup {Subject(w)}} /\ FailLoop(w)
  /\ UNCHANGED <<leg, pending, keys, lost, provider>>
-----------------------------------------------------------------------------
\* A process dies; a worker's process may be started again.
Crash(c) ==
  /\ "crash" \in Faults
  /\ pc[c] \notin {"off", "failed", "done"}
  /\ Goto(c, IF c \in Workers THEN "off" ELSE "crashed")
  /\ hand' = IF c \in Workers THEN [hand EXCEPT ![c] = {}] ELSE hand
  /\ UNCHANGED <<leg, queues, keys, lost, provider>>

Compensate(s) ==
  \/ CheckBeforeReversal(s) \/ SendReversal(s) \/ AwaitInline(s) \/ MarkInline(s)
  \/ EnqueueRecheck(s) \/ EnqueueLookup(s) \/ EnqueueClaim(s) \/ EnqueuePush(s)

Work(w) ==
  \/ PopEvent(w) \/ CheckEvent(w) \/ SendReversal(w) \/ AwaitEvent(w) \/ MarkEvent(w)
  \/ RequeueEvent(w) \/ EscalateEvent(w)

Next ==
  \/ \E s \in Compensators : Compensate(s) \/ Crash(s)
  \/ \E w \in Workers : StartWorker(w) \/ Work(w) \/ Crash(w)
  \/ \E r \in wire : ExecuteReversal(r) \/ RefuseReversal(r)

Spec == Init /\ [][Next]_vars

\* Fairness of the asyncio loops and of whoever starts the workers.  The provider
\* owes nothing: a caller gives up after timeoutSeconds.
FairSpec ==
  /\ Spec
  /\ \A s \in Compensators : WF_vars(Compensate(s))
  /\ \A w \in Workers : WF_vars(StartWorker(w)) /\ WF_vars(Work(w))
-----------------------------------------------------------------------------
(* Where a reversal can be *)

Waiting(t) == {i \in 1..Len(pending) : pending[i].transfer = t}
Holding(t) == {w \in Workers : \E e \in hand[w] : e.transfer = t}
Buried(t) == {e \in dead : e.transfer = t}
Pushing(t) == {s \in Compensators : pc[s] \in {"claim", "push"} /\ leg[s] = t}
Passed(t) == \E s \in Compensators : leg[s] < t
Returned(t) == refunds[t] > 0

\* Somebody is in charge of a transfer that is queued, in a hand, with the operator
\* or about to be queued.
InCharge(t) == Waiting(t) # {} \/ Holding(t) # {} \/ Buried(t) # {} \/ Pushing(t) # {}

Promise == INSTANCE RefundPromise WITH
  Sagas <- Compensators, Unreliable <- Faults \cap {"redis", "crash"} # {},
  turn <- leg, repaid <- refunds, charged <- {t \in Transfers : InCharge(t)},
  recorded <- tombstones
-----------------------------------------------------------------------------
(* Safety *)

\* Every variable stays in its domain; an event is popped before it is processed
\* and its retries never exceed the limit.
TypeOK ==
  /\ pc \in [Clients -> {"check", "send", "wait", "mark", "recheck", "lookup", "claim",
                         "push", "done", "crashed", "off", "failed", "poll", "requeue",
                         "escalate"}]
  /\ leg \in [Compensators -> 0..LegCount]
  /\ hand \in [Workers -> SUBSET Events]
  /\ \A w \in Workers :
       IF pc[w] \in {"off", "failed", "poll"} THEN hand[w] = {}
       ELSE \E e \in Events : hand[w] = {e}
  /\ pending \in Seq(Events) /\ dead \subseteq Events
  /\ tombstones \subseteq Transfers /\ idempotent \subseteq Transfers
  /\ lost \subseteq Transfers
  /\ \A r \in wire : r.client \in Clients /\ r.event \in Events
  /\ reply \in [Clients -> {"none", "ok", "error"}]
  /\ refunds \in [Transfers -> Nat]

\* A transfer is reversed at most once, although the saga and the workers both
\* try, retry after timeouts and may be overtaken by requests they gave up on.
RefundedAtMostOnce == \A t \in Transfers : refunds[t] <= 1

\* A tombstone, which makes everyone skip the transfer for good, is never ahead
\* of the money.
TombstoneMeansRefund == \A t \in tombstones : Returned(t)

\* A failed reversal is in one place: one entry of the queue, one worker's hand
\* or the dead letters.
SingleCustody ==
  \A t \in Transfers :
    Cardinality(Waiting(t)) + Cardinality(Holding(t)) + Cardinality(Buried(t)) <= 1

\* No reversal is forgotten: once a saga has passed a transfer it is refunded, in
\* the queue, with a worker or among the dead letters.
NothingForgotten ==
  \A t \in Transfers :
    Passed(t) => \/ Returned(t)
                 \/ Waiting(t) \cup Holding(t) \cup Pushing(t) # {}
                 \/ Buried(t) # {}

\* The Redis queue, its workers and the late answers of the provider implement the
\* promise: whatever they do is a repayment, a record, a charge taken or released, or
\* a saga going on to its next transfer.
KeepsRefundPromise == Promise!Spec

\* With one saga per transfer, nobody asks the provider to reverse a transfer whose
\* refund is on record, not even after a Redis error made a worker count the
\* recorded success as a failure.
NoReversalAfterTombstone ==
  [][\A r \in wire' \ wire : r.event.transfer \notin tombstones]_vars

\* Whatever enters the queue is eventually refunded or handed to an operator.
QueueDrains ==
  \A t \in Transfers : Waiting(t) # {} ~> t \in tombstones \/ Buried(t) # {}
=============================================================================
