----------------------- MODULE CompensationDlq_proofs -----------------------
(***************************************************************************)
(* Proofs about CompensationDlq, for any number of workers and legs.       *)
(* What is at the provider and in the ledger holds for any sagas and under *)
(* every fault; what a queue keeps, under the assumptions named there.     *)
(***************************************************************************)
EXTENDS CompensationDlq, FiniteSetTheorems, TLAPS

WorkerPCs == {"off", "failed", "poll", "check", "send", "wait", "mark", "requeue",
              "escalate"}
SagaPCs == {"check", "send", "wait", "mark", "recheck", "lookup", "claim", "push",
            "done", "crashed"}
Handling == {"check", "send", "wait", "mark", "requeue"}

\* Who is where with what: a saga that is not done has a leg, and an event that is
\* not up for escalation has a retry left.
Place(c) == pc[c] \in IF c \in Workers THEN WorkerPCs ELSE SagaPCs
SagaPlaced(s) ==
  leg[s] \in 0..LegCount /\ (pc[s] # "done" => leg[s] \in Transfers)
WorkerPlaced(w) ==
  /\ hand[w] \subseteq Events
  /\ IF pc[w] \in {"off", "failed", "poll"} THEN hand[w] = {}
     ELSE \E e \in Events : hand[w] = {e}
  /\ pc[w] \in Handling => \A e \in hand[w] : e.retries < MaxRetries

Placed ==
  /\ DOMAIN pc = Clients /\ pc = [c \in Clients |-> pc[c]]
  /\ DOMAIN leg = Compensators /\ leg = [s \in Compensators |-> leg[s]]
  /\ DOMAIN hand = Workers /\ hand = [w \in Workers |-> hand[w]]
  /\ \A c \in Clients : Place(c)
  /\ \A s \in Compensators : SagaPlaced(s)
  /\ \A w \in Workers : WorkerPlaced(w)

\* What is stored is well formed, and every queued event has a retry left.
Stored ==
  /\ pending \in Seq(Events) /\ dead \subseteq Events
  /\ \A n \in 1..Len(pending) : pending[n].retries < MaxRetries
  /\ tombstones \subseteq Transfers /\ idempotent \subseteq Transfers
  /\ lost \subseteq Transfers

Wired ==
  /\ \A r \in wire : r.client \in Clients /\ r.event \in Events
  /\ reply \in [Clients -> {"none", "ok", "error"}]

Control == Placed /\ Stored /\ Wired

\* The provider's memory of the keys is what keeps refunds at one: every request
\* for a transfer carries the one key of that transfer.  An answer "ok" that a
\* client still waits for, and a client about to write a tombstone, are behind the
\* refund.
Money ==
  /\ \A r \in wire : r.key = <<"cmp", r.event.transfer>>
  /\ refunds = [t \in Transfers |-> IF <<"cmp", t>> \in seenKeys THEN 1 ELSE 0]
  /\ \A c \in Clients :
       /\ pc[c] = "wait" /\ reply[c] = "ok" => Returned(Subject(c).transfer)
       /\ pc[c] = "mark" => Returned(Subject(c).transfer)
  /\ \A t \in tombstones : Returned(t)

DlqInv == Control /\ Money
-----------------------------------------------------------------------------
(* The event or leg a client is at *)

\* A worker at work on an event has exactly that one in hand; a saga its own leg.
LEMMA SubjectIsEvent ==
  ASSUME Control, NEW c \in Clients, pc[c] \notin {"off", "failed", "poll", "done"}
  PROVE  /\ Subject(c) \in Events
         /\ c \in Workers => hand[c] = {Subject(c)}
         /\ c \notin Workers => c \in Compensators /\ Subject(c).transfer = leg[c]
  <1>1. CASE c \in Workers
    <2>1. PICK e \in Events : hand[c] = {e}
      BY <1>1 DEF Control, Placed, WorkerPlaced
    <2>2. (CHOOSE x \in hand[c] : TRUE) = e
      BY <2>1
    <2> QED BY <1>1, <2>1, <2>2 DEF Subject
  <1>2. CASE c \notin Workers
    <2>1. c \in Compensators /\ leg[c] \in Transfers
      BY <1>2 DEF Clients, Control, Placed, SagaPlaced
    <2>2. 0 \in 0..MaxRetries
      BY DlqAssumption
    <2> QED BY <1>2, <2>1, <2>2 DEF Subject, Events
  <1> QED BY <1>1, <1>2

\* Whoever keeps hand and leg keeps the subject.
LEMMA SameSubject ==
  ASSUME NEW c, c \in Workers => hand'[c] = hand[c], c \notin Workers => leg'[c] = leg[c]
  PROVE  Subject(c)' = Subject(c)
  <1>1. CASE c \in Workers
    <2>1. Subject(c) = CHOOSE e \in hand[c] : TRUE
      BY <1>1 DEF Subject
    <2>2. Subject(c)' = CHOOSE e \in hand'[c] : TRUE
      BY <1>1 DEF Subject
    <2> QED BY <1>1, <2>1, <2>2
  <1>2. CASE c \notin Workers
    BY <1>2 DEF Subject
  <1> QED BY <1>1, <1>2
-----------------------------------------------------------------------------
(* Control *)

\* A saga moves alone: everybody else stays where it is.
LEMMA SagaMoves ==
  ASSUME Placed, NEW s \in Compensators, NEW l \in SagaPCs, Goto(s, l), hand' = hand,
         \/ leg' = leg /\ l # "done" /\ pc[s] # "done"
         \/ leg' = leg /\ l = "crashed" /\ pc[s] # "done"
         \/ /\ leg' = [leg EXCEPT ![s] = @ - 1] /\ leg[s] \in Transfers
            /\ l = IF leg[s] = 1 THEN "done" ELSE "check"
  PROVE  Placed'
  <1>1. s \in Clients /\ s \notin Workers
    BY DlqAssumption DEF Clients
  <1>2. pc' = [c \in Clients |-> IF c = s THEN l ELSE pc[c]]
    BY <1>1 DEF Placed, Goto
  <1>3. /\ pc'[s] = l /\ \A c \in Clients : c # s => pc'[c] = pc[c]
        /\ DOMAIN pc' = Clients /\ pc' = [c \in Clients |-> pc'[c]]
    BY <1>1, <1>2
  <1>4. /\ \A c \in Compensators : c # s => leg'[c] = leg[c]
        /\ DOMAIN leg' = Compensators /\ leg' = [c \in Compensators |-> leg'[c]]
    BY DEF Placed
  <1>5. \A c \in Clients : Place(c)'
    BY <1>1, <1>3 DEF Placed, Place
  <1>6. \A w \in Workers : WorkerPlaced(w)'
    <2> TAKE w \in Workers
    <2>1. w # s /\ pc'[w] = pc[w] /\ WorkerPlaced(w)
      BY <1>1, <1>3 DEF Clients, Placed
    <2> QED BY <2>1 DEF WorkerPlaced
  <1>7. SagaPlaced(s)'
    <2>1. SagaPlaced(s) /\ LegCount \in Nat
      BY DlqAssumption DEF Placed
    <2>2. CASE leg' = leg
      BY <1>3, <2>1, <2>2 DEF SagaPlaced
    <2>3. CASE /\ leg' = [leg EXCEPT ![s] = @ - 1] /\ leg[s] \in Transfers
               /\ l = IF leg[s] = 1 THEN "done" ELSE "check"
      <3>1. leg'[s] = leg[s] - 1
        BY <2>3 DEF Placed
      <3> QED BY <1>3, <2>1, <2>3, <3>1 DEF SagaPlaced, Transfers
    <2> QED BY <2>2, <2>3
  <1>8. \A c \in Compensators : SagaPlaced(c)'
    <2> TAKE c \in Compensators
    <2>1. CASE c = s
      BY <1>7, <2>1
    <2>2. CASE c # s
      <3>1. leg'[c] = leg[c] /\ pc'[c] = pc[c] /\ SagaPlaced(c)
        BY <1>3, <1>4, <2>2 DEF Clients, Placed
      <3> QED BY <3>1 DEF SagaPlaced
    <2> QED BY <2>1, <2>2
  <1>9. DOMAIN hand' = Workers /\ hand' = [w \in Workers |-> hand'[w]]
    BY DEF Placed
  <1> QED BY <1>3, <1>4, <1>5, <1>6, <1>8, <1>9 DEF Placed

\* A worker moves alone, and ends up with what its place asks for.
LEMMA WorkerMoves ==
  ASSUME Placed, NEW w \in Workers, NEW l \in WorkerPCs, NEW h,
         Goto(w, l), hand' = [hand EXCEPT ![w] = h], leg' = leg,
         \/ l \in {"off", "failed", "poll"} /\ h = {}
         \/ /\ l \notin {"off", "failed", "poll"}
            /\ \E e \in Events : h = {e} /\ (l \in Handling => e.retries < MaxRetries)
  PROVE  Placed'
  <1>1. w \in Clients /\ w \notin Compensators
    BY DlqAssumption DEF Clients
  <1>2. pc' = [c \in Clients |-> IF c = w THEN l ELSE pc[c]]
    BY <1>1 DEF Placed, Goto
  <1>3. /\ pc'[w] = l /\ \A c \in Clients : c # w => pc'[c] = pc[c]
        /\ DOMAIN pc' = Clients /\ pc' = [c \in Clients |-> pc'[c]]
    BY <1>1, <1>2
  <1>4. /\ hand'[w] = h /\ \A v \in Workers : v # w => hand'[v] = hand[v]
        /\ DOMAIN hand' = Workers /\ hand' = [v \in Workers |-> hand'[v]]
    BY DEF Placed
  <1>5. \A c \in Clients : Place(c)'
    BY <1>1, <1>3 DEF Placed, Place
  <1>6. \A c \in Compensators : SagaPlaced(c)'
    <2> TAKE c \in Compensators
    <2>1. c # w /\ pc'[c] = pc[c] /\ SagaPlaced(c)
      BY <1>1, <1>3 DEF Clients, Placed
    <2> QED BY <2>1 DEF SagaPlaced
  <1>7. WorkerPlaced(w)'
    <2>1. CASE l \in {"off", "failed", "poll"} /\ h = {}
      <3>1. l \notin Handling
        BY <2>1 DEF Handling
      <3> QED BY <1>3, <1>4, <2>1, <3>1 DEF WorkerPlaced
    <2>2. CASE /\ l \notin {"off", "failed", "poll"}
               /\ \E e \in Events : h = {e} /\ (l \in Handling => e.retries < MaxRetries)
      BY <1>3, <1>4, <2>2 DEF WorkerPlaced
    <2> QED BY <2>1, <2>2
  <1>8. \A v \in Workers : WorkerPlaced(v)'
    <2> TAKE v \in Workers
    <2>1. CASE v = w
      BY <1>7, <2>1
    <2>2. CASE v # w
      <3>1. hand'[v] = hand[v] /\ pc'[v] = pc[v] /\ WorkerPlaced(v)
        BY <1>3, <1>4, <2>2 DEF Clients, Placed
      <3> QED BY <3>1 DEF WorkerPlaced
    <2> QED BY <2>1, <2>2
  <1>9. DOMAIN leg' = Compensators /\ leg' = [s \in Compensators |-> leg'[s]]
    BY DEF Placed
  <1> QED BY <1>3, <1>4, <1>5, <1>6, <1>8, <1>9 DEF Placed

\* The steps of compensateTransfers: to another line for the same leg, or on.
LEMMA SagaSteps ==
  ASSUME Placed, NEW s \in Compensators, hand' = hand, pc[s] # "done",
         \/ leg' = leg /\ \E l \in SagaPCs \ {"done"} : Goto(s, l)
         \/ NextLeg(s)
  PROVE  Placed'
  <1>1. CASE leg' = leg /\ \E l \in SagaPCs \ {"done"} : Goto(s, l)
    BY <1>1, SagaMoves
  <1>2. CASE NextLeg(s)
    <2> DEFINE l == IF leg[s] = 1 THEN "done" ELSE "check"
    <2>1. l \in SagaPCs /\ leg[s] \in Transfers
      BY DEF SagaPCs, Placed, SagaPlaced
    <2>2. Goto(s, l) /\ leg' = [leg EXCEPT ![s] = @ - 1]
      BY <1>2 DEF NextLeg
    <2>3. l = IF leg[s] = 1 THEN "done" ELSE "check"
      OBVIOUS
    <2> HIDE DEF l
    <2> QED BY <2>1, <2>2, <2>3, SagaMoves
  <1> QED BY <1>1, <1>2

\* An event with one retry left or more goes back to the queue or to the operator.
LEMMA RetryCounted ==
  ASSUME Control, NEW w \in Workers, pc[w] \in {"wait", "mark"}, CountRetry(w), leg' = leg
  PROVE  Placed'
  <1> DEFINE n == Subject(w).retries + 1
             e == [Subject(w) EXCEPT !.retries = n]
             l == IF n >= MaxRetries THEN "escalate" ELSE "requeue"
  <1>1. Subject(w) \in Events /\ hand[w] = {Subject(w)}
    BY SubjectIsEvent DEF Clients
  <1>2. Subject(w).retries < MaxRetries
    BY <1>1 DEF Control, Placed, WorkerPlaced, Handling
  <1>3. n \in 0..MaxRetries /\ MaxRetries \in Nat
    BY <1>1, <1>2, DlqAssumption DEF Events
  <1>4. e \in Events /\ e.retries = n
    BY <1>1, <1>3 DEF Events
  <1>5. hand' = [hand EXCEPT ![w] = {e}] /\ Goto(w, l)
    BY DEF CountRetry
  <1>6. /\ l \in WorkerPCs /\ l \notin {"off", "failed", "poll"}
        /\ l \in Handling => n < MaxRetries
    BY <1>3 DEF WorkerPCs, Handling
  <1>7. Placed
    BY DEF Control
  <1> HIDE DEF n, e, l
  <1> QED BY <1>4, <1>5, <1>6, <1>7, WorkerMoves

\* The event a worker puts down was its own, whatever becomes of it.
LEMMA LoopEnds ==
  ASSUME Placed, NEW w \in Workers, leg' = leg, Finish(w) \/ FailLoop(w)
  PROVE  Placed'
  <1>1. "poll" \in WorkerPCs /\ "failed" \in WorkerPCs
    BY DEF WorkerPCs
  <1> QED BY <1>1, WorkerMoves DEF Finish, FailLoop

\* A worker goes on to the next line with the event in its hand.
LEMMA LoopGoesOn ==
  ASSUME Placed, NEW w \in Workers, NEW l \in {"send", "wait", "mark"}, Goto(w, l),
         leg' = leg, hand' = hand, pc[w] \in Handling
  PROVE  Placed'
  <1>1. PICK e \in Events : hand[w] = {e} /\ e.retries < MaxRetries
    BY DEF Placed, WorkerPlaced, Handling
  <1>2. hand' = [hand EXCEPT ![w] = {e}]
    BY <1>1 DEF Placed
  <1>3. l \in WorkerPCs /\ l \notin {"off", "failed", "poll"}
    BY DEF WorkerPCs
  <1> QED BY <1>1, <1>2, <1>3, WorkerMoves

LEMMA SendWired ==
  ASSUME Control, NEW c \in Clients, SendReversal(c)
  PROVE  Wired'
  <1>1. Request(c).client = c /\ Request(c).event \in Events
    BY SubjectIsEvent DEF Request, SendReversal
  <1> QED BY <1>1 DEF SendReversal, Control, Wired

LEMMA SagaControl ==
  ASSUME Control, NEW s \in Compensators, Compensate(s) \/ Crash(s)
  PROVE  Control'
  <1>0. Placed /\ Stored /\ Wired /\ s \in Clients /\ s \notin Workers
        /\ (pc[s] # "done" => leg[s] \in Transfers)
    BY DlqAssumption DEF Control, Clients, Placed, SagaPlaced
  <1> USE DEF SagaPCs, queues, keys, provider
  <1>1. CASE CheckBeforeReversal(s)
    <2>1. Placed'
      BY <1>0, <1>1, SagaSteps DEF CheckBeforeReversal
    <2> QED BY <1>0, <1>1, <2>1 DEF CheckBeforeReversal, Control, Stored, Wired
  <1>2. CASE SendReversal(s)
    <2>1. Placed'
      BY <1>0, <1>2, SagaSteps DEF SendReversal
    <2> QED BY <1>0, <1>2, <2>1, SendWired DEF SendReversal, Control, Stored
  <1>3. CASE AwaitInline(s)
    <2>1. Placed'
      BY <1>0, <1>3, SagaSteps DEF AwaitInline, AwaitReversal
    <2> QED BY <1>0, <1>3, <2>1 DEF AwaitInline, Control, Stored, Wired
  <1>4. CASE MarkInline(s)
    <2>1. Placed'
      BY <1>0, <1>4, SagaSteps DEF MarkInline
    <2> QED BY <1>0, <1>4, <2>1 DEF MarkInline, Control, Stored, Wired
  <1>5. CASE EnqueueRecheck(s)
    <2>1. Placed'
      BY <1>0, <1>5, SagaSteps DEF EnqueueRecheck, LoseLeg
    <2> QED BY <1>0, <1>5, <2>1 DEF EnqueueRecheck, LoseLeg, Control, Stored, Wired
  <1>6. CASE EnqueueLookup(s)
    <2>1. Placed'
      BY <1>0, <1>6, SagaSteps DEF EnqueueLookup, LoseLeg
    <2> QED BY <1>0, <1>6, <2>1 DEF EnqueueLookup, LoseLeg, Control, Stored, Wired
  <1>7. CASE EnqueueClaim(s)
    <2>1. Placed'
      BY <1>0, <1>7, SagaSteps DEF EnqueueClaim, LoseLeg
    <2> QED BY <1>0, <1>7, <2>1 DEF EnqueueClaim, LoseLeg, Control, Stored, Wired
  <1>8. CASE EnqueuePush(s)
    <2>1. Placed'
      BY <1>0, <1>8, SagaSteps DEF EnqueuePush, LoseLeg
    <2>2. NewEvent(s) \in Events /\ NewEvent(s).retries < MaxRetries
      BY <1>0, <1>8, DlqAssumption DEF EnqueuePush, NewEvent, Events
    <2>3. CASE pending' = Append(pending, NewEvent(s))
      BY <1>0, <1>8, <2>1, <2>2, <2>3 DEF EnqueuePush, LoseLeg, Control, Stored, Wired
    <2>4. CASE pending' = pending
      BY <1>0, <1>8, <2>1, <2>4 DEF EnqueuePush, LoseLeg, Control, Stored, Wired
    <2> QED BY <1>8, <2>3, <2>4 DEF EnqueuePush
  <1>9. CASE Crash(s)
    <2>1. Placed'
      BY <1>0, <1>9, SagaSteps DEF Crash
    <2> QED BY <1>0, <1>9, <2>1 DEF Crash, Control, Stored, Wired
  <1> QED BY <1>1, <1>2, <1>3, <1>4, <1>5, <1>6, <1>7, <1>8, <1>9 DEF Compensate

\* What a worker pops had a retry left; the rest of the queue is as it was.
LEMMA Popped ==
  ASSUME Stored, pending # <<>>
  PROVE  /\ Head(pending) \in Events /\ Head(pending).retries < MaxRetries
         /\ Tail(pending) \in Seq(Events)
         /\ \A n \in 1..Len(Tail(pending)) : Tail(pending)[n].retries < MaxRetries
  <1>1. pending \in Seq(Events) /\ Len(pending) \in Nat \ {0}
    BY DEF Stored
  <1>2. Head(pending) = pending[1] /\ 1 \in 1..Len(pending)
    BY <1>1
  <1>3. \A n \in 1..Len(Tail(pending)) :
          n + 1 \in 1..Len(pending) /\ Tail(pending)[n] = pending[n + 1]
    BY <1>1
  <1> QED BY <1>1, <1>2, <1>3 DEF Stored

LEMMA WorkerControl ==
  ASSUME Control, NEW w \in Workers, StartWorker(w) \/ Work(w) \/ Crash(w)
  PROVE  Control'
  <1>0. Placed /\ Stored /\ Wired /\ w \in Clients
        /\ (pc[w] \in {"off", "failed", "poll"} => hand[w] = {})
    BY DEF Control, Clients, Placed, WorkerPlaced
  <1> USE DEF WorkerPCs, queues, keys, provider
  <1>1. CASE StartWorker(w)
    <2>1. hand' = [hand EXCEPT ![w] = {}]
      BY <1>0, <1>1 DEF StartWorker, Placed
    <2>2. Placed'
      BY <1>0, <1>1, <2>1, WorkerMoves DEF StartWorker
    <2> QED BY <1>0, <1>1, <2>2 DEF StartWorker, Control, Stored, Wired
  <1>2. CASE PopEvent(w)
    <2>1. CASE pending' = Tail(pending) /\ hand' = [hand EXCEPT ![w] = {Head(pending)}]
               /\ Goto(w, "check")
      <3>1. Placed'
        BY <1>0, <1>2, <2>1, Popped, WorkerMoves DEF PopEvent
      <3> QED BY <1>0, <1>2, <2>1, <3>1, Popped DEF PopEvent, Control, Stored, Wired
    <2>2. CASE pending' \in {pending, Tail(pending)} /\ FailLoop(w)
      <3>1. Placed'
        BY <1>0, <1>2, <2>2, LoopEnds DEF PopEvent
      <3> QED BY <1>0, <1>2, <2>2, <3>1, Popped DEF PopEvent, Control, Stored, Wired
    <2> QED BY <1>2, <2>1, <2>2 DEF PopEvent
  <1>3. CASE CheckEvent(w)
    <2>1. Placed'
      BY <1>0, <1>3, LoopEnds, LoopGoesOn DEF CheckEvent, Handling
    <2> QED BY <1>0, <1>3, <2>1 DEF CheckEvent, Control, Stored, Wired
  <1>4. CASE SendReversal(w)
    <2>1. Placed'
      BY <1>0, <1>4, LoopGoesOn DEF SendReversal, Handling
    <2> QED BY <1>0, <1>4, <2>1, SendWired DEF SendReversal, Control, Stored
  <1>5. CASE AwaitEvent(w)
    <2>1. Placed'
      BY <1>0, <1>5, RetryCounted, LoopGoesOn DEF AwaitEvent, AwaitReversal, Handling
    <2> QED BY <1>0, <1>5, <2>1 DEF AwaitEvent, Control, Stored, Wired
  <1>6. CASE MarkEvent(w)
    <2>1. Placed'
      BY <1>0, <1>6, RetryCounted, LoopEnds DEF MarkEvent
    <2>2. Subject(w).transfer \in Transfers
      BY <1>0, <1>6, SubjectIsEvent DEF MarkEvent, Events
    <2> QED BY <1>0, <1>6, <2>1, <2>2 DEF MarkEvent, Control, Stored, Wired
  <1>7. CASE RequeueEvent(w)
    <2>1. Placed'
      BY <1>0, <1>7, LoopEnds DEF RequeueEvent
    <2>2. hand[w] = {Subject(w)} /\ Subject(w) \in Events
      BY <1>0, <1>7, SubjectIsEvent DEF RequeueEvent
    <2>3. Subject(w).retries < MaxRetries
      BY <1>0, <1>7, <2>2 DEF RequeueEvent, Placed, WorkerPlaced, Handling
    <2>4. CASE pending' = Append(pending, Subject(w))
      BY <1>0, <1>7, <2>1, <2>2, <2>3, <2>4 DEF RequeueEvent, Control, Stored, Wired
    <2>5. CASE pending' = pending
      BY <1>0, <1>7, <2>1, <2>5 DEF RequeueEvent, Control, Stored, Wired
    <2> QED BY <1>7, <2>4, <2>5 DEF RequeueEvent
  <1>8. CASE EscalateEvent(w)
    <2>1. Placed'
      BY <1>0, <1>8, LoopEnds DEF EscalateEvent
    <2>2. Subject(w) \in Events
      BY <1>0, <1>8, SubjectIsEvent DEF EscalateEvent
    <2> QED BY <1>0, <1>8, <2>1, <2>2 DEF EscalateEvent, Control, Stored, Wired
  <1>9. CASE Crash(w)
    <2>1. Placed'
      BY <1>0, <1>9, WorkerMoves DEF Crash
    <2> QED BY <1>0, <1>9, <2>1 DEF Crash, Control, Stored, Wired
  <1> QED BY <1>1, <1>2, <1>3, <1>4, <1>5, <1>6, <1>7, <1>8, <1>9 DEF Work

LEMMA ProviderControl ==
  ASSUME Control, NEW r \in wire, ExecuteReversal(r) \/ RefuseReversal(r)
  PROVE  Control'
  <1>1. pc' = pc /\ leg' = leg /\ hand' = hand
    BY DEF ExecuteReversal, RefuseReversal
  <1>2. Placed'
    BY <1>1 DEF Control, Placed, Place, SagaPlaced, WorkerPlaced
  <1>3. Stored'
    BY DEF ExecuteReversal, RefuseReversal, Control, Stored, queues, keys
  <1>4. Wired'
    BY DEF ExecuteReversal, RefuseReversal, Answer, Control, Wired
  <1> QED BY <1>2, <1>3, <1>4 DEF Control
-----------------------------------------------------------------------------
(* Money *)

LEMMA OthersStayWhenSagaMoves ==
  ASSUME Placed, NEW s \in Compensators, NEW l, Goto(s, l), hand' = hand,
         leg' = leg \/ leg' = [leg EXCEPT ![s] = @ - 1], NEW d \in Clients, d # s
  PROVE  pc'[d] = pc[d] /\ Subject(d)' = Subject(d)
  <1>1. pc'[d] = pc[d]
    BY DEF Placed, Goto
  <1>2. d \notin Workers => leg'[d] = leg[d]
    BY DEF Placed, Clients
  <1> QED BY <1>1, <1>2, SameSubject

LEMMA OthersStayWhenWorkerMoves ==
  ASSUME Placed, NEW w \in Workers, NEW l, Goto(w, l), leg' = leg,
         \A v \in Workers : v # w => hand'[v] = hand[v], NEW d \in Clients, d # w
  PROVE  pc'[d] = pc[d] /\ Subject(d)' = Subject(d)
  <1>1. pc'[d] = pc[d]
    BY DEF Placed, Goto
  <1>2. d \in Workers => hand'[d] = hand[d]
    OBVIOUS
  <1> QED BY <1>1, <1>2, SameSubject

\* Counting a retry leads to the requeue or the escalation, and moves nobody else.
LEMMA CountedRetry ==
  ASSUME Placed, NEW w \in Workers, CountRetry(w)
  PROVE  /\ Goto(w, "escalate") \/ Goto(w, "requeue")
         /\ \A v \in Workers : v # w => hand'[v] = hand[v]
  <1> DEFINE e == [Subject(w) EXCEPT !.retries = Subject(w).retries + 1]
  <1>1. hand' = [hand EXCEPT ![w] = {e}]
    BY DEF CountRetry
  <1>2. Goto(w, "escalate") \/ Goto(w, "requeue")
    BY DEF CountRetry
  <1> HIDE DEF e
  <1> QED BY <1>1, <1>2 DEF Placed

\* A step that asks nothing of the provider is right about money when a client turns
\* to "mark" only on an answer "ok" and writes a tombstone only there.
LEMMA QuietStepKeepsMoney ==
  ASSUME DlqInv, NEW c \in Clients, UNCHANGED provider,
         \A d \in Clients : d # c => pc'[d] = pc[d] /\ Subject(d)' = Subject(d),
         pc'[c] # "wait",
         pc'[c] = "mark" => /\ pc[c] = "wait" /\ reply[c] = "ok"
                            /\ Subject(c)' = Subject(c),
         \/ tombstones' = tombstones
         \/ pc[c] = "mark" /\ tombstones' = tombstones \cup {Subject(c).transfer}
  PROVE  Money'
  <1>1. /\ wire' = wire /\ reply' = reply /\ seenKeys' = seenKeys /\ refunds' = refunds
        /\ \A t : Returned(t)' <=> Returned(t)
    BY DEF provider, Returned
  <1>2. ASSUME NEW d \in Clients
        PROVE  /\ pc'[d] = "wait" /\ reply'[d] = "ok" => Returned(Subject(d).transfer)'
               /\ pc'[d] = "mark" => Returned(Subject(d).transfer)'
    <2>1. CASE d = c
      BY <1>1, <2>1 DEF DlqInv, Money, Returned
    <2>2. CASE d # c
      BY <1>1, <2>2 DEF DlqInv, Money, Returned
    <2> QED BY <2>1, <2>2
  <1>3. \A t \in tombstones' : Returned(t)'
    BY <1>1 DEF DlqInv, Money
  <1>4. refunds' = [t \in Transfers |-> IF <<"cmp", t>> \in seenKeys' THEN 1 ELSE 0]
    BY <1>1 DEF DlqInv, Money
  <1> QED BY <1>1, <1>2, <1>3, <1>4 DEF DlqInv, Money

\* A request carries the key of its transfer, whoever sends it, and clears the answer
\* its client may still have had.
LEMMA SendKeepsMoney ==
  ASSUME DlqInv, NEW c \in Clients, SendReversal(c)
  PROVE  Money'
  <1>1. /\ pc'[c] = "wait" /\ reply'[c] = "none"
        /\ \A d \in Clients : d # c => pc'[d] = pc[d] /\ reply'[d] = reply[d]
    BY DEF SendReversal, Goto, DlqInv, Control, Placed, Wired
  <1>2. \A d \in Clients : Subject(d)' = Subject(d)
    BY SameSubject DEF SendReversal
  <1>3. /\ wire' = wire \cup {Request(c)} /\ refunds' = refunds /\ seenKeys' = seenKeys
        /\ tombstones' = tombstones /\ \A t : Returned(t)' <=> Returned(t)
    BY DEF SendReversal, keys, Returned
  <1>4. Request(c).key = <<"cmp", Request(c).event.transfer>>
    BY DEF Request, EventKey, InlineKey
  <1>5. ASSUME NEW d \in Clients
        PROVE  /\ pc'[d] = "wait" /\ reply'[d] = "ok" => Returned(Subject(d).transfer)'
               /\ pc'[d] = "mark" => Returned(Subject(d).transfer)'
    BY <1>1, <1>2, <1>3 DEF DlqInv, Money, Returned
  <1>6. /\ \A r \in wire' : r.key = <<"cmp", r.event.transfer>>
        /\ refunds' = [t \in Transfers |-> IF <<"cmp", t>> \in seenKeys' THEN 1 ELSE 0]
        /\ \A t \in tombstones' : Returned(t)'
    BY <1>3, <1>4 DEF DlqInv, Money
  <1> QED BY <1>5, <1>6 DEF Money

\* The provider executes a key it has not seen and answers one it has; only the client
\* that still waits for this very request gets to know.
LEMMA ExecuteKeepsMoney ==
  ASSUME DlqInv, NEW r \in wire, ExecuteReversal(r)
  PROVE  Money'
  <1> DEFINE t0 == r.event.transfer
  <1>1. /\ t0 \in Transfers /\ r.key = <<"cmp", t0>> /\ r.client \in Clients
        /\ reply \in [Clients -> {"none", "ok", "error"}]
    BY DEF DlqInv, Control, Wired, Money, Events
  <1>2. refunds = [t \in Transfers |-> IF <<"cmp", t>> \in seenKeys THEN 1 ELSE 0]
    BY DEF DlqInv, Money
  <1>3. /\ seenKeys' = seenKeys \cup {r.key} /\ wire' = wire \ {r}
        /\ refunds' = IF r.key \in seenKeys THEN refunds
                      ELSE [refunds EXCEPT ![t0] = @ + 1]
        /\ reply' = IF pc[r.client] = "wait" /\ Request(r.client) = r
                    THEN [reply EXCEPT ![r.client] = "ok"] ELSE reply
        /\ pc' = pc /\ leg' = leg /\ hand' = hand /\ tombstones' = tombstones
    BY DEF ExecuteReversal, Answer, keys
  <1> HIDE DEF t0
  <1>4. \A t \in Transfers : <<"cmp", t>> = <<"cmp", t0>> => t = t0
    OBVIOUS
  <1>5. refunds' = [t \in Transfers |-> IF <<"cmp", t>> \in seenKeys' THEN 1 ELSE 0]
    <2>1. CASE r.key \in seenKeys
      BY <1>2, <1>3, <2>1
    <2>2. CASE r.key \notin seenKeys
      <3>1. refunds[t0] = 0 /\ DOMAIN refunds = Transfers
        BY <1>1, <1>2, <2>2
      <3>2. refunds' = [t \in Transfers |-> IF t = t0 THEN 1 ELSE refunds[t]]
        <4>1. refunds' = [refunds EXCEPT ![t0] = @ + 1]
          BY <1>3, <2>2
        <4>2. refunds' = [t \in Transfers |-> IF t = t0 THEN refunds[t0] + 1 ELSE refunds[t]]
          BY <3>1, <4>1
        <4>3. refunds[t0] + 1 = 1
          BY <3>1
        <4> QED BY <4>2, <4>3, Zenon
      <3>3. \A t \in Transfers :
              <<"cmp", t>> \in seenKeys' <=> t = t0 \/ <<"cmp", t>> \in seenKeys
        BY <1>1, <1>3, <1>4
      <3> QED BY <1>2, <3>2, <3>3
    <2> QED BY <2>1, <2>2
  <1>6. Returned(t0)' /\ \A t \in Transfers : Returned(t) => Returned(t)'
    BY <1>1, <1>2, <1>3, <1>5 DEF Returned
  <1>7. \A d \in Clients : Subject(d)' = Subject(d)
    BY <1>3, SameSubject
  <1>8. ASSUME NEW d \in Clients
        PROVE  /\ pc'[d] = "wait" /\ reply'[d] = "ok" => Returned(Subject(d).transfer)'
               /\ pc'[d] = "mark" => Returned(Subject(d).transfer)'
    <2>1. pc[d] \in {"wait", "mark"} => Subject(d).transfer \in Transfers
      BY SubjectIsEvent DEF DlqInv, Events
    <2>2. /\ pc[d] = "mark" => Returned(Subject(d).transfer)
          /\ pc[d] = "wait" /\ reply[d] = "ok" => Returned(Subject(d).transfer)
      BY DEF DlqInv, Money
    <2>3. CASE d = r.client /\ pc[d] = "wait" /\ Request(d) = r
      <3>1. Subject(d).transfer = t0
        BY <2>3 DEF Request, t0
      <3>2. Returned(Subject(d).transfer)' <=> Returned(t0)'
        BY <1>7, <3>1 DEF Returned
      <3> QED BY <1>3, <1>6, <2>3, <3>2
    <2>4. CASE ~(d = r.client /\ pc[d] = "wait" /\ Request(d) = r)
      <3>1. reply'[d] = reply[d]
        BY <1>1, <1>3, <2>4
      <3>2. \A t \in Transfers : t = Subject(d).transfer /\ Returned(t)
                                  => Returned(Subject(d).transfer)'
        BY <1>6, <1>7 DEF Returned
      <3> QED BY <1>3, <2>1, <2>2, <3>1, <3>2
    <2> QED BY <2>3, <2>4
  <1>9. \A t \in tombstones' : Returned(t)'
    BY <1>3, <1>6 DEF DlqInv, Money, Control, Stored
  <1> QED BY <1>3, <1>5, <1>8, <1>9 DEF DlqInv, Money

LEMMA RefuseKeepsMoney ==
  ASSUME DlqInv, NEW r \in wire, RefuseReversal(r)
  PROVE  Money'
  <1>1. /\ pc' = pc /\ seenKeys' = seenKeys /\ refunds' = refunds
        /\ tombstones' = tombstones /\ wire' \subseteq wire
        /\ \A d \in Clients : reply'[d] = "ok" => reply[d] = "ok"
    BY DEF RefuseReversal, Answer, keys, DlqInv, Control, Wired
  <1>2. \A d \in Clients : Subject(d)' = Subject(d)
    BY SameSubject DEF RefuseReversal
  <1>3. \A t : Returned(t)' <=> Returned(t)
    BY <1>1 DEF Returned
  <1>4. ASSUME NEW d \in Clients
        PROVE  /\ pc'[d] = "wait" /\ reply'[d] = "ok" => Returned(Subject(d).transfer)'
               /\ pc'[d] = "mark" => Returned(Subject(d).transfer)'
    BY <1>1, <1>2 DEF DlqInv, Money, Returned
  <1>5. refunds' = [t \in Transfers |-> IF <<"cmp", t>> \in seenKeys' THEN 1 ELSE 0]
    BY <1>1 DEF DlqInv, Money
  <1> QED BY <1>1, <1>3, <1>4, <1>5 DEF DlqInv, Money

LEMMA SagaMoney ==
  ASSUME DlqInv, NEW s \in Compensators, Compensate(s) \/ Crash(s)
  PROVE  Money'
  <1>0. Placed /\ s \in Clients /\ s \notin Workers
    BY DlqAssumption DEF DlqInv, Control, Clients
  <1>1. CASE SendReversal(s)
    BY <1>0, <1>1, SendKeepsMoney
  <1>2. ASSUME UNCHANGED provider, hand' = hand, NEW l, Goto(s, l), l # "wait",
               leg' = leg \/ leg' = [leg EXCEPT ![s] = @ - 1],
               l = "mark" => pc[s] = "wait" /\ reply[s] = "ok" /\ leg' = leg,
               \/ tombstones' = tombstones
               \/ pc[s] = "mark" /\ tombstones' = tombstones \cup {leg[s]}
        PROVE  Money'
    <2>1. pc'[s] = l
      BY <1>0, <1>2 DEF Goto, Placed
    <2>2. l = "mark" => Subject(s)' = Subject(s)
      BY <1>0, <1>2, SameSubject
    <2>3. Subject(s).transfer = leg[s]
      BY <1>0 DEF Subject
    <2>4. \A d \in Clients : d # s => pc'[d] = pc[d] /\ Subject(d)' = Subject(d)
      BY <1>0, <1>2, OthersStayWhenSagaMoves
    <2> QED BY <1>0, <1>2, <2>1, <2>2, <2>3, <2>4, QuietStepKeepsMoney
  <1> USE DEF NextLeg, LoseLeg, keys
  <1>3. CASE CheckBeforeReversal(s)
    BY <1>2, <1>3 DEF CheckBeforeReversal
  <1>4. CASE AwaitInline(s)
    BY <1>2, <1>4 DEF AwaitInline, AwaitReversal
  <1>5. CASE MarkInline(s)
    BY <1>2, <1>5 DEF MarkInline
  <1>6. CASE EnqueueRecheck(s)
    BY <1>2, <1>6 DEF EnqueueRecheck
  <1>7. CASE EnqueueLookup(s)
    BY <1>2, <1>7 DEF EnqueueLookup
  <1>8. CASE EnqueueClaim(s)
    BY <1>2, <1>8 DEF EnqueueClaim
  <1>9. CASE EnqueuePush(s)
    BY <1>2, <1>9 DEF EnqueuePush
  <1>10. CASE Crash(s)
    BY <1>0, <1>2, <1>10 DEF Crash
  <1> QED BY <1>1, <1>3, <1>4, <1>5, <1>6, <1>7, <1>8, <1>9, <1>10 DEF Compensate

LEMMA WorkerMoney ==
  ASSUME DlqInv, NEW w \in Workers, StartWorker(w) \/ Work(w) \/ Crash(w)
  PROVE  Money'
  <1>0. Placed /\ w \in Clients
    BY DEF DlqInv, Control, Clients
  <1>1. CASE SendReversal(w)
    BY <1>0, <1>1, SendKeepsMoney
  <1>2. ASSUME UNCHANGED provider, leg' = leg, NEW l, Goto(w, l), l # "wait",
               \A v \in Workers : v # w => hand'[v] = hand[v],
               l = "mark" => pc[w] = "wait" /\ reply[w] = "ok" /\ hand' = hand,
               \/ tombstones' = tombstones
               \/ pc[w] = "mark" /\ tombstones' = tombstones \cup {Subject(w).transfer}
        PROVE  Money'
    <2>1. pc'[w] = l
      BY <1>0, <1>2 DEF Goto, Placed
    <2>2. l = "mark" => Subject(w)' = Subject(w)
      BY <1>0, <1>2, SameSubject
    <2>3. \A d \in Clients : d # w => pc'[d] = pc[d] /\ Subject(d)' = Subject(d)
      BY <1>0, <1>2, OthersStayWhenWorkerMoves
    <2> QED BY <1>0, <1>2, <2>1, <2>2, <2>3, QuietStepKeepsMoney
  <1> USE DEF Finish, FailLoop, keys
  <1>3. CASE StartWorker(w)
    BY <1>2, <1>3 DEF StartWorker
  <1>4. CASE PopEvent(w)
    <2>1. \A v \in Workers : v # w => hand'[v] = hand[v]
      BY <1>0, <1>4 DEF PopEvent, Placed
    <2>2. Goto(w, "check") \/ Goto(w, "failed")
      BY <1>4 DEF PopEvent
    <2> QED BY <1>2, <1>4, <2>1, <2>2 DEF PopEvent
  <1>5. CASE CheckEvent(w)
    <2>1. \A v \in Workers : v # w => hand'[v] = hand[v]
      BY <1>0, <1>5 DEF CheckEvent, Placed
    <2> QED BY <1>2, <1>5, <2>1 DEF CheckEvent
  <1>6. CASE AwaitEvent(w)
    <2>1. CASE reply[w] = "ok" /\ Goto(w, "mark") /\ hand' = hand
      BY <1>2, <1>6, <2>1 DEF AwaitEvent, AwaitReversal
    <2>2. CASE CountRetry(w)
      BY <1>0, <1>2, <1>6, <2>2, CountedRetry DEF AwaitEvent
    <2> QED BY <1>6, <2>1, <2>2 DEF AwaitEvent, AwaitReversal
  <1>7. CASE MarkEvent(w)
    <2>1. CASE Finish(w)
      BY <1>0, <1>2, <1>7, <2>1 DEF MarkEvent, Placed
    <2>2. CASE CountRetry(w)
      BY <1>0, <1>2, <1>7, <2>2, CountedRetry DEF MarkEvent
    <2> QED BY <1>7, <2>1, <2>2 DEF MarkEvent
  <1>8. CASE RequeueEvent(w)
    <2>1. \A v \in Workers : v # w => hand'[v] = hand[v]
      BY <1>0, <1>8 DEF RequeueEvent, Placed
    <2> QED BY <1>2, <1>8, <2>1 DEF RequeueEvent
  <1>9. CASE EscalateEvent(w)
    <2>1. \A v \in Workers : v # w => hand'[v] = hand[v]
      BY <1>0, <1>9 DEF EscalateEvent, Placed
    <2> QED BY <1>2, <1>9, <2>1 DEF EscalateEvent
  <1>10. CASE Crash(w)
    <2>1. \A v \in Workers : v # w => hand'[v] = hand[v]
      BY <1>0, <1>10 DEF Crash, Placed
    <2>2. Goto(w, "off")
      BY <1>10 DEF Crash
    <2> QED BY <1>2, <1>10, <2>1, <2>2 DEF Crash
  <1> QED BY <1>1, <1>3, <1>4, <1>5, <1>6, <1>7, <1>8, <1>9, <1>10 DEF Work
-----------------------------------------------------------------------------
(* Theorems *)

LEMMA InitDlqInv == Init => DlqInv
  <1> SUFFICES ASSUME Init PROVE DlqInv
    OBVIOUS
  <1> USE DEF Init
  <1>1. Placed
    <2>1. LegCount \in Nat \ {0} /\ Compensators \cap Workers = {}
      BY DlqAssumption
    <2>2. /\ DOMAIN pc = Clients /\ DOMAIN leg = Compensators /\ DOMAIN hand = Workers
          /\ \A w \in Workers : pc[w] = "off" /\ hand[w] = {}
          /\ \A s \in Compensators : pc[s] = "check" /\ leg[s] = LegCount
          /\ \A c \in Clients : pc[c] = IF c \in Workers THEN "off" ELSE "check"
      BY <2>1 DEF Clients
    <2>3. pc = [c \in Clients |-> pc[c]]
      BY <2>2
    <2>4. leg = [s \in Compensators |-> leg[s]] /\ hand = [w \in Workers |-> hand[w]]
      BY <2>2
    <2>5. \A w \in Workers : WorkerPlaced(w)
      BY <2>2 DEF WorkerPlaced, Handling
    <2>6. \A s \in Compensators : SagaPlaced(s)
      BY <2>1, <2>2 DEF SagaPlaced, Transfers
    <2>7. \A c \in Clients : Place(c)
      BY <2>2 DEF Place, WorkerPCs, SagaPCs
    <2> QED BY <2>2, <2>3, <2>4, <2>5, <2>6, <2>7 DEF Placed
  <1>2. Stored /\ Wired
    BY DEF Stored, Wired
  <1>3. Money
    BY DEF Money, Clients
  <1> QED BY <1>1, <1>2, <1>3 DEF DlqInv, Control

LEMMA NextDlqInv == DlqInv /\ [Next]_vars => DlqInv'
  <1> SUFFICES ASSUME DlqInv, [Next]_vars PROVE DlqInv'
    OBVIOUS
  <1>1. ASSUME NEW s \in Compensators, Compensate(s) \/ Crash(s) PROVE DlqInv'
    BY <1>1, SagaControl, SagaMoney DEF DlqInv
  <1>2. ASSUME NEW w \in Workers, StartWorker(w) \/ Work(w) \/ Crash(w) PROVE DlqInv'
    BY <1>2, WorkerControl, WorkerMoney DEF DlqInv
  <1>3. ASSUME NEW r \in wire, ExecuteReversal(r) \/ RefuseReversal(r) PROVE DlqInv'
    BY <1>3, ProviderControl, ExecuteKeepsMoney, RefuseKeepsMoney DEF DlqInv
  <1>4. CASE UNCHANGED vars
    <2>1. UNCHANGED <<pc, leg, hand, pending, dead, tombstones, idempotent, lost, wire,
                      reply, seenKeys, refunds>>
      BY <1>4 DEF vars, queues, keys, provider
    <2>2. Placed' /\ Stored' /\ Wired'
      BY <2>1 DEF DlqInv, Control, Placed, Place, SagaPlaced, WorkerPlaced, Stored, Wired
    <2>3. \A c : Subject(c)' = Subject(c)
      BY <2>1, SameSubject
    <2>4. \A t : Returned(t)' <=> Returned(t)
      BY <2>1 DEF Returned
    <2>5. \A c \in Clients : Returned(Subject(c).transfer)' <=> Returned(Subject(c).transfer)
      BY <2>1, <2>3 DEF Returned
    <2>6. Money'
      BY <2>1, <2>4, <2>5 DEF DlqInv, Money
    <2> QED BY <2>2, <2>6 DEF DlqInv, Control
  <1> QED BY <1>1, <1>2, <1>3, <1>4 DEF Next

LEMMA AlwaysDlqInv == Spec => []DlqInv
  BY InitDlqInv, NextDlqInv, PTL DEF Spec

LEMMA ControlIsTyped == DlqInv => TypeOK
  <1> SUFFICES ASSUME DlqInv PROVE TypeOK
    OBVIOUS
  <1>1. Placed /\ Stored /\ Wired /\ Money
    BY DEF DlqInv, Control
  <1>2. pc \in [Clients -> {"check", "send", "wait", "mark", "recheck", "lookup", "claim",
                           "push", "done", "crashed", "off", "failed", "poll", "requeue",
                           "escalate"}]
    BY <1>1 DEF Placed, Place, WorkerPCs, SagaPCs
  <1>3. leg \in [Compensators -> 0..LegCount] /\ hand \in [Workers -> SUBSET Events]
    BY <1>1 DEF Placed, SagaPlaced, WorkerPlaced
  <1>4. refunds \in [Transfers -> Nat]
    BY <1>1 DEF Money
  <1> QED BY <1>1, <1>2, <1>3, <1>4 DEF TypeOK, Placed, WorkerPlaced, Stored, Wired

\* An event is in a worker's hand exactly while the worker is at work on it, and no
\* path counts retries beyond maxRetries.
THEOREM DlqTypeCorrect == Spec => []TypeOK
  BY AlwaysDlqInv, ControlIsTyped, PTL

\* Whatever is lost, refused, retried or crashes, and however many sagas and workers
\* roll back the same settlement, the provider reverses a transfer at most once.
THEOREM RefundOnce == Spec => []RefundedAtMostOnce
  <1>1. DlqInv => RefundedAtMostOnce
    BY DEF DlqInv, Money, RefundedAtMostOnce
  <1> QED BY <1>1, AlwaysDlqInv, PTL

\* The tombstone that makes everybody skip a transfer is never ahead of the money.
THEOREM TombstonesAreBacked == Spec => []TombstoneMeansRefund
  <1>1. DlqInv => TombstoneMeansRefund
    BY DEF DlqInv, Money, TombstoneMeansRefund
  <1> QED BY <1>1, AlwaysDlqInv, PTL
-----------------------------------------------------------------------------
(* Nothing is forgotten.  A transfer a saga has passed, or one whose idempotency *)
(* key is taken, is refunded, with somebody or with the operator; a saga that    *)
(* finds the key taken relies on the one that took it.                           *)

InQueue(t) == \E i \in 1..Len(pending) : pending[i].transfer = t
InHand(t) == \E w \in Workers : \E e \in hand[w] : e.transfer = t
BeingPushed(t) == \E s \in Compensators : pc[s] \in {"claim", "push"} /\ leg[s] = t
WithOperator(t) == \E e \in dead : e.transfer = t
Kept(t) == Returned(t) \/ InQueue(t) \/ InHand(t) \/ BeingPushed(t) \/ WithOperator(t)

KeptInv == \A t \in Transfers : Passed(t) \/ t \in idempotent => Kept(t)

\* Redis answers and nobody dies.
Live == Faults \cap {"redis", "crash"} = {}

\* An event added at the end is in the queue with what was there.
LEMMA Appended ==
  ASSUME Stored, NEW e, pending' = Append(pending, e)
  PROVE  \A t : InQueue(t)' <=> InQueue(t) \/ e.transfer = t
  <1>1. pending \in Seq(Events)
    BY DEF Stored
  <1>2. PICK z \in Nat : z = Len(pending)
    BY <1>1
  <1>3. /\ Len(pending') = z + 1 /\ pending'[z + 1] = e
        /\ \A i \in 1..z : pending'[i] = pending[i]
    BY <1>1, <1>2
  <1>4. \A i : i \in 1..z + 1 <=> i \in 1..z \/ i = z + 1
    BY <1>2
  <1> QED BY <1>2, <1>3, <1>4 DEF InQueue

\* What is popped was first, the rest is still there.
LEMMA Shortened ==
  ASSUME Stored, pending # <<>>, pending' = Tail(pending)
  PROVE  /\ \A t : InQueue(t) <=> InQueue(t)' \/ Head(pending).transfer = t
         /\ Len(pending') = Len(pending) - 1 /\ Len(pending) \in Nat \ {0}
         /\ Head(pending) = pending[1]
         /\ \A i \in 1..Len(pending') : pending'[i] = pending[i + 1] /\ i + 1 \in 1..Len(pending)
  <1>1. pending \in Seq(Events)
    BY DEF Stored
  <1>2. PICK z \in Nat \ {0} : z = Len(pending)
    BY <1>1
  <1>3. /\ Len(pending') = z - 1 /\ Head(pending) = pending[1]
        /\ \A i \in 1..z - 1 : pending'[i] = pending[i + 1]
    BY <1>1, <1>2
  <1>4. \A i : i \in 1..z <=> i = 1 \/ (i - 1 \in 1..z - 1 /\ i = (i - 1) + 1)
    BY <1>2
  <1>5. \A t : InQueue(t) <=> InQueue(t)' \/ Head(pending).transfer = t
    <2> TAKE t
    <2>1. InQueue(t) => InQueue(t)' \/ Head(pending).transfer = t
      BY <1>2, <1>3, <1>4 DEF InQueue
    <2>2. InQueue(t)' => InQueue(t)
      BY <1>2, <1>3 DEF InQueue
    <2>3. Head(pending).transfer = t => InQueue(t)
      BY <1>2, <1>3 DEF InQueue
    <2> QED BY <2>1, <2>2, <2>3
  <1> QED BY <1>2, <1>3, <1>5

\* A saga's step keeps KeptInv if it passes only what is kept, takes a key only for what
\* is, and lets go of an event only into the queue.
LEMMA SagaKeeps ==
  ASSUME DlqInv, KeptInv, NEW s \in Compensators, UNCHANGED <<hand, dead, refunds>>,
         \A t : InQueue(t) => InQueue(t)',
         \A u \in Compensators : u # s => pc'[u] = pc[u] /\ leg'[u] = leg[u],
         NEW t0, t0 = leg[s],
         pc[s] \in {"claim", "push"} => Kept(t0)',
         \/ leg'[s] = t0
         \/ leg'[s] = t0 - 1 /\ Kept(t0)',
         \/ idempotent' = idempotent
         \/ idempotent' = idempotent \cup {t0} /\ Kept(t0)'
  PROVE  KeptInv'
  <1> SUFFICES ASSUME NEW t \in Transfers, Passed(t)' \/ t \in idempotent' PROVE Kept(t)'
    BY DEF KeptInv
  <1>1. CASE t = t0 /\ Kept(t0)'
    BY <1>1
  <1>2. CASE ~(t = t0 /\ Kept(t0)')
    <2>1. LegCount \in Nat /\ leg[s] \in 0..LegCount
      BY DlqAssumption DEF DlqInv, Control, Placed, SagaPlaced
    <2>2. leg'[s] < t => leg[s] < t
      BY <1>2, <2>1 DEF Transfers
    <2>3. Passed(t)' => Passed(t)
      BY <2>2 DEF Passed
    <2>4. t \in idempotent' => t \in idempotent
      BY <1>2
    <2>5. Kept(t)
      BY <2>3, <2>4 DEF KeptInv
    <2>6. BeingPushed(t) => BeingPushed(t)'
      BY <1>2 DEF BeingPushed
    <2> QED BY <2>5, <2>6 DEF Kept, Returned, InHand, WithOperator
  <1> QED BY <1>1, <1>2

\* A step of a worker or of the provider takes no key and passes nothing.
LEMMA OthersKeep ==
  ASSUME KeptInv, leg' = leg, idempotent' = idempotent,
         \A s \in Compensators : pc'[s] = pc[s],
         \A t \in Transfers : Returned(t) => Returned(t)',
         \A t \in Transfers : InQueue(t) \/ InHand(t) \/ WithOperator(t) => Kept(t)'
  PROVE  KeptInv'
  <1> SUFFICES ASSUME NEW t \in Transfers, Passed(t)' \/ t \in idempotent' PROVE Kept(t)'
    BY DEF KeptInv
  <1>1. Kept(t)
    BY DEF KeptInv, Passed
  <1>2. BeingPushed(t) => BeingPushed(t)'
    BY DEF BeingPushed
  <1> QED BY <1>1, <1>2 DEF Kept

LEMMA SagaForgetsNothing ==
  ASSUME DlqInv, KeptInv, Live, NEW s \in Compensators, Compensate(s) \/ Crash(s)
  PROVE  KeptInv'
  <1>0. /\ s \in Clients /\ s \notin Workers /\ DOMAIN pc = Clients /\ DOMAIN leg = Compensators
        /\ Stored /\ Compensators \subseteq Clients
        /\ pc[s] # "done" => leg[s] \in Transfers
    BY DlqAssumption DEF DlqInv, Control, Clients, Placed, SagaPlaced
  <1>1. "redis" \notin Faults /\ "crash" \notin Faults
    BY DEF Live
  <1>2. PICK t0 : t0 = leg[s]
    OBVIOUS
  <1>3. \A l : Goto(s, l) => pc'[s] = l /\ \A u \in Compensators : u # s => pc'[u] = pc[u]
    BY <1>0 DEF Goto
  <1>4. NextLeg(s) => leg'[s] = t0 - 1 /\ \A u \in Compensators : u # s => leg'[u] = leg[u]
    BY <1>0, <1>2 DEF NextLeg
  <1>5. \A u \in Compensators : leg' = leg => leg'[u] = leg[u]
    OBVIOUS
  <1>6. pc[s] = "mark" => Returned(t0)
    BY <1>0, <1>2 DEF DlqInv, Money, Subject
  <1>7. t0 \in tombstones => Returned(t0)
    BY DEF DlqInv, Money
  <1>8. UNCHANGED <<hand, dead, refunds>>
    BY <1>1 DEF Compensate, Crash, CheckBeforeReversal, SendReversal, AwaitInline, MarkInline,
           EnqueueRecheck, EnqueueLookup, EnqueueClaim, EnqueuePush, queues, provider
  <1>9. Returned(t0) => Kept(t0)'
    BY <1>8 DEF Kept, Returned
  <1>10. ASSUME idempotent' = idempotent, pending' = pending, pc[s] \notin {"claim", "push"},
                NEW l, Goto(s, l), leg' = leg \/ (NextLeg(s) /\ Kept(t0)')
         PROVE  KeptInv'
    <2>1. \A t : InQueue(t) => InQueue(t)'
      BY <1>10 DEF InQueue
    <2> QED BY <1>2, <1>3, <1>4, <1>8, <1>10, <2>1, SagaKeeps
  <1>11. CASE CheckBeforeReversal(s)
    BY <1>1, <1>2, <1>7, <1>9, <1>10, <1>11 DEF CheckBeforeReversal, NextLeg, queues, keys
  <1>12. CASE SendReversal(s)
    BY <1>10, <1>12 DEF SendReversal, queues, keys
  <1>13. CASE AwaitInline(s)
    BY <1>10, <1>13 DEF AwaitInline, AwaitReversal, queues, keys
  <1>14. CASE MarkInline(s)
    BY <1>6, <1>9, <1>10, <1>14 DEF MarkInline, NextLeg, queues
  <1>15. CASE EnqueueRecheck(s)
    BY <1>1, <1>2, <1>7, <1>9, <1>10, <1>15 DEF EnqueueRecheck, LoseLeg, NextLeg, queues, keys
  <1>16. CASE EnqueueLookup(s)
    <2>1. ASSUME t0 \in idempotent PROVE Kept(t0)'
      <3>1. Kept(t0) /\ pc[s] = "lookup" /\ pending' = pending
        BY <1>0, <1>2, <1>16, <2>1 DEF KeptInv, EnqueueLookup, queues
      <3>2. BeingPushed(t0) => BeingPushed(t0)'
        BY <1>1, <1>3, <1>4, <1>16, <3>1 DEF BeingPushed, EnqueueLookup, LoseLeg, NextLeg
      <3> QED BY <1>8, <3>1, <3>2 DEF Kept, Returned, InQueue, InHand, WithOperator
    <2> QED BY <1>1, <1>2, <1>10, <1>16, <2>1 DEF EnqueueLookup, LoseLeg, NextLeg, queues, keys
  <1>17. CASE EnqueueClaim(s)
    <2>1. /\ idempotent' = idempotent \cup {t0} /\ Goto(s, "push") /\ leg' = leg
          /\ pending' = pending
      BY <1>1, <1>2, <1>17 DEF EnqueueClaim, LoseLeg, queues
    <2>2. Kept(t0)'
      BY <1>2, <1>3, <2>1 DEF Kept, BeingPushed
    <2>3. \A t : InQueue(t) => InQueue(t)'
      BY <2>1 DEF InQueue
    <2> QED BY <1>2, <1>3, <1>8, <2>1, <2>2, <2>3, SagaKeeps
  <1>18. CASE EnqueuePush(s)
    <2>1. pending' = Append(pending, NewEvent(s)) /\ NextLeg(s) /\ idempotent' = idempotent
      BY <1>1, <1>18 DEF EnqueuePush, LoseLeg, keys
    <2>2. NewEvent(s).transfer = t0
      BY <1>2 DEF NewEvent
    <2>3. Kept(t0)' /\ \A t : InQueue(t) => InQueue(t)'
      BY <1>0, <2>1, <2>2, Appended DEF Kept
    <2>4. \A u \in Compensators : u # s => pc'[u] = pc[u]
      BY <1>3, <2>1 DEF NextLeg
    <2> QED BY <1>2, <1>4, <1>8, <2>1, <2>3, <2>4, SagaKeeps
  <1>19. CASE Crash(s)
    BY <1>1, <1>19 DEF Crash
  <1> QED BY <1>11, <1>12, <1>13, <1>14, <1>15, <1>16, <1>17, <1>18, <1>19 DEF Compensate

LEMMA WorkerForgetsNothing ==
  ASSUME DlqInv, KeptInv, Live, NEW w \in Workers, StartWorker(w) \/ Work(w) \/ Crash(w)
  PROVE  KeptInv'
  <1>0. /\ w \in Clients /\ w \notin Compensators /\ DOMAIN pc = Clients /\ DOMAIN hand = Workers
        /\ Stored /\ Control
    BY DlqAssumption DEF DlqInv, Control, Clients, Placed
  <1>1. "redis" \notin Faults /\ "crash" \notin Faults
    BY DEF Live
  <1>2. leg' = leg /\ idempotent' = idempotent /\ refunds' = refunds
    BY DEF StartWorker, Work, Crash, PopEvent, CheckEvent, SendReversal, AwaitEvent, MarkEvent,
           RequeueEvent, EscalateEvent, keys, provider
  <1>3. \A l : Goto(w, l) => \A s \in Compensators : pc'[s] = pc[s]
    BY <1>0 DEF Goto
  <1>4. \A t \in Transfers : Returned(t) => Returned(t)'
    BY <1>2 DEF Returned
  <1>5. ASSUME NEW l, Goto(w, l),
               \A t \in Transfers : InQueue(t) \/ InHand(t) \/ WithOperator(t) => Kept(t)'
        PROVE  KeptInv'
    BY <1>2, <1>3, <1>4, <1>5, OthersKeep
  <1>6. \A v \in Workers : \A h : v # w /\ hand' = [hand EXCEPT ![w] = h] => hand'[v] = hand[v]
    OBVIOUS
  <1>7. \A h : hand' = [hand EXCEPT ![w] = h] => hand'[w] = h
    BY <1>0
  <1>8. CASE StartWorker(w) \/ SendReversal(w)
    <2>1. UNCHANGED <<hand, pending, dead>>
      BY <1>8 DEF StartWorker, SendReversal, queues
    <2> QED BY <1>5, <1>8, <2>1 DEF StartWorker, SendReversal, Kept, InQueue, InHand, WithOperator
  <1>9. CASE PopEvent(w)
    <2>1. PICK e : e = Head(pending)
      OBVIOUS
    <2>2. /\ pending # <<>> /\ pending' = Tail(pending) /\ hand' = [hand EXCEPT ![w] = {e}]
          /\ Goto(w, "check") /\ dead' = dead /\ pc[w] = "poll"
      BY <1>1, <1>9, <2>1 DEF PopEvent, FailLoop
    <2>3. hand[w] = {}
      BY <1>0, <2>2 DEF Control, Placed, WorkerPlaced
    <2>4. \A t : InHand(t)' <=> InHand(t) \/ e.transfer = t
      BY <1>6, <1>7, <2>2, <2>3 DEF InHand
    <2>5. \A t : InQueue(t) => InQueue(t)' \/ e.transfer = t
      BY <1>0, <2>1, <2>2, Shortened
    <2> QED BY <1>5, <2>2, <2>4, <2>5 DEF Kept, WithOperator
  <1>10. ASSUME pc[w] \notin {"off", "failed", "poll"}, NEW e, e = Subject(w), NEW l, Goto(w, l),
                \/ hand' = hand
                \/ \E f : f.transfer = e.transfer /\ hand' = [hand EXCEPT ![w] = {f}]
                \/ Finish(w) /\ \A t : t = e.transfer => Kept(t)',
                \A t : InQueue(t) \/ WithOperator(t) => Kept(t)'
         PROVE  KeptInv'
    <2>1. hand[w] = {e}
      <3>1. pc[w] # "done"
        BY <1>0 DEF Control, Placed, Place, WorkerPCs
      <3> QED BY <1>0, <1>10, <3>1, SubjectIsEvent DEF Clients
    <2>2. \A t : InHand(t) => Kept(t)'
      <3> SUFFICES ASSUME NEW t, NEW v \in Workers, NEW f \in hand[v], f.transfer = t PROVE Kept(t)'
        BY DEF InHand
      <3>1. CASE hand' = hand
        BY <3>1 DEF InHand, Kept
      <3>2. ASSUME NEW g, g.transfer = e.transfer, hand' = [hand EXCEPT ![w] = {g}] PROVE Kept(t)'
        <4>1. CASE v = w
          BY <1>7, <2>1, <3>2, <4>1 DEF InHand, Kept
        <4>2. CASE v # w
          BY <1>6, <3>2, <4>2 DEF InHand, Kept
        <4> QED BY <4>1, <4>2
      <3>3. CASE Finish(w) /\ \A u : u = e.transfer => Kept(u)'
        <4>1. CASE v = w
          BY <2>1, <3>3, <4>1
        <4>2. CASE v # w
          BY <1>6, <3>3, <4>2 DEF InHand, Kept, Finish
        <4> QED BY <4>1, <4>2
      <3> QED BY <1>10, <3>1, <3>2, <3>3
    <2> QED BY <1>5, <1>10, <2>2
  <1>11. PICK e : e = Subject(w)
    OBVIOUS
  <1>12. pending' = pending /\ dead' = dead => \A t : InQueue(t) \/ WithOperator(t) => Kept(t)'
    BY DEF Kept, InQueue, WithOperator
  <1>13. \A t : Returned(t) => Kept(t)'
    BY <1>2 DEF Kept, Returned
  <1>14. ASSUME pc[w] \in {"wait", "mark"}, CountRetry(w)
         PROVE  \E f : f.transfer = e.transfer /\ hand' = [hand EXCEPT ![w] = {f}]
    <2>1. PICK f : f = [e EXCEPT !.retries = e.retries + 1]
      OBVIOUS
    <2>2. hand' = [hand EXCEPT ![w] = {f}]
      BY <1>11, <1>14, <2>1 DEF CountRetry
    <2>3. e \in Events
      BY <1>0, <1>11, <1>14, SubjectIsEvent
    <2>4. f.transfer = e.transfer
      BY <2>1, <2>3 DEF Events
    <2> QED BY <2>2, <2>4
  <1>15. CASE CheckEvent(w)
    <2>1. e.transfer \in tombstones => Returned(e.transfer)
      BY DEF DlqInv, Money
    <2>2. /\ pc[w] = "check" /\ pending' = pending /\ dead' = dead
          /\ \/ e.transfer \in tombstones /\ Finish(w)
             \/ Goto(w, "send") /\ hand' = hand
      BY <1>1, <1>11, <1>15 DEF CheckEvent, FailLoop, queues
    <2> QED BY <1>10, <1>11, <1>12, <1>13, <2>1, <2>2 DEF Finish
  <1>16. CASE AwaitEvent(w)
    <2>1. pc[w] = "wait" /\ pending' = pending /\ dead' = dead
      BY <1>16 DEF AwaitEvent, AwaitReversal, queues
    <2>2. CASE Goto(w, "mark") /\ hand' = hand
      BY <1>10, <1>11, <1>12, <2>1, <2>2
    <2>3. CASE CountRetry(w)
      <3>1. Goto(w, "escalate") \/ Goto(w, "requeue")
        BY <2>3 DEF CountRetry
      <3> QED BY <1>10, <1>11, <1>12, <1>14, <2>1, <2>3, <3>1
    <2> QED BY <1>16, <2>2, <2>3 DEF AwaitEvent, AwaitReversal
  <1>17. CASE MarkEvent(w)
    <2>1. /\ pc[w] = "mark" /\ pending' = pending /\ dead' = dead /\ Finish(w)
      BY <1>1, <1>17 DEF MarkEvent, queues
    <2>2. Returned(e.transfer)
      BY <1>0, <1>11, <2>1 DEF DlqInv, Money
    <2> QED BY <1>10, <1>11, <1>12, <1>13, <2>1, <2>2 DEF Finish
  <1>18. CASE RequeueEvent(w)
    <2>1. pc[w] = "requeue" /\ pending' = Append(pending, e) /\ dead' = dead /\ Finish(w)
      BY <1>1, <1>11, <1>18 DEF RequeueEvent, FailLoop
    <2>2. \A t : InQueue(t)' <=> InQueue(t) \/ e.transfer = t
      BY <1>0, <2>1, Appended
    <2>3. \A t : InQueue(t) \/ WithOperator(t) \/ t = e.transfer => Kept(t)'
      BY <2>1, <2>2 DEF Kept, WithOperator
    <2> QED BY <1>10, <1>11, <2>1, <2>3 DEF Finish
  <1>19. CASE EscalateEvent(w)
    <2>1. pc[w] = "escalate" /\ dead' = dead \cup {e} /\ pending' = pending /\ Finish(w)
      BY <1>1, <1>11, <1>19 DEF EscalateEvent, FailLoop
    <2>2. \A t : InQueue(t) \/ WithOperator(t) \/ t = e.transfer => Kept(t)'
      BY <2>1 DEF Kept, WithOperator, InQueue
    <2> QED BY <1>10, <1>11, <2>1, <2>2 DEF Finish
  <1>20. CASE Crash(w)
    BY <1>1, <1>20 DEF Crash
  <1> QED BY <1>8, <1>9, <1>15, <1>16, <1>17, <1>18, <1>19, <1>20 DEF Work

LEMMA ProviderForgetsNothing ==
  ASSUME DlqInv, KeptInv, NEW r \in wire, ExecuteReversal(r) \/ RefuseReversal(r)
  PROVE  KeptInv'
  <1>1. UNCHANGED <<pc, leg, hand, pending, dead, idempotent>>
    BY DEF ExecuteReversal, RefuseReversal, queues, keys
  <1>2. \A t \in Transfers : Returned(t) => Returned(t)'
    <2>1. refunds' = refunds \/ refunds' = [refunds EXCEPT ![r.event.transfer] = @ + 1]
      BY DEF ExecuteReversal, RefuseReversal
    <2>2. \A t \in Transfers : refunds[t] \in {0, 1} /\ DOMAIN refunds = Transfers
      BY DEF DlqInv, Money
    <2> QED BY <2>1, <2>2 DEF Returned
  <1>3. \A t : InQueue(t) \/ InHand(t) \/ WithOperator(t) => Kept(t)'
    BY <1>1 DEF Kept, InQueue, InHand, WithOperator
  <1> QED BY <1>1, <1>2, <1>3, OthersKeep

LEMMA InitKeptInv == Init => KeptInv
  <1> SUFFICES ASSUME Init, NEW t \in Transfers PROVE ~Passed(t) /\ t \notin idempotent
    BY DEF KeptInv
  <1>1. \A s \in Compensators : leg[s] = LegCount
    BY DEF Init
  <1>2. ~(LegCount < t)
    BY DlqAssumption DEF Transfers
  <1> QED BY <1>1, <1>2 DEF Init, Passed

LEMMA NextKeptInv ==
  ASSUME Live
  PROVE  DlqInv /\ KeptInv /\ [Next]_vars => KeptInv'
  <1> SUFFICES ASSUME DlqInv, KeptInv, [Next]_vars PROVE KeptInv'
    OBVIOUS
  <1>1. CASE UNCHANGED vars
    <2>1. UNCHANGED <<pc, leg, hand, pending, dead, idempotent, refunds>>
      BY <1>1 DEF vars, queues, keys, provider
    <2> QED BY <2>1, OthersKeep DEF Kept, Returned, InQueue, InHand, WithOperator
  <1> QED BY <1>1, SagaForgetsNothing, WorkerForgetsNothing, ProviderForgetsNothing DEF Next

\* While Redis answers and the processes live, no refusal, lost reply or timeout and no
\* other saga on the same transfer makes a reversal disappear: not between the idempotency
\* key and the push, nor between the queue and a worker's hand.
THEOREM Unforgotten ==
  ASSUME Live
  PROVE  Spec => []NothingForgotten
  <1>1. DlqInv /\ KeptInv => NothingForgotten
    <2> SUFFICES ASSUME KeptInv, NEW t \in Transfers, Passed(t),
                        ~Returned(t), Buried(t) = {}
                 PROVE  Waiting(t) \cup Holding(t) \cup Pushing(t) # {}
      BY DEF NothingForgotten
    <2>1. InQueue(t) => Waiting(t) # {}
      BY DEF InQueue, Waiting
    <2>2. InHand(t) => Holding(t) # {}
      BY DEF InHand, Holding
    <2>3. BeingPushed(t) => Pushing(t) # {}
      BY DEF BeingPushed, Pushing
    <2>4. ~WithOperator(t)
      BY DEF WithOperator, Buried
    <2> QED BY <2>1, <2>2, <2>3, <2>4 DEF KeptInv, Kept
  <1>2. DlqInv /\ KeptInv /\ [Next]_vars => KeptInv'
    BY NextKeptInv
  <1> QED BY <1>1, <1>2, InitDlqInv, NextDlqInv, InitKeptInv, PTL DEF Spec

-----------------------------------------------------------------------------
(* One place for every event.  With one saga on a settlement a transfer it has   *)
(* not passed has no tombstone and no event, and one that is in the queue is in  *)
(* no hand and not with the operator, so a worker decides alone on its event.    *)

OneSaga == \A s, u \in Compensators : s = u

Somewhere(t) == InQueue(t) \/ InHand(t) \/ WithOperator(t) \/ t \in tombstones
Untouched == \A s \in Compensators : \A t \in 1..leg[s] : ~Somewhere(t)

QueuedOnce ==
  \A i, j \in 1..Len(pending) : pending[i].transfer = pending[j].transfer => i = j
HeldOnce ==
  \A v, w \in Workers : \A e \in hand[v], f \in hand[w] : e.transfer = f.transfer => v = w
BuriedOnce == \A e, f \in dead : e.transfer = f.transfer => e = f
Apart == \A t : /\ InQueue(t) => ~InHand(t) /\ ~WithOperator(t)
                /\ InHand(t) => ~WithOperator(t)

\* Whoever is about to ask for a reversal has found no tombstone, and nobody else has
\* written one since.
NoneWritten ==
  \A c \in Clients : pc[c] = "send" => Subject(c).transfer \notin tombstones

CustodyInv == Untouched /\ QueuedOnce /\ HeldOnce /\ BuriedOnce /\ Apart /\ NoneWritten

LEMMA LeavesQueue ==
  ASSUME Stored, QueuedOnce, pending # <<>>, pending' = Tail(pending)
  PROVE  /\ QueuedOnce' /\ InQueue(Head(pending).transfer)
         /\ \A t : InQueue(t)' <=> InQueue(t) /\ t # Head(pending).transfer
  <1>1. PICK x : x = Head(pending).transfer
    OBVIOUS
  <1>2. /\ \A t : InQueue(t) <=> InQueue(t)' \/ x = t
        /\ Len(pending') = Len(pending) - 1 /\ Len(pending) \in Nat \ {0}
        /\ x = pending[1].transfer
        /\ \A i \in 1..Len(pending') : pending'[i] = pending[i + 1] /\ i + 1 \in 1..Len(pending)
    BY <1>1, Shortened
  <1>3. QueuedOnce'
    <2> SUFFICES ASSUME NEW i \in 1..Len(pending'), NEW j \in 1..Len(pending'),
                        pending'[i].transfer = pending'[j].transfer
                 PROVE  i = j
      BY DEF QueuedOnce
    <2>1. i + 1 = j + 1
      BY <1>2 DEF QueuedOnce
    <2> QED BY <1>2, <2>1
  <1>4. ~InQueue(x)'
    <2> SUFFICES ASSUME NEW i \in 1..Len(pending'), pending'[i].transfer = x PROVE FALSE
      BY DEF InQueue
    <2>1. i + 1 = 1 /\ i \in Nat \ {0}
      BY <1>2 DEF QueuedOnce
    <2> QED BY <2>1
  <1> QED BY <1>1, <1>2, <1>3, <1>4

LEMMA EntersQueue ==
  ASSUME Stored, QueuedOnce, NEW e, ~InQueue(e.transfer), pending' = Append(pending, e)
  PROVE  QueuedOnce'
  <1>1. pending \in Seq(Events)
    BY DEF Stored
  <1>2. PICK z \in Nat : z = Len(pending)
    BY <1>1
  <1>3. /\ Len(pending') = z + 1 /\ pending'[z + 1] = e
        /\ \A i \in 1..z : pending'[i] = pending[i]
    BY <1>1, <1>2
  <1>4. \A i \in 1..z : pending[i].transfer # e.transfer
    BY <1>2 DEF InQueue
  <1>5. \A i : i \in 1..z + 1 <=> i \in 1..z \/ i = z + 1
    BY <1>2
  <1> QED BY <1>2, <1>3, <1>4, <1>5 DEF QueuedOnce

\* A worker takes or replaces an event: nobody else holds one for the transfer.
LEMMA HandTakes ==
  ASSUME Placed, HeldOnce, NEW w \in Workers, NEW f, hand' = [hand EXCEPT ![w] = {f}],
         NEW x, x = f.transfer, ~InHand(x) \/ \E e \in hand[w] : e.transfer = x
  PROVE  HeldOnce' /\ \A t : InHand(t)' => InHand(t) \/ t = x
  <1>1. hand'[w] = {f} /\ \A v \in Workers : v # w => hand'[v] = hand[v]
    BY DEF Placed
  <1>2. \A t : InHand(t)' => InHand(t) \/ t = x
    BY <1>1 DEF InHand
  <1>3. ASSUME NEW a \in Workers, a # w, NEW g \in hand[a], g.transfer = x PROVE FALSE
    <2>1. InHand(x)
      BY <1>3 DEF InHand
    <2>2. PICK b \in hand[w] : b.transfer = x
      BY <2>1
    <2> QED BY <1>3, <2>2 DEF HeldOnce
  <1>4. HeldOnce'
    <2> SUFFICES ASSUME NEW u \in Workers, NEW v \in Workers, u # v, NEW e \in hand'[u],
                        NEW g \in hand'[v], e.transfer = g.transfer
                 PROVE  FALSE
      BY DEF HeldOnce
    <2>1. CASE u # w /\ v # w
      BY <1>1, <2>1 DEF HeldOnce
    <2>2. CASE u = w \/ v = w
      BY <1>1, <1>3, <2>2
    <2> QED BY <2>1, <2>2
  <1> QED BY <1>2, <1>4

\* A worker puts its event down: nobody holds it any more.
LEMMA HandDrops ==
  ASSUME Placed, HeldOnce, NEW w \in Workers, hand' = [hand EXCEPT ![w] = {}]
  PROVE  /\ HeldOnce' /\ \A t : InHand(t)' => InHand(t)
         /\ \A t : \A e \in hand[w] : t = e.transfer => ~InHand(t)'
  <1>1. hand'[w] = {} /\ \A v \in Workers : v # w => hand'[v] = hand[v]
    BY DEF Placed
  <1>2. HeldOnce' /\ \A t : InHand(t)' => InHand(t)
    BY <1>1 DEF HeldOnce, InHand
  <1>3. ASSUME NEW t, NEW e \in hand[w], t = e.transfer PROVE ~InHand(t)'
    <2> SUFFICES ASSUME NEW v \in Workers, NEW f \in hand'[v], f.transfer = t PROVE FALSE
      BY DEF InHand
    <2> QED BY <1>1, <1>3 DEF HeldOnce
  <1> QED BY <1>2, <1>3

\* A worker's step keeps CustodyInv if no transfer turns up that was nowhere, the step
\* leaves every event in one place, and a tombstone is written for the event in hand.
LEMMA WorkerCustody ==
  ASSUME DlqInv, CustodyInv, NEW w \in Workers, NEW l, Goto(w, l), leg' = leg,
         \A v \in Workers : v # w => hand'[v] = hand[v],
         QueuedOnce', HeldOnce', BuriedOnce', Apart',
         \A t : Somewhere(t)' => Somewhere(t),
         \/ tombstones' = tombstones
         \/ hand[w] = {Subject(w)} /\ tombstones' = tombstones \cup {Subject(w).transfer},
         l = "send" => /\ hand' = hand /\ tombstones' = tombstones
                       /\ Subject(w).transfer \notin tombstones
  PROVE  CustodyInv'
  <1>0. w \in Clients /\ Placed
    BY DEF Clients, DlqInv, Control
  <1>1. Untouched'
    BY DEF CustodyInv, Untouched
  <1>2. NoneWritten'
    <2> SUFFICES ASSUME NEW c \in Clients, pc'[c] = "send"
                 PROVE  Subject(c).transfer' \notin tombstones'
      BY DEF NoneWritten
    <2>1. CASE c = w
      <3>1. l = "send"
        BY <1>0, <2>1 DEF Goto, Placed
      <3>2. Subject(c)' = Subject(c)
        BY <2>1, <3>1, SameSubject
      <3> QED BY <2>1, <3>1, <3>2
    <2>2. CASE c # w
      <3>1. pc[c] = "send" /\ Subject(c)' = Subject(c)
        BY <1>0, <2>2, OthersStayWhenWorkerMoves
      <3>2. Subject(c).transfer \notin tombstones
        BY <3>1 DEF CustodyInv, NoneWritten
      <3>3. ASSUME hand[w] = {Subject(w)}, Subject(c).transfer = Subject(w).transfer PROVE FALSE
        <4>1. /\ c \in Workers => hand[c] = {Subject(c)}
              /\ c \notin Workers => c \in Compensators /\ Subject(c).transfer = leg[c]
          BY <3>1, SubjectIsEvent DEF DlqInv
        <4>2. CASE c \in Workers
          BY <2>2, <3>3, <4>1, <4>2 DEF CustodyInv, HeldOnce
        <4>3. CASE c \notin Workers
          <5>1. leg[c] \in 1..leg[c]
            BY <1>0, <3>1, <4>1, <4>3, DlqAssumption DEF Placed, SagaPlaced, Transfers
          <5>2. InHand(Subject(w).transfer)
            BY <3>3 DEF InHand
          <5> QED BY <3>3, <4>1, <4>3, <5>1, <5>2 DEF CustodyInv, Untouched, Somewhere
        <4> QED BY <4>2, <4>3
      <3> QED BY <3>1, <3>2, <3>3
    <2> QED BY <2>1, <2>2
  <1> QED BY <1>1, <1>2 DEF CustodyInv

LEMMA WorkersKeepCustody ==
  ASSUME DlqInv, CustodyInv, NEW w \in Workers, StartWorker(w) \/ Work(w) \/ Crash(w)
  PROVE  CustodyInv'
  <1>0. /\ w \in Clients /\ Placed /\ Stored /\ Control
        /\ QueuedOnce /\ HeldOnce /\ BuriedOnce /\ Apart
    BY DEF Clients, DlqInv, Control, CustodyInv
  <1>1. leg' = leg
    BY DEF StartWorker, Work, Crash, PopEvent, CheckEvent, SendReversal, AwaitEvent, MarkEvent,
           RequeueEvent, EscalateEvent
  <1>2. /\ pending' = pending => QueuedOnce' /\ \A t : InQueue(t)' <=> InQueue(t)
        /\ dead' = dead => BuriedOnce' /\ \A t : WithOperator(t)' <=> WithOperator(t)
        /\ hand' = hand => HeldOnce' /\ \A t : InHand(t)' <=> InHand(t)
    BY <1>0 DEF QueuedOnce, InQueue, BuriedOnce, WithOperator, HeldOnce, InHand
  <1>3. \A h : hand' = [hand EXCEPT ![w] = h] => \A v \in Workers : v # w => hand'[v] = hand[v]
    OBVIOUS
  <1>4. ASSUME hand' = [hand EXCEPT ![w] = {}]
        PROVE  /\ HeldOnce' /\ \A t : InHand(t)' => InHand(t)
               /\ \A t : \A e \in hand[w] : t = e.transfer => ~InHand(t)'
    BY <1>0, <1>4, HandDrops
  \* A step that leaves the queue and the dead letters alone, and the event in hand or drops it.
  <1>5. ASSUME pending' = pending, dead' = dead, NEW l, Goto(w, l),
               \/ hand' = hand
               \/ hand' = [hand EXCEPT ![w] = {}]
               \/ \E f : /\ hand' = [hand EXCEPT ![w] = {f}]
                         /\ \E e \in hand[w] : f.transfer = e.transfer,
               \/ tombstones' = tombstones
               \/ hand[w] = {Subject(w)} /\ tombstones' = tombstones \cup {Subject(w).transfer},
               l = "send" => /\ hand' = hand /\ tombstones' = tombstones
                             /\ Subject(w).transfer \notin tombstones
        PROVE  CustodyInv'
    <2>1. HeldOnce' /\ (\A t : InHand(t)' => InHand(t))
          /\ \A v \in Workers : v # w => hand'[v] = hand[v]
      <3>1. CASE hand' = hand
        BY <1>2, <3>1
      <3>2. CASE hand' = [hand EXCEPT ![w] = {}]
        BY <1>3, <1>4, <3>2
      <3>3. ASSUME NEW f, NEW x, x = f.transfer, hand' = [hand EXCEPT ![w] = {f}],
                   \E e \in hand[w] : x = e.transfer
            PROVE  HeldOnce' /\ (\A t : InHand(t)' => InHand(t))
        <4>1. HeldOnce' /\ \A t : InHand(t)' => InHand(t) \/ t = x
          BY <1>0, <3>3, HandTakes
        <4>2. InHand(x)
          BY <3>3 DEF InHand
        <4> QED BY <4>1, <4>2
      <3> QED BY <1>3, <1>5, <3>1, <3>2, <3>3
    <2>2. Apart'
      BY <1>0, <1>2, <1>5, <2>1 DEF Apart
    <2>3. \A t : Somewhere(t)' => Somewhere(t)
      <3> TAKE t
      <3>1. hand[w] = {Subject(w)} /\ t = Subject(w).transfer => InHand(t)
        BY DEF InHand
      <3> QED BY <1>2, <1>5, <2>1, <3>1 DEF Somewhere
    <2> QED BY <1>1, <1>2, <1>5, <2>1, <2>2, <2>3, WorkerCustody
  <1>6. pc[w] \notin {"off", "failed", "poll"} => hand[w] = {Subject(w)}
    <2>1. pc[w] # "done"
      BY <1>0 DEF Placed, Place, WorkerPCs
    <2> QED BY <1>0, <2>1, SubjectIsEvent
  <1> USE DEF queues, keys
  <1>7. CASE StartWorker(w) \/ Crash(w)
    BY <1>5, <1>7 DEF StartWorker, Crash
  <1>8. CASE CheckEvent(w)
    BY <1>5, <1>8 DEF CheckEvent, Finish, FailLoop
  <1>9. CASE SendReversal(w)
    BY <1>5, <1>9 DEF SendReversal
  <1>10. ASSUME CountRetry(w), pc[w] \in {"wait", "mark"}
         PROVE  /\ Goto(w, "escalate") \/ Goto(w, "requeue")
                /\ \E f : /\ hand' = [hand EXCEPT ![w] = {f}]
                          /\ \E e \in hand[w] : f.transfer = e.transfer
    <2>1. PICK e, f : e = Subject(w) /\ f = [e EXCEPT !.retries = e.retries + 1]
      OBVIOUS
    <2>2. hand' = [hand EXCEPT ![w] = {f}] /\ (Goto(w, "escalate") \/ Goto(w, "requeue"))
      BY <1>10, <2>1 DEF CountRetry
    <2>3. e \in Events /\ e \in hand[w]
      BY <1>0, <1>6, <1>10, <2>1, SubjectIsEvent
    <2>4. f.transfer = e.transfer
      BY <2>1, <2>3 DEF Events
    <2> QED BY <2>2, <2>3, <2>4
  <1>11. CASE AwaitEvent(w)
    <2>1. /\ pc[w] = "wait" /\ pending' = pending /\ dead' = dead /\ tombstones' = tombstones
          /\ (Goto(w, "mark") /\ hand' = hand) \/ CountRetry(w)
      BY <1>11 DEF AwaitEvent, AwaitReversal
    <2> QED BY <1>5, <1>10, <2>1
  <1>12. CASE MarkEvent(w)
    <2>1. /\ pc[w] = "mark" /\ pending' = pending /\ dead' = dead
          /\ Finish(w) \/ CountRetry(w)
          /\ tombstones' = tombstones \/ tombstones' = tombstones \cup {Subject(w).transfer}
      BY <1>12 DEF MarkEvent
    <2>2. hand[w] = {Subject(w)}
      BY <1>6, <2>1
    <2>3. CASE Finish(w)
      BY <1>5, <2>1, <2>2, <2>3 DEF Finish
    <2>4. CASE CountRetry(w)
      BY <1>5, <1>10, <2>1, <2>2, <2>4
    <2> QED BY <2>1, <2>3, <2>4
  <1>13. CASE PopEvent(w)
    <2>1. PICK e, x : e = Head(pending) /\ x = e.transfer
      OBVIOUS
    <2>2. pc[w] = "poll" /\ pending # <<>> /\ dead' = dead /\ tombstones' = tombstones
          /\ hand[w] = {}
      BY <1>0, <1>13 DEF PopEvent, Placed, WorkerPlaced
    <2>3. CASE pending' = Tail(pending) /\ hand' = [hand EXCEPT ![w] = {e}] /\ Goto(w, "check")
      <3>1. QueuedOnce' /\ InQueue(x) /\ \A t : InQueue(t)' <=> InQueue(t) /\ t # x
        BY <1>0, <2>1, <2>2, <2>3, LeavesQueue
      <3>2. ~InHand(x) /\ ~WithOperator(x)
        BY <1>0, <3>1 DEF Apart
      <3>3. HeldOnce' /\ \A t : InHand(t)' => InHand(t) \/ t = x
        BY <1>0, <2>1, <2>3, <3>2, HandTakes
      <3>4. Apart'
        BY <1>0, <1>2, <2>2, <3>1, <3>2, <3>3 DEF Apart
      <3>5. \A t : Somewhere(t)' => Somewhere(t)
        BY <1>2, <2>2, <3>1, <3>3 DEF Somewhere
      <3> QED BY <1>1, <1>2, <1>3, <2>2, <2>3, <3>1, <3>3, <3>4, <3>5, WorkerCustody
    <2>4. CASE pending' = Tail(pending) /\ FailLoop(w)
      <3>1. QueuedOnce' /\ \A t : InQueue(t)' => InQueue(t)
        BY <1>0, <2>2, <2>4, LeavesQueue
      <3>2. HeldOnce' /\ \A t : InHand(t)' => InHand(t)
        BY <1>4, <2>4 DEF FailLoop
      <3>3. Apart' /\ \A t : Somewhere(t)' => Somewhere(t)
        BY <1>0, <1>2, <2>2, <3>1, <3>2 DEF Apart, Somewhere
      <3> QED BY <1>1, <1>2, <1>3, <2>2, <2>4, <3>1, <3>2, <3>3, WorkerCustody DEF FailLoop
    <2>5. CASE pending' = pending /\ FailLoop(w)
      BY <1>5, <2>2, <2>5 DEF FailLoop
    <2> QED BY <1>13, <2>1, <2>3, <2>4, <2>5 DEF PopEvent
  <1>14. CASE RequeueEvent(w)
    <2>1. PICK e, x : e = Subject(w) /\ x = e.transfer
      OBVIOUS
    <2>2. pc[w] = "requeue" /\ dead' = dead /\ tombstones' = tombstones /\ hand[w] = {e}
      BY <1>6, <1>14, <2>1 DEF RequeueEvent
    <2>3. Finish(w) \/ FailLoop(w)
      BY <1>14 DEF RequeueEvent
    <2>4. CASE pending' = Append(pending, e)
      <3>1. InHand(x) /\ ~InQueue(x) /\ ~WithOperator(x)
        BY <1>0, <2>1, <2>2 DEF InHand, Apart
      <3>2. QueuedOnce' /\ \A t : InQueue(t)' <=> InQueue(t) \/ t = x
        BY <1>0, <2>1, <2>4, <3>1, Appended, EntersQueue
      <3>3. HeldOnce' /\ (\A t : InHand(t)' => InHand(t)) /\ ~InHand(x)'
        BY <1>4, <2>1, <2>2, <2>3 DEF Finish, FailLoop
      <3>4. Apart' /\ \A t : Somewhere(t)' => Somewhere(t)
        BY <1>0, <1>2, <2>2, <3>1, <3>2, <3>3 DEF Apart, Somewhere
      <3> QED BY <1>1, <1>2, <1>3, <2>2, <2>3, <3>2, <3>3, <3>4, WorkerCustody
             DEF Finish, FailLoop
    <2>5. CASE pending' = pending
      BY <1>5, <2>2, <2>3, <2>5 DEF Finish, FailLoop
    <2> QED BY <1>14, <2>1, <2>4, <2>5 DEF RequeueEvent
  <1>15. CASE EscalateEvent(w)
    <2>1. PICK e, x : e = Subject(w) /\ x = e.transfer
      OBVIOUS
    <2>2. pc[w] = "escalate" /\ pending' = pending /\ tombstones' = tombstones /\ hand[w] = {e}
      BY <1>6, <1>15, <2>1 DEF EscalateEvent
    <2>3. Finish(w) \/ FailLoop(w)
      BY <1>15 DEF EscalateEvent
    <2>4. CASE dead' = dead \cup {e}
      <3>1. InHand(x) /\ ~InQueue(x) /\ ~WithOperator(x)
        BY <1>0, <2>1, <2>2 DEF InHand, Apart
      <3>2. BuriedOnce' /\ \A t : WithOperator(t)' <=> WithOperator(t) \/ t = x
        BY <1>0, <2>1, <2>4, <3>1 DEF BuriedOnce, WithOperator
      <3>3. HeldOnce' /\ (\A t : InHand(t)' => InHand(t)) /\ ~InHand(x)'
        BY <1>4, <2>1, <2>2, <2>3 DEF Finish, FailLoop
      <3>4. Apart' /\ \A t : Somewhere(t)' => Somewhere(t)
        BY <1>0, <1>2, <2>2, <3>1, <3>2, <3>3 DEF Apart, Somewhere
      <3> QED BY <1>1, <1>2, <1>3, <2>2, <2>3, <3>2, <3>3, <3>4, WorkerCustody
             DEF Finish, FailLoop
    <2>5. CASE dead' = dead
      BY <1>5, <2>2, <2>3, <2>5 DEF Finish, FailLoop
    <2> QED BY <1>15, <2>1, <2>4, <2>5 DEF EscalateEvent
  <1> QED BY <1>7, <1>8, <1>9, <1>11, <1>12, <1>13, <1>14, <1>15 DEF Work

LEMMA SagaKeepsCustody ==
  ASSUME OneSaga, DlqInv, CustodyInv, NEW s \in Compensators, Compensate(s) \/ Crash(s)
  PROVE  CustodyInv'
  <1>0. /\ s \in Clients /\ s \notin Workers /\ Placed /\ Stored
        /\ DOMAIN pc = Clients /\ DOMAIN leg = Compensators /\ leg[s] \in 0..LegCount
        /\ LegCount \in Nat /\ \A c \in Clients : c \notin Workers => c = s
    BY DlqAssumption DEF OneSaga, DlqInv, Control, Clients, Placed, SagaPlaced
  <1>1. PICK x : x = leg[s]
    OBVIOUS
  <1>2. pc[s] # "done" /\ x \in 1..x
    <2>1. pc[s] # "done"
      BY DEF Compensate, Crash, CheckBeforeReversal, SendReversal, AwaitInline, MarkInline,
             AwaitReversal, EnqueueRecheck, EnqueueLookup, EnqueueClaim, EnqueuePush
    <2> QED BY <1>0, <1>1, <2>1 DEF Placed, SagaPlaced, Transfers
  <1>3. ~Somewhere(x)
    <2>1. x \in 1..leg[s]
      BY <1>1, <1>2
    <2>2. \A t \in 1..leg[s] : ~Somewhere(t)
      BY DEF CustodyInv, Untouched
    <2> QED BY <2>1, <2>2
  <1>4. hand' = hand /\ dead' = dead
    BY <1>0 DEF Compensate, Crash, CheckBeforeReversal, SendReversal, AwaitInline, MarkInline,
           EnqueueRecheck, EnqueueLookup, EnqueueClaim, EnqueuePush, queues
  <1>5. HeldOnce' /\ BuriedOnce'
        /\ \A t : (InHand(t)' <=> InHand(t)) /\ (WithOperator(t)' <=> WithOperator(t))
    BY <1>4 DEF CustodyInv, HeldOnce, BuriedOnce, InHand, WithOperator
  <1>6. NextLeg(s) => leg' = [leg EXCEPT ![s] = x - 1] /\ \E l \in {"check", "done"} : Goto(s, l)
    BY <1>1 DEF NextLeg
  \* A step that asks for nothing: whatever is added bears the leg the saga leaves.
  <1>7. ASSUME NEW l, Goto(s, l), l = "send" => leg' = leg,
               \/ leg' = leg /\ pending' = pending /\ tombstones' = tombstones
               \/ /\ leg' = [leg EXCEPT ![s] = x - 1]
                  /\ pending' = pending \/ pending' = Append(pending, NewEvent(s))
                  /\ tombstones' = tombstones \/ tombstones' = tombstones \cup {x}
        PROVE  CustodyInv'
    <2>1. PICK e : e = NewEvent(s) /\ e.transfer = x
      <3>1. NewEvent(s).transfer = x
        BY <1>1 DEF NewEvent
      <3> QED BY <3>1
    <2>2. QueuedOnce' /\ \A t : InQueue(t)' => InQueue(t) \/ (t = x /\ leg' # leg)
      <3>1. CASE pending' = pending
        BY <3>1 DEF CustodyInv, QueuedOnce, InQueue
      <3>2. CASE pending' = Append(pending, e) /\ leg' = [leg EXCEPT ![s] = x - 1]
        <4>1. QueuedOnce' /\ \A t : InQueue(t)' => InQueue(t) \/ t = x
          BY <1>0, <1>3, <2>1, <3>2, Appended, EntersQueue DEF CustodyInv, Somewhere
        <4>2. leg'[s] = x - 1 /\ x - 1 # x
          BY <1>0, <1>2, <3>2
        <4> QED BY <1>1, <4>1, <4>2
      <3> QED BY <1>7, <2>1, <3>1, <3>2
    <2>3. Apart'
      BY <1>3, <1>5, <2>2 DEF CustodyInv, Apart, Somewhere
    <2>4. \A t : Somewhere(t)' => Somewhere(t) \/ (t = x /\ leg'[s] = x - 1)
      BY <1>0, <1>5, <1>7, <2>2 DEF Somewhere
    <2>5. Untouched'
      <3> SUFFICES ASSUME NEW t \in 1..leg'[s] PROVE ~Somewhere(t)'
        BY <1>0 DEF Untouched, OneSaga
      <3>1. t \in 1..leg[s] /\ (leg'[s] = x - 1 => t # x)
        BY <1>0, <1>1, <1>7
      <3> QED BY <2>4, <3>1 DEF CustodyInv, Untouched
    <2>6. NoneWritten'
      <3> SUFFICES ASSUME NEW c \in Clients, pc'[c] = "send"
                   PROVE  Subject(c).transfer' \notin tombstones'
        BY DEF NoneWritten
      <3>1. CASE c = s
        <4>1. l = "send"
          BY <1>0, <1>7, <3>1 DEF Goto
        <4>2. Subject(c)' = Subject(c) /\ Subject(c).transfer = x /\ tombstones' = tombstones
          BY <1>0, <1>1, <1>4, <1>7, <3>1, <4>1, SameSubject DEF Subject
        <4> QED BY <1>3, <4>2 DEF Somewhere
      <3>2. CASE c # s
        <4>1. c \in Workers /\ pc[c] = "send" /\ Subject(c)' = Subject(c)
          BY <1>0, <1>4, <1>7, <3>2, SameSubject DEF Goto
        <4>2. hand[c] = {Subject(c)} /\ Subject(c).transfer \notin tombstones
          BY <4>1, SubjectIsEvent DEF DlqInv, CustodyInv, NoneWritten
        <4>3. Subject(c).transfer # x
          BY <1>3, <4>1, <4>2 DEF Somewhere, InHand
        <4> QED BY <1>7, <4>1, <4>2, <4>3
      <3> QED BY <3>1, <3>2
    <2> QED BY <1>5, <2>2, <2>3, <2>5, <2>6 DEF CustodyInv
  <1> USE DEF queues, keys
  <1>8. CASE CheckBeforeReversal(s)
    BY <1>6, <1>7, <1>8 DEF CheckBeforeReversal
  <1>9. CASE SendReversal(s)
    BY <1>7, <1>9 DEF SendReversal
  <1>10. CASE AwaitInline(s)
    BY <1>7, <1>10 DEF AwaitInline, AwaitReversal
  <1>11. CASE MarkInline(s)
    BY <1>1, <1>6, <1>7, <1>11 DEF MarkInline
  <1>12. CASE EnqueueRecheck(s) \/ EnqueueLookup(s) \/ EnqueueClaim(s)
    BY <1>6, <1>7, <1>12 DEF EnqueueRecheck, EnqueueLookup, EnqueueClaim, LoseLeg
  <1>13. CASE EnqueuePush(s)
    BY <1>6, <1>7, <1>13 DEF EnqueuePush, LoseLeg
  <1>14. CASE Crash(s)
    BY <1>0, <1>7, <1>14 DEF Crash
  <1> QED BY <1>8, <1>9, <1>10, <1>11, <1>12, <1>13, <1>14 DEF Compensate

LEMMA CustodyUnchanged ==
  ASSUME CustodyInv, UNCHANGED <<pc, leg, hand, pending, dead, tombstones>>
  PROVE  CustodyInv'
  <1>1. \A c : Subject(c)' = Subject(c)
    BY SameSubject
  <1>2. \A t : /\ InQueue(t)' <=> InQueue(t)
               /\ InHand(t)' <=> InHand(t)
               /\ WithOperator(t)' <=> WithOperator(t)
               /\ Somewhere(t)' <=> Somewhere(t)
    BY DEF InQueue, InHand, WithOperator, Somewhere
  <1>3. NoneWritten'
    <2> SUFFICES ASSUME NEW c \in Clients, pc[c] = "send"
                 PROVE  Subject(c).transfer' \notin tombstones
      BY DEF NoneWritten
    <2>1. Subject(c).transfer \notin tombstones
      BY DEF CustodyInv, NoneWritten
    <2> QED BY <1>1, <2>1
  <1> QED BY <1>2, <1>3 DEF CustodyInv, Untouched, QueuedOnce, HeldOnce, BuriedOnce, Apart

LEMMA InitCustodyInv == Init => CustodyInv
  <1> SUFFICES ASSUME Init PROVE CustodyInv
    OBVIOUS
  <1>1. Len(pending) = 0 /\ dead = {} /\ tombstones = {} /\ \A w \in Workers : hand[w] = {}
    BY DEF Init
  <1>2. \A c \in Clients : pc[c] # "send"
    BY DEF Init
  <1> QED BY <1>1, <1>2 DEF CustodyInv, Untouched, Somewhere, QueuedOnce, HeldOnce, BuriedOnce,
                            Apart, NoneWritten, InQueue, InHand, WithOperator

LEMMA NextCustodyInv ==
  ASSUME OneSaga
  PROVE  DlqInv /\ CustodyInv /\ [Next]_vars => CustodyInv'
  <1> SUFFICES ASSUME DlqInv, CustodyInv, [Next]_vars PROVE CustodyInv'
    OBVIOUS
  <1>1. CASE UNCHANGED vars
    BY <1>1, CustodyUnchanged DEF vars, queues, keys
  <1>2. ASSUME NEW r \in wire, ExecuteReversal(r) \/ RefuseReversal(r) PROVE CustodyInv'
    BY <1>2, CustodyUnchanged DEF ExecuteReversal, RefuseReversal, queues, keys
  <1> QED BY <1>1, <1>2, SagaKeepsCustody, WorkersKeepCustody DEF Next

\* One saga at a time per settlement asks nobody for a refund that is on record: a
\* worker that counted a recorded success as a failure finds the tombstone, and under
\* every fault nobody else holds its event meanwhile.
THEOREM RecordedIsFinal ==
  ASSUME OneSaga
  PROVE  Spec => NoReversalAfterTombstone
  <1>1. ASSUME DlqInv, CustodyInv, [Next]_vars, NEW r \in wire' \ wire
        PROVE  r.event.transfer \notin tombstones
    <2>1. PICK c \in Clients : SendReversal(c)
      BY <1>1 DEF Next, Compensate, Work, Crash, StartWorker, ExecuteReversal, RefuseReversal,
                  Answer, CheckBeforeReversal, AwaitInline, MarkInline, EnqueueRecheck,
                  EnqueueLookup, EnqueueClaim, EnqueuePush, PopEvent, CheckEvent, AwaitEvent,
                  MarkEvent, RequeueEvent, EscalateEvent, provider, vars, Clients
    <2>2. pc[c] = "send" /\ r = Request(c)
      BY <1>1, <2>1 DEF SendReversal
    <2> QED BY <1>1, <2>2 DEF CustodyInv, NoneWritten, Request
  <1>2. DlqInv /\ CustodyInv /\ [Next]_vars => CustodyInv'
    BY NextCustodyInv
  <1>3. DlqInv /\ CustodyInv /\ [Next]_vars
        => [\A r \in wire' \ wire : r.event.transfer \notin tombstones]_vars
    BY <1>1
  <1> QED BY <1>2, <1>3, InitDlqInv, NextDlqInv, InitCustodyInv, PTL
          DEF Spec, NoReversalAfterTombstone

\* One saga and any number of workers, under every fault, hold an event in one place: an
\* entry of the queue, a hand or the dead letters.
THEOREM OneCustody ==
  ASSUME OneSaga
  PROVE  Spec => []SingleCustody
  <1>1. ASSUME CustodyInv, NEW t
        PROVE  Cardinality(Waiting(t)) + Cardinality(Holding(t)) + Cardinality(Buried(t)) <= 1
    <2>1. /\ Waiting(t) = {} <=> ~InQueue(t)
          /\ Holding(t) = {} <=> ~InHand(t)
          /\ Buried(t) = {} <=> ~WithOperator(t)
      BY DEF Waiting, InQueue, Holding, InHand, Buried, WithOperator
    <2>2. Waiting(t) = {} \/ \E i : Waiting(t) = {i}
      BY <1>1 DEF CustodyInv, QueuedOnce, Waiting
    <2>3. Holding(t) = {} \/ \E w : Holding(t) = {w}
      BY <1>1 DEF CustodyInv, HeldOnce, Holding
    <2>4. Buried(t) = {} \/ \E e : Buried(t) = {e}
      BY <1>1 DEF CustodyInv, BuriedOnce, Buried
    <2>5. Cardinality({}) = 0 /\ \A x : Cardinality({x}) = 1
      BY FS_EmptySet, FS_Singleton
    <2>6. /\ Waiting(t) # {} => Holding(t) = {} /\ Buried(t) = {}
          /\ Holding(t) # {} => Buried(t) = {}
      <3>1. /\ InQueue(t) => ~InHand(t) /\ ~WithOperator(t)
            /\ InHand(t) => ~WithOperator(t)
        BY <1>1 DEF CustodyInv, Apart
      <3> QED BY <2>1, <3>1
    <2>7. /\ Cardinality(Waiting(t)) = IF Waiting(t) = {} THEN 0 ELSE 1
          /\ Cardinality(Holding(t)) = IF Holding(t) = {} THEN 0 ELSE 1
          /\ Cardinality(Buried(t)) = IF Buried(t) = {} THEN 0 ELSE 1
      BY <2>2, <2>3, <2>4, <2>5
    <2> QED BY <2>6, <2>7
  <1>2. CustodyInv => SingleCustody
    BY <1>1 DEF SingleCustody
  <1>3. DlqInv /\ CustodyInv /\ [Next]_vars => CustodyInv'
    BY NextCustodyInv
  <1> QED BY <1>2, <1>3, InitDlqInv, NextDlqInv, InitCustodyInv, PTL DEF Spec
-----------------------------------------------------------------------------
(* The promise.  Every step concerns one transfer: nobody else's charge changes. *)

Unsafe == Faults \cap {"redis", "crash"} # {}

LEMMA ChargeIsSomewhere ==
  ASSUME NEW t
  PROVE  /\ InCharge(t) <=> InQueue(t) \/ InHand(t) \/ WithOperator(t) \/ BeingPushed(t)
         /\ InCharge(t)' <=> InQueue(t)' \/ InHand(t)' \/ WithOperator(t)' \/ BeingPushed(t)'
  <1>1. (Waiting(t) # {} <=> InQueue(t)) /\ (Waiting(t)' # {} <=> InQueue(t)')
    BY DEF Waiting, InQueue
  <1>2. (Holding(t) # {} <=> InHand(t)) /\ (Holding(t)' # {} <=> InHand(t)')
    BY DEF Holding, InHand
  <1>3. (Buried(t) # {} <=> WithOperator(t)) /\ (Buried(t)' # {} <=> WithOperator(t)')
    BY DEF Buried, WithOperator
  <1>4. (Pushing(t) # {} <=> BeingPushed(t)) /\ (Pushing(t)' # {} <=> BeingPushed(t)')
    BY DEF Pushing, BeingPushed
  <1> QED BY <1>1, <1>2, <1>3, <1>4 DEF InCharge

\* A step about transfer x, seen from the promise: a charge is taken for good, given up
\* once x is repaid or where faults strike, or stays as it is while a saga passes.
LEMMA StepOfPromise ==
  ASSUME NEW x \in Transfers, refunds' = refunds,
         \A t \in Transfers \ {x} : InCharge(t)' <=> InCharge(t),
         \/ tombstones' = tombstones
         \/ tombstones' = tombstones \cup {x} /\ Returned(x),
         \/ /\ leg' = leg
            /\ \/ InCharge(x)' <=> InCharge(x)
               \/ (InCharge(x)' => InCharge(x)) /\ (Returned(x) \/ Unsafe)
         \/ /\ leg' = leg /\ tombstones' = tombstones
            /\ InCharge(x)' /\ \E s \in Compensators : leg[s] = x
         \/ \E s \in Compensators :
              /\ leg[s] = x /\ leg' = [leg EXCEPT ![s] = @ - 1]
              /\ \/ (Returned(x) \/ InCharge(x)) /\ (InCharge(x)' <=> InCharge(x))
                 \/ Unsafe /\ (InCharge(x)' => InCharge(x))
  PROVE  [Promise!Next]_(Promise!promiseVars)
  <1> DEFINE C == {t \in Transfers : InCharge(t)}
             D == {t \in Transfers : InCharge(t)'}
  <1>0. x > 0 /\ x \in 1..LegCount /\ Transfers = 1..LegCount
    BY DlqAssumption DEF Transfers
  <1>1. /\ InCharge(x) <=> x \in C
        /\ InCharge(x)' <=> x \in D
        /\ D \in {C, C \cup {x}, C \ {x}}
        /\ (InCharge(x)' <=> InCharge(x)) => D = C
        /\ InCharge(x)' => D = C \cup {x}
        /\ ~InCharge(x)' => D = C \ {x}
    OBVIOUS
  <1>2. Returned(x) <=> x \in Promise!Repaid
    BY <1>0 DEF Returned, Promise!Repaid, Promise!Transfers
  <1>3. Promise!RecordedAlong(x)
    BY <1>2 DEF Promise!RecordedAlong
  <1>4. x \in Promise!Transfers
    BY <1>0 DEF Promise!Transfers
  <1>5. CASE leg' = leg /\ (InCharge(x)' <=> InCharge(x))
    <2>1. D = C
      BY <1>1, <1>5
    <2>2. CASE tombstones' = tombstones
      BY <1>5, <2>1, <2>2 DEF Promise!promiseVars
    <2>3. CASE tombstones' = tombstones \cup {x} /\ Returned(x)
      <3>1. Promise!Record(x)
        BY <1>2, <1>5, <2>1, <2>3 DEF Promise!Record
      <3> QED BY <1>4, <3>1 DEF Promise!Next
    <2> QED BY <2>2, <2>3
  <1>6. CASE leg' = leg /\ ~InCharge(x)' /\ (Returned(x) \/ Unsafe)
    <2>1. D = C \ {x}
      BY <1>1, <1>6
    <2>2. Promise!Release(x)
      BY <1>2, <1>3, <1>6, <2>1 DEF Promise!Release, Unsafe
    <2> QED BY <1>4, <2>2 DEF Promise!Next
  <1>7. ASSUME leg' = leg, tombstones' = tombstones, InCharge(x)',
               NEW s \in Compensators, leg[s] = x
        PROVE  Promise!Next
    <2>1. D = C \cup {x}
      BY <1>1, <1>7
    <2>2. Promise!TakeCharge(s)
      BY <1>0, <1>7, <2>1 DEF Promise!TakeCharge
    <2> QED BY <2>2 DEF Promise!Next
  <1>8. ASSUME NEW s \in Compensators, leg[s] = x, leg' = [leg EXCEPT ![s] = @ - 1],
               \/ (Returned(x) \/ InCharge(x)) /\ (InCharge(x)' <=> InCharge(x))
               \/ Unsafe /\ (InCharge(x)' => InCharge(x))
        PROVE  Promise!Next
    <2>1. \/ x \in Promise!Repaid \cup C /\ D = C
          \/ Unsafe /\ D \in {C, C \ {x}}
      BY <1>1, <1>2, <1>8
    <2>2. Promise!Pass(s)
      BY <1>0, <1>3, <1>8, <2>1 DEF Promise!Pass, Unsafe
    <2> QED BY <2>2 DEF Promise!Next
  <1>9. CASE leg' = leg /\ (InCharge(x)' => InCharge(x)) /\ (Returned(x) \/ Unsafe)
    BY <1>5, <1>6, <1>9
  <1> QED BY <1>5, <1>7, <1>8, <1>9

LEMMA SagaKeepsPromise ==
  ASSUME DlqInv, ~Unsafe => KeptInv, NEW s \in Compensators, Compensate(s) \/ Crash(s)
  PROVE  [Promise!Next]_(Promise!promiseVars)
  <1>0. /\ s \in Clients /\ s \notin Workers /\ DOMAIN pc = Clients /\ DOMAIN leg = Compensators
        /\ Stored /\ Compensators \subseteq Clients
    BY DlqAssumption DEF DlqInv, Control, Clients, Placed
  <1>1. PICK x \in Transfers : x = leg[s]
    <2>1. pc[s] # "done"
      BY DEF Compensate, Crash, CheckBeforeReversal, SendReversal, AwaitInline, MarkInline,
             AwaitReversal, EnqueueRecheck, EnqueueLookup, EnqueueClaim, EnqueuePush
    <2> QED BY <2>1 DEF DlqInv, Control, Placed, SagaPlaced
  <1>2. hand' = hand /\ dead' = dead /\ refunds' = refunds
    BY <1>0 DEF Compensate, Crash, CheckBeforeReversal, SendReversal, AwaitInline, MarkInline,
           EnqueueRecheck, EnqueueLookup, EnqueueClaim, EnqueuePush, queues, provider
  <1>3. /\ pc[s] = "mark" => Returned(x)
        /\ x \in tombstones => Returned(x)
    BY <1>0, <1>1 DEF DlqInv, Money, Subject
  <1>4. \A l : Goto(s, l) => pc'[s] = l /\ \A u \in Compensators : u # s => pc'[u] = pc[u]
    BY <1>0 DEF Goto
  <1>5. \A u \in Compensators :
          u # s /\ (leg' = leg \/ leg' = [leg EXCEPT ![s] = @ - 1]) => leg'[u] = leg[u]
    <2>1. leg' = [leg EXCEPT ![s] = @ - 1] =>
            leg' = [u \in Compensators |-> IF u = s THEN leg[s] - 1 ELSE leg[u]]
      BY <1>0
    <2> QED BY <2>1
  <1>6. \A t : /\ InCharge(t) <=> InQueue(t) \/ InHand(t) \/ WithOperator(t) \/ BeingPushed(t)
               /\ InCharge(t)' <=>
                    InQueue(t)' \/ InHand(t)' \/ WithOperator(t)' \/ BeingPushed(t)'
    BY ChargeIsSomewhere
  <1>7. \A t : (InHand(t)' <=> InHand(t)) /\ (WithOperator(t)' <=> WithOperator(t))
    BY <1>2 DEF InHand, WithOperator
  <1>8. pc[s] \in {"claim", "push"} => BeingPushed(x)
    BY <1>1 DEF BeingPushed
  \* Only the saga's own transfer gains or loses anything.
  <1>9. ASSUME NEW l, Goto(s, l), NEW t, t # x,
               leg' = leg \/ (leg' = [leg EXCEPT ![s] = @ - 1] /\ l \notin {"claim", "push"}),
               pending' = pending \/ pending' = Append(pending, NewEvent(s))
        PROVE  InCharge(t)' <=> InCharge(t)
    <2>1. NewEvent(s).transfer = x
      BY <1>1 DEF NewEvent
    <2>2. InQueue(t)' <=> InQueue(t)
      <3>1. CASE pending' = pending
        BY <3>1 DEF InQueue
      <3>2. CASE pending' = Append(pending, NewEvent(s))
        BY <1>0, <1>9, <2>1, <3>2, Appended
      <3> QED BY <1>9, <3>1, <3>2
    <2>3. \A u \in Compensators :
            pc'[u] \in {"claim", "push"} /\ leg'[u] = t <=> pc[u] \in {"claim", "push"} /\ leg[u] = t
      <3> TAKE u \in Compensators
      <3>1. CASE u = s
        BY <1>1, <1>4, <1>9, <3>1
      <3>2. CASE u # s
        BY <1>4, <1>5, <1>9, <3>2
      <3> QED BY <3>1, <3>2
    <2>4. BeingPushed(t)' <=> BeingPushed(t)
      BY <2>3 DEF BeingPushed
    <2> QED BY <1>6, <1>7, <2>2, <2>4
  \* Before its claim a saga is in charge of nothing.
  <1>10. ASSUME NEW l, Goto(s, l), l \notin {"claim", "push"}, pc[s] \notin {"claim", "push"},
                pending' = pending, leg' = leg \/ leg' = [leg EXCEPT ![s] = @ - 1]
         PROVE  InCharge(x)' <=> InCharge(x)
    <2>1. InQueue(x)' <=> InQueue(x)
      BY <1>10 DEF InQueue
    <2>2. \A u \in Compensators :
            pc'[u] \in {"claim", "push"} /\ leg'[u] = x <=> pc[u] \in {"claim", "push"} /\ leg[u] = x
      <3> TAKE u \in Compensators
      <3>1. CASE u = s
        BY <1>4, <1>10, <3>1
      <3>2. CASE u # s
        BY <1>4, <1>5, <1>10, <3>2
      <3> QED BY <3>1, <3>2
    <2>3. BeingPushed(x)' <=> BeingPushed(x)
      BY <2>2 DEF BeingPushed
    <2> QED BY <1>6, <1>7, <2>1, <2>3
  <1>11. ASSUME NEW l, Goto(s, l), l \notin {"claim", "push"}, pc[s] \notin {"claim", "push"},
                pending' = pending,
                \/ tombstones' = tombstones
                \/ tombstones' = tombstones \cup {x} /\ Returned(x),
                \/ leg' = leg
                \/ /\ leg' = [leg EXCEPT ![s] = @ - 1]
                   /\ Returned(x) \/ InCharge(x) \/ Unsafe
         PROVE  [Promise!Next]_(Promise!promiseVars)
    <2>1. \A t \in Transfers \ {x} : InCharge(t)' <=> InCharge(t)
      BY <1>9, <1>11
    <2>2. InCharge(x)' <=> InCharge(x)
      BY <1>10, <1>11
    <2> QED BY <1>1, <1>2, <1>11, <2>1, <2>2, StepOfPromise
  <1>12. NextLeg(s) => /\ leg' = [leg EXCEPT ![s] = @ - 1]
                       /\ Goto(s, "check") \/ Goto(s, "done")
    BY DEF NextLeg
  <1>13. LoseLeg(s) => NextLeg(s) /\ Unsafe
    BY DEF LoseLeg, Unsafe
  <1> USE DEF queues, keys
  <1>14. CASE CheckBeforeReversal(s)
    BY <1>1, <1>3, <1>11, <1>12, <1>14 DEF CheckBeforeReversal
  <1>15. CASE SendReversal(s)
    BY <1>11, <1>15 DEF SendReversal
  <1>16. CASE AwaitInline(s)
    BY <1>11, <1>16 DEF AwaitInline, AwaitReversal
  <1>17. CASE MarkInline(s)
    BY <1>1, <1>3, <1>11, <1>12, <1>17 DEF MarkInline
  <1>18. CASE EnqueueRecheck(s)
    BY <1>1, <1>3, <1>11, <1>12, <1>13, <1>18 DEF EnqueueRecheck
  <1>19. CASE EnqueueLookup(s)
    <2>1. pc[s] = "lookup" /\ pending' = pending /\ tombstones' = tombstones
      BY <1>19 DEF EnqueueLookup
    <2>2. CASE x \in idempotent /\ NextLeg(s)
      <3>1. ~Unsafe => Kept(x)
        BY <2>2 DEF KeptInv
      <3>2. Returned(x) \/ InCharge(x) \/ Unsafe
        BY <1>6, <3>1 DEF Kept
      <3> QED BY <1>11, <1>12, <2>1, <2>2, <3>2
    <2>3. CASE Goto(s, "claim") /\ leg' = leg
      <3>1. \A t \in Transfers \ {x} : InCharge(t)' <=> InCharge(t)
        BY <1>9, <2>1, <2>3
      <3>2. InCharge(x)'
        <4>1. BeingPushed(x)'
          BY <1>1, <1>4, <2>3 DEF BeingPushed
        <4> QED BY <1>6, <4>1
      <3> QED BY <1>1, <1>2, <2>1, <2>3, <3>1, <3>2, StepOfPromise
    <2>4. CASE LoseLeg(s)
      BY <1>11, <1>12, <1>13, <2>1, <2>4
    <2> QED BY <1>1, <1>19, <2>2, <2>3, <2>4 DEF EnqueueLookup
  <1>20. CASE EnqueueClaim(s)
    <2>1. pc[s] = "claim" /\ pending' = pending /\ tombstones' = tombstones /\ InCharge(x)
      BY <1>6, <1>8, <1>20 DEF EnqueueClaim
    <2>2. CASE Goto(s, "push") /\ leg' = leg
      <3>1. \A t \in Transfers \ {x} : InCharge(t)' <=> InCharge(t)
        BY <1>9, <2>1, <2>2
      <3>2. InCharge(x)'
        <4>1. BeingPushed(x)'
          BY <1>1, <1>4, <2>2 DEF BeingPushed
        <4> QED BY <1>6, <4>1
      <3> QED BY <1>2, <2>1, <2>2, <3>1, <3>2, StepOfPromise
    <2>3. CASE LoseLeg(s)
      <3>1. \A t \in Transfers \ {x} : InCharge(t)' <=> InCharge(t)
        BY <1>9, <1>12, <1>13, <2>1, <2>3
      <3> QED BY <1>1, <1>2, <1>12, <1>13, <2>1, <2>3, <3>1, StepOfPromise
    <2> QED BY <1>20, <2>2, <2>3 DEF EnqueueClaim
  <1>21. CASE EnqueuePush(s)
    <2>1. pc[s] = "push" /\ tombstones' = tombstones /\ InCharge(x)
      BY <1>6, <1>8, <1>21 DEF EnqueuePush
    <2>2. /\ NextLeg(s)
          /\ pending' = pending \/ pending' = Append(pending, NewEvent(s))
      BY <1>13, <1>21 DEF EnqueuePush
    <2>3. \A t \in Transfers \ {x} : InCharge(t)' <=> InCharge(t)
      BY <1>9, <1>12, <2>1, <2>2
    <2>4. pending' = Append(pending, NewEvent(s)) => InCharge(x)'
      <3>1. NewEvent(s).transfer = x
        BY <1>1 DEF NewEvent
      <3> QED BY <1>0, <1>6, <3>1, Appended
    <2>5. Unsafe \/ InCharge(x)'
      BY <1>13, <1>21, <2>4 DEF EnqueuePush
    <2> QED BY <1>1, <1>2, <1>12, <2>1, <2>2, <2>3, <2>5, StepOfPromise
  <1>22. CASE Crash(s)
    <2>1. /\ Unsafe /\ Goto(s, "crashed") /\ leg' = leg /\ pending' = pending
          /\ tombstones' = tombstones
      BY <1>0, <1>22 DEF Crash, Unsafe
    <2>2. \A t \in Transfers \ {x} : InCharge(t)' <=> InCharge(t)
      BY <1>9, <2>1
    <2>3. InCharge(x)' => InCharge(x)
      <3>1. CASE pc[s] \in {"claim", "push"}
        BY <1>6, <1>8, <3>1
      <3>2. CASE pc[s] \notin {"claim", "push"}
        BY <1>10, <2>1, <3>2
      <3> QED BY <3>1, <3>2
    <2> QED BY <1>2, <2>1, <2>2, <2>3, StepOfPromise
  <1> QED BY <1>14, <1>15, <1>16, <1>17, <1>18, <1>19, <1>20, <1>21, <1>22 DEF Compensate

LEMMA WorkerKeepsPromise ==
  ASSUME DlqInv, NEW w \in Workers, StartWorker(w) \/ Work(w) \/ Crash(w)
  PROVE  [Promise!Next]_(Promise!promiseVars)
  <1>0. /\ w \in Clients /\ w \notin Compensators /\ DOMAIN pc = Clients
        /\ DOMAIN hand = Workers /\ Stored /\ Control /\ 1 \in Transfers
    BY DlqAssumption DEF DlqInv, Control, Clients, Placed, Transfers
  <1>1. leg' = leg /\ refunds' = refunds
    BY DEF StartWorker, Work, Crash, PopEvent, CheckEvent, SendReversal, AwaitEvent, MarkEvent,
           RequeueEvent, EscalateEvent, provider
  <1>2. \A l : Goto(w, l) => \A t : BeingPushed(t)' <=> BeingPushed(t)
    <2> SUFFICES ASSUME NEW l, Goto(w, l), NEW t PROVE BeingPushed(t)' <=> BeingPushed(t)
      OBVIOUS
    <2>1. \A s \in Compensators : pc'[s] = pc[s]
      BY <1>0 DEF Goto
    <2> QED BY <1>1, <2>1 DEF BeingPushed
  <1>3. \A t : /\ InCharge(t) <=> InQueue(t) \/ InHand(t) \/ WithOperator(t) \/ BeingPushed(t)
               /\ InCharge(t)' <=>
                    InQueue(t)' \/ InHand(t)' \/ WithOperator(t)' \/ BeingPushed(t)'
    BY ChargeIsSomewhere
  <1>4. /\ pending' = pending => \A t : InQueue(t)' <=> InQueue(t)
        /\ dead' = dead => \A t : WithOperator(t)' <=> WithOperator(t)
        /\ hand' = hand => \A t : InHand(t)' <=> InHand(t)
    BY DEF InQueue, WithOperator, InHand
  \* What a changed hand means for the transfers in it.
  <1>5. ASSUME NEW H, NEW h, hand[w] = H, hand' = [hand EXCEPT ![w] = h], NEW t,
               (\E e \in h : e.transfer = t) <=> (\E e \in H : e.transfer = t)
        PROVE  InHand(t)' <=> InHand(t)
    <2>1. \A v \in Workers : hand'[v] = IF v = w THEN h ELSE hand[v]
      BY <1>0, <1>5
    <2>2. \A v \in Workers :
            (\E e \in hand'[v] : e.transfer = t) <=> (\E e \in hand[v] : e.transfer = t)
      BY <1>5, <2>1
    <2> QED BY <2>2 DEF InHand
  <1>6. ASSUME hand' = [hand EXCEPT ![w] = {}], NEW t PROVE InHand(t)' => InHand(t)
    <2>1. \A v \in Workers : hand'[v] = IF v = w THEN {} ELSE hand[v]
      BY <1>0, <1>6
    <2> QED BY <2>1 DEF InHand
  \* Nobody's charge changes.
  <1>7. ASSUME NEW l, Goto(w, l), NEW x \in Transfers,
               \A t \in Transfers :
                 InQueue(t)' \/ InHand(t)' \/ WithOperator(t)' <=>
                 InQueue(t) \/ InHand(t) \/ WithOperator(t),
               \/ tombstones' = tombstones
               \/ tombstones' = tombstones \cup {x} /\ Returned(x)
         PROVE  [Promise!Next]_(Promise!promiseVars)
    <2>1. \A t \in Transfers : InCharge(t)' <=> InCharge(t)
      BY <1>2, <1>3, <1>7
    <2> QED BY <1>1, <1>7, <2>1, StepOfPromise
  \* A charge is given up.
  <1>8. ASSUME NEW l, Goto(w, l), NEW x \in Transfers,
               \A t \in Transfers \ {x} :
                 InQueue(t)' \/ InHand(t)' \/ WithOperator(t)' <=>
                 InQueue(t) \/ InHand(t) \/ WithOperator(t),
               InQueue(x)' \/ InHand(x)' \/ WithOperator(x)' =>
                 InQueue(x) \/ InHand(x) \/ WithOperator(x),
               Returned(x) \/ Unsafe,
               \/ tombstones' = tombstones
               \/ tombstones' = tombstones \cup {x} /\ Returned(x)
         PROVE  [Promise!Next]_(Promise!promiseVars)
    <2>1. \A t \in Transfers \ {x} : InCharge(t)' <=> InCharge(t)
      BY <1>2, <1>3, <1>8
    <2>2. InCharge(x)' => InCharge(x)
      BY <1>2, <1>3, <1>8
    <2> QED BY <1>1, <1>8, <2>1, <2>2, StepOfPromise
  <1>9. Finish(w) \/ FailLoop(w) =>
          hand' = [hand EXCEPT ![w] = {}] /\ (Goto(w, "poll") \/ Goto(w, "failed"))
    BY DEF Finish, FailLoop
  <1>10. FailLoop(w) => Unsafe
    BY DEF FailLoop, Unsafe
  <1> USE DEF queues, keys
  <1>11. CASE StartWorker(w) \/ SendReversal(w)
    BY <1>0, <1>4, <1>7, <1>11 DEF StartWorker, SendReversal
  <1>12. CASE PopEvent(w)
    <2>1. PICK e \in Events : e = Head(pending) /\ e.transfer \in Transfers
      <3>1. Head(pending) \in Events
        BY <1>0, <1>12, Popped DEF PopEvent
      <3> QED BY <3>1 DEF Events
    <2>2. pc[w] = "poll" /\ dead' = dead /\ tombstones' = tombstones /\ pending # <<>>
      BY <1>12 DEF PopEvent
    <2>3. hand[w] = {}
      BY <1>0, <2>2 DEF Control, Placed, WorkerPlaced
    <2>4. pending' = Tail(pending) => \A t : InQueue(t) <=> InQueue(t)' \/ e.transfer = t
      BY <1>0, <2>1, <2>2, Shortened
    <2>5. CASE pending' = Tail(pending) /\ hand' = [hand EXCEPT ![w] = {e}] /\ Goto(w, "check")
      <3>1. \A v \in Workers : hand'[v] = IF v = w THEN {e} ELSE hand[v]
        BY <1>0, <2>5
      <3>2. \A t : InHand(t)' <=> InHand(t) \/ e.transfer = t
        BY <2>3, <3>1 DEF InHand
      <3>3. \A t : InQueue(t)' \/ InHand(t)' <=> InQueue(t) \/ InHand(t)
        BY <2>4, <2>5, <3>2
      <3> QED BY <1>0, <1>4, <1>7, <2>2, <2>5, <3>3
    <2>6. CASE pending' \in {pending, Tail(pending)} /\ FailLoop(w)
      <3>1. \A t : InHand(t)' <=> InHand(t)
        BY <1>5, <1>9, <2>3, <2>6
      <3>2. \A t : InQueue(t)' => InQueue(t)
        BY <1>4, <2>4, <2>6
      <3>3. \A t : t # e.transfer => (InQueue(t)' <=> InQueue(t))
        BY <1>4, <2>4, <2>6
      <3> QED BY <1>4, <1>8, <1>9, <1>10, <2>1, <2>2, <2>6, <3>1, <3>2, <3>3
    <2> QED BY <1>12, <2>1, <2>5, <2>6 DEF PopEvent
  \* From here on the worker has an event in its hand.
  <1>13. ASSUME pc[w] \notin {"off", "failed", "poll"}
         PROVE  \E e \in Events : /\ e = Subject(w) /\ e.transfer \in Transfers
                                  /\ hand[w] = {e}
    <2>1. pc[w] # "done"
      BY <1>0 DEF Control, Placed, Place, WorkerPCs
    <2>2. Subject(w) \in Events /\ hand[w] = {Subject(w)}
      BY <1>0, <1>13, <2>1, SubjectIsEvent
    <2> QED BY <2>2 DEF Events
  <1>14. ASSUME NEW e, hand[w] = {e}, hand' = [hand EXCEPT ![w] = {}], NEW t, t # e.transfer
         PROVE  InHand(t)' <=> InHand(t)
    BY <1>5, <1>14
  <1>15. ASSUME NEW e \in Events, hand[w] = {e}, e = Subject(w), CountRetry(w)
         PROVE  \A t : InHand(t)' <=> InHand(t)
    <2>1. PICK f : f = [e EXCEPT !.retries = e.retries + 1]
      OBVIOUS
    <2>2. hand' = [hand EXCEPT ![w] = {f}] /\ f.transfer = e.transfer
      BY <1>15, <2>1 DEF CountRetry, Events
    <2>3. \A t : (\E g \in {f} : g.transfer = t) <=> (\E g \in {e} : g.transfer = t)
      BY <2>2
    <2> HIDE <2>1
    <2> QED BY <1>5, <1>15, <2>2, <2>3
  <1>16. CountRetry(w) => Goto(w, "escalate") \/ Goto(w, "requeue")
    BY DEF CountRetry
  <1>17. CASE CheckEvent(w)
    <2>1. /\ pc[w] = "check" /\ pending' = pending /\ dead' = dead
          /\ tombstones' = tombstones
      BY <1>17 DEF CheckEvent
    <2>2. PICK e \in Events : e = Subject(w) /\ e.transfer \in Transfers /\ hand[w] = {e}
      BY <1>13, <2>1
    <2>3. CASE Goto(w, "send") /\ hand' = hand
      BY <1>4, <1>7, <2>1, <2>2, <2>3
    <2>4. CASE (e.transfer \in tombstones /\ Finish(w)) \/ FailLoop(w)
      <3>1. Returned(e.transfer) \/ Unsafe
        BY <1>10, <2>4 DEF DlqInv, Money
      <3>2. \A t : t # e.transfer => (InHand(t)' <=> InHand(t))
        BY <1>9, <1>14, <2>2, <2>4
      <3>3. \A t : InHand(t)' => InHand(t)
        BY <1>6, <1>9, <2>4
      <3> QED BY <1>4, <1>8, <1>9, <2>1, <2>2, <2>4, <3>1, <3>2, <3>3
    <2> QED BY <1>17, <2>2, <2>3, <2>4 DEF CheckEvent
  <1>18. CASE AwaitEvent(w)
    <2>1. /\ pc[w] = "wait" /\ pending' = pending /\ dead' = dead
          /\ tombstones' = tombstones
      BY <1>18 DEF AwaitEvent, AwaitReversal
    <2>2. PICK e \in Events : e = Subject(w) /\ e.transfer \in Transfers /\ hand[w] = {e}
      BY <1>13, <2>1
    <2>3. CASE Goto(w, "mark") /\ hand' = hand
      BY <1>4, <1>7, <2>1, <2>2, <2>3
    <2>4. CASE CountRetry(w)
      <3>1. \A t : InHand(t)' <=> InHand(t)
        BY <1>15, <2>2, <2>4
      <3> QED BY <1>4, <1>7, <1>16, <2>1, <2>2, <2>4, <3>1
    <2> QED BY <1>18, <2>3, <2>4 DEF AwaitEvent, AwaitReversal
  <1>19. CASE MarkEvent(w)
    <2>1. pc[w] = "mark" /\ pending' = pending /\ dead' = dead
      BY <1>19 DEF MarkEvent
    <2>2. PICK e \in Events : e = Subject(w) /\ e.transfer \in Transfers /\ hand[w] = {e}
      BY <1>13, <2>1
    <2>3. Returned(e.transfer)
      BY <1>0, <2>1, <2>2 DEF DlqInv, Money
    <2>4. /\ \/ tombstones' = tombstones
             \/ tombstones' = tombstones \cup {e.transfer} /\ Returned(e.transfer)
          /\ Finish(w) \/ CountRetry(w)
      BY <1>19, <2>2, <2>3 DEF MarkEvent
    <2>5. CASE Finish(w)
      <3>1. \A t : t # e.transfer => (InHand(t)' <=> InHand(t))
        BY <1>9, <1>14, <2>2, <2>5
      <3>2. \A t : InHand(t)' => InHand(t)
        BY <1>6, <1>9, <2>5
      <3> QED BY <1>4, <1>8, <1>9, <2>1, <2>2, <2>3, <2>4, <2>5, <3>1, <3>2
    <2>6. CASE CountRetry(w)
      <3>1. \A t : InHand(t)' <=> InHand(t)
        BY <1>15, <2>2, <2>6
      <3> QED BY <1>4, <1>7, <1>16, <2>1, <2>2, <2>4, <2>6, <3>1
    <2> QED BY <2>4, <2>5, <2>6
  <1>20. CASE RequeueEvent(w)
    <2>1. pc[w] = "requeue" /\ dead' = dead /\ tombstones' = tombstones
      BY <1>20 DEF RequeueEvent
    <2>2. PICK e \in Events : e = Subject(w) /\ e.transfer \in Transfers /\ hand[w] = {e}
      BY <1>13, <2>1
    <2>3. InHand(e.transfer)
      BY <2>2 DEF InHand
    <2>4. /\ pending' = pending \/ pending' = Append(pending, e)
          /\ Finish(w) \/ FailLoop(w)
          /\ Unsafe \/ pending' = Append(pending, e)
      BY <1>10, <1>20, <2>2 DEF RequeueEvent
    <2>5. pending' = Append(pending, e) => \A t : InQueue(t)' <=> InQueue(t) \/ e.transfer = t
      BY <1>0, Appended
    <2>6. \A t : t # e.transfer => /\ InHand(t)' <=> InHand(t)
                                   /\ InQueue(t)' <=> InQueue(t)
      BY <1>4, <1>9, <1>14, <2>2, <2>4, <2>5
    <2>7. CASE pending' = Append(pending, e)
      <3>1. \A t : InQueue(t)' \/ InHand(t)' <=> InQueue(t) \/ InHand(t)
        BY <2>3, <2>5, <2>6, <2>7
      <3> QED BY <1>4, <1>7, <1>9, <2>1, <2>2, <2>4, <3>1
    <2>8. CASE Unsafe
      BY <1>4, <1>8, <1>9, <2>1, <2>2, <2>3, <2>4, <2>6, <2>8
    <2> QED BY <2>4, <2>7, <2>8
  <1>21. CASE EscalateEvent(w)
    <2>1. pc[w] = "escalate" /\ pending' = pending /\ tombstones' = tombstones
      BY <1>21 DEF EscalateEvent
    <2>2. PICK e \in Events : e = Subject(w) /\ e.transfer \in Transfers /\ hand[w] = {e}
      BY <1>13, <2>1
    <2>3. InHand(e.transfer)
      BY <2>2 DEF InHand
    <2>4. /\ dead' = dead \/ dead' = dead \cup {e}
          /\ Finish(w) \/ FailLoop(w)
          /\ Unsafe \/ dead' = dead \cup {e}
      BY <1>10, <1>21, <2>2 DEF EscalateEvent
    <2>5. dead' = dead \cup {e} => \A t : WithOperator(t)' <=> WithOperator(t) \/ e.transfer = t
      BY DEF WithOperator
    <2>6. \A t : t # e.transfer => /\ InHand(t)' <=> InHand(t)
                                   /\ WithOperator(t)' <=> WithOperator(t)
      BY <1>4, <1>9, <1>14, <2>2, <2>4, <2>5
    <2>7. CASE dead' = dead \cup {e}
      <3>1. \A t : WithOperator(t)' \/ InHand(t)' <=> WithOperator(t) \/ InHand(t)
        BY <2>3, <2>5, <2>6, <2>7
      <3> QED BY <1>4, <1>7, <1>9, <2>1, <2>2, <2>4, <3>1
    <2>8. CASE Unsafe
      BY <1>4, <1>8, <1>9, <2>1, <2>2, <2>3, <2>4, <2>6, <2>8
    <2> QED BY <2>4, <2>7, <2>8
  <1>22. CASE Crash(w)
    <2>1. /\ Unsafe /\ Goto(w, "off") /\ hand' = [hand EXCEPT ![w] = {}] /\ dead' = dead
          /\ pending' = pending /\ tombstones' = tombstones /\ pc[w] \notin {"off", "failed"}
      BY <1>22 DEF Crash, Unsafe
    <2>2. CASE pc[w] = "poll"
      <3>1. hand[w] = {}
        BY <1>0, <2>2 DEF Control, Placed, WorkerPlaced
      <3>2. \A t : InHand(t)' <=> InHand(t)
        BY <1>5, <2>1, <3>1
      <3> QED BY <1>0, <1>4, <1>7, <2>1, <3>2
    <2>3. CASE pc[w] # "poll"
      <3>1. PICK e \in Events : e = Subject(w) /\ e.transfer \in Transfers /\ hand[w] = {e}
        BY <1>13, <2>1, <2>3
      <3>2. \A t : t # e.transfer => (InHand(t)' <=> InHand(t))
        BY <1>14, <2>1, <3>1
      <3>3. \A t : InHand(t)' => InHand(t)
        BY <1>6, <2>1
      <3> QED BY <1>4, <1>8, <2>1, <3>1, <3>2, <3>3
    <2> QED BY <2>2, <2>3
  <1> QED BY <1>11, <1>12, <1>17, <1>18, <1>19, <1>20, <1>21, <1>22 DEF Work

LEMMA ProviderKeepsPromise ==
  ASSUME DlqInv, NEW r \in wire, ExecuteReversal(r) \/ RefuseReversal(r)
  PROVE  [Promise!Next]_(Promise!promiseVars)
  <1>1. UNCHANGED <<pc, leg, hand, pending, dead, tombstones>>
    BY DEF ExecuteReversal, RefuseReversal, queues, keys
  <1>2. \A t : InCharge(t)' <=> InCharge(t)
    BY <1>1 DEF InCharge, Waiting, Holding, Buried, Pushing
  <1>3. CASE refunds' = refunds
    BY <1>1, <1>2, <1>3 DEF Promise!promiseVars
  <1>4. CASE refunds' # refunds
    <2>1. PICK x : x = r.event.transfer
      OBVIOUS
    <2>2. /\ r.key \notin seenKeys /\ r.key = <<"cmp", x>>
          /\ refunds' = [refunds EXCEPT ![x] = @ + 1] /\ x \in Transfers
      BY <1>4, <2>1 DEF ExecuteReversal, RefuseReversal, DlqInv, Control, Wired, Money, Events
    <2>3. refunds[x] = 0 /\ refunds' = [refunds EXCEPT ![x] = 1]
      BY <2>2 DEF DlqInv, Money
    <2>4. x \in Promise!Transfers /\ x \notin Promise!Repaid
      BY <2>2, <2>3 DEF Transfers, Promise!Transfers, Promise!Repaid
    <2>5. Promise!Repay(x)
      BY <1>1, <1>2, <2>3, <2>4 DEF Promise!Repay
    <2> QED BY <2>4, <2>5 DEF Promise!Next
  <1> QED BY <1>3, <1>4

LEMMA StepKeepsPromise ==
  ASSUME DlqInv, ~Unsafe => KeptInv, [Next]_vars
  PROVE  [Promise!Next]_(Promise!promiseVars)
  <1>1. CASE UNCHANGED vars
    <2>1. UNCHANGED <<pc, leg, hand, pending, dead, refunds, tombstones>>
      BY <1>1 DEF vars, queues, keys, provider
    <2>2. \A t : InCharge(t)' <=> InCharge(t)
      BY <2>1 DEF InCharge, Waiting, Holding, Buried, Pushing
    <2> QED BY <2>1, <2>2 DEF Promise!promiseVars
  <1> QED BY <1>1, SagaKeepsPromise, WorkerKeepsPromise, ProviderKeepsPromise DEF Next

\* The queue with its keys and its workers, beside the saga's own reversals, implements
\* the promise, whatever fails: at most one repayment, no record before it, and a
\* transfer is left only repaid or in charge.
THEOREM RefundPromiseKept == Spec => KeepsRefundPromise
  <1>1. Init => Promise!Init
    <2> SUFFICES ASSUME Init PROVE Promise!Init
      OBVIOUS
    <2>1. /\ Len(pending) = 0 /\ dead = {} /\ \A w \in Workers : hand[w] = {}
          /\ \A s \in Compensators : pc[s] \notin {"claim", "push"}
      BY DlqAssumption DEF Init, Clients
    <2>2. \A t : ~InCharge(t)
      BY <2>1 DEF InCharge, Waiting, Holding, Buried, Pushing
    <2> QED BY <2>2 DEF Init, Promise!Init, Promise!Transfers, Transfers
  <1>2. DlqInv /\ (~Unsafe => KeptInv) /\ [Next]_vars
        => [Promise!Next]_(Promise!promiseVars)
    BY StepKeepsPromise
  <1>3. Init => DlqInv /\ (~Unsafe => KeptInv)
    BY InitDlqInv, InitKeptInv
  <1>4. DlqInv /\ (~Unsafe => KeptInv) /\ [Next]_vars => DlqInv' /\ (~Unsafe => KeptInv)'
    <2>1. ~Unsafe => Live
      BY DEF Unsafe, Live
    <2>2. Unsafe' <=> Unsafe
      BY DEF Unsafe
    <2> QED BY <2>1, <2>2, NextDlqInv, NextKeptInv
  <1> QED BY <1>1, <1>2, <1>3, <1>4, PTL DEF Spec, KeepsRefundPromise, Promise!Spec
-----------------------------------------------------------------------------
(* The promise alone *)

VARIABLES turn, repaid, charged, recorded
Ideal == INSTANCE RefundPromise WITH Sagas <- Compensators, Unreliable <- Unsafe

IdealInv ==
  /\ turn \in [Compensators -> 0..LegCount]
  /\ repaid \in [Transfers -> {0, 1}]
  /\ Ideal!RepaidOnceAndRecordedAfter
  /\ Ideal!NothingLeftBehind

\* What KeepsRefundPromise is worth: whoever implements RefundPromise repays once, records
\* no repayment ahead of the money and, where stores and processes live, leaves no
\* transfer behind that is neither repaid nor in charge.
THEOREM RefundPromiseIsSafe ==
  Ideal!Spec => [](Ideal!RepaidOnceAndRecordedAfter /\ Ideal!NothingLeftBehind)
  <1> USE DEF Transfers, Ideal!Transfers
  <1>1. Ideal!Init => IdealInv
    <2> SUFFICES ASSUME Ideal!Init PROVE IdealInv
      OBVIOUS
    <2>1. LegCount \in Nat \ {0}
      BY DlqAssumption
    <2>2. turn \in [Compensators -> 0..LegCount] /\ repaid \in [Transfers -> {0, 1}]
      BY <2>1 DEF Ideal!Init
    <2>3. Ideal!RepaidOnceAndRecordedAfter
      BY DEF Ideal!Init, Ideal!RepaidOnceAndRecordedAfter
    <2>4. Ideal!NothingLeftBehind
      BY <2>1 DEF Ideal!Init, Ideal!NothingLeftBehind
    <2> QED BY <2>2, <2>3, <2>4 DEF IdealInv
  <1>2. IdealInv /\ [Ideal!Next]_(Ideal!promiseVars) => IdealInv'
    <2> SUFFICES ASSUME IdealInv, [Ideal!Next]_(Ideal!promiseVars) PROVE IdealInv'
      OBVIOUS
    <2> USE DEF Ideal!Repaid
    <2>1. CASE UNCHANGED Ideal!promiseVars
      BY <2>1 DEF IdealInv, Ideal!promiseVars, Ideal!RepaidOnceAndRecordedAfter,
                  Ideal!NothingLeftBehind
    <2>2. ASSUME NEW t \in Transfers, Ideal!Repay(t) PROVE IdealInv'
      <3>1. /\ repaid' = [u \in Transfers |-> IF u = t THEN 1 ELSE repaid[u]]
            /\ Ideal!Repaid' = Ideal!Repaid \cup {t}
        <4>1. repaid' = [u \in Transfers |-> IF u = t THEN 1 ELSE repaid[u]]
          BY <2>2 DEF IdealInv, Ideal!Repay
        <4>2. \A u \in Transfers : repaid'[u] > 0 <=> repaid[u] > 0 \/ u = t
          BY <4>1
        <4> QED BY <4>1, <4>2
      <3>2. Ideal!RepaidOnceAndRecordedAfter'
        BY <2>2, <3>1 DEF IdealInv, Ideal!Repay, Ideal!RepaidOnceAndRecordedAfter
      <3>3. Ideal!NothingLeftBehind'
        BY <2>2, <3>1 DEF IdealInv, Ideal!Repay, Ideal!NothingLeftBehind
      <3> QED BY <2>2, <3>1, <3>2, <3>3 DEF IdealInv, Ideal!Repay
    <2>3. ASSUME NEW t \in Transfers, Ideal!Record(t) \/ Ideal!Release(t) PROVE IdealInv'
      <3>1. /\ turn' = turn /\ repaid' = repaid
            /\ recorded' = recorded \/ (t \in Ideal!Repaid /\ recorded' = recorded \cup {t})
        BY <2>3 DEF Ideal!Record, Ideal!Release, Ideal!RecordedAlong
      <3>2. Ideal!RepaidOnceAndRecordedAfter'
        BY <3>1 DEF IdealInv, Ideal!RepaidOnceAndRecordedAfter
      <3>3. Ideal!NothingLeftBehind'
        BY <2>3, <3>1 DEF IdealInv, Ideal!Record, Ideal!Release, Ideal!NothingLeftBehind
      <3> QED BY <3>1, <3>2, <3>3 DEF IdealInv
    <2>4. ASSUME NEW s \in Compensators, Ideal!TakeCharge(s) PROVE IdealInv'
      BY <2>4 DEF IdealInv, Ideal!TakeCharge, Ideal!RepaidOnceAndRecordedAfter,
                  Ideal!NothingLeftBehind
    <2>5. ASSUME NEW s \in Compensators, Ideal!Pass(s) PROVE IdealInv'
      <3>1. PICK x \in 1..LegCount : x = turn[s]
        BY <2>5, DlqAssumption DEF IdealInv, Ideal!Pass
      <3>2. /\ repaid' = repaid
            /\ turn' = [u \in Compensators |-> IF u = s THEN x - 1 ELSE turn[u]]
            /\ recorded' = recorded \/ (x \in Ideal!Repaid /\ recorded' = recorded \cup {x})
            /\ Unsafe \/ (x \in Ideal!Repaid \cup charged /\ charged' = charged)
        BY <2>5, <3>1 DEF IdealInv, Ideal!Pass, Ideal!RecordedAlong
      <3>3. Ideal!RepaidOnceAndRecordedAfter'
        BY <3>2 DEF IdealInv, Ideal!RepaidOnceAndRecordedAfter
      <3>4. Ideal!NothingLeftBehind'
        <4>1. CASE Unsafe
          BY <4>1 DEF Ideal!NothingLeftBehind, Unsafe
        <4>2. ASSUME ~Unsafe, NEW u \in Compensators, NEW t \in Transfers, turn'[u] < t
              PROVE  t \in Ideal!Repaid' \cup charged'
          <5>1. t = x \/ turn[u] < t
            BY <3>1, <3>2, <4>2, DlqAssumption
          <5> QED BY <3>2, <4>2, <5>1 DEF IdealInv, Ideal!NothingLeftBehind
        <4> QED BY <4>1, <4>2 DEF Ideal!NothingLeftBehind
      <3>5. turn' \in [Compensators -> 0..LegCount]
        BY <3>1, <3>2, DlqAssumption DEF IdealInv
      <3> QED BY <3>2, <3>3, <3>4, <3>5 DEF IdealInv
    <2> QED BY <2>1, <2>2, <2>3, <2>4, <2>5 DEF Ideal!Next
  <1>3. IdealInv => Ideal!RepaidOnceAndRecordedAfter /\ Ideal!NothingLeftBehind
    BY DEF IdealInv
  <1> QED BY <1>1, <1>2, <1>3, PTL DEF Ideal!Spec
=============================================================================
