------------------------ MODULE SettlementSaga_proofs ------------------------
(***************************************************************************)
(* Proofs about SettlementSaga, for every set of attempts, carts and       *)
(* mandates and every assignment of amounts, budgets and legs.             *)
(***************************************************************************)
EXTENDS SettlementSaga, TLAPS

RedisReliable == "redis" \notin Faults

\* Before its first transfer an attempt has none; it enters the split phase only
\* with its payment captured.
BeforeSplitPCs == {"start", "nonce", "claim", "book", "unbook", "capture", "freeClaim",
                   "freeSpend", "order", "refused", "captureFailed", "manifestRejected"}
CapturedPCs == {"order", "transfer", "compensate", "release", "manifestRejected",
                "settled", "rolledBack"}

SplitInv(a) ==
  /\ pc[a] \in BeforeSplitPCs => completed[a] = 0
  /\ pc[a] = "transfer" => completed[a] < LegCount[CartOf[a]]
  /\ pc[a] = "settled" => completed[a] = LegCount[CartOf[a]]
  /\ pc[a] \in BeforeSplitPCs \cup {"transfer", "settled"} => transfers[a] = 1..completed[a]
  /\ pc[a] \in CapturedPCs => a \in captured

RollbackInv(a) ==
  /\ IF pc[a] = "compensate" THEN cursor[a] \in 1..completed[a] ELSE cursor[a] = 0
  /\ Handled(a) = IF RollingBack(a) THEN (cursor[a] + 1)..completed[a] ELSE {}

NonceInv(a) == PastNonce(a) => NonceOf[a] \in nonces

\* The state an attempt has for itself.
Row(a) == <<pc[a], completed[a], cursor[a], transfers[a], reversed[a], queued[a],
            unrecorded[a], a \in captured>>

\* Inductive whatever goes wrong.
AttemptInv ==
  /\ TypeOK
  /\ \A a \in Attempts : SplitInv(a) /\ RollbackInv(a) /\ NonceInv(a)
  /\ NonceAdmitsOne

\* Inductive on top of it while Redis is reliable.
LedgerInv ==
  /\ OneSettlementPerCart /\ ClaimHeldInSlot
  /\ CounterIsExact /\ BudgetNeverExceeded
-----------------------------------------------------------------------------
(* Addition over sets of attempts *)

\* Adding an attempt to a set adds its amount.
LEMMA TotalAdd ==
  ASSUME NEW S \in SUBSET Attempts, NEW a \in Attempts, a \notin S
  PROVE  Total[S \cup {a}] = Total[S] + AmountOf(a)
  <1>1. {a} \in SUBSET Attempts /\ S \cap {a} = {}
    OBVIOUS
  <1>2. Total[S \cup {a}] = Total[S] + Total[{a}]
    BY <1>1, TotalAssumption
  <1> QED BY <1>2, TotalAssumption DEF AmountOf

\* Removing one subtracts it.
LEMMA TotalRemove ==
  ASSUME NEW S \in SUBSET Attempts, NEW a \in S
  PROVE  Total[S \ {a}] = Total[S] - AmountOf(a)
  <1> DEFINE R == S \ {a}
  <1>1. R \in SUBSET Attempts /\ a \in Attempts /\ a \notin R /\ R \cup {a} = S
    OBVIOUS
  <1>2. Total[R \cup {a}] = Total[R] + AmountOf(a)
    BY <1>1, TotalAdd
  <1>3. Total[R] \in Nat /\ AmountOf(a) \in Nat
    BY <1>1, TotalAssumption, CartAssumption, RequestAssumption DEF AmountOf
  <1> QED BY <1>1, <1>2, <1>3

\* A subset never totals more.
LEMMA TotalMonotone ==
  ASSUME NEW T \in SUBSET Attempts, NEW S \in SUBSET T
  PROVE  Total[S] <= Total[T]
  <1>1. S \in SUBSET Attempts /\ T \ S \in SUBSET Attempts /\ S \cap (T \ S) = {}
    OBVIOUS
  <1>2. S \cup (T \ S) = T
    OBVIOUS
  <1>3. Total[S \cup (T \ S)] = Total[S] + Total[T \ S]
    BY <1>1, TotalAssumption
  <1>4. Total[S] \in Nat /\ Total[T \ S] \in Nat
    BY <1>1, TotalAssumption
  <1>5. Total[T] = Total[S] + Total[T \ S]
    BY <1>2, <1>3
  <1> QED BY <1>4, <1>5

\* Nothing totals nothing.
LEMMA TotalEmpty == Total[{}] = 0
  <1>1. {} \in SUBSET Attempts /\ {} \cap {} = {} /\ {} \cup {} = {}
    OBVIOUS
  <1>2. Total[{} \cup {}] = Total[{}] + Total[{}] /\ Total[{}] \in Nat
    BY <1>1, TotalAssumption
  <1>3. \A n \in Nat : n = n + n => n = 0
    OBVIOUS
  <1> QED BY <1>1, <1>2, <1>3
-----------------------------------------------------------------------------
(* What one attempt does to itself and to the nonces *)

USE RequestAssumption, CartAssumption, FaultAssumption
USE DEF At, Goto, PCs, Done, control, ledger, split, rollback, AmountOf, RollbackSpend

\* Between two transfers at least one leg is left, the legs so far are at the
\* provider and none has been dealt with by a rollback.
LEMMA BetweenLegs ==
  ASSUME AttemptInv, NEW b \in Attempts, pc[b] = "transfer"
  PROVE  /\ completed[b] \in 0..3 /\ LegCount[CartOf[b]] \in 1..4
         /\ completed[b] < LegCount[CartOf[b]]
         /\ transfers[b] = 1..completed[b] /\ b \in captured
         /\ Handled(b) = {} /\ cursor[b] = 0 /\ NonceOf[b] \in nonces
  <1>1. SplitInv(b) /\ RollbackInv(b) /\ NonceInv(b)
    BY DEF AttemptInv
  <1>2. completed[b] \in 0..4 /\ LegCount[CartOf[b]] \in 1..4
    BY DEF AttemptInv, TypeOK
  <1>3. completed[b] < LegCount[CartOf[b]]
    BY <1>1 DEF SplitInv
  <1>4. transfers[b] = 1..completed[b] /\ b \in captured
    BY <1>1 DEF SplitInv, CapturedPCs
  <1>5. Handled(b) = {} /\ cursor[b] = 0
    BY <1>1 DEF RollbackInv, RollingBack
  <1>6. NonceOf[b] \in nonces
    BY <1>1 DEF NonceInv, PastNonce
  <1> QED BY <1>2, <1>3, <1>4, <1>5, <1>6

\* A step of the engine or a crash keeps every variable in its domain.
LEMMA TypeStep ==
  ASSUME AttemptInv, NEW b \in Attempts, Step(b) \/ Crash(b)
  PROVE  TypeOK'
  <1> USE DEF AttemptInv, TypeOK
  <1>1. CASE VerifyMandates(b)
    BY <1>1 DEF VerifyMandates
  <1>2. CASE ValidateAndRecordNonce(b)
    BY <1>2 DEF ValidateAndRecordNonce
  <1>3. CASE ClaimCartSettlement(b)
    BY <1>3 DEF ClaimCartSettlement
  <1>4. CASE RecordCumulativeSpend(b)
    BY <1>4 DEF RecordCumulativeSpend
  <1>5. CASE UndoBreach(b)
    BY <1>5 DEF UndoBreach
  <1>6. CASE CapturePayment(b)
    BY <1>6 DEF CapturePayment
  <1>7. CASE ReleaseCartClaim(b)
    BY <1>7 DEF ReleaseCartClaim
  <1>8. CASE ReleaseCumulativeSpend(b)
    BY <1>8 DEF ReleaseCumulativeSpend
  <1>9. CASE PrepareSplit(b)
    BY <1>9 DEF PrepareSplit
  <1>10. CASE CreateTransfer(b)
    <2>1. pc[b] = "transfer"
      BY <1>10 DEF CreateTransfer
    <2>2. /\ completed[b] \in 0..3 /\ LegCount[CartOf[b]] \in 1..4
          /\ completed[b] < LegCount[CartOf[b]]
      BY <2>1, BetweenLegs
    <2>3. completed[b] + 1 \in 1..4 /\ completed[b] + 1 <= LegCount[CartOf[b]]
      BY <2>2
    <2>4. /\ transfers' \in [Attempts -> SUBSET (1..4)]
          /\ completed' \in [Attempts -> 0..4] /\ cursor' \in [Attempts -> 0..4]
          /\ \A a \in Attempts : completed'[a] <= LegCount[CartOf[a]]
      BY <1>10, <2>3 DEF CreateTransfer, StartRollback
    <2> QED BY <1>10, <2>4 DEF CreateTransfer, StartRollback
  <1>11. CASE CompensateLeg(b)
    <2>1. cursor[b] \in 1..4
      BY <1>11 DEF CompensateLeg, RollbackInv
    <2> QED BY <1>11, <2>1 DEF CompensateLeg, ReverseLeg
  <1>12. CASE ReleaseProvisionalSpend(b)
    BY <1>12 DEF ReleaseProvisionalSpend
  <1>13. CASE Crash(b)
    BY <1>13 DEF Crash
  <1> QED BY <1>1, <1>2, <1>3, <1>4, <1>5, <1>6, <1>7, <1>8, <1>9, <1>10, <1>11, <1>12, <1>13 DEF Step

\* The state of every other attempt is left alone, and no nonce is forgotten.
LEMMA OthersUntouched ==
  ASSUME AttemptInv, NEW b \in Attempts, Step(b) \/ Crash(b)
  PROVE  /\ \A a \in Attempts \ {b} : Row(a)' = Row(a)
         /\ nonces \subseteq nonces'
  <1> USE DEF AttemptInv, TypeOK, Row
  <1>1. CASE VerifyMandates(b)
    BY <1>1 DEF VerifyMandates
  <1>2. CASE ValidateAndRecordNonce(b)
    BY <1>2 DEF ValidateAndRecordNonce
  <1>3. CASE ClaimCartSettlement(b)
    BY <1>3 DEF ClaimCartSettlement
  <1>4. CASE RecordCumulativeSpend(b)
    BY <1>4 DEF RecordCumulativeSpend
  <1>5. CASE UndoBreach(b)
    BY <1>5 DEF UndoBreach
  <1>6. CASE CapturePayment(b)
    BY <1>6 DEF CapturePayment
  <1>7. CASE ReleaseCartClaim(b)
    BY <1>7 DEF ReleaseCartClaim
  <1>8. CASE ReleaseCumulativeSpend(b)
    BY <1>8 DEF ReleaseCumulativeSpend
  <1>9. CASE PrepareSplit(b)
    BY <1>9 DEF PrepareSplit
  <1>10. CASE CreateTransfer(b)
    BY <1>10 DEF StartRollback, CreateTransfer
  <1>11. CASE CompensateLeg(b)
    BY <1>11 DEF ReverseLeg, CompensateLeg
  <1>12. CASE ReleaseProvisionalSpend(b)
    BY <1>12 DEF ReleaseProvisionalSpend
  <1>13. CASE Crash(b)
    BY <1>13 DEF Crash
  <1> QED BY <1>1, <1>2, <1>3, <1>4, <1>5, <1>6, <1>7, <1>8, <1>9, <1>10, <1>11, <1>12, <1>13 DEF Step

\* The row of the attempt that moves.
LEMMA OwnRow ==
  ASSUME AttemptInv, TypeOK', NEW b \in Attempts, Step(b) \/ Crash(b)
  PROVE  SplitInv(b)' /\ RollbackInv(b)' /\ NonceInv(b)'
  <1>0. SplitInv(b) /\ RollbackInv(b) /\ NonceInv(b) /\ TypeOK
    BY DEF AttemptInv
  <1> USE <1>0 DEF TypeOK, SplitInv, RollbackInv, NonceInv, Handled, RollingBack, PastNonce,
               BeforeSplitPCs, CapturedPCs
  <1>1. CASE VerifyMandates(b)
    BY <1>1 DEF VerifyMandates
  <1>2. CASE ValidateAndRecordNonce(b)
    BY <1>2 DEF ValidateAndRecordNonce
  <1>3. CASE ClaimCartSettlement(b)
    BY <1>3 DEF ClaimCartSettlement
  <1>4. CASE RecordCumulativeSpend(b)
    BY <1>4 DEF RecordCumulativeSpend
  <1>5. CASE UndoBreach(b)
    BY <1>5 DEF UndoBreach
  <1>6. CASE CapturePayment(b)
    BY <1>6 DEF CapturePayment
  <1>7. CASE ReleaseCartClaim(b)
    BY <1>7 DEF ReleaseCartClaim
  <1>8. CASE ReleaseCumulativeSpend(b)
    BY <1>8 DEF ReleaseCumulativeSpend
  <1>9. CASE PrepareSplit(b)
    BY <1>9 DEF PrepareSplit
  <1>10. CASE CreateTransfer(b)
    <2>0. pc[b] = "transfer"
      BY <1>10 DEF CreateTransfer
    <2>1. /\ completed[b] \in 0..3 /\ LegCount[CartOf[b]] \in 1..4
          /\ completed[b] < LegCount[CartOf[b]]
          /\ transfers[b] = 1..completed[b] /\ b \in captured
          /\ Handled(b) = {} /\ cursor[b] = 0 /\ NonceOf[b] \in nonces
      BY <2>0, BetweenLegs
    <2>2. CASE completed' = [completed EXCEPT ![b] = @ + 1] /\ UNCHANGED rollback
      <3>1. /\ transfers'[b] = transfers[b] \cup {completed[b] + 1}
            /\ completed'[b] = completed[b] + 1 /\ captured' = captured
            /\ pc'[b] = IF completed[b] + 1 = LegCount[CartOf[b]] THEN "settled" ELSE "transfer"
            /\ nonces' = nonces
        BY <1>10, <2>1, <2>2 DEF CreateTransfer, StartRollback
      <3>2. transfers'[b] = 1..completed'[b]
        BY <2>1, <3>1
      <3> QED BY <2>1, <2>2, <3>1, <3>2
    <2>3. CASE StartRollback(b, completed[b]) /\ UNCHANGED completed
      <3>1. /\ completed'[b] = completed[b] /\ cursor'[b] = completed[b]
            /\ captured' = captured /\ nonces' = nonces
            /\ pc'[b] = IF completed[b] = 0 THEN "release" ELSE "compensate"
            /\ Handled(b)' = {}
        BY <1>10, <2>1, <2>3 DEF CreateTransfer, StartRollback
      <3> QED BY <2>1, <3>1
    <2> QED BY <1>10, <2>2, <2>3 DEF CreateTransfer
  <1>11. CASE CompensateLeg(b)
    BY <1>11 DEF ReverseLeg, CompensateLeg
  <1>12. CASE ReleaseProvisionalSpend(b)
    BY <1>12 DEF ReleaseProvisionalSpend
  <1>13. CASE Crash(b)
    BY <1>13 DEF Crash
  <1> QED BY <1>1, <1>2, <1>3, <1>4, <1>5, <1>6, <1>7, <1>8, <1>9, <1>10, <1>11, <1>12, <1>13 DEF Step

\* An attempt gets past the nonce ledger only with a nonce nobody has recorded.
LEMMA FreshNonce ==
  ASSUME AttemptInv, NEW b \in Attempts, Step(b) \/ Crash(b),
         ~PastNonce(b), PastNonce(b)'
  PROVE  NonceOf[b] \notin nonces
  <1> USE DEF AttemptInv, TypeOK, PastNonce
  <1>1. CASE VerifyMandates(b)
    BY <1>1 DEF VerifyMandates
  <1>2. CASE ValidateAndRecordNonce(b)
    BY <1>2 DEF ValidateAndRecordNonce
  <1>3. CASE Crash(b)
    BY <1>3 DEF Crash
  <1>4. CASE ~VerifyMandates(b) /\ ~ValidateAndRecordNonce(b) /\ ~Crash(b)
    BY <1>4 DEF Step, ClaimCartSettlement, RecordCumulativeSpend, UndoBreach,
         CapturePayment, ReleaseCartClaim, ReleaseCumulativeSpend, PrepareSplit,
         CreateTransfer, CompensateLeg, ReleaseProvisionalSpend
  <1> QED BY <1>1, <1>2, <1>3, <1>4

\* The invariant of the attempts holds at the start ...
LEMMA AttemptInit == Init => AttemptInv
  BY DEF Init, AttemptInv, TypeOK, SplitInv, RollbackInv, NonceInv, NonceAdmitsOne,
         PastNonce, Handled, RollingBack, CapturedPCs, BeforeSplitPCs

\* ... and every step keeps it.
LEMMA AttemptStep == AttemptInv /\ [Next]_vars => AttemptInv'
  <1> SUFFICES ASSUME AttemptInv, [Next]_vars
               PROVE  AttemptInv'
    OBVIOUS
  <1>1. CASE UNCHANGED vars
    BY <1>1 DEF vars, AttemptInv, TypeOK, SplitInv, RollbackInv, NonceInv, NonceAdmitsOne,
         PastNonce, Handled, RollingBack
  <1>2. ASSUME NEW b \in Attempts, Step(b) \/ Crash(b)
        PROVE  AttemptInv'
    <2>1. TypeOK'
      BY <1>2, TypeStep
    <2>2. /\ \A a \in Attempts \ {b} : Row(a)' = Row(a)
          /\ nonces \subseteq nonces'
      BY <1>2, OthersUntouched
    <2>3. ASSUME NEW a \in Attempts
          PROVE  SplitInv(a)' /\ RollbackInv(a)' /\ NonceInv(a)'
      <3>1. CASE a = b
        BY <1>2, <2>1, <3>1, OwnRow
      <3>2. CASE a # b
        <4>1. SplitInv(a) /\ RollbackInv(a) /\ NonceInv(a)
          BY DEF AttemptInv
        <4> QED BY <2>2, <3>2, <4>1
              DEF Row, SplitInv, RollbackInv, NonceInv, PastNonce, Handled, RollingBack
      <3> QED BY <3>1, <3>2
    <2>4. NonceAdmitsOne'
      <3>1. SUFFICES ASSUME NEW a \in Attempts, NEW c \in Attempts, a # c,
                            NonceOf[a] = NonceOf[c], PastNonce(a)', PastNonce(c)'
                     PROVE  FALSE
        BY DEF NonceAdmitsOne
      <3>2. \A d \in Attempts \ {b} : PastNonce(d)' => PastNonce(d)
        BY <2>2 DEF Row, PastNonce
      <3>3. \A d \in Attempts : PastNonce(d) => NonceOf[d] \in nonces
        BY DEF AttemptInv, NonceInv
      <3>4. PastNonce(b)' => PastNonce(b) \/ NonceOf[b] \notin nonces
        BY <1>2, FreshNonce
      <3>5. ~(PastNonce(a) /\ PastNonce(c))
        BY <3>1 DEF AttemptInv, NonceAdmitsOne
      <3> QED BY <3>1, <3>2, <3>3, <3>4, <3>5
    <2> QED BY <2>1, <2>3, <2>4 DEF AttemptInv
  <1> QED BY <1>1, <1>2 DEF Next
-----------------------------------------------------------------------------
(* Theorems that hold under every fault *)

\* The invariant of the attempts.
THEOREM AttemptInvariant == Spec => []AttemptInv
  BY AttemptInit, AttemptStep, PTL DEF Spec

\* Every variable of the engine, of Redis and of the provider stays in its domain:
\* no leg beyond the manifest, no rollback below its first leg.
THEOREM TypeCorrect == Spec => []TypeOK
  <1>1. AttemptInv => TypeOK
    BY DEF AttemptInv
  <1> QED BY <1>1, AttemptInvariant, PTL

\* No nonce admits two requests, whatever Redis, the provider or the processes do.
THEOREM NonceSafety == Spec => []NonceAdmitsOne
  <1>1. AttemptInv => NonceAdmitsOne
    BY DEF AttemptInv
  <1> QED BY <1>1, AttemptInvariant, PTL

\* A rollback deals with the completed legs newest first and skips none.
THEOREM RollbackOrder == Spec => []RollbackNewestFirst
  <1>1. AttemptInv => RollbackNewestFirst
    BY DEF AttemptInv, RollbackInv, RollbackNewestFirst
  <1> QED BY <1>1, AttemptInvariant, PTL

\* A rollback ends only after every completed leg was reversed, queued or logged.
THEOREM RollbackCompleteness == Spec => []RollbackRunsToTheEnd
  <1>1. AttemptInv => RollbackRunsToTheEnd
    <2> SUFFICES ASSUME AttemptInv, NEW a \in Attempts, pc[a] \in {"release", "rolledBack"}
                 PROVE  Handled(a) = 1..completed[a]
      BY DEF RollbackRunsToTheEnd
    <2>1. RollbackInv(a)
      BY DEF AttemptInv
    <2>2. cursor[a] = 0 /\ Handled(a) = (cursor[a] + 1)..completed[a]
      BY <2>1 DEF RollbackInv, RollingBack
    <2>3. 0 + 1 = 1
      OBVIOUS
    <2> QED BY <2>2, <2>3
  <1> QED BY <1>1, AttemptInvariant, PTL

\* What is reported settled is captured and split completely, with no leg undone.
THEOREM SettlementAtomicity == Spec => []SettledIsWhole
  <1>1. AttemptInv => SettledIsWhole
    <2> SUFFICES ASSUME AttemptInv, NEW a \in Attempts, pc[a] = "settled"
                 PROVE  transfers[a] = Legs(a) /\ Handled(a) = {} /\ a \in captured
      BY DEF SettledIsWhole
    <2>1. SplitInv(a) /\ RollbackInv(a)
      BY DEF AttemptInv
    <2>2. completed[a] = LegCount[CartOf[a]] /\ transfers[a] = 1..completed[a]
      BY <2>1 DEF SplitInv
    <2>3. a \in captured
      BY <2>1 DEF SplitInv, CapturedPCs
    <2>4. Handled(a) = {}
      BY <2>1 DEF RollbackInv, RollingBack
    <2> QED BY <2>2, <2>3, <2>4 DEF Legs
  <1> QED BY <1>1, AttemptInvariant, PTL
-----------------------------------------------------------------------------
(* What one attempt does to the ledger while Redis is reliable *)

\* A step enters a cart only through the creation of its key, and deletes the key
\* only on leaving the cart.
LEMMA SlotMoves ==
  ASSUME RedisReliable, AttemptInv, NEW b \in Attempts, Step(b) \/ Crash(b)
  PROVE  /\ \A a \in Attempts \ {b} : pc'[a] = pc[a]
         /\ \/ claims' = claims /\ (InSlot(b)' => InSlot(b))
            \/ claims' = claims \cup {CartOf[b]} /\ CartOf[b] \notin claims
            \/ claims' = claims \ {CartOf[b]} /\ InSlot(b) /\ ~InSlot(b)'
  <1> USE DEF AttemptInv, TypeOK, RedisReliable, InSlot, SlotPCs
  <1>1. CASE VerifyMandates(b)
    BY <1>1 DEF VerifyMandates
  <1>2. CASE ValidateAndRecordNonce(b)
    BY <1>2 DEF ValidateAndRecordNonce
  <1>3. CASE ClaimCartSettlement(b)
    BY <1>3 DEF ClaimCartSettlement
  <1>4. CASE RecordCumulativeSpend(b)
    BY <1>4 DEF RecordCumulativeSpend
  <1>5. CASE UndoBreach(b)
    BY <1>5 DEF UndoBreach
  <1>6. CASE CapturePayment(b)
    BY <1>6 DEF CapturePayment
  <1>7. CASE ReleaseCartClaim(b)
    BY <1>7 DEF ReleaseCartClaim
  <1>8. CASE ReleaseCumulativeSpend(b)
    BY <1>8 DEF ReleaseCumulativeSpend
  <1>9. CASE PrepareSplit(b)
    BY <1>9 DEF PrepareSplit
  <1>10. CASE CreateTransfer(b)
    BY <1>10 DEF CreateTransfer, StartRollback
  <1>11. CASE CompensateLeg(b)
    BY <1>11 DEF CompensateLeg
  <1>12. CASE ReleaseProvisionalSpend(b)
    BY <1>12 DEF ReleaseProvisionalSpend
  <1>13. CASE Crash(b)
    BY <1>13 DEF Crash
  <1> QED BY <1>1, <1>2, <1>3, <1>4, <1>5, <1>6, <1>7,
             <1>8, <1>9, <1>10, <1>11, <1>12, <1>13 DEF Step

IsBooked(b) == pc[b] \in BookedPCs
IsAdmitted(b) == pc[b] \in AdmittedPCs
Afterwards(b) == spend[MandateOf[b]] + AmountOf(b)

\* The counter moves by an amount exactly when the attempt becomes booked or stops
\* being booked, and admission means that the new total fits the budget.
LEMMA BookMoves ==
  ASSUME RedisReliable, AttemptInv, NEW b \in Attempts, Step(b) \/ Crash(b)
  PROVE  \/ /\ spend' = spend /\ IsBooked(b)' = IsBooked(b)
            /\ IsAdmitted(b)' => IsAdmitted(b)
         \/ /\ spend' = [spend EXCEPT ![MandateOf[b]] = @ + AmountOf(b)]
            /\ ~IsBooked(b) /\ IsBooked(b)'
            /\ IsAdmitted(b)' => Afterwards(b) <= MaxBudget[MandateOf[b]]
         \/ /\ spend' = [spend EXCEPT ![MandateOf[b]] = @ - AmountOf(b)]
            /\ IsBooked(b) /\ ~IsBooked(b)'
  <1> USE DEF AttemptInv, TypeOK, RedisReliable, IsBooked, IsAdmitted, Afterwards,
              BookedPCs, AdmittedPCs
  <1>1. CASE VerifyMandates(b)
    BY <1>1 DEF VerifyMandates
  <1>2. CASE ValidateAndRecordNonce(b)
    BY <1>2 DEF ValidateAndRecordNonce
  <1>3. CASE ClaimCartSettlement(b)
    BY <1>3 DEF ClaimCartSettlement
  <1>4. CASE RecordCumulativeSpend(b)
    BY <1>4 DEF RecordCumulativeSpend
  <1>5. CASE UndoBreach(b)
    BY <1>5 DEF UndoBreach
  <1>6. CASE CapturePayment(b)
    BY <1>6 DEF CapturePayment
  <1>7. CASE ReleaseCartClaim(b)
    BY <1>7 DEF ReleaseCartClaim
  <1>8. CASE ReleaseCumulativeSpend(b)
    BY <1>8 DEF ReleaseCumulativeSpend
  <1>9. CASE PrepareSplit(b)
    BY <1>9 DEF PrepareSplit
  <1>10. CASE CreateTransfer(b)
    BY <1>10 DEF CreateTransfer, StartRollback
  <1>11. CASE CompensateLeg(b)
    BY <1>11 DEF CompensateLeg
  <1>12. CASE ReleaseProvisionalSpend(b)
    BY <1>12 DEF ReleaseProvisionalSpend
  <1>13. CASE Crash(b)
    BY <1>13 DEF Crash
  <1> QED BY <1>1, <1>2, <1>3, <1>4, <1>5, <1>6, <1>7,
             <1>8, <1>9, <1>10, <1>11, <1>12, <1>13 DEF Step

\* One cart holds one attempt, and its key outlives the attempt's stay.
LEMMA SlotStep ==
  ASSUME RedisReliable, AttemptInv, OneSettlementPerCart, ClaimHeldInSlot,
         NEW b \in Attempts, Step(b) \/ Crash(b)
  PROVE  OneSettlementPerCart' /\ ClaimHeldInSlot'
  <1>1. /\ \A a \in Attempts \ {b} : pc'[a] = pc[a]
        /\ \/ claims' = claims /\ (InSlot(b)' => InSlot(b))
           \/ claims' = claims \cup {CartOf[b]} /\ CartOf[b] \notin claims
           \/ claims' = claims \ {CartOf[b]} /\ InSlot(b) /\ ~InSlot(b)'
    BY SlotMoves
  <1>2. \A a \in Attempts \ {b} : InSlot(a)' = InSlot(a)
    BY <1>1 DEF InSlot
  <1>3. \A a \in Attempts : CartOf[a] = CartOf[b] /\ a # b /\ InSlot(b)' => ~InSlot(a)
    BY <1>1 DEF OneSettlementPerCart, ClaimHeldInSlot
  <1>4. OneSettlementPerCart'
    BY <1>2, <1>3 DEF OneSettlementPerCart
  <1>5. ClaimHeldInSlot'
    BY <1>1, <1>2 DEF ClaimHeldInSlot, OneSettlementPerCart
  <1> QED BY <1>4, <1>5

\* The counter stays exact and what a mandate has admitted stays within its ceiling.
LEMMA BookStep ==
  ASSUME RedisReliable, AttemptInv, CounterIsExact, BudgetNeverExceeded,
         NEW b \in Attempts, Step(b) \/ Crash(b)
  PROVE  CounterIsExact' /\ BudgetNeverExceeded'
  <1> DEFINE m == MandateOf[b]
  <1>1. \A a \in Attempts \ {b} : IsBooked(a)' = IsBooked(a) /\ IsAdmitted(a)' = IsAdmitted(a)
    BY SlotMoves DEF IsBooked, IsAdmitted
  <1>2. /\ m \in Mandates /\ AmountOf(b) \in Nat /\ spend \in [Mandates -> Int]
        /\ MaxBudget \in [Mandates -> Nat] /\ Total \in [SUBSET Attempts -> Nat]
        /\ \A k \in Mandates : spend[k] = Total[Booked(k)] /\ Total[Admitted(k)] <= MaxBudget[k]
    BY TotalAssumption DEF AttemptInv, TypeOK, CounterIsExact, BudgetNeverExceeded
  <1>3. \A k \in Mandates : Booked(k) \in SUBSET Attempts /\ Admitted(k) \in SUBSET Booked(k)
                           /\ Booked(k)' \in SUBSET Attempts /\ Admitted(k)' \in SUBSET Booked(k)'
    BY DEF Booked, Admitted, AdmittedPCs
  <1>4. \A k \in Mandates \ {m} : Booked(k)' = Booked(k) /\ Admitted(k)' = Admitted(k)
    BY <1>1 DEF Booked, Admitted, IsBooked, IsAdmitted
  <1>5. CASE /\ spend' = spend /\ IsBooked(b)' = IsBooked(b)
             /\ IsAdmitted(b)' => IsAdmitted(b)
    <2>1. \A k \in Mandates : Booked(k)' = Booked(k) /\ Admitted(k)' \in SUBSET Admitted(k)
      BY <1>1, <1>5 DEF Booked, Admitted, IsBooked, IsAdmitted
    <2>2. CounterIsExact'
      BY <1>2, <1>5, <2>1 DEF CounterIsExact
    <2>3. ASSUME NEW k \in Mandates
          PROVE  Total[Admitted(k)'] <= MaxBudget[k]
      <3>1. Total[Admitted(k)'] <= Total[Admitted(k)]
        BY <1>3, <2>1, TotalMonotone
      <3>2. Total[Admitted(k)'] \in Nat /\ Total[Admitted(k)] \in Nat /\ MaxBudget[k] \in Nat
        BY <1>2, <1>3
      <3>3. Total[Admitted(k)] <= MaxBudget[k]
        BY <1>2
      <3> QED BY <3>1, <3>2, <3>3
    <2> QED BY <2>2, <2>3 DEF BudgetNeverExceeded
  <1>6. CASE /\ spend' = [spend EXCEPT ![m] = @ + AmountOf(b)]
             /\ ~IsBooked(b) /\ IsBooked(b)'
             /\ IsAdmitted(b)' => Afterwards(b) <= MaxBudget[m]
    <2>1. Booked(m)' = Booked(m) \cup {b} /\ b \notin Booked(m)
      BY <1>1, <1>6 DEF Booked, IsBooked
    <2>2. Total[Booked(m)'] = Total[Booked(m)] + AmountOf(b)
      BY <1>2, <1>3, <2>1, TotalAdd
    <2>3. \A k \in Mandates : spend'[k] = Total[Booked(k)']
      BY <1>2, <1>4, <1>6, <2>2
    <2>4. Total[Admitted(m)'] <= MaxBudget[m]
      <3>1. CASE IsAdmitted(b)'
        <4>1. Total[Admitted(m)'] <= Total[Booked(m)']
          BY <1>2, <1>3, TotalMonotone
        <4>2. Total[Booked(m)'] <= MaxBudget[m]
          BY <1>2, <1>6, <2>2, <3>1 DEF Afterwards
        <4>3. Total[Admitted(m)'] \in Nat /\ Total[Booked(m)'] \in Nat /\ MaxBudget[m] \in Nat
          BY <1>2, <1>3
        <4> QED BY <4>1, <4>2, <4>3
      <3>2. CASE ~IsAdmitted(b)'
        <4>1. ~IsAdmitted(b)
          BY <1>6 DEF IsBooked, IsAdmitted, AdmittedPCs
        <4>2. Admitted(m)' = Admitted(m)
          BY <1>1, <3>2, <4>1 DEF Admitted, IsAdmitted
        <4> QED BY <1>2, <4>2
      <3> QED BY <3>1, <3>2
    <2> QED BY <1>2, <1>4, <2>3, <2>4 DEF CounterIsExact, BudgetNeverExceeded
  <1>7. CASE /\ spend' = [spend EXCEPT ![m] = @ - AmountOf(b)]
             /\ IsBooked(b) /\ ~IsBooked(b)'
    <2>1. Booked(m)' = Booked(m) \ {b} /\ b \in Booked(m)
      BY <1>1, <1>7 DEF Booked, IsBooked
    <2>2. Total[Booked(m)'] = Total[Booked(m)] - AmountOf(b)
      BY <1>2, <1>3, <2>1, TotalRemove
    <2>3. \A k \in Mandates : spend'[k] = Total[Booked(k)']
      BY <1>2, <1>4, <1>7, <2>2
    <2>4. Admitted(m)' \in SUBSET Admitted(m) /\ Admitted(m) \in SUBSET Attempts
      BY <1>1, <1>3, <1>7 DEF Admitted, IsBooked, IsAdmitted, AdmittedPCs
    <2>5. Total[Admitted(m)'] <= Total[Admitted(m)]
      BY <2>4, TotalMonotone
    <2>6. Total[Admitted(m)'] \in Nat /\ Total[Admitted(m)] \in Nat /\ MaxBudget[m] \in Nat
      BY <1>2, <2>4
    <2>7. Total[Admitted(m)] <= MaxBudget[m]
      BY <1>2
    <2>8. Total[Admitted(m)'] <= MaxBudget[m]
      BY <2>5, <2>6, <2>7
    <2> QED BY <1>2, <1>4, <2>3, <2>8 DEF CounterIsExact, BudgetNeverExceeded
  <1> QED BY <1>5, <1>6, <1>7, BookMoves

\* The ledger's invariant holds at the start ...
LEMMA LedgerInit == Init => LedgerInv
  <1> SUFFICES ASSUME Init PROVE LedgerInv
    OBVIOUS
  <1>1. \A m \in Mandates : Booked(m) = {} /\ Admitted(m) = {}
    BY DEF Init, Booked, Admitted, BookedPCs, AdmittedPCs
  <1>2. \A a \in Attempts : ~InSlot(a)
    BY DEF Init, InSlot, SlotPCs
  <1>3. \A m \in Mandates : spend[m] = 0 /\ 0 <= MaxBudget[m]
    BY DEF Init
  <1> QED BY <1>1, <1>2, <1>3, TotalEmpty
        DEF LedgerInv, OneSettlementPerCart, ClaimHeldInSlot, CounterIsExact, BudgetNeverExceeded

\* ... and, as long as Redis answers, every step keeps it.
LEMMA LedgerStep ==
  ASSUME RedisReliable
  PROVE  AttemptInv /\ LedgerInv /\ [Next]_vars => LedgerInv'
  <1> SUFFICES ASSUME AttemptInv, LedgerInv, [Next]_vars PROVE LedgerInv'
    OBVIOUS
  <1>1. CASE UNCHANGED vars
    BY <1>1 DEF vars, LedgerInv, OneSettlementPerCart, ClaimHeldInSlot, CounterIsExact,
         BudgetNeverExceeded, InSlot, Booked, Admitted
  <1>2. ASSUME NEW b \in Attempts, Step(b) \/ Crash(b)
        PROVE  LedgerInv'
    <2>1. OneSettlementPerCart' /\ ClaimHeldInSlot'
      BY <1>2, SlotStep DEF LedgerInv
    <2>2. CounterIsExact' /\ BudgetNeverExceeded'
      BY <1>2, BookStep DEF LedgerInv
    <2> QED BY <2>1, <2>2 DEF LedgerInv
  <1> QED BY <1>1, <1>2 DEF Next
-----------------------------------------------------------------------------
(* Theorems that need a reliable Redis *)

\* The invariant of the ledger.
THEOREM LedgerInvariant ==
  ASSUME RedisReliable
  PROVE  Spec => []LedgerInv
  <1>1. AttemptInv /\ LedgerInv /\ [Next]_vars => LedgerInv'
    BY LedgerStep
  <1> QED BY <1>1, LedgerInit, AttemptInvariant, PTL DEF Spec

\* No interleaving of claims, releases and rollbacks lets two attempts settle one
\* cart, nor lets a settled cart be settled again.
THEOREM CartExclusion ==
  ASSUME RedisReliable
  PROVE  Spec => []OneSettlementPerCart
  <1>1. LedgerInv => OneSettlementPerCart
    BY DEF LedgerInv
  <1> QED BY <1>1, LedgerInvariant, PTL

\* The key of a cart stays in Redis for as long as an attempt relies on it.
THEOREM ClaimSafety ==
  ASSUME RedisReliable
  PROVE  Spec => []ClaimHeldInSlot
  <1>1. LedgerInv => ClaimHeldInSlot
    BY DEF LedgerInv
  <1> QED BY <1>1, LedgerInvariant, PTL

\* Concurrent settlements never get past their mandate's ceiling.
THEOREM BudgetSafety ==
  ASSUME RedisReliable
  PROVE  Spec => []BudgetNeverExceeded
  <1>1. LedgerInv => BudgetNeverExceeded
    BY DEF LedgerInv
  <1> QED BY <1>1, LedgerInvariant, PTL

\* The counter is the exact sum of what is booked, crashes included.
THEOREM CounterExactness ==
  ASSUME RedisReliable
  PROVE  Spec => []CounterIsExact
  <1>1. LedgerInv => CounterIsExact
    BY DEF LedgerInv
  <1> QED BY <1>1, LedgerInvariant, PTL

\* A step charges a payment only for the attempt that is at its capture.
LEMMA CaptureStep ==
  ASSUME AttemptInv, NEW b \in Attempts, Step(b) \/ Crash(b), NEW a \in captured' \ captured
  PROVE  a \in Attempts /\ pc[a] = "capture"
  <1>1. CASE CapturePayment(b)
    BY <1>1 DEF CapturePayment, AttemptInv, TypeOK
  <1>2. CASE ~CapturePayment(b)
    BY <1>2 DEF Step, VerifyMandates, ValidateAndRecordNonce, ClaimCartSettlement,
         RecordCumulativeSpend, UndoBreach, ReleaseCartClaim, ReleaseCumulativeSpend,
         PrepareSplit, CreateTransfer, CompensateLeg, ReleaseProvisionalSpend, Crash
  <1> QED BY <1>1, <1>2

\* Every capture finds its nonce consumed, its cart held and its amount admitted
\* within the ceiling, whatever other attempts did since those were established.
THEOREM CaptureAuthorization ==
  ASSUME RedisReliable
  PROVE  Spec => CaptureIsAuthorized
  <1>1. AttemptInv /\ LedgerInv /\ [Next]_vars =>
          [\A a \in captured' \ captured :
             /\ NonceOf[a] \in nonces /\ CartOf[a] \in claims
             /\ a \in Admitted(MandateOf[a])
             /\ Total[Admitted(MandateOf[a])] <= MaxBudget[MandateOf[a]]]_vars
    <2> SUFFICES ASSUME AttemptInv, LedgerInv, [Next]_vars, NEW a \in captured' \ captured
                 PROVE  /\ NonceOf[a] \in nonces /\ CartOf[a] \in claims
                        /\ a \in Admitted(MandateOf[a])
                        /\ Total[Admitted(MandateOf[a])] <= MaxBudget[MandateOf[a]]
      OBVIOUS
    <2>1. a \in Attempts /\ pc[a] = "capture"
      <3>1. CASE UNCHANGED vars
        BY <3>1 DEF vars
      <3>2. CASE \E b \in Attempts : Step(b) \/ Crash(b)
        BY <3>2, CaptureStep
      <3> QED BY <3>1, <3>2 DEF Next
    <2>2. NonceOf[a] \in nonces
      BY <2>1 DEF AttemptInv, NonceInv, PastNonce
    <2>3. CartOf[a] \in claims
      BY <2>1 DEF LedgerInv, ClaimHeldInSlot, InSlot, SlotPCs
    <2>4. a \in Admitted(MandateOf[a])
      BY <2>1 DEF Admitted, AdmittedPCs, BookedPCs
    <2>5. Total[Admitted(MandateOf[a])] <= MaxBudget[MandateOf[a]]
      BY <2>1 DEF LedgerInv, BudgetNeverExceeded
    <2> QED BY <2>2, <2>3, <2>4, <2>5
  <1> QED BY <1>1, AttemptInvariant, LedgerInvariant, PTL DEF Spec, CaptureIsAuthorized
-----------------------------------------------------------------------------
(* The settlement keeps its promise *)

Fits(b) == pc[b] = "book" /\ Afterwards(b) <= MaxBudget[MandateOf[b]]

\* What a step of the engine is for the promise: nothing, or one move of the attempt,
\* which reserves only from the increment and only within the ceiling.
LEMMA StageMoves ==
  ASSUME RedisReliable, AttemptInv, NEW b \in Attempts, Step(b) \/ Crash(b)
  PROVE  \/ Stage(b)' = Stage(b)
         \/ Stage(b) = "open" /\ Stage(b)' = "refused"
         \/ Stage(b) = "open" /\ Stage(b)' = "reserved" /\ Fits(b)
         \/ Stage(b) = "reserved" /\ Stage(b)' \in {"captured", "void"}
         \/ Stage(b) = "captured" /\ Stage(b)' \in {"settled", "rolledBack", "stranded"}
  <1> USE DEF AttemptInv, TypeOK, RedisReliable, Stage, Fits, Afterwards
  <1>1. CASE VerifyMandates(b)
    BY <1>1 DEF VerifyMandates
  <1>2. CASE ValidateAndRecordNonce(b)
    BY <1>2 DEF ValidateAndRecordNonce
  <1>3. CASE ClaimCartSettlement(b)
    BY <1>3 DEF ClaimCartSettlement
  <1>4. CASE RecordCumulativeSpend(b)
    BY <1>4 DEF RecordCumulativeSpend
  <1>5. CASE UndoBreach(b)
    BY <1>5 DEF UndoBreach
  <1>6. CASE CapturePayment(b)
    BY <1>6 DEF CapturePayment
  <1>7. CASE ReleaseCartClaim(b)
    BY <1>7 DEF ReleaseCartClaim
  <1>8. CASE ReleaseCumulativeSpend(b)
    BY <1>8 DEF ReleaseCumulativeSpend
  <1>9. CASE PrepareSplit(b)
    BY <1>9 DEF PrepareSplit
  <1>10. CASE CreateTransfer(b)
    BY <1>10 DEF CreateTransfer, StartRollback
  <1>11. CASE CompensateLeg(b)
    BY <1>11 DEF CompensateLeg
  <1>12. CASE ReleaseProvisionalSpend(b)
    BY <1>12 DEF ReleaseProvisionalSpend
  <1>13. CASE Crash(b)
    BY <1>13 DEF Crash
  <1> QED BY <1>1, <1>2, <1>3, <1>4, <1>5, <1>6, <1>7,
             <1>8, <1>9, <1>10, <1>11, <1>12, <1>13 DEF Step

\* Who occupies a cart of the promise is in its slot, and who is charged to a
\* mandate is admitted.
LEMMA StageOfPC ==
  ASSUME AttemptInv, NEW a \in Attempts
  PROVE  /\ Stage(a) \in Promise!Occupying => InSlot(a)
         /\ Stage(a) \in Promise!Charging => pc[a] \in AdmittedPCs
  BY DEF AttemptInv, TypeOK, Stage, InSlot, SlotPCs, AdmittedPCs, BookedPCs,
         Promise!Occupying, Promise!Charging

\* The reservation of the promise is justified where the code increments.
LEMMA ReserveEnabled ==
  ASSUME AttemptInv, LedgerInv, NEW b \in Attempts, Fits(b)
  PROVE  /\ \A a \in Attempts \ {b} :
              CartOf[a] = CartOf[b] => Stage(a) \notin Promise!Occupying
         /\ Total[Promise!ChargedTo(MandateOf[b]) \cup {b}] <= MaxBudget[MandateOf[b]]
  <1> DEFINE m == MandateOf[b]
             C == Promise!ChargedTo(m)
  <1>1. pc[b] = "book" /\ spend[m] + AmountOf(b) <= MaxBudget[m] /\ m \in Mandates
    BY DEF Fits, Afterwards
  <1>2. InSlot(b)
    BY <1>1 DEF InSlot, SlotPCs
  <1>3. \A a \in Attempts \ {b} :
          CartOf[a] = CartOf[b] => Stage(a) \notin Promise!Occupying
    BY <1>2, StageOfPC DEF LedgerInv, OneSettlementPerCart
  <1>4. C \in SUBSET Booked(m) /\ Booked(m) \in SUBSET Attempts /\ b \notin Booked(m)
    BY <1>1, StageOfPC DEF Promise!ChargedTo, Booked, AdmittedPCs, BookedPCs
  <1>5. C \in SUBSET Attempts /\ b \notin C
    BY <1>4
  <1>6. Total[C \cup {b}] = Total[C] + AmountOf(b)
    BY <1>5, TotalAdd
  <1>7. Total[C] <= Total[Booked(m)]
    BY <1>4, TotalMonotone
  <1>8. Total[Booked(m)] = spend[m]
    BY <1>1 DEF LedgerInv, CounterIsExact
  <1>9. Total[C] \in Nat /\ Total[Booked(m)] \in Nat /\ AmountOf(b) \in Nat /\ MaxBudget[m] \in Nat
    BY <1>1, <1>4, <1>5, TotalAssumption
  <1>10. Total[C \cup {b}] <= MaxBudget[m]
    BY <1>1, <1>6, <1>7, <1>8, <1>9
  <1> QED BY <1>3, <1>10

\* Every step is a step of the promise or leaves its stages alone.
LEMMA PromiseStep ==
  ASSUME RedisReliable
  PROVE  AttemptInv /\ LedgerInv /\ [Next]_vars =>
           [Promise!Next]_[a \in Attempts |-> Stage(a)]
  <1> DEFINE stages == [a \in Attempts |-> Stage(a)]
  <1> SUFFICES ASSUME AttemptInv, LedgerInv, [Next]_vars
               PROVE  Promise!Next \/ stages' = stages
    OBVIOUS
  <1>1. CASE UNCHANGED vars
    BY <1>1 DEF vars, Stage
  <1>2. ASSUME NEW b \in Attempts, Step(b) \/ Crash(b)
        PROVE  Promise!Next \/ stages' = stages
    <2>1. \A a \in Attempts \ {b} : Stage(a)' = Stage(a)
      BY <1>2, SlotMoves DEF Stage
    <2>2. stages' = [stages EXCEPT ![b] = Stage(b)']
      BY <2>1
    <2>3. CASE Stage(b)' = Stage(b)
      BY <2>2, <2>3
    <2>4. CASE Stage(b) = "open" /\ Stage(b)' = "refused"
      <3>1. Promise!Refuse(b)
        BY <2>2, <2>4 DEF Promise!Refuse, Promise!Move
      <3> QED BY <3>1 DEF Promise!Next
    <2>5. CASE Stage(b) = "open" /\ Stage(b)' = "reserved" /\ Fits(b)
      <3>1. Promise!Move(b, "open", "reserved")
        BY <2>2, <2>5 DEF Promise!Move
      <3>2. Promise!Reserve(b)
        BY <2>5, <3>1, ReserveEnabled DEF Promise!Reserve
      <3> QED BY <3>2 DEF Promise!Next
    <2>6. CASE Stage(b) = "reserved" /\ Stage(b)' \in {"captured", "void"}
      <3>1. Promise!Capture(b) \/ Promise!Void(b)
        BY <2>2, <2>6 DEF Promise!Capture, Promise!Void, Promise!Move
      <3> QED BY <3>1 DEF Promise!Next
    <2>7. CASE Stage(b) = "captured" /\ Stage(b)' \in {"settled", "rolledBack", "stranded"}
      <3>1. Promise!Settle(b) \/ Promise!RollBack(b) \/ Promise!Strand(b)
        BY <2>2, <2>7 DEF Promise!Settle, Promise!RollBack, Promise!Strand, Promise!Move
      <3> QED BY <3>1 DEF Promise!Next
    <2> QED BY <1>2, <2>3, <2>4, <2>5, <2>6, <2>7, StageMoves
  <1> QED BY <1>1, <1>2 DEF Next

\* The engine's four awaits of claim, increment, compare and undo implement one
\* atomic reservation of cart and budget.
THEOREM PromiseKept ==
  ASSUME RedisReliable
  PROVE  Spec => KeepsPromise
  <1>1. Init => Promise!Init
    BY DEF Init, Promise!Init, Stage
  <1>2. AttemptInv /\ LedgerInv /\ [Next]_vars =>
          [Promise!Next]_[a \in Attempts |-> Stage(a)]
    BY PromiseStep
  <1> QED BY <1>1, <1>2, AttemptInvariant, LedgerInvariant, PTL
        DEF Spec, KeepsPromise, Promise!Spec
-----------------------------------------------------------------------------
(* The promise alone *)

VARIABLE stage
Ideal == INSTANCE SettlementPromise

IdealInv ==
  /\ stage \in [Attempts -> Ideal!Stages]
  /\ Ideal!OneOccupantPerCart
  /\ \A m \in Mandates : Total[Ideal!ChargedTo(m)] <= MaxBudget[m]

\* An attempt that moves changes what is charged to its own mandate, by itself.
LEMMA MoveKeeps ==
  ASSUME IdealInv, NEW a \in Attempts, NEW from, NEW to \in Ideal!Stages,
         Ideal!Move(a, from, to),
         to \in Ideal!Occupying =>
           \A b \in Attempts \ {a} : CartOf[b] = CartOf[a] => stage[b] \notin Ideal!Occupying,
         to \in Ideal!Charging =>
           Total[Ideal!ChargedTo(MandateOf[a]) \cup {a}] <= MaxBudget[MandateOf[a]]
  PROVE  IdealInv'
  <1>1. stage' = [stage EXCEPT ![a] = to] /\ stage' \in [Attempts -> Ideal!Stages]
    BY DEF Ideal!Move, IdealInv
  <1>2. stage'[a] = to /\ \A b \in Attempts \ {a} : stage'[b] = stage[b]
    BY <1>1 DEF IdealInv
  <1>3. Ideal!OneOccupantPerCart'
    BY <1>2 DEF IdealInv, Ideal!OneOccupantPerCart
  <1>4. ASSUME NEW m \in Mandates
        PROVE  Total[Ideal!ChargedTo(m)'] <= MaxBudget[m]
    <2>1. Ideal!ChargedTo(m) \in SUBSET Attempts
      BY DEF Ideal!ChargedTo
    <2>2. CASE to \in Ideal!Charging /\ m = MandateOf[a]
      <3>1. Ideal!ChargedTo(m)' = Ideal!ChargedTo(m) \cup {a}
        BY <1>2, <2>2 DEF Ideal!ChargedTo
      <3> QED BY <2>2, <3>1
    <2>3. CASE ~(to \in Ideal!Charging /\ m = MandateOf[a])
      <3>1. Ideal!ChargedTo(m)' \in SUBSET Ideal!ChargedTo(m)
        BY <1>2, <2>3 DEF Ideal!ChargedTo
      <3>2. Total[Ideal!ChargedTo(m)'] <= Total[Ideal!ChargedTo(m)]
        BY <2>1, <3>1, TotalMonotone
      <3>3. /\ Total[Ideal!ChargedTo(m)'] \in Nat /\ Total[Ideal!ChargedTo(m)] \in Nat
            /\ MaxBudget[m] \in Nat
        BY <2>1, <3>1, TotalAssumption, CartAssumption
      <3> QED BY <3>2, <3>3 DEF IdealInv
    <2> QED BY <2>2, <2>3
  <1> QED BY <1>1, <1>3, <1>4 DEF IdealInv

\* What KeepsPromise is worth: whoever implements SettlementPromise has at most one
\* attempt in a cart and charges no mandate beyond its budget, for any amounts.
THEOREM PromiseIsSafe ==
  Ideal!Spec => [](Ideal!OneOccupantPerCart /\ Ideal!ChargesFitBudget)
  <1>1. Ideal!Init => IdealInv
    <2> SUFFICES ASSUME Ideal!Init PROVE IdealInv
      OBVIOUS
    <2>1. \A a \in Attempts : stage[a] = "open"
      BY DEF Ideal!Init
    <2>2. ASSUME NEW m \in Mandates PROVE Total[Ideal!ChargedTo(m)] <= MaxBudget[m]
      <3>1. Ideal!ChargedTo(m) = {}
        BY <2>1 DEF Ideal!ChargedTo, Ideal!Charging
      <3> QED BY <3>1, TotalEmpty, CartAssumption
    <2>3. stage \in [Attempts -> Ideal!Stages]
      BY DEF Ideal!Init, Ideal!Stages
    <2>4. Ideal!OneOccupantPerCart
      BY <2>1 DEF Ideal!OneOccupantPerCart, Ideal!Occupying
    <2> QED BY <2>2, <2>3, <2>4 DEF IdealInv
  <1>2. IdealInv /\ [Ideal!Next]_stage => IdealInv'
    <2> SUFFICES ASSUME IdealInv, [Ideal!Next]_stage PROVE IdealInv'
      OBVIOUS
    <2> USE DEF Ideal!Stages, Ideal!Occupying, Ideal!Charging
    <2>1. CASE UNCHANGED stage
      BY <2>1 DEF IdealInv, Ideal!OneOccupantPerCart, Ideal!ChargedTo
    <2>2. ASSUME NEW a \in Attempts, Ideal!Reserve(a) PROVE IdealInv'
      BY <2>2, MoveKeeps DEF Ideal!Reserve
    <2>3. ASSUME NEW a \in Attempts,
                 NEW from \in {"open", "reserved", "captured"}, NEW to \in Ideal!Stages,
                 Ideal!Move(a, from, to),
                 to \in Ideal!Occupying => from \in Ideal!Occupying,
                 to \in Ideal!Charging => from \in Ideal!Charging
          PROVE  IdealInv'
      <3>1. stage[a] = from
        BY <2>3 DEF Ideal!Move
      <3>2. to \in Ideal!Occupying =>
              \A b \in Attempts \ {a} :
                CartOf[b] = CartOf[a] => stage[b] \notin Ideal!Occupying
        BY <2>3, <3>1 DEF IdealInv, Ideal!OneOccupantPerCart
      <3>3. to \in Ideal!Charging =>
              Total[Ideal!ChargedTo(MandateOf[a]) \cup {a}] <= MaxBudget[MandateOf[a]]
        <4> SUFFICES ASSUME to \in Ideal!Charging
                     PROVE  Total[Ideal!ChargedTo(MandateOf[a]) \cup {a}]
                              <= MaxBudget[MandateOf[a]]
          OBVIOUS
        <4>1. a \in Ideal!ChargedTo(MandateOf[a])
          BY <2>3, <3>1 DEF Ideal!ChargedTo
        <4>2. Ideal!ChargedTo(MandateOf[a]) \cup {a} = Ideal!ChargedTo(MandateOf[a])
          BY <4>1
        <4> QED BY <4>2, RequestAssumption DEF IdealInv
      <3> QED BY <2>3, <3>2, <3>3, MoveKeeps
    <2>4. ASSUME NEW a \in Attempts,
                 \/ Ideal!Refuse(a) \/ Ideal!Capture(a) \/ Ideal!Void(a)
                 \/ Ideal!Settle(a) \/ Ideal!RollBack(a) \/ Ideal!Strand(a)
          PROVE  IdealInv'
      <3>1. CASE Ideal!Refuse(a)
        BY <2>3, <3>1 DEF Ideal!Refuse
      <3>2. CASE Ideal!Capture(a)
        BY <2>3, <3>2 DEF Ideal!Capture
      <3>3. CASE Ideal!Void(a)
        BY <2>3, <3>3 DEF Ideal!Void
      <3>4. CASE Ideal!Settle(a)
        BY <2>3, <3>4 DEF Ideal!Settle
      <3>5. CASE Ideal!RollBack(a)
        BY <2>3, <3>5 DEF Ideal!RollBack
      <3>6. CASE Ideal!Strand(a)
        BY <2>3, <3>6 DEF Ideal!Strand
      <3> QED BY <2>4, <3>1, <3>2, <3>3, <3>4, <3>5, <3>6
    <2> QED BY <2>1, <2>2, <2>4 DEF Ideal!Next
  <1>3. IdealInv => Ideal!OneOccupantPerCart /\ Ideal!ChargesFitBudget
    BY RequestAssumption DEF IdealInv, Ideal!ChargesFitBudget
  <1> QED BY <1>1, <1>2, <1>3, PTL DEF Ideal!Spec
=============================================================================
