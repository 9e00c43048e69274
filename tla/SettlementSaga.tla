--------------------------- MODULE SettlementSaga ---------------------------
(***************************************************************************)
(* The mandate engine's two-phase settlement: concurrent executions of     *)
(* SettlementOrchestrator.executeSettlementSaga over one Redis ledger      *)
(* (nonces, cart claims, cumulative spend) and one Route provider          *)
(* (captures, split transfers, reversals).                                 *)
(*                                                                         *)
(* An attempt is one request.  Every await of the coroutine is a step of   *)
(* its own, so attempts interleave exactly where asyncio lets them; what   *)
(* runs between two awaits is one action.                                  *)
(***************************************************************************)
EXTENDS Integers, FiniteSets

CONSTANTS
  Attempts,    \* settlement requests, each with a payment of its own
  Carts,       \* merchant-signed cart mandates, by hash
  Mandates,    \* intent mandates (delegations), by mandateId
  Nonces,      \* nonces of execution mandates
  CartOf, MandateOf, NonceOf,  \* what the mandates of a request name
  Amount,      \* settlementAmountPaise of a cart (the gate makes the two equal)
  MaxBudget,   \* maxBudgetPaise of an intent mandate
  LegCount,    \* split transfers a cart needs: merchant, fee, logistics, TCS
  Overdraft,   \* carts whose deductions reach their gross total
  Total,       \* Total[S]: the paise the attempts in S settle together
  Faults       \* what the environment does wrong

FaultKinds == {"refusal",    \* the provider answers a call with an error
               "lostReply",  \* it executes a call whose reply never arrives
               "redis",      \* a Redis command fails or its reply is lost
               "crash"}      \* the process serving an attempt dies

ASSUME RequestAssumption ==
  /\ CartOf \in [Attempts -> Carts]
  /\ MandateOf \in [Attempts -> Mandates]
  /\ NonceOf \in [Attempts -> Nonces]

ASSUME CartAssumption ==
  /\ Amount \in [Carts -> Nat \ {0}]
  /\ MaxBudget \in [Mandates -> Nat]
  /\ LegCount \in [Carts -> 1..4]
  /\ Overdraft \subseteq Carts

\* Total is addition over sets of attempts, stated by the laws the proofs use.
ASSUME TotalAssumption ==
  /\ Total \in [SUBSET Attempts -> Nat]
  /\ \A a \in Attempts : Total[{a}] = Amount[CartOf[a]]
  /\ \A S, T \in SUBSET Attempts :
       S \cap T = {} => Total[S \cup T] = Total[S] + Total[T]

ASSUME FaultAssumption == Faults \subseteq FaultKinds

VARIABLES
  pc,          \* where the coroutine of an attempt is
  alive,       \* FALSE once the process serving the attempt has died
  nonces,      \* razoragent:nonce:* keys
  claims,      \* razoragent:settled:* keys
  spend,       \* razoragent:spend:* counters
  captured,    \* payments the provider has captured
  transfers,   \* legs the provider has transferred
  reversed,    \* legs the provider has reversed
  completed,   \* len(completed): transfers whose reply the saga has seen
  cursor,      \* the leg compensateTransfers handles next, counting down
  queued,      \* legs handed to the compensation DLQ
  unrecorded   \* legs logged as LOST: neither reversed nor queued

control == <<pc, alive>>
ledger == <<nonces, claims, spend>>
split == <<transfers, completed>>
rollback == <<reversed, cursor, queued, unrecorded>>
vars == <<control, ledger, captured, split, rollback>>

Done == {"refused", "captureFailed", "manifestRejected", "settled", "rolledBack"}

PCs == Done \cup {"start", "nonce", "claim", "book", "unbook", "capture",
                  "freeClaim", "freeSpend", "order", "transfer",
                  "compensate", "release"}

Legs(a) == 1..LegCount[CartOf[a]]
AmountOf(a) == Amount[CartOf[a]]

Init ==
  /\ pc = [a \in Attempts |-> "start"]
  /\ alive = [a \in Attempts |-> TRUE]
  /\ nonces = {} /\ claims = {}
  /\ spend = [m \in Mandates |-> 0]
  /\ captured = {}
  /\ transfers = [a \in Attempts |-> {}]
  /\ reversed = [a \in Attempts |-> {}]
  /\ completed = [a \in Attempts |-> 0]
  /\ cursor = [a \in Attempts |-> 0]
  /\ queued = [a \in Attempts |-> {}]
  /\ unrecorded = [a \in Attempts |-> {}]

At(a, l) == pc[a] = l /\ alive[a]
Goto(a, l) == pc' = [pc EXCEPT ![a] = l] /\ UNCHANGED alive
-----------------------------------------------------------------------------
(* Phase 1: verifyAndCapturePhase *)

\* Signatures, hash chain, budget gate and inventory lock, all synchronous.  An
\* amount over the mandate's ceiling is always refused; the other verdicts are
\* the environment's to choose.
VerifyMandates(a) ==
  /\ At(a, "start")
  /\ \/ AmountOf(a) <= MaxBudget[MandateOf[a]] /\ Goto(a, "nonce")
     \/ Goto(a, "refused")
  /\ UNCHANGED <<ledger, captured, split, rollback>>

\* Mutant: the nonce is looked up but never recorded.
NonceOnlyRead(a) ==
  /\ At(a, "nonce")
  /\ Goto(a, IF NonceOf[a] \in nonces THEN "refused" ELSE "claim")
  /\ UNCHANGED <<ledger, captured, split, rollback>>

\* SET NX of the nonce.  An error of Redis is not handled: the request fails,
\* whether or not the key was written.
ValidateAndRecordNonce(a) ==
  /\ At(a, "nonce")
  /\ \/ /\ NonceOf[a] \notin nonces
        /\ nonces' = nonces \cup {NonceOf[a]}
        /\ Goto(a, "claim")
     \/ /\ NonceOf[a] \in nonces
        /\ Goto(a, "refused") /\ UNCHANGED nonces
     \/ /\ "redis" \in Faults
        /\ nonces' \in {nonces, nonces \cup {NonceOf[a]}}
        /\ Goto(a, "refused")
  /\ UNCHANGED <<claims, spend, captured, split, rollback>>

\* Mutant: SET without NX.
ClaimWithoutNx(a) ==
  /\ At(a, "claim")
  /\ claims' = claims \cup {CartOf[a]}
  /\ Goto(a, "book")
  /\ UNCHANGED <<nonces, spend, captured, split, rollback>>

\* Mutant: a refused duplicate is cleaned up like a failed settlement.
DuplicateReleasesClaim(a) ==
  /\ At(a, "claim")
  /\ claims' = claims \cup {CartOf[a]}
  /\ Goto(a, IF CartOf[a] \in claims THEN "freeClaim" ELSE "book")
  /\ UNCHANGED <<nonces, spend, captured, split, rollback>>

\* SET NX of the cart hash; an unavailable Redis fails open.
ClaimCartSettlement(a) ==
  /\ At(a, "claim")
  /\ \/ /\ CartOf[a] \notin claims
        /\ claims' = claims \cup {CartOf[a]}
        /\ Goto(a, "book")
     \/ /\ CartOf[a] \in claims
        /\ Goto(a, "refused") /\ UNCHANGED claims
     \/ /\ "redis" \in Faults
        /\ Goto(a, "book") /\ UNCHANGED claims
  /\ UNCHANGED <<nonces, spend, captured, split, rollback>>

\* Mutant: the total is compared before this amount is added to it.
CompareBeforeAdding(a) ==
  LET total == spend[MandateOf[a]]
  IN
  /\ At(a, "book")
  /\ spend' = [spend EXCEPT ![MandateOf[a]] = total + AmountOf(a)]
  /\ Goto(a, IF total > MaxBudget[MandateOf[a]] THEN "unbook" ELSE "capture")
  /\ UNCHANGED <<nonces, claims, captured, split, rollback>>

\* INCRBY first, compare afterwards.  With Redis unavailable the cap is not
\* enforced, and the increment may have been applied all the same (its reply or
\* the EXPIRE after it failed).
RecordCumulativeSpend(a) ==
  LET total == spend[MandateOf[a]] + AmountOf(a)
  IN
  /\ At(a, "book")
  /\ \/ /\ spend' = [spend EXCEPT ![MandateOf[a]] = total]
        /\ \/ total > MaxBudget[MandateOf[a]] /\ Goto(a, "unbook")
           \/ total <= MaxBudget[MandateOf[a]] /\ Goto(a, "capture")
           \/ "redis" \in Faults /\ Goto(a, "capture")
     \/ /\ "redis" \in Faults
        /\ Goto(a, "capture") /\ UNCHANGED spend
  /\ UNCHANGED <<nonces, claims, captured, split, rollback>>

\* Mutant: the decrement is forgotten.
KeepSpend(a) == UNCHANGED spend

\* _rollbackSpend: decrement unconditionally, log and go on when Redis fails.
RollbackSpend(a) ==
  \/ spend' = [spend EXCEPT ![MandateOf[a]] = @ - AmountOf(a)]
  \/ "redis" \in Faults /\ UNCHANGED spend

\* The breach is undone and CumulativeBudgetExceeded raised; the cart claim
\* taken just before stays.
UndoBreach(a) ==
  /\ At(a, "unbook")
  /\ RollbackSpend(a)
  /\ Goto(a, "refused")
  /\ UNCHANGED <<nonces, claims, captured, split, rollback>>

\* Any exception, a timeout included, is taken to mean that no money moved.
CapturePayment(a) ==
  /\ At(a, "capture")
  /\ \/ captured' = captured \cup {a} /\ Goto(a, "order")
     \/ "refusal" \in Faults /\ Goto(a, "freeClaim") /\ UNCHANGED captured
     \/ /\ "lostReply" \in Faults
        /\ captured' = captured \cup {a} /\ Goto(a, "freeClaim")
  /\ UNCHANGED <<ledger, split, rollback>>

\* releaseSettlementSlot, first await: DELETE of the cart key, whoever set it.
ReleaseCartClaim(a) ==
  /\ At(a, "freeClaim")
  /\ \/ claims' = claims \ {CartOf[a]}
     \/ "redis" \in Faults /\ UNCHANGED claims
  /\ Goto(a, "freeSpend")
  /\ UNCHANGED <<nonces, spend, captured, split, rollback>>

\* releaseSettlementSlot, second await.
ReleaseCumulativeSpend(a) ==
  /\ At(a, "freeSpend")
  /\ RollbackSpend(a)
  /\ Goto(a, "captureFailed")
  /\ UNCHANGED <<nonces, claims, captured, split, rollback>>
-----------------------------------------------------------------------------
(* Phase 2: the split transfers and their compensation *)

\* The evidence order degrades to None on any error; then the split manifest,
\* whose ArithmeticDriftException leaves the saga outside its try block.
PrepareSplit(a) ==
  /\ At(a, "order")
  /\ \/ CartOf[a] \in Overdraft /\ Goto(a, "manifestRejected")
     \/ CartOf[a] \notin Overdraft /\ Goto(a, "transfer")
  /\ UNCHANGED <<ledger, captured, split, rollback>>

\* Control enters compensateTransfers with n completed transfers.
StartRollback(a, n) ==
  /\ cursor' = [cursor EXCEPT ![a] = n]
  /\ Goto(a, IF n = 0 THEN "release" ELSE "compensate")
  /\ UNCHANGED <<reversed, queued, unrecorded>>

\* Mutant: a leg that failed is counted as completed.
CreateTransferSkippingFailures(a) ==
  LET leg == completed[a] + 1
  IN
  /\ At(a, "transfer")
  /\ completed' = [completed EXCEPT ![a] = leg]
  /\ \/ transfers' = [transfers EXCEPT ![a] = @ \cup {leg}]
     \/ "refusal" \in Faults /\ UNCHANGED transfers
  /\ Goto(a, IF leg = LegCount[CartOf[a]] THEN "settled" ELSE "transfer")
  /\ UNCHANGED <<ledger, captured, rollback>>

\* One createTransfer of executeSplitPhase.  A leg whose reply is lost exists at
\* the provider and is not in `completed`.  The last reply ends the settlement:
\* the invoice that follows is a pure function of the mandates.
CreateTransfer(a) ==
  LET leg == completed[a] + 1
  IN
  /\ At(a, "transfer")
  /\ \/ /\ transfers' = [transfers EXCEPT ![a] = @ \cup {leg}]
        /\ completed' = [completed EXCEPT ![a] = leg]
        /\ Goto(a, IF leg = LegCount[CartOf[a]] THEN "settled" ELSE "transfer")
        /\ UNCHANGED rollback
     \/ /\ "refusal" \in Faults
        /\ StartRollback(a, completed[a])
        /\ UNCHANGED split
     \/ /\ "lostReply" \in Faults
        /\ transfers' = [transfers EXCEPT ![a] = @ \cup {leg}]
        /\ StartRollback(a, completed[a])
        /\ UNCHANGED completed
  /\ UNCHANGED <<ledger, captured>>

\* The reversal of one leg and what the saga does with its outcome: a failed one
\* goes to the DLQ, a failed enqueue to the log, and the loop continues.
ReverseLeg(a, leg) ==
  \/ /\ reversed' = [reversed EXCEPT ![a] = @ \cup {leg}]
     /\ UNCHANGED <<queued, unrecorded>>
  \/ /\ \/ "refusal" \in Faults /\ UNCHANGED reversed
        \/ /\ "lostReply" \in Faults
           /\ reversed' = [reversed EXCEPT ![a] = @ \cup {leg}]
     /\ \/ /\ queued' = [queued EXCEPT ![a] = @ \cup {leg}]
           /\ UNCHANGED unrecorded
        \/ /\ "redis" \in Faults
           /\ unrecorded' = [unrecorded EXCEPT ![a] = @ \cup {leg}]
           /\ UNCHANGED queued

\* Mutant: the loop stops at the first leg it cannot reverse.
CompensateWithEarlyAbort(a) ==
  /\ At(a, "compensate")
  /\ ReverseLeg(a, cursor[a])
  /\ cursor' = [cursor EXCEPT ![a] = @ - 1]
  /\ Goto(a, IF cursor[a] = 1 \/ reversed' = reversed
             THEN "release" ELSE "compensate")
  /\ UNCHANGED <<ledger, captured, split>>

\* Mutant: the cursor does not move.
CompensateSameLegForever(a) ==
  /\ At(a, "compensate")
  /\ ReverseLeg(a, cursor[a])
  /\ Goto(a, IF cursor[a] = 0 THEN "release" ELSE "compensate")
  /\ UNCHANGED <<ledger, captured, split, cursor>>

\* One turn of the compensateTransfers loop, newest transfer first.
CompensateLeg(a) ==
  /\ At(a, "compensate")
  /\ ReverseLeg(a, cursor[a])
  /\ cursor' = [cursor EXCEPT ![a] = @ - 1]
  /\ Goto(a, IF cursor[a] = 1 THEN "release" ELSE "compensate")
  /\ UNCHANGED <<ledger, captured, split>>

\* The budget is returned; the cart claim is kept on purpose.
ReleaseProvisionalSpend(a) ==
  /\ At(a, "release")
  /\ RollbackSpend(a)
  /\ Goto(a, "rolledBack")
  /\ UNCHANGED <<nonces, claims, captured, split, rollback>>
-----------------------------------------------------------------------------
\* The process serving the attempt dies; Redis and the provider keep their state.
Crash(a) ==
  /\ "crash" \in Faults
  /\ alive[a] /\ pc[a] \notin Done \cup {"start"}
  /\ alive' = [alive EXCEPT ![a] = FALSE]
  /\ UNCHANGED <<pc, ledger, captured, split, rollback>>

\* What the engine itself does for an attempt.
Step(a) ==
  \/ VerifyMandates(a) \/ ValidateAndRecordNonce(a)
  \/ ClaimCartSettlement(a) \/ RecordCumulativeSpend(a) \/ UndoBreach(a)
  \/ CapturePayment(a) \/ ReleaseCartClaim(a) \/ ReleaseCumulativeSpend(a)
  \/ PrepareSplit(a) \/ CreateTransfer(a)
  \/ CompensateLeg(a) \/ ReleaseProvisionalSpend(a)

Next == \E a \in Attempts : Step(a) \/ Crash(a)

Spec == Init /\ [][Next]_vars

\* An admitted request runs on: every provider call carries timeoutSeconds.  A
\* request need not arrive, and a dead process takes no step.
Resume(a) == pc[a] # "start" /\ Step(a)
FairSpec == Spec /\ \A a \in Attempts : WF_vars(Resume(a))
-----------------------------------------------------------------------------
(* Views of the state the properties are written in *)

\* From its claim on, unless its capture failed, an attempt occupies its cart.
SlotPCs == {"book", "unbook", "capture", "freeClaim", "order", "transfer",
            "compensate", "release", "manifestRejected", "settled", "rolledBack"}

\* Its amount is in the counter from the increment to the decrement.
BookedPCs == {"unbook", "capture", "freeClaim", "freeSpend", "order", "transfer",
              "compensate", "release", "manifestRejected", "settled"}

AdmittedPCs == BookedPCs \ {"unbook"}

InSlot(a) == pc[a] \in SlotPCs
Booked(m) == {a \in Attempts : MandateOf[a] = m /\ pc[a] \in BookedPCs}
Admitted(m) == {a \in Attempts : MandateOf[a] = m /\ pc[a] \in AdmittedPCs}
PastNonce(a) == pc[a] \notin {"start", "nonce", "refused"}
Handled(a) == reversed[a] \cup queued[a] \cup unrecorded[a]
RollingBack(a) == pc[a] \in {"compensate", "release", "rolledBack"}
-----------------------------------------------------------------------------
(* Safety *)

\* Every variable stays in its domain; in particular the saga never runs past
\* the last leg of its manifest, nor its rollback past the first.
TypeOK ==
  /\ pc \in [Attempts -> PCs]
  /\ alive \in [Attempts -> BOOLEAN]
  /\ nonces \subseteq Nonces /\ claims \subseteq Carts
  /\ spend \in [Mandates -> Int]
  /\ captured \subseteq Attempts
  /\ transfers \in [Attempts -> SUBSET (1..4)]
  /\ reversed \in [Attempts -> SUBSET (1..4)]
  /\ \A a \in Attempts : completed[a] <= LegCount[CartOf[a]]
  /\ completed \in [Attempts -> 0..4] /\ cursor \in [Attempts -> 0..4]
  /\ queued \in [Attempts -> SUBSET (1..4)]
  /\ unrecorded \in [Attempts -> SUBSET (1..4)]

\* Two attempts never settle one cart at a time, whatever nonces they carry and
\* however their awaits interleave; a settled cart is never entered again.
OneSettlementPerCart ==
  \A a, b \in Attempts :
    a # b /\ CartOf[a] = CartOf[b] /\ InSlot(a) => ~InSlot(b)

\* The cart key is in Redis for as long as an attempt relies on it: no other
\* attempt's failure handling deletes it.
ClaimHeldInSlot == \A a \in Attempts : InSlot(a) => CartOf[a] \in claims

\* Concurrent settlements under one mandate never admit more than its ceiling.
BudgetNeverExceeded ==
  \A m \in Mandates : Total[Admitted(m)] <= MaxBudget[m]

\* The counter in Redis is exactly the sum of what is booked: no refusal,
\* failed capture or rollback leaks budget or gives back more than it took.
CounterIsExact == \A m \in Mandates : spend[m] = Total[Booked(m)]

\* A nonce admits one request even when Redis misbehaves: unlike the two guards
\* after it, the nonce ledger fails closed.
NonceAdmitsOne ==
  \A a, b \in Attempts :
    a # b /\ NonceOf[a] = NonceOf[b] /\ PastNonce(a) => ~PastNonce(b)

\* Legs are dealt with newest first and none is skipped: at any moment of a
\* rollback exactly the completed legs above the cursor have been reversed,
\* queued or logged, and outside a rollback none has.
RollbackNewestFirst ==
  \A a \in Attempts :
    Handled(a) = IF RollingBack(a) THEN (cursor[a] + 1)..completed[a] ELSE {}

\* The rollback of a settlement ends only when every transfer it knows of has
\* been dealt with.
RollbackRunsToTheEnd ==
  \A a \in Attempts :
    pc[a] \in {"release", "rolledBack"} => Handled(a) = 1..completed[a]

\* A settlement reported as settled has all its legs at the provider, none of
\* them reversed, and its payment captured.
SettledIsWhole ==
  \A a \in Attempts :
    pc[a] = "settled" =>
      /\ transfers[a] = Legs(a) /\ Handled(a) = {}
      /\ a \in captured

\* Money is captured only by an attempt that at that moment has consumed its
\* nonce, holds its cart and is booked within its mandate's ceiling.
CaptureIsAuthorized ==
  [][\A a \in captured' \ captured :
       /\ NonceOf[a] \in nonces /\ CartOf[a] \in claims
       /\ a \in Admitted(MandateOf[a])
       /\ Total[Admitted(MandateOf[a])] <= MaxBudget[MandateOf[a]]]_vars

\* An admitted request always reaches a verdict, provided its process lives.
AttemptsConclude ==
  \A a \in Attempts : pc[a] # "start" ~> pc[a] \in Done \/ ~alive[a]
-----------------------------------------------------------------------------
(* Refinement of the promise *)

\* Reserving is the increment that passes the cap; the slot is given up with
\* the cart key, before the spend is returned.
Stage(a) ==
  CASE pc[a] \in {"start", "nonce", "claim", "book", "unbook"} -> "open"
    [] pc[a] = "refused" -> "refused"
    [] pc[a] \in {"capture", "freeClaim"} -> "reserved"
    [] pc[a] \in {"freeSpend", "captureFailed"} -> "void"
    [] pc[a] \in {"order", "transfer", "compensate", "release"} -> "captured"
    [] pc[a] = "manifestRejected" -> "stranded"
    [] pc[a] = "settled" -> "settled"
    [] pc[a] = "rolledBack" -> "rolledBack"

Promise == INSTANCE SettlementPromise WITH stage <- [a \in Attempts |-> Stage(a)]

\* Claim, increment, compare and undo, spread over four awaits, amount to one
\* atomic reservation of cart and budget.
KeepsPromise == Promise!Spec
-----------------------------------------------------------------------------
(* What the documentation says and some fault disproves *)

\* twoPhaseCommitSaga.py: a failed capture moved no money, so its cart may be
\* settled again; then no cart is ever charged twice.
CartChargedOnce ==
  \A a, b \in captured : CartOf[a] = CartOf[b] => a = b
=============================================================================
