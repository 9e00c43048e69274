---------------------- MODULE MandateVerification_proofs ----------------------
(***************************************************************************)
(* Proofs about MandateVerification for all bundles, clocks, life times    *)
(* and bounds.  Every presented request passed the checks by the clock it  *)
(* was judged by, two uses of a nonce are a life time apart, and until a   *)
(* mandate ends its counter is the sum of what is booked on it.            *)
(***************************************************************************)
EXTENDS MandateVerification, TLAPS

\* The clock a request was judged by.
JudgedAt(r) == requests[r].time + requests[r].shift

IsDated(r) ==
  /\ IsPermitted(requests[r].shift)
  /\ Verified(Bundle[r], JudgedAt(r))
  /\ verifyTimestampWindow(ExecutionOf(r).timestamp, JudgedAt(r))
  /\ requests[r].time <= now
  /\ requests[r].time + NonceTtl <= nonces[ExecutionOf(r).nonce]

AreApart(p, q) ==
  \/ requests[p].time + NonceTtl <= requests[q].time
  \/ requests[q].time + NonceTtl <= requests[p].time

Dated == \A r \in Requests : IsPresented(r) => IsDated(r)
Apart ==
  \A p, q \in Requests :
    /\ p # q /\ ExecutionOf(p).nonce = ExecutionOf(q).nonce
    /\ IsPresented(p) /\ IsPresented(q)
    => AreApart(p, q)

NonceInv == TypeOK /\ Dated /\ Apart

Booked(i) == {r \in Requests : IntentOf(r) = i /\ IsBooked(r)}

\* Until the mandate ends, its counter is there and exact, or nothing is booked.
IsCounted(i) ==
  /\ Value(i) = Total[Booked(i)]
  /\ i.validUntil <= spend[i].until \/ (Booked(i) = {} /\ spend[i].until = 0)

IsKept(i) ==
  NoneAhead(i) => /\ now < i.validUntil => IsCounted(i)
                  /\ Total[BookedEarly(i)] <= i.maxBudget

SpendInv == \A i \in Intents : IsKept(i)
-----------------------------------------------------------------------------
(* The constants *)

LEMMA BundleFacts ==
  /\ \A r \in Requests :
       /\ AmountOf(r) \in Nat /\ AmountOf(r) > 0
       /\ IntentOf(r) \in Intents
       /\ CartOf(r).lockExpiresAt \in Nat
       /\ ExecutionOf(r).timestamp \in Nat /\ ExecutionOf(r).nonce \in Nonces
  /\ \A i \in Intents : i.validUntil \in Nat /\ i.maxBudget \in Nat /\ i.maxBudget > 0
  BY BundleAssumption DEF IsIntent, IsCart, IsExecution, IsPaise, AmountOf, Intents, Nonces

LEMMA TotalAdd ==
  ASSUME NEW S \in SUBSET Requests, NEW r \in Requests, r \notin S
  PROVE  Total[S \cup {r}] = Total[S] + AmountOf(r)
  <1>1. {r} \in SUBSET Requests /\ S \cap {r} = {}
    OBVIOUS
  <1> QED BY <1>1, TotalAssumption

LEMMA TotalRemove ==
  ASSUME NEW S \in SUBSET Requests, NEW r \in S
  PROVE  Total[S \ {r}] = Total[S] - AmountOf(r)
  <1>1. PICK R \in SUBSET Requests : R = S \ {r}
    OBVIOUS
  <1>2. r \in Requests /\ r \notin R /\ R \cup {r} = S
    BY <1>1
  <1>3. Total[R \cup {r}] = Total[R] + AmountOf(r)
    BY <1>2, TotalAdd
  <1>4. Total[R] \in Nat /\ AmountOf(r) \in Nat
    BY <1>2, TotalAssumption, BundleFacts
  <1> QED BY <1>1, <1>2, <1>3, <1>4

LEMMA TotalMonotone ==
  ASSUME NEW T \in SUBSET Requests, NEW S \in SUBSET T
  PROVE  Total[S] <= Total[T]
  <1>1. PICK R \in SUBSET Requests : R = T \ S
    OBVIOUS
  <1>2. S \in SUBSET Requests /\ S \cap R = {} /\ S \cup R = T
    BY <1>1
  <1>3. Total[S \cup R] = Total[S] + Total[R]
    BY <1>2, TotalAssumption
  <1>4. Total[S] \in Nat /\ Total[R] \in Nat
    BY <1>2, TotalAssumption
  <1>5. Total[T] = Total[S] + Total[R]
    BY <1>2, <1>3
  <1> QED BY <1>4, <1>5

LEMMA TotalEmpty == Total[{}] = 0
  <1>1. {} \in SUBSET Requests /\ {} \cap {} = {} /\ {} \cup {} = {}
    OBVIOUS
  <1>2. Total[{}] = Total[{}] + Total[{}] /\ Total[{}] \in Nat
    BY <1>1, TotalAssumption
  <1>3. \A n \in Nat : n = n + n => n = 0
    OBVIOUS
  <1> QED BY <1>2, <1>3
-----------------------------------------------------------------------------
(* What a step does to the requests *)

Reserved(r, shift, end) ==
  /\ requests[r].at = "idle"
  /\ end \in {"cartTaken", "overBudget", "admitted"}
  /\ requests' = [requests EXCEPT ![r] = [at |-> end, time |-> now, shift |-> shift]]

Concluded(r, end) ==
  /\ requests[r].at = "admitted"
  /\ end \in {"failed", "rolledBack", "settled"}
  /\ requests' = [requests EXCEPT ![r].at = end]
  /\ UNCHANGED <<now, nonces>>

LEMMA ReservationShape ==
  ASSUME NEW r \in Requests, NEW shift, ExecuteSettlement(r, shift)
  PROVE  \E end \in {"cartTaken", "overBudget", "admitted"} : Reserved(r, shift, end)
  BY Zenon DEF ExecuteSettlement, ClaimSettlementSlot, RecordCumulativeSpend, Reserved

LEMMA SettleShape ==
  ASSUME NEW r \in Requests, Settle(r)
  PROVE  \/ \E shift \in Shifts : ExecuteSettlement(r, shift)
         \/ \E end \in {"failed", "rolledBack", "settled"} : Concluded(r, end)
  BY Zenon DEF Settle, FailCapture, RollBackSplit, CompleteSplit, Conclude, Concluded

LEMMA TtlPositive ==
  ASSUME NEW i \in Intents, NEW t \in Int
  PROVE  /\ SpendTtl(i, t) \in Nat /\ SpendTtl(i, t) > 0
         /\ i.validUntil <= t + SpendTtl(i, t)
  BY BundleFacts, ClockAssumption DEF SpendTtl

LEMMA InitTyped == Init => NonceInv
  <1>1. \A r \in Requests : Init => requests[r].at = "idle"
    BY DEF Init, Unasked
  <1>2. Init => TypeOK
    BY ClockAssumption DEF Init, Unasked, TypeOK, Outcomes
  <1> QED BY <1>1, <1>2 DEF NonceInv, Dated, Apart, IsPresented

LEMMA ReservationTyped ==
  ASSUME TypeOK, NEW r \in Requests, NEW shift \in Shifts, ExecuteSettlement(r, shift)
  PROVE  TypeOK'
  <1> DEFINE i == IntentOf(r)
  <1>1. PICK end \in {"cartTaken", "overBudget", "admitted"} : Reserved(r, shift, end)
    BY ReservationShape
  <1>2. shift \in Int /\ i \in Intents /\ ExecutionOf(r).nonce \in Nonces /\ now \in Nat
    BY BundleFacts, ClockAssumption DEF TypeOK
  <1>3. nonces' \in [Nonces -> Nat]
    BY <1>2, ClockAssumption DEF ExecuteSettlement, RecordNonce, TypeOK
  <1>4. requests' \in [Requests -> [at : Outcomes, time : 0..MaxTime, shift : Int]]
    BY <1>1, <1>2 DEF Reserved, TypeOK, Outcomes
  <1>5. claims' \subseteq {CartOf(x) : x \in Requests}
    BY DEF ExecuteSettlement, ClaimSettlementSlot, TypeOK
  <1>6. spend' \in [Intents -> [paise : Int, until : Nat]]
    <2>1. CASE UNCHANGED spend
      BY <2>1 DEF TypeOK
    <2>2. CASE RecordCumulativeSpend(r, shift)
      <3>1. PICK u \in Nat : u = now + SpendTtl(i, now + shift)
        BY <1>2, TtlPositive
      <3>2. PICK v \in Int : v = Value(i)
        BY <1>2 DEF Value, TypeOK
      <3>3. AmountOf(r) \in Nat
        BY BundleFacts
      <3>4. \E w \in Int : spend' = [spend EXCEPT ![i] = [paise |-> w, until |-> u]]
        BY <2>2, <3>1, <3>2, <3>3 DEF RecordCumulativeSpend
      <3> QED BY <1>2, <3>4 DEF TypeOK
    <2> QED BY <2>1, <2>2 DEF ExecuteSettlement, ClaimSettlementSlot
  <1> QED BY <1>3, <1>4, <1>5, <1>6 DEF ExecuteSettlement, TypeOK

LEMMA ConclusionTyped ==
  ASSUME TypeOK, NEW r \in Requests, NEW end \in {"failed", "rolledBack", "settled"},
         Concluded(r, end),
         UNCHANGED spend \/ RollbackSpend(r), claims' \subseteq claims
  PROVE  TypeOK'
  <1> DEFINE i == IntentOf(r)
  <1>1. requests' \in [Requests -> [at : Outcomes, time : 0..MaxTime, shift : Int]]
    BY DEF Concluded, TypeOK, Outcomes
  <1>2. spend' \in [Intents -> [paise : Int, until : Nat]]
    <2>1. CASE UNCHANGED spend
      BY <2>1 DEF TypeOK
    <2>2. CASE RollbackSpend(r)
      <3>1. PICK u \in Nat : u = IF now < spend[i].until THEN spend[i].until ELSE Never
        BY BundleFacts, ClockAssumption DEF TypeOK, Never
      <3>2. PICK v \in Int : v = Value(i) - AmountOf(r)
        BY BundleFacts DEF Value, TypeOK
      <3>3. spend' = [spend EXCEPT ![i] = [paise |-> v, until |-> u]]
        BY <2>2, <3>1, <3>2 DEF RollbackSpend
      <3> QED BY <3>3, BundleFacts DEF TypeOK
    <2> QED BY <2>1, <2>2
  <1> QED BY <1>1, <1>2 DEF TypeOK, Concluded

LEMMA EndShape ==
  ASSUME NEW r \in Requests,
         FailCapture(r) \/ RollBackSplit(r) \/ CompleteSplit(r)
  PROVE  /\ \E end \in {"failed", "rolledBack", "settled"} : Concluded(r, end)
         /\ UNCHANGED spend \/ RollbackSpend(r)
         /\ claims' \subseteq claims
  BY DEF FailCapture, RollBackSplit, CompleteSplit, Conclude, Concluded

LEMMA TypePreserved ==
  ASSUME TypeOK, [Next]_vars
  PROVE  TypeOK'
  <1>1. CASE UNCHANGED vars
    BY <1>1 DEF vars, TypeOK
  <1>2. CASE Tick
    BY <1>2, ClockAssumption DEF Tick, TypeOK
  <1>3. ASSUME NEW r \in Requests, Settle(r)
        PROVE  TypeOK'
    <2>1. CASE \E shift \in Shifts : ExecuteSettlement(r, shift)
      BY <2>1, ReservationTyped
    <2>2. CASE FailCapture(r) \/ RollBackSplit(r) \/ CompleteSplit(r)
      <3>1. PICK end \in {"failed", "rolledBack", "settled"} : Concluded(r, end)
        BY <2>2, EndShape
      <3> QED BY <2>2, <3>1, EndShape, ConclusionTyped
    <2> QED BY <1>3, <2>1, <2>2 DEF Settle
  <1> QED BY <1>1, <1>2, <1>3 DEF Next
-----------------------------------------------------------------------------
(* Nonces and clocks *)

\* A request that was presented keeps its time and its clock.
LEMMA StepKeepsTimes ==
  ASSUME TypeOK, Next, NEW p \in Requests, IsPresented(p)
  PROVE  /\ IsPresented(p)' /\ now <= now'
         /\ requests'[p].time = requests[p].time
         /\ requests'[p].shift = requests[p].shift
  <1>1. CASE Tick
    BY <1>1 DEF Tick, IsPresented, TypeOK
  <1>2. ASSUME NEW r \in Requests, NEW shift \in Shifts, ExecuteSettlement(r, shift)
        PROVE  IsPresented(p)' /\ now = now' /\ requests'[p] = requests[p]
    <2>1. PICK end \in {"cartTaken", "overBudget", "admitted"} : Reserved(r, shift, end)
      BY <1>2, ReservationShape
    <2> QED BY <1>2, <2>1 DEF Reserved, IsPresented, ExecuteSettlement, TypeOK
  <1>3. ASSUME NEW r \in Requests, FailCapture(r) \/ RollBackSplit(r) \/ CompleteSplit(r)
        PROVE  /\ IsPresented(p)' /\ now = now'
               /\ requests'[p].time = requests[p].time
               /\ requests'[p].shift = requests[p].shift
    <2>1. PICK end \in {"failed", "rolledBack", "settled"} : Concluded(r, end)
      BY <1>3, EndShape
    <2> QED BY <2>1 DEF Concluded, IsPresented, TypeOK
  <1> QED BY <1>1, <1>2, <1>3 DEF Next, Settle, TypeOK

\* A nonce is never forgotten earlier than promised.
LEMMA StepKeepsNonces ==
  ASSUME TypeOK, Next, NEW n \in Nonces
  PROVE  nonces[n] <= nonces'[n]
  <1>1. CASE UNCHANGED nonces
    BY <1>1 DEF TypeOK
  <1>2. ASSUME NEW r \in Requests, NEW shift \in Shifts, ExecuteSettlement(r, shift)
        PROVE  nonces[n] <= nonces'[n]
    BY <1>2, BundleFacts, ClockAssumption DEF ExecuteSettlement, RecordNonce, TypeOK
  <1>3. ASSUME NEW r \in Requests, FailCapture(r) \/ RollBackSplit(r) \/ CompleteSplit(r)
        PROVE  UNCHANGED nonces
    BY <1>3, EndShape DEF Concluded
  <1> QED BY <1>1, <1>2, <1>3 DEF Next, Settle, Tick

LEMMA OldStaysDated ==
  ASSUME NonceInv, Next, NEW p \in Requests, IsPresented(p)
  PROVE  IsDated(p)'
  <1>1. IsDated(p)
    BY DEF NonceInv, Dated
  <1>2. /\ now <= now' /\ requests'[p].time = requests[p].time
        /\ requests'[p].shift = requests[p].shift
    BY StepKeepsTimes DEF NonceInv
  <1>3. PICK n \in Nonces : n = ExecutionOf(p).nonce
    BY BundleFacts
  <1>4. nonces[n] <= nonces'[n]
    BY StepKeepsNonces DEF NonceInv
  <1>5. /\ now \in Nat /\ now' \in Nat /\ nonces[n] \in Nat /\ nonces'[n] \in Nat
        /\ requests[p].time \in Nat
    BY TypePreserved DEF NonceInv, TypeOK
  <1>6. JudgedAt(p)' = JudgedAt(p)
    BY <1>2 DEF JudgedAt
  <1>7. requests'[p].time <= now' /\ requests'[p].time + NonceTtl <= nonces'[n]
    BY <1>1, <1>2, <1>3, <1>4, <1>5, ClockAssumption DEF IsDated
  <1>8. /\ IsPermitted(requests'[p].shift)
        /\ Verified(Bundle[p], JudgedAt(p)')
        /\ verifyTimestampWindow(ExecutionOf(p).timestamp, JudgedAt(p)')
    BY <1>1, <1>2, <1>6 DEF IsDated
  <1> QED BY <1>3, <1>7, <1>8 DEF IsDated

LEMMA NewIsDated ==
  ASSUME NonceInv, NEW r \in Requests, NEW shift \in Shifts, ExecuteSettlement(r, shift)
  PROVE  /\ IsDated(r)'
         /\ requests'[r].time = now
         /\ \A p \in Requests \ {r} : requests'[p] = requests[p]
         /\ nonces[ExecutionOf(r).nonce] <= now
  <1>1. PICK end \in {"cartTaken", "overBudget", "admitted"} : Reserved(r, shift, end)
    BY ReservationShape
  <1>2. requests'[r] = [at |-> end, time |-> now, shift |-> shift]
    BY <1>1 DEF Reserved, NonceInv, TypeOK
  <1>3. JudgedAt(r)' = now + shift
    BY <1>2 DEF JudgedAt
  <1>4. now \in Nat /\ nonces \in [Nonces -> Nat] /\ ExecutionOf(r).nonce \in Nonces
    BY BundleFacts DEF NonceInv, TypeOK
  <1>5. now' = now /\ nonces'[ExecutionOf(r).nonce] = now + NonceTtl
    BY <1>4 DEF ExecuteSettlement, RecordNonce
  <1>6. IsDated(r)'
    <2>1. /\ IsPermitted(requests'[r].shift)
          /\ Verified(Bundle[r], JudgedAt(r)')
          /\ verifyTimestampWindow(ExecutionOf(r).timestamp, JudgedAt(r)')
      BY <1>2, <1>3 DEF ExecuteSettlement
    <2>2. requests'[r].time <= now' /\ requests'[r].time + NonceTtl <= nonces'[ExecutionOf(r).nonce]
      BY <1>2, <1>4, <1>5, ClockAssumption
    <2> QED BY <2>1, <2>2 DEF IsDated
  <1>7. \A p \in Requests \ {r} : requests'[p] = requests[p]
    BY <1>1 DEF Reserved, NonceInv, TypeOK
  <1>8. nonces[ExecutionOf(r).nonce] <= now
    BY DEF ExecuteSettlement, RecordNonce
  <1> QED BY <1>2, <1>6, <1>7, <1>8

\* Whom a step presents.
LEMMA NewlyPresented ==
  ASSUME TypeOK, Next, NEW p \in Requests, IsPresented(p)', ~IsPresented(p)
  PROVE  \E shift \in Shifts : ExecuteSettlement(p, shift)
  <1>1. ~Tick
    BY DEF Tick, IsPresented
  <1>2. PICK r \in Requests : Settle(r)
    BY <1>1 DEF Next
  <1>3. CASE \E shift \in Shifts : ExecuteSettlement(r, shift)
    <2>1. PICK shift \in Shifts : ExecuteSettlement(r, shift)
      BY <1>3
    <2>2. PICK end \in {"cartTaken", "overBudget", "admitted"} : Reserved(r, shift, end)
      BY <2>1, ReservationShape
    <2>3. p = r
      BY <2>2 DEF Reserved, TypeOK, IsPresented
    <2> QED BY <2>1, <2>3
  <1>4. CASE FailCapture(r) \/ RollBackSplit(r) \/ CompleteSplit(r)
    <2>1. PICK end \in {"failed", "rolledBack", "settled"} : Concluded(r, end)
      BY <1>4, EndShape
    <2> QED BY <2>1 DEF Concluded, TypeOK, IsPresented
  <1> QED BY <1>2, <1>3, <1>4 DEF Settle

LEMMA DatedPreserved ==
  ASSUME NonceInv, Next
  PROVE  Dated'
  <1> SUFFICES ASSUME NEW p \in Requests, IsPresented(p)'
               PROVE  IsDated(p)'
    BY DEF Dated
  <1>1. CASE IsPresented(p)
    BY <1>1, OldStaysDated
  <1>2. CASE ~IsPresented(p)
    BY <1>2, NewlyPresented, NewIsDated DEF NonceInv
  <1> QED BY <1>1, <1>2

\* A request just presented used a nonce whose last use is a life time past.
LEMMA NewIsApart ==
  ASSUME NonceInv, NEW r \in Requests, NEW shift \in Shifts, ExecuteSettlement(r, shift),
         NEW p \in Requests \ {r}, IsPresented(p),
         ExecutionOf(p).nonce = ExecutionOf(r).nonce
  PROVE  requests'[p].time + NonceTtl <= requests'[r].time
  <1>1. /\ requests'[r].time = now /\ requests'[p] = requests[p]
        /\ nonces[ExecutionOf(r).nonce] <= now
    BY NewIsDated
  <1>2. requests[p].time + NonceTtl <= nonces[ExecutionOf(r).nonce]
    BY DEF NonceInv, Dated, IsDated
  <1>3. /\ now \in Nat /\ requests[p].time \in Nat
        /\ nonces[ExecutionOf(r).nonce] \in Nat
    BY BundleFacts DEF NonceInv, TypeOK
  <1> QED BY <1>1, <1>2, <1>3, ClockAssumption

LEMMA ApartPreserved ==
  ASSUME NonceInv, Next
  PROVE  Apart'
  <1> SUFFICES ASSUME NEW p \in Requests, NEW q \in Requests, p # q,
                      ExecutionOf(p).nonce = ExecutionOf(q).nonce,
                      IsPresented(p)', IsPresented(q)'
               PROVE  AreApart(p, q)'
    BY DEF Apart
  <1>1. CASE IsPresented(p) /\ IsPresented(q)
    <2>1. requests'[p].time = requests[p].time /\ requests'[q].time = requests[q].time
      BY <1>1, StepKeepsTimes DEF NonceInv
    <2>2. AreApart(p, q)
      BY <1>1 DEF NonceInv, Apart
    <2> QED BY <2>1, <2>2 DEF AreApart
  <1>2. CASE ~IsPresented(p)
    <2>1. PICK shift \in Shifts : ExecuteSettlement(p, shift)
      BY <1>2, NewlyPresented DEF NonceInv
    <2>2. IsPresented(q)
      <3>1. requests'[q] = requests[q]
        BY <2>1, NewIsDated
      <3> QED BY <3>1 DEF IsPresented
    <2> QED BY <2>1, <2>2, NewIsApart DEF AreApart
  <1>3. CASE ~IsPresented(q)
    <2>1. PICK shift \in Shifts : ExecuteSettlement(q, shift)
      BY <1>3, NewlyPresented DEF NonceInv
    <2>2. IsPresented(p)
      <3>1. requests'[p] = requests[p]
        BY <2>1, NewIsDated
      <3> QED BY <3>1 DEF IsPresented
    <2> QED BY <2>1, <2>2, NewIsApart DEF AreApart
  <1> QED BY <1>1, <1>2, <1>3

THEOREM NonceInvariant == Spec => []NonceInv
  <1>1. Init => NonceInv
    BY InitTyped
  <1>2. NonceInv /\ [Next]_vars => NonceInv'
    <2>1. ASSUME NonceInv, Next PROVE NonceInv'
      BY <2>1, TypePreserved, DatedPreserved, ApartPreserved DEF NonceInv
    <2>2. ASSUME NonceInv, UNCHANGED vars PROVE NonceInv'
      BY <2>2 DEF vars, NonceInv, TypeOK, Dated, Apart, IsDated, AreApart, IsPresented, JudgedAt
    <2> QED BY <2>1, <2>2
  <1> QED BY <1>1, <1>2, PTL DEF Spec

\* Every reachable state has its types.
THEOREM MandateTypeCorrect == Spec => []TypeOK
  <1>1. NonceInv => TypeOK
    BY DEF NonceInv
  <1> QED BY <1>1, NonceInvariant, PTL

\* What the three signatures say together authorizes every admitted payment
\* (twoPhaseCommitSaga verifies signatures, links and budget before it reserves).
THEOREM Authorization == Spec => []AcceptedIsAuthorized
  <1>1. ASSUME NonceInv, NEW r \in Requests, IsAdmitted(r)
        PROVE  Verified(Bundle[r], JudgedAt(r))
    BY <1>1 DEF NonceInv, Dated, IsDated, IsPresented, IsAdmitted
  <1>2. NonceInv => AcceptedIsAuthorized
    BY <1>1 DEF AcceptedIsAuthorized, Verified, verifyMandateSignatures, VerifiedBy,
       verifyMandateChain, computeMandateHash, validateBudgetGate, verifyDelegatedAgent,
       verifyCategoryAuthorization, IntentOf, CartOf, ExecutionOf
  <1> QED BY <1>2, NonceInvariant, PTL

LEMMA PresentedAreBounded ==
  ASSUME NonceInv, NEW r \in Requests, IsPresented(r)
  PROVE  /\ requests[r].shift \in Int /\ requests[r].time \in Nat
         /\ -MinDrift <= requests[r].shift /\ requests[r].shift <= MaxDrift
         /\ JudgedAt(r) <= IntentOf(r).validUntil
         /\ JudgedAt(r) <= CartOf(r).lockExpiresAt
         /\ JudgedAt(r) - MinDrift <= ExecutionOf(r).timestamp
         /\ ExecutionOf(r).timestamp <= JudgedAt(r) + MaxDrift
  <1>1. IsDated(r)
    BY DEF NonceInv, Dated
  <1>2. requests[r].shift \in Int /\ requests[r].time \in Nat
    BY DEF NonceInv, TypeOK
  <1> QED BY <1>1, <1>2 DEF IsDated, IsPermitted, Verified, validateBudgetGate,
             verifyTimestampWindow, IntentOf, CartOf, ExecutionOf

\* No clock the caller may send moves an expiry by more than MinDrift
\* (clockOverrideGuard, budgetGate and _verifyInventoryLockActive).
THEOREM ExpirySafety == Spec => []ExpiryBinds
  <1>1. NonceInv => ExpiryBinds
    <2> SUFFICES ASSUME NonceInv, NEW r \in Requests, IsAdmitted(r)
                 PROVE  /\ requests[r].time <= IntentOf(r).validUntil + MinDrift
                        /\ requests[r].time <= CartOf(r).lockExpiresAt + MinDrift
                        /\ requests[r].time <= ExecutionOf(r).timestamp + 2 * MinDrift
      BY DEF ExpiryBinds
    <2>1. IsPresented(r)
      BY DEF IsAdmitted, IsPresented
    <2>2. IntentOf(r).validUntil \in Nat
      BY BundleFacts
    <2> QED BY <2>1, <2>2, PresentedAreBounded, BundleFacts, ClockAssumption DEF JudgedAt
  <1> QED BY <1>1, NonceInvariant, PTL

LEMMA WindowsLeaveMargin ==
  ASSUME NonceInv, NEW p \in Requests, NEW q \in Requests, IsPresented(p), IsPresented(q),
         ExecutionOf(p) = ExecutionOf(q), requests[p].time + NonceTtl <= requests[q].time
  PROVE  requests[p].shift >= NonceTtl - MaxDrift - 2 * MinDrift
  <1> DEFINE stamp == ExecutionOf(p).timestamp
  <1>1. stamp \in Nat /\ MinDrift \in Nat /\ MaxDrift \in Nat /\ NonceTtl \in Nat
    BY BundleFacts, ClockAssumption
  <1>2. /\ requests[p].shift \in Int /\ requests[p].time \in Nat
        /\ stamp <= requests[p].time + requests[p].shift + MaxDrift
    BY PresentedAreBounded DEF JudgedAt
  <1>3. /\ requests[q].shift \in Int /\ requests[q].time \in Nat
        /\ -MinDrift <= requests[q].shift
        /\ requests[q].time + requests[q].shift - MinDrift <= ExecutionOf(q).timestamp
    BY <1>1, PresentedAreBounded DEF JudgedAt
  <1>4. ExecutionOf(q).timestamp = stamp
    OBVIOUS
  <1> HIDE DEF stamp
  <1> QED BY <1>1, <1>2, <1>3, <1>4

\* A nonce's life time covers every moment its mandate passes the window, unless
\* the first clock was ahead by the margin (nonceLedger: 120 s against 60 + 5 s).
THEOREM NonceLifetime == Spec => []NonceOutlivesMandate
  <1>1. NonceInv => NonceOutlivesMandate
    <2> SUFFICES ASSUME NonceInv, NEW p \in Requests, NEW q \in Requests, p # q,
                        IsPresented(p), IsPresented(q), ExecutionOf(p) = ExecutionOf(q),
                        requests[p].time <= requests[q].time
                 PROVE  requests[p].shift >= NonceTtl - MaxDrift - 2 * MinDrift
      BY DEF NonceOutlivesMandate
    <2>1. AreApart(p, q)
      BY DEF NonceInv, Apart
    <2>2. requests[p].time \in Nat /\ requests[q].time \in Nat
      BY DEF NonceInv, TypeOK
    <2>3. requests[p].time + NonceTtl <= requests[q].time
      BY <2>1, <2>2, ClockAssumption DEF AreApart
    <2> QED BY <2>3, WindowsLeaveMargin
  <1> QED BY <1>1, NonceInvariant, PTL
-----------------------------------------------------------------------------
(* Spend counters *)

IsFor(r, i) == IntentOf(r) = i

\* A step that leaves a mandate's counter and requests alone keeps its account.
LEMMA OtherMandateKept ==
  ASSUME TypeOK, NEW i \in Intents, IsKept(i), now' = now, spend'[i] = spend[i],
         \A p \in Requests : IsFor(p, i) => requests'[p] = requests[p]
  PROVE  IsKept(i)'
  <1>1. Booked(i)' = Booked(i) /\ BookedEarly(i)' = BookedEarly(i)
    BY DEF Booked, BookedEarly, IsBooked, IsFor
  <1>2. NoneAhead(i)' <=> NoneAhead(i)
    BY DEF NoneAhead, IsPresented, IsFor
  <1>3. Value(i)' = Value(i)
    BY DEF Value
  <1> QED BY <1>1, <1>2, <1>3 DEF IsKept, IsCounted

\* Time passes: a counter that outlives the mandate still counts.
LEMMA TickKeeps ==
  ASSUME TypeOK, NEW i \in Intents, IsKept(i), Tick
  PROVE  IsKept(i)'
  <1>1. /\ Booked(i)' = Booked(i) /\ BookedEarly(i)' = BookedEarly(i)
        /\ NoneAhead(i)' <=> NoneAhead(i)
    BY DEF Tick, Booked, BookedEarly, IsBooked, NoneAhead, IsPresented
  <1>2. ASSUME now' < i.validUntil, NoneAhead(i) PROVE IsCounted(i)'
    <2>1. /\ now \in Nat /\ now' = now + 1 /\ spend' = spend
          /\ spend[i].until \in Nat /\ i.validUntil \in Nat
      BY BundleFacts DEF Tick, TypeOK
    <2>2. IsCounted(i)
      BY <1>2, <2>1 DEF IsKept
    <2>3. Value(i)' = Value(i)
      BY <1>2, <2>1, <2>2 DEF IsCounted, Value
    <2> QED BY <1>1, <2>1, <2>2, <2>3 DEF IsCounted
  <1> QED BY <1>1, <1>2 DEF IsKept

LEMMA BookedFacts ==
  ASSUME TypeOK, NEW i \in Intents
  PROVE  /\ Booked(i) \in SUBSET Requests /\ BookedEarly(i) \in SUBSET Booked(i)
         /\ Total[Booked(i)] \in Nat /\ Total[BookedEarly(i)] \in Nat
  <1>1. Booked(i) \in SUBSET Requests /\ BookedEarly(i) \in SUBSET Requests
    BY DEF Booked, BookedEarly
  <1>2. BookedEarly(i) \in SUBSET Booked(i)
    BY DEF Booked, BookedEarly
  <1> QED BY <1>1, <1>2, TotalAssumption

\* A reservation by a clock that is not ahead keeps the account.
LEMMA ReservationKeeps ==
  ASSUME NonceInv, NEW r \in Requests, NEW shift \in Shifts, ExecuteSettlement(r, shift),
         IsKept(IntentOf(r))
  PROVE  IsKept(IntentOf(r))'
  <1> DEFINE i == IntentOf(r)
  <1> SUFFICES ASSUME NoneAhead(i)'
               PROVE  /\ now' < i.validUntil => IsCounted(i)'
                      /\ Total[BookedEarly(i)'] <= i.maxBudget
    BY DEF IsKept
  <1>1. PICK end \in {"cartTaken", "overBudget", "admitted"} : Reserved(r, shift, end)
    BY ReservationShape
  <1>2. /\ TypeOK /\ now \in Nat /\ now' = now /\ shift \in Int /\ i \in Intents
        /\ requests[r].at = "idle"
        /\ requests'[r] = [at |-> end, time |-> now, shift |-> shift]
        /\ \A p \in Requests \ {r} : requests'[p] = requests[p]
    BY <1>1, BundleFacts, ClockAssumption
       DEF NonceInv, TypeOK, Reserved, ExecuteSettlement
  <1>3. shift <= 0 /\ NoneAhead(i)
    <2>1. IsPresented(r)' /\ requests'[r].shift = shift
      BY <1>2 DEF IsPresented
    <2>2. ASSUME NEW p \in Requests, IntentOf(p) = i, IsPresented(p)
          PROVE  requests[p].shift <= 0
      <3>1. requests'[p] = requests[p]
        BY <1>2, <2>2 DEF IsPresented
      <3> QED BY <2>2, <3>1 DEF NoneAhead, IsPresented
    <2> QED BY <2>1, <2>2 DEF NoneAhead
  <1>4. CASE end # "admitted"
    <2>1. Booked(i)' = Booked(i) /\ BookedEarly(i)' = BookedEarly(i)
      BY <1>2, <1>4 DEF Booked, BookedEarly, IsBooked
    <2>2. Total[BookedEarly(i)'] <= i.maxBudget
      BY <1>3, <2>1 DEF IsKept
    <2>3. ASSUME now' < i.validUntil PROVE IsCounted(i)'
      <3>1. IsCounted(i)
        BY <1>2, <1>3, <2>3 DEF IsKept
      <3>2. CASE UNCHANGED spend
        BY <1>2, <2>1, <3>1, <3>2 DEF IsCounted, Value
      <3>3. CASE RecordCumulativeSpend(r, shift)
        <4>1. PICK u \in Nat : u = now + SpendTtl(i, now + shift) /\ now < u /\ i.validUntil <= u
          BY <1>2, <1>3, TtlPositive, BundleFacts
        <4>2. PICK v \in Int : v = Value(i)
          BY <1>2 DEF Value, TypeOK
        <4>3. spend' = [spend EXCEPT ![i] = [paise |-> v, until |-> u]]
          BY <1>2, <1>4, <3>3, <4>1, <4>2 DEF RecordCumulativeSpend, TypeOK
        <4>4. spend'[i] = [paise |-> v, until |-> u]
          BY <1>2, <4>3 DEF TypeOK
        <4>5. Value(i)' = v
          BY <1>2, <4>1, <4>4 DEF Value
        <4> QED BY <2>1, <3>1, <4>1, <4>2, <4>4, <4>5 DEF IsCounted
      <3> QED BY <3>2, <3>3 DEF ExecuteSettlement, ClaimSettlementSlot
    <2> QED BY <2>2, <2>3
  <1>5. CASE end = "admitted"
    <2>1. /\ r \notin Booked(i) /\ Booked(i)' = Booked(i) \cup {r}
          /\ BookedEarly(i)' \in SUBSET (Booked(i)')
      BY <1>2, <1>5 DEF Booked, BookedEarly, IsBooked
    <2>2. Total[Booked(i)'] = Total[Booked(i)] + AmountOf(r)
      BY <1>2, <2>1, BookedFacts, TotalAdd
    <2>3. ASSUME now < i.validUntil
          PROVE  IsCounted(i)' /\ Total[BookedEarly(i)'] <= i.maxBudget
      <3>1. IsCounted(i)
        BY <1>3, <2>3 DEF IsKept
      <3>2. PICK u \in Nat : u = now + SpendTtl(i, now + shift) /\ now < u /\ i.validUntil <= u
        BY <1>2, <1>3, TtlPositive, BundleFacts
      <3>3. PICK v \in Int : v = Value(i) + AmountOf(r)
        BY <1>2, BundleFacts DEF Value, TypeOK
      <3>4. v <= i.maxBudget /\ spend' = [spend EXCEPT ![i] = [paise |-> v, until |-> u]]
        BY <1>2, <1>5, <3>2, <3>3
           DEF ExecuteSettlement, ClaimSettlementSlot, RecordCumulativeSpend, TypeOK
      <3>5. spend'[i] = [paise |-> v, until |-> u]
        BY <1>2, <3>4 DEF TypeOK
      <3>6. Value(i)' = v /\ v = Total[Booked(i)']
        BY <1>2, <2>2, <3>1, <3>2, <3>3, <3>5 DEF Value, IsCounted
      <3>7. Total[BookedEarly(i)'] <= Total[Booked(i)']
        <4>1. PICK T \in SUBSET Requests : T = Booked(i)'
          BY <2>1 DEF Booked
        <4> QED BY <2>1, <4>1, TotalMonotone
      <3>8. Total[BookedEarly(i)'] \in Nat /\ i.maxBudget \in Nat
        BY <1>2, BundleFacts, TotalAssumption DEF BookedEarly
      <3> QED BY <3>2, <3>4, <3>5, <3>6, <3>7, <3>8 DEF IsCounted
    <2>4. ASSUME ~(now < i.validUntil)
          PROVE  Total[BookedEarly(i)'] <= i.maxBudget
      <3>1. BookedEarly(i)' = BookedEarly(i)
        BY <1>2, <2>4 DEF BookedEarly, IsBooked
      <3> QED BY <1>3, <3>1 DEF IsKept
    <2> QED BY <1>2, <2>3, <2>4
  <1> QED BY <1>4, <1>5

\* The end of a settlement keeps the account: only an undo takes from it.
LEMMA ConclusionKeeps ==
  ASSUME NonceInv, NEW r \in Requests,
         FailCapture(r) \/ RollBackSplit(r) \/ CompleteSplit(r),
         IsKept(IntentOf(r))
  PROVE  IsKept(IntentOf(r))'
  <1> DEFINE i == IntentOf(r)
  <1> SUFFICES ASSUME NoneAhead(i)'
               PROVE  /\ now' < i.validUntil => IsCounted(i)'
                      /\ Total[BookedEarly(i)'] <= i.maxBudget
    BY DEF IsKept
  <1>1. PICK end \in {"failed", "rolledBack", "settled"} : Concluded(r, end)
    BY EndShape
  <1>2. /\ TypeOK /\ now \in Nat /\ now' = now /\ i \in Intents
        /\ requests[r].at = "admitted" /\ requests'[r].at = end
        /\ requests'[r].time = requests[r].time /\ requests'[r].shift = requests[r].shift
        /\ \A p \in Requests \ {r} : requests'[p] = requests[p]
    BY <1>1, BundleFacts DEF NonceInv, TypeOK, Concluded
  <1>3. NoneAhead(i)
    BY <1>2 DEF NoneAhead, IsPresented
  <1>4. CASE CompleteSplit(r)
    <2>1. end = "settled"
      BY <1>2, <1>4 DEF CompleteSplit, Conclude, NonceInv, TypeOK
    <2>2. Booked(i)' = Booked(i) /\ BookedEarly(i)' = BookedEarly(i)
      BY <1>2, <2>1 DEF Booked, BookedEarly, IsBooked
    <2>3. spend' = spend
      BY <1>4 DEF CompleteSplit
    <2> QED BY <1>2, <1>3, <2>2, <2>3 DEF IsKept, IsCounted, Value
  <1>5. CASE FailCapture(r) \/ RollBackSplit(r)
    <2>1. end # "settled" /\ RollbackSpend(r)
      BY <1>2, <1>5 DEF FailCapture, RollBackSplit, Conclude, NonceInv, TypeOK
    <2>2. /\ r \in Booked(i) /\ Booked(i)' = Booked(i) \ {r}
          /\ BookedEarly(i)' \in SUBSET BookedEarly(i)
      BY <1>2, <2>1 DEF Booked, BookedEarly, IsBooked
    <2>3. Total[BookedEarly(i)'] <= i.maxBudget
      <3>1. PICK S \in SUBSET Requests : S = BookedEarly(i)
        BY DEF BookedEarly
      <3>2. Total[BookedEarly(i)'] <= Total[BookedEarly(i)]
        BY <2>2, <3>1, TotalMonotone
      <3>3. Total[BookedEarly(i)'] \in Nat /\ Total[BookedEarly(i)] \in Nat /\ i.maxBudget \in Nat
        BY <1>2, <2>2, <3>1, BundleFacts, TotalAssumption
      <3> QED BY <1>3, <3>2, <3>3 DEF IsKept
    <2>4. ASSUME now' < i.validUntil PROVE IsCounted(i)'
      <3>1. IsCounted(i)
        BY <1>2, <1>3, <2>4 DEF IsKept
      <3>2. PICK u \in Nat : u = spend[i].until
        BY <1>2 DEF TypeOK
      <3>3. i.validUntil <= u /\ now < u
        BY <1>2, <2>2, <2>4, <3>1, <3>2, BundleFacts DEF IsCounted
      <3>4. PICK v \in Int : v = Value(i) - AmountOf(r)
        BY <1>2, BundleFacts DEF Value, TypeOK
      <3>5. spend' = [spend EXCEPT ![i] = [paise |-> v, until |-> u]]
        BY <2>1, <3>2, <3>3, <3>4 DEF RollbackSpend
      <3>6. spend'[i] = [paise |-> v, until |-> u]
        BY <1>2, <3>5 DEF TypeOK
      <3>7. Total[Booked(i)'] = Total[Booked(i)] - AmountOf(r)
        <4>1. PICK S \in SUBSET Requests : S = Booked(i)
          BY DEF Booked
        <4> QED BY <2>2, <4>1, TotalRemove
      <3> QED BY <1>2, <3>1, <3>3, <3>4, <3>6, <3>7 DEF IsCounted, Value
    <2> QED BY <2>3, <2>4
  <1> QED BY <1>4, <1>5

LEMMA SpendPreserved ==
  ASSUME NonceInv, SpendInv, Next
  PROVE  SpendInv'
  <1> SUFFICES ASSUME NEW i \in Intents, IsKept(i)
               PROVE  IsKept(i)'
    BY DEF SpendInv
  <1>1. TypeOK
    BY DEF NonceInv
  <1>2. CASE Tick
    BY <1>1, <1>2, TickKeeps
  <1>3. ASSUME NEW r \in Requests, Settle(r), IntentOf(r) = i
        PROVE  IsKept(i)'
    BY <1>3, ReservationKeeps, ConclusionKeeps DEF Settle
  <1>4. ASSUME NEW r \in Requests, Settle(r), IntentOf(r) # i
        PROVE  IsKept(i)'
    <2>1. now' = now /\ spend'[i] = spend[i]
      BY <1>1, <1>4 DEF Settle, ExecuteSettlement, ClaimSettlementSlot, RecordCumulativeSpend,
         FailCapture, RollBackSplit, CompleteSplit, Conclude, RollbackSpend, TypeOK
    <2>2. \A p \in Requests \ {r} : requests'[p] = requests[p]
      <3>1. CASE \E shift \in Shifts : ExecuteSettlement(r, shift)
        BY <3>1, NewIsDated
      <3>2. CASE FailCapture(r) \/ RollBackSplit(r) \/ CompleteSplit(r)
        BY <1>1, <3>2, EndShape DEF Concluded, TypeOK
      <3> QED BY <1>4, <3>1, <3>2 DEF Settle
    <2> QED BY <1>1, <1>4, <2>1, <2>2, OtherMandateKept DEF IsFor
  <1> QED BY <1>2, <1>3, <1>4 DEF Next

\* What is booked on a mandate before it ends never exceeds its budget, as long
\* as no caller's clock is ahead (settlementLedger._applySpendExpiry).
THEOREM BudgetLifetime == Spec => []BudgetHeldUntilExpiry
  <1>1. Init => SpendInv
    <2> SUFFICES ASSUME Init, NEW i \in Intents PROVE IsKept(i)
      BY DEF SpendInv
    <2>1. Booked(i) = {} /\ BookedEarly(i) = {}
      BY DEF Init, Unasked, Booked, BookedEarly, IsBooked
    <2>2. Value(i) = 0 /\ spend[i].until = 0
      BY DEF Init, Value
    <2> QED BY <2>1, <2>2, TotalEmpty, BundleFacts DEF IsKept, IsCounted
  <1>2. NonceInv /\ SpendInv /\ [Next]_vars => SpendInv'
    <2>1. ASSUME SpendInv, UNCHANGED vars PROVE SpendInv'
      BY <2>1 DEF vars, SpendInv, IsKept, IsCounted, Value, Booked, BookedEarly, IsBooked,
         NoneAhead, IsPresented
    <2> QED BY <2>1, SpendPreserved
  <1>3. SpendInv => BudgetHeldUntilExpiry
    BY DEF SpendInv, IsKept, BudgetHeldUntilExpiry
  <1> QED BY <1>1, <1>2, <1>3, NonceInvariant, PTL DEF Spec
-----------------------------------------------------------------------------
(* The documents *)

\* The SDK's bundle passes the engine's verification at every time that neither
\* the mandate nor the lock has seen, when each document is signed by the party
\* it names, the agent is the delegate and the categories, uncategorized lines
\* included, are allowed (agentMandateBuilder against twoPhaseCommitSaga).
THEOREM SdkBundleSettles ==
  ASSUME NEW user, NEW agent, NEW merchant, NEW nonce, NEW categories, NEW lines,
         NEW maxBudget \in Nat, NEW singleLimit \in Nat, NEW validUntil \in Nat,
         NEW total \in Nat, NEW lock \in Nat, NEW timestamp \in Nat, NEW t \in Nat,
         NEW intent, intent = createSignedIntentMandate(user, agent, maxBudget, singleLimit,
                                                        categories, validUntil),
         NEW cart, cart = createSignedCartMandate(merchant, lines, total, lock),
         NEW b, b = [intent |-> intent, cart |-> cart,
                     execution |-> createSignedExecutionMandate(agent, intent, cart, total,
                                                                nonce, timestamp)],
         SdkVerifiesChain(b), t <= validUntil, t <= lock,
         categories = {} \/ {withSignedCategory(c) : c \in lines} \subseteq categories
  PROVE  Verified(b, t)
  <1>1. /\ b.intent.body = [user |-> user, agent |-> agent, maxBudget |-> maxBudget,
                            singleLimit |-> singleLimit, categories |-> categories,
                            validUntil |-> validUntil]
        /\ b.intent.signature = Sign(user, b.intent.body)
    BY DEF createSignedIntentMandate, Signed
  <1>2. /\ b.cart.body = [merchant |-> merchant,
                          categories |-> {withSignedCategory(c) : c \in lines},
                          total |-> total, lockExpiresAt |-> lock]
        /\ b.cart.signature = Sign(merchant, b.cart.body)
    BY DEF createSignedCartMandate, Signed
  <1>3. /\ b.execution.body = [agent |-> agent, intentHash |-> b.intent.body,
                               cartHash |-> b.cart.body, amount |-> total,
                               nonce |-> nonce, timestamp |-> timestamp]
        /\ b.execution.signature = Sign(agent, b.execution.body)
    BY DEF createSignedExecutionMandate, buildUnsignedExecutionPayload, computeMandateHash, Signed
  <1>4. verifyMandateSignatures(b)
    BY <1>1, <1>2, <1>3 DEF verifyMandateSignatures, VerifiedBy
  <1>5. verifyMandateChain(b)
    BY <1>3 DEF verifyMandateChain, computeMandateHash
  <1>6. validateBudgetGate(b, t)
    BY <1>1, <1>2, <1>3 DEF validateBudgetGate, verifyDelegatedAgent,
       verifyCategoryAuthorization, SdkVerifiesChain
  <1>7. t <= b.cart.body.lockExpiresAt
    BY <1>2
  <1> QED BY <1>4, <1>5, <1>6, <1>7 DEF Verified

\* Neither SDK refuses a bundle the engine would settle: all the Python SDK
\* checks, and the TypeScript SDK for executions dated before the settlement, is
\* among what the engine verifies (buyerSdkPy and buyerSdkTs agentMandateBuilder).
THEOREM PreflightSound ==
  ASSUME NEW b, NEW t \in Nat, Verified(b, t),
         IsIntent(b.intent.body), IsCart(b.cart.body), IsExecution(b.execution.body)
  PROVE  /\ SdkValidatesInvariants(b, t)
         /\ b.execution.body.timestamp <= t => SdkVerifiesChain(b)
  BY DEF Verified, verifyMandateChain, validateBudgetGate, SdkValidatesInvariants,
         SdkVerifiesChain, IsIntent, IsCart, IsExecution, IsPaise, computeMandateHash
=============================================================================
