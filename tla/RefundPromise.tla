---------------------------- MODULE RefundPromise ----------------------------
(***************************************************************************)
(* What the rollback of split transfers promises, with no queue, no worker *)
(* and no provider in sight: a transfer is repaid at most once, recorded   *)
(* as repaid only when it is, and left by a saga only when it is repaid or *)
(* somebody has taken charge of it, who is released by the repayment only. *)
(* Where stores or processes may fail, a charge may be lost.               *)
(***************************************************************************)
EXTENDS Integers

CONSTANTS Sagas, LegCount, Unreliable

VARIABLES
  turn,      \* the transfer each saga rolls back, counting down to 0
  repaid,    \* how often the money of a transfer has come back
  charged,   \* transfers somebody is in charge of
  recorded   \* transfers recorded as repaid

promiseVars == <<turn, repaid, charged, recorded>>

Transfers == 1..LegCount
Repaid == {t \in Transfers : repaid[t] > 0}

Init ==
  /\ turn = [s \in Sagas |-> LegCount]
  /\ repaid = [t \in Transfers |-> 0]
  /\ charged = {} /\ recorded = {}

Repay(t) ==
  /\ t \notin Repaid
  /\ repaid' = [repaid EXCEPT ![t] = 1]
  /\ UNCHANGED <<turn, charged, recorded>>

Record(t) ==
  /\ t \in Repaid
  /\ recorded' = recorded \cup {t}
  /\ UNCHANGED <<turn, repaid, charged>>

TakeCharge(s) ==
  /\ turn[s] > 0
  /\ charged' = charged \cup {turn[s]}
  /\ UNCHANGED <<turn, repaid, recorded>>

\* A transfer is recorded in passing only when it is repaid.
RecordedAlong(t) ==
  recorded' = recorded \/ (t \in Repaid /\ recorded' = recorded \cup {t})

Pass(s) ==
  /\ turn[s] > 0
  /\ turn' = [turn EXCEPT ![s] = @ - 1]
  /\ \/ turn[s] \in Repaid \cup charged /\ charged' = charged
     \/ Unreliable /\ charged' \in {charged, charged \ {turn[s]}}
  /\ RecordedAlong(turn[s])
  /\ UNCHANGED repaid

Release(t) ==
  /\ t \in Repaid \/ Unreliable
  /\ charged' = charged \ {t}
  /\ RecordedAlong(t)
  /\ UNCHANGED <<turn, repaid>>

Next ==
  \/ \E t \in Transfers : Repay(t) \/ Record(t) \/ Release(t)
  \/ \E s \in Sagas : TakeCharge(s) \/ Pass(s)

Spec == Init /\ [][Next]_promiseVars
-----------------------------------------------------------------------------
(* What the promise is worth *)

\* No transfer is repaid twice, and none is recorded before it is repaid.
RepaidOnceAndRecordedAfter ==
  recorded \subseteq Repaid /\ \A t \in Transfers : repaid[t] <= 1

\* What a saga has left behind is repaid or in somebody's charge, unless stores or
\* processes may fail.
NothingLeftBehind ==
  Unreliable \/ \A s \in Sagas, t \in Transfers :
                  turn[s] < t => t \in Repaid \cup charged
=============================================================================
