----------------------- MODULE ValidatorMempoolProofs -----------------------
(***************************************************************************)
(* Proofs about ValidatorMempool, for every set of transactions.           *)
(***************************************************************************)
EXTENDS ValidatorMempool, MempoolLemmas

-----------------------------------------------------------------------------
(* Type correctness *)

LEMMA TypeInit == Init => TypeOK
<1> SUFFICES ASSUME Init PROVE TypeOK
  OBVIOUS
<1> QED BY NewMempoolType, EmptySeq DEF Init, TypeOK

LEMMA TypeNext == TypeOK /\ [Next]_vars => TypeOK'
<1> SUFFICES ASSUME TypeOK, [Next]_vars PROVE TypeOK'
  OBVIOUS
<1> USE DEF TypeOK
<1>0. pending \in Pools /\ ready \in Pools
  BY DEF Mempools, pending, ready
<1>1. ASSUME NEW tx \in Tx, CheckTx(tx) PROVE TypeOK'
  <2>1. Append(arrived, tx) \in Seq(Tx)
    BY AppendProperties
  <2> QED BY <1>1, <2>1, MempoolTypes DEF CheckTx, handlerVars
<1>2. ASSUME NEW tx \in Tx, FinalizeTx(tx) PROVE TypeOK'
  <2>1. removed' \in [Tx -> Nat]
    BY <1>2 DEF FinalizeTx
  <2> QED BY <1>2, <2>1, MempoolTypes DEF FinalizeTx, handlerVars
<1>3. CASE ExtendVote
  BY <1>3, EmptySeq DEF ExtendVote, history, SelectPending
<1>4. CASE ExtendStep
  <2> DEFINE tx == Current(pending)
             up == Update(mp, tx)
  <2>1. tx \in Tx
    BY <1>0, <1>4, CurrentProperties DEF ExtendStep
  <2>2. bids \o BidsOf(tx) \in Seq(Bid)
    BY <2>1, BidsOfTx, ConcatProperties
  <2>3. up \in Mempools
    BY <2>1, MempoolTypes
  <2>4. [up EXCEPT !.pendingPool = Advance(@)] \in Mempools
    BY <2>3, AdvanceProperties DEF Mempools
  <2> QED BY <1>4, <2>2, <2>4 DEF ExtendStep, history
<1>5. CASE ExtendPanic
  BY <1>5 DEF ExtendPanic, history
<1>6. CASE ExtendReturn
  <2>1. ToSet(bids) \subseteq Bid
    BY ElementOfSeq, LenProperties DEF ToSet
  <2> QED BY <1>6, <2>1, EmptySeq DEF ExtendReturn
<1>7. CASE PrepareProposal
  BY <1>7, EmptySeq DEF PrepareProposal, history, Select
<1>8. CASE PrepareStep
  <2>1. Append(txs, Current(ready)) \in Seq(Tx)
    BY <1>0, <1>8, CurrentProperties, AppendProperties DEF PrepareStep
  <2>2. [mp EXCEPT !.pool = Advance(@)] \in Mempools
    BY AdvanceProperties DEF Mempools
  <2> QED BY <1>8, <2>1, <2>2 DEF PrepareStep, history
<1>9. CASE PreparePanic
  BY <1>9, EmptySeq DEF PreparePanic, history
<1>10. CASE PrepareReturn
  BY <1>10, EmptySeq DEF PrepareReturn, history
<1>11. CASE Restart
  BY <1>11, NewMempoolType, EmptySeq DEF Restart
<1>12. CASE UNCHANGED vars
  BY <1>12 DEF vars
<1> QED
  BY <1>1, <1>2, <1>3, <1>4, <1>5, <1>6, <1>7, <1>8, <1>9, <1>10, <1>11, <1>12 DEF Next

\* The state of a validator's mempool and handlers keeps its type.
THEOREM Typing == Spec => []TypeOK
BY TypeInit, TypeNext, PTL DEF Spec

-----------------------------------------------------------------------------
(* The cursor of the pending pool *)

(***************************************************************************)
(* One iteration of ExtendVote removes position k, at or before the        *)
(* cursor, from the pending pool, appends the transaction under the cursor *)
(* to the ready pool, and moves the cursor unless the shorter list ends    *)
(* there.                                                                  *)
(***************************************************************************)
LEMMA ExtendStepEffect ==
    ASSUME TypeOK, ExtendStep
    PROVE  /\ Current(pending) \in Tx
           /\ pending.idx + 1 \in 1..Len(pending.txs)
           /\ Current(pending) = pending.txs[pending.idx + 1]
           /\ ready' = With(ready, Current(pending))
           /\ \E k \in 1..pending.idx + 1 :
                 /\ Equal(pending.txs[k], Current(pending))
                 /\ pending'.txs = RemoveAt(pending.txs, k)
           /\ Len(pending'.txs) = Len(pending.txs) - 1
           /\ itr' <=> ~(Len(pending.txs) = 1 \/ Len(pending.txs) = pending.idx + 2)
           /\ pending'.idx = IF itr' THEN pending.idx + 1 ELSE pending.idx
           /\ bids' = bids \o BidsOf(Current(pending))
<1> DEFINE n  == Len(pending.txs)
           tx == Current(pending)
           up == Update(mp, tx)
<1>1. pending \in Pools /\ ready \in Pools /\ n \in Nat /\ pending.idx \in Nat
      /\ pending.txs \in Seq(Tx)
  BY LenProperties DEF TypeOK, Mempools, Pools, pending, ready
<1>2. /\ tx \in Tx /\ tx = pending.txs[pending.idx + 1]
      /\ pending.idx + 1 \in 1..n
  BY <1>1, CurrentProperties DEF ExtendStep
<1>3. Equal(pending.txs[pending.idx + 1], tx)
  BY <1>2 DEF Equal
<1>4. Holds(pending, tx)
  BY <1>2, <1>3 DEF Holds
<1>5. PICK k \in 1..n :
          /\ Equal(pending.txs[k], tx)
          /\ \A j \in 1..k - 1 : ~Equal(pending.txs[j], tx)
          /\ Without(pending, tx) = [idx |-> pending.idx, txs |-> RemoveAt(pending.txs, k)]
  BY <1>1, <1>4, WithoutHeld
<1>6. k \in 1..pending.idx + 1
  <2>1. CASE k > pending.idx + 1
    <3>1. pending.idx + 1 \in 1..k - 1
      BY <2>1, <1>1
    <3> QED BY <3>1, <1>3, <1>5
  <2> QED BY <2>1, <1>1
<1>7. /\ up.pendingPool = [idx |-> pending.idx, txs |-> RemoveAt(pending.txs, k)]
      /\ up.pool = With(ready, tx)
      /\ up = [pendingPool |-> up.pendingPool, pool |-> up.pool]
  BY <1>4, <1>5 DEF Update, pending, ready
<1>8. /\ RemoveAt(pending.txs, k) \in Seq(Tx)
      /\ Len(RemoveAt(pending.txs, k)) = n - 1
  BY <1>1, RemoveAtProperties
<1> HIDE DEF RemoveAt
<1> HIDE DEF up, n
<1>9. /\ up.pendingPool \in Pools
      /\ up.pendingPool.idx = pending.idx
      /\ up.pendingPool.txs = RemoveAt(pending.txs, k)
      /\ Len(up.pendingPool.txs) = n - 1
  BY <1>1, <1>7, <1>8 DEF Pools
<1>10. Exhausted(up.pendingPool) <=> (n - 1 = 0 \/ n - 1 = pending.idx + 1)
  BY <1>9 DEF Exhausted
<1>11. mp' = [up EXCEPT !.pendingPool = Advance(@)] /\ itr' = ~Exhausted(up.pendingPool)
       /\ bids' = bids \o BidsOf(tx) /\ pc' = pc
  BY DEF ExtendStep, up
<1>12. pending' = Advance(up.pendingPool) /\ ready' = up.pool
  BY <1>7, <1>11 DEF pending, ready
<1>13. /\ pending'.txs = RemoveAt(pending.txs, k)
       /\ pending'.idx = IF itr' THEN pending.idx + 1 ELSE pending.idx
  BY <1>9, <1>11, <1>12, AdvanceProperties
<1>14. itr' <=> ~(n = 1 \/ n = pending.idx + 2)
  <2>1. n \in Nat /\ pending.idx \in Nat
    BY <1>1 DEF n
  <2>2. (n - 1 = 0 \/ n - 1 = pending.idx + 1) <=> (n = 1 \/ n = pending.idx + 2)
    BY <2>1
  <2> QED BY <2>2, <1>10, <1>11, Zenon
<1>15. Len(pending'.txs) = n - 1
  BY <1>8, <1>13
<1>16. \E l \in 1..pending.idx + 1 :
          /\ Equal(pending.txs[l], tx)
          /\ pending'.txs = RemoveAt(pending.txs, l)
  BY <1>5, <1>6, <1>13
<1> QED
  BY <1>2, <1>7, <1>11, <1>12, <1>13, <1>14, <1>15, <1>16 DEF n

LEMMA CursorNext ==
    TypeOK /\ PendingCursorValid /\ [Next]_vars => PendingCursorValid'
<1> SUFFICES ASSUME TypeOK, PendingCursorValid, [Next]_vars
             PROVE  PendingCursorValid'
  OBVIOUS
<1>0. /\ pending \in Pools /\ pending.idx \in Nat /\ pending.txs \in Seq(Tx)
      /\ Len(pending.txs) \in Nat
  BY LenProperties DEF TypeOK, Mempools, Pools, pending
<1>1. ASSUME NEW tx \in Tx, CheckTx(tx) PROVE PendingCursorValid'
  <2>1. /\ pending'.idx = pending.idx
        /\ Len(pending'.txs) = Len(pending.txs) + 1
    <3>1. pending' = With(pending, tx)
      BY <1>1 DEF CheckTx, Insert, pending, TypeOK, Mempools
    <3> QED BY <3>1, <1>0, WithProperties
  <2> QED BY <1>0, <1>1, <2>1 DEF CheckTx, handlerVars, PendingCursorValid
<1>2. ASSUME NEW tx \in Tx, FinalizeTx(tx) PROVE PendingCursorValid'
  <2>1. pending' = pending
    BY <1>2 DEF FinalizeTx, RemoveTx, pending, TypeOK, Mempools
  <2> QED BY <1>2, <2>1 DEF FinalizeTx, handlerVars, PendingCursorValid
<1>3. CASE ExtendVote
  BY <1>3 DEF ExtendVote, PendingCursorValid, pending
<1>4. CASE ExtendStep
  <2>1. CASE itr'
    BY <1>4, <2>1 DEF ExtendStep, PendingCursorValid
  <2>2. CASE ~itr'
    <3>1. /\ pending'.idx = pending.idx
          /\ Len(pending'.txs) = Len(pending.txs) - 1
          /\ pending.idx + 1 \in 1..Len(pending.txs)
          /\ Len(pending.txs) = 1 \/ Len(pending.txs) = pending.idx + 2
      BY <1>4, <2>2, ExtendStepEffect
    <3> DEFINE n == Len(pending.txs)
               i == pending.idx
    <3> HIDE DEF n, i
    <3>2. n \in Nat /\ i \in Nat /\ (n = 1 \/ n = i + 2) /\ i + 1 \in 1..n
      BY <1>0, <3>1 DEF n, i
    <3>3. i = 0 \/ i < n - 1
      BY <3>2
    <3>4. pending'.idx = 0 \/ pending'.idx < Len(pending'.txs)
      BY <3>1, <3>3 DEF n, i
    <3> QED BY <3>4 DEF PendingCursorValid
  <2> QED BY <2>1, <2>2
<1>5. CASE ExtendPanic
  BY <1>5 DEF ExtendPanic, PendingCursorValid
<1>6. CASE ExtendReturn
  BY <1>6 DEF ExtendReturn, PendingCursorValid, pending
<1>7. CASE PrepareProposal
  BY <1>7 DEF PrepareProposal, PendingCursorValid, pending
<1>8. CASE PrepareStep
  <2>1. pending' = pending
    BY <1>8 DEF PrepareStep, pending, TypeOK, Mempools
  <2> QED BY <1>8, <2>1 DEF PrepareStep, PendingCursorValid
<1>9. CASE PreparePanic
  BY <1>9 DEF PreparePanic, PendingCursorValid, pending
<1>10. CASE PrepareReturn
  BY <1>10 DEF PrepareReturn, PendingCursorValid, pending
<1>11. CASE Restart
  BY <1>11 DEF Restart, PendingCursorValid, pending, NewThresholdMempool, EmptyPool
<1>12. CASE UNCHANGED vars
  BY <1>12 DEF vars, PendingCursorValid, pending
<1> QED
  BY <1>1, <1>2, <1>3, <1>4, <1>5, <1>6, <1>7, <1>8, <1>9, <1>10, <1>11, <1>12 DEF Next

\* Every walk of the pending pool starts inside the list, however the walks
\* before it shortened the list under their cursor.
THEOREM CursorValid == Spec => []PendingCursorValid
<1>1. Init => PendingCursorValid
  BY DEF Init, PendingCursorValid, pending, NewThresholdMempool, EmptyPool
<1> QED BY <1>1, Typing, CursorNext, PTL DEF Spec

-----------------------------------------------------------------------------
(* Only reported bids are ready *)

LEMMA KeepReported ==
    ASSUME ReadyReported, pc # "down", ReportedSoFar \subseteq ReportedSoFar',
           \A i \in 1..Len(ready'.txs) :
               \/ \E j \in 1..Len(ready.txs) : ready'.txs[i] = ready.txs[j]
               \/ ToSet(BidsOf(ready'.txs[i])) \subseteq ReportedSoFar'
    PROVE  ReadyReported'
<1> SUFFICES ASSUME NEW i \in 1..Len(ready'.txs)
             PROVE  ToSet(BidsOf(ready'.txs[i])) \subseteq ReportedSoFar'
  BY DEF ReadyReported
<1> QED BY DEF ReadyReported

LEMMA ReportedNext ==
    TypeOK /\ ReadyReported /\ [Next]_vars => ReadyReported'
<1> SUFFICES ASSUME TypeOK, ReadyReported, [Next]_vars
             PROVE  ReadyReported'
  OBVIOUS
<1>0. /\ ready \in Pools /\ ready.txs \in Seq(Tx) /\ Len(ready.txs) \in Nat
  BY LenProperties DEF TypeOK, Mempools, Pools, ready
<1>1. ASSUME NEW tx \in Tx, CheckTx(tx) PROVE ReadyReported'
  <2>1. ready' = ready
    BY <1>1 DEF CheckTx, Insert, ready, TypeOK, Mempools
  <2> QED BY <1>1, <2>1 DEF CheckTx, handlerVars, ReadyReported, ReportedSoFar
<1>2. ASSUME NEW tx \in Tx, FinalizeTx(tx) PROVE ReadyReported'
  <2>1. ready' = Without(ready, tx)
    BY <1>2 DEF FinalizeTx, RemoveTx, ready, TypeOK, Mempools
  <2>2. \A i \in 1..Len(ready'.txs) : \E j \in 1..Len(ready.txs) :
            ready'.txs[i] = ready.txs[j]
    BY <1>0, <2>1, WithoutProperties
  <2>3. pc # "down" /\ ReportedSoFar' = ReportedSoFar
    BY <1>2 DEF FinalizeTx, handlerVars, ReportedSoFar
  <2> QED BY <2>2, <2>3, KeepReported
<1>3. CASE ExtendVote
  <2>1. pc # "down" /\ ReportedSoFar \subseteq ReportedSoFar' /\ ready' = ready
    BY <1>3 DEF ExtendVote, history, ReportedSoFar, ready
  <2> QED BY <2>1, KeepReported
<1>4. CASE ExtendStep
  <2> DEFINE tx == Current(pending)
             n  == Len(ready.txs)
  <2>1. /\ tx \in Tx /\ ready' = With(ready, tx)
        /\ bids' = bids \o BidsOf(tx)
        /\ pc = "extend" /\ pc' = "extend" /\ reported' = reported
    BY <1>4, ExtendStepEffect DEF ExtendStep, history
  <2>2. bids \in Seq(Bid) /\ BidsOf(tx) \in Seq(Bid)
    BY <2>1, BidsOfTx DEF TypeOK
  <2>3. ToSet(bids') = ToSet(bids) \cup ToSet(BidsOf(tx))
    BY <2>1, <2>2, ToSetConcat
  <2>4. ReportedSoFar' = ReportedSoFar \cup ToSet(BidsOf(tx))
    BY <2>1, <2>3 DEF ReportedSoFar
  <2>5. /\ Len(ready'.txs) = n + 1 /\ ready'.txs[n + 1] = tx
        /\ \A i \in 1..n : ready'.txs[i] = ready.txs[i]
    BY <1>0, <2>1, WithProperties
  <2>6. ASSUME NEW i \in 1..Len(ready'.txs)
        PROVE  \/ \E j \in 1..Len(ready.txs) : ready'.txs[i] = ready.txs[j]
               \/ ToSet(BidsOf(ready'.txs[i])) \subseteq ReportedSoFar'
    <3>1. i \in 1..n \/ i = n + 1
      BY <1>0, <2>5
    <3> QED BY <3>1, <2>4, <2>5
  <2> QED BY <2>1, <2>4, <2>6, KeepReported
<1>5. CASE ExtendPanic
  BY <1>5 DEF ExtendPanic, ReadyReported
<1>6. CASE ExtendReturn
  <2>1. pc # "down" /\ ReportedSoFar \subseteq ReportedSoFar' /\ ready' = ready
    BY <1>6 DEF ExtendReturn, ReportedSoFar, ready
  <2> QED BY <2>1, KeepReported
<1>7. CASE PrepareProposal
  <2>1. pc # "down" /\ ReportedSoFar \subseteq ReportedSoFar' /\ ready' = ready
    BY <1>7 DEF PrepareProposal, history, ReportedSoFar, ready
  <2> QED BY <2>1, KeepReported
<1>8. CASE PrepareStep
  <2>1. pc # "down" /\ ReportedSoFar \subseteq ReportedSoFar'
    BY <1>8 DEF PrepareStep, history, ReportedSoFar
  <2>2. ready' = Advance(ready)
    BY <1>8 DEF PrepareStep, ready, TypeOK, Mempools
  <2>3. ready'.txs = ready.txs
    BY <1>0, <2>2, AdvanceProperties
  <2> QED BY <2>1, <2>3, KeepReported
<1>9. CASE PreparePanic
  <2>1. pc # "down" /\ ReportedSoFar \subseteq ReportedSoFar' /\ ready' = ready
    BY <1>9 DEF PreparePanic, history, ReportedSoFar, ready
  <2> QED BY <2>1, KeepReported
<1>10. CASE PrepareReturn
  <2>1. pc # "down" /\ ReportedSoFar \subseteq ReportedSoFar' /\ ready' = ready
    BY <1>10 DEF PrepareReturn, history, ReportedSoFar, ready
  <2> QED BY <2>1, KeepReported
<1>11. CASE Restart
  <2>1. ready'.txs = <<>>
    BY <1>11 DEF Restart, ready, NewThresholdMempool, EmptyPool
  <2> QED BY <2>1, EmptySeq DEF ReadyReported
<1>12. CASE UNCHANGED vars
  BY <1>12 DEF vars, ReadyReported, ReportedSoFar, ready
<1> QED
  BY <1>1, <1>2, <1>3, <1>4, <1>5, <1>6, <1>7, <1>8, <1>9, <1>10, <1>11, <1>12 DEF Next

\* A bid reaches the ready pool, and so a proposal, only by way of a vote
\* extension of this validator.
THEOREM OnlyReportedIsReady == Spec => []ReadyReported
<1>1. Init => ReadyReported
  BY EmptySeq DEF Init, ReadyReported, ready, NewThresholdMempool, EmptyPool
<1> QED BY <1>1, Typing, ReportedNext, PTL DEF Spec

-----------------------------------------------------------------------------
(* The order of arrival *)

(***************************************************************************)
(* ReadyFifo alone is not inductive: ExtendStep may append a transaction   *)
(* from anywhere in the pending pool.  It is kept because the pending pool *)
(* is in the order of arrival too, and because everything ready arrived    *)
(* before everything at or after the pending cursor.                       *)
(***************************************************************************)
In(list, t) == \E i \in 1..Len(list) : list[i] = t

Fifo(list, arr) ==
    \A i, j \in 1..Len(list) : i < j => Before(arr, list[i], list[j])

Ordered(arr, pend, idx, rdy) ==
    /\ \A i \in 1..Len(pend) : In(arr, pend[i])
    /\ \A i \in 1..Len(rdy) : In(arr, rdy[i])
    /\ Fifo(pend, arr) /\ Fifo(rdy, arr)
    /\ \A i \in 1..Len(rdy), j \in 1..Len(pend) : j > idx => Before(arr, rdy[i], pend[j])

OrderInv == Ordered(arrived, pending.txs, pending.idx, ready.txs)

\* What arrived before stays so when one more transaction arrives.
LEMMA BeforeAppend ==
    ASSUME NEW arr \in Seq(Tx), NEW tx \in Tx
    PROVE  /\ \A t : In(arr, t) => In(Append(arr, tx), t) /\ Before(Append(arr, tx), t, tx)
           /\ \A t, u : Before(arr, t, u) => Before(Append(arr, tx), t, u)
           /\ In(Append(arr, tx), tx)
<1> DEFINE new == Append(arr, tx)
           n   == Len(arr)
<1>1. /\ n \in Nat /\ Len(new) = n + 1 /\ new[n + 1] = tx
      /\ \A i \in 1..n : new[i] = arr[i]
  BY AppendProperties, LenProperties
<1> HIDE DEF new, n
<1>2. n + 1 \in 1..Len(new) /\ \A i \in 1..n : i \in 1..Len(new) /\ i < n + 1
  BY <1>1
<1>3. ASSUME NEW t, In(arr, t) PROVE In(new, t) /\ Before(new, t, tx)
  BY <1>1, <1>2, <1>3 DEF In, Before, n
<1>4. ASSUME NEW t, NEW u, Before(arr, t, u) PROVE Before(new, t, u)
  BY <1>1, <1>2, <1>4 DEF Before, n
<1>5. In(new, tx)
  BY <1>1, <1>2 DEF In
<1> QED BY <1>3, <1>4, <1>5 DEF new

LEMMA OrderedInsert ==
    ASSUME NEW arr \in Seq(Tx), NEW pend \in Seq(Tx), NEW idx \in Nat,
           NEW rdy \in Seq(Tx), NEW tx \in Tx, Ordered(arr, pend, idx, rdy)
    PROVE  Ordered(Append(arr, tx), Append(pend, tx), idx, rdy)
<1> DEFINE n == Len(pend)
           new == Append(pend, tx)
           ar == Append(arr, tx)
<1>1. /\ n \in Nat /\ Len(new) = n + 1 /\ new[n + 1] = tx
      /\ \A i \in 1..n : new[i] = pend[i]
  BY AppendProperties, LenProperties
<1>2. /\ \A t : In(arr, t) => In(ar, t) /\ Before(ar, t, tx)
      /\ \A t, u : Before(arr, t, u) => Before(ar, t, u)
      /\ In(ar, tx)
  BY BeforeAppend
<1>3. \A i \in 1..n + 1 : i \in 1..n \/ i = n + 1
  BY <1>1
<1>4. \A i, j \in 1..n + 1 : i < j => i \in 1..n
  BY <1>1
<1> HIDE DEF n, new, ar
<1>5. \A i \in 1..Len(new) : In(ar, new[i])
  BY <1>1, <1>2, <1>3 DEF Ordered, n
<1>6. \A i \in 1..Len(rdy) : In(ar, rdy[i])
  BY <1>2 DEF Ordered
<1>7. Fifo(new, ar)
  <2> SUFFICES ASSUME NEW i \in 1..n + 1, NEW j \in 1..n + 1, i < j
               PROVE  Before(ar, new[i], new[j])
    BY <1>1 DEF Fifo
  <2>1. i \in 1..n /\ new[i] = pend[i]
    BY <1>1, <1>4
  <2>2. CASE j \in 1..n
    BY <2>1, <2>2, <1>1, <1>2 DEF Ordered, Fifo, n
  <2>3. CASE j = n + 1
    BY <2>1, <2>3, <1>1, <1>2 DEF Ordered, n
  <2> QED BY <1>3, <2>2, <2>3
<1>8. Fifo(rdy, ar)
  BY <1>2 DEF Ordered, Fifo
<1>9. ASSUME NEW i \in 1..Len(rdy), NEW j \in 1..n + 1, j > idx
      PROVE  Before(ar, rdy[i], new[j])
  <2>1. CASE j \in 1..n
    BY <2>1, <1>1, <1>2, <1>9 DEF Ordered, n
  <2>2. CASE j = n + 1
    BY <2>2, <1>1, <1>2 DEF Ordered
  <2> QED BY <1>3, <2>1, <2>2
<1>10. Ordered(ar, new, idx, rdy)
  BY <1>1, <1>5, <1>6, <1>7, <1>8, <1>9 DEF Ordered
<1> QED BY <1>10 DEF ar, new

\* The position in s of what is at position i of RemoveAt(s, k).
Shifted(i, k) == IF i < k THEN i ELSE i + 1

LEMMA RemoveAtShift ==
    ASSUME NEW s \in Seq(Tx), NEW k \in 1..Len(s)
    PROVE  /\ Len(s) \in Nat /\ Len(RemoveAt(s, k)) = Len(s) - 1
           /\ \A i \in 1..Len(s) - 1 : /\ Shifted(i, k) \in 1..Len(s)
                                       /\ RemoveAt(s, k)[i] = s[Shifted(i, k)]
           /\ \A i, j \in 1..Len(s) - 1 : i < j => Shifted(i, k) < Shifted(j, k)
<1>1. Len(s) \in Nat
  BY LenProperties
<1>2. /\ Len(RemoveAt(s, k)) = Len(s) - 1
      /\ \A i \in 1..Len(s) - 1 : RemoveAt(s, k)[i] = s[Shifted(i, k)]
  BY RemoveAtProperties DEF Shifted
<1>3. \A i \in 1..Len(s) - 1 : Shifted(i, k) \in 1..Len(s)
  BY <1>1 DEF Shifted
<1>4. \A i, j \in 1..Len(s) - 1 : i < j => Shifted(i, k) < Shifted(j, k)
  BY <1>1 DEF Shifted
<1> QED BY <1>1, <1>2, <1>3, <1>4

LEMMA OrderedRemove ==
    ASSUME NEW arr \in Seq(Tx), NEW pend \in Seq(Tx), NEW idx \in Nat,
           NEW rdy \in Seq(Tx), NEW k \in 1..Len(rdy), Ordered(arr, pend, idx, rdy)
    PROVE  Ordered(arr, pend, idx, RemoveAt(rdy, k))
<1> DEFINE m == Len(rdy)
           new == RemoveAt(rdy, k)
<1>1. /\ Len(new) = m - 1
      /\ \A i \in 1..m - 1 : Shifted(i, k) \in 1..m /\ new[i] = rdy[Shifted(i, k)]
      /\ \A i, j \in 1..m - 1 : i < j => Shifted(i, k) < Shifted(j, k)
  BY RemoveAtShift
<1> HIDE DEF new
<1>2. \A i \in 1..Len(new) : In(arr, new[i])
  BY <1>1 DEF Ordered
<1>3. Fifo(new, arr)
  BY <1>1 DEF Ordered, Fifo
<1>4. \A i \in 1..Len(new), j \in 1..Len(pend) : j > idx => Before(arr, new[i], pend[j])
  BY <1>1 DEF Ordered
<1>5. Ordered(arr, pend, idx, new)
  BY <1>2, <1>3, <1>4 DEF Ordered
<1> QED BY <1>5 DEF new

\* Moving what is under the cursor: the position removed is not behind it.
LEMMA OrderedMove ==
    ASSUME NEW arr \in Seq(Tx), NEW pend \in Seq(Tx), NEW idx \in Nat,
           NEW rdy \in Seq(Tx), Ordered(arr, pend, idx, rdy),
           idx + 1 \in 1..Len(pend), NEW k \in 1..idx + 1,
           NEW next \in Nat, next >= idx
    PROVE  Ordered(arr, RemoveAt(pend, k), next, Append(rdy, pend[idx + 1]))
<1> DEFINE n  == Len(pend)
           m  == Len(rdy)
           c  == idx + 1
           tx == pend[c]
           pe == RemoveAt(pend, k)
           re == Append(rdy, tx)
<1>1. n \in Nat /\ m \in Nat /\ c \in 1..n /\ k \in 1..n /\ tx \in Tx
  BY LenProperties, ElementOfSeq
<1>2. /\ Len(pe) = n - 1
      /\ \A j \in 1..n - 1 : Shifted(j, k) \in 1..n /\ pe[j] = pend[Shifted(j, k)]
      /\ \A i, j \in 1..n - 1 : i < j => Shifted(i, k) < Shifted(j, k)
  BY <1>1, RemoveAtShift
<1>3. \A j \in 1..n - 1 : j > idx => Shifted(j, k) > c /\ Shifted(j, k) > idx
  BY <1>1 DEF Shifted
<1>4. /\ Len(re) = m + 1 /\ re[m + 1] = tx
      /\ \A i \in 1..m : re[i] = rdy[i]
  BY <1>1, AppendProperties
<1>5. /\ \A i \in 1..m + 1 : i \in 1..m \/ i = m + 1
      /\ \A i, j \in 1..m + 1 : i < j => i \in 1..m
  BY <1>1
<1>6. c > idx
  OBVIOUS
<1> HIDE DEF n, m, c, tx, pe, re
<1>7. /\ \A i \in 1..m : Before(arr, rdy[i], tx) /\ In(arr, rdy[i])
      /\ In(arr, tx)
  BY <1>1, <1>6 DEF Ordered, n, m, tx
<1>8. \A i \in 1..Len(pe) : In(arr, pe[i])
  BY <1>2 DEF Ordered, n
<1>9. \A i \in 1..Len(re) : In(arr, re[i])
  BY <1>4, <1>5, <1>7
<1>10. Fifo(pe, arr)
  BY <1>2 DEF Ordered, Fifo, n
<1>11. Fifo(re, arr)
  <2> SUFFICES ASSUME NEW i \in 1..m + 1, NEW j \in 1..m + 1, i < j
               PROVE  Before(arr, re[i], re[j])
    BY <1>4 DEF Fifo
  <2>1. i \in 1..m /\ re[i] = rdy[i]
    BY <1>4, <1>5
  <2>2. CASE j \in 1..m
    BY <2>1, <2>2, <1>4 DEF Ordered, Fifo, m
  <2>3. CASE j = m + 1
    BY <2>1, <2>3, <1>4, <1>7
  <2> QED BY <1>5, <2>2, <2>3
<1>12. ASSUME NEW i \in 1..m + 1, NEW j \in 1..n - 1, j > next
       PROVE  Before(arr, re[i], pe[j])
  <2>1. j > idx
    BY <1>1, <1>12
  <2>2. /\ Shifted(j, k) \in 1..n /\ pe[j] = pend[Shifted(j, k)]
        /\ Shifted(j, k) > c /\ Shifted(j, k) > idx
    BY <2>1, <1>2, <1>3
  <2>3. CASE i \in 1..m
    BY <2>2, <2>3, <1>4 DEF Ordered, m, n
  <2>4. CASE i = m + 1
    BY <2>2, <2>4, <1>1, <1>4 DEF Ordered, Fifo, n, tx
  <2> QED BY <1>5, <2>3, <2>4
<1>13. Ordered(arr, pe, next, re)
  BY <1>2, <1>4, <1>8, <1>9, <1>10, <1>11, <1>12 DEF Ordered
<1> QED BY <1>13 DEF pe, re, tx, c

LEMMA OrderNext ==
    TypeOK /\ OrderInv /\ [Next]_vars => OrderInv'
<1> SUFFICES ASSUME TypeOK, OrderInv, [Next]_vars
             PROVE  OrderInv'
  OBVIOUS
<1>0. /\ ready \in Pools /\ ready.txs \in Seq(Tx) /\ ready.idx \in Nat
      /\ pending \in Pools /\ pending.txs \in Seq(Tx) /\ pending.idx \in Nat
      /\ arrived \in Seq(Tx)
  BY DEF TypeOK, Mempools, Pools, ready, pending
<1>a. ASSUME pending'.txs = pending.txs, ready'.txs = ready.txs,
             pending'.idx = pending.idx, arrived' = arrived
      PROVE  OrderInv'
  BY <1>a DEF OrderInv
<1>1. ASSUME NEW tx \in Tx, CheckTx(tx) PROVE OrderInv'
  <2>1. /\ ready' = ready /\ pending' = With(pending, tx)
        /\ arrived' = Append(arrived, tx)
    BY <1>1 DEF CheckTx, Insert, ready, pending, TypeOK, Mempools
  <2>2. pending'.txs = Append(pending.txs, tx) /\ pending'.idx = pending.idx
    BY <1>0, <2>1 DEF With, Pools
  <2> QED BY <1>0, <2>1, <2>2, OrderedInsert DEF OrderInv
<1>2. ASSUME NEW tx \in Tx, FinalizeTx(tx) PROVE OrderInv'
  <2>1. ready' = Without(ready, tx) /\ pending' = pending /\ arrived' = arrived
    BY <1>2 DEF FinalizeTx, RemoveTx, ready, pending, TypeOK, Mempools
  <2>2. CASE ~Holds(ready, tx)
    BY <2>1, <2>2, <1>a DEF Without
  <2>3. CASE Holds(ready, tx)
    <3>1. PICK k \in 1..Len(ready.txs) :
              Without(ready, tx) = [idx |-> ready.idx, txs |-> RemoveAt(ready.txs, k)]
      BY <1>0, <2>3, WithoutHeld
    <3>2. ready'.txs = RemoveAt(ready.txs, k)
      BY <2>1, <3>1
    <3> QED BY <1>0, <2>1, <3>2, OrderedRemove DEF OrderInv
  <2> QED BY <2>2, <2>3
<1>3. CASE ExtendVote
  BY <1>3, <1>a DEF ExtendVote, history, ready, pending
<1>4. CASE ExtendStep
  <2>1. /\ ready' = With(ready, Current(pending))
        /\ pending.idx + 1 \in 1..Len(pending.txs)
        /\ Current(pending) = pending.txs[pending.idx + 1]
        /\ pending'.idx = IF itr' THEN pending.idx + 1 ELSE pending.idx
    BY <1>4, ExtendStepEffect
  <2>2. PICK k \in 1..pending.idx + 1 : pending'.txs = RemoveAt(pending.txs, k)
    BY <1>4, ExtendStepEffect
  <2>3. ready'.txs = Append(ready.txs, pending.txs[pending.idx + 1])
    BY <1>0, <2>1 DEF With, Pools
  <2>4. pending'.idx \in Nat /\ pending'.idx >= pending.idx
    BY <1>0, <2>1
  <2>5. arrived' = arrived
    BY <1>4 DEF ExtendStep, history
  <2> QED BY <1>0, <2>1, <2>2, <2>3, <2>4, <2>5, OrderedMove DEF OrderInv
<1>5. CASE ExtendPanic
  BY <1>5, <1>a DEF ExtendPanic, history, ready, pending
<1>6. CASE ExtendReturn
  BY <1>6, <1>a DEF ExtendReturn, ready, pending
<1>7. CASE PrepareProposal
  BY <1>7, <1>a DEF PrepareProposal, history, ready, pending
<1>8. CASE PrepareStep
  <2>1. /\ pending' = pending /\ ready' = Advance(ready) /\ arrived' = arrived
    BY <1>8 DEF PrepareStep, history, ready, pending, TypeOK, Mempools
  <2> QED BY <1>0, <1>a, <2>1, AdvanceProperties
<1>9. CASE PreparePanic
  BY <1>9, <1>a DEF PreparePanic, history, ready, pending
<1>10. CASE PrepareReturn
  BY <1>10, <1>a DEF PrepareReturn, history, ready, pending
<1>11. CASE Restart
  <2>1. pending'.txs = <<>> /\ ready'.txs = <<>>
    BY <1>11 DEF Restart, ready, pending, NewThresholdMempool, EmptyPool
  <2> QED BY <2>1, EmptySeq DEF OrderInv, Ordered, Fifo
<1>12. CASE UNCHANGED vars
  BY <1>12, <1>a DEF vars, ready, pending
<1> QED
  BY <1>1, <1>2, <1>3, <1>4, <1>5, <1>6, <1>7, <1>8, <1>9, <1>10, <1>11, <1>12 DEF Next

LEMMA OrderInit == Init => OrderInv
<1> SUFFICES ASSUME Init PROVE OrderInv
  OBVIOUS
<1>1. pending.txs = <<>> /\ ready.txs = <<>>
  BY DEF Init, ready, pending, NewThresholdMempool, EmptyPool
<1> QED BY <1>1, EmptySeq DEF OrderInv, Ordered, Fifo

\* The ready pool is in the order of arrival ("Fifo order should be
\* maintained", mempool_test.go:37), whatever ExtendVote skips.
THEOREM FifoOrder == Spec => []ReadyFifo
<1>1. OrderInv => ReadyFifo
  BY DEF OrderInv, Ordered, Fifo, ReadyFifo
<1> QED BY <1>1, OrderInit, Typing, OrderNext, PTL DEF Spec

-----------------------------------------------------------------------------
(* Transactions that a walk has passed over *)

\* Update finds the transaction under the cursor itself.
LEMMA FoundUnderCursor ==
    ASSUME TypeOK, OrderInv, NoTwinsArrived,
           NEW c \in 1..Len(pending.txs), NEW k \in 1..c,
           Equal(pending.txs[k], pending.txs[c])
    PROVE  k = c
<1>0. pending.txs \in Seq(Tx) /\ Len(pending.txs) \in Nat
  BY LenProperties DEF TypeOK, Mempools, Pools, pending
<1>1. CASE k < c
  <2>1. Before(arrived, pending.txs[k], pending.txs[c])
    BY <1>0, <1>1 DEF OrderInv, Ordered, Fifo
  <2>2. PICK i, j \in 1..Len(arrived) :
            i < j /\ arrived[i] = pending.txs[k] /\ arrived[j] = pending.txs[c]
    BY <2>1 DEF Before
  <2>3. i = j
    BY <2>2 DEF NoTwinsArrived
  <2> QED BY <2>2, <2>3, LenProperties DEF TypeOK
<1> QED BY <1>0, <1>1

LEMMA SkippedKept ==
    ASSUME TypeOK, OrderInv, [Next]_vars, NoTwinsArrived
    PROVE  Restart \/ KeepSkipped
<1>0. /\ pending \in Pools /\ pending.txs \in Seq(Tx) /\ pending.idx \in Nat
      /\ Len(pending.txs) \in Nat
  BY LenProperties DEF TypeOK, Mempools, Pools, pending
<1>a. CASE pending' = pending
  BY <1>a, <1>0 DEF KeepSkipped, Skipped
<1>1. ASSUME NEW tx \in Tx, CheckTx(tx) PROVE KeepSkipped
  <2>1. pending' = With(pending, tx)
    BY <1>1 DEF CheckTx, Insert, pending, TypeOK, Mempools
  <2>2. /\ pending'.idx = pending.idx
        /\ Len(pending'.txs) = Len(pending.txs) + 1
        /\ \A i \in 1..Len(pending.txs) : pending'.txs[i] = pending.txs[i]
    BY <1>0, <1>1, <2>1, WithProperties
  <2>3. \A i \in Skipped : i \in 1..Len(pending.txs) /\ i <= Len(pending.txs) + 1
    BY <1>0 DEF Skipped
  <2> QED BY <1>0, <2>2, <2>3 DEF KeepSkipped
<1>2. CASE ExtendStep
  <2> DEFINE c == pending.idx + 1
             n == Len(pending.txs)
  <2>1. /\ c \in 1..n /\ pending'.idx >= pending.idx /\ Len(pending'.txs) = n - 1
        /\ pending.txs[c] \in Tx /\ Current(pending) = pending.txs[c]
    BY <1>0, <1>2, ExtendStepEffect
  <2>2. PICK k \in 1..c : /\ Equal(pending.txs[k], pending.txs[c])
                          /\ pending'.txs = RemoveAt(pending.txs, k)
    BY <1>2, <2>1, ExtendStepEffect
  <2>3. k \in 1..n
    BY <1>0, <2>1
  <2>5. k = c
    BY <2>1, <2>2, FoundUnderCursor
  <2>6. \A i \in 1..n - 1 : pending'.txs[i] = pending.txs[Shifted(i, k)]
    BY <1>0, <2>2, <2>3, RemoveAtShift
  <2>7. \A i \in 1..n : i <= pending.idx => i \in 1..n - 1 /\ Shifted(i, k) = i
    BY <1>0, <2>1, <2>5 DEF Shifted
  <2> HIDE DEF n, c
  <2>8. ASSUME NEW i \in Skipped
        PROVE  i <= Len(pending'.txs) /\ pending'.txs[i] = pending.txs[i]
    <3>1. i \in 1..n /\ i <= pending.idx
      BY DEF Skipped, n
    <3>2. i \in 1..n - 1 /\ Shifted(i, k) = i
      BY <2>7, <3>1
    <3>3. i <= n - 1
      BY <1>0, <3>2 DEF n
    <3> QED BY <2>1, <2>6, <3>2, <3>3
  <2> QED BY <2>1, <2>8 DEF KeepSkipped
<1> QED
  <2>1. ASSUME NEW tx \in Tx, FinalizeTx(tx) PROVE pending' = pending
    BY <2>1 DEF FinalizeTx, RemoveTx, pending, TypeOK, Mempools
  <2>2. CASE ExtendVote \/ ExtendPanic \/ ExtendReturn
    BY <2>2, <1>a DEF ExtendVote, ExtendPanic, ExtendReturn, history, pending
  <2>3. CASE PrepareProposal \/ PreparePanic \/ PrepareReturn
    BY <2>3, <1>a DEF PrepareProposal, PreparePanic, PrepareReturn, history, pending
  <2>4. CASE PrepareStep
    BY <2>4, <1>a DEF PrepareStep, pending, TypeOK, Mempools
  <2>5. CASE UNCHANGED vars
    BY <2>5, <1>a DEF vars, pending
  <2> QED BY <1>a, <1>1, <1>2, <2>1, <2>2, <2>3, <2>4, <2>5 DEF Next

\* What ExtendVote has left behind the pending cursor stays there until a
\* restart, as long as no two Equal transactions have arrived.
THEOREM SkippedForever == Spec => SkippedStays
<1>1. TypeOK /\ OrderInv /\ [Next]_vars
          => [Restart \/ (NoTwinsArrived => KeepSkipped)]_vars
  BY SkippedKept
<1> QED
  BY <1>1, OrderInit, Typing, OrderNext, PTL DEF Spec, SkippedStays

-----------------------------------------------------------------------------
(* Transactions that a proposal has passed *)

\* Equal or not, Remove never brings a passed transaction back under the
\* cursor: it shortens the list towards the start.
LEMMA PassedKept ==
    ASSUME TypeOK, [Next]_vars
    PROVE  Restart \/ KeepPassed
<1>0. /\ ready \in Pools /\ ready.txs \in Seq(Tx) /\ ready.idx \in Nat
      /\ Len(ready.txs) \in Nat
  BY LenProperties DEF TypeOK, Mempools, Pools, ready
<1>a. ASSUME ready' = ready PROVE KeepPassed
  BY <1>a DEF KeepPassed, Unread
<1>1. ASSUME NEW tx \in Tx, FinalizeTx(tx) PROVE KeepPassed
  <2>1. ready' = Without(ready, tx)
    BY <1>1 DEF FinalizeTx, RemoveTx, ready, TypeOK, Mempools
  <2>2. CASE ~Holds(ready, tx)
    <3>1. ready' = ready
      BY <2>1, <2>2 DEF Without
    <3> QED BY <1>a, <3>1
  <2>3. CASE Holds(ready, tx)
    <3>1. PICK k \in 1..Len(ready.txs) :
              Without(ready, tx) = [idx |-> ready.idx, txs |-> RemoveAt(ready.txs, k)]
      BY <1>0, <2>3, WithoutHeld
    <3>2. ready'.idx = ready.idx /\ ready'.txs = RemoveAt(ready.txs, k)
      BY <2>1, <3>1
    <3>3. /\ Len(ready'.txs) = Len(ready.txs) - 1
          /\ \A j \in 1..Len(ready.txs) - 1 :
                /\ Shifted(j, k) \in 1..Len(ready.txs)
                /\ ready'.txs[j] = ready.txs[Shifted(j, k)]
      BY <1>0, <3>2, RemoveAtShift
    <3>4. \A j \in 1..Len(ready.txs) - 1 : j > ready.idx => Shifted(j, k) > ready.idx
      BY <1>0 DEF Shifted
    <3> QED BY <3>2, <3>3, <3>4 DEF KeepPassed, Unread
  <2> QED BY <2>2, <2>3
<1>2. CASE ExtendStep
  <2>1. Current(pending) \in Tx /\ ready' = With(ready, Current(pending))
    BY <1>2, ExtendStepEffect
  <2>2. /\ ready'.idx = ready.idx
        /\ Len(ready'.txs) = Len(ready.txs) + 1
        /\ \A j \in 1..Len(ready.txs) : ready'.txs[j] = ready.txs[j]
    BY <1>0, <2>1, WithProperties
  <2>3. \A j \in 1..Len(ready.txs) + 1 : j > Len(ready.txs) \/ j \in 1..Len(ready.txs)
    BY <1>0
  <2> QED BY <2>2, <2>3 DEF KeepPassed, Unread
<1>3. CASE PrepareStep
  <2>1. ready' = Advance(ready)
    BY <1>3 DEF PrepareStep, ready, TypeOK, Mempools
  <2>2. ready'.txs = ready.txs /\ ready'.idx >= ready.idx
    BY <1>0, <2>1, AdvanceProperties
  <2>3. ready'.idx \in Nat
    BY <1>0, <2>1, AdvanceProperties
  <2>4. \A j \in 1..Len(ready.txs) : j > ready'.idx => j > ready.idx
    BY <1>0, <2>2, <2>3
  <2> QED BY <2>2, <2>4 DEF KeepPassed, Unread
<1> QED
  <2>1. ASSUME NEW tx \in Tx, CheckTx(tx) PROVE ready' = ready
    BY <2>1 DEF CheckTx, Insert, ready, TypeOK, Mempools
  <2>2. CASE ExtendVote \/ ExtendPanic \/ ExtendReturn
    BY <2>2, <1>a DEF ExtendVote, ExtendPanic, ExtendReturn, history, ready
  <2>3. CASE PrepareProposal \/ PreparePanic \/ PrepareReturn
    BY <2>3, <1>a DEF PrepareProposal, PreparePanic, PrepareReturn, history, ready
  <2>4. CASE UNCHANGED vars
    BY <2>4, <1>a DEF vars, ready
  <2> QED BY <1>a, <1>1, <1>2, <1>3, <2>1, <2>2, <2>3, <2>4 DEF Next

\* What is behind the ready cursor, that is, all that a proposal has taken
\* but the last transaction, no later PrepareProposal takes before a restart.
THEOREM PassedForever == Spec => PassedStays
<1>1. TypeOK /\ [Next]_vars => [Restart \/ KeepPassed]_vars
  BY PassedKept
<1> QED BY <1>1, Typing, PTL DEF Spec, PassedStays

-----------------------------------------------------------------------------
(* What PrepareProposal collects *)

(***************************************************************************)
(* The loop invariant of PrepareProposal.  While the iterator is not nil   *)
(* the transactions collected are the ones just before the cursor; when it *)
(* is nil they end with the last one.  The walk may start anywhere, also   *)
(* out of bounds, but once it has collected one it cannot panic.           *)
(***************************************************************************)
EndsAt(p, list, last) ==
    /\ Len(list) <= last /\ last <= Len(p.txs)
    /\ \A q \in 1..Len(list) : list[q] = p.txs[last - Len(list) + q]

PrepareInv ==
    pc = "prepare" =>
        IF itr THEN /\ ready.txs # <<>>
                    /\ txs # <<>> => ready.idx < Len(ready.txs) /\ EndsAt(ready, txs, ready.idx)
               ELSE \/ txs = <<>> /\ ready.txs = <<>>
                    \/ txs # <<>> /\ EndsAt(ready, txs, Len(ready.txs))

LEMMA PrepareNext == TypeOK /\ PrepareInv /\ [Next]_vars => PrepareInv'
<1> SUFFICES ASSUME TypeOK, PrepareInv, [Next]_vars
             PROVE  PrepareInv'
  OBVIOUS
<1>0. /\ ready \in Pools /\ ready.txs \in Seq(Tx) /\ ready.idx \in Nat
      /\ Len(ready.txs) \in Nat /\ txs \in Seq(Tx) /\ Len(txs) \in Nat
  BY LenProperties DEF TypeOK, Mempools, Pools, ready
<1>1. CASE pc' # "prepare"
  BY <1>1 DEF PrepareInv
<1>2. CASE PrepareProposal
  <2>1. ready' = ready /\ txs' = <<>> /\ (itr' <=> ready.txs # <<>>)
    BY <1>2 DEF PrepareProposal, Select, ready
  <2> QED BY <2>1 DEF PrepareInv
<1>3. CASE PrepareStep
  <2> DEFINE n == Len(ready.txs)
             i == ready.idx
             m == Len(txs)
  <2>1. /\ i + 1 \in 1..n /\ Current(ready) = ready.txs[i + 1] /\ Current(ready) \in Tx
    BY <1>0, <1>3, CurrentProperties DEF PrepareStep
  <2>2. /\ txs' = Append(txs, Current(ready)) /\ ready' = Advance(ready)
        /\ (itr' <=> ~Exhausted(ready)) /\ itr /\ pc = "prepare"
    BY <1>3 DEF PrepareStep, ready, TypeOK, Mempools
  <2>3. /\ Len(txs') = m + 1 /\ txs'[m + 1] = ready.txs[i + 1]
        /\ \A q \in 1..m : txs'[q] = txs[q]
    BY <1>0, <2>1, <2>2, AppendProperties
  <2>4. /\ ready'.txs = ready.txs
        /\ ready'.idx = IF Exhausted(ready) THEN i ELSE i + 1
    BY <1>0, <2>2, AdvanceProperties
  <2>5. Exhausted(ready) <=> n = i + 1
    BY <1>0, <2>1 DEF Exhausted
  <2>6. m = 0 \/ EndsAt(ready, txs, i)
    BY <1>0, <2>2 DEF PrepareInv
  <2>7. txs' # <<>> /\ ready.txs # <<>>
    BY <1>0, <2>1, <2>3, EmptySeq
  <2> HIDE DEF n, i, m
  <2>8. m + 1 <= i + 1 /\ \A q \in 1..m + 1 : txs'[q] = ready.txs[(i + 1) - (m + 1) + q]
    <3>1. n \in Nat /\ i \in Nat /\ m \in Nat
      BY <1>0 DEF n, i, m
    <3>2. CASE m = 0
      <4>1. \A q \in 1..m + 1 : q = m + 1 /\ (i + 1) - (m + 1) + q = i + 1
        BY <3>1, <3>2
      <4> QED BY <3>1, <3>2, <4>1, <2>3
    <3>3. CASE m # 0
      <4>1. m <= i /\ \A q \in 1..m : txs[q] = ready.txs[i - m + q]
        BY <2>6, <3>3 DEF EndsAt, m
      <4>2. ASSUME NEW q \in 1..m + 1
            PROVE  txs'[q] = ready.txs[(i + 1) - (m + 1) + q]
        <5>1. CASE q \in 1..m
          <6>1. (i + 1) - (m + 1) + q = i - m + q
            BY <3>1
          <6> QED BY <5>1, <6>1, <4>1, <2>3
        <5>2. CASE q = m + 1
          <6>1. (i + 1) - (m + 1) + q = i + 1
            BY <3>1, <5>2
          <6> QED BY <5>2, <6>1, <2>3
        <5> QED BY <3>1, <5>1, <5>2
      <4> QED BY <3>1, <4>1, <4>2
    <3> QED BY <3>2, <3>3
  <2>9. EndsAt(ready', txs', i + 1)
    BY <2>1, <2>3, <2>4, <2>8 DEF EndsAt, n
  <2>10. CASE Exhausted(ready)
    BY <2>2, <2>4, <2>5, <2>7, <2>9, <2>10 DEF PrepareInv, n
  <2>11. CASE ~Exhausted(ready)
    <3>1. i + 1 < n
      BY <1>0, <2>1, <2>5, <2>11 DEF n, i
    <3> QED BY <2>2, <2>4, <2>7, <2>9, <2>11, <3>1 DEF PrepareInv, n
  <2> QED BY <2>10, <2>11
<1>4. CASE UNCHANGED vars
  BY <1>4 DEF vars, PrepareInv, EndsAt, ready
<1>5. CASE ExtendStep
  BY <1>1, <1>5 DEF ExtendStep
<1> QED
  BY <1>1, <1>2, <1>3, <1>4, <1>5
  DEF Next, CheckTx, FinalizeTx, handlerVars, ExtendVote, ExtendPanic, ExtendReturn,
      PreparePanic, PrepareReturn, Restart

LEMMA SuffixFromInv == TypeOK /\ PrepareInv => ProposalIsSuffix
<1> SUFFICES ASSUME TypeOK, PrepareInv, pc = "prepare", ~itr
             PROVE  /\ Len(txs) <= Len(ready.txs)
                    /\ Len(txs) = 0 => Len(ready.txs) = 0
                    /\ txs = SubSeq(ready.txs, Len(ready.txs) - Len(txs) + 1, Len(ready.txs))
  BY DEF ProposalIsSuffix
<1> DEFINE n == Len(ready.txs)
           m == Len(txs)
           s == SubSeq(ready.txs, n - m + 1, n)
<1>0. /\ ready.txs \in Seq(Tx) /\ txs \in Seq(Tx) /\ n \in Nat /\ m \in Nat
  BY LenProperties DEF TypeOK, Mempools, Pools, ready
<1>1. CASE txs = <<>> /\ ready.txs = <<>>
  <2>1. m = 0 /\ n = 0
    BY <1>1, EmptySeq
  <2>2. s = <<>>
    BY <2>1, SubSeqEmpty
  <2> QED BY <1>1, <2>1, <2>2
<1>2. CASE txs # <<>> /\ EndsAt(ready, txs, n)
  <2>1. /\ m <= n /\ m # 0
        /\ \A q \in 1..m : txs[q] = ready.txs[n - m + q]
    BY <1>0, <1>2, EmptySeq DEF EndsAt
  <2>2. \A q \in n - m + 1..n : ready.txs[q] \in Tx
    BY <1>0, <2>1, ElementOfSeq
  <2>3. /\ s \in Seq(Tx) /\ Len(s) = m
        /\ \A q \in 1..m : s[q] = ready.txs[n - m + q]
    <3>1. n - m + 1 \in Int /\ n \in Int /\ n - (n - m + 1) + 1 = m /\ n - m + 1 <= n
      BY <1>0, <2>1
    <3>2. /\ s \in Seq(Tx) /\ Len(s) = m
          /\ \A q \in 1..m : s[q] = ready.txs[(n - m + 1) + q - 1]
      BY <2>2, <3>1, SubSeqProperties
    <3>3. \A q \in 1..m : (n - m + 1) + q - 1 = n - m + q
      BY <1>0
    <3> QED BY <3>2, <3>3
  <2> HIDE DEF s
  <2>4. txs = s
    BY <1>0, <2>1, <2>3, SeqEqual
  <2> QED BY <2>1, <2>4 DEF s
<1> QED BY <1>1, <1>2 DEF PrepareInv

\* A proposal takes the end of the ready pool, without gap or repetition.
THEOREM ProposalSuffix == Spec => []ProposalIsSuffix
<1>1. Init => PrepareInv
  BY DEF Init, PrepareInv
<1> QED BY <1>1, Typing, PrepareNext, SuffixFromInv, PTL DEF Spec
-----------------------------------------------------------------------------
(* Nothing is lost *)

LEMMA CopiesType ==
    ASSUME NEW list \in Seq(Tx), NEW tx
    PROVE  /\ IsFiniteSet({i \in 1..Len(list) : Equal(list[i], tx)})
           /\ Copies(list, tx) \in Nat
<1>1. IsFiniteSet(1..Len(list))
  BY LenProperties, FS_Interval
<1>2. IsFiniteSet({i \in 1..Len(list) : Equal(list[i], tx)})
  BY <1>1, FS_Subset
<1> QED BY <1>2, FS_CardinalityType DEF Copies

LEMMA CopiesEmpty == \A tx : Copies(<<>>, tx) = 0
<1>1. ASSUME NEW tx PROVE {i \in 1..Len(<<>>) : Equal(<<>>[i], tx)} = {}
  BY EmptySeq
<1> QED BY <1>1, FS_EmptySet DEF Copies

\* One more entry is one more copy of what it is Equal to.
LEMMA CopiesAppend ==
    ASSUME NEW list \in Seq(Tx), NEW t \in Tx, NEW tx
    PROVE  Copies(Append(list, t), tx)
               = IF Equal(t, tx) THEN Copies(list, tx) + 1 ELSE Copies(list, tx)
<1> DEFINE n   == Len(list)
           new == Append(list, t)
           I   == {i \in 1..n : Equal(list[i], tx)}
           J   == {i \in 1..n + 1 : Equal(new[i], tx)}
<1>1. /\ n \in Nat /\ Len(new) = n + 1 /\ new[n + 1] = t
      /\ \A i \in 1..n : new[i] = list[i]
  BY AppendProperties, LenProperties
<1>2. IsFiniteSet(I) /\ Copies(list, tx) = Cardinality(I) /\ Copies(new, tx) = Cardinality(J)
  BY <1>1, CopiesType DEF Copies
<1> HIDE DEF new, n
<1>3. \A i : i \in 1..n + 1 <=> i \in 1..n \/ i = n + 1
  BY <1>1
<1>4. CASE Equal(t, tx)
  <2>1. J = I \cup {n + 1}
    BY <1>1, <1>3, <1>4
  <2>2. n + 1 \notin I
    BY <1>1
  <2> HIDE DEF I, J
  <2> QED BY <1>2, <1>4, <2>1, <2>2, FS_AddElement DEF new
<1>5. CASE ~Equal(t, tx)
  <2>1. J = I
    BY <1>1, <1>3, <1>5
  <2> QED BY <1>2, <1>5, <2>1 DEF new
<1> QED BY <1>4, <1>5

\* Taking an entry out is one copy less of what it was Equal to.
LEMMA CopiesRemoveAt ==
    ASSUME NEW list \in Seq(Tx), NEW k \in 1..Len(list), NEW tx
    PROVE  Copies(RemoveAt(list, k), tx)
               = IF Equal(list[k], tx) THEN Copies(list, tx) - 1 ELSE Copies(list, tx)
<1> DEFINE n   == Len(list)
           new == RemoveAt(list, k)
           I   == {i \in 1..n : Equal(list[i], tx)}
           J   == {i \in 1..n - 1 : Equal(new[i], tx)}
           f   == [i \in J |-> Shifted(i, k)]
<1>1. /\ n \in Nat /\ Len(new) = n - 1
      /\ \A i \in 1..n - 1 : Shifted(i, k) \in 1..n /\ new[i] = list[Shifted(i, k)]
      /\ \A i, j \in 1..n - 1 : i < j => Shifted(i, k) < Shifted(j, k)
  BY RemoveAtShift
<1>2. IsFiniteSet(I) /\ Copies(list, tx) = Cardinality(I) /\ Copies(new, tx) = Cardinality(J)
  BY <1>1, CopiesType DEF Copies
<1>3. k \in 1..n
  OBVIOUS
<1>4. new \in Seq(Tx)
  BY RemoveAtProperties
<1>5. IsFiniteSet(J)
  BY <1>1, <1>4, CopiesType
<1> HIDE DEF new, n
<1>6. \A i \in 1..n - 1 : Shifted(i, k) # k
  BY <1>1, <1>3 DEF Shifted
<1>7. \A i \in 1..n : i # k => \E j \in 1..n - 1 : Shifted(j, k) = i
  <2> SUFFICES ASSUME NEW i \in 1..n, i # k
               PROVE  \E j \in 1..n - 1 : Shifted(j, k) = i
    OBVIOUS
  <2>1. CASE i < k
    <3>1. i \in 1..n - 1 /\ Shifted(i, k) = i
      BY <1>1, <1>3, <2>1 DEF Shifted
    <3> QED BY <3>1
  <2>2. CASE i > k
    <3>1. i - 1 \in 1..n - 1 /\ Shifted(i - 1, k) = i
      BY <1>1, <1>3, <2>2 DEF Shifted
    <3> QED BY <3>1
  <2> QED BY <1>1, <1>3, <2>1, <2>2
<1>8. \A i, j \in 1..n - 1 : Shifted(i, k) = Shifted(j, k) => i = j
  BY <1>1, <1>3 DEF Shifted
<1>9. f \in Bijection(J, I \ {k})
  <2>1. f \in [J -> I \ {k}]
    BY <1>1, <1>6
  <2>2. \A i, j \in J : f[i] = f[j] => i = j
    BY <1>8
  <2>3. \A i \in I \ {k} : \E j \in J : f[j] = i
    <3> SUFFICES ASSUME NEW i \in I, i # k
                 PROVE  \E j \in J : f[j] = i
      OBVIOUS
    <3>1. PICK j \in 1..n - 1 : Shifted(j, k) = i
      BY <1>7
    <3>2. j \in J
      BY <1>1, <3>1
    <3> QED BY <3>1, <3>2
  <2> HIDE DEF f, I, J
  <2> QED BY <2>1, <2>2, <2>3, Fun_IsBij
<1> HIDE DEF f, J
<1>10. ExistsBijection(J, I \ {k})
  BY <1>9 DEF ExistsBijection
<1>11. Cardinality(J) = Cardinality(I \ {k})
  BY <1>5, <1>10, FS_Bijection
<1>12. k \in I <=> Equal(list[k], tx)
  BY <1>3
<1> HIDE DEF I
<1>13. Cardinality(I \ {k}) = IF k \in I THEN Cardinality(I) - 1 ELSE Cardinality(I)
  BY <1>2, FS_RemoveElement
<1> QED BY <1>2, <1>11, <1>12, <1>13 DEF new
LEMMA AccountedNext ==
    TypeOK /\ Accounted /\ [Next]_vars => Accounted'
<1> SUFFICES ASSUME TypeOK, Accounted, [Next]_vars, NEW u \in Tx
             PROVE  Copies(arrived', u)
                        = Copies(pending'.txs, u) + Copies(ready'.txs, u) + removed'[u]
  BY DEF Accounted
<1>0. /\ ready \in Pools /\ ready.txs \in Seq(Tx)
      /\ pending \in Pools /\ pending.txs \in Seq(Tx)
      /\ arrived \in Seq(Tx) /\ removed \in [Tx -> Nat]
  BY DEF TypeOK, Mempools, Pools, ready, pending
<1> DEFINE a == Copies(arrived, u)
           p == Copies(pending.txs, u)
           r == Copies(ready.txs, u)
<1>b. /\ a \in Nat /\ p \in Nat /\ r \in Nat /\ removed[u] \in Nat
      /\ a = p + r + removed[u]
  BY <1>0, CopiesType DEF Accounted
<1>a. ASSUME pending'.txs = pending.txs, ready'.txs = ready.txs,
             arrived' = arrived, removed' = removed
      PROVE  Copies(arrived', u)
                 = Copies(pending'.txs, u) + Copies(ready'.txs, u) + removed'[u]
  BY <1>a, <1>b
<1> DEFINE Goal == Copies(arrived', u)
                       = Copies(pending'.txs, u) + Copies(ready'.txs, u) + removed'[u]
<1>1. ASSUME NEW tx \in Tx, CheckTx(tx) PROVE Goal
  <2>1. /\ ready' = ready /\ pending' = With(pending, tx)
        /\ arrived' = Append(arrived, tx) /\ removed' = removed
    BY <1>1 DEF CheckTx, Insert, ready, pending, TypeOK, Mempools
  <2>2. pending'.txs = Append(pending.txs, tx)
    BY <1>0, <2>1 DEF With, Pools
  <2>3. /\ Copies(arrived', u) = IF Equal(tx, u) THEN a + 1 ELSE a
        /\ Copies(pending'.txs, u) = IF Equal(tx, u) THEN p + 1 ELSE p
    BY <1>0, <2>1, <2>2, CopiesAppend
  <2>4. Copies(ready'.txs, u) = r /\ removed'[u] = removed[u]
    BY <2>1
  <2> HIDE DEF a, p, r
  <2> QED BY <1>b, <2>3, <2>4
<1>2. ASSUME NEW tx \in Tx, FinalizeTx(tx) PROVE Goal
  <2>1. /\ ready' = Without(ready, tx) /\ pending' = pending /\ arrived' = arrived
        /\ removed' = [v \in Tx |-> IF Holds(ready, tx) /\ Equal(v, tx)
                                    THEN removed[v] + 1 ELSE removed[v]]
    BY <1>2 DEF FinalizeTx, RemoveTx, handlerVars, ready, pending, TypeOK, Mempools
  <2>2. CASE ~Holds(ready, tx)
    <3>1. ready' = ready
      BY <2>1, <2>2 DEF Without
    <3>2. removed'[u] = removed[u]
      BY <2>1, <2>2
    <3> QED BY <1>b, <2>1, <3>1, <3>2
  <2>3. CASE Holds(ready, tx)
    <3>1. PICK k \in 1..Len(ready.txs) :
              /\ Equal(ready.txs[k], tx)
              /\ Without(ready, tx) = [idx |-> ready.idx, txs |-> RemoveAt(ready.txs, k)]
      BY <1>0, <2>3, WithoutHeld
    <3>2. ready'.txs = RemoveAt(ready.txs, k)
      BY <2>1, <3>1
    <3>3. Equal(ready.txs[k], u) <=> Equal(u, tx)
      BY <3>1 DEF Equal
    <3>4. Copies(ready'.txs, u) = IF Equal(u, tx) THEN r - 1 ELSE r
      BY <1>0, <3>2, <3>3, CopiesRemoveAt
    <3>5. removed'[u] = IF Equal(u, tx) THEN removed[u] + 1 ELSE removed[u]
      BY <2>1, <2>3
    <3>6. Copies(arrived', u) = a /\ Copies(pending'.txs, u) = p
      BY <2>1
    <3> HIDE DEF a, p, r
    <3> QED BY <1>b, <3>4, <3>5, <3>6
  <2> QED BY <2>2, <2>3
<1>3. CASE ExtendVote
  BY <1>3, <1>a DEF ExtendVote, history, ready, pending
<1>4. CASE ExtendStep
  <2> DEFINE tx == Current(pending)
  <2>1. /\ tx \in Tx /\ pending.idx + 1 \in 1..Len(pending.txs)
        /\ ready' = With(ready, tx)
        /\ arrived' = arrived /\ removed' = removed
    BY <1>4, ExtendStepEffect DEF ExtendStep, history
  <2>2. PICK k \in 1..pending.idx + 1 :
            Equal(pending.txs[k], tx) /\ pending'.txs = RemoveAt(pending.txs, k)
    BY <1>4, ExtendStepEffect
  <2> HIDE DEF tx
  <2>3. k \in 1..Len(pending.txs)
    BY <1>0, <2>1, LenProperties DEF Pools
  <2>4. Equal(pending.txs[k], u) <=> Equal(tx, u)
    BY <2>2 DEF Equal
  <2>5. Copies(pending'.txs, u) = IF Equal(tx, u) THEN p - 1 ELSE p
    BY <1>0, <2>2, <2>3, <2>4, CopiesRemoveAt
  <2>6. ready'.txs = Append(ready.txs, tx)
    BY <1>0, <2>1 DEF With, Pools
  <2>7. Copies(ready'.txs, u) = IF Equal(tx, u) THEN r + 1 ELSE r
    BY <1>0, <2>1, <2>6, CopiesAppend
  <2>8. Copies(arrived', u) = a /\ removed'[u] = removed[u]
    BY <2>1
  <2> HIDE DEF a, p, r
  <2> QED BY <1>b, <2>5, <2>7, <2>8
<1>5. CASE ExtendPanic
  BY <1>5, <1>a DEF ExtendPanic, history, ready, pending
<1>6. CASE ExtendReturn
  BY <1>6, <1>a DEF ExtendReturn, ready, pending
<1>7. CASE PrepareProposal
  BY <1>7, <1>a DEF PrepareProposal, history, ready, pending
<1>8. CASE PrepareStep
  <2>1. /\ pending' = pending /\ ready' = Advance(ready)
        /\ arrived' = arrived /\ removed' = removed
    BY <1>8 DEF PrepareStep, history, ready, pending, TypeOK, Mempools
  <2> QED BY <1>0, <1>a, <2>1, AdvanceProperties
<1>9. CASE PreparePanic
  BY <1>9, <1>a DEF PreparePanic, history, ready, pending
<1>10. CASE PrepareReturn
  BY <1>10, <1>a DEF PrepareReturn, history, ready, pending
<1>11. CASE Restart
  <2>1. /\ pending'.txs = <<>> /\ ready'.txs = <<>> /\ arrived' = <<>> /\ removed'[u] = 0
    BY <1>11 DEF Restart, ready, pending, NewThresholdMempool, EmptyPool
  <2> QED BY <2>1, CopiesEmpty
<1>12. CASE UNCHANGED vars
  BY <1>12, <1>a DEF vars, ready, pending
<1> HIDE DEF a, p, r
<1> QED
  BY <1>1, <1>2, <1>3, <1>4, <1>5, <1>6, <1>7, <1>8, <1>9, <1>10, <1>11, <1>12 DEF Next

\* Whatever arrives, moves, is skipped or is in a block: every transaction,
\* counted with the ones Equal to it, is in one of the two pools or was removed.
THEOREM NothingLost == Spec => []Accounted
<1>1. Init => Accounted
  <2> SUFFICES ASSUME Init, NEW u \in Tx
               PROVE  Copies(arrived, u)
                          = Copies(pending.txs, u) + Copies(ready.txs, u) + removed[u]
    BY DEF Accounted
  <2>1. /\ pending.txs = <<>> /\ ready.txs = <<>> /\ arrived = <<>> /\ removed[u] = 0
    BY DEF Init, ready, pending, NewThresholdMempool, EmptyPool
  <2> QED BY <2>1, CopiesEmpty
<1> QED BY <1>1, Typing, AccountedNext, PTL DEF Spec

=============================================================================
