-------------------------- MODULE ThresholdMempool --------------------------
(***************************************************************************)
(* The app-side mempool of mempool/mempool.go.                             *)
(*                                                                         *)
(* A thTxs is one list of transactions and one cursor.  It is at the same  *)
(* time a pool of ThresholdMempool and the iterator that Select and        *)
(* SelectPending hand out: they return a pointer to the pool itself, so    *)
(* the cursor outlives the loop that moved it, and Update and Remove       *)
(* shorten the list under it.                                              *)
(*                                                                         *)
(* The operators are functions of the mempool's value, so that a module    *)
(* with one validator and a module with several can both use them.  The    *)
(* priority of a thTx is never read and is left out.                       *)
(*                                                                         *)
(* A definition whose name ends in an underscore is a mutant: a plausible  *)
(* mistake in the definition that follows it, which it can be put in place *)
(* of to see that a property notices.                                      *)
(***************************************************************************)
EXTENDS Naturals, SequencesExt

(***************************************************************************)
(* A transaction is a record with at least                                 *)
(*   sender : the address of the first signature, NoSigner if unsigned     *)
(*   msgs   : the sequence of its messages                                 *)
(* A bid (nstypes.MsgBid) is a message that is a member of Bid.            *)
(***************************************************************************)
CONSTANTS Tx, Msg, Bid, NoSigner

ASSUME TxAssumption == \A tx \in Tx : tx.msgs \in Seq(Msg)
ASSUME BidAssumption == Bid \subseteq Msg

Signed(tx) == tx.sender # NoSigner

\* thTx.Equal: same first signer and, message by message, the same text.
\* Sequence number, fee and memo are not compared.
Equal(t, u) == t.sender = u.sender /\ t.msgs = u.msgs

IsBid(m)  == m \in Bid
BidSet(tx) == {m \in ToSet(tx.msgs) : IsBid(m)}

\* The bids of a transaction, in message order.
BidsOf(tx) ==
    FlattenSeq([j \in DOMAIN tx.msgs |-> IF IsBid(tx.msgs[j]) THEN <<tx.msgs[j]>> ELSE <<>>])

-----------------------------------------------------------------------------
(* thTxs *)

EmptyPool == [idx |-> 0, txs |-> <<>>]
Pools     == [idx : Nat, txs : Seq(Tx)]

\* Tx() panics: the cursor is not on a transaction.
OutOfBound(p) == p.idx >= Len(p.txs)

\* Tx() otherwise.
Current(p) == p.txs[p.idx + 1]

\* Mutant: stops one transaction early.
Exhausted_(p) == Len(p.txs) = 0 \/ Len(p.txs) = p.idx + 2

\* Next() returns nil, and then leaves the cursor where it is ...
Exhausted(p) == Len(p.txs) = 0 \/ Len(p.txs) = p.idx + 1

\* Mutant: moves the cursor before it looks for the end.
Advance_(p) == IF Len(p.txs) = 0 THEN p ELSE [p EXCEPT !.idx = @ + 1]

\* ... and otherwise moves it, whether or not there is a transaction there.
Advance(p) == IF Exhausted(p) THEN p ELSE [p EXCEPT !.idx = @ + 1]

\* The scan of Update and of Remove: the first transaction Equal to tx.
Holds(p, tx) == \E i \in 1..Len(p.txs) : Equal(p.txs[i], tx)

\* Mutant: the scan goes on to the last one.
LastEqual_(p, tx) ==
    CHOOSE i \in 1..Len(p.txs) :
        Equal(p.txs[i], tx) /\ \A j \in i+1..Len(p.txs) : ~Equal(p.txs[j], tx)

FirstEqual(p, tx) ==
    CHOOSE i \in 1..Len(p.txs) :
        Equal(p.txs[i], tx) /\ \A j \in 1..i-1 : ~Equal(p.txs[j], tx)

\* Mutant: the cursor steps back with the list.
WithoutSteppingBack_(p, tx) ==
    IF Holds(p, tx) THEN [idx |-> p.idx - 1, txs |-> RemoveAt(p.txs, FirstEqual(p, tx))] ELSE p

\* Mutant: the same, but not below the start.
WithoutRereading_(p, tx) ==
    IF Holds(p, tx)
    THEN [idx |-> IF p.idx = 0 THEN 0 ELSE p.idx - 1, txs |-> RemoveAt(p.txs, FirstEqual(p, tx))]
    ELSE p

\* Mutant: removes the head, wherever the transaction was found.
WithoutHead_(p, tx) == IF Holds(p, tx) THEN [p EXCEPT !.txs = Tail(@)] ELSE p

\* removeAtIndex at that position.  The cursor is not touched.
Without(p, tx) ==
    IF Holds(p, tx) THEN [p EXCEPT !.txs = RemoveAt(@, FirstEqual(p, tx))] ELSE p

With(p, tx) == [p EXCEPT !.txs = Append(@, tx)]

-----------------------------------------------------------------------------
(* ThresholdMempool *)

NewThresholdMempool == [pendingPool |-> EmptyPool, pool |-> EmptyPool]
Mempools            == [pendingPool : Pools, pool : Pools]

\* Mutant: inserts into the ready pool.
InsertReady_(mp, tx) == [mp EXCEPT !.pool = With(@, tx)]

\* Insert of a signed transaction; an unsigned one is refused with an error.
Insert(mp, tx) == [mp EXCEPT !.pendingPool = With(@, tx)]

\* Mutant: forgets to take the transaction out of the pending pool.
UpdateCopies_(mp, tx) ==
    IF Holds(mp.pendingPool, tx) THEN [mp EXCEPT !.pool = With(@, tx)] ELSE mp

\* Update: pending to ready.  It is the tx of the call that is appended to
\* the ready pool, not the Equal one that was found.  With no Equal one it
\* returns ErrTxNotFound and changes nothing.
Update(mp, tx) ==
    IF Holds(mp.pendingPool, tx)
    THEN [pendingPool |-> Without(mp.pendingPool, tx), pool |-> With(mp.pool, tx)]
    ELSE mp

\* Mutant: looks in the wrong pool.
RemovePending_(mp, tx) == [mp EXCEPT !.pendingPool = Without(@, tx)]

\* Remove (RemoveTx here): out of the ready pool only, ErrTxNotFound if it is not there.
RemoveTx(mp, tx) == [mp EXCEPT !.pool = Without(@, tx)]

\* Select and SelectPending return nil for an empty list.
Select(mp)        == mp.pool.txs # <<>>
SelectPending(mp) == mp.pendingPool.txs # <<>>

-----------------------------------------------------------------------------
(***************************************************************************)
(* What the two loops that use the iterators amount to, when no two        *)
(* transactions are Equal.  ValidatorMempool has the loops themselves, and *)
(* implements AtomicValidator, which has these.                            *)
(*                                                                         *)
(* ExtendVote moves the transaction under the cursor to the ready pool and *)
(* then moves the cursor: the list has become shorter, so the cursor steps *)
(* over the next one.  It takes the first, third, fifth... transaction     *)
(* from the cursor on, and with an odd number of them ahead it runs past   *)
(* the end, unless the one it took was the only one in the pool.           *)
(***************************************************************************)
Ahead(p) == IF OutOfBound(p) THEN 0 ELSE Len(p.txs) - p.idx

Walked(p)  == [k \in 1..(Ahead(p) + 1) \div 2 |-> p.txs[p.idx + 2 * k - 1]]
Skips(p)   == [k \in 1..Ahead(p) \div 2 |-> p.txs[p.idx + 2 * k]]

ExtendPanics(mp) ==
    LET p == mp.pendingPool
    IN  SelectPending(mp) /\ (OutOfBound(p) \/ (Len(p.txs) # 1 /\ Ahead(p) % 2 = 1))

\* The mempool after ExtendVote has returned or panicked.
AfterExtend(mp) ==
    LET p    == mp.pendingPool
        rest == SubSeq(p.txs, 1, p.idx) \o Skips(p)
    IN  IF Ahead(p) = 0 THEN mp
        ELSE [pendingPool |-> [idx |-> IF ExtendPanics(mp) THEN Len(rest) + 1
                                       ELSE IF rest = <<>> THEN 0 ELSE Len(rest) - 1,
                               txs |-> rest],
              pool        |-> [mp.pool EXCEPT !.txs = @ \o Walked(p)]]

\* The bids of its vote extension.
ExtendBids(mp) ==
    LET walked == Walked(mp.pendingPool)
    IN  FlattenSeq([k \in DOMAIN walked |-> BidsOf(walked[k])])

\* Mutant: calls Next before the first Tx.
PrepareTxs_(mp) == SubSeq(mp.pool.txs, mp.pool.idx + 2, Len(mp.pool.txs))

\* PrepareProposal reads the ready pool from the cursor to the end.
PreparePanics(mp) == Select(mp) /\ OutOfBound(mp.pool)
PrepareTxs(mp)    == SubSeq(mp.pool.txs, mp.pool.idx + 1, Len(mp.pool.txs))
AfterPrepare(mp)  ==
    IF Ahead(mp.pool) = 0 THEN mp ELSE [mp EXCEPT !.pool.idx = Len(mp.pool.txs) - 1]
=============================================================================
