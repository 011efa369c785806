-------------------------- MODULE ValidatorMempool --------------------------
(***************************************************************************)
(* One validator's ThresholdMempool and the handlers that use it, loop     *)
(* iteration by loop iteration:                                            *)
(*                                                                         *)
(*   CheckTx          Insert (baseapp calls it for every new transaction)  *)
(*   ExtendVote       abci/vote_ext.go: walk the pending pool, report the  *)
(*                    bids, move every transaction walked over to the      *)
(*                    ready pool while the walk is going on                *)
(*   PrepareProposal  abci/proposal.go: walk the ready pool                *)
(*   FinalizeTx       Remove (baseapp calls it for every transaction of a  *)
(*                    decided block, whoever proposed it)                  *)
(*                                                                         *)
(* The ABCI client of an in-process node serialises the calls with one     *)
(* mutex: a handler starts only when none is running (pc = "idle").  The   *)
(* mempool is not persisted: a restart begins with an empty one.           *)
(***************************************************************************)
EXTENDS ThresholdMempool

\* Bound: between two restarts, the transactions of only one of these sets
\* arrive.  ({Tx} is no bound.)
CONSTANT Together

VARIABLES
    mp,        \* the ThresholdMempool
    pc,        \* the handler that is running; "down": it panicked
    itr,       \* the running handler's iterator is not nil
    bids,      \* ExtendVote's voteExtBids
    txs,       \* PrepareProposal's txs
    arrived,   \* history: the transactions inserted, in order
    removed,   \* history: how often Remove found something Equal to a transaction
    reported   \* history: the bids of the vote extensions returned

handlerVars == <<pc, itr, bids, txs>>
history     == <<arrived, removed, reported>>
vars        == <<mp, pc, itr, bids, txs, arrived, removed, reported>>

pending == mp.pendingPool
ready   == mp.pool

Init ==
    /\ mp = NewThresholdMempool
    /\ pc = "idle" /\ itr = FALSE /\ bids = <<>> /\ txs = <<>>
    /\ arrived = <<>> /\ removed = [tx \in Tx |-> 0] /\ reported = {}

-----------------------------------------------------------------------------
\* The consensus engine's cache lets a transaction through once.
CheckTx(tx) ==
    /\ pc = "idle"
    /\ Signed(tx)
    /\ tx \notin ToSet(arrived)
    /\ \E S \in Together : ToSet(arrived) \cup {tx} \subseteq S
    /\ mp' = Insert(mp, tx)
    /\ arrived' = Append(arrived, tx)
    /\ UNCHANGED <<handlerVars, removed, reported>>

FinalizeTx(tx) ==
    /\ pc = "idle"
    /\ mp' = RemoveTx(mp, tx)
    /\ removed' = [u \in Tx |-> IF Holds(ready, tx) /\ Equal(u, tx) THEN removed[u] + 1
                                                               ELSE removed[u]]
    /\ UNCHANGED <<handlerVars, arrived, reported>>

-----------------------------------------------------------------------------
ExtendVote ==
    /\ pc = "idle"
    /\ pc' = "extend" /\ itr' = SelectPending(mp) /\ bids' = <<>>
    /\ UNCHANGED <<mp, txs, history>>

\* Mutant (see ThresholdMempool): Next looks at the list as it was before Update.
ExtendStepStale_ ==
    /\ pc = "extend" /\ itr /\ ~OutOfBound(pending)
    /\ LET tx == Current(pending)
       IN  /\ bids' = bids \o BidsOf(tx)
           /\ mp' = [Update(mp, tx) EXCEPT !.pendingPool.idx = Advance(pending).idx]
           /\ itr' = ~Exhausted(pending)
    /\ UNCHANGED <<pc, txs, history>>

\* One iteration: read the transaction, collect its bids, Update, Next.
\* Next sees the list that Update has just shortened.
ExtendStep ==
    /\ pc = "extend" /\ itr /\ ~OutOfBound(pending)
    /\ LET tx == Current(pending)
           up == Update(mp, tx)
       IN  /\ bids' = bids \o BidsOf(tx)
           /\ mp' = [up EXCEPT !.pendingPool = Advance(@)]
           /\ itr' = ~Exhausted(up.pendingPool)
    /\ UNCHANGED <<pc, txs, history>>

\* Tx() panics.  The engine treats a failed ExtendVote as fatal and stops
\* the node; the transactions moved so far were never reported.
ExtendPanic ==
    /\ pc = "extend" /\ itr /\ OutOfBound(pending)
    /\ pc' = "down"
    /\ UNCHANGED <<mp, itr, bids, txs, history>>

ExtendReturn ==
    /\ pc = "extend" /\ ~itr
    /\ pc' = "idle" /\ bids' = <<>>
    /\ reported' = reported \cup ToSet(bids)
    /\ UNCHANGED <<mp, itr, txs, arrived, removed>>

-----------------------------------------------------------------------------
PrepareProposal ==
    /\ pc = "idle"
    /\ pc' = "prepare" /\ itr' = Select(mp) /\ txs' = <<>>
    /\ UNCHANGED <<mp, bids, history>>

PrepareStep ==
    /\ pc = "prepare" /\ itr /\ ~OutOfBound(ready)
    /\ txs' = Append(txs, Current(ready))
    /\ mp' = [mp EXCEPT !.pool = Advance(@)]
    /\ itr' = ~Exhausted(ready)
    /\ UNCHANGED <<pc, bids, history>>

\* Tx() panics.  baseapp recovers and answers with its own proposal.
PreparePanic ==
    /\ pc = "prepare" /\ itr /\ OutOfBound(ready)
    /\ pc' = "idle" /\ itr' = FALSE /\ txs' = <<>>
    /\ UNCHANGED <<mp, bids, history>>

PrepareReturn ==
    /\ pc = "prepare" /\ ~itr
    /\ pc' = "idle" /\ txs' = <<>>
    /\ UNCHANGED <<mp, itr, bids, history>>

-----------------------------------------------------------------------------
\* The process stops, at any point or after a panic, and is started again.
Restart ==
    /\ mp' = NewThresholdMempool
    /\ pc' = "idle" /\ itr' = FALSE /\ bids' = <<>> /\ txs' = <<>>
    /\ arrived' = <<>> /\ removed' = [tx \in Tx |-> 0] /\ reported' = {}

Next ==
    \/ \E tx \in Tx : CheckTx(tx) \/ FinalizeTx(tx)
    \/ ExtendVote \/ ExtendStep \/ ExtendPanic \/ ExtendReturn
    \/ PrepareProposal \/ PrepareStep \/ PreparePanic \/ PrepareReturn
    \/ Restart

Spec == Init /\ [][Next]_vars

-----------------------------------------------------------------------------
(* Properties *)

\* The mempool is two lists of transactions with cursors that never go below
\* the start of the list, and the handlers' local variables are lists.
TypeOK ==
    /\ mp \in Mempools
    /\ pc \in {"idle", "extend", "prepare", "down"}
    /\ itr \in BOOLEAN
    /\ bids \in Seq(Bid)
    /\ txs \in Seq(Tx)
    /\ arrived \in Seq(Tx)
    /\ removed \in [Tx -> Nat]
    /\ reported \subseteq Bid

(***************************************************************************)
(* The walk of an ExtendVote always starts on a transaction: the cursor    *)
(* that the previous walk left behind is inside the list, although that    *)
(* walk emptied the list under it.  So only a walk that has already moved  *)
(* a transaction can panic in Tx().                                        *)
(***************************************************************************)
PendingCursorValid ==
    ~(pc = "down" \/ (pc = "extend" /\ itr))
        => pending.idx = 0 \/ pending.idx < Len(pending.txs)

\* How many entries of a list Equal finds.
Copies(list, tx) == Cardinality({i \in 1..Len(list) : Equal(list[i], tx)})

(***************************************************************************)
(* Nothing is lost and nothing is invented: Update and Remove take out     *)
(* what they put elsewhere.  They find it with Equal, which ignores the    *)
(* sequence number, so with two transactions that differ in it alone the   *)
(* count is right for the two together only (one can take the place of the *)
(* other).                                                                 *)
(***************************************************************************)
Accounted ==
    \A tx \in Tx :
        Copies(arrived, tx) = Copies(pending.txs, tx) + Copies(ready.txs, tx) + removed[tx]

ReportedSoFar == reported \cup (IF pc = "extend" THEN ToSet(bids) ELSE {})

(***************************************************************************)
(* The promise of the threshold mempool: a bid can be proposed only after  *)
(* this validator reported it in a vote extension.  While ExtendVote runs  *)
(* it may still be in the extension that is being built.                   *)
(***************************************************************************)
ReadyReported ==
    pc # "down" =>
        \A i \in 1..Len(ready.txs) : ToSet(BidsOf(ready.txs[i])) \subseteq ReportedSoFar

(***************************************************************************)
(* What PrepareProposal collects is the end of the ready pool, in order,   *)
(* without a gap or a repetition, whatever Remove did to the list between  *)
(* two proposals.                                                          *)
(***************************************************************************)
ProposalIsSuffix ==
    pc = "prepare" /\ ~itr =>
        LET n == Len(ready.txs)
            m == Len(txs)
        IN  /\ m <= n /\ (m = 0 => n = 0)
            /\ txs = SubSeq(ready.txs, n - m + 1, n)

Before(list, t, u) ==
    \E i, j \in 1..Len(list) : i < j /\ list[i] = t /\ list[j] = u

(***************************************************************************)
(* mempool_test.go:37: "Fifo order should be maintained".  The ready pool  *)
(* is in the order of arrival, although ExtendVote skips transactions.     *)
(***************************************************************************)
ReadyFifo ==
    \A i, j \in 1..Len(ready.txs) :
        i < j => Before(arrived, ready.txs[i], ready.txs[j])

Skipped == {i \in 1..Len(pending.txs) : i <= pending.idx}

KeepSkipped ==
    /\ pending'.idx >= pending.idx
    /\ \A i \in Skipped : i <= Len(pending'.txs) /\ pending'.txs[i] = pending.txs[i]

(***************************************************************************)
(* A transaction that a walk has left behind the cursor stays there, in    *)
(* the pending pool, until the process restarts: no later ExtendVote       *)
(* reports its bids, no proposal of this validator contains it, and Remove *)
(* does not purge it once it is in a block.  (One that is skipped and left *)
(* under the cursor is the first that the next ExtendVote reads.  With two *)
(* Equal transactions Update may take the one behind the cursor.)          *)
(***************************************************************************)
NoTwinsArrived ==
    \A i, j \in 1..Len(arrived) : Equal(arrived[i], arrived[j]) => i = j

SkippedStays == [][Restart \/ (NoTwinsArrived => KeepSkipped)]_vars

\* Where the next walk of PrepareProposal reads.
Unread(p) == {i \in 1..Len(p.txs) : i > p.idx}

KeepPassed ==
    \A j \in Unread(ready') :
        j > Len(ready.txs) \/ \E i \in Unread(ready) : ready.txs[i] = ready'.txs[j]

(***************************************************************************)
(* A ready transaction that is behind the cursor is not proposed again,    *)
(* although its proposal may have been rejected or its round have failed:  *)
(* what the next proposal reads is what this one would read, or has become *)
(* ready since.  Only when Tx() panics, and baseapp proposes instead, or   *)
(* after a restart does it get another chance.  (The last transaction that *)
(* a proposal took stays under the cursor, and the next one takes it too.) *)
(***************************************************************************)
PassedStays == [][Restart \/ KeepPassed]_vars

(***************************************************************************)
(* README.md:16: "Validators submit their Vote Extension with a list of    *)
(* all bids available in their mempool": when ExtendVote is about to       *)
(* return, no bid is left in the pending pool.                             *)
(***************************************************************************)
AllPendingBidsListed ==
    pc = "extend" /\ ~itr =>
        \A i \in 1..Len(pending.txs) : BidsOf(pending.txs[i]) = <<>>

-----------------------------------------------------------------------------
(***************************************************************************)
(* The loops implement AtomicValidator: the answer of a handler and its    *)
(* effect on the mempool are settled when it is called, and ExtendVote     *)
(* panics exactly when it has an odd number of transactions ahead of the   *)
(* cursor and they are not a single one.  A walk that is going on (its     *)
(* iterator is not nil) is mapped to its end.  That is so until two Equal  *)
(* transactions have arrived.                                              *)
(***************************************************************************)
Extending == pc = "extend" /\ itr
Preparing == pc = "prepare" /\ itr
Fails     == (Extending /\ ExtendPanics(mp)) \/ (Preparing /\ PreparePanics(mp))

Atomic == INSTANCE AtomicValidator WITH
    mp <- IF Extending THEN AfterExtend(mp)
          ELSE IF Preparing THEN AfterPrepare(mp) ELSE mp,
    phase <- CASE pc = "extend"  -> IF Fails THEN "down" ELSE "extended"
               [] pc = "prepare" -> IF Fails THEN "idle" ELSE "prepared"
               [] OTHER          -> pc,
    bids <- IF Fails \/ pc = "down" THEN <<>>
            ELSE IF Extending THEN bids \o ExtendBids(mp) ELSE bids,
    txs <- IF Fails THEN <<>> ELSE IF Preparing THEN txs \o PrepareTxs(mp) ELSE txs,
    known <- ToSet(arrived)

\* Every behaviour of the handlers with their loops is, seen through this
\* mapping and as long as no twins arrive, one of the handlers as single steps.
AtomicSpec == Atomic!Init /\ [][NoTwinsArrived => Atomic!Next]_(Atomic!vars)
=============================================================================
