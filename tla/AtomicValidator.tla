-------------------------- MODULE AtomicValidator --------------------------
(***************************************************************************)
(* What ValidatorMempool promises to the consensus engine: each handler    *)
(* has its whole effect on the mempool at once, when it is called, and its *)
(* answer is fixed then; returning only hands the answer over.             *)
(*                                                                         *)
(* AuctionNetwork relies on it: there ExtendVote and PrepareProposal are   *)
(* single steps.                                                           *)
(***************************************************************************)
EXTENDS ThresholdMempool

VARIABLES
    mp,        \* the ThresholdMempool
    phase,     \* "idle", "extended" or "prepared": an answer is due; "down"
    bids,      \* the bids of the vote extension that is due
    txs,       \* the transactions for the proposal that is due
    known,     \* the transactions that CheckTx saw
    reported   \* the bids of the vote extensions handed over

vars == <<mp, phase, bids, txs, known, reported>>

Init ==
    /\ mp = NewThresholdMempool
    /\ phase = "idle" /\ bids = <<>> /\ txs = <<>>
    /\ known = {} /\ reported = {}

CheckTx(tx) ==
    /\ phase = "idle" /\ Signed(tx) /\ tx \notin known
    /\ mp' = Insert(mp, tx)
    /\ known' = known \cup {tx}
    /\ UNCHANGED <<phase, bids, txs, reported>>

FinalizeTx(tx) ==
    /\ phase = "idle"
    /\ mp' = RemoveTx(mp, tx)
    /\ UNCHANGED <<phase, bids, txs, known, reported>>

ExtendVote ==
    /\ phase = "idle"
    /\ mp' = AfterExtend(mp)
    /\ IF ExtendPanics(mp) THEN phase' = "down" /\ UNCHANGED bids
                           ELSE phase' = "extended" /\ bids' = ExtendBids(mp)
    /\ UNCHANGED <<txs, known, reported>>

ExtendReturn ==
    /\ phase = "extended"
    /\ phase' = "idle" /\ bids' = <<>>
    /\ reported' = reported \cup ToSet(bids)
    /\ UNCHANGED <<mp, txs, known>>

\* A panic is recovered by baseapp and changes nothing.
PrepareProposal ==
    /\ phase = "idle" /\ ~PreparePanics(mp)
    /\ phase' = "prepared"
    /\ txs' = PrepareTxs(mp) /\ mp' = AfterPrepare(mp)
    /\ UNCHANGED <<bids, known, reported>>

PrepareReturn ==
    /\ phase = "prepared"
    /\ phase' = "idle" /\ txs' = <<>>
    /\ UNCHANGED <<mp, bids, known, reported>>

Restart ==
    /\ mp' = NewThresholdMempool
    /\ phase' = "idle" /\ bids' = <<>> /\ txs' = <<>>
    /\ known' = {} /\ reported' = {}

Next ==
    \/ \E tx \in Tx : CheckTx(tx) \/ FinalizeTx(tx)
    \/ ExtendVote \/ ExtendReturn
    \/ PrepareProposal \/ PrepareReturn
    \/ Restart

Spec == Init /\ [][Next]_vars
=============================================================================
