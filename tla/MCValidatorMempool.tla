------------------------- MODULE MCValidatorMempool -------------------------
(***************************************************************************)
(* Small instances of ValidatorMempool.  Amounts and names of bids are     *)
(* abstracted to three model values; a transfer stands for every message   *)
(* that is not a bid.                                                      *)
(***************************************************************************)
EXTENDS ValidatorMempool

CONSTANTS alice, bob, bidA, bidB, bidC, transfer

MCMsg == {bidA, bidB, bidC, transfer}
MCBid == {bidA, bidB, bidC}

MakeTx(sender, sequence, msgs) == [sender |-> sender, sequence |-> sequence, msgs |-> msgs]

Unsigned == MakeTx(NoSigner, 0, <<bidC>>)

\* No two are Equal: one bid, none, several, and the same bid twice.
DistinctTx == {
    MakeTx(alice, 1, <<bidA>>),
    MakeTx(alice, 2, <<transfer>>),
    MakeTx(bob,   1, <<transfer, bidB, bidA>>),
    MakeTx(bob,   2, <<bidB>>),
    MakeTx(bob,   3, <<bidC, bidC>>)}

\* The same bid sent again with the next sequence number.
TwinTx == {
    MakeTx(alice, 1, <<bidA>>),
    MakeTx(alice, 2, <<bidA>>),
    MakeTx(bob,   1, <<bidB>>),
    MakeTx(alice, 3, <<bidB>>),
    MakeTx(bob,   2, <<bidB>>)}

WithUnsigned(S) == S \cup {Unsigned}
MCTogether == {WithUnsigned(DistinctTx), WithUnsigned(TwinTx)}
MCTx       == UNION MCTogether
=============================================================================
