--------------------------- MODULE MCAuctionNetwork ---------------------------
(***************************************************************************)
(* Small networks.  Every transaction is the only one with its bid.        *)
(***************************************************************************)
EXTENDS AuctionNetwork

CONSTANTS alice, bob, cindy

MakeBid(name, owner, amount) == [name |-> name, owner |-> owner, amount |-> amount]
MakeTx(sender, msgs)         == [sender |-> sender, msgs |-> msgs]

bidA == MakeBid("a", alice, 1)
bidB == MakeBid("a", bob, 3)
bidC == MakeBid("c", cindy, 1)

UserBid == {bidA, bidB, bidC}
MCBid   == UserBid \cup {MatchingBid(b) : b \in UserBid}

OneTx    == {MakeTx(alice, <<bidA>>)}
TwoTxs   == {MakeTx(alice, <<bidA>>), MakeTx(bob, <<bidB>>)}
ThreeTxs == TwoTxs \cup {MakeTx(cindy, <<bidC>>)}
DoubleTx == {MakeTx(alice, <<bidA>>), MakeTx(bob, <<bidB, bidC>>)}
=============================================================================
