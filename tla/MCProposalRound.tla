--------------------------- MODULE MCProposalRound ---------------------------
(***************************************************************************)
(* Four validators, one of which may have been absent from the last        *)
(* commit; three bids for two names, and the provider's answers to them.   *)
(***************************************************************************)
EXTENDS ProposalRound

CONSTANTS alice, bob, transfer

MakeBid(name, owner, amount) == [name |-> name, owner |-> owner, amount |-> amount]
bidA == MakeBid("a", alice, 1)
bidB == MakeBid("a", bob, 3)
bidC == MakeBid("c", bob, 1)

UserBid == {bidA, bidB, bidC}
MCBid   == UserBid \cup {MatchingBid(b) : b \in UserBid}
MCMsg   == MCBid \cup {transfer}

MakeTx(sender, msgs) == [sender |-> sender, msgs |-> msgs]

MCTx == {MakeTx(alice, <<bidA>>), MakeTx(bob, <<bidB>>), MakeTx(bob, <<transfer>>),
         MakeTx(bob, <<bidC, transfer, bidB>>)}

Extensions ==
    {VoteExtension(2, bids) : bids \in {<<>>, <<bidA>>, <<bidB, bidA>>, <<bidA, bidA>>, <<bidA, bidB, bidC>>}}

MCVotes == {v \in [1..4 -> Extensions \cup {NoExtension}] :
                Cardinality({i \in 1..4 : v[i] = NoExtension}) <= 1}

MCReadyLists == UNION {{l \in [1..n -> MCTx] : IsInjective(l)} : n \in 0..2}
=============================================================================
