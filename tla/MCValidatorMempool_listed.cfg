CONSTANTS
    Tx <- MCTx
    Together <- MCTogether
    Msg <- MCMsg
    Bid <- MCBid
    NoSigner = NoSigner
    alice = alice
    bob = bob
    bidA = bidA
    bidB = bidB
    bidC = bidC
    transfer = transfer
SPECIFICATION Spec
INVARIANT AllPendingBidsListed
