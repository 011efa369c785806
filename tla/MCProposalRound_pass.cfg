CONSTANTS
    Tx <- MCTx
    Msg <- MCMsg
    Bid <- MCBid
    NoSigner = NoSigner
    Signer = Signer
    NoExtension = NoExtension
    NoTx = NoTx
    alice = alice
    bob = bob
    transfer = transfer
    Votes <- MCVotes
    ReadyLists <- MCReadyLists
SPECIFICATION Spec
CHECK_DEADLOCK FALSE
INVARIANTS
    TypeOK
    NoUnreportedBid
    CommonBidsAccepted
    FailingProviderHarmless
