CONSTANTS
    Tx <- MCTx
    Together <- MCTogether
    Msg <- MCMsg
    Bid <- MCBid
    NoSigner = NoSigner
    alice = alice
    bob = bob
    bidA = bidA
    bidB = bidB
    bidC = bidC
    transfer = transfer
SPECIFICATION Spec
INVARIANTS
    TypeOK
    PendingCursorValid
    Accounted
    ReadyReported
    ProposalIsSuffix
    ReadyFifo
PROPERTIES
    SkippedStays
    PassedStays
    AtomicSpec
