CONSTANTS
    Tx <- TwoTxs
    Msg <- MCBid
    Bid <- MCBid
    NoSigner = NoSigner
    Signer = Signer
    NoExtension = NoExtension
    NoTx = NoTx
    alice = alice
    bob = bob
    cindy = cindy
    N = 3
    Beacon = 1
    Providers = {"signs"}
    MaxEntries = 4
    MaxFailures = 0
    MaxCrashes = 0
SPECIFICATION FairSpec
INVARIANTS
    TypeOK
    FrontRunGetsNoVote
PROPERTIES
    Progress
    LoneDelivered
