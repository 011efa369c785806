CONSTANTS
    Tx <- TwoTxs
    Msg <- MCBid
    Bid <- MCBid
    NoSigner = NoSigner
    Signer = Signer
    NoExtension = NoExtension
    NoTx = NoTx
    alice = alice
    bob = bob
    cindy = cindy
    N = 2
    Beacon = 1
    Providers = {"signs", "noKey", "noAccount"}
    MaxEntries = 4
    MaxFailures = 1
    MaxCrashes = 1
SPECIFICATION Spec
INVARIANTS
    ProposedOnceByEach
    FrontRunGetsNoVote
