CONSTANTS
    Tx <- DoubleTx
    Msg <- MCBid
    Bid <- MCBid
    NoSigner = NoSigner
    Signer = Signer
    NoExtension = NoExtension
    NoTx = NoTx
    alice = alice
    bob = bob
    cindy = cindy
    N = 3
    Beacon = 0
    Providers = {"signs"}
    MaxEntries = 9
    MaxFailures = 0
    MaxCrashes = 0
SPECIFICATION FairSpec
PROPERTY HonestRejectionsCease
