CONSTANTS
    Tx <- ThreeTxs
    Msg <- MCBid
    Bid <- MCBid
    NoSigner = NoSigner
    Signer = Signer
    NoExtension = NoExtension
    NoTx = NoTx
    alice = alice
    bob = bob
    cindy = cindy
    N = 2
    Beacon = 0
    Providers = {"signs"}
    MaxEntries = 9
    MaxFailures = 0
    MaxCrashes = 0
SPECIFICATION Spec
INVARIANT FirstIsSpecial
