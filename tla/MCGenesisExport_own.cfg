CONSTANTS
    Validator = {v1, v2}
    Delegation <- MCDelegation
    Entry = {entry1, entry2}
    LatestHeight = 2
    MaxPeriod = 6
    Arguments <- MCArguments
    Stakings <- MCStakings
    Distributions <- MCOwnDistributions
    BadAddress = BadAddress
    v1 = v1
    v2 = v2
    alice = alice
    bob = bob
    entry1 = entry1
    entry2 = entry2
SPECIFICATION Spec
CHECK_DEADLOCK FALSE
INVARIANT FreshStartPrepared
