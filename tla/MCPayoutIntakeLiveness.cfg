SPECIFICATION FairSpec
CONSTANTS
    c1 = c1
    c2 = c2
    c3 = c3
    alice = alice
    bob = bob
    k1 = k1
    k2 = k2
    ext = ext
    fundsA = fundsA
    fundsB = fundsB
    d1 = d1
    d2 = d2
    NoKey = NoKey
    NoExternalId = NoExternalId
    Malformed = Malformed
    None = None
    FundingOwner <- MCFundingOwner
    Calls = {c1, c2, c3}
    Requests <- ContendingRequests
PROPERTIES
    EveryCallEnds
    ReplayIsNotRefused
