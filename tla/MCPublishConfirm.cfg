SPECIFICATION FairSpec
CONSTANTS
    MaxTag = 4
    MaxOpens = 2
INVARIANTS
    TypeOK
    NilIsAcknowledged
    NothingIsLeftOver
    OneReturnIsMissed
PROPERTIES
    PublishReturns
