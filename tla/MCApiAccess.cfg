SPECIFICATION Spec
CONSTANTS
    walker = walker
    writer = writer
    maker = maker
    alice = alice
    bob = bob
    aliceKey = aliceKey
    bobKey = bobKey
    unknownKey = unknownKey
    None = None
    Malformed = Malformed
    Callers = {walker, writer, maker}
    Clients = {alice, bob}
    KeyOwner <- Owner
    Requests <- RequestsByCaller
    Ids = {1, 2, 3}
    DefaultLimit = 1
    MaxLimit = 2
    MaxCents = 99999
    MaxTime = 1
    MaxFaults = 1
INVARIANTS
    TypeOK
    OwnRowsOnly
    AnswersAgree
    WalkMissesNothing
    AmountIsHonoured
    FoundStaysFound
