SPECIFICATION FairSpec
CONSTANTS
    r1 = r1
    r2 = r2
    w1 = w1
    w2 = w2
    p1 = p1
    Malformed = Malformed
    None = None
    Relays = {r1, r2}
    Workers = {w1, w2}
    Payouts = {p1}
    CreatedAt <- Order
    Subscribed = {p1}
    Outcomes = {"succeeded"}
    MaxRelayFaults = 1
    MaxTimeouts = 0
    MaxWorkerFaults = 2
INVARIANTS
    TypeOK
    AcceptedIsInHand
PROPERTIES
    ImplementsPromise
    AcceptedConcludes
    PaidComesToRest
