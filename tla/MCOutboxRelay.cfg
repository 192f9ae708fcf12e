SPECIFICATION FairSpec
CONSTANTS
    r1 = r1
    r2 = r2
    job1 = job1
    job2 = job2
    webhook = webhook
    None = None
    Relays = {r1, r2}
    Events = {webhook, job1, job2}
    CreatedAt <- Order
    Relayed = {job1, job2}
    MaxFaults = 2
    MaxTimeouts = 1
INVARIANTS
    TypeOK
    ProcessedIsPublished
    DuplicatesAreAccountedFor
PROPERTIES
    EveryJobIsPublished
    EveryJobIsSettled
