SPECIFICATION FairSpec
CONSTANTS
    q1 = q1
    q2 = q2
    None = None
    Requests = {q1, q2}
INVARIANTS
    TypeOK
    ResourcesOutliveTheirUsers
    CleanExitIsEarned
PROPERTIES
    FailureEndsTheProcess
