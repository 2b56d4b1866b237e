SPECIFICATION FairSpec
CONSTANTS
    Hosts = {"github", "gitlab"}
    MaxRetries = 2
    MaxWait = 3
    MaxPages = 2
    MaxPolls = 3
    Delays = {0, 2, 3, 4}
INVARIANT TypeOK
INVARIANT NotBeforeAsked
INVARIANT WholeLists
INVARIANT PatienceIsBounded
PROPERTY EveryCallIsAHostCall
PROPERTY OperationEnds
