SPECIFICATION FairSpec
CONSTANTS
    Contents = {c1, c2}
    NoContent = NoContent
    MaxDocs = 2
    MaxTasks = 3
    MaxRequests = 2
    MaxFaults = 1
INVARIANTS
    ReadyIsSearchable
PROPERTIES
    IngestRebuilds
    PageLearnsOfIngest
CHECK_DEADLOCK FALSE
