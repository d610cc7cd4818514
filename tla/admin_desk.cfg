SPECIFICATION Spec
CONSTANTS
    Me = me
    Users = {me, other}
    Starts <- CheckedStarts
    PageSize = 1
    Overlap = FALSE
    MaxCalls = 2
    MaxLoads = 1
    MaxRequests = 2
    MaxFaults = 1
INVARIANTS
    EnabledIsComplete
    
    NeverAnEmptyPage
CHECK_DEADLOCK FALSE
