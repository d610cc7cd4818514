SPECIFICATION FairSpec
CONSTANTS
    Days = {1, 2}
    Files <- MCFiles
    Feeds <- MCFeeds
    MaxImports = 2
    MaxRequests = 1
    MaxFaults = 1
INVARIANTS
    
    CountsOfFilesAreTrue
PROPERTIES
    OnlySuperseded
    ListCatchesUp
    WizardCatchesUp
CHECK_DEADLOCK FALSE
