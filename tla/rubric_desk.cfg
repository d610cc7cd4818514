SPECIFICATION Spec
CONSTANTS
    MaxKey = 3
    FormOrders = {0}
    SeedOrders <- CheckedOrders
    MaxRows = 5
    MaxRequests = 2
    MaxSaves = 2
    MaxFaults = 1
INVARIANTS
    SavedIsCreated
PROPERTIES
    MoveSwaps
CHECK_DEADLOCK FALSE
