CONSTANTS
    Samples = {0, 1, 2, 3}
    windowLength = 6
    MaxRound = 14
SPECIFICATION Spec
INVARIANTS EstimatesOrdered RecentCovered
PROPERTIES BestIsRecent ImplementsMaxFilter
CHECK_DEADLOCK FALSE
