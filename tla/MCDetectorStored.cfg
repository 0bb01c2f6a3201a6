SPECIFICATION Spec
CONSTANTS
    MaxRows = 2
    MaxRuns = 2
INVARIANT AlertedAreStored
CHECK_DEADLOCK FALSE
