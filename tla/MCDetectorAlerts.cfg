SPECIFICATION Spec
CONSTANTS
    MaxRows = 2
    MaxRuns = 2
INVARIANT FlaggedAreAlerted
CHECK_DEADLOCK FALSE
