SPECIFICATION Spec
CONSTANTS
    None = None
    Unset = Unset
    Null = Null
    Bad = Bad
INVARIANTS
    EachTokenOnce
    CompletedMeansExported
    Throttled
    FilesKeepRows
    RoundTrip
    ReadAsMeant
    SettingsHold
    NothingLeftOpen
PROPERTY
    ExportEnds
CHECK_DEADLOCK FALSE
