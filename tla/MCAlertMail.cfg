SPECIFICATION SpecOne
CONSTANTS
    BackPressure = 1
    MaxAlerts = 2
    MaxFaults = 2
INVARIANTS
    AlertsAccountedFor
    MailedOnce
    FlowsStarted
PROPERTY AlertsDrain
CHECK_DEADLOCK FALSE
