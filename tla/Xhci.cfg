SPECIFICATION Spec
CONSTANTS
    Size <- MCSize
    TdMax = 2
    MaxXfr = 2
    MaxPending = 1
    MaxEvents = 5
    Transfers <- MCTransfers
    MaxReports = 1
    Aborts = {}
    LateHalt = FALSE
    SlowRetire = FALSE
INVARIANTS
    SizeAccurate
    NothingLeftBehind
    OnePollInFlight
    FreedNotPolled
PROPERTIES
    CallsReturn
    PollingGoesOn
