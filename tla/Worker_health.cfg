SPECIFICATION FairWorkerSpec
CONSTANTS
    FEBundles <- MCFEBundles
    MinInterval = 1
    AutoRecover = TRUE
    Debounce = 2
    Servers = 2
    QueryTimeout = 1
    PollInterval = 2
INVARIANTS
    GoingDownStays
    NoFalseAlarm
PROPERTIES
    RecoveryDebounced
    OutageIsReported
    DriftIsCleared
