\* service.go: no retry (MaxRetries = 0), one process restart.
CONSTANTS
    k1 = k1
    k2 = k2
    v1 = v1
    v2 = v2
    Keys = {k1, k2}
    Vals = {v1, v2}
    NoEntry = NoEntry
    MaxLedger = 4
    History <- MCHistory
    Checkpoints = {1, 3}
    InitialTips = {1}
    RetentionWindow = 2
    MaxRetries = 0
    MaxRestarts = 1
SPECIFICATION Spec
INVARIANTS
    TypeOK
    EntriesMatchLedger
    StoresInStep
PROPERTIES
    LatestNeverRegresses
    Progress
\* The driver blocks in GetLedger once the network bound is reached; Close,
\* Fatal and panic end the process.
CHECK_DEADLOCK FALSE
