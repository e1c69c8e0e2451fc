\* service.go: events visible before the entry-store commit (spec.md I4).
CONSTANTS
    k1 = k1
    k2 = k2
    v1 = v1
    v2 = v2
    Keys = {k1, k2}
    Vals = {v1, v2}
    NoEntry = NoEntry
    MaxLedger = 4
    History <- MCHistory
    Checkpoints = {1, 3}
    InitialTips = {1}
    RetentionWindow = 2
    MaxRetries = 0
    MaxRestarts = 0
SPECIFICATION Spec
INVARIANT EventsNotAheadOfEntries
CHECK_DEADLOCK FALSE
