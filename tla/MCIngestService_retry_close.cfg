\* part_001 (retrying service): Close() returns whatever run() was doing.
CONSTANTS
    k1 = k1
    k2 = k2
    v1 = v1
    v2 = v2
    Keys = {k1, k2}
    Vals = {v1, v2}
    NoEntry = NoEntry
    MaxLedger = 4
    History <- MCHistory
    Checkpoints = {1, 3}
    InitialTips = {1}
    RetentionWindow = 2
    MaxRetries = 1
    MaxRestarts = 0
SPECIFICATION Spec
PROPERTY CloseCompletes
CHECK_DEADLOCK FALSE
