CONSTANTS
    RetentionWindow = 2
    MaxLedger = 5
    FirstLedgers = {1, 2}
    LedgerMetas <- MCLedgerMetas
    StartCursors <- MCCursors
    EndCursors <- MCCursors
    Limits = {1, 10}
SPECIFICATION Spec
INVARIANTS
    TypeOK
    ScanMatchesReference
CHECK_DEADLOCK FALSE
