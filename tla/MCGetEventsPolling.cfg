\* A client polling after every ledger loses its place when its filter matches nothing for a whole window.
CONSTANTS
    c1 = c1
    c2 = c2
    transfer = transfer
    number = number
    Wildcard = Wildcard
    RetentionWindow = 2
    MaxLedger = 5
    FirstLedgers = {1}
    LedgerMetas <- MCLedgerMetas
    EventContent <- MCEventContent
    Requests <- MCRequests
SPECIFICATION PollingSpec
INVARIANT
    PollingClientKeepsPlace
