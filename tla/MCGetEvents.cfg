\* getEvents paging while the event store ingests and evicts (window 2).
CONSTANTS
    c1 = c1
    c2 = c2
    transfer = transfer
    number = number
    Wildcard = Wildcard
    RetentionWindow = 2
    MaxLedger = 5
    FirstLedgers = {1, 2}
    LedgerMetas <- MCLedgerMetas
    EventContent <- MCEventContent
    Requests <- MCRequests
SPECIFICATION Spec
INVARIANTS
    TypeOK
    PagingExact
