\* Batches of two keys: the upsert threshold (>=) and the delete threshold
\* (>) are both reached by the history.
CONSTANTS
    k1 = k1
    k2 = k2
    k3 = k3
    v1 = v1
    v2 = v2
    Keys = {k1, k2, k3}
    Vals = {v1, v2}
    NoEntry = NoEntry
    MaxLedger = 3
    History <- MCHistory
    MaxBatchSize = 2
SPECIFICATION Spec
INVARIANTS
    TypeOK
    BatchBounded
    ReadConsistent
PROPERTIES
    ImplementsAbstract
