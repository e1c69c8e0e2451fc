----------------------------- MODULE EntryStore -----------------------------
(***************************************************************************)
(* The SQLite ledger-entry database of ledgerentry_storage/db.go: the      *)
(* committed ledger_entries rows and LatestLedgerSequence metadata row,    *)
(* one ledgerUpdaterTx at a time (SQLite has a single writer) with its     *)
(* keyToEntryBatch buffer, and a reader running GetLedgerEntry in a        *)
(* read-only transaction concurrently with the writer.                     *)
(*                                                                         *)
(* The writer's caller (not in this snapshot, so spec-modelled) writes the *)
(* entry changes of ledger `next` (the keys whose value differs from the   *)
(* previous ledger) in any order, then calls Done; on an error it starts   *)
(* again with the same ledger.  Encoded keys and entries are abstracted to *)
(* model values; a batch maps keys to an entry or to NoEntry (nil, delete). *)
(***************************************************************************)
EXTENDS Naturals, FiniteSets, TLC

CONSTANTS
    Keys, Vals,
    NoEntry,        \* nil in keyToEntryBatch / no row for the key
    History,        \* [0 .. MaxLedger -> [Keys -> Vals \cup {NoEntry}]]
    MaxLedger,      \* last ledger the caller writes (bound)
    MaxBatchSize    \* NewLedgerEntryUpdaterTx(_, maxBatchSize)

ASSUME NoEntry \notin Vals
ASSUME MaxBatchSize \in Nat

VARIABLES
    committed,      \* ledger_entries as committed
    latest,         \* LatestLedgerSequence; 0 = no row (ErrEmptyDB)
    tx,             \* "open" while a ledgerUpdaterTx is live, else "none"
    forSeq,         \* ledgerUpdaterTx.forLedgerSequence
    txRows,         \* ledger_entries as seen inside the open write tx
    batch,          \* ledgerUpdaterTx.keyToEntryBatch
    pending,        \* keys of the ledger the caller has still to write
    next,           \* the ledger the caller writes next
    rd              \* the reader: [pc, key, seq, snap, val]

vars == <<committed, latest, tx, forSeq, txRows, batch, pending, next, rd>>
writerVars == <<tx, forSeq, txRows, batch, pending, next>>

EmptyBatch == [k \in {} |-> NoEntry]
Entries == Vals \cup {NoEntry}

\* The keys whose entry ledger l creates, updates or removes.
ChangedKeys(l) == {k \in Keys : History[l][k] # History[l - 1][k]}

---------------------------------------------------------------------------
(* The writer: ledgerUpdaterTx *)

\* flushLedgerEntryBatch: one REPLACE for the non-nil entries and one
\* DELETE for the nil ones, inside the write transaction.
Flush(r, b) == [k \in Keys |-> IF k \in DOMAIN b THEN b[k] ELSE r[k]]

\* NewLedgerEntryUpdaterTx(next, maxBatchSize): BeginTxx and an empty batch.
NewLedgerEntryUpdaterTx ==
    /\ tx = "none"
    /\ next <= MaxLedger
    /\ tx' = "open"
    /\ forSeq' = next
    /\ txRows' = committed
    /\ batch' = EmptyBatch
    /\ pending' = ChangedKeys(next)
    /\ UNCHANGED <<committed, latest, next, rd>>

\* Mutant: the batch is flushed but not reset afterwards.
UpsertNoReset(k) ==
    /\ tx = "open"
    /\ k \in pending
    /\ History[forSeq][k] # NoEntry
    /\ LET b == (k :> History[forSeq][k]) @@ batch
       IN /\ batch' = b
          /\ IF Cardinality(DOMAIN b) >= MaxBatchSize
             THEN txRows' = Flush(txRows, b) ELSE UNCHANGED txRows
    /\ pending' = pending \ {k}
    /\ UNCHANGED <<committed, latest, tx, forSeq, next, rd>>

\* Store the entry in the batch; flush and reset it once it holds
\* maxBatchSize keys.
UpsertLedgerEntry(k) ==
    /\ tx = "open"
    /\ k \in pending
    /\ History[forSeq][k] # NoEntry
    /\ LET b == (k :> History[forSeq][k]) @@ batch
       IN IF Cardinality(DOMAIN b) >= MaxBatchSize
          THEN txRows' = Flush(txRows, b) /\ batch' = EmptyBatch
          ELSE batch' = b /\ UNCHANGED txRows
    /\ pending' = pending \ {k}
    /\ UNCHANGED <<committed, latest, tx, forSeq, next, rd>>

\* Store nil in the batch; flush and reset it once it holds more than
\* maxBatchSize keys.
DeleteLedgerEntry(k) ==
    /\ tx = "open"
    /\ k \in pending
    /\ History[forSeq][k] = NoEntry
    /\ LET b == (k :> NoEntry) @@ batch
       IN IF Cardinality(DOMAIN b) > MaxBatchSize
          THEN txRows' = Flush(txRows, b) /\ batch' = EmptyBatch
          ELSE batch' = b /\ UNCHANGED txRows
    /\ pending' = pending \ {k}
    /\ UNCHANGED <<committed, latest, tx, forSeq, next, rd>>

\* An error in encodeLedgerKey, the marshalling, a flush, done() or
\* tx.Commit(): the transaction is rolled back (or never committed) and
\* the caller retries the same ledger.
WriteFail ==
    /\ tx = "open"
    /\ tx' = "none"
    /\ UNCHANGED <<committed, latest, forSeq, txRows, batch, pending, next, rd>>

\* Mutant: done() commits without flushing the last batch.
DoneWithoutFlush ==
    /\ tx = "open"
    /\ pending = {}
    /\ committed' = txRows
    /\ latest' = forSeq
    /\ tx' = "none"
    /\ next' = forSeq + 1
    /\ UNCHANGED <<forSeq, txRows, batch, pending, rd>>

\* Done: done() flushes the last batch and upserts LatestLedgerSequence,
\* tx.Commit() publishes both, then the WAL checkpoint hook runs.  A hook
\* error is returned although the ledger is committed: the caller then
\* retries the ledger it has already written.
Done ==
    /\ tx = "open"
    /\ pending = {}
    /\ committed' = Flush(txRows, batch)
    /\ latest' = forSeq
    /\ tx' = "none"
    /\ \/ next' = forSeq + 1     \* postWriteCommitHook returned nil
       \/ UNCHANGED next         \* postWriteCommitHook returned an error
    /\ UNCHANGED <<forSeq, txRows, batch, pending, rd>>

---------------------------------------------------------------------------
(* The reader: GetLedgerEntry in one read-only transaction.  Under WAL the *)
(* transaction reads one snapshot, fixed by its first SELECT.              *)

\* Mutant: no ErrEmptyDB; an absent row reads as sequence 0.
GetLatestLedgerSequenceNoEmptyCheck(k) ==
    /\ rd.pc \in {"idle", "done"}
    /\ rd' = [pc |-> "snap", key |-> k, seq |-> latest, snap |-> committed, val |-> NoEntry]
    /\ UNCHANGED <<committed, latest, writerVars>>

\* getLatestLedgerSequence(tx); ErrEmptyDB when there is no row.
GetLatestLedgerSequence(k) ==
    /\ rd.pc \in {"idle", "done"}
    /\ latest # 0
    /\ rd' = [pc |-> "snap", key |-> k, seq |-> latest, snap |-> committed, val |-> NoEntry]
    /\ UNCHANGED <<committed, latest, writerVars>>

\* Mutant: the entry is read outside the transaction of the sequence.
GetLedgerEntryOutsideTx ==
    /\ rd.pc = "snap"
    /\ rd' = [rd EXCEPT !.pc = "done", !.val = committed[rd.key]]
    /\ UNCHANGED <<committed, latest, writerVars>>

\* getLedgerEntry: the key's row in the rows the transaction reads, NoEntry
\* for sql.ErrNoRows.  The key is the primary key, so the panic on several
\* rows cannot happen and the rows are a function of the key.
getLedgerEntry(rows, key) == rows[key]

\* GetLedgerEntry: getLedgerEntry in the same transaction; a missing row is
\* returned as "not found" at the same sequence.
GetLedgerEntry ==
    /\ rd.pc = "snap"
    /\ rd' = [rd EXCEPT !.pc = "done", !.val = getLedgerEntry(rd.snap, rd.key)]
    /\ UNCHANGED <<committed, latest, writerVars>>

---------------------------------------------------------------------------

Init ==
    /\ committed = History[0]
    /\ latest = 0
    /\ tx = "none"
    /\ forSeq = 0
    /\ txRows = committed
    /\ batch = EmptyBatch
    /\ pending = {}
    /\ next = 1
    /\ rd = [pc |-> "idle", key |-> CHOOSE k \in Keys : TRUE, seq |-> 0,
             snap |-> committed, val |-> NoEntry]

Next ==
    \/ NewLedgerEntryUpdaterTx
    \/ \E k \in Keys : UpsertLedgerEntry(k) \/ DeleteLedgerEntry(k)
    \/ WriteFail
    \/ Done
    \/ \E k \in Keys : GetLatestLedgerSequence(k)
    \/ GetLedgerEntry

Spec == Init /\ [][Next]_vars

---------------------------------------------------------------------------
(* Properties *)

TypeOK ==
    /\ committed \in [Keys -> Entries]
    /\ txRows \in [Keys -> Entries]
    /\ latest \in 0 .. MaxLedger
    /\ tx \in {"none", "open"}
    /\ batch \in UNION {[D -> Entries] : D \in SUBSET Keys}
    /\ pending \subseteq Keys
    /\ next \in 1 .. MaxLedger + 1
    /\ rd.pc \in {"idle", "snap", "done"}
    /\ rd.pc # "idle" => rd.seq \in 1 .. MaxLedger

(* The batch never holds more than maxBatchSize keys when an upsert or a   *)
(* delete returns: the two flush thresholds (>= in upsertLedgerEntry, >    *)
(* in deleteLedgerEntry) and the reset after each flush keep the buffer    *)
(* bounded over any sequence of writes in one transaction.                 *)
BatchBounded == Cardinality(DOMAIN batch) <= MaxBatchSize

(* The database implements EntryStoreAbstract: its committed rows and     *)
(* LatestLedgerSequence move only together, one whole ledger at a time,   *)
(* whatever the batching, the rollbacks, and the retries after a hook     *)
(* error that follows a successful commit (ledgerUpdaterTx, Done).         *)
A == INSTANCE EntryStoreAbstract WITH rows <- committed, latest <- latest
ImplementsAbstract == A!Spec

(* GetLedgerEntry returns an entry and a sequence that belong together:   *)
(* the entry is the key's entry in the ledger whose sequence it reports,  *)
(* although the writer commits between the two SELECTs.                   *)
ReadConsistent ==
    rd.pc = "done" => rd.val = History[rd.seq][rd.key]

=============================================================================
