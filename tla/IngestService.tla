---------------------------- MODULE IngestService ----------------------------
(***************************************************************************)
(* The ingestion service (ingest/service.go, and its retrying variant in   *)
(* unnamed/part_001) with the stores it drives:                            *)
(*   - the SQLite ledger-entry database: its committed rows, the           *)
(*     LatestLedgerSequence metadata row, and SQLite's single write lock;  *)
(*   - the in-memory event store and transaction store: windows of         *)
(*     per-ledger buckets (LedgerBucketWindow), whose Append panics on a   *)
(*     ledger that does not follow the newest one;                         *)
(*   - the driver goroutine running run() (maybeFillEntriesFromCheckpoint, *)
(*     PrepareRange, the wait on checkPointFillErr, the ingest loop) under *)
(*     backoff.RetryNotify;                                                *)
(*   - one checkpoint-fill goroutine per run() that found the DB empty;    *)
(*   - Close() cancelling the shared context, and the process being        *)
(*     killed (or exiting on Fatal) and started again.                     *)
(*                                                                         *)
(* The network is a constant history of ledger states; `tip` is the newest *)
(* closed ledger.  A ledger's entry changes are the keys whose value       *)
(* differs from the previous ledger; a checkpoint yields every live entry  *)
(* of its ledger.  Bucket contents are abstracted to the ledger number.    *)
(***************************************************************************)
EXTENDS Naturals, Sequences, FiniteSets, TLC

CONSTANTS
    Keys, Vals,
    NoEntry,          \* no row for the key
    MaxLedger,        \* the network closes ledgers up to here (bound)
    History,          \* [0 .. MaxLedger -> [Keys -> Vals \cup {NoEntry}]]
    Checkpoints,      \* ledgers published as history-archive checkpoints
    InitialTips,      \* newest closed ledger when the model starts
    RetentionWindow,  \* event/transaction retention window
    MaxRetries,       \* backoff.WithMaxRetries(_, 5); 0 = service.go
    MaxRestarts       \* process kills / restarts after Fatal (bound)

ASSUME NoEntry \notin Vals
ASSUME Checkpoints \subseteq 1 .. MaxLedger
ASSUME \A t \in InitialTips : \E c \in Checkpoints : c <= t
ASSUME MaxRetries \in Nat /\ MaxRestarts \in Nat

W == INSTANCE LedgerBucketWindow

Attempts == 1 .. MaxRetries + 1      \* run() calls in one process lifetime
\* Holders of the SQLite write lock.
Ingest      == [by |-> "ingest", id |-> 0]   \* the driver's ingest tx
NoWriter    == [by |-> "none", id |-> 0]
FillTx(a)   == [by |-> "fill", id |-> a]     \* the fill tx of run() number a

VARIABLES
    rows,         \* ledger_entries: key -> entry (committed)
    dbLatest,     \* LatestLedgerSequence metadata; 0 = row absent (ErrEmptyDB)
    lock,         \* SQLite write lock: NoWriter, Ingest or a fill attempt
    txRows,       \* rows as seen inside the driver's open ingest tx
    events,       \* eventStore.eventsByLedger
    txs,          \* transactionStore window
    pc,           \* driver goroutine control point
    attempt,      \* number of the current run() call
    nextSeq,      \* nextLedgerSeq in run()
    errKind,      \* the error run() returned: "canceled" or "other"
    fill,         \* attempt -> checkpoint-fill goroutine [state, cp]
    cancelled,    \* the service context was cancelled by Close()
    closing,      \* "open", "closing" (Close waiting on wg), "closed"
    tip,          \* newest ledger closed by the network
    restarts      \* process restarts so far

vars == <<rows, dbLatest, lock, txRows, events, txs, pc, attempt, nextSeq,
          errKind, fill, cancelled, closing, tip, restarts>>
dbVars    == <<rows, dbLatest, lock, txRows>>
storeVars == <<events, txs>>
envVars   == <<cancelled, closing, tip, restarts>>

PCs == {"run", "prepare", "waitFill", "getLedger", "events", "txs", "commit",
        "failed", "stopped", "fatal", "panic"}
FillStates == {"none", "reading", "writing", "ok", "err"}
NoFill == [state |-> "none", cp |-> 0]

---------------------------------------------------------------------------
(* Data helpers *)

\* The errors a failing call may return: context.Canceled only once the
\* context is cancelled, and any call may fail for its own reasons.
ErrKinds == IF cancelled THEN {"canceled", "other"} ELSE {"other"}

\* The history archive root: the newest checkpoint not after the tip.
LatestCheckpoint == CHOOSE c \in Checkpoints : c <= tip /\ \A d \in Checkpoints : d <= tip => d <= c

\* ingestLedgerEntryChanges over a checkpoint reader: every live entry of
\* ledger cp is upserted; rows it does not mention are left as they are.
ApplyCheckpoint(r, cp) == [k \in Keys |-> IF History[cp][k] # NoEntry THEN History[cp][k] ELSE r[k]]

\* ingestLedgerEntryChanges over a ledger change reader: created and
\* updated entries are upserted, removed entries deleted.
ApplyLedger(r, l) == [k \in Keys |-> IF History[l][k] # History[l - 1][k] THEN History[l][k] ELSE r[k]]

---------------------------------------------------------------------------
(* The driver goroutine: run() *)

\* An error return from run(): GetLatestLedgerSequence or GetRootHAS in
\* maybeFill, PrepareRange, or any step of ingest (GetLedger, the readers,
\* NewTx, a write, InsertLedger, IngestEvents, IngestTransactions, Commit);
\* a cancelled context makes the context-aware ones fail.  The deferred
\* tx.Rollback() releases the write lock if the ingest tx held it.
Fail ==
    /\ pc \in {"run", "prepare", "getLedger", "events", "txs", "commit"}
    /\ pc' = "failed"
    /\ lock' = IF lock = Ingest THEN NoWriter ELSE lock
    /\ errKind' \in ErrKinds
    /\ UNCHANGED <<rows, dbLatest, txRows, storeVars, attempt, nextSeq, fill, envVars>>

\* Mutant: the fill starts whatever GetLatestLedgerSequence returned.
MaybeFillIgnoringDB ==
    /\ pc = "run"
    /\ ~cancelled
    /\ fill' = [fill EXCEPT ![attempt] = [state |-> "reading", cp |-> LatestCheckpoint]]
    /\ nextSeq' = LatestCheckpoint + 1
    /\ pc' = "prepare"
    /\ UNCHANGED <<dbVars, storeVars, attempt, envVars, errKind>>

\* maybeFillEntriesFromCheckpoint on an empty DB (GetLatestLedgerSequence
\* returned ErrEmptyDB): read the archive root,
\* start the fill goroutine, and continue from the checkpoint's successor.
MaybeFillFromCheckpoint ==
    /\ pc = "run"
    /\ ~cancelled
    /\ dbLatest = 0
    /\ fill' = [fill EXCEPT ![attempt] = [state |-> "reading", cp |-> LatestCheckpoint]]
    /\ nextSeq' = LatestCheckpoint + 1
    /\ pc' = "prepare"
    /\ UNCHANGED <<dbVars, storeVars, attempt, envVars, errKind>>

\* Mutant: ingestion continues two ledgers after the stored latest one.
MaybeFillSkipOffByOne ==
    /\ pc = "run"
    /\ ~cancelled
    /\ dbLatest # 0
    /\ fill' = [fill EXCEPT ![attempt] = [state |-> "ok", cp |-> 0]]
    /\ nextSeq' = dbLatest + 2
    /\ pc' = "prepare"
    /\ UNCHANGED <<dbVars, storeVars, attempt, envVars, errKind>>

\* maybeFillEntriesFromCheckpoint on an initialised DB: nil is sent on the
\* channel and ingestion continues after the stored latest ledger.
MaybeFillSkip ==
    /\ pc = "run"
    /\ ~cancelled
    /\ dbLatest # 0
    /\ fill' = [fill EXCEPT ![attempt] = [state |-> "ok", cp |-> 0]]
    /\ nextSeq' = dbLatest + 1
    /\ pc' = "prepare"
    /\ UNCHANGED <<dbVars, storeVars, attempt, envVars, errKind>>

\* ledgerBackend.PrepareRange(UnboundedRange(nextLedgerSeq)) returned nil.
PrepareRange ==
    /\ pc = "prepare"
    /\ ~cancelled
    /\ pc' = "waitFill"
    /\ UNCHANGED <<dbVars, storeVars, attempt, nextSeq, fill, envVars, errKind>>

\* <-checkPointFillErr: the fill of this run() finished.  This receive does
\* not watch the context; it ends when the fill goroutine sends.
WaitCheckpointFill ==
    /\ pc = "waitFill"
    /\ fill[attempt].state = "ok"
    /\ pc' = "getLedger"
    /\ UNCHANGED <<dbVars, storeVars, attempt, nextSeq, fill, envVars, errKind>>

\* The fill reported an error: run() returns it.
WaitCheckpointFillErr ==
    /\ pc = "waitFill"
    /\ fill[attempt].state = "err"
    /\ pc' = "failed"
    /\ errKind' \in ErrKinds
    /\ UNCHANGED <<dbVars, storeVars, attempt, nextSeq, fill, envVars>>

\* Mutant: GetLedger waits for a ledger after the requested one.
IngestLedgerEntryChangesLate ==
    /\ pc = "getLedger"
    /\ ~cancelled
    /\ nextSeq < tip
    /\ lock = NoWriter
    /\ lock' = Ingest
    /\ txRows' = ApplyLedger(rows, nextSeq)
    /\ pc' = "events"
    /\ UNCHANGED <<rows, dbLatest, storeVars, attempt, nextSeq, fill, envVars, errKind>>

(* ingest(sequence), first part: GetLedger blocks until the network has   *)
(* closed the ledger; then the change reader, NewTx and                   *)
(* ingestLedgerEntryChanges write the ledger's changes in the open write  *)
(* transaction, which takes SQLite's write lock.  (A busy lock makes the  *)
(* write fail after the busy timeout: that is Fail.)                       *)
IngestLedgerEntryChanges ==
    /\ pc = "getLedger"
    /\ ~cancelled
    /\ nextSeq <= tip
    /\ lock = NoWriter
    /\ lock' = Ingest
    /\ txRows' = ApplyLedger(rows, nextSeq)
    /\ pc' = "events"
    /\ UNCHANGED <<rows, dbLatest, storeVars, attempt, nextSeq, fill, envVars, errKind>>

\* ingestLedgerCloseMeta: InsertLedger in the tx, then
\* eventStore.IngestEvents appends the ledger's bucket under its lock,
\* visible to readers at once; a non-contiguous ledger panics.
IngestEvents ==
    /\ pc = "events"
    /\ IF W!AppendAccepts(events, W!Bucket(nextSeq, nextSeq))
       THEN /\ events' = W!WindowAppend(events, W!Bucket(nextSeq, nextSeq), RetentionWindow)
            /\ pc' = "txs"
       ELSE /\ pc' = "panic"
            /\ UNCHANGED events
    /\ UNCHANGED <<dbVars, txs, attempt, nextSeq, fill, envVars, errKind>>

\* Mutant: ingestLedgerCloseMeta does not feed the transaction store.
IngestTransactionsSkipped ==
    /\ pc = "txs"
    /\ pc' = "commit"
    /\ UNCHANGED <<dbVars, storeVars, attempt, nextSeq, fill, envVars, errKind>>

\* transactionStore.IngestTransactions: the same window discipline.
IngestTransactions ==
    /\ pc = "txs"
    /\ IF W!AppendAccepts(txs, W!Bucket(nextSeq, nextSeq))
       THEN /\ txs' = W!WindowAppend(txs, W!Bucket(nextSeq, nextSeq), RetentionWindow)
            /\ pc' = "commit"
       ELSE /\ pc' = "panic"
            /\ UNCHANGED txs
    /\ UNCHANGED <<dbVars, events, attempt, nextSeq, fill, envVars, errKind>>

\* tx.Commit(sequence): the rows and LatestLedgerSequence become visible
\* together; the loop moves to the next ledger.
CommitLedger ==
    /\ pc = "commit"
    /\ ~cancelled
    /\ rows' = txRows
    /\ dbLatest' = nextSeq
    /\ lock' = NoWriter
    /\ nextSeq' = nextSeq + 1
    /\ pc' = "getLedger"
    /\ UNCHANGED <<txRows, storeVars, attempt, fill, envVars, errKind>>

\* Mutant: the retry loop stops only on a context.Canceled error.
RetryStopOnCanceledOnly ==
    /\ pc = "failed"
    /\ cancelled
    /\ errKind = "canceled"
    /\ pc' = "stopped"
    /\ UNCHANGED <<dbVars, storeVars, attempt, nextSeq, fill, envVars, errKind>>

\* Mutant: one retry more than the budget allows.
RetryRunOffByOne ==
    /\ pc = "failed"
    /\ ~cancelled
    /\ attempt <= MaxRetries + 1
    /\ attempt' = attempt + 1
    /\ pc' = "run"
    /\ UNCHANGED <<dbVars, storeVars, nextSeq, fill, envVars, errKind>>

(* backoff.RetryNotify after run() returned an error: a cancelled context  *)
(* ends the retries with ctx.Err() (not logged as fatal; wg.Done runs);   *)
(* otherwise run() is called again after the constant back-off while      *)
(* retries remain, and the error is logged with Fatal once they are       *)
(* exhausted (os.Exit).  The retry budget counts every failure of the     *)
(* process's lifetime: nothing resets it after progress.  service.go      *)
(* (MaxRetries = 0) has no back-off: it logs Fatal unless the error is    *)
(* context.Canceled.                                                      *)
RetryStop ==
    /\ pc = "failed"
    /\ cancelled
    /\ MaxRetries > 0 \/ errKind = "canceled"
    /\ pc' = "stopped"
    /\ UNCHANGED <<dbVars, storeVars, attempt, nextSeq, fill, envVars, errKind>>

RetryRun ==
    /\ pc = "failed"
    /\ ~cancelled
    /\ attempt <= MaxRetries
    /\ attempt' = attempt + 1
    /\ pc' = "run"
    /\ UNCHANGED <<dbVars, storeVars, nextSeq, fill, envVars, errKind>>

RetryExhausted ==
    /\ pc = "failed"
    /\ ~cancelled \/ (MaxRetries = 0 /\ errKind = "other")
    /\ attempt > MaxRetries
    /\ pc' = "fatal"
    /\ UNCHANGED <<dbVars, storeVars, attempt, nextSeq, fill, envVars, errKind>>

---------------------------------------------------------------------------
(* The checkpoint-fill goroutine of run() number a:                       *)
(* fillEntriesFromCheckpoint.  It uses the service context, not a context *)
(* of its run(), so it outlives a run() that returned early.               *)

\* NewCheckpointChangeReader, NewTx and the upserts of every checkpoint
\* entry: the write transaction takes the write lock.
FillWrite(a) ==
    /\ fill[a].state = "reading"
    /\ ~cancelled
    /\ lock = NoWriter
    /\ lock' = FillTx(a)
    /\ fill' = [fill EXCEPT ![a].state = "writing"]
    /\ UNCHANGED <<rows, dbLatest, txRows, storeVars, pc, attempt, nextSeq, envVars, errKind>>

\* reader.Close() and tx.Commit(checkpointLedger); nil is sent on the channel.
FillCommit(a) ==
    /\ fill[a].state = "writing"
    /\ ~cancelled
    /\ rows' = ApplyCheckpoint(rows, fill[a].cp)
    /\ dbLatest' = fill[a].cp
    /\ lock' = NoWriter
    /\ fill' = [fill EXCEPT ![a].state = "ok"]
    /\ UNCHANGED <<txRows, storeVars, pc, attempt, nextSeq, envVars, errKind>>

\* Any step failing (archive, busy lock, commit, or the context being
\* cancelled): the deferred Rollback releases the lock, the error is sent.
FillFail(a) ==
    /\ fill[a].state \in {"reading", "writing"}
    /\ fill' = [fill EXCEPT ![a].state = "err"]
    /\ lock' = IF lock = FillTx(a) THEN NoWriter ELSE lock
    /\ UNCHANGED <<rows, dbLatest, txRows, storeVars, pc, attempt, nextSeq, envVars, errKind>>

---------------------------------------------------------------------------
(* Environment *)

\* The network closes the next ledger.
NetworkClose ==
    /\ tip < MaxLedger
    /\ tip' = tip + 1
    /\ UNCHANGED <<dbVars, storeVars, pc, attempt, nextSeq, fill, cancelled, closing, restarts, errKind>>

\* Close(): cancel the context, then wait for the driver's wg.Done (called
\* by the daemon on shutdown, so only while the process is alive).
Close ==
    /\ closing = "open"
    /\ pc \notin {"fatal", "panic"}
    /\ cancelled' = TRUE
    /\ closing' = "closing"
    /\ UNCHANGED <<dbVars, storeVars, pc, attempt, nextSeq, fill, tip, restarts, errKind>>

CloseReturns ==
    /\ closing = "closing"
    /\ pc = "stopped"
    /\ closing' = "closed"
    /\ UNCHANGED <<dbVars, storeVars, pc, attempt, nextSeq, fill, cancelled, tip, restarts, errKind>>

\* The process is killed, or has exited on Fatal or panic, and is started
\* again: every goroutine and the in-memory stores are gone, SQLite drops
\* the uncommitted transaction; the committed rows survive.
Restart ==
    /\ restarts < MaxRestarts
    /\ closing = "open"
    /\ restarts' = restarts + 1
    /\ lock' = NoWriter
    /\ events' = <<>>
    /\ txs' = <<>>
    /\ pc' = "run"
    /\ attempt' = 1
    /\ fill' = [a \in Attempts |-> NoFill]
    /\ UNCHANGED <<rows, dbLatest, txRows, nextSeq, cancelled, closing, tip, errKind>>

---------------------------------------------------------------------------

Init ==
    /\ rows = [k \in Keys |-> NoEntry]
    /\ dbLatest = 0
    /\ lock = NoWriter
    /\ txRows = rows
    /\ events = <<>>
    /\ txs = <<>>
    /\ pc = "run"
    /\ attempt = 1
    /\ nextSeq = 0
    /\ errKind = "other"
    /\ fill = [a \in Attempts |-> NoFill]
    /\ cancelled = FALSE
    /\ closing = "open"
    /\ tip \in InitialTips
    /\ restarts = 0

\* The steps the driver always takes when they are enabled.
DriverStep ==
    \/ MaybeFillFromCheckpoint \/ MaybeFillSkip \/ PrepareRange
    \/ WaitCheckpointFill \/ WaitCheckpointFillErr
    \/ IngestLedgerEntryChanges \/ IngestEvents \/ IngestTransactions \/ CommitLedger
    \/ RetryStop \/ RetryRun \/ RetryExhausted

Next ==
    \/ DriverStep
    \/ Fail
    \/ \E a \in Attempts : FillWrite(a) \/ FillCommit(a) \/ FillFail(a)
    \/ NetworkClose \/ Close \/ CloseReturns \/ Restart

(* Fairness: the Go scheduler runs every runnable goroutine, so the       *)
(* driver and each fill goroutine take their enabled success steps; a     *)
(* goroutine whose context is cancelled does fail (GetLedger, PrepareRange *)
(* and the fill's reader and transaction all watch the context); Close    *)
(* returns once wg.Done ran; the network keeps closing ledgers.  Failures *)
(* other than cancellation, Close and restarts are never forced.          *)
CancelledFail == cancelled /\ Fail
CancelledFill(a) == cancelled /\ FillFail(a)

Fairness ==
    /\ WF_vars(DriverStep)
    /\ WF_vars(CancelledFail)
    /\ \A a \in Attempts : WF_vars(FillWrite(a) \/ FillCommit(a) \/ CancelledFill(a))
    /\ WF_vars(CloseReturns)
    /\ WF_vars(NetworkClose)

Spec == Init /\ [][Next]_vars /\ Fairness

---------------------------------------------------------------------------
(* Properties *)

TypeOK ==
    /\ rows \in [Keys -> Vals \cup {NoEntry}]
    /\ txRows \in [Keys -> Vals \cup {NoEntry}]
    /\ dbLatest \in 0 .. MaxLedger
    /\ lock \in {NoWriter, Ingest} \cup {FillTx(a) : a \in Attempts}
    /\ pc \in PCs
    /\ attempt \in Attempts
    /\ nextSeq \in 0 .. MaxLedger + 1
    /\ errKind \in {"canceled", "other"}
    /\ fill \in [Attempts -> [state : FillStates, cp : {0} \cup Checkpoints]]
    /\ closing \in {"open", "closing", "closed"}
    /\ tip \in 0 .. MaxLedger
    /\ restarts \in 0 .. MaxRestarts

\* The newest ledger of a non-empty window.
Newest(w) == w[Len(w)].ledgerSeq

(* Whenever the DB holds a latest ledger, its rows are exactly the ledger  *)
(* entries of that ledger on the network: the checkpoint fill and every   *)
(* later ingest commit apply exactly the changes needed, in order, and    *)
(* nothing else writes the rows (fillEntriesFromCheckpoint, ingest,        *)
(* maybeFillEntriesFromCheckpoint's choice of where to continue).          *)
EntriesMatchLedger ==
    dbLatest # 0 => rows = History[dbLatest]

(* LatestLedgerSequence never moves backwards: readers of                 *)
(* GetLedgerEntry never see an older ledger after a newer one.             *)
LatestNeverRegresses == [][dbLatest' >= dbLatest]_dbLatest

(* Between two ledgers of the ingest loop the event store and the          *)
(* transaction store end at the DB's latest ledger and hold the same       *)
(* ledgers: a retry or restart neither loses nor repeats a ledger in the   *)
(* in-memory stores (ingestLedgerCloseMeta, Commit, run's restart point).  *)
StoresInStep ==
    pc = "getLedger" /\ events # <<>> =>
        /\ Newest(events) = dbLatest
        /\ W!WindowLedgers(txs) = W!WindowLedgers(events)

(* spec.md I4: the event store never holds a ledger whose entry-store      *)
(* transaction has not committed (stage-then-commit), so readers never see *)
(* events of a ledger that may still be rolled back.                       *)
EventsNotAheadOfEntries ==
    events # <<>> => Newest(events) <= dbLatest

(* Close() returns unless the process died first (Fatal or a panic): once  *)
(* the context is cancelled every blocking point of run() (GetLedger,      *)
(* PrepareRange, the fill goroutine behind the channel receive) ends, the  *)
(* retry loop stops instead of retrying, and wg.Wait returns.              *)
CloseCompletes ==
    closing = "closing" ~> (closing = "closed" \/ pc \in {"fatal", "panic"})

(* A transient error is absorbed by the retry: ingestion never panics.     *)
NoIngestionPanic == pc # "panic"

(* Every ledger the network closes is eventually committed to the DB,     *)
(* unless the service stopped: Close, Fatal after the retries, or a panic. *)
Progress ==
    \A l \in 1 .. MaxLedger :
        tip >= l ~> (dbLatest >= l \/ pc \in {"stopped", "fatal", "panic"})

=============================================================================
