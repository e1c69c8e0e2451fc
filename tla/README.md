# TLA+ models of soroban-rpc ingestion and storage

These are TLA+ models of the stateful core of `soroban-rpc`, checked with TLC:
- the in-memory event store;
- the SQLite ledger-entry database;
- the ingestion service that feeds both stores and the transaction store;
- the configuration options and their validation;
- the getEvents handler paging through the event store.

Every module is translated from the Go source under `src/`. `PROJECT.json` maps each definition to the lines it models. A few definitions model packages that this snapshot imports but does not contain: the bucket window, the event cursor, the transactions store, and `ingestLedgerEntryChanges`. Those follow `spec.md` and are marked `spec_modelled`.

## The system and how its parts interact

| Part | Source | State | Operations |
|---|---|---|---|
| Event store | `events/events.go` | `eventsByLedger`, a window of per-ledger buckets behind an RWMutex | `IngestEvents` (parse events outside the lock, then append under it); `Scan` (validate range, binary-search start, visit in cursor order) |
| Bucket window | not in src (spec 4.B) | ring buffer of buckets | `Append`: panics on a non-contiguous ledger, evicts the oldest bucket when full |
| Ledger-entry DB | `ledgerentry_storage/db.go` | `ledger_entries`, the `LatestLedgerSequence` row, SQLite's single write lock | `NewLedgerEntryUpdaterTx`, `Upsert/DeleteLedgerEntry` (batched, flushed at a threshold), `Done` (flush, latest row, commit, WAL-checkpoint hook), `GetLedgerEntry` / `GetLatestLedgerSequence` (read-only transactions) |
| Ingestion service | `ingest/service.go`; its retrying variant `unnamed/part_001` | driver goroutine; checkpoint-fill goroutine; service context | `run`, `maybeFillEntriesFromCheckpoint`, `fillEntriesFromCheckpoint`, `ingest`, `ingestLedgerCloseMeta`, `Close`; in part_001, `backoff.RetryNotify` with at most 5 retries |
| Daemon | `unnamed/part_002` | – | not modelled: the daemon of another version (`config.LocalConfig`, `LedgerEntryWriter`); process start is modelled from `NewService` in `part_001` |
| getEvents handler | not in src (spec 4.H, 4.I); its tests are in `methods/get_events_test.go` | none: a client holds its paging cursor | filter matching; `Scan` from `startLedger` or from one event after the cursor, returning the matching events up to the limit |
| Configuration | `config/options.go` | the `Config` struct | `CustomSetValue` of each option that has one; `ConfigOptions.Validate` with `required` and the events-limit check. |

The driver calls `run()`, which does the following:
1. It asks the DB for its latest ledger.
2. If the DB is empty, it starts a goroutine that fills the DB from the newest history-archive checkpoint.
3. It prepares the ledger backend.
4. It waits on the fill's channel.
5. It ingests ledger after ledger. `ingest(seq)` has these steps:
   - it waits for the ledger (`GetLedger`);
   - it writes the entry changes in a write transaction;
   - it appends the ledger to the event store and the transaction store;
   - it commits the transaction.

Both the ingestion service and the fill take SQLite's write lock. Readers (JSON-RPC handlers) scan the event store and read entries concurrently.

## Modules

| Module | Models | Notes |
|---|---|---|
| `LedgerBucketWindow` | the bucket window (spec-modelled) | A window is a sequence of `[ledgerSeq, content]`. The ring buffer's head offset cannot be observed through `Get`, so it is left out. |
| `EventStore` | `MemoryStore` | Variables `eventsByLedger`, `nextLedger`, `firstLedger`. The only action is `IngestEvents(txs)`: the next ledger carries any transaction set from `LedgerMetas`, and `readEvents` is translated as an operator. `Scan` is an operator (`validateRange`, `SortSearch` = `sort.Search`, `seek`, `Visit`). It is evaluated over every range in every reachable state, which is sound because `Scan` holds the read lock throughout. |
| `EntryStoreAbstract` | what the DB promises | The rows are those of ledger `latest`. The DB moves one whole ledger at a time. |
| `EntryStore` | `ledgerUpdaterTx`, plus a concurrent `GetLedgerEntry` | Variables: `committed`, `latest`, `tx`, `txRows` (the writes inside the open transaction), `batch` (`keyToEntryBatch`, with `NoEntry` standing for nil), `pending` (keys the caller still has to write), `next`, and the reader `rd`. Actions: `NewLedgerEntryUpdaterTx`, `UpsertLedgerEntry(k)`, `DeleteLedgerEntry(k)`, `WriteFail` (every error path: they roll back or never commit), `Done` (with the hook succeeding or failing after the commit), `GetLatestLedgerSequence(k)` (first SELECT, fixes the WAL snapshot), `GetLedgerEntry`. |
| `IngestService` | `service.go` and `part_001`, with the DB, both windows, the fill goroutines, Close and restarts | The constant `MaxRetries` selects the variant: 0 is `service.go` (Fatal unless Canceled), and >0 is the backoff loop. `pc` is the driver's control point. `fill[a]` is the fill goroutine of `run()` number `a`. `lock` holds SQLite's write lock. `Fail` is every error return of `run()`. `Restart` is a kill or exit followed by a new process: memory is lost, committed rows survive. Bucket contents are abstracted to the ledger number. Entry changes are the keys whose value in `History` differs from the previous ledger. |
| `Config` | `options.go` | Variables: `cfg` (the fields of the modelled options), `i` (the next option of the table), `phase` and `err`. The loader that feeds options from flags, environment and TOML is not in src: it is modelled as a pass over the table in which each option keeps its `DefaultValue` (`LeaveDefault`) or gets one input. Inputs go through the option's `CustomSetValue` (`SetLogLevel`, `SetCaptiveCoreStoragePath` with `os.Getwd` succeeding or failing, `SetHistoryArchiveURLs` with a recursive `strings.Split`) or are assigned as they are (`SetPlain`). `Validate` runs `ConfigOptions.Validate` as a recursive loop. A `[]string` is a record that tells nil from empty, as `reflect`'s `IsZero` does. The two retention windows go through `parseValue`'s `uint32` case (`SetParsed`), which stores any non-negative integer it accepts. The table has 10 options: the 8 that have a `CustomSetValue` or a `Validate`, or that a `Validate` reads, and the two windows. The `TOML` unmarshaller's receiver is not in src. The model assumes that the value it parses is stored. |

| `GetEvents` | the getEvents handler (spec-modelled) composed with `EventStore` | `EventStore` is instantiated, so the store is the one checked by the `event_store` run. Variables: the store's, `ingested` (every event cursor fed to the store, a history variable), the client's fixed `req`, its paging `cursor`, the events it has `received` and its `lastErr`. Actions: `Ingest(txs)` (`IngestEvents` on the next ledger) and `GetEventsCall`. `GetEventsCall` scans with `HandlerRange`: the start is not clamped, and the end is `MaxCursor` clamped to the ledger after the newest. The visitor keeps the events whose content `RequestMatches`. An event's content (type, contract id, topic) is a function of its position in the ledger. `Scan`'s visitor is given as the set of cursors it keeps, because a recursive operator cannot take an operator argument. |

`MCIngestServiceBudget` extends `MCIngestService` with a history variable `failStreak`. It counts the failures since the last committed ledger and is reset by a restart.

`MCGetEventsPolling` extends `MCGetEvents` with a variable `polled`. It allows the next ledger only after the client has called getEvents.

`MCEventStore`, `MCEntryStore`, `MCIngestService`, `MCConfig` and `MCGetEvents` give the constants for TLC:
- model values for keys and values;
- small ledger histories;
- the transaction sets and cursors to enumerate.

## Runs

| Run | cfg | Expect | What it shows |
|---|---|---|---|
| `event_store` | `MCEventStore.cfg` | pass | `ScanMatchesReference`: for every range, both clamp flags and visitor limits 1 and 10, `Scan` returns what the spec's semantics give. The errors and their order, the first `limit` events in `[start, end)`, and the latest ledger are all compared against a reference built from the set of stored cursors. |
| `entry_store` | `MCEntryStore.cfg` | pass | `ImplementsAbstract`: the batched transaction, with rollbacks and the hook error after the commit, refines `EntryStoreAbstract`. `BatchBounded`: both flush thresholds keep the buffer bounded. `ReadConsistent`: `GetLedgerEntry` returns the entry of the sequence it reports. |
| `ingest_service` | `MCIngestService.cfg` | pass | `service.go` with failures at every step and one restart. Under it, `EntriesMatchLedger` (the rows are those of `LatestLedgerSequence`), `LatestNeverRegresses`, `StoresInStep` (the events and transactions windows end at the DB's ledger between ledgers), and `Progress` (every closed ledger is committed unless the service stopped) all hold. |
| `retry_close` | `MCIngestService_retry_close.cfg` | pass | `part_001`: `Close()` returns unless the process has already died, whatever `run()` and the fill were doing. |
| `config_validate` | `MCConfig.cfg` | pass | `TypeOK`: for every combination of inputs, defaults and `Getwd` outcomes, loading and `Validate` store only a level `logrus.ParseLevel` accepts and end in a known phase. It is the passing run that fires every action of `Config`; the property worth stating about `Validate` is the violation run below. |
| `empty_archives` | `MCConfig_archives.cfg` | violation | An empty `[]string` for `history-archive-urls` passes `required`, although the daemon's later use needs element 0. |
| `retry_panic` | `MCIngestService_retry_panic.cfg` | violation | A failure in `IngestTransactions` or `Commit` after `IngestEvents` is retried. The retried `run()` re-feeds the same ledger and the window panics. |
| `double_fill` | `MCIngestService_double_fill.cfg` | violation | `run()` returns on a `PrepareRange` error while its fill still runs. The retry starts a second fill. The two commit one after the other, and the rows left are not the entries of `LatestLedgerSequence`. |
| `retry_budget` | `MCIngestServiceBudget.cfg` | violation | The comment at `part_001` 54 promises 5 retries for an outage. The service dies after fewer consecutive failures, because the budget of `WithMaxRetries` is never reset after a successful ledger. |
| `get_events_paging` | `MCGetEvents.cfg` | pass | `PagingExact`: while `IngestEvents` evicts between calls, a paging client is returned exactly the matching events from its `startLedger` up to its cursor, once each and in order. A cursor whose ledger was evicted makes the call fail and does not skip events. `TypeOK` includes that the handler's range never fails on its end. |
| `paging_stall` | `MCGetEventsPolling.cfg` | violation | A client that calls getEvents after every ledger still loses its place when its filter matches nothing for a whole window. |
| `events_before_commit` | `MCIngestService_i4.cfg` | violation | Events are visible before the ledger's entries commit (spec I4), even without failures. |

Each property of a passing run has a mutant in `PROJECT.json`: a plausible bug in the mapped code that TLC shows the property catches. Examples:
- a strict comparison in the binary search;
- the batch not reset after a flush;
- `done()` without the final flush;
- an off-by-one in the resume ledger;
- the fill ignoring a non-empty DB.

## Findings

1. **Retry after a partial ledger panics** (`part_001` 205–209, 227–231). The event and transaction stores are written before `tx.Commit`. Any later failure leaves them one ledger ahead of the DB. The backoff loop calls `run()` again from the DB's latest ledger, and the window panics with "ledgers not contiguous". TLC's trace:
   - ledger 2 is written to the event store;
   - `IngestTransactions` or `Commit` fails;
   - the retry ingests ledger 2 again;
   - the window panics.
2. **Two checkpoint fills race** (`part_001` 97–101, 131–133). The fill goroutine uses the service context and is not joined when `run()` returns early. TLC's trace:
   - fill 1 (checkpoint 1) takes SQLite's write lock, and `run()` then fails;
   - the retried `run()` still reads `ErrEmptyDB`, because fill 1 has not committed, and starts fill 2 from checkpoint 3;
   - fill 1 commits checkpoint 1, then fill 2 commits checkpoint 3 over it;
   - the checkpoint reader only upserts live entries, so `k1`'s row from checkpoint 1 stays although ledger 3 has no `k1`, under `LatestLedgerSequence` 3.
   
   The other order is reachable too: when fill 2 takes the lock before fill 1 has, fill 1 commits last and `LatestLedgerSequence` goes back from 3 to 1. `LatestNeverRegresses` fails under the same cfg; it is not a separate run.
3. **Events are visible before the entries commit** (`service.go` 191–195). This diverges from spec I4's stage-then-commit. The spec lists it as an open question.

4. **An empty archive list passes validation** (`options.go` 185, 311–314; `part_002` 84). `required` tests `reflect.Value.IsZero`, which is false for an empty non-nil slice. A `[]string{}` from the config file (for example `HISTORY_ARCHIVE_URLS = []`) is stored as it is and accepted, although the option is required. An empty string does not trigger this, because it becomes a nil slice. Two caveats: the loader that would store the empty array is not in src, and the daemon in this snapshot (`part_002`, another version taking `config.LocalConfig`) hands the list to captive core (lines 58 and 71) before it reads `HistoryArchiveURLs[0]` (line 84). Whether captive core rejects the empty list first is outside the snapshot, so the finding is only that `required` lets it through.

5. **The retry budget lasts the process's lifetime** (`part_001` 54–58). `backoff.WithMaxRetries` is built once and `RetryNotify` resets it only when it starts. Successful ledgers between failures do not restore it, so sparse transient errors add up, and the service calls `Fatal` after the sixth error in its lifetime. With `MaxRetries` 1, TLC shows a retry, a successful ledger, and then one failure that is fatal.
6. **A polling client loses its place in the event stream** (`events.go` 125; spec 4.I). This is a gap in the spec's paging protocol. The handler returns only the matching events, so a page with no match gives the client no new cursor. After `RetentionWindow` ledgers without a match, its start has left the window, and `validateRange` fails every later call with "start is before oldest ledger". This happens even when the client calls after every ledger. TLC's trace, with a window of 2:
   - the client's request starts at ledger 1;
   - ledgers 1 and 2 carry no matching event;
   - ledger 3 evicts ledger 1, and the next call fails.
   
   Spec 8 expects paging to continue into the next ledger. Neither the spec nor the response says where a client with an empty page should continue.

## Bounds and why they are enough

- **Event store.** Windows of 2 ledgers, up to 5 ledgers fed from first ledger 1 or 2, so every window passes through empty, partial, full and evicting states.
  - Transaction sets cover: no transactions; a failed transaction followed by a successful one; several operations with 0, 1 and 2 events.
  - Cursors are each ledger 0..6 with offsets around the events, including cursors equal to an event, between events and past the last event.
- **Entry store.** 3 keys with `MaxBatchSize` 2. Ledger 1 upserts 3 keys, so upserts flush at the second key. Ledger 2 deletes 2 keys and updates 1, so deletes reach the `>` threshold only at the third key. Ledger 3 mixes all three kinds. Every write may fail, and so may the hook.
- **Ingestion.** 2 keys, ledgers 0..4, checkpoints 1 and 3, and a network tip starting at 1 that grows to 4. This lets a later fill pick a newer checkpoint.
  - The history deletes and re-creates a key, so that a checkpoint does not mention every row.
  - `RetentionWindow` is 2, so eviction happens.
  - One restart, and one retry in the part_001 runs. The bugs above need exactly one retry.

- **Configuration.** Each option is either left at its default or given one input. The inputs are: a level `logrus` parses, one it does not, and a non-string; storage paths `""`, `"."`, nil, a real path and a non-string; archive strings `""`, `"a"`, `"a,b"` and `"a,"`, the `[]string`s `[]` and `["a"]`, and a non-string. The limits 0, 50 and 200 straddle the default of 100 in both directions. `LookPath` either finds `stellar-core` or returns `""`. The windows take the inputs 0 and 2. The run reaches every branch of every `CustomSetValue` and every `Validate`.
- **getEvents.** Window 2, ledgers up to 5 from first ledger 1 or 2. A ledger carries no event, two events of one operation, or a failed transaction followed by one with two operations. Three requests are checked:
  - no filter, one event per page: mid-ledger cursors;
  - a contract id and a topic with a wildcard, two events per page, starting at ledger 2;
  - a type filter or a contract-id filter, one event per page.
  
  Eviction passes a cursor's ledger while events of that ledger are still unread.

## Fairness

The Go scheduler runs every runnable goroutine, so the model assumes weak fairness on:
- the driver's success steps;
- each fill goroutine's progress;
- `CloseReturns`;
- the network closing ledgers.

After `Close`, the calls that watch the context do fail. These are `GetLedger`, `PrepareRange`, `GetLatestLedgerSequence`, the checkpoint reader and `NewTx`, so `Fail` and `FillFail` are weakly fair while `cancelled` holds. Failures without a cancellation, `Close` and restarts are never forced.

`EntryStore` has no liveness property and no fairness: with the caller's loop modelled as a retry of the same ledger, progress there would follow from the model's loop rather than from `db.go`.

`Progress` is not checked for the retrying variant. There the double-fill race (finding 2) can set the latest ledger back after the last ledger has been ingested.

## Not modelled

- **The other options of `config/options.go`**: these are plain assignments that no check reads. The retention windows are modelled in `Config`, but in the store modules they are model constants. The second half of the file (from line 346) is `simulateTransaction` test code with no state. The loader (flags, environment, TOML) is outside src, so the `Config` module models it as a pass over the table.
- **getEvents request validation and response encoding**: the handler is not in the snapshot. `GetEvents` models filter matching and paging from the spec and the tests. Validation is a list of independent checks, and each test pins one check to one message. It is not modelled, so the requests in the model are valid. Cursor strings, JSON and XDR are not modelled either. The tests also come from another version: they expect `NewMemoryStore` to return an error as well, and `events.go` 56 returns only the store. The model follows `events.go` and uses the tests only for what the handler does.
- **Daemon (`part_002`)**: it belongs to another version of the code. `MustNew` takes `config.LocalConfig` and starts a `ledgerentrywriter.LedgerEntryWriter`, neither of which is in the snapshot, and `Daemon.Close` closes that writer, captive core and the HTTP handler. It builds clients and shares no state with the modelled parts. Process restart is modelled from `NewService` in `part_001`, and `Close` from `Service.Close`.
- **The size of the event window**: `LedgerBucketWindow` is not in src and is modelled from spec 4.B (at most W buckets, the oldest evicted). The doc comment of `NewMemoryStore` (`events.go` 49–55) says the ledgers `[latestLedger - retentionWindow, latestLedger]` are kept, which is W + 1 ledgers. Which of the two the imported window does cannot be decided from this snapshot, so no property states the window's size.
- **Build files**: `Makefile` and `Cargo.toml`.
- **Transaction store contents**: only its window discipline is modelled.
- **Data encodings**: XDR encoding, SQL text and migrations are abstracted to model values. No property depends on them.

## Plan for further work

1. **Refinement for `IngestService`.** State an abstract ingestion spec (three stores advancing together, as in spec I4) and check `IngestService` against it. This is expected to fail where findings 1 and 3 do, so it is a violation run, not a passing one.
