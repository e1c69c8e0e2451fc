----------------------------- MODULE EventStore -----------------------------
(***************************************************************************)
(* The in-memory event store, events.MemoryStore (events/events.go).       *)
(*                                                                         *)
(* State: the window of per-ledger event buckets (eventsByLedger).  The    *)
(* store is fed one ledger at a time by its caller (the ingestion          *)
(* service), which is modelled here only as "the next ledger to ingest".   *)
(* Scan holds the read lock for its whole duration and IngestEvents takes  *)
(* the write lock around the append, so every scan sees one window state:  *)
(* Scan is an operator over the window, evaluated for every range in       *)
(* every reachable state.                                                  *)
(***************************************************************************)
EXTENDS Naturals, Sequences, SequencesExt

CONSTANTS
    RetentionWindow,  \* NewMemoryStore(_, retentionWindow)
    MaxLedger,        \* last ledger the caller feeds (bound)
    FirstLedgers,     \* ledgers the caller may start from (checkpoint + 1)
    LedgerMetas,      \* the transaction sets a ledger close meta may carry:
                      \*   sequences <<[index, ok, ops]>>, ops[i] being the
                      \*   number of events of operation i-1
    StartCursors,     \* candidate Range.Start cursors
    EndCursors,       \* candidate Range.End cursors
    Limits            \* how many events a scan visitor accepts

ASSUME RetentionWindow \in Nat \ {0}
ASSUME FirstLedgers \subseteq 1 .. MaxLedger

W == INSTANCE LedgerBucketWindow

VARIABLES
    eventsByLedger,   \* MemoryStore.eventsByLedger
    nextLedger,       \* the ledger the caller passes to IngestEvents next
    firstLedger       \* the first ledger the caller passed (history)

vars == <<eventsByLedger, nextLedger, firstLedger>>

---------------------------------------------------------------------------
(* Cursors (events/cursor.go is not in this snapshot; spec.md 3 and 6:    *)
(* the 4-tuple ordered lexicographically).                                *)

Cursor(l, t, o, e) == <<l, t, o, e>>

RECURSIVE LexLess(_, _, _)
LexLess(a, b, i) ==
    /\ i <= 4
    /\ \/ a[i] < b[i]
       \/ a[i] = b[i] /\ LexLess(a, b, i + 1)

\* a.Cmp(b) < 0
CursorLess(a, b) == LexLess(a, b, 1)
CursorLeq(a, b) == CursorLess(a, b) \/ a = b

\* event.cursor(ledgerSeq)
EventCursor(ev, ledgerSeq) ==
    Cursor(ledgerSeq, ev.txIndex, ev.opIndex, ev.eventIndex)

---------------------------------------------------------------------------
(* readEvents: the events of the successful transactions of a ledger, in   *)
(* reader order, tagged with (tx.Index, operation index, event index).     *)

\* Mutant: the operation index is taken one too low.
OpEventsOffByOne(tx, i) ==
    [j \in 1 .. tx.ops[i] |->
        [txIndex |-> tx.index, opIndex |-> i - 2, eventIndex |-> j - 1]]

OpEvents(tx, i) ==
    [j \in 1 .. tx.ops[i] |->
        [txIndex |-> tx.index, opIndex |-> i - 1, eventIndex |-> j - 1]]

TxEvents(tx) ==
    IF tx.ok THEN FlattenSeq([i \in 1 .. Len(tx.ops) |-> OpEvents(tx, i)])
             ELSE <<>>

readEvents(txs) == FlattenSeq([k \in 1 .. Len(txs) |-> TxEvents(txs[k])])

---------------------------------------------------------------------------
(* validateRange: the error, or the range with Start and End clamped.      *)

validateRange(w, r) ==
    LET first == W!Get(w, 0).ledgerSeq
        min   == Cursor(first, 0, 0, 0)
        max   == Cursor(first + Len(w), 0, 0, 0)
        start == IF CursorLess(r.start, min) /\ r.clampStart THEN min ELSE r.start
        end   == IF CursorLess(max, r.end) /\ r.clampEnd THEN max ELSE r.end
    IN CASE Len(w) = 0                                     -> [err |-> "event store is empty"]
         [] CursorLess(r.start, min) /\ ~r.clampStart      -> [err |-> "start is before oldest ledger"]
         [] CursorLeq(max, start)                          -> [err |-> "start is after newest ledger"]
         [] CursorLess(max, r.end) /\ ~r.clampEnd          -> [err |-> "end is after latest ledger"]
         [] CursorLeq(end, start)                          -> [err |-> "start is not before end"]
         [] OTHER -> [err |-> "none", start |-> start, end |-> end]

\* Mutant: the search looks for the first event after the cursor.
RECURSIVE SortSearchStrict(_, _, _, _)
SortSearchStrict(evs, c, i, j) ==
    IF i >= j THEN i
    ELSE LET h == (i + j) \div 2
         IN IF ~CursorLess(c, EventCursor(evs[h + 1], c[1]))
            THEN SortSearchStrict(evs, c, h + 1, j)
            ELSE SortSearchStrict(evs, c, i, h)

(* sort.Search(n, f): the binary search for the first index at which the  *)
(* (monotone) predicate "cursor <= events[h].cursor" holds.               *)
RECURSIVE SortSearch(_, _, _, _)
SortSearch(evs, c, i, j) ==
    IF i >= j THEN i
    ELSE LET h == (i + j) \div 2
         IN IF ~CursorLeq(c, EventCursor(evs[h + 1], c[1]))
            THEN SortSearch(evs, c, h + 1, j)
            ELSE SortSearch(evs, c, i, h)

\* seek: events[j:] for the first j with cursor <= events[j]
seek(evs, c) == LET j == SortSearch(evs, c, 0, Len(evs)) IN SubSeq(evs, j + 1, Len(evs))

(* The loop body of Scan: visit the cursors in order, stopping at the     *)
(* first cursor >= End, or after the visitor returned false.  The visitor  *)
(* collects the events whose cursors are in `keep` and returns false once  *)
(* it holds `limit` of them.                                              *)
RECURSIVE Visit(_, _, _, _, _)
Visit(curs, end, keep, limit, acc) ==
    IF curs = <<>> \/ CursorLeq(end, Head(curs)) THEN acc
    ELSE LET acc2 == IF Head(curs) \in keep THEN Append(acc, Head(curs)) ELSE acc
         IN IF Len(acc2) < limit THEN Visit(Tail(curs), end, keep, limit, acc2) ELSE acc2

\* Scan: the cursors the visitor collected and the returned latest ledger.
Scan(w, r, keep, limit) ==
    LET v == validateRange(w, r)
    IN IF v.err # "none" THEN [err |-> v.err, visited |-> <<>>, latest |-> 0]
       ELSE LET first  == W!Get(w, 0).ledgerSeq
                from   == v.start[1] - first
                Bkt(i) == W!Get(w, i)
                Evs(i) == IF Bkt(i).ledgerSeq = v.start[1]
                          THEN seek(Bkt(i).content, v.start)
                          ELSE Bkt(i).content
                Curs(i) == [k \in 1 .. Len(Evs(i)) |-> EventCursor(Evs(i)[k], Bkt(i).ledgerSeq)]
                stream == FlattenSeq([k \in 1 .. Len(w) - from |-> Curs(from + k - 1)])
            IN [err |-> "none", visited |-> Visit(stream, v.end, keep, limit, <<>>),
                latest |-> first + (Len(w) - 1)]

---------------------------------------------------------------------------
(* IngestEvents(ledgerCloseMeta): readEvents outside the lock, then the    *)
(* append under the write lock.  When readEvents fails the store is left   *)
(* unchanged, which is a stuttering step.  The caller always passes the    *)
(* next ledger, so the window never panics here.                           *)
IngestEvents(txs) ==
    /\ nextLedger <= MaxLedger
    /\ eventsByLedger' = W!WindowAppend(eventsByLedger,
                            W!Bucket(nextLedger, readEvents(txs)), RetentionWindow)
    /\ nextLedger' = nextLedger + 1
    /\ UNCHANGED firstLedger

Init ==
    /\ eventsByLedger = <<>>
    /\ nextLedger \in FirstLedgers
    /\ firstLedger = nextLedger

Next == \E txs \in LedgerMetas : IngestEvents(txs)

Spec == Init /\ [][Next]_vars

---------------------------------------------------------------------------
(* Properties *)

TypeOK ==
    /\ eventsByLedger \in Seq([ledgerSeq : 1 .. MaxLedger, content : Seq([txIndex : Nat, opIndex : Nat, eventIndex : Nat])])
    /\ nextLedger \in 1 .. MaxLedger + 1

Ranges == [start : StartCursors, clampStart : BOOLEAN, end : EndCursors, clampEnd : BOOLEAN]

\* All events held by the window, as cursors.
StoredCursors(w) ==
    UNION {{EventCursor(w[i].content[k], w[i].ledgerSeq) : k \in 1 .. Len(w[i].content)} : i \in 1 .. Len(w)}

(* The reference scan, from the specification's text (spec.md 4.D): the   *)
(* store is empty, or the start ledger is before the oldest ledger (and   *)
(* not clamped), after the newest ledger, the end is past latest+1 (and   *)
(* not clamped) or not after the start; otherwise the first `limit`       *)
(* stored events with start <= cursor < end in cursor order.              *)
ScanReference(w, r, limit) ==
    IF Len(w) = 0 THEN "event store is empty"
    ELSE LET earliest == w[1].ledgerSeq
             latest   == earliest + Len(w) - 1
             start    == IF r.start[1] < earliest THEN Cursor(earliest, 0, 0, 0) ELSE r.start
             end      == IF CursorLess(Cursor(latest + 1, 0, 0, 0), r.end)
                         THEN Cursor(latest + 1, 0, 0, 0) ELSE r.end
             inRange  == SetToSortSeq({c \in StoredCursors(w) : CursorLeq(start, c) /\ CursorLess(c, end)},
                                      CursorLess)
         IN CASE r.start[1] < earliest /\ ~r.clampStart -> "start is before oldest ledger"
              [] r.start[1] > latest                    -> "start is after newest ledger"
              [] end # r.end /\ ~r.clampEnd             -> "end is after latest ledger"
              [] ~CursorLess(start, end)                -> "start is not before end"
              [] OTHER -> [visited |-> SubSeq(inRange, 1, IF limit < Len(inRange) THEN limit ELSE Len(inRange)),
                           latest |-> latest]

(* Scan, over every range, clamp choice and visitor limit, reports the     *)
(* error the specification gives or visits exactly the first `limit`      *)
(* stored events of the (clamped) range in ascending cursor order, and     *)
(* returns the newest ledger: the binary search in seek, the start index   *)
(* of the bucket loop, the exclusive End test and the clamping in          *)
(* validateRange together (events.go Scan/validateRange/seek).            *)
ScanMatchesReference ==
    \A r \in Ranges, limit \in Limits :
        LET got == Scan(eventsByLedger, r, StoredCursors(eventsByLedger), limit)
            ref == ScanReference(eventsByLedger, r, limit)
        IN IF got.err # "none" THEN ref = got.err
           ELSE ref = [visited |-> got.visited, latest |-> got.latest]

=============================================================================
