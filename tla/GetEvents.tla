------------------------------ MODULE GetEvents ------------------------------
(***************************************************************************)
(* The getEvents JSON-RPC handler paging through the event store while the *)
(* ingestion service keeps feeding it.                                     *)
(*                                                                         *)
(* The handler (methods/get_events.go) is not part of this snapshot; only  *)
(* its tests (methods/get_events_test.go) are.  Its filter matching and    *)
(* paging follow spec.md 4.H and 4.I and the behaviour those tests pin     *)
(* down.  The store is EventStore itself, instantiated: the handler calls  *)
(* MemoryStore.Scan with a visitor that keeps the matching events.         *)
(*                                                                         *)
(* One client pages with a fixed request: the first call starts at        *)
(* startLedger, each later call passes the id of the last event it got as  *)
(* the paging cursor.  Event contents (type, contract id, topic) are a     *)
(* function of the event's position inside its ledger.                     *)
(***************************************************************************)
EXTENDS Naturals, Sequences, SequencesExt

CONSTANTS
    RetentionWindow, MaxLedger, FirstLedgers, LedgerMetas,  \* as in EventStore
    Wildcard,         \* the segment filter "*"
    EventContent,     \* <<txIndex, opIndex, eventIndex>> -> [type, contractId, topic]
    Requests          \* [startLedger, filters, limit]: the requests a client pages with

VARIABLES
    eventsByLedger, nextLedger, firstLedger,   \* the event store
    ingested,         \* every event cursor fed to IngestEvents, in order (history)
    req,              \* the client's request
    cursor,           \* the paging cursor of the client's next call; NoCursor at first
    received,         \* every event the client has been returned, in order
    lastErr           \* the error of the client's latest call, or "none"

ES == INSTANCE EventStore WITH StartCursors <- {}, EndCursors <- {}, Limits <- {}

storeVars  == <<eventsByLedger, nextLedger, firstLedger>>
clientVars == <<cursor, received, lastErr>>
vars == <<storeVars, ingested, req, clientVars>>

NoCursor == <<>>

---------------------------------------------------------------------------
(* Filters (spec.md 4.H) *)

\* SegmentFilter: the wildcard matches any segment, a literal only itself.
SegmentMatches(s, v) == s = Wildcard \/ s = v

\* TopicFilter.Matches: as many segments as the filter, matched pairwise;
\* the empty filter matches only the empty topic.
TopicMatches(f, topic) ==
    Len(f) = Len(topic) /\ \A i \in 1 .. Len(f) : SegmentMatches(f[i], topic[i])

\* EventFilter.Matches: the type when it is set, a contract id of the set
\* when the set is not empty, one of the topic filters when there are any.
EventFilterMatches(f, ev) ==
    /\ f.eventType \in {"", ev.type}
    /\ f.contractIds = {} \/ ev.contractId \in f.contractIds
    /\ f.topics = <<>> \/ \E i \in 1 .. Len(f.topics) : TopicMatches(f.topics[i], ev.topic)

\* GetEventsRequest.Matches: a request without filters matches every
\* event, otherwise an event any of its filters matches.
RequestMatches(r, ev) ==
    r.filters = <<>> \/ \E i \in 1 .. Len(r.filters) : EventFilterMatches(r.filters[i], ev)

Content(c) == EventContent[<<c[2], c[3], c[4]>>]

---------------------------------------------------------------------------
(* The handler *)

\* Mutant: the paging cursor is used as the inclusive start.
ScanStartInclusive(r, cur) ==
    IF cur = NoCursor THEN ES!Cursor(r.startLedger, 0, 0, 0) ELSE cur

\* The scan's inclusive start: the first position of startLedger, or the
\* event position after the paging cursor (its event slot plus one).
ScanStart(r, cur) ==
    IF cur = NoCursor THEN ES!Cursor(r.startLedger, 0, 0, 0)
    ELSE ES!Cursor(cur[1], cur[2], cur[3], cur[4] + 1)

\* events.MaxCursor: after every ledger the model closes.
MaxCursor == ES!Cursor(MaxLedger + 1, 0, 0, 0)

\* Mutant: the end is not clamped.
HandlerRangeUnclamped(start) ==
    [start |-> start, clampStart |-> FALSE, end |-> MaxCursor, clampEnd |-> FALSE]

\* Mutant: a start before the oldest ledger is clamped to it.
HandlerRangeClampStart(start) ==
    [start |-> start, clampStart |-> TRUE, end |-> MaxCursor, clampEnd |-> TRUE]

\* The range getEvents scans: the start is not clamped (the test
\* "startLedger validation" expects "start is before oldest ledger"), the
\* end is MaxCursor clamped to the ledger after the newest.
HandlerRange(start) ==
    [start |-> start, clampStart |-> FALSE, end |-> MaxCursor, clampEnd |-> TRUE]

\* The events the handler's visitor keeps.
Matching(w, r) == {c \in ES!StoredCursors(w) : RequestMatches(r, Content(c))}

\* The cursors of a ledger's events, in the order readEvents returns them.
LedgerCursors(txs, l) ==
    LET evs == ES!readEvents(txs) IN [k \in 1 .. Len(evs) |-> ES!EventCursor(evs[k], l)]

---------------------------------------------------------------------------
(* Actions *)

\* The ingestion service feeds the next ledger to MemoryStore.IngestEvents.
Ingest(txs) ==
    /\ ES!IngestEvents(txs)
    /\ ingested' = ingested \o LedgerCursors(txs, nextLedger)
    /\ UNCHANGED <<req, clientVars>>

(* getEvents: Scan from the start with a visitor that appends the matching *)
(* events and returns false once it holds `limit` of them.  A page's last *)
(* event id is the client's next paging cursor; an empty page or an error *)
(* leaves the client where it was.                                        *)
GetEventsCall ==
    LET res == ES!Scan(eventsByLedger, HandlerRange(ScanStart(req, cursor)),
                       Matching(eventsByLedger, req), req.limit)
    IN /\ lastErr' = res.err
       /\ received' = received \o res.visited
       /\ cursor' = IF res.visited = <<>> THEN cursor ELSE Last(res.visited)
       /\ UNCHANGED <<storeVars, ingested, req>>

Init ==
    /\ ES!Init
    /\ ingested = <<>>
    /\ req \in Requests
    /\ cursor = NoCursor
    /\ received = <<>>
    /\ lastErr = "none"

Next ==
    \/ \E txs \in LedgerMetas : Ingest(txs)
    \/ GetEventsCall

Spec == Init /\ [][Next]_vars

---------------------------------------------------------------------------
(* Properties *)

\* The handler's range never fails on its end: its errors are the store's
\* emptiness and a start outside the window.
TypeOK ==
    /\ ES!TypeOK
    /\ lastErr \in {"none", "event store is empty",
                    "start is before oldest ledger", "start is after newest ledger"}
    /\ req \in Requests

(* Paging neither loses nor repeats an event while ingestion evicts old    *)
(* ledgers between the calls: what the client has been returned, in order, *)
(* is exactly the matching events ingested from its startLedger up to its  *)
(* last one.  A cursor whose ledger has been evicted fails the call        *)
(* instead of skipping (Scan's validateRange without clamping, the cursor  *)
(* increment in the handler, the visitor's limit).                        *)
PagingExact ==
    received # <<>> =>
        received = SelectSeq(ingested,
                       LAMBDA c : /\ RequestMatches(req, Content(c))
                                  /\ ES!CursorLeq(ES!Cursor(req.startLedger, 0, 0, 0), c)
                                  /\ ES!CursorLeq(c, Last(received)))

=============================================================================
