-------------------------- MODULE MCGetEventsPolling --------------------------
(* A client that never falls behind: it calls getEvents after every ledger *)
(* the store ingests, following the paging protocol of spec.md 4.I.        *)
EXTENDS MCGetEvents

VARIABLE polled     \* the client called getEvents since the last ledger

PollingInit == Init /\ polled = TRUE

PollingNext ==
    \/ /\ polled
       /\ \E txs \in LedgerMetas : Ingest(txs)
       /\ polled' = FALSE
    \/ GetEventsCall /\ polled' = TRUE

PollingSpec == PollingInit /\ [][PollingNext]_<<vars, polled>>

(* spec.md 4.I and 8 ("a cursor at the very last event of a ledger         *)
(* continues into the next ledger"): a client that pages after every       *)
(* ledger keeps its place; its call never fails because its start fell     *)
(* out of the window.  The handler returns only the matching events, so a  *)
(* page without one gives no new paging cursor (get_events_test.go).       *)
PollingClientKeepsPlace == lastErr # "start is before oldest ledger"
=============================================================================
