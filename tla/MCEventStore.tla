---------------------------- MODULE MCEventStore ----------------------------
(* Model-checking instance of EventStore.  A ledger carries no             *)
(* transaction, one successful transaction with two events in one          *)
(* operation, a failed transaction followed by a successful one, or a      *)
(* transaction whose first operation emits nothing; the retention window   *)
(* of 2 makes eviction happen from the third ledger on.                    *)
EXTENDS EventStore

MCLedgerMetas ==
    { << >>,
      << [index |-> 1, ok |-> TRUE,  ops |-> <<2>>] >>,
      << [index |-> 1, ok |-> FALSE, ops |-> <<1>>],
         [index |-> 2, ok |-> TRUE,  ops |-> <<1>>] >>,
      << [index |-> 1, ok |-> TRUE,  ops |-> <<0, 1>>],
         [index |-> 2, ok |-> TRUE,  ops |-> <<1>>] >> }

\* Per ledger: the ledger boundary, each event position the catalogue can
\* produce, and the position one event after the last of a transaction.
MCCursors ==
    {Cursor(l, t[1], t[2], t[3]) :
        l \in 0 .. MaxLedger + 1,
        t \in {<<0, 0, 0>>, <<1, 0, 1>>, <<1, 1, 0>>, <<2, 0, 0>>, <<2, 0, 1>>}}
=============================================================================
