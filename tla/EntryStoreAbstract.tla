------------------------- MODULE EntryStoreAbstract -------------------------
(***************************************************************************)
(* What the ledger-entry database promises its readers: it holds the       *)
(* ledger entries of one ledger, the one named by LatestLedgerSequence,    *)
(* and moves from one ledger to the next in a single atomic step.  An      *)
(* empty database (latest = 0) holds no entries.                           *)
(***************************************************************************)
EXTENDS Naturals

CONSTANTS Keys, NoEntry, History, MaxLedger

VARIABLES rows, latest

\* The database applies the next ledger: all of its entry changes and the
\* new LatestLedgerSequence become visible together.
CommitNext ==
    /\ latest < MaxLedger
    /\ latest' = latest + 1
    /\ rows' = History[latest + 1]

Init ==
    /\ rows = History[0]
    /\ latest = 0

Spec == Init /\ [][CommitNext]_<<rows, latest>>

=============================================================================
