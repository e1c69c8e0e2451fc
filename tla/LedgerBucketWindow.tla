------------------------- MODULE LedgerBucketWindow -------------------------
(***************************************************************************)
(* The ledgerbucketwindow package: a fixed-capacity window of per-ledger   *)
(* buckets, shared by the event store and the transaction store.  The      *)
(* package is imported by events.go and config/options.go but its source   *)
(* is not part of this repository snapshot, so the operators below follow  *)
(* the specification (spec.md 4.B).  The ring buffer behind it is          *)
(* abstracted to the sequence of buckets it exposes through Get(i): the    *)
(* head offset is an implementation detail no caller can observe.          *)
(*                                                                         *)
(* A window is a sequence of records [ledgerSeq, content]; Get(i) is the   *)
(* (i+1)-th element.                                                       *)
(***************************************************************************)
LOCAL INSTANCE Naturals
LOCAL INSTANCE Sequences

\* LedgerBucket[T]{LedgerSeq, BucketContent}; the close timestamp is only
\* passed through to scan visitors and is left out.
Bucket(seq, content) == [ledgerSeq |-> seq, content |-> content]

\* Get(i): 0-based access through the head offset.
Get(w, i) == w[i + 1]

\* Append accepts any ledger into an empty window, otherwise only the
\* ledger that follows the newest bucket.  Any other ledger panics
\* ("ledgers not contiguous").
AppendAccepts(w, b) ==
    Len(w) = 0 \/ b.ledgerSeq = w[1].ledgerSeq + Len(w)

\* Append(bucket) on an accepted bucket: when the window already holds
\* `capacity` buckets the oldest (index 0) is evicted before inserting.
WindowAppend(w, b, capacity) ==
    IF Len(w) < capacity THEN w \o <<b>>
                         ELSE Tail(w) \o <<b>>

\* The ledgers currently held, oldest first.
WindowLedgers(w) == {w[i].ledgerSeq : i \in 1 .. Len(w)}

=============================================================================
