--------------------------- MODULE MCIngestService ---------------------------
(* Model-checking instance of IngestService: two keys, two values, four    *)
(* ledgers of which 1 and 3 are checkpoints.  The history creates k1,      *)
(* creates k2, deletes k1 while updating k2, and re-creates k1, so that    *)
(* a checkpoint does not mention every key a DB may hold.                  *)
EXTENDS IngestService

CONSTANTS k1, k2, v1, v2

MCHistory ==
    [l \in 0 .. 4 |->
        CASE l = 0 -> [k \in {k1, k2} |-> NoEntry]
          [] l = 1 -> (k1 :> v1 @@ k2 :> NoEntry)
          [] l = 2 -> (k1 :> v1 @@ k2 :> v1)
          [] l = 3 -> (k1 :> NoEntry @@ k2 :> v2)
          [] l = 4 -> (k1 :> v2 @@ k2 :> v2)]
=============================================================================
