----------------------------- MODULE MCEntryStore -----------------------------
(* Model-checking instance of EntryStore: three keys, so that one ledger   *)
(* writes more keys than a batch holds.  Ledger 1 creates all three keys   *)
(* (upserts flush at the second key), ledger 2 deletes two and updates one *)
(* (deletes flush only at the third key), ledger 3 mixes all three kinds.  *)
EXTENDS EntryStore

CONSTANTS k1, k2, k3, v1, v2

MCHistory ==
    [l \in 0 .. 3 |->
        CASE l = 0 -> [k \in {k1, k2, k3} |-> NoEntry]
          [] l = 1 -> (k1 :> v1 @@ k2 :> v1 @@ k3 :> v1)
          [] l = 2 -> (k1 :> NoEntry @@ k2 :> NoEntry @@ k3 :> v2)
          [] l = 3 -> (k1 :> v2 @@ k2 :> NoEntry @@ k3 :> NoEntry)]
=============================================================================
