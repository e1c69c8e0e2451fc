----------------------------- MODULE MCGetEvents -----------------------------
(* Model-checking instance of GetEvents.  A ledger carries no event, one   *)
(* transaction whose operation emits two events, or a failed transaction   *)
(* followed by one whose two operations emit one event each.  The three    *)
(* requests page one event at a time over every event, by contract id and  *)
(* topic with a wildcard two at a time, and by a disjunction of a type     *)
(* filter and a contract-id filter.                                        *)
EXTENDS GetEvents

CONSTANTS c1, c2, transfer, number

MCLedgerMetas ==
    { << >>,
      << [index |-> 1, ok |-> TRUE,  ops |-> <<2>>] >>,
      << [index |-> 1, ok |-> FALSE, ops |-> <<1>>],
         [index |-> 2, ok |-> TRUE,  ops |-> <<1, 1>>] >> }

MCEventContent ==
    (<<1, 0, 0>> :> [type |-> "contract", contractId |-> c1, topic |-> <<transfer, number>>])
 @@ (<<1, 0, 1>> :> [type |-> "contract", contractId |-> c2, topic |-> <<number>>])
 @@ (<<2, 0, 0>> :> [type |-> "system",   contractId |-> c1, topic |-> <<transfer>>])
 @@ (<<2, 1, 0>> :> [type |-> "contract", contractId |-> c1, topic |-> <<transfer, transfer>>])

MCRequests ==
    { [startLedger |-> 1, filters |-> << >>, limit |-> 1],
      [startLedger |-> 2, limit |-> 2,
       filters |-> << [eventType |-> "", contractIds |-> {c1},
                       topics |-> << <<transfer, Wildcard>> >>] >>],
      [startLedger |-> 1, limit |-> 1,
       filters |-> << [eventType |-> "system", contractIds |-> {}, topics |-> << >>],
                      [eventType |-> "", contractIds |-> {c2}, topics |-> << >>] >>] }
=============================================================================
