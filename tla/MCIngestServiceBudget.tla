------------------------ MODULE MCIngestServiceBudget ------------------------
(* IngestService with a history variable for the retry budget of part_001: *)
(* failStreak counts the run() calls that failed since the ingest loop    *)
(* last committed a ledger in this process.  The variable only observes the steps of IngestService; it    *)
(* constrains none of them.                                                *)
EXTENDS MCIngestService

VARIABLE failStreak

BudgetInit == Init /\ failStreak = 0

BudgetNext ==
    /\ Next
    /\ failStreak' = CASE restarts' # restarts     -> 0
                       [] pc = "commit" /\ pc' = "getLedger" -> 0
                       [] pc' = "failed" /\ pc # "failed" -> failStreak + 1
                       [] OTHER                    -> failStreak

BudgetSpec == BudgetInit /\ [][BudgetNext]_<<vars, failStreak>>

(* The retry loop gives up, and the process exits with Fatal, only after   *)
(* an outage: the last MaxRetries + 1 calls of run() all failed without    *)
(* a ledger being ingested in between ("Retry running ingestion every      *)
(* second for 5 seconds", part_001 54: backoff.WithMaxRetries around       *)
(* NewConstantBackOff, handed to backoff.RetryNotify).                     *)
BudgetSpentOnOutage == pc = "fatal" => failStreak > MaxRetries
=============================================================================
