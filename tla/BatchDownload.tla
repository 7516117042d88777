---------------------------- MODULE BatchDownload ----------------------------
(***************************************************************************)
(* What a caller of download.Pool.Execute may rely on: the batch settles   *)
(* each job at most once, Execute returns once, and a job is left without  *)
(* a result only when the context of the batch was cancelled.              *)
(* DownloadPool is shown to implement this module, and SyncEngine takes    *)
(* the pool at its word.                                                   *)
(***************************************************************************)
CONSTANT Jobs        \* the positions of the slice of jobs

VARIABLES
    outcome,         \* outcome[j]: the result of job j, "none" while it has none
    cancelled,       \* the context of the batch is done
    returned         \* Execute has returned

batchVars == <<outcome, cancelled, returned>>

Outcome == {"none", "success", "failed"}

BatchTypeOK ==
    /\ outcome \in [Jobs -> Outcome]
    /\ cancelled \in BOOLEAN
    /\ returned \in BOOLEAN

BatchInit ==
    /\ outcome = [j \in Jobs |-> "none"]
    /\ cancelled \in BOOLEAN
    /\ returned = FALSE

Settle(j) ==
    /\ ~returned
    /\ outcome[j] = "none"
    /\ outcome' \in {[outcome EXCEPT ![j] = o] : o \in {"success", "failed"}}
    /\ UNCHANGED <<cancelled, returned>>

CancelBatch ==
    /\ ~cancelled
    /\ cancelled' = TRUE
    /\ UNCHANGED <<outcome, returned>>

Return ==
    /\ ~returned
    /\ cancelled \/ \A j \in Jobs : outcome[j] # "none"
    /\ returned' = TRUE
    /\ UNCHANGED <<outcome, cancelled>>

BatchNext ==
    \/ \E j \in Jobs : Settle(j)
    \/ CancelBatch
    \/ Return

BatchSpec == BatchInit /\ [][BatchNext]_batchVars
=============================================================================
