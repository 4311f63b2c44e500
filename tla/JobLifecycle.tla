----------------------------- MODULE JobLifecycle -----------------------------
(***************************************************************************)
(* The life of jobs as the API promises it: every operation looks at the   *)
(* jobs and writes in one step.  The service keeps to it as long as its    *)
(* requests come one after the other and jobs do not expire under them.    *)
(* (An abort may meet a job that completes: the service looks at the tasks *)
(* of a job before it aborts it.)                                          *)
(***************************************************************************)

CONSTANTS Jobs, Products

VARIABLES
    status,    \* the status of each job
    product,   \* the product of each job
    cleaned    \* the jobs that were cleaned up

lvars == <<status, product, cleaned>>

Open == {"PENDING", "IN_PROGRESS", "FAILED", "SUSPENDED"}

LInit ==
    /\ status = [j \in Jobs |-> "NONE"]
    /\ product \in [Jobs -> Products]
    /\ cleaned = {}

Becomes(j, s) == status' = [status EXCEPT ![j] = s] /\ UNCHANGED <<product, cleaned>>

(* POST and PUT /ingestion: no other job of the product may be open, save  *)
(* those that were cleaned up.                                             *)
Create(j, p) ==
    /\ status[j] = "NONE"
    /\ \A k \in Jobs : product[k] = p => status[k] \notin Open \/ k \in cleaned
    /\ status' = [status EXCEPT ![j] = "PENDING"]
    /\ product' = [product EXCEPT ![j] = p]
    /\ UNCHANGED cleaned

(* The operations on one job, whether or not it was cleaned up.            *)
Reset(j)  == status[j] \in {"FAILED", "SUSPENDED"} /\ Becomes(j, "PENDING")
Bypass(j) == status[j] = "SUSPENDED" /\ Becomes(j, "IN_PROGRESS")
Abort(j)  == status[j] \in Open \cup {"EXPIRED", "COMPLETED"} /\ Becomes(j, "ABORTED")

(* The workers, and the cleaner.                                           *)
Start(j)  == status[j] = "PENDING" /\ Becomes(j, "IN_PROGRESS")
Finish(j) == status[j] = "IN_PROGRESS" /\ \E s \in {"SUSPENDED", "FAILED", "COMPLETED"} : Becomes(j, s)
CleanUp(j) ==
    /\ status[j] \notin {"NONE", "PENDING", "IN_PROGRESS"}
    /\ cleaned' = cleaned \cup {j}
    /\ UNCHANGED <<status, product>>

LNext ==
    \E j \in Jobs :
        \/ \E p \in Products : Create(j, p)
        \/ Reset(j) \/ Bypass(j) \/ Abort(j)
        \/ Start(j) \/ Finish(j) \/ CleanUp(j)

LSpec == LInit /\ [][LNext]_lvars
=============================================================================
