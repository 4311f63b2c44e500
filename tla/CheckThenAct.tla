----------------------------- MODULE CheckThenAct -----------------------------
(***************************************************************************)
(* What the service does to the statuses of jobs, whatever requests        *)
(* overlap and whatever fails: a request looks at the jobs once, and from  *)
(* then on holds a permit for one kind of write, which it may use, once,   *)
(* however the jobs have changed meanwhile.  IngestionManager implements   *)
(* this specification (ImplementsCheckThenAct in IngestionProperties and   *)
(* RefinementProofs); what it does not promise, that a permit is still     *)
(* good when it is used, is what JobLifecycle adds.                        *)
(***************************************************************************)

CONSTANTS Jobs, Products, Holders,
          Expires,   \* whether the job manager expires jobs
          Nobody     \* what a holder without a permit may write to

VARIABLES
    status,    \* the status of each job
    product,   \* the product of each job
    cleaned,   \* the jobs that were cleaned up: no admission looks at them any more
    permit     \* the permit each holder has

cvars == <<status, product, cleaned, permit>>

Open == {"PENDING", "IN_PROGRESS", "FAILED", "SUSPENDED"}
Closed == {"COMPLETED", "ABORTED", "EXPIRED"}
JobStatuses == {"NONE"} \cup Open \cup Closed

Permits == [kind : {"none", "create", "reset", "bypass", "abort"},
            on   : Products \cup Jobs \cup {Nobody}]
None == [kind |-> "none", on |-> Nobody]

CTypeOK ==
    /\ status \in [Jobs -> JobStatuses]
    /\ product \in [Jobs -> Products]
    /\ cleaned \in SUBSET Jobs
    /\ permit \in [Holders -> Permits]

CInit ==
    /\ status = [j \in Jobs |-> "NONE"]
    /\ product \in [Jobs -> Products]
    /\ cleaned = {}
    /\ permit = [h \in Holders |-> None]

(* What a holder must have seen to get a permit.                           *)
Good(kind, on) ==
    \/ /\ kind = "create" /\ on \in Products
       /\ \A j \in Jobs : product[j] = on => status[j] \notin Open \/ j \in cleaned
    \/ kind = "reset"  /\ on \in Jobs /\ status[on] \in {"FAILED", "SUSPENDED"}
    \/ kind = "bypass" /\ on \in Jobs /\ status[on] = "SUSPENDED"
    \/ kind = "abort"  /\ on \in Jobs /\ status[on] \notin {"NONE", "COMPLETED", "ABORTED"}

Check(h, kind, on) ==
    /\ permit[h] = None
    /\ Good(kind, on)
    /\ permit' = [permit EXCEPT ![h] = [kind |-> kind, on |-> on]]
    /\ UNCHANGED <<status, product, cleaned>>

Create(h, j) ==
    /\ permit[h].kind = "create" /\ status[j] = "NONE"
    /\ status' = [status EXCEPT ![j] = "PENDING"]
    /\ product' = [product EXCEPT ![j] = permit[h].on]
    /\ permit' = [permit EXCEPT ![h] = None]
    /\ UNCHANGED cleaned

(* The status each of the other permits is for.                            *)
Writes == [reset |-> "PENDING", bypass |-> "IN_PROGRESS", abort |-> "ABORTED"]

Write(h) ==
    /\ permit[h].kind \in DOMAIN Writes
    /\ status' = [status EXCEPT ![permit[h].on] = Writes[permit[h].kind]]
    /\ permit' = [permit EXCEPT ![h] = None]
    /\ UNCHANGED <<product, cleaned>>

(* Refused requests, failed calls and restarts lose permits.               *)
Drop(H) ==
    /\ permit' = [h \in Holders |-> IF h \in H THEN None ELSE permit[h]]
    /\ UNCHANGED <<status, product, cleaned>>

(* What workers and the job manager do to the status of a job.             *)
Moves(s) ==
    CASE s = "PENDING"     -> {"IN_PROGRESS"}
      [] s = "IN_PROGRESS" -> {"SUSPENDED", "FAILED", "COMPLETED"}
      [] OTHER             -> {}

Work(j) ==
    /\ \E s \in Moves(status[j]) \cup (IF Expires /\ status[j] \in Open THEN {"EXPIRED"} ELSE {}) :
          status' = [status EXCEPT ![j] = s]
    /\ UNCHANGED <<product, cleaned, permit>>

(* A job that is not running is cleaned up, and keeps its status: it may   *)
(* still be retried.                                                       *)
CleanUp(j) ==
    /\ status[j] \notin {"NONE", "PENDING", "IN_PROGRESS"}
    /\ cleaned' = cleaned \cup {j}
    /\ UNCHANGED <<status, product, permit>>

CNext ==
    \/ \E h \in Holders :
          \/ \E kind \in {"create", "reset", "bypass", "abort"}, on \in Products \cup Jobs :
                Check(h, kind, on)
          \/ \E j \in Jobs : Create(h, j)
          \/ Write(h)
    \/ \E H \in SUBSET Holders : Drop(H)
    \/ \E j \in Jobs : Work(j) \/ CleanUp(j)

CSpec == CInit /\ [][CNext]_cvars
=============================================================================
