------------------------- MODULE IngestionProperties -------------------------
(***************************************************************************)
(* What the request handlers must keep true of the records they write.     *)
(* Each property names the hazard of the code it is about; the README says *)
(* under which overlap of requests and which faults each one is checked.   *)
(***************************************************************************)
EXTENDS IngestionManager

(* The permit a request holds: what it has seen the jobs allow, and has    *)
(* not used yet.                                                           *)
KindOf(r) ==
    CASE r.op \in {"new", "update"} /\ r.at \in {"checksums", "createJob"} -> "create"
      [] r.op = "retry" /\ r.at \notin {"idle", "getJob"} -> "reset"
      [] r.op = "bypass" /\ r.at = "getTasks" /\ r.status = "SUSPENDED" -> "bypass"
      [] r.op = "bypass" /\ r.at \in {"filesExist", "checksums", "updateTask", "updateJob"} -> "bypass"
      [] r.op = "abort" /\ r.at \in {"getTasks", "abortJob"} -> "abort"
      [] OTHER -> "none"

PermitOf(r) ==
    LET kind == KindOf(r) IN
    [kind |-> kind, on |-> CASE kind = "none"   -> NoJob
                             [] kind = "create" -> r.product
                             [] OTHER           -> r.job]

StatusOfJobs == [j \in Jobs |-> job[j].status]
ProductOfJobs == [j \in Jobs |-> job[j].product]
CleanedJobs == {j \in Jobs : job[j].cleaned}
PermitsHeld == [h \in Handlers |-> PermitOf(req[h])]

C == INSTANCE CheckThenAct
     WITH Holders <- Handlers, Expires <- "expire" \in Faults, Nobody <- NoJob,
          status <- StatusOfJobs, product <- ProductOfJobs, cleaned <- CleanedJobs,
          permit <- PermitsHeld

L == INSTANCE JobLifecycle
     WITH status <- StatusOfJobs, product <- ProductOfJobs, cleaned <- CleanedJobs

(* Whatever overlaps and fails: every write of a job's status is that of a *)
(* request that has seen, some awaits ago and not used since, jobs that    *)
(* allow it; or a worker's.  Nothing is written twice on one look.         *)
ImplementsCheckThenAct == C!CSpec

(* Requests one after the other: every operation is atomic towards the     *)
(* workers, although several awaits lie between its look at the jobs and   *)
(* its write.                                                              *)
ImplementsJobLifecycle == L!LSpec

(* The request of slot h is answered by a status in s.                     *)
AnsweredBy(h, s) == req[h].at # "idle" /\ req'[h].at = "idle" /\ req'[h].answer \in s

(* A refusal (4xx) of a request that has written a job or a task is never  *)
(* a decision of the service.  It relays the 400, 404 or 409 by which the  *)
(* job manager refused to update the job after the task, or the 400 or 409 *)
(* of the delete that ends an abort.  Any other refusal means that no job  *)
(* and no task was written; only the validation entity a retry deletes     *)
(* first may be gone.                                                      *)
LateRefusalsAreRelayed ==
    [][\A h \in Handlers :
         AnsweredBy(h, 400 .. 499) =>
           /\ UNCHANGED remote
           /\ req[h].wrote =>
                /\ req'[h].answer \in {400, 404, 409}
                /\ \/ req[h].op \in {"retry", "bypass"} /\ req[h].at = "updateJob"
                   \/ req[h].op = "abort" /\ req[h].at = "deleteEntity" /\ req'[h].answer # 404]_vars

(* A job is stray when it was active although it had been cleaned up: no   *)
(* admission saw it from then on, so another job of its product may have   *)
(* been admitted beside it.  As long as no job of a product is stray,      *)
(* validateNoParallelJobs sees all jobs that can still be retried.         *)
NoStray(p) == \A j \in Jobs : Product(j) = p => ~job[j].stray

(* A success (200) means that all was done: at the moment of the answer    *)
(* the records are what the operation promises, whatever the workers did   *)
(* between its writes.  (The update of the task a bypass makes is not      *)
(* promised: its failure is swallowed.  That a retry leaves no validation  *)
(* entity holds only without stray jobs: the worker of another job may     *)
(* store one before the retry is over.)                                    *)
Done(h) ==
    LET r == req[h]
        j == r.job IN
    CASE r.op \in {"new", "update"} ->
            \E k \in Jobs : /\ ~Exists(k) /\ job'[k].status = "PENDING"
                            /\ job'[k].product = r.product /\ job'[k].version = r.version
                            /\ task'[k].status = "PENDING" /\ task'[k].checksums = r.read
      [] r.op = "retry" ->
            /\ job'[j].status = "PENDING"
            /\ task'[j].isValid \/ (task'[j].status = "PENDING" /\ (NoStray(r.product) => entity'[r.product] = NoJob))
      [] r.op = "bypass" ->
            job'[j].status = "IN_PROGRESS" /\ job'[j].approval = r.allowed /\ job'[j].tracked
      [] OTHER -> job'[j].status = "ABORTED" /\ entity'[r.product] = NoJob

SuccessMeansDone == [][\A h \in Handlers : AnsweredBy(h, {200}) => Done(h)]_vars

(* The request of slot h works on job j and is past its first read.        *)
Working(h, j) == req[h].job = j /\ req[h].at \notin {"idle", "getJob"}

(* validateNoParallelJobs: a job that existed when another job of its      *)
(* product was admitted is never active beside it, unless it was cleaned   *)
(* up or some request brought it back after it was closed.  Parallel jobs  *)
(* of other kinds come only from admissions that overlapped, however       *)
(* requests interleave and fail.                                           *)
AdmissionSound ==
    \A j, k \in Jobs :
        j \in saw[k] /\ Active(j) /\ Active(k) /\ Product(j) = Product(k) =>
            j \in revived \/ job[j].stray

(* validateNoParallelJobs: at most one job of a product is active, not     *)
(* counting those that were cleaned up.                                    *)
SingleActiveJob ==
    \A j, k \in Jobs :
        /\ Active(j) /\ ~job[j].cleaned
        /\ Active(k) /\ ~job[k].cleaned
        /\ Product(j) = Product(k)
        => j = k

(* A job that is closed (completed, aborted or expired) becomes active     *)
(* again only by the write of a retry or bypass that had read it in a      *)
(* status that admits the operation, before it was closed.                 *)
RevivalNeedsStaleRead ==
    [][\A j \in Jobs :
         Exists(j) /\ ~Active(j) /\ Active(j)' =>
           \E h \in Handlers :
              /\ Working(h, j)
              /\ req[h].at \in {"resetJob", "updateJob"}
              /\ req[h].op = "retry" => req[h].status \in {"FAILED", "SUSPENDED"}
              /\ req[h].op = "bypass" => req[h].status = "SUSPENDED"]_vars

(* abortIngestion: a job that is aborted stays aborted.                    *)
AbortedStaysAborted ==
    [][\A j \in Jobs : job[j].status = "ABORTED" => job'[j].status = "ABORTED"]_vars

(* abortIngestion: a job in the finalization stage, which may be published *)
(* already, is aborted only by a request that looked for the finalize task *)
(* before it was created: the window of one call.                          *)
AbortSparesFinalizing ==
    \A j \in Jobs : job[j].status = "ABORTED" /\ job[j].finalize => job[j].overtook

(* buildUpdatedChecksums: the checksums recorded for a job are never       *)
(* forgotten, neither by the parameters a reset writes nor by those a      *)
(* bypass writes back.                                                     *)
ChecksumsGrow ==
    [][\A j \in Jobs : task[j].checksums \subseteq task'[j].checksums]_vars

(* canBypassValidationTask: when a bypass is about to write, the shapefile *)
(* it looked at is the one the last validation ran on.                     *)
BypassOnValidatedContent ==
    \A h \in Handlers :
        req[h].op = "bypass" /\ req[h].at \in {"updateTask", "updateJob"} =>
            req[h].read = ran[req[h].job].checksums

(* A task is marked valid only when every error of its last validation run *)
(* is of a type with a threshold that was not exceeded, whatever list the  *)
(* caller of a bypass gave.                                                *)
ValidWithinThresholds ==
    \A j \in Jobs :
        task[j].isValid =>
            /\ ran[j].summary # NoSummary
            /\ ran[j].summary.counted \subseteq ThresholdTypes \ ran[j].summary.exceeded

(* A job is wedged when nobody can move it but an abort: it is not in a    *)
(* status a retry or a bypass accepts, and no worker has work for it.      *)
Wedged(j) ==
    /\ job[j].status \in {"PENDING", "IN_PROGRESS"}
    /\ task[j].status \notin {"PENDING", "IN_PROGRESS"}
    /\ ~Validated(j)

(* Half-done requests heal: whatever call fails, wherever the service      *)
(* restarts and however requests interleave, a job is wedged only when a   *)
(* bypass wrote its task valid or the job approved, when it was brought    *)
(* back after it was closed, or when a retry reset it although its task    *)
(* had meanwhile become another one: two retries overlapped.               *)
WedgedHasCause ==
    \A j \in Jobs :
        Wedged(j) =>
            \/ job[j].approval # NotApproved
            \/ task[j].isValid /\ ran[j].summary.counted # {}
            \/ j \in revived
            \/ job[j].outrun

(* A job whose validation passed has its validation data in the polygon    *)
(* parts manager: no retry and no abort removed it, unless a job of the    *)
(* product was stray.  A bypassed job is not covered: see the README.      *)
ValidJobHasEntity ==
    \A j \in Jobs :
        Active(j) /\ task[j].isValid /\ ran[j].summary.counted = {} /\ NoStray(Product(j)) =>
            entity[Product(j)] = j

(* Requests that overlap do remove the validation data of a valid job: the *)
(* last step of an abort, or of a retry that read the task before it was   *)
(* valid, or another job of the product does.  Nothing else does.          *)
EntityLossHasCause ==
    [][\A j \in Jobs :
         LET p == Product(j) IN
         /\ Active(j) /\ task[j].isValid /\ ran[j].summary.counted = {} /\ entity[p] = j
         /\ Active(j)' /\ entity'[p] # j
         => \/ \E h \in Handlers :
                 /\ req[h].at = "deleteEntity" /\ req[h].product = p
                 /\ req[h].op = "retry" /\ req[h].job = j => ~req[h].task.isValid
            \/ \E k \in Jobs \ {j} : Active(k) /\ Product(k) = p]_vars

(* updateLayerJobPayload: the version a job publishes, taken from the      *)
(* catalog when its request arrived, is never below the published one,     *)
(* unless a job of the product was stray.                                  *)
CatalogNeverRegresses == [][\A p \in Products : NoStray(p) => catalog'[p] >= catalog[p]]_vars

(* Every request is eventually answered.                                   *)
RequestsAnswered == \A h \in Handlers : req[h].at # "idle" ~> req[h].at = "idle"
=============================================================================
