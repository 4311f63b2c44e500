--------------------------- MODULE OneAtATimeProofs ---------------------------
(***************************************************************************)
(* What a caller who sends one request at a time can rely on: a single     *)
(* slot, any number of products, jobs and files, workers and users acting  *)
(* between the awaits of the request.  Each theorem names the faults it    *)
(* has to exclude; no other is.                                            *)
(***************************************************************************)
EXTENDS HealingProofs

(* What the theorems on any overlap provide.                               *)
Base == TypeInv /\ MarksInv /\ RequestsFormed /\ HealInv /\ CP!AloneInv

(* Base is inductive.                                                      *)
LEMMA BaseStep == OneSlot /\ Base /\ [Next]_vars => Base'
  <1> SUFFICES ASSUME OneSlot, Base, [Next]_vars PROVE Base'  OBVIOUS
  <1>1. TypeInv' /\ MarksInv' /\ RequestsFormed'  BY TypeInvStep, MarksStep, FormedStep DEF Base
  <1>2. HealInv'  BY JobsHeal, RequestsHeal DEF Base, HealInv
  <1>3. [CP!CNext]_(CP!cvars)  BY RefineStep, SameSpec DEF Base, Refined
  <1>4. CP!OneHolder  BY DEF OneSlot, CP!OneHolder
  <1>5. CP!AloneInv'  BY <1>3, <1>4, CP!AloneStep DEF Base
  <1> QED  BY <1>1, <1>2, <1>5 DEF Base

(* It holds when the service starts.                                       *)
LEMMA BaseInit == Init => Base
  BY TypeInvInit, MarksInit, FormedInit, HealInit, RefineInit, SameSpec, CP!AloneInit DEF Base

-----------------------------------------------------------------------------
(* The steps of a request that do not end it, by operation.                *)

(* A retry.                                                                *)
LEMMA RetrySteps ==
    ASSUME TypeInv, RequestsFormed, NEW h \in Handlers, Step(h), req[h].op = "retry"
    PROVE  \/ Gone(h)
           \/ RetryGetJob(h) \/ RetryGetTasks(h)
           \/ RetryDeleteEntity(h) /\ MovedTo(h, "filesExist")
           \/ CheckFilesExist(h) /\ MovedTo(h, "checksums")
           \/ \E f \in ShapeFiles : GetFileChecksum(h, f)
           \/ HardResetTask(h) /\ MovedTo(h, "updateJob")
  <1>0. Formed(req[h])  BY DEF RequestsFormed
  <1>1. CASE Admit(h)
    BY <1>0, <1>1, GoingIs DEF Admit, GetLayerMetadata, ValidateInputFiles, CheckMapProxy, CheckCatalog,
       CheckNoParallelJobs, RefuseJob, CreateJob, Awaiting, Formed
  <1>2. CASE ReadFiles(h) \/ Retry(h)
    BY <1>2, GoingIs DEF ReadFiles, CheckFilesExist, Retry, SoftReset, RetryDeleteEntity, HardResetTask,
       HardResetJob
  <1>3. CASE CallFails(h)  BY <1>3, GoingIs DEF CallFails, Awaiting
  <1> QED
    BY <1>1, <1>2, <1>3 DEF Step, Bypass, BypassGetJob, BypassGetTasks, BypassUpdateTask, BypassUpdateJob,
       BypassNotify, Abort, AbortGetJob, AbortGetTasks, AbortJob, AbortDeleteEntity, Awaiting

(* A bypass; one whose write of the task failed goes on all the same.      *)
LEMMA BypassSteps ==
    ASSUME TypeInv, RequestsFormed, NEW h \in Handlers, Step(h), req[h].op = "bypass"
    PROVE  \/ Gone(h)
           \/ BypassGetJob(h) \/ BypassGetTasks(h)
           \/ CheckFilesExist(h) /\ MovedTo(h, "checksums")
           \/ \E f \in ShapeFiles : GetFileChecksum(h, f)
           \/ BypassUpdateTask(h) /\ MovedTo(h, "updateJob")
           \/ CallFails(h) /\ req[h].at = "updateTask" /\ MovedTo(h, "updateJob")
           \/ BypassUpdateJob(h) /\ MovedTo(h, "notify")
  <1>0. Formed(req[h])  BY DEF RequestsFormed
  <1>1. CASE Admit(h)
    BY <1>0, <1>1, GoingIs DEF Admit, GetLayerMetadata, ValidateInputFiles, CheckMapProxy, CheckCatalog,
       CheckNoParallelJobs, RefuseJob, CreateJob, Awaiting, Formed
  <1>2. CASE ReadFiles(h) \/ Bypass(h)
    BY <1>2, GoingIs DEF ReadFiles, CheckFilesExist, Bypass, BypassUpdateTask, BypassUpdateJob, BypassNotify
  <1>3. CASE CallFails(h)  BY <1>3, GoingIs DEF CallFails, Awaiting
  <1> QED
    BY <1>1, <1>2, <1>3 DEF Step, Retry, RetryGetJob, RetryGetTasks, SoftReset, RetryDeleteEntity,
       HardResetTask, HardResetJob, Abort, AbortGetJob, AbortGetTasks, AbortJob, AbortDeleteEntity, Awaiting

(* An abort.                                                               *)
LEMMA AbortSteps ==
    ASSUME TypeInv, RequestsFormed, NEW h \in Handlers, Step(h), req[h].op = "abort"
    PROVE  \/ Gone(h)
           \/ AbortGetJob(h)
           \/ AbortGetTasks(h) /\ MovedTo(h, "abortJob")
           \/ AbortJob(h) /\ MovedTo(h, "deleteEntity")
  <1>0. Formed(req[h])  BY DEF RequestsFormed
  <1>1. CASE Admit(h)
    BY <1>0, <1>1, GoingIs DEF Admit, GetLayerMetadata, ValidateInputFiles, CheckMapProxy, CheckCatalog,
       CheckNoParallelJobs, RefuseJob, CreateJob, Awaiting, Formed
  <1>2. CASE Abort(h)
    BY <1>2, GoingIs DEF Abort, AbortGetTasks, AbortJob, AbortDeleteEntity
  <1>3. CASE CallFails(h)  BY <1>3, GoingIs DEF CallFails, Awaiting
  <1> QED
    BY <1>0, <1>1, <1>2, <1>3 DEF Step, ReadFiles, CheckFilesExist, GetFileChecksum, Formed, Retry,
       RetryGetJob, RetryGetTasks, SoftReset, RetryDeleteEntity, HardResetTask, HardResetJob, Bypass,
       BypassGetJob, BypassGetTasks, BypassUpdateTask, BypassUpdateJob, BypassNotify, Awaiting

(* An admission.                                                           *)
LEMMA AdmitSteps ==
    ASSUME TypeInv, RequestsFormed, NEW h \in Handlers, Step(h), req[h].op \in {"new", "update"}
    PROVE  \/ Gone(h)
           \/ GetLayerMetadata(h) \/ CheckNoParallelJobs(h)
           \/ ValidateInputFiles(h) /\ MovedTo(h, "mapProxy")
           \/ CheckMapProxy(h) /\ (MovedTo(h, "catalog") \/ (req[h].op = "update" /\ MovedTo(h, "findJobs")))
           \/ CheckCatalog(h) /\ catalog[req[h].product] = 0 /\ MovedTo(h, "findJobs")
           \/ \E f \in ShapeFiles : GetFileChecksum(h, f)
  <1>0. Formed(req[h])  BY DEF RequestsFormed
  <1>1. CASE Admit(h)
    <2>1. ASSUME NEW j \in Jobs, CreateJob(h, j)  PROVE Gone(h)  BY <2>1, GoingIs DEF CreateJob
    <2>2. CASE RefuseJob(h) \/ CheckCatalog(h) \/ ValidateInputFiles(h) \/ CheckMapProxy(h)
      BY <2>2, GoingIs DEF RefuseJob, CheckCatalog, ExistsInCatalog, ValidateInputFiles, CheckMapProxy
    <2> QED  BY <1>1, <2>1, <2>2 DEF Admit
  <1>2. CASE ReadFiles(h)  BY <1>0, <1>2 DEF ReadFiles, CheckFilesExist, Formed
  <1>3. CASE CallFails(h)  BY <1>3, GoingIs DEF CallFails, Awaiting
  <1> QED
    BY <1>1, <1>2, <1>3 DEF Step, Retry, RetryGetJob, RetryGetTasks, SoftReset, RetryDeleteEntity,
       HardResetTask, HardResetJob, Bypass, BypassGetJob, BypassGetTasks, BypassUpdateTask,
       BypassUpdateJob, BypassNotify, Abort, AbortGetJob, AbortGetTasks, AbortJob, AbortDeleteEntity, Awaiting

(* Nothing goes on without an operation.                                   *)
LEMMA NoSteps ==
    ASSUME TypeInv, RequestsFormed, NEW h \in Handlers, Step(h), req[h].op = "none"
    PROVE  Gone(h)
  <1>0. Formed(req[h])  BY DEF RequestsFormed
  <1>1. CASE CallFails(h)  BY <1>1, GoingIs DEF CallFails, Awaiting
  <1> QED
    BY <1>0, <1>1 DEF Step, Admit, GetLayerMetadata, ValidateInputFiles, CheckMapProxy, CheckCatalog,
       CheckNoParallelJobs, RefuseJob, CreateJob, ReadFiles, CheckFilesExist, GetFileChecksum, Formed,
       Retry, RetryGetJob, RetryGetTasks, SoftReset, RetryDeleteEntity, HardResetTask, HardResetJob,
       Bypass, BypassGetJob, BypassGetTasks, BypassUpdateTask, BypassUpdateJob, BypassNotify,
       Abort, AbortGetJob, AbortGetTasks, AbortJob, AbortDeleteEntity, Awaiting

-----------------------------------------------------------------------------
(* What a request in flight can rely on.                                   *)

(* A request that is not idle has an operation; its job's product is its.  *)
StandsOn(h) ==
    req[h].op \in JobOps => req[h].product = Product(req[h].job)

(* The job of a retry is as closed to workers as when it was looked at,    *)
(* and the task is the one that was read, or the one that was written.     *)
RetryStands(h) ==
    LET r == req[h]
        t == task[r.job] IN
    r.op = "retry" /\ r.at # "getJob" =>
        /\ job[r.job].status \in {"FAILED", "SUSPENDED", "EXPIRED"}
        /\ r.at \in {"resetJob", "deleteEntity", "filesExist", "checksums", "updateTask"} =>
              r.task = t /\ (t.isValid <=> r.at = "resetJob")
        /\ r.at = "updateJob" => t.status = "PENDING" /\ ~t.isValid
        /\ r.at \in {"getTasks", "resetJob", "deleteEntity", "filesExist", "checksums", "updateTask",
                      "updateJob"}

(* So is the job of a bypass that found it suspended.                      *)
BypassStands(h) ==
    LET r == req[h]
        t == task[r.job] IN
    r.op = "bypass" /\ r.at \notin {"getJob", "notify"} =>
        /\ r.status = "SUSPENDED" => job[r.job].status \in {"SUSPENDED", "EXPIRED"}
        /\ r.at \in {"filesExist", "checksums", "updateTask"} =>
              r.task = t /\ CanBypass(t, r.status, r.allowed)
        /\ r.at = "updateJob" => r.status = "SUSPENDED" /\ t.summary # NoSummary
        /\ r.at \in {"getTasks", "filesExist", "checksums", "updateTask", "updateJob"}

Stands == \A h \in Handlers : StandsOn(h) /\ RetryStands(h) /\ BypassStands(h)

(* Nobody works on a job that is neither pending nor in progress.          *)
LEMMA WorldLeaves ==
    ASSUME TypeInv, WorldNext, NEW j \in Jobs, job[j].status \notin {"PENDING", "IN_PROGRESS"}
    PROVE  /\ task'[j] = task[j] /\ ran'[j] = ran[j]
           /\ \/ job'[j].status = job[j].status
              \/ "expire" \in Faults /\ Active(j) /\ job'[j].status = "EXPIRED"
           /\ job'[j].product = job[j].product /\ job'[j].version = job[j].version
           /\ job'[j].tracked = job[j].tracked /\ job'[j].finalize = job[j].finalize
           /\ job'[j].approval = job[j].approval
  <1>1. CASE Untouched(j)  BY <1>1 DEF Untouched, SameJob
  <1>2. CASE WorkOn(j)
    <2>1. Expire(j) \/ CleanUp(j)  BY <1>2, WorkIs, FinishIs, AddFinalizeIs DEF WorkOn
    <2> QED  BY <2>1, WorkIs, CleanUpIs DEF StatusIs, JobIs
  <1> QED  BY <1>1, <1>2, WorldTouches

(* The product and the version of a job stay what they are.                *)
LEMMA RecordStays ==
    ASSUME TypeInv, [Next]_vars, NEW j \in Jobs, Exists(j)
    PROVE  job'[j].product = job[j].product /\ job'[j].version = job[j].version
  <1>1. CASE Untouched(j)  BY <1>1 DEF Untouched, SameJob
  <1>2. ASSUME NEW h \in Handlers, req[h].job = j, Writing(h)
        PROVE  job'[j].product = job[j].product /\ job'[j].version = job[j].version
    <2>1. CASE SoftReset(h) \/ HardResetJob(h)
      BY <1>2, <2>1, SoftResetIs, HardResetJobIs DEF JobIs
    <2>2. CASE HardResetTask(h) \/ BypassUpdateTask(h)
      BY <1>2, <2>2, HardResetTaskIs, BypassUpdateTaskIs DEF SameJob
    <2>3. CASE BypassUpdateJob(h) \/ BypassNotify(h)
      BY <1>2, <2>3, BypassUpdateJobIs, BypassNotifyIs DEF JobIs
    <2>4. CASE AbortJob(h)  BY <1>2, <2>4, AbortJobIs DEF StatusIs, JobIs
    <2> QED  BY <1>2, <2>1, <2>2, <2>3, <2>4 DEF Writing
  <1>3. CASE WorkOn(j)
    BY <1>3, WorkIs, FinishIs, AddFinalizeIs, CleanUpIs DEF WorkOn, StatusIs, JobIs
  <1> QED  BY <1>1, <1>2, <1>3, TouchedBy, CreateIs

-----------------------------------------------------------------------------
(* The request schema admits no error type in a bypass's list but this.    *)
SchemaLists == \A allowed \in AllowedLists : allowed \subseteq {"resolution"}

(* What the records of a job say about its last validation run: an outcome *)
(* is recorded only of a run that ended, it is the outcome of that run,    *)
(* and a task is valid only with an outcome that allows it.                *)
Outcome(j) ==
    LET t == task[j] IN
    /\ ~Exists(j) => t.checksums = {} /\ ~t.isValid /\ t.summary = NoSummary
    /\ t.summary # NoSummary => /\ t.summary = ran[j].summary /\ t.status = "COMPLETED"
                                /\ t.isValid \/ t.summary.counted # {}
    /\ t.isValid => /\ t.summary # NoSummary
                    /\ SchemaLists => t.summary.counted \subseteq ThresholdTypes \ t.summary.exceeded

Outcomes == \A j \in Jobs : Outcome(j)

(* An outcome that a bypass lets pass exceeds no threshold.                *)
LEMMA BypassableWithin ==
    ASSUME SchemaLists, NEW s \in Summary, NEW allowed \in AllowedLists, Bypassable(s, allowed)
    PROVE  s.counted \subseteq ThresholdTypes \ s.exceeded
  <1>1. Bypassable(s, {})  BY AllowedListDecidesNothing DEF SchemaLists
  <1> QED  BY <1>1 DEF Bypassable, Acceptable, Summary

(* A request's write leaves its job with an honest outcome.                *)
LEMMA WritesOutcome ==
    ASSUME Base, Stands, Outcomes, NEW h \in Handlers, NEW j, j = req[h].job, Writing(h)
    PROVE  Outcome(j)'
  <1>0. /\ j \in Jobs /\ Outcome(j) /\ Heals(req[h]) /\ Exists(j) /\ TypeInv
        /\ job[j] \in Job /\ task[j] \in Task /\ RetryStands(h) /\ BypassStands(h)
    BY WritingJob DEF Base, HealInv, RequestsFormed, Writing, SoftReset, HardResetTask, HardResetJob,
       BypassUpdateTask, BypassUpdateJob, BypassNotify, AbortJob, Awaiting, JobOps, TypeInv, TypeOK, Stands,
       Outcomes
  <1> USE DEF Outcome, Exists
  <1>1. CASE SoftReset(h)
    <2>1. TaskIs(j, IF task[j].status = "FAILED" THEN "PENDING" ELSE task[j].status,
                     task[j].isValid, task[j].checksums, task[j].summary) /\ ran' = ran
      BY <1>0, <1>1, SoftResetIs
    <2>2. job'[j].status = "PENDING"  BY <1>0, <1>1, SoftResetIs DEF JobIs
    <2> QED  BY <1>0, <2>1, <2>2 DEF TaskIs
  <1>2. CASE HardResetTask(h)
    <2>1. job'[j] = job[j] /\ task'[j].isValid = req[h].task.isValid /\ task'[j].summary = NoSummary
      BY <1>0, <1>2, HardResetTaskIs DEF TaskIs, SameJob
    <2>2. ~req[h].task.isValid  BY <1>0, <1>2 DEF HardResetTask, RetryStands, Awaiting
    <2> QED  BY <1>0, <2>1, <2>2
  <1>3. CASE HardResetJob(h)
    <2>1. task' = task /\ ran' = ran /\ job'[j].status = "PENDING"
      BY <1>0, <1>3, HardResetJobIs DEF JobIs
    <2> QED  BY <1>0, <2>1
  <1>4. CASE BypassUpdateTask(h)
    <2>1. req[h].task = task[j] /\ CanBypass(task[j], req[h].status, req[h].allowed)
          /\ req[h].allowed \in AllowedLists
      BY <1>0, <1>4 DEF BypassUpdateTask, BypassStands, Heals, Awaiting
    <2>2. task[j].summary # NoSummary /\ Bypassable(task[j].summary, req[h].allowed)
      BY <2>1 DEF CanBypass
    <2>3. SchemaLists => task[j].summary.counted \subseteq ThresholdTypes \ task[j].summary.exceeded
      BY <1>0, <2>1, <2>2, BypassableWithin DEF Task
    <2>4. /\ SameJob(j) /\ ran' = ran
          /\ TaskIs(j, task[j].status, TRUE, req[h].task.checksums, req[h].task.summary)
      BY <1>0, <1>4, BypassUpdateTaskIs
    <2>5. /\ job'[j] = job[j] /\ task'[j].isValid /\ task'[j].summary = task[j].summary
          /\ task'[j].status = task[j].status
      BY <2>1, <2>4 DEF TaskIs, SameJob
    <2> QED  BY <1>0, <2>2, <2>3, <2>4, <2>5
  <1>5. CASE BypassUpdateJob(h)
    <2>1. task' = task /\ ran' = ran /\ job'[j].status = "IN_PROGRESS"
      BY <1>0, <1>5, BypassUpdateJobIs DEF JobIs
    <2> QED  BY <1>0, <2>1
  <1>6. CASE BypassNotify(h)
    <2>1. task' = task /\ ran' = ran /\ job'[j].status = job[j].status
      BY <1>0, <1>6, BypassNotifyIs
    <2> QED  BY <1>0, <2>1
  <1>7. CASE AbortJob(h)
    <2>1. job'[j].status = "ABORTED" /\ ran' = ran
      BY <1>0, <1>7, AbortJobIs DEF StatusIs, JobIs
    <2>2. TaskIs(j, IF task[j].status = "COMPLETED" THEN "COMPLETED" ELSE "ABORTED",
                 task[j].isValid, task[j].checksums, task[j].summary)
      BY <1>0, <1>7, AbortJobIs
    <2> QED  BY <1>0, <2>1, <2>2 DEF TaskIs
  <1> QED  BY <1>1, <1>2, <1>3, <1>4, <1>5, <1>6, <1>7 DEF Writing

(* So does every other step.                                               *)
LEMMA OutcomesStep ==
    ASSUME Base, Stands, Outcomes, [Next]_vars
    PROVE  Outcomes'
  <1> SUFFICES ASSUME NEW j \in Jobs PROVE Outcome(j)'  BY DEF Outcomes
  <1>0. TypeInv /\ Outcome(j) /\ job[j] \in Job /\ task[j] \in Task  BY DEF Base, TypeInv, TypeOK, Outcomes
  <1> USE DEF Outcome, Exists
  <1>1. CASE Untouched(j)  BY <1>0, <1>1 DEF Untouched, SameJob
  <1>2. ASSUME NEW h \in Handlers, CreateJob(h, j)  PROVE Outcome(j)'
    BY <1>0, <1>2, CreateIs DEF TaskIs
  <1>3. ASSUME NEW h \in Handlers, req[h].job = j, Writing(h)  PROVE Outcome(j)'
    BY <1>3, WritesOutcome
  <1>4. CASE WorkOn(j)
    <2>1. ASSUME NEW s \in Summaries, FinishValidation(j, s)  PROVE Outcome(j)'
      <3>1. /\ task'[j].status = "COMPLETED" /\ task'[j].summary = s
            /\ task'[j].isValid = (s.counted = {})
        BY <1>0, <2>1, FinishIs, ZenonT(30) DEF TaskIs
      <3>2. ran'[j] = [summary |-> s, checksums |-> Checksums(Product(j))]  BY <1>0, <2>1, FinishIs
      <3>3. ran'[j].summary = s  BY <3>2
      <3>4. s # NoSummary  BY StateAssumption
      <3>5. job'[j].status # "NONE"  BY <1>0, <2>1, FinishIs DEF JobIs
      <3> QED  BY <3>1, <3>3, <3>4, <3>5
    <2>2. CASE StartValidation(j) \/ FailValidation(j)
      BY <1>0, <2>2, WorkIs DEF StatusIs, JobIs, TaskIs
    <2>3. CASE Resume(j) \/ FailLater(j) \/ AddFinalize(j) \/ Complete(j) \/ Expire(j)
      <3>1. task' = task /\ ran' = ran /\ job'[j].status # "NONE"
        BY <1>0, <2>3, WorkIs, AddFinalizeIs DEF StatusIs, JobIs
      <3>2. Exists(j)
        BY <1>0, <2>3, WorkIs, AddFinalizeIs DEF Active, Blocking
      <3> QED  BY <1>0, <3>1, <3>2
    <2>4. CASE CleanUp(j)  BY <1>0, <2>4, CleanUpIs DEF StatusIs, JobIs
    <2> QED  BY <1>4, <2>1, <2>2, <2>3, <2>4 DEF WorkOn
  <1> QED  BY <1>0, <1>1, <1>2, <1>3, <1>4, TouchedBy

-----------------------------------------------------------------------------
(* With a single slot, nobody but workers comes between the steps of a     *)
(* request: what it stands on stays.                                       *)

(* A step of the world.                                                    *)
LEMMA WorldStands ==
    ASSUME Base, Stands, WorldNext, NEW h \in Handlers
    PROVE  StandsOn(h)' /\ RetryStands(h)' /\ BypassStands(h)'
  <1> DEFINE j == req[h].job
  <1>0. TypeInv /\ StandsOn(h) /\ RetryStands(h) /\ BypassStands(h) /\ req' = req
    BY WorldAsksNothing DEF Base, Stands
  <1>1. req[h].op \in JobOps => j \in Jobs /\ Exists(j)
    BY DEF Base, TypeInv, JobRequests, RequestsFormed
  <1>2. StandsOn(h)'
    <2>1. req[h].op \in JobOps => job'[j].product = job[j].product
      BY <1>0, <1>1, RecordStays DEF Next
    <2> QED  BY <1>0, <2>1 DEF StandsOn, Product
  <1>3. ASSUME req[h].op \in JobOps, job[j].status \in {"FAILED", "SUSPENDED", "EXPIRED"}
        PROVE  task'[j] = task[j] /\ job'[j].status \in {job[j].status, "EXPIRED"}
    BY <1>0, <1>1, <1>3, WorldLeaves
  <1>4. RetryStands(h)'
    BY <1>0, <1>3 DEF RetryStands, JobOps
  <1>5. BypassStands(h)'
    <2>1. CASE req[h].op = "bypass" /\ req[h].at \notin {"getJob", "notify"} /\ req[h].status = "SUSPENDED"
      BY <1>0, <1>3, <2>1 DEF BypassStands, JobOps
    <2>2. CASE ~(req[h].op = "bypass" /\ req[h].at \notin {"getJob", "notify"} /\ req[h].status = "SUSPENDED")
      BY <1>0, <2>2 DEF BypassStands, CanBypass
    <2> QED  BY <2>1, <2>2
  <1> QED  BY <1>2, <1>4, <1>5

(* A step of the request.                                                  *)
LEMMA RequestStands ==
    ASSUME Base, Stands, Outcomes, NEW h \in Handlers, Receive(h) \/ Step(h)
    PROVE  StandsOn(h)' /\ RetryStands(h)' /\ BypassStands(h)'
  <1> DEFINE j == req[h].job
  <1>0. TypeInv /\ RequestsFormed /\ StandsOn(h) /\ RetryStands(h) /\ BypassStands(h)
    BY DEF Base, Stands
  <1>1. CASE Gone(h)
    BY <1>1 DEF Gone, StandsOn, RetryStands, BypassStands, JobOps
  <1>2. CASE Receive(h)
    <2>1. job' = job  BY <1>0, <1>2, ArrivingIs DEF remote
    <2>2. /\ req'[h].op \in JobOps => req'[h].at = "getJob" /\ req'[h].product = job'[req'[h].job].product
      BY <1>0, <1>2, <2>1, ArrivingIs DEF JobOps, Product
    <2> QED  BY <2>2 DEF StandsOn, RetryStands, BypassStands, JobOps, Product
  <1>3. ASSUME Step(h), req[h].op \in JobOps, req'[h].op = req[h].op, req'[h].job = j,
               req'[h].product = req[h].product
        PROVE  StandsOn(h)'
    <2>1. j \in Jobs /\ Exists(j)  BY <1>3 DEF Base, TypeInv, JobRequests, RequestsFormed
    <2>2. job'[j].product = job[j].product  BY <1>0, <1>3, <2>1, RecordStays DEF Next
    <2> QED  BY <1>0, <1>3, <2>2 DEF StandsOn, Product
  <1>4. CASE Step(h) /\ req[h].op \in {"new", "update"}
    <2>1. Gone(h) \/ req'[h].op = req[h].op
      BY <1>0, <1>4, AdmitSteps, AdmitReadIs, ChecksumIs DEF MovedTo, Moved
    <2> QED  BY <1>1, <1>4, <2>1 DEF StandsOn, RetryStands, BypassStands, JobOps
  <1>5. CASE Step(h) /\ req[h].op = "abort"
    <2>1. Gone(h) \/ (req'[h].op = req[h].op /\ req'[h].job = j /\ req'[h].product = req[h].product)
      BY <1>0, <1>5, AbortSteps, JobReadIs DEF MovedTo, Moved
    <2> QED  BY <1>1, <1>3, <1>5, <2>1 DEF RetryStands, BypassStands, JobOps
  <1>6. CASE Step(h) /\ req[h].op = "retry"
    <2>0. j \in Jobs  BY <1>6 DEF Base, TypeInv, JobRequests, JobOps
    <2>1. Gone(h) \/ (req'[h].op = "retry" /\ req'[h].job = j /\ req'[h].product = req[h].product)
      BY <1>0, <1>6, RetrySteps, JobReadIs, ChecksumIs DEF MovedTo, Moved
    <2>2. Gone(h) \/ RetryStands(h)'
      <3>1. CASE RetryGetJob(h)
        <4>1. Gone(h) \/ (req'[h].op = "retry" /\ req'[h].job = j /\ req'[h].at = "getTasks"
                          /\ job[j].status \in Retryable /\ job' = job /\ task' = task)
          BY <1>0, <3>1, JobReadIs DEF Moved, Awaiting, remote
        <4> QED  BY <4>1 DEF RetryStands, Retryable
      <3>2. CASE RetryGetTasks(h)
        <4>1. /\ req'[h].op = "retry" /\ req'[h].job = j /\ req[h].at = "getTasks"
              /\ req'[h].at = (IF task[j].isValid THEN "resetJob" ELSE "deleteEntity")
              /\ req'[h].task = task[j] /\ job' = job /\ task' = task
          BY <1>0, <3>2, JobReadIs DEF Moved, Awaiting, remote
        <4> QED  BY <1>0, <1>6, <4>1 DEF RetryStands
      <3>3. CASE RetryDeleteEntity(h) /\ MovedTo(h, "filesExist")
        <4>1. /\ req'[h].op = "retry" /\ req'[h].job = j /\ req[h].at = "deleteEntity"
              /\ req'[h].at = "filesExist" /\ req'[h].task = req[h].task /\ job' = job /\ task' = task
          BY <1>6, <3>3 DEF RetryDeleteEntity, MovedTo, Moved, Awaiting
        <4> QED  BY <1>0, <1>6, <4>1 DEF RetryStands
      <3>4. CASE CheckFilesExist(h) /\ MovedTo(h, "checksums")
        <4>1. /\ req'[h].op = "retry" /\ req'[h].job = j /\ req[h].at = "filesExist"
              /\ req'[h].at = "checksums" /\ req'[h].task = req[h].task /\ job' = job /\ task' = task
          BY <1>6, <3>4 DEF CheckFilesExist, MovedTo, Moved, remote
        <4> QED  BY <1>0, <1>6, <4>1 DEF RetryStands
      <3>5. ASSUME NEW f \in ShapeFiles, GetFileChecksum(h, f)  PROVE Gone(h) \/ RetryStands(h)'
        <4>1. \/ Gone(h)
              \/ /\ req'[h].op = "retry" /\ req'[h].job = j /\ req[h].at = "checksums"
                 /\ req'[h].at \in {"checksums", "updateTask"} /\ req'[h].task = req[h].task
                 /\ job' = job /\ task' = task
          BY <1>0, <1>6, <3>5, ChecksumIs DEF Moved, remote
        <4> QED  BY <1>0, <1>6, <4>1 DEF RetryStands
      <3>6. CASE HardResetTask(h) /\ MovedTo(h, "updateJob")
        <4>1. /\ req'[h].op = "retry" /\ req'[h].job = j /\ req'[h].at = "updateJob"
              /\ req[h].at = "updateTask" /\ job'[j] = job[j]
          BY <1>0, <1>6, <3>6, HardResetTaskIs DEF MovedTo, Moved, SameJob, Awaiting
        <4>2. task'[j].status = "PENDING" /\ task'[j].isValid = req[h].task.isValid
          BY <1>0, <3>6, HardResetTaskIs DEF TaskIs
        <4> QED  BY <1>0, <1>6, <4>1, <4>2 DEF RetryStands
      <3> QED  BY <1>0, <1>6, <3>1, <3>2, <3>3, <3>4, <3>5, <3>6, RetrySteps
    <2> QED  BY <1>1, <1>3, <1>6, <2>1, <2>2 DEF BypassStands, JobOps
  <1>7. CASE Step(h) /\ req[h].op = "bypass"
    <2>0. j \in Jobs /\ Outcome(j)  BY <1>7 DEF Base, TypeInv, JobRequests, JobOps, Outcomes
    <2>1. Gone(h) \/ (req'[h].op = "bypass" /\ req'[h].job = j /\ req'[h].product = req[h].product)
      BY <1>0, <1>7, BypassSteps, JobReadIs, ChecksumIs DEF MovedTo, Moved
    <2>2. Gone(h) \/ BypassStands(h)'
      <3>1. CASE BypassGetJob(h)
        <4>1. /\ req'[h].op = "bypass" /\ req'[h].job = j /\ req'[h].at = "getTasks"
              /\ req'[h].status = job[j].status /\ job' = job
          BY <1>0, <3>1, JobReadIs DEF Moved, Awaiting, remote
        <4> QED  BY <4>1 DEF BypassStands
      <3>2. CASE BypassGetTasks(h)
        <4>1. \/ Gone(h)
              \/ /\ req'[h].op = "bypass" /\ req'[h].job = j /\ req[h].at = "getTasks"
                 /\ req'[h].at = "filesExist" /\ req'[h].status = req[h].status
                 /\ req'[h].allowed = req[h].allowed
                 /\ req'[h].task = task[j] /\ CanBypass(task[j], req[h].status, req[h].allowed)
                 /\ job' = job /\ task' = task
          BY <1>0, <3>2, JobReadIs DEF Moved, Awaiting, remote
        <4> QED  BY <1>0, <1>7, <4>1 DEF BypassStands, CanBypass
      <3>3. CASE CheckFilesExist(h) /\ MovedTo(h, "checksums")
        <4>1. /\ req'[h].op = "bypass" /\ req'[h].job = j /\ req[h].at = "filesExist"
              /\ req'[h].at = "checksums" /\ req'[h].task = req[h].task /\ job' = job /\ task' = task
              /\ req'[h].status = req[h].status /\ req'[h].allowed = req[h].allowed
          BY <1>7, <3>3 DEF CheckFilesExist, MovedTo, Moved, remote
        <4> QED  BY <1>0, <1>7, <4>1 DEF BypassStands, CanBypass
      <3>4. ASSUME NEW f \in ShapeFiles, GetFileChecksum(h, f)  PROVE Gone(h) \/ BypassStands(h)'
        <4>1. \/ Gone(h)
              \/ /\ req'[h].op = "bypass" /\ req'[h].job = j /\ req[h].at = "checksums"
                 /\ req'[h].at \in {"checksums", "updateTask"} /\ req'[h].task = req[h].task
                 /\ job' = job /\ task' = task
                 /\ req'[h].status = req[h].status /\ req'[h].allowed = req[h].allowed
          BY <1>0, <1>7, <3>4, ChecksumIs DEF Moved, remote
        <4> QED  BY <1>0, <1>7, <4>1 DEF BypassStands, CanBypass
      <3>5. CASE BypassUpdateTask(h) /\ MovedTo(h, "updateJob")
        <4>1. /\ req'[h].op = "bypass" /\ req'[h].job = j /\ req'[h].at = "updateJob"
              /\ req'[h].status = req[h].status /\ req[h].at = "updateTask" /\ job'[j] = job[j]
          BY <1>0, <1>7, <3>5, BypassUpdateTaskIs DEF MovedTo, Moved, SameJob, Awaiting
        <4>2. task'[j].summary = req[h].task.summary
          BY <1>0, <3>5, BypassUpdateTaskIs DEF TaskIs
        <4> QED  BY <1>0, <1>7, <4>1, <4>2 DEF BypassStands, CanBypass
      <3>6. CASE CallFails(h) /\ req[h].at = "updateTask" /\ MovedTo(h, "updateJob")
        <4>1. /\ req'[h].op = "bypass" /\ req'[h].job = j /\ req'[h].at = "updateJob"
              /\ req'[h].status = req[h].status /\ job' = job /\ task' = task
          BY <1>7, <3>6 DEF CallFails, MovedTo, Moved, remote
        <4> QED  BY <1>0, <1>7, <3>6, <4>1 DEF BypassStands, CanBypass
      <3>7. CASE BypassUpdateJob(h) /\ MovedTo(h, "notify")
        BY <3>7 DEF MovedTo, Moved, BypassStands
      <3> QED  BY <1>0, <1>7, <3>1, <3>2, <3>3, <3>4, <3>5, <3>6, <3>7, BypassSteps
    <2> QED  BY <1>1, <1>3, <1>7, <2>1, <2>2 DEF RetryStands, JobOps
  <1>8. CASE Step(h) /\ req[h].op = "none"
    BY <1>0, <1>1, <1>8, NoSteps
  <1>9. req[h].op \in {"none", "new", "update", "retry", "bypass", "abort"}
    BY <1>0 DEF TypeInv, TypeOK, Request, Ops
  <1> QED  BY <1>2, <1>4, <1>5, <1>6, <1>7, <1>8, <1>9

-----------------------------------------------------------------------------
(* The invariant of one request at a time.                                 *)
Core == Base /\ Stands /\ Outcomes

(* It is inductive.                                                        *)
LEMMA CoreStep == OneSlot /\ Core /\ [Next]_vars => Core'
  <1> SUFFICES ASSUME OneSlot, Core, [Next]_vars PROVE Core'  OBVIOUS
  <1>1. Base' /\ Outcomes'  BY BaseStep, OutcomesStep DEF Core
  <1>2. ASSUME NEW h \in Handlers  PROVE StandsOn(h)' /\ RetryStands(h)' /\ BypassStands(h)'
    <2>1. ASSUME NEW g \in Handlers, Receive(g) \/ Step(g)
          PROVE  StandsOn(h)' /\ RetryStands(h)' /\ BypassStands(h)'
      BY <2>1, RequestStands DEF OneSlot, Core
    <2>2. CASE WorldNext  BY <2>2, WorldStands DEF Core
    <2>3. CASE Crash
      <3>1. req'[h] = Idle  BY <2>3 DEF Crash
      <3> QED  BY <3>1 DEF Idle, StandsOn, RetryStands, BypassStands, JobOps
    <2>4. CASE UNCHANGED vars
      BY <2>4 DEF Core, Stands, vars, StandsOn, RetryStands, BypassStands, Product
    <2> QED  BY <2>1, <2>2, <2>3, <2>4 DEF Next
  <1> QED  BY <1>1, <1>2 DEF Core, Stands

(* It holds when the service starts.                                       *)
LEMMA CoreInit == Init => Core
  BY BaseInit DEF Core, Init, Stands, StandsOn, RetryStands, BypassStands, Outcomes, Outcome, Idle,
     BlankJob, BlankTask, JobOps, Exists

(* One request at a time, whatever fails, expires or is edited: a task is  *)
(* marked valid, by a worker or by a bypass, only when every error of its  *)
(* last validation run is of a type whose threshold was not exceeded.      *)
THEOREM OneAtATimeValidWithinThresholds ==
    OneSlot /\ SchemaLists /\ Spec => []ValidWithinThresholds
  <1>1. SchemaLists /\ Core => ValidWithinThresholds
    <2> SUFFICES ASSUME SchemaLists, Core, NEW j \in Jobs, task[j].isValid
                 PROVE  /\ ran[j].summary # NoSummary
                        /\ ran[j].summary.counted \subseteq ThresholdTypes \ ran[j].summary.exceeded
      BY DEF ValidWithinThresholds
    <2>1. Outcome(j)  BY DEF Core, Outcomes
    <2> QED  BY <2>1 DEF Outcome
  <1>2. OneSlot => (Init => Core) /\ (Core /\ [Next]_vars => Core')  BY CoreInit, CoreStep
  <1>3. CASE OneSlot /\ SchemaLists  BY <1>1, <1>2, <1>3, PTL DEF Spec
  <1> QED  BY <1>3

(* The write of a request forgets no checksum.                             *)
LEMMA WritesGrow ==
    ASSUME Core, NEW h \in Handlers, NEW j, j = req[h].job, Writing(h)
    PROVE  task[j].checksums \subseteq task'[j].checksums
  <1>0. TypeInv /\ j \in Jobs /\ RetryStands(h) /\ BypassStands(h)
    BY WritingJob DEF Core, Base, Stands
  <1>1. CASE HardResetTask(h)
    <2>1. req[h].task = task[j]  BY <1>0, <1>1 DEF HardResetTask, RetryStands, Awaiting
    <2>2. task'[j].checksums = IF req[h].task.status = "COMPLETED"
                                 THEN buildUpdatedChecksums(req[h].task.checksums, req[h].read)
                                 ELSE req[h].task.checksums
      BY <1>0, <1>1, HardResetTaskIs DEF TaskIs
    <2> QED  BY <2>1, <2>2 DEF buildUpdatedChecksums
  <1>2. CASE BypassUpdateTask(h)
    <2>1. req[h].task = task[j]  BY <1>0, <1>2 DEF BypassUpdateTask, BypassStands, Awaiting
    <2> QED  BY <1>0, <1>2, <2>1, BypassUpdateTaskIs DEF TaskIs
  <1>3. CASE SoftReset(h) \/ AbortJob(h)  BY <1>0, <1>3, SoftResetIs, AbortJobIs DEF TaskIs
  <1>4. CASE HardResetJob(h) \/ BypassUpdateJob(h) \/ BypassNotify(h)
    BY <1>0, <1>4, HardResetJobIs, BypassUpdateJobIs, BypassNotifyIs
  <1> QED  BY <1>1, <1>2, <1>3, <1>4 DEF Writing

(* One request at a time, whatever fails or expires: no checksum recorded  *)
(* for a job is ever forgotten.  The writes of retries and bypasses replace*)
(* the parameters of the task by ones read several awaits earlier, so this *)
(* is about nobody having come between.                                    *)
THEOREM OneAtATimeChecksumsGrow == OneSlot /\ Spec => ChecksumsGrow
  <1> DEFINE Grow == \A j \in Jobs : task[j].checksums \subseteq task'[j].checksums
  <1>1. Core /\ [Next]_vars => Grow
    <2> SUFFICES ASSUME Core, [Next]_vars, NEW j \in Jobs
                 PROVE  task[j].checksums \subseteq task'[j].checksums
      OBVIOUS
    <2>0. TypeInv /\ Outcome(j)  BY DEF Core, Base, Outcomes
    <2>1. CASE Untouched(j)  BY <2>1 DEF Untouched
    <2>2. ASSUME NEW h \in Handlers, CreateJob(h, j)  PROVE task[j].checksums \subseteq task'[j].checksums
      BY <2>0, <2>2, CreateIs DEF Outcome
    <2>3. CASE WorkOn(j)
      BY <2>0, <2>3, WorkIs, FinishIs, AddFinalizeIs, CleanUpIs DEF WorkOn, TaskIs
    <2> QED  BY <2>0, <2>1, <2>2, <2>3, TouchedBy, WritesGrow
  <1>2. Grow => [Grow]_vars  OBVIOUS
  <1>3. OneSlot => (Init => Core) /\ (Core /\ [Next]_vars => Core')  BY CoreInit, CoreStep
  <1>4. CASE OneSlot  BY <1>1, <1>2, <1>3, <1>4, PTL DEF Spec, ChecksumsGrow
  <1> QED  BY <1>4

-----------------------------------------------------------------------------
(* What nobody else can have changed under a single request.               *)

(* The product of job j, or of the request of slot h, has no stray job.    *)
Clear(j) == NoStray(Product(j))
ClearFor(h) == NoStray(req[h].product)

(* A product gets stray jobs and never loses them.                         *)
LEMMA ClearBefore ==
    ASSUME TypeInv, MarksInv, [Next]_vars
    PROVE  /\ \A j \in Jobs : Exists(j) /\ Clear(j)' => Clear(j)
           /\ \A h \in Handlers : req'[h].product = req[h].product /\ ClearFor(h)' => ClearFor(h)
  <1>1. ASSUME NEW p, \A k \in Jobs : job'[k].product = p => ~job'[k].stray,
               NEW k \in Jobs, job[k].product = p
        PROVE  ~job[k].stray
    <2>1. CASE Exists(k)  BY <1>1, <2>1, JobKept DEF Kept, Product
    <2>2. CASE ~Exists(k)  BY <2>2 DEF MarksInv
    <2> QED  BY <2>1, <2>2
  <1>2. ASSUME NEW j \in Jobs, Exists(j), Clear(j)'  PROVE Clear(j)
    <2>1. job'[j].product = job[j].product  BY <1>2, JobKept DEF Kept, Product
    <2>2. \A k \in Jobs : job'[k].product = job'[j].product => ~job'[k].stray
      BY <1>2 DEF Clear, NoStray, Product
    <2>3. \A k \in Jobs : job[k].product = job[j].product => ~job[k].stray
      BY <1>1, <2>1, <2>2
    <2> QED  BY <2>3 DEF Clear, NoStray, Product
  <1>3. ASSUME NEW h \in Handlers, req'[h].product = req[h].product, ClearFor(h)'  PROVE ClearFor(h)
    <2>1. \A k \in Jobs : job'[k].product = req'[h].product => ~job'[k].stray
      BY <1>3 DEF ClearFor, NoStray, Product
    <2>2. \A k \in Jobs : job[k].product = req[h].product => ~job[k].stray
      BY <1>1, <1>3, <2>1
    <2> QED  BY <2>2 DEF ClearFor, NoStray, Product
  <1> QED  BY <1>2, <1>3

(* What is the same for the jobs of a product with no stray job.           *)
LEMMA ClearIs ==
    ASSUME MarksInv
    PROVE  /\ \A j, k \in Jobs : Clear(j) /\ Product(j) = Product(k) =>
                 Clear(k) /\ ~job[k].stray /\ (Active(k) => ~job[k].cleaned)
           /\ \A h \in Handlers, k \in Jobs : Product(k) = req[h].product =>
                 (ClearFor(h) <=> Clear(k))
  <1>1. ASSUME NEW j \in Jobs, NEW k \in Jobs, Clear(j), Product(j) = Product(k)
        PROVE  Clear(k) /\ ~job[k].stray /\ (Active(k) => ~job[k].cleaned)
    <2>1. Clear(k) /\ ~job[k].stray  BY <1>1 DEF Clear, NoStray
    <2> QED  BY <2>1 DEF MarksInv
  <1>2. ASSUME NEW h \in Handlers, NEW k \in Jobs, Product(k) = req[h].product
        PROVE  ClearFor(h) <=> Clear(k)
    BY <1>2 DEF ClearFor, Clear, NoStray
  <1> QED  BY <1>1, <1>2

(* What CheckThenAct promises, in terms of jobs: a product with no stray   *)
(* job has one active job, and none but that of the request in flight.     *)
LEMMA Alone ==
    ASSUME Base
    PROVE  /\ \A j, k \in Jobs :
                 Active(j) /\ Active(k) /\ Product(j) = Product(k) /\ Clear(j) => j = k
           /\ \A h \in Handlers :
                 /\ KindOf(req[h]) = "create" /\ ClearFor(h) =>
                       \A k \in Jobs : Active(k) => Product(k) # req[h].product
                 /\ KindOf(req[h]) \in {"reset", "bypass"} /\ ~job[req[h].job].cleaned =>
                       /\ req[h].job \in Jobs
                       /\ Clear(req[h].job) =>
                             \A k \in Jobs : Active(k) /\ Product(k) = Product(req[h].job) => k = req[h].job
  <1> USE DEF CP!Open, CP!Seen, StatusOfJobs, ProductOfJobs, CleanedJobs, Active, Product, Blocking
  <1>0. MarksInv /\ CP!StillAlone /\ CP!OneOpenJob  BY DEF Base, CP!AloneInv
  <1>1. ASSUME NEW j \in Jobs, NEW k \in Jobs, Active(j), Active(k), Product(j) = Product(k), Clear(j)
        PROVE  j = k
    <2>1. ~job[j].cleaned /\ ~job[k].cleaned  BY <1>0, <1>1, ClearIs
    <2> QED  BY <1>0, <1>1, <2>1 DEF CP!OneOpenJob
  <1>2. ASSUME NEW h \in Handlers
        PROVE  /\ PermitsHeld[h].kind = KindOf(req[h])
               /\ KindOf(req[h]) = "create" => PermitsHeld[h].on = req[h].product
               /\ KindOf(req[h]) \in {"reset", "bypass"} => PermitsHeld[h].on = req[h].job
    BY <1>2 DEF PermitsHeld, PermitOf
  <1>3. ASSUME NEW h \in Handlers, KindOf(req[h]) = "create", ClearFor(h), NEW k \in Jobs, Active(k),
               Product(k) = req[h].product
        PROVE  FALSE
    <2>1. Clear(k)  BY <1>0, <1>3, ClearIs
    <2>2. ~job[k].cleaned  BY <1>0, <1>3, <2>1, ClearIs
    <2>3. ~CP!Seen(k)  BY <1>0, <1>2, <1>3 DEF CP!StillAlone
    <2> QED  BY <1>3, <2>2, <2>3
  <1>4. ASSUME NEW h \in Handlers, KindOf(req[h]) \in {"reset", "bypass"}
        PROVE  req[h].job \in Jobs
    BY <1>0, <1>2, <1>4 DEF CP!StillAlone
  <1>5. ASSUME NEW h \in Handlers, KindOf(req[h]) \in {"reset", "bypass"}, ~job[req[h].job].cleaned,
               Clear(req[h].job), NEW k \in Jobs, Active(k), Product(k) = Product(req[h].job)
        PROVE  k = req[h].job
    <2>0. req[h].job \in Jobs  BY <1>4, <1>5
    <2>1. ~job[k].cleaned  BY <1>0, <1>5, <2>0, ClearIs
    <2>2. CP!Seen(k)  BY <1>5, <2>1
    <2>3. PermitsHeld[h].on \notin CleanedJobs  BY <1>2, <1>5
    <2>4. CP!Seen(k) /\ ProductOfJobs[k] = ProductOfJobs[PermitsHeld[h].on] => k = PermitsHeld[h].on
      BY <1>0, <1>2, <1>5, <2>3 DEF CP!StillAlone
    <2> QED  BY <1>2, <1>5, <2>0, <2>2, <2>4
  <1> QED  BY <1>1, <1>3, <1>4, <1>5

(* Workers and the job manager open no job.                                *)
LEMMA WorldOpensNone ==
    ASSUME TypeInv, WorldNext, NEW j \in Jobs, Active(j)'
    PROVE  Active(j)
  <1>1. CASE Untouched(j)  BY <1>1 DEF Untouched, SameJob, Active
  <1>2. CASE WorkOn(j)
    BY <1>2, WorkIs, FinishIs, AddFinalizeIs, CleanUpIs DEF WorkOn, StatusIs, JobIs, Active, Blocking
  <1> QED  BY <1>1, <1>2, WorldTouches

(* Who changes the validation entity of a product.                         *)
LEMMA EntityBy ==
    ASSUME TypeInv, [Next]_vars, NEW p \in Products, entity'[p] # entity[p]
    PROVE  \/ \E h \in Handlers : /\ RetryDeleteEntity(h) \/ AbortDeleteEntity(h)
                                  /\ req[h].product = p /\ entity'[p] = NoJob
           \/ \E k \in Jobs : /\ Product(k) = p /\ job[k].status = "IN_PROGRESS"
                              /\ \/ entity'[p] = k
                                 \/ entity'[p] = NoJob /\ job'[k].status = "COMPLETED"
  <1>1. ASSUME NEW h \in Handlers, Receive(h) \/ Step(h)
        PROVE  entity' = entity \/ RetryDeleteEntity(h) \/ AbortDeleteEntity(h)
    <2>1. CASE Receive(h)  BY <1>1, <2>1, ArrivingIs DEF remote
    <2>2. CASE Admit(h) \/ ReadFiles(h) \/ CallFails(h)
      BY <2>2 DEF Admit, GetLayerMetadata, ValidateInputFiles, CheckMapProxy, CheckCatalog,
         CheckNoParallelJobs, CreateJob, RefuseJob, ReadFiles, CheckFilesExist, GetFileChecksum, CallFails,
         remote
    <2>3. CASE Retry(h) \/ Bypass(h) \/ Abort(h)
      BY <2>3 DEF Retry, RetryGetJob, RetryGetTasks, SoftReset, HardResetTask, HardResetJob, Bypass,
         BypassGetJob, BypassGetTasks, BypassUpdateTask, BypassUpdateJob, BypassNotify, Abort, AbortGetJob,
         AbortGetTasks, AbortJob, remote
    <2> QED  BY <1>1, <2>1, <2>2, <2>3 DEF Step
  <1>2. ASSUME NEW h \in Handlers, RetryDeleteEntity(h) \/ AbortDeleteEntity(h)
        PROVE  req[h].product = p /\ entity'[p] = NoJob
    <2>1. entity' = [entity EXCEPT ![req[h].product] = NoJob]
      BY <1>2 DEF RetryDeleteEntity, AbortDeleteEntity
    <2> QED  BY <2>1 DEF TypeInv, TypeOK
  <1>3. ASSUME NEW k \in Jobs, NEW s \in Summaries, FinishValidation(k, s)
        PROVE  Product(k) = p /\ job[k].status = "IN_PROGRESS" /\ entity'[p] = k
    BY <1>3, FinishIs DEF TypeInv, TypeOK
  <1>4. ASSUME NEW k \in Jobs, Complete(k)
        PROVE  /\ Product(k) = p /\ job[k].status = "IN_PROGRESS" /\ entity'[p] = NoJob
               /\ job'[k].status = "COMPLETED"
    BY <1>4, WorkIs DEF StatusIs, JobIs, TypeInv, TypeOK
  <1>5. CASE WorldNext
    <2>1. ASSUME NEW k \in Jobs,
                 \/ StartValidation(k) \/ FailValidation(k) \/ Resume(k) \/ FailLater(k)
                 \/ AddFinalize(k) \/ Publish(k) \/ Expire(k) \/ CleanUp(k)
          PROVE  FALSE
      BY <2>1 DEF StartValidation, FailValidation, Resume, FailLater, AddFinalize, Publish, Expire, CleanUp
    <2>2. ASSUME NEW q, NEW f, EditFile(q, f)  PROVE FALSE  BY <2>2 DEF EditFile
    <2> QED  BY <1>3, <1>4, <1>5, <2>1, <2>2 DEF WorldNext, WorkerNext
  <1>6. ~Crash /\ ~UNCHANGED vars  BY DEF Crash, vars, remote
  <1> QED  BY <1>1, <1>2, <1>5, <1>6 DEF Next

(* Which steps are answered 200: the last writes of the operations.        *)
LEMMA SuccessIs ==
    ASSUME TypeInv, RequestsFormed, NEW h \in Handlers, Step(h), AnsweredBy(h, {200})
    PROVE  \/ (\E j \in Jobs : CreateJob(h, j)) \/ SoftReset(h) \/ HardResetJob(h)
           \/ BypassNotify(h) \/ AbortDeleteEntity(h)
  <1>0. req[h].at # "idle" /\ req'[h].at = "idle" /\ req'[h].answer = 200  BY DEF AnsweredBy
  <1>1. ASSUME NEW error, error # "none", Respond(h, error)  PROVE FALSE
    <2>1. req'[h].answer = StatusOf(req[h].op, error)
      BY <1>1 DEF Respond, Idle, TypeInv, TypeOK
    <2> QED  BY <1>0, <1>1, <2>1 DEF StatusOf
  <1>2. ASSUME NEW at, at # "idle", MovedTo(h, at)  PROVE FALSE  BY <1>0, <1>2 DEF MovedTo, Moved
  <1>3. ASSUME NEW r, r.at # "idle", Proceed(h, r)  PROVE FALSE
    BY <1>0, <1>3 DEF Proceed, TypeInv, TypeOK
  <1>4. ASSUME NEW at, at # "idle", GoTo(h, at) \/ WriteThen(h, at)  PROVE FALSE
    BY <1>1, <1>2, <1>4, GoingIs DEF WriteThen, MaybeLost
  <1> DEFINE Refused == \E error \in {"NotFoundError", "ConflictError", "UnsupportedEntityError", "Error"} :
                            Respond(h, error)
  <1>5. CASE GetLayerMetadata(h) \/ CheckNoParallelJobs(h) \/ RefuseJob(h)
    <2> DEFINE s == [req[h] EXCEPT !.at = "inputFiles", !.version = catalog[req[h].product] + 1]
               c == [req[h] EXCEPT !.at = "checksums",
                       !.checked = {j \in Jobs : Exists(j) /\ Product(j) = req[h].product}]
    <2>1. Refused \/ Proceed(h, s) \/ Proceed(h, c)
      BY <1>5 DEF GetLayerMetadata, CheckNoParallelJobs, RefuseJob
    <2>2. s.at # "idle" /\ c.at # "idle"  BY DEF TypeInv, TypeOK, Request
    <2> HIDE DEF s, c
    <2> QED  BY <1>1, <1>3, <2>1, <2>2
  <1>6. CASE ValidateInputFiles(h) \/ CheckMapProxy(h) \/ CheckCatalog(h) \/ CheckFilesExist(h)
             \/ RetryDeleteEntity(h) \/ AbortGetTasks(h)
    <2>1. \/ \E error \in {"NotFoundError", "ConflictError", "Error"} : Respond(h, error)
          \/ \E at \in Awaits \ {"idle"} : GoTo(h, at)
      BY <1>6 DEF ValidateInputFiles, CheckMapProxy, CheckCatalog, CheckFilesExist, RetryDeleteEntity,
         AbortGetTasks, MaybeLost, Awaits
    <2> QED  BY <1>1, <1>4, <2>1
  <1>7. CASE HardResetTask(h) \/ BypassUpdateTask(h) \/ BypassUpdateJob(h) \/ AbortJob(h)
    BY <1>4, <1>7 DEF HardResetTask, BypassUpdateTask, BypassUpdateJob, AbortJob, WriteThen
  <1>8. CASE RetryGetJob(h) \/ RetryGetTasks(h) \/ BypassGetJob(h) \/ BypassGetTasks(h) \/ AbortGetJob(h)
    <2> DEFINE j == req[h].job
               s == [req[h] EXCEPT !.at = "getTasks", !.status = job[j].status]
               t == [req[h] EXCEPT !.task = task[j],
                                   !.at = IF task[j].isValid THEN "resetJob" ELSE "deleteEntity"]
               f == [req[h] EXCEPT !.at = "filesExist", !.task = task[j]]
    <2>1. Refused \/ Proceed(h, s) \/ Proceed(h, t) \/ Proceed(h, f)
      BY <1>8 DEF RetryGetJob, RetryGetTasks, BypassGetJob, BypassGetTasks, AbortGetJob
    <2>2. s.at # "idle" /\ t.at # "idle" /\ f.at # "idle"  BY DEF TypeInv, TypeOK, Request
    <2> HIDE DEF s, t, f
    <2> QED  BY <1>1, <1>3, <2>1, <2>2
  <1>9. ASSUME NEW f \in ShapeFiles, GetFileChecksum(h, f)  PROVE FALSE
    <2> DEFINE read == req[h].read \cup {ChecksumOf(req[h].product, f)}
               r(at) == [req[h] EXCEPT !.at = at, !.read = read]
               s == [req[h] EXCEPT !.read = read]
    <2>1. Refused \/ Proceed(h, s) \/ \E at \in {"updateTask", "createJob"} : Proceed(h, r(at))
      BY <1>9 DEF GetFileChecksum, RetryDecision, BypassDecision
    <2>2. s.at # "idle" /\ \A at \in {"updateTask", "createJob"} : r(at).at # "idle"
      BY <1>0 DEF TypeInv, TypeOK, Request
    <2> HIDE DEF s, r
    <2> QED  BY <1>1, <1>3, <2>1, <2>2
  <1>10. CASE CallFails(h)
    <2>1. \/ GoTo(h, "updateJob")
          \/ \E error \in ErrorsOf(req[h].at) : Respond(h, error)
      BY <1>10 DEF CallFails
    <2>2. "none" \notin ErrorsOf(req[h].at)  BY DEF ErrorsOf, RemoteErrors
    <2> QED  BY <1>1, <1>4, <2>1, <2>2
  <1> QED
    BY <1>5, <1>6, <1>7, <1>8, <1>9, <1>10 DEF Step, Admit, ReadFiles, Retry, Bypass, Abort

-----------------------------------------------------------------------------
(* What holds besides when nothing expires.                                *)

NothingExpires == "expire" \notin Faults

(* A suspended job is unknown to the tracker; the finalize task is only    *)
(* ever added to a job whose task stays valid; the validation entity of a  *)
(* job that passed is kept.                                                *)
Calm(j) ==
    /\ job[j].status # "EXPIRED"
    /\ job[j].status = "SUSPENDED" => ~job[j].tracked /\ ~job[j].finalize
    /\ job[j].finalize => task[j].status = "COMPLETED" /\ task[j].isValid
    /\ Active(j) /\ task[j].isValid /\ ran[j].summary.counted = {} /\ Clear(j) => entity[Product(j)] = j

(* What was written by a request that has more to write.                   *)
RetryDeleted(h) ==
    /\ req[h].op = "retry" /\ req[h].at \in {"filesExist", "checksums", "updateTask", "updateJob"}
    /\ ClearFor(h)
    => entity[req[h].product] = NoJob

BypassApproved(h) ==
    LET j == req[h].job IN
    req[h].op = "bypass" /\ req[h].at = "notify" =>
        /\ job[j].status = "IN_PROGRESS" /\ job[j].approval = req[h].allowed
        /\ ~job[j].tracked /\ ~job[j].finalize /\ task[j].status = "COMPLETED"

AbortAlone(h) ==
    LET j == req[h].job IN
    req[h].op = "abort" =>
        /\ req[h].at \in {"getTasks", "abortJob"} /\ ClearFor(h) =>
              \A k \in Jobs : Active(k) /\ Product(k) = req[h].product => k = j
        /\ req[h].at = "deleteEntity" =>
              /\ job[j].status = "ABORTED"
              /\ ClearFor(h) => \A k \in Jobs : Active(k) => Product(k) # req[h].product

CalmInv ==
    /\ \A j \in Jobs : Calm(j)
    /\ \A h \in Handlers : RetryDeleted(h) /\ BypassApproved(h) /\ AbortAlone(h)

(* The validation entity of an active job whose validation passed stays,   *)
(* or is replaced by a new one of its own, when no job is stray.           *)
LEMMA EntityStays ==
    ASSUME Core, CalmInv, [Next]_vars, NEW j \in Jobs, Active(j), Active(j)', task[j].isValid, Clear(j)
    PROVE  entity'[Product(j)] \in {entity[Product(j)], j}
  <1> DEFINE p == Product(j)
  <1>0. TypeInv /\ Base /\ MarksInv /\ p \in Products
    BY DEF Core, Base, TypeInv, TypeOK, Job, Product
  <1> SUFFICES ASSUME entity'[p] # entity[p] PROVE entity'[p] = j  OBVIOUS
  <1>1. ASSUME NEW k \in Jobs, Product(k) = p, job[k].status = "IN_PROGRESS"  PROVE k = j
    BY <1>0, <1>1, Alone DEF Active, Blocking
  <1>2. ~(job'[j].status = "COMPLETED")  BY DEF Active, Blocking
  <1>3. ASSUME NEW h \in Handlers, RetryDeleteEntity(h), req[h].product = p  PROVE FALSE
    <2>1. Awaiting(h, "retry", "deleteEntity") /\ StandsOn(h) /\ RetryStands(h) /\ req[h].job \in Jobs
      BY <1>0, <1>3 DEF RetryDeleteEntity, Core, Stands, TypeInv, JobRequests, JobOps, Awaiting
    <2>2. KindOf(req[h]) = "reset" /\ Product(req[h].job) = p
      BY <1>3, <2>1 DEF KindOf, Awaiting, StandsOn, JobOps
    <2>3. Active(req[h].job)
      BY <2>1 DEF RetryStands, Awaiting, CalmInv, Calm, Active, Blocking
    <2>4. Clear(req[h].job) /\ ~job[req[h].job].cleaned  BY <1>0, <2>1, <2>2, <2>3, ClearIs
    <2>5. req[h].job = j  BY <1>0, <2>2, <2>4, Alone
    <2> QED  BY <2>1, <2>5 DEF RetryStands, Awaiting
  <1>4. ASSUME NEW h \in Handlers, AbortDeleteEntity(h), req[h].product = p  PROVE FALSE
    <2>1. ClearFor(h)  BY <1>0, <1>4, ClearIs
    <2> QED  BY <1>4, <2>1 DEF AbortDeleteEntity, Awaiting, CalmInv, AbortAlone
  <1> QED  BY <1>0, <1>1, <1>2, <1>3, <1>4, EntityBy

(* The writes of requests keep their jobs calm.                            *)
LEMMA WritesCalm ==
    ASSUME NothingExpires, Core, CalmInv, [Next]_vars, NEW h \in Handlers, NEW j, j = req[h].job, Writing(h)
    PROVE  Calm(j)'
  <1>0. /\ j \in Jobs /\ Outcome(j) /\ Calm(j) /\ Exists(j) /\ TypeInv
        /\ job[j] \in Job /\ task[j] \in Task /\ RetryStands(h) /\ BypassStands(h) /\ BypassApproved(h)
    BY WritingJob DEF Core, Base, CalmInv, RequestsFormed, Writing, SoftReset, HardResetTask, HardResetJob,
       BypassUpdateTask, BypassUpdateJob, BypassNotify, AbortJob, Awaiting, JobOps, TypeInv, TypeOK, Stands,
       Outcomes
  <1>1. ASSUME Active(j), Active(j)', task[j].isValid, ran[j].summary.counted = {},
               job'[j].product = job[j].product, Clear(j)'
        PROVE  entity'[job'[j].product] = j
    <2>1. Clear(j)  BY <1>0, <1>1, ClearBefore DEF Core, Base, Active, Exists, Blocking
    <2> QED  BY <1>0, <1>1, <2>1, EntityStays DEF Calm, Product
  <1> USE DEF Calm, Active, Blocking, Product
  <1>2. CASE SoftReset(h)
    <2>1. job[j].status \in {"FAILED", "SUSPENDED", "EXPIRED"}
      BY <1>0, <1>2 DEF SoftReset, RetryStands, Awaiting
    <2>2. /\ job'[j].status = "PENDING" /\ job'[j].product = job[j].product
          /\ job'[j].finalize = job[j].finalize
      BY <1>0, <1>2, SoftResetIs DEF JobIs
    <2>3. /\ task'[j].status = (IF task[j].status = "FAILED" THEN "PENDING" ELSE task[j].status)
          /\ task'[j].isValid = task[j].isValid /\ ran' = ran
      BY <1>0, <1>2, SoftResetIs DEF TaskIs
    <2> QED  BY <1>0, <1>1, <2>1, <2>2, <2>3
  <1>3. CASE HardResetTask(h)
    <2>1. ~task[j].isValid /\ req[h].task = task[j]
      BY <1>0, <1>3 DEF HardResetTask, RetryStands, Awaiting
    <2>2. job'[j] = job[j] /\ ~task'[j].isValid
      BY <1>0, <1>3, <2>1, HardResetTaskIs DEF SameJob, TaskIs
    <2> QED  BY <1>0, <2>1, <2>2
  <1>4. CASE HardResetJob(h)
    <2>1. ~task[j].isValid  BY <1>0, <1>4 DEF HardResetJob, RetryStands, Awaiting
    <2>2. /\ job'[j].status = "PENDING" /\ job'[j].finalize = job[j].finalize /\ task' = task
      BY <1>0, <1>4, HardResetJobIs DEF JobIs
    <2> QED  BY <1>0, <2>1, <2>2
  <1>5. CASE BypassUpdateTask(h)
    <2>1. req[h].task = task[j] /\ ~task[j].isValid /\ task[j].summary # NoSummary
      BY <1>0, <1>5 DEF BypassUpdateTask, BypassStands, CanBypass, Awaiting
    <2>2. ran[j].summary.counted # {}  BY <1>0, <2>1 DEF Outcome
    <2>3. job'[j] = job[j] /\ ran' = ran /\ task'[j].isValid /\ task'[j].status = task[j].status
      BY <1>0, <1>5, BypassUpdateTaskIs DEF SameJob, TaskIs
    <2> QED  BY <1>0, <2>2, <2>3
  <1>6. CASE BypassUpdateJob(h)
    <2>1. job[j].status = "SUSPENDED"
      BY <1>0, <1>6 DEF BypassUpdateJob, BypassStands, Awaiting
    <2>2. /\ job'[j].status = "IN_PROGRESS" /\ job'[j].finalize = job[j].finalize
          /\ job'[j].product = job[j].product /\ task' = task /\ ran' = ran
      BY <1>0, <1>6, BypassUpdateJobIs DEF JobIs
    <2> QED  BY <1>0, <1>1, <2>1, <2>2
  <1>7. CASE BypassNotify(h)
    <2>1. job[j].status = "IN_PROGRESS"
      BY <1>0, <1>7 DEF BypassNotify, BypassApproved, Awaiting
    <2>2. /\ job'[j].status = job[j].status /\ job'[j].finalize = job[j].finalize
          /\ job'[j].product = job[j].product /\ task' = task /\ ran' = ran
      BY <1>0, <1>7, BypassNotifyIs
    <2> QED  BY <1>0, <1>1, <2>1, <2>2
  <1>8. CASE AbortJob(h)
    <2>1. job'[j].status = "ABORTED" /\ job'[j].finalize = job[j].finalize
      BY <1>0, <1>8, AbortJobIs DEF StatusIs, JobIs
    <2>2. /\ task'[j].status = (IF task[j].status = "COMPLETED" THEN "COMPLETED" ELSE "ABORTED")
          /\ task'[j].isValid = task[j].isValid
      BY <1>0, <1>8, AbortJobIs DEF TaskIs
    <2> QED  BY <1>0, <2>1, <2>2
  <1> QED  BY <1>2, <1>3, <1>4, <1>5, <1>6, <1>7, <1>8 DEF Writing

(* So do workers,                                                          *)
LEMMA WorkCalm ==
    ASSUME NothingExpires, Core, CalmInv, [Next]_vars, NEW j \in Jobs, WorkOn(j)
    PROVE  Calm(j)'
  <1>0. Outcome(j) /\ Calm(j) /\ TypeInv /\ job[j] \in Job /\ task[j] \in Task
    BY DEF Core, Base, CalmInv, TypeInv, TypeOK, Outcomes
  <1>1. ASSUME Active(j), Active(j)', task[j].isValid, ran[j].summary.counted = {},
               job'[j].product = job[j].product, Clear(j)'
        PROVE  entity'[job'[j].product] = j
    <2>1. Clear(j)  BY <1>0, <1>1, ClearBefore DEF Core, Base, Active, Exists, Blocking
    <2> QED  BY <1>0, <1>1, <2>1, EntityStays DEF Calm, Product
  <1> USE DEF Calm, Active, Blocking, Product
  <1>2. CASE StartValidation(j)
    <2>1. ~task[j].isValid /\ job[j].status \in {"PENDING", "IN_PROGRESS"}
      BY <1>0, <1>2, WorkIs DEF Outcome
    <2>2. /\ job'[j].status = "IN_PROGRESS" /\ job'[j].finalize = job[j].finalize
          /\ task'[j].isValid = task[j].isValid
      BY <1>0, <1>2, WorkIs DEF StatusIs, JobIs, TaskIs
    <2> QED  BY <1>0, <2>1, <2>2
  <1>3. ASSUME NEW s \in Summaries, FinishValidation(j, s)  PROVE Calm(j)'
    <2>1. task[j].status = "IN_PROGRESS"  BY <1>0, <1>3, FinishIs
    <2>2. /\ job'[j].status = (IF s.counted = {} THEN "IN_PROGRESS" ELSE "SUSPENDED")
          /\ job'[j].tracked = (s.counted = {}) /\ job'[j].finalize = job[j].finalize
          /\ job'[j].product = job[j].product
      BY <1>0, <1>3, FinishIs DEF JobIs
    <2>3. entity' = [entity EXCEPT ![Product(j)] = j]  BY <1>0, <1>3, FinishIs
    <2>4. entity'[job'[j].product] = j  BY <1>0, <2>2, <2>3 DEF TypeInv, TypeOK, Job
    <2> QED  BY <1>0, <2>1, <2>2, <2>4
  <1>4. CASE FailValidation(j)
    <2>1. ~task[j].isValid /\ ~job[j].finalize
      BY <1>0, <1>4, WorkIs DEF Outcome
    <2>2. /\ job'[j].status = "FAILED" /\ job'[j].finalize = job[j].finalize
          /\ task'[j].isValid = task[j].isValid
      BY <1>0, <1>4, WorkIs DEF StatusIs, JobIs, TaskIs
    <2> QED  BY <2>1, <2>2
  <1>5. CASE Resume(j) \/ FailLater(j) \/ Complete(j)
    <2>1. /\ job'[j].status \in {"IN_PROGRESS", "FAILED", "COMPLETED"} /\ job'[j].finalize = job[j].finalize
          /\ job'[j].product = job[j].product
      BY <1>0, <1>5, WorkIs DEF StatusIs, JobIs
    <2>2. task' = task /\ ran' = ran /\ job[j].status \in {"PENDING", "IN_PROGRESS"}
      BY <1>0, <1>5, WorkIs
    <2> QED  BY <1>0, <1>1, <2>1, <2>2
  <1>6. CASE AddFinalize(j)
    <2>1. job'[j].status = "IN_PROGRESS" /\ job'[j].product = job[j].product
      BY <1>0, <1>6, AddFinalizeIs DEF JobIs
    <2>2. /\ task' = task /\ ran' = ran /\ job[j].status = "IN_PROGRESS"
          /\ task[j].status = "COMPLETED" /\ task[j].isValid
      BY <1>0, <1>6, AddFinalizeIs DEF Validated
    <2> QED  BY <1>0, <1>1, <2>1, <2>2
  <1>7. CASE CleanUp(j)
    <2>1. job'[j].status = job[j].status /\ job'[j].product = job[j].product
      BY <1>0, <1>7, CleanUpIs DEF StatusIs, JobIs
    <2>2. job'[j].tracked = job[j].tracked /\ job'[j].finalize = job[j].finalize
      BY <1>0, <1>7, CleanUpIs DEF StatusIs, JobIs
    <2>3. task' = task /\ ran' = ran  BY <1>0, <1>7, CleanUpIs
    <2> QED  BY <1>0, <1>1, <2>1, <2>2, <2>3
  <1>8. ~Expire(j)  BY DEF NothingExpires, Expire
  <1> QED  BY <1>2, <1>3, <1>4, <1>5, <1>6, <1>7, <1>8 DEF WorkOn

(* and every other step.                                                   *)
LEMMA JobsCalm ==
    ASSUME NothingExpires, Core, CalmInv, [Next]_vars, NEW j \in Jobs
    PROVE  Calm(j)'
  <1>0. Calm(j) /\ TypeInv  BY DEF Core, Base, CalmInv
  <1>1. CASE Untouched(j)
    <2>1. job'[j] = job[j] /\ task'[j] = task[j] /\ ran'[j] = ran[j]
      BY <1>1 DEF Untouched, SameJob
    <2>2. Active(j) /\ Clear(j)' => Clear(j)
      BY ClearBefore DEF Core, Base, Active, Exists, Blocking
    <2>3. Active(j) /\ task[j].isValid /\ ran[j].summary.counted = {} /\ Clear(j)' =>
             entity'[Product(j)] = j
      BY <1>0, <2>1, <2>2, EntityStays DEF Calm, Active
    <2> QED  BY <1>0, <2>1, <2>3 DEF Calm, Active, Product
  <1>2. ASSUME NEW h \in Handlers, CreateJob(h, j)  PROVE Calm(j)'
    BY <1>0, <1>2, CreateIs DEF TaskIs, Calm
  <1> QED  BY <1>0, <1>1, <1>2, TouchedBy, WritesCalm, WorkCalm

(* A step of the world leaves what a request wrote.                        *)
LEMMA WorldCalm ==
    ASSUME NothingExpires, Core, CalmInv, WorldNext, NEW h \in Handlers
    PROVE  RetryDeleted(h)' /\ BypassApproved(h)' /\ AbortAlone(h)'
  <1> DEFINE j == req[h].job
  <1>0. /\ TypeInv /\ Base /\ MarksInv /\ StandsOn(h) /\ RetryStands(h) /\ req' = req /\ [Next]_vars
        /\ RetryDeleted(h) /\ BypassApproved(h) /\ AbortAlone(h)
        /\ req[h].op \in JobOps => j \in Jobs /\ Exists(j) /\ Calm(j)
    BY WorldAsksNothing DEF Core, Base, Stands, CalmInv, TypeInv, JobRequests, RequestsFormed, Next
  <1>00. ClearFor(h)' => ClearFor(h)  BY <1>0, ClearBefore
  <1>1. RetryDeleted(h)'
    <2> SUFFICES ASSUME req[h].op = "retry", ClearFor(h),
                        req[h].at \in {"filesExist", "checksums", "updateTask", "updateJob"}
                 PROVE  entity'[req[h].product] = NoJob
      BY <1>0, <1>00 DEF RetryDeleted
    <2>1. /\ KindOf(req[h]) = "reset" /\ Product(j) = req[h].product /\ entity[req[h].product] = NoJob
          /\ job[j].status \in {"FAILED", "SUSPENDED"} /\ j \in Jobs /\ req[h].product \in Products
      BY <1>0 DEF KindOf, StandsOn, RetryStands, RetryDeleted, Calm, JobOps, TypeInv, TypeOK, Request
    <2>2. ASSUME NEW k \in Jobs, Product(k) = req[h].product, job[k].status = "IN_PROGRESS"  PROVE FALSE
      <3>1. Clear(j) /\ Active(j) /\ Active(k)  BY <1>0, <2>1, <2>2, ClearIs DEF Active, Blocking
      <3>2. k = j  BY <1>0, <2>1, <2>2, <3>1, Alone
      <3> QED  BY <2>1, <2>2, <3>2
    <2>3. ASSUME NEW g \in Handlers, RetryDeleteEntity(g) \/ AbortDeleteEntity(g),
                 entity'[req[h].product] = NoJob
          PROVE  entity'[req[h].product] = NoJob
      BY <2>3
    <2> QED  BY <1>0, <2>1, <2>2, EntityBy
  <1>2. BypassApproved(h)'
    <2> SUFFICES ASSUME req[h].op = "bypass", req[h].at = "notify"
                 PROVE  job'[j] = job[j] /\ task'[j] = task[j]
      BY <1>0 DEF BypassApproved
    <2>1. ~WorkOn(j)
      <3>1. /\ j \in Jobs /\ job[j].status = "IN_PROGRESS" /\ ~job[j].tracked /\ ~job[j].finalize
            /\ task[j].status = "COMPLETED"
        BY <1>0 DEF BypassApproved, JobOps
      <3> QED
        BY <1>0, <3>1, WorkIs, FinishIs, AddFinalizeIs DEF WorkOn, Validated, NothingExpires, Expire, CleanUp
    <2> QED  BY <1>0, <2>1, WorldTouches DEF JobOps, Untouched, SameJob
  <1>3. AbortAlone(h)'
    <2>1. ASSUME NEW k \in Jobs, Active(k)'  PROVE Active(k) /\ Product(k)' = Product(k)
      <3>1. Active(k)  BY <1>0, <2>1, WorldOpensNone
      <3>2. Exists(k)  BY <3>1 DEF Active, Exists, Blocking
      <3> QED  BY <1>0, <3>1, <3>2, RecordStays DEF Product
    <2>2. ASSUME req[h].op = "abort", job[j].status = "ABORTED"  PROVE job'[j].status = "ABORTED"
      BY <1>0, <2>2, WorldLeaves DEF JobOps, NothingExpires
    <2> QED  BY <1>0, <1>00, <2>1, <2>2 DEF AbortAlone
  <1> QED  BY <1>1, <1>2, <1>3

(* What a request's own step leaves of what it wrote.                      *)
LEMMA RequestCalm ==
    ASSUME NothingExpires, Core, CalmInv, NEW h \in Handlers, Receive(h) \/ Step(h)
    PROVE  RetryDeleted(h)' /\ BypassApproved(h)' /\ AbortAlone(h)'
  <1> DEFINE j == req[h].job
  <1>0. /\ TypeInv /\ RequestsFormed /\ Base /\ MarksInv
        /\ StandsOn(h) /\ RetryStands(h) /\ BypassStands(h) /\ [Next]_vars /\ RetryDeleted(h) /\ BypassApproved(h) /\ AbortAlone(h)
        /\ req[h].op \in JobOps => j \in Jobs /\ Exists(j) /\ Calm(j) /\ Outcome(j)
    BY DEF Core, Base, Stands, CalmInv, TypeInv, JobRequests, RequestsFormed, Next, Outcomes
  <1>00. req'[h].product = req[h].product /\ ClearFor(h)' => ClearFor(h)  BY <1>0, ClearBefore
  <1>1. CASE Gone(h)
    BY <1>1 DEF Gone, RetryDeleted, BypassApproved, AbortAlone
  <1>2. CASE Receive(h)
    BY <1>0, <1>2, ArrivingIs DEF RetryDeleted, BypassApproved, AbortAlone
  <1>3. CASE Step(h) /\ req[h].op \in {"new", "update"}
    <2>1. Gone(h) \/ req'[h].op = req[h].op
      BY <1>0, <1>3, AdmitSteps, AdmitReadIs, ChecksumIs DEF MovedTo, Moved
    <2> QED  BY <1>1, <1>3, <2>1 DEF RetryDeleted, BypassApproved, AbortAlone
  <1>4. CASE Step(h) /\ req[h].op = "abort"
    <2>1. CASE AbortGetJob(h) /\ ~Gone(h)
      <3>1. /\ job[j].status \notin Unabortable /\ job' = job /\ req'[h].op = "abort" /\ req'[h].job = j
            /\ req'[h].product = req[h].product /\ req'[h].at = "getTasks"
        BY <1>0, <2>1, JobReadIs DEF Moved, Awaiting, remote
      <3>2. Active(j)
        BY <1>0, <1>4, <3>1 DEF Calm, Active, Blocking, Unabortable, Exists, JobOps, TypeInv, TypeOK, Job,
           Statuses
      <3>3. j \in Jobs /\ Product(j) = req[h].product  BY <1>0, <1>4 DEF StandsOn, JobOps
      <3>4. ASSUME ClearFor(h), NEW k \in Jobs, Active(k), Product(k) = req[h].product  PROVE k = j
        <4>1. Clear(j)  BY <1>0, <3>3, <3>4, ClearIs
        <4> QED  BY <1>0, <3>2, <3>3, <3>4, <4>1, Alone
      <3> QED  BY <1>00, <3>1, <3>4 DEF RetryDeleted, BypassApproved, AbortAlone, Active, Product
    <2>2. CASE AbortGetTasks(h) /\ MovedTo(h, "abortJob")
      <3>1. /\ job' = job /\ req'[h].op = "abort" /\ req'[h].job = j /\ req[h].at = "getTasks"
            /\ req'[h].product = req[h].product /\ req'[h].at = "abortJob"
        BY <1>4, <2>2 DEF AbortGetTasks, MovedTo, Moved, Awaiting, remote
      <3> QED  BY <1>0, <1>00, <1>4, <3>1 DEF RetryDeleted, BypassApproved, AbortAlone, Active, Product
    <2>3. CASE AbortJob(h) /\ MovedTo(h, "deleteEntity")
      <3>1. /\ req'[h].op = "abort" /\ req'[h].job = j /\ req[h].at = "abortJob"
            /\ req'[h].product = req[h].product /\ req'[h].at = "deleteEntity"
            /\ SetJob(j, [job[j] EXCEPT !.status = "ABORTED"])
        BY <1>4, <2>3 DEF AbortJob, MovedTo, Moved, Awaiting
      <3>2. job'[j].status = "ABORTED"  BY <1>0, <2>3, AbortJobIs DEF StatusIs, JobIs
      <3>3. \A k \in Jobs : k # j => job'[k] = job[k]
        BY <1>0, <1>4, <3>1, SetJobOthers DEF SameJob, JobOps
      <3>4. ClearFor(h)' => \A k \in Jobs : Active(k)' => Product(k)' # req[h].product
        BY <1>0, <1>00, <1>4, <3>1, <3>2, <3>3 DEF AbortAlone, Active, Product, Blocking
      <3> QED  BY <3>1, <3>2, <3>4 DEF RetryDeleted, BypassApproved, AbortAlone
    <2> QED  BY <1>0, <1>1, <1>4, <2>1, <2>2, <2>3, AbortSteps
  <1>5. CASE Step(h) /\ req[h].op = "retry"
    <2>1. Gone(h) \/ req'[h].op = "retry"
      BY <1>0, <1>5, RetrySteps, JobReadIs, ChecksumIs DEF MovedTo, Moved
    <2>2. Gone(h) \/ RetryDeleted(h)'
      <3>1. CASE RetryGetJob(h) \/ RetryGetTasks(h)
        <4>1. Gone(h) \/ req'[h].at \in {"getTasks", "resetJob", "deleteEntity"}
          BY <1>0, <3>1, JobReadIs DEF Moved
        <4> QED  BY <4>1 DEF RetryDeleted
      <3>2. CASE RetryDeleteEntity(h) /\ MovedTo(h, "filesExist")
        <4>1. entity' = [entity EXCEPT ![req[h].product] = NoJob] /\ req'[h].product = req[h].product
          BY <3>2 DEF RetryDeleteEntity, MovedTo, Moved
        <4> QED  BY <1>0, <4>1 DEF RetryDeleted, TypeInv, TypeOK, Request
      <3>3. CASE CheckFilesExist(h) /\ MovedTo(h, "checksums")
        <4>1. /\ entity' = entity /\ req'[h].product = req[h].product /\ req[h].at = "filesExist"
          BY <3>3 DEF CheckFilesExist, MovedTo, Moved, remote
        <4> QED  BY <1>0, <1>00, <1>5, <4>1 DEF RetryDeleted
      <3>4. ASSUME NEW f \in ShapeFiles, GetFileChecksum(h, f)  PROVE Gone(h) \/ RetryDeleted(h)'
        <4>1. Gone(h) \/ (entity' = entity /\ req'[h].product = req[h].product /\ req[h].at = "checksums")
          BY <1>0, <3>4, ChecksumIs DEF Moved, remote
        <4> QED  BY <1>0, <1>00, <1>5, <4>1 DEF RetryDeleted
      <3>5. CASE HardResetTask(h) /\ MovedTo(h, "updateJob")
        <4>1. /\ entity' = entity /\ req'[h].product = req[h].product /\ req[h].at = "updateTask"
          BY <3>5 DEF HardResetTask, MovedTo, Moved, Awaiting
        <4> QED  BY <1>0, <1>00, <1>5, <4>1 DEF RetryDeleted
      <3> QED  BY <1>0, <1>5, <3>1, <3>2, <3>3, <3>4, <3>5, RetrySteps
    <2> QED  BY <1>1, <2>1, <2>2 DEF BypassApproved, AbortAlone
  <1>6. CASE Step(h) /\ req[h].op = "bypass"
    <2>1. Gone(h) \/ req'[h].op = "bypass"
      BY <1>0, <1>6, BypassSteps, JobReadIs, ChecksumIs DEF MovedTo, Moved
    <2>2. Gone(h) \/ BypassApproved(h)'
      <3>1. CASE BypassUpdateJob(h) /\ MovedTo(h, "notify")
        <4>1. /\ job[j].status = "SUSPENDED" /\ task[j].summary # NoSummary
          BY <1>0, <1>6, <3>1 DEF BypassUpdateJob, BypassStands, Calm, Awaiting, JobOps
        <4>2. ~job[j].tracked /\ ~job[j].finalize /\ task[j].status = "COMPLETED"
          BY <1>0, <1>6, <4>1 DEF Calm, Outcome, JobOps
        <4>3. /\ job'[j].status = "IN_PROGRESS" /\ job'[j].approval = req[h].allowed
              /\ job'[j].tracked = job[j].tracked /\ job'[j].finalize = job[j].finalize
          BY <1>0, <3>1, BypassUpdateJobIs DEF JobIs
        <4>4. task' = task /\ req'[h].job = j /\ req'[h].allowed = req[h].allowed
          BY <3>1 DEF BypassUpdateJob, MovedTo, Moved
        <4> QED  BY <4>2, <4>3, <4>4 DEF BypassApproved
      <3>2. CASE ~(BypassUpdateJob(h) /\ MovedTo(h, "notify"))
        <4>1. Gone(h) \/ req'[h].at # "notify"
          BY <1>0, <1>6, <3>2, BypassSteps, JobReadIs, ChecksumIs DEF MovedTo, Moved
        <4> QED  BY <4>1 DEF BypassApproved
      <3> QED  BY <3>1, <3>2
    <2> QED  BY <1>1, <2>1, <2>2 DEF RetryDeleted, AbortAlone
  <1>7. CASE Step(h) /\ req[h].op = "none"  BY <1>0, <1>1, <1>7, NoSteps
  <1>8. req[h].op \in {"none", "new", "update", "retry", "bypass", "abort"}
    BY <1>0 DEF TypeInv, TypeOK, Request, Ops
  <1> QED  BY <1>2, <1>3, <1>4, <1>5, <1>6, <1>7, <1>8

(* Calm is inductive with the invariant of one request at a time.          *)
LEMMA CalmStep == OneSlot /\ NothingExpires /\ Core /\ CalmInv /\ [Next]_vars => CalmInv'
  <1> SUFFICES ASSUME OneSlot, NothingExpires, Core, CalmInv, [Next]_vars, NEW h \in Handlers
               PROVE  RetryDeleted(h)' /\ BypassApproved(h)' /\ AbortAlone(h)'
    BY JobsCalm DEF CalmInv
  <1>1. ASSUME NEW g \in Handlers, Receive(g) \/ Step(g)
        PROVE  RetryDeleted(h)' /\ BypassApproved(h)' /\ AbortAlone(h)'
    BY <1>1, RequestCalm DEF OneSlot
  <1>2. CASE Crash
    <2>1. req'[h] = Idle  BY <1>2 DEF Crash
    <2> QED  BY <2>1 DEF Idle, RetryDeleted, BypassApproved, AbortAlone
  <1>3. CASE UNCHANGED vars
    <2>1. req' = req /\ job' = job /\ task' = task /\ entity' = entity  BY <1>3 DEF vars
    <2>2. ClearFor(h)' => ClearFor(h)  BY <2>1, ClearBefore DEF Core, Base
    <2> QED
      BY <2>1, <2>2 DEF CalmInv, RetryDeleted, BypassApproved, AbortAlone, Active, Product
  <1> QED  BY <1>1, <1>2, <1>3, WorldCalm DEF Next

(* It holds when the service starts.                                       *)
LEMMA CalmInit == Init => CalmInv
  BY DEF Init, CalmInv, Calm, RetryDeleted, BypassApproved, AbortAlone, Idle, BlankJob, BlankTask, Active,
     Blocking

(* One request at a time, nothing expires, whatever fails or is edited:    *)
(* the validation entity of a job whose validation passed is there for the *)
(* later tasks as long as the job is active.                               *)
THEOREM OneAtATimeValidJobHasEntity ==
    OneSlot /\ NothingExpires /\ Spec => []ValidJobHasEntity
  <1>1. CalmInv => ValidJobHasEntity  BY DEF CalmInv, Calm, ValidJobHasEntity, Clear
  <1>2. OneSlot /\ NothingExpires =>
          (Init => Core /\ CalmInv) /\ (Core /\ CalmInv /\ [Next]_vars => (Core /\ CalmInv)')
    BY CoreInit, CoreStep, CalmInit, CalmStep
  <1>3. CASE OneSlot /\ NothingExpires  BY <1>1, <1>2, <1>3, PTL DEF Spec
  <1> QED  BY <1>3

(* One request at a time, nothing expires, whatever fails or is edited: a  *)
(* caller who is answered 200 finds done what the operation is for.        *)
THEOREM OneAtATimeSuccessMeansDone ==
    OneSlot /\ NothingExpires /\ Spec => SuccessMeansDone
  <1> DEFINE Act == \A h \in Handlers : AnsweredBy(h, {200}) => Done(h)
  <1>1. Core /\ CalmInv /\ [Next]_vars => [Act]_vars
    <2> SUFFICES ASSUME Core, CalmInv, Next, NEW h \in Handlers, AnsweredBy(h, {200})
                 PROVE  Done(h)
      OBVIOUS
    <2> DEFINE r == req[h]
               j == r.job
    <2>0. /\ TypeInv /\ RequestsFormed /\ RetryStands(h) /\ RetryDeleted(h) /\ BypassApproved(h)
          /\ AbortAlone(h) /\ Formed(r)
      BY DEF Core, Base, Stands, CalmInv, RequestsFormed
    <2>1. Step(h)
      <3>1. req'[h] # req[h] /\ req[h].at # "idle" /\ req'[h].answer = 200  BY DEF AnsweredBy
      <3>2. ~Crash /\ ~WorldNext  BY <3>1, WorldAsksNothing DEF Crash, Idle
      <3>3. PICK g \in Handlers : Receive(g) \/ Step(g)  BY <3>2 DEF Next
      <3>4. g = h
        <4>1. Ends(g) \/ \E s : Proceed(g, s)  BY <2>0, <3>3, ActsOn
        <4> QED  BY <2>0, <3>1, <4>1 DEF Ends, Proceed, TypeInv, TypeOK
      <3> QED  BY <2>0, <3>1, <3>3, <3>4, ArrivingIs
    <2>2. ASSUME NEW k \in Jobs, CreateJob(h, k)  PROVE Done(h)
      <3>1. r.op \in {"new", "update"}  BY <2>0, <2>2 DEF CreateJob, Formed
      <3> QED  BY <2>0, <2>2, <3>1, CreateIs DEF Done, TaskIs
    <2>3. CASE SoftReset(h)
      <3>1. r.op = "retry" /\ task[j].isValid  BY <2>0, <2>3 DEF SoftReset, RetryStands, Awaiting
      <3> QED  BY <2>0, <2>3, <3>1, SoftResetIs DEF Done, JobIs, TaskIs
    <2>4. CASE HardResetJob(h)
      <3>1. /\ r.op = "retry" /\ task[j].status = "PENDING"
            /\ NoStray(r.product) => entity[r.product] = NoJob
        BY <2>0, <2>4 DEF HardResetJob, RetryStands, RetryDeleted, ClearFor, Awaiting
      <3>2. job'[j].status = "PENDING" /\ task' = task /\ entity' = entity
        BY <2>0, <2>4, HardResetJobIs DEF JobIs
      <3> QED  BY <3>1, <3>2 DEF Done
    <2>5. CASE BypassNotify(h)
      <3>1. r.op = "bypass" /\ job[j].status = "IN_PROGRESS" /\ job[j].approval = r.allowed
        BY <2>0, <2>5 DEF BypassNotify, BypassApproved, Awaiting
      <3> QED  BY <2>0, <2>5, <3>1, BypassNotifyIs DEF Done
    <2>6. CASE AbortDeleteEntity(h)
      <3>1. r.op = "abort" /\ job[j].status = "ABORTED"
        BY <2>0, <2>6 DEF AbortDeleteEntity, AbortAlone, Awaiting
      <3>2. job' = job /\ entity'[r.product] = NoJob
        BY <2>0, <2>6 DEF AbortDeleteEntity, TypeInv, TypeOK, Request
      <3> QED  BY <3>1, <3>2 DEF Done
    <2> QED  BY <2>0, <2>1, <2>2, <2>3, <2>4, <2>5, <2>6, SuccessIs
  <1>2. OneSlot /\ NothingExpires =>
          (Init => Core /\ CalmInv) /\ (Core /\ CalmInv /\ [Next]_vars => (Core /\ CalmInv)')
    BY CoreInit, CoreStep, CalmInit, CalmStep
  <1>3. CASE OneSlot /\ NothingExpires  BY <1>1, <1>2, <1>3, PTL DEF Spec, SuccessMeansDone
  <1> QED  BY <1>3

-----------------------------------------------------------------------------
(* The versions of jobs.                                                   *)

(* The jobs that are active, or may become active again by the request in  *)
(* flight without being stray.                                             *)
Live(j) ==
    \/ Active(j)
    \/ ~job[j].cleaned /\ \E h \in Handlers : req[h].job = j /\ KindOf(req[h]) \in {"reset", "bypass"}

(* Such a job publishes the version after that of the catalog, or the one  *)
(* that is there, unless a job of the product is stray.                    *)
InTurn(v, p) == catalog[p] <= v /\ v <= catalog[p] + 1

JobInTurn(j) == Live(j) /\ Clear(j) => InTurn(job[j].version, Product(j))

(* So does a request that has looked at the catalog.  The job that is      *)
(* active meanwhile has no later version.                                  *)
RequestInTurn(h) ==
    LET r == req[h] IN
    /\ r.op = "new" => r.version = 1
    /\ \/ r.op = "update" /\ r.at # "findById"
       \/ r.op = "new" /\ r.at \in {"findJobs", "checksums", "createJob"}
       => (ClearFor(h) =>
             /\ InTurn(r.version, r.product)
             /\ \A k \in Jobs : Active(k) /\ Product(k) = r.product => job[k].version <= r.version)

TurnInv == (\A j \in Jobs : JobInTurn(j)) /\ (\A h \in Handlers : RequestInTurn(h))

(* A request publishes nothing.                                            *)
LEMMA NoRequestPublishes ==
    ASSUME TypeInv, NEW h \in Handlers, Receive(h) \/ Step(h)
    PROVE  catalog' = catalog
  <1>1. CASE Receive(h)  BY <1>1, ArrivingIs DEF remote
  <1>2. CASE Admit(h) \/ ReadFiles(h) \/ CallFails(h)
    BY <1>2 DEF Admit, GetLayerMetadata, ValidateInputFiles, CheckMapProxy, CheckCatalog,
       CheckNoParallelJobs, CreateJob, RefuseJob, ReadFiles, CheckFilesExist, GetFileChecksum, CallFails,
       remote
  <1>3. CASE Retry(h) \/ Bypass(h) \/ Abort(h)
    BY <1>3 DEF Retry, RetryGetJob, RetryGetTasks, SoftReset, RetryDeleteEntity, HardResetTask,
       HardResetJob, Bypass, BypassGetJob, BypassGetTasks, BypassUpdateTask, BypassUpdateJob, BypassNotify,
       Abort, AbortGetJob, AbortGetTasks, AbortJob, AbortDeleteEntity, remote
  <1> QED  BY <1>1, <1>2, <1>3 DEF Step

(* Of what workers do, only a job that completes does.                     *)
LEMMA CatalogBy ==
    ASSUME WorldNext
    PROVE  catalog' = catalog \/ \E k \in Jobs : Complete(k)
  <1>1. ASSUME NEW k \in Jobs,
               \/ StartValidation(k) \/ (\E s \in Summaries : FinishValidation(k, s)) \/ FailValidation(k)
               \/ Resume(k) \/ FailLater(k) \/ AddFinalize(k) \/ Publish(k) \/ Expire(k) \/ CleanUp(k)
        PROVE  catalog' = catalog
    BY <1>1 DEF StartValidation, FinishValidation, FailValidation, Resume, FailLater, AddFinalize, Publish,
       Expire, CleanUp
  <1>2. ASSUME NEW q, NEW f, EditFile(q, f)  PROVE catalog' = catalog  BY <1>2 DEF EditFile
  <1> QED  BY <1>1, <1>2 DEF WorldNext, WorkerNext

(* A request brings no job to life but the one it creates.                 *)
LEMMA LiveBy ==
    ASSUME OneSlot, Core, NEW h \in Handlers, Receive(h) \/ Step(h), NEW j \in Jobs, Live(j)', Clear(j)'
    PROVE  Live(j) \/ CreateJob(h, j)
  <1>0. /\ TypeInv /\ MarksInv /\ RequestsFormed /\ RetryStands(h) /\ BypassStands(h) /\ [Next]_vars
    BY DEF Core, Base, Stands, Next
  <1>00. ~job'[j].stray  BY DEF Clear, NoStray
  <1>01. ~job'[j].cleaned => ~job[j].cleaned  BY <1>0, JobKept DEF Kept, MarksInv
  <1>02. Active(j)' => ~job'[j].cleaned
    <2>1. MarksInv'  BY <1>0, MarksStep
    <2> QED  BY <1>00, <2>1 DEF MarksInv
  <1>1. CASE Active(j)'
    <2>1. CASE Untouched(j)  BY <1>1, <2>1 DEF Untouched, SameJob, Active, Live
    <2>2. CASE req[h].job = j /\ (SoftReset(h) \/ HardResetJob(h) \/ BypassUpdateJob(h))
      <3>1. KindOf(req[h]) \in {"reset", "bypass"}
        BY <2>2 DEF SoftReset, HardResetJob, BypassUpdateJob, Awaiting, KindOf
      <3> QED  BY <1>01, <1>02, <1>1, <2>2, <3>1 DEF Live
    <2>3. CASE req[h].job = j /\ (HardResetTask(h) \/ BypassUpdateTask(h))
      BY <1>0, <1>1, <2>3, HardResetTaskIs, BypassUpdateTaskIs DEF SameJob, Active, Live
    <2>4. CASE req[h].job = j /\ BypassNotify(h)
      BY <1>0, <1>1, <2>4, BypassNotifyIs DEF Active, Live
    <2>5. CASE req[h].job = j /\ AbortJob(h)
      BY <1>0, <1>1, <2>5, AbortJobIs DEF StatusIs, JobIs, Active, Blocking
    <2> QED  BY <1>0, <2>1, <2>2, <2>3, <2>4, <2>5, RequestTouches DEF Writing
  <1>2. CASE ~job'[j].cleaned /\ req'[h].job = j /\ KindOf(req'[h]) \in {"reset", "bypass"}
    <2> USE <1>01 DEF KindOf, Live
    <2>1. ~Gone(h)  BY <1>2 DEF Gone
    <2>2. ~Receive(h)  BY <1>0, <1>2, ArrivingIs DEF JobOps
    <2>3. CASE req[h].op \in {"new", "update"}
      <3>1. req'[h].op = req[h].op
        BY <1>0, <2>1, <2>2, <2>3, AdmitSteps, AdmitReadIs, ChecksumIs, ZenonT(30) DEF MovedTo, Moved
      <3> QED  BY <1>2, <2>3, <3>1
    <2>4. CASE req[h].op = "abort"
      <3>1. req'[h].op = req[h].op
        BY <1>0, <2>1, <2>2, <2>4, AbortSteps, JobReadIs DEF MovedTo, Moved
      <3> QED  BY <1>2, <2>4, <3>1
    <2>5. CASE req[h].op = "retry"
      <3>1. /\ req'[h].job = req[h].job
            /\ RetryGetJob(h) \/ req[h].at \notin {"idle", "getJob"}
        BY <1>0, <2>1, <2>2, <2>5, RetrySteps, JobReadIs, ChecksumIs, ZenonT(30)
           DEF MovedTo, Moved, Awaiting, RetryGetTasks, RetryDeleteEntity, CheckFilesExist, HardResetTask
      <3>2. CASE RetryGetJob(h)
        BY <1>0, <1>2, <2>1, <3>1, <3>2, JobReadIs DEF Retryable, Active, Blocking
      <3> QED  BY <1>2, <2>5, <3>1, <3>2, ZenonT(30)
    <2>6. CASE req[h].op = "bypass"
      <3>1. CASE BypassGetJob(h)
        <4>1. Moved(h, "getTasks", job[req[h].job].status, req[h].task, req[h].version, req[h].read)
          BY <1>0, <3>1, JobReadIs
        <4>2. /\ req'[h].job = req[h].job /\ req'[h].status = job[req[h].job].status
              /\ req'[h].op = "bypass" /\ req'[h].at = "getTasks"
          BY <2>6, <4>1 DEF Moved
        <4> QED  BY <1>2, <4>2 DEF Active, Blocking
      <3>2. CASE BypassGetTasks(h)
        <4>1. /\ req'[h].job = req[h].job /\ req[h].at = "getTasks" /\ req[h].status = "SUSPENDED"
          BY <1>0, <2>1, <3>2, JobReadIs DEF Moved, CanBypass, Awaiting
        <4> QED  BY <1>2, <2>6, <4>1
      <3>3. CASE BypassUpdateJob(h) /\ MovedTo(h, "notify")
        BY <1>2, <2>6, <3>3 DEF MovedTo, Moved
      <3>4. CASE ~BypassGetJob(h) /\ ~BypassGetTasks(h) /\ ~(BypassUpdateJob(h) /\ MovedTo(h, "notify"))
        <4>1. req'[h].job = req[h].job /\ req[h].at \in {"filesExist", "checksums", "updateTask"}
          BY <1>0, <2>1, <2>2, <2>6, <3>4, BypassSteps, ChecksumIs
             DEF MovedTo, Moved, Awaiting, CheckFilesExist, BypassUpdateTask
        <4> QED  BY <1>2, <2>6, <4>1, ZenonT(30)
      <3> QED  BY <3>1, <3>2, <3>3, <3>4
    <2>7. CASE req[h].op = "none"  BY <1>0, <2>1, <2>2, <2>7, NoSteps
    <2>8. req[h].op \in {"none", "new", "update", "retry", "bypass", "abort"}
      BY <1>0 DEF TypeInv, TypeOK, Request, Ops
    <2> QED  BY <2>3, <2>4, <2>5, <2>6, <2>7, <2>8
  <1> QED  BY <1>1, <1>2 DEF OneSlot, Live

(* A job that completes is the only one of its product that is alive, and  *)
(* publishes in turn.                                                      *)
LEMMA CompleteInTurn ==
    ASSUME Core, TurnInv, WorldNext, NEW k \in Jobs, Complete(k)
    PROVE  /\ catalog' = [catalog EXCEPT ![Product(k)] = job[k].version] /\ Active(k)
           /\ Clear(k) => /\ InTurn(job[k].version, Product(k))
                          /\ \A j \in Jobs : Live(j)' => Live(j) /\ Product(j) # Product(k)
  <1>0. TypeInv /\ Base /\ MarksInv /\ [Next]_vars  BY DEF Core, Base, Next
  <1>1. /\ catalog' = [catalog EXCEPT ![Product(k)] = job[k].version] /\ req' = req
        /\ job[k].status = "IN_PROGRESS" /\ job'[k].status = "COMPLETED"
    BY <1>0, WorkIs DEF StatusIs, JobIs
  <1>2. Active(k) /\ ~Active(k)'  BY <1>1 DEF Active, Blocking
  <1>3. Clear(k) => InTurn(job[k].version, Product(k))  BY <1>2 DEF TurnInv, JobInTurn, Live
  <1>4. ASSUME Clear(k), NEW j \in Jobs, Active(j)'  PROVE Active(j) /\ Product(j) # Product(k)
    <2>1. Active(j)  BY <1>0, <1>4, WorldOpensNone
    <2>2. j # k  BY <1>2, <1>4
    <2> QED  BY <1>0, <1>2, <1>4, <2>1, <2>2, Alone
  <1>5. ASSUME Clear(k), NEW h \in Handlers, KindOf(req[h]) \in {"reset", "bypass"},
               ~job[req[h].job].cleaned, req[h].job \in Jobs
        PROVE  Product(req[h].job) # Product(k)
    <2>1. RetryStands(h) /\ BypassStands(h)  BY DEF Core, Stands
    <2>2. job[req[h].job].status # "IN_PROGRESS"
      BY <1>5, <2>1 DEF KindOf, RetryStands, BypassStands, CanBypass
    <2>3. Product(req[h].job) = Product(k) => Clear(req[h].job)  BY <1>0, <1>5, ClearIs
    <2>4. Product(req[h].job) = Product(k) => k = req[h].job  BY <1>0, <1>2, <1>5, <2>3, Alone
    <2> QED  BY <1>1, <2>2, <2>4
  <1>6. \A j \in Jobs : ~job'[j].cleaned => ~job[j].cleaned
    BY <1>0, JobKept DEF Kept, MarksInv
  <1> QED  BY <1>1, <1>2, <1>3, <1>4, <1>5, <1>6 DEF Live

(* A step of the world keeps the versions in turn.                         *)
LEMMA WorldInTurn ==
    ASSUME Core, TurnInv, WorldNext
    PROVE  TurnInv' /\ \A p \in Products : NoStray(p) => catalog[p] <= catalog'[p]
  <1>0. /\ TypeInv /\ Base /\ MarksInv /\ req' = req /\ [Next]_vars /\ catalog \in [Products -> Nat]
        /\ \A j \in Jobs : Product(j) \in Products /\ job[j].version \in Nat
        /\ \A h \in Handlers : req[h].product \in Products /\ req[h].version \in Nat
    BY WorldAsksNothing DEF Core, Base, Next, TypeInv, TypeOK, Job, Request, Product
  <1>00. \A h \in Handlers : ClearFor(h)' => ClearFor(h)  BY <1>0, ClearBefore
  <1>1. ASSUME NEW j \in Jobs, Active(j)'
        PROVE  Active(j) /\ Product(j)' = Product(j) /\ job'[j].version = job[j].version
    <2>1. Active(j)  BY <1>0, <1>1, WorldOpensNone
    <2>2. Exists(j)  BY <2>1 DEF Active, Exists, Blocking
    <2> QED  BY <1>0, <2>1, <2>2, RecordStays DEF Product
  <1>2. ASSUME NEW j \in Jobs, Live(j)'
        PROVE  /\ Live(j) /\ Product(j)' = Product(j) /\ job'[j].version = job[j].version
               /\ Clear(j)' => Clear(j)
    <2> DEFINE Same == /\ Live(j) /\ Product(j)' = Product(j) /\ job'[j].version = job[j].version
                       /\ Exists(j)
    <2>1. ASSUME Active(j)'  PROVE Same
      <3>1. Active(j) /\ Product(j)' = Product(j) /\ job'[j].version = job[j].version
        BY <1>1, <2>1
      <3>2. Live(j)  BY <3>1 DEF Live
      <3>3. Exists(j)  BY <3>1 DEF Active, Exists, Blocking
      <3> QED  BY <3>1, <3>2, <3>3
    <2>2. ASSUME NEW h \in Handlers, req[h].job = j, KindOf(req[h]) \in {"reset", "bypass"},
                 ~job'[j].cleaned
          PROVE  Same
      <3>1. ~job[j].cleaned  BY <1>0, <2>2, JobKept DEF Kept, MarksInv
      <3>2. Live(j)  BY <2>2, <3>1 DEF Live
      <3>3. Exists(j)  BY <2>2 DEF Core, Base, RequestsFormed, KindOf, JobOps
      <3> QED  BY <1>0, <3>2, <3>3, RecordStays DEF Product
    <2>3. Same
      <3> HIDE DEF Same
      <3> QED  BY <1>0, <1>2, <2>1, <2>2 DEF Live
    <2> QED  BY <1>0, <2>3, ClearBefore
  <1>3. CASE catalog' = catalog
    <2>1. ASSUME NEW j \in Jobs  PROVE JobInTurn(j)'
      BY <1>2, <1>3 DEF TurnInv, JobInTurn, InTurn
    <2>2. ASSUME NEW h \in Handlers  PROVE RequestInTurn(h)'
      BY <1>0, <1>00, <1>1, <1>3 DEF TurnInv, RequestInTurn, InTurn
    <2> QED  BY <1>0, <1>3, <2>1, <2>2 DEF TurnInv
  <1>4. ASSUME NEW k \in Jobs, Complete(k)
        PROVE  TurnInv' /\ \A p \in Products : NoStray(p) => catalog[p] <= catalog'[p]
    <2>1. /\ catalog' = [catalog EXCEPT ![Product(k)] = job[k].version] /\ Active(k)
          /\ Clear(k) => /\ InTurn(job[k].version, Product(k))
                         /\ \A j \in Jobs : Live(j)' => Live(j) /\ Product(j) # Product(k)
      BY <1>4, CompleteInTurn
    <2>2. /\ catalog'[Product(k)] = job[k].version
          /\ \A p \in Products : p # Product(k) => catalog'[p] = catalog[p]
      BY <1>0, <2>1
    <2>3. ASSUME NEW p \in Products, NoStray(p)  PROVE catalog[p] <= catalog'[p]
      <3>1. CASE p = Product(k)
        <4>1. Clear(k)  BY <2>3, <3>1 DEF Clear
        <4> QED  BY <1>0, <2>1, <2>2, <3>1, <4>1 DEF InTurn
      <3>2. CASE p # Product(k)  BY <1>0, <2>2, <3>2
      <3> QED  BY <3>1, <3>2
    <2>4. ASSUME NEW j \in Jobs  PROVE JobInTurn(j)'
      <3> SUFFICES ASSUME Live(j)', Clear(j)'  PROVE InTurn(job[j].version, Product(j))'
        BY DEF JobInTurn
      <3>1. /\ Live(j) /\ Product(j)' = Product(j) /\ job'[j].version = job[j].version /\ Clear(j)
        BY <1>2
      <3>2. Product(j) = Product(k) => Clear(k)  BY <1>0, <3>1, ClearIs
      <3>3. Product(j) # Product(k)  BY <2>1, <3>2
      <3> QED  BY <1>0, <2>2, <3>1, <3>3 DEF TurnInv, JobInTurn, InTurn
    <2>5. ASSUME NEW h \in Handlers  PROVE RequestInTurn(h)'
      <3> DEFINE r == req[h]
                 Dated == /\ \/ r.op = "update" /\ r.at # "findById"
                             \/ r.op = "new" /\ r.at \in {"findJobs", "checksums", "createJob"}
                          /\ ClearFor(h)
      <3>1. Dated => /\ InTurn(r.version, r.product)
                     /\ \A i \in Jobs : Active(i) /\ Product(i) = r.product => job[i].version <= r.version
        BY DEF TurnInv, RequestInTurn
      <3>2. Dated => catalog'[r.product] <= r.version /\ r.version <= catalog'[r.product] + 1
        <4>1. CASE r.product = Product(k) /\ ClearFor(h)
          <5>1. Clear(k)  BY <1>0, <4>1, ClearIs
          <5> QED  BY <1>0, <2>1, <2>2, <3>1, <4>1, <5>1 DEF InTurn
        <4>2. CASE r.product # Product(k)
          BY <1>0, <2>2, <3>1, <4>2 DEF InTurn
        <4> QED  BY <4>1, <4>2
      <3>3. Dated => \A i \in Jobs : Active(i)' /\ Product(i)' = r.product => job'[i].version <= r.version
        BY <1>1, <3>1
      <3>4. r.op = "new" => r.version = 1  BY DEF TurnInv, RequestInTurn
      <3> QED  BY <1>0, <1>00, <3>2, <3>3, <3>4 DEF RequestInTurn, InTurn
    <2> QED  BY <2>3, <2>4, <2>5 DEF TurnInv
  <1> QED  BY <1>0, <1>3, <1>4, CatalogBy

(* A step of the request in flight keeps them in turn.                     *)
LEMMA RequestsInTurn ==
    ASSUME OneSlot, Core, TurnInv, NEW h \in Handlers, Receive(h) \/ Step(h)
    PROVE  TurnInv'
  <1> DEFINE r == req[h]
  <1>0. /\ TypeInv /\ MarksInv /\ RequestsFormed /\ [Next]_vars /\ catalog \in [Products -> Nat]
        /\ \A j \in Jobs : Product(j) \in Products /\ job[j].version \in Nat
        /\ r.product \in Products /\ r.version \in Nat /\ RequestInTurn(h)
    BY DEF Core, Base, Next, TypeInv, TypeOK, Job, Request, Product, TurnInv
  <1>1. catalog' = catalog  BY <1>0, NoRequestPublishes
  <1>00. req'[h].product = r.product /\ ClearFor(h)' => ClearFor(h)  BY <1>0, ClearBefore
  <1>2. ASSUME NEW j \in Jobs  PROVE JobInTurn(j)'
    <2> SUFFICES ASSUME Live(j)', Clear(j)' PROVE InTurn(job[j].version, Product(j))'  BY DEF JobInTurn
    <2>1. CASE Live(j)
      <3>1. Exists(j)
        BY <2>1 DEF Live, Active, Exists, Blocking, Core, Base, RequestsFormed, KindOf, JobOps
      <3>2. job'[j].product = job[j].product /\ job'[j].version = job[j].version
        BY <1>0, <3>1, RecordStays
      <3>3. Clear(j)  BY <1>0, <3>1, ClearBefore
      <3> QED  BY <1>1, <2>1, <3>2, <3>3 DEF TurnInv, JobInTurn, InTurn, Product
    <2>2. CASE CreateJob(h, j)
      <3>1. /\ r.at = "createJob" /\ job'[j].product = r.product /\ job'[j].version = r.version
        BY <1>0, <2>2, CreateIs
      <3>2. r.op \in {"new", "update"}  BY <1>0, <3>1 DEF RequestsFormed, Formed
      <3>3. InTurn(r.version, r.product)
        <4>1. \A k \in Jobs : job'[k].product = r.product => ~job'[k].stray
          BY <3>1 DEF Clear, NoStray, Product
        <4>2. ASSUME NEW k \in Jobs, job[k].product = r.product  PROVE ~job[k].stray
          <5>1. CASE Exists(k)  BY <1>0, <4>1, <4>2, <5>1, JobKept DEF Kept, Product
          <5>2. CASE ~Exists(k)  BY <1>0, <5>2 DEF MarksInv
          <5> QED  BY <5>1, <5>2
        <4>3. ClearFor(h)  BY <4>2 DEF ClearFor, NoStray, Product
        <4> QED  BY <1>0, <3>1, <3>2, <4>3 DEF RequestInTurn
      <3> QED  BY <1>1, <3>1, <3>3 DEF InTurn, Product
    <2> QED  BY <2>1, <2>2, LiveBy
  <1>3. RequestInTurn(h)'
    <2>1. CASE Gone(h)  BY <2>1 DEF Gone, RequestInTurn
    <2>2. CASE Receive(h)  BY <1>0, <2>2, ArrivingIs DEF RequestInTurn, JobOps
    <2>3. CASE Step(h) /\ r.op \notin {"new", "update"}
      <3>1. Gone(h) \/ req'[h].op = r.op
        <4>1. r.op \in {"none", "retry", "bypass", "abort"}
          BY <1>0, <2>3 DEF TypeInv, TypeOK, Request, Ops
        <4> QED
          BY <1>0, <2>3, <4>1, NoSteps, RetrySteps, BypassSteps, AbortSteps, JobReadIs, ChecksumIs
             DEF MovedTo, Moved
      <3> QED  BY <2>1, <2>3, <3>1 DEF RequestInTurn
    <2>4. CASE Step(h) /\ r.op \in {"new", "update"} /\ ~Gone(h)
      <3> DEFINE NoLater(v) == \A k \in Jobs : Active(k) /\ Product(k) = r.product => job[k].version <= v
      <3>1. ClearFor(h) => NoLater(catalog[r.product] + 1)
        BY <1>0, ClearIs DEF TurnInv, JobInTurn, InTurn, Live
      <3>2. CASE GetLayerMetadata(h)
        <4>1. /\ req'[h].op = "update" /\ req'[h].product = r.product /\ job' = job
              /\ req'[h].version = catalog[r.product] + 1
          BY <1>0, <2>4, <3>2, AdmitReadIs DEF Moved, Awaiting, remote
        <4>2. InTurn(catalog[r.product] + 1, r.product)  BY <1>0 DEF InTurn
        <4> QED  BY <1>00, <1>1, <3>1, <4>1, <4>2 DEF RequestInTurn, InTurn, Active, Product
      <3>3. CASE CheckCatalog(h) /\ catalog[r.product] = 0 /\ MovedTo(h, "findJobs")
        <4>1. /\ r.op = "new" /\ r.version = 1
          BY <1>0, <2>4, <3>3 DEF CheckCatalog, RequestsFormed, Formed, RequestInTurn
        <4>2. /\ req'[h].op = r.op /\ req'[h].product = r.product /\ req'[h].version = r.version
              /\ job' = job
          BY <3>3 DEF MovedTo, Moved, CheckCatalog, remote
        <4>3. InTurn(1, r.product) /\ (ClearFor(h) => NoLater(1))  BY <3>1, <3>3 DEF InTurn
        <4> QED  BY <1>00, <1>1, <4>1, <4>2, <4>3 DEF RequestInTurn, InTurn, Active, Product
      <3>4. CASE \/ CheckNoParallelJobs(h) \/ (\E f \in ShapeFiles : GetFileChecksum(h, f))
                 \/ ValidateInputFiles(h) /\ MovedTo(h, "mapProxy")
                 \/ CheckMapProxy(h) /\ (MovedTo(h, "catalog") \/ (r.op = "update" /\ MovedTo(h, "findJobs")))
        <4>1. /\ req'[h].op = r.op /\ req'[h].product = r.product /\ req'[h].version = r.version
              /\ job' = job /\ r.at # "findById"
          BY <1>0, <2>4, <3>4, AdmitReadIs, ChecksumIs
             DEF MovedTo, Moved, remote, ValidateInputFiles, CheckMapProxy
        <4>2. r.op = "new" /\ req'[h].at \in {"findJobs", "checksums", "createJob"} =>
                 r.at \in {"findJobs", "checksums"}
          BY <1>0, <2>4, <3>4, AdmitReadIs, ChecksumIs DEF MovedTo, Moved
        <4> QED  BY <1>0, <1>00, <1>1, <2>4, <4>1, <4>2 DEF RequestInTurn, InTurn, Active, Product
      <3> QED  BY <1>0, <2>4, <3>2, <3>3, <3>4, AdmitSteps
    <2> QED  BY <2>1, <2>2, <2>3, <2>4
  <1> QED  BY <1>2, <1>3 DEF OneSlot, TurnInv

(* An idle slot has no operation and no permit.                            *)
LEMMA IdleIs == Idle.op = "none" /\ KindOf(Idle) = "none"
  BY DEF Idle, KindOf

(* So does every step, and none takes the catalog back.                    *)
LEMMA TurnStep ==
    ASSUME OneSlot, Core, TurnInv, [Next]_vars
    PROVE  TurnInv' /\ \A p \in Products : NoStray(p) => catalog'[p] >= catalog[p]
  <1>0. TypeInv /\ MarksInv /\ \A p \in Products : catalog[p] \in Nat  BY DEF Core, Base, TypeInv, TypeOK
  <1>1. CASE WorldNext
    <2>1. TypeInv'  BY TypeInvStep DEF Core, Base
    <2>2. \A p \in Products : catalog'[p] \in Nat  BY <2>1 DEF TypeInv, TypeOK
    <2> QED  BY <1>0, <1>1, <2>2, WorldInTurn
  <1>2. ASSUME NEW h \in Handlers, Receive(h) \/ Step(h)
        PROVE  TurnInv' /\ \A p \in Products : NoStray(p) => catalog'[p] >= catalog[p]
    BY <1>0, <1>2, RequestsInTurn, NoRequestPublishes
  <1>3. CASE Crash
    <2>1. job' = job /\ catalog' = catalog /\ \A h \in Handlers : req'[h] = Idle
      BY <1>3 DEF Crash, remote
    <2>2. \A j \in Jobs : Live(j)' => Live(j) /\ Exists(j)
      BY <2>1, IdleIs DEF Live, Active, Exists, Blocking
    <2>3. \A j \in Jobs : JobInTurn(j)'
      BY <1>0, <2>1, <2>2, ClearBefore DEF TurnInv, JobInTurn, InTurn, Product
    <2>4. \A h \in Handlers : RequestInTurn(h)'  BY <2>1, IdleIs DEF RequestInTurn
    <2> QED  BY <1>0, <2>1, <2>3, <2>4 DEF TurnInv
  <1>4. CASE UNCHANGED vars
    BY <1>0, <1>4 DEF vars, TurnInv, JobInTurn, RequestInTurn, InTurn, Live, Clear, ClearFor, NoStray,
       Active, Product
  <1> QED  BY <1>1, <1>2, <1>3, <1>4 DEF Next

(* It holds when the service starts.                                       *)
LEMMA TurnInit == Init => TurnInv
  <1> SUFFICES ASSUME Init PROVE TurnInv  OBVIOUS
  <1>1. \A j \in Jobs : ~Active(j)  BY DEF Init, BlankJob, Active, Blocking
  <1>2. \A h \in Handlers : req[h] = Idle  BY DEF Init
  <1> QED  BY <1>1, <1>2, IdleIs DEF TurnInv, JobInTurn, RequestInTurn, Live

(* One request at a time, whatever fails or expires, for any number of     *)
(* jobs: the version of a job, which a request fixes when it arrives and a *)
(* worker publishes much later, is never below the published one.          *)
THEOREM OneAtATimeCatalogGrows == OneSlot /\ Spec => CatalogNeverRegresses
  <1> DEFINE Grow == \A p \in Products : NoStray(p) => catalog'[p] >= catalog[p]
  <1>1. OneSlot =>
          /\ Init => Core /\ TurnInv
          /\ Core /\ TurnInv /\ [Next]_vars => (Core /\ TurnInv)' /\ [Grow]_vars
    BY CoreInit, CoreStep, TurnInit, TurnStep
  <1>2. CASE OneSlot  BY <1>1, <1>2, PTL DEF Spec, CatalogNeverRegresses
  <1> QED  BY <1>2

-----------------------------------------------------------------------------
(* The contents of shapefiles, when no file gets a content back that it    *)
(* had before: edit numbers tell which of two contents is older.           *)

NothingReverts == "revert" \notin Faults

(* Contents that product p has, or had.                                    *)
UpTo(S, p) == \A c \in S : c[2] <= shapefile[p][c[1]]

(* No file is newer in S than in R.                                        *)
NoNewer(S, R) == \A c \in S, d \in R : c[1] = d[1] => c[2] <= d[2]

(* What is recorded of a job is not newer than what was validated.         *)
Recorded(j) ==
    /\ UpTo(task[j].checksums, Product(j))
    /\ task[j].summary # NoSummary =>
          /\ UpTo(ran[j].checksums, Product(j))
          /\ \A f \in ShapeFiles : \E d \in ran[j].checksums : d[1] = f
          /\ NoNewer(task[j].checksums, ran[j].checksums)

(* What a request reads was there; what a bypass reads is not older than   *)
(* what was validated.                                                     *)
Reads(h) ==
    LET r == req[h] IN
    /\ r.op # "none" => UpTo(r.read, r.product)
    /\ r.op = "bypass" =>
          /\ r.at \in {"getJob", "getTasks", "filesExist"} => r.read = {}
          /\ r.at = "checksums" => NoNewer(ran[r.job].checksums, r.read)
          /\ r.at \in {"updateTask", "updateJob"} => r.read = ran[r.job].checksums

ContentInv == (\A j \in Jobs : Recorded(j)) /\ (\A h \in Handlers : Reads(h))

(* A request edits no file and runs no validation.                         *)
LEMMA RequestEditsNone ==
    ASSUME TypeInv, NEW h \in Handlers, Receive(h) \/ Step(h)
    PROVE  shapefile' = shapefile /\ ran' = ran
  <1>1. CASE Receive(h)  BY <1>1, ArrivingIs DEF remote, history
  <1>2. CASE Admit(h) \/ ReadFiles(h) \/ CallFails(h)
    BY <1>2 DEF Admit, GetLayerMetadata, ValidateInputFiles, CheckMapProxy, CheckCatalog,
       CheckNoParallelJobs, CreateJob, RefuseJob, ReadFiles, CheckFilesExist, GetFileChecksum, CallFails,
       remote, history
  <1>3. CASE Retry(h) \/ Bypass(h) \/ Abort(h)
    BY <1>3 DEF Retry, RetryGetJob, RetryGetTasks, SoftReset, RetryDeleteEntity, HardResetTask,
       HardResetJob, Bypass, BypassGetJob, BypassGetTasks, BypassUpdateTask, BypassUpdateJob, BypassNotify,
       Abort, AbortGetJob, AbortGetTasks, AbortJob, AbortDeleteEntity, remote, history
  <1> QED  BY <1>1, <1>2, <1>3 DEF Step

(* Files only get newer.                                                   *)
LEMMA ShapefilesAge ==
    ASSUME NothingReverts, TypeInv, [Next]_vars
    PROVE  \A p \in Products, f \in ShapeFiles : shapefile[p][f] <= shapefile'[p][f]
  <1>0. \A p \in Products, f \in ShapeFiles : shapefile[p][f] \in Nat
    BY StateAssumption DEF TypeInv, TypeOK
  <1>1. ASSUME NEW h \in Handlers, Receive(h) \/ Step(h)  PROVE shapefile' = shapefile
    BY <1>1, RequestEditsNone
  <1>2. WorkerNext => shapefile' = shapefile
    BY DEF WorkerNext, StartValidation, FinishValidation, FailValidation, Resume, FailLater, AddFinalize,
       Publish, Complete, Expire, CleanUp
  <1>3. ASSUME NEW q \in Products, NEW g \in ShapeFiles, EditFile(q, g)
        PROVE  \A p \in Products, f \in ShapeFiles : shapefile[p][f] <= shapefile'[p][f]
    <2>1. PICK n \in 1 .. MaxEdits : /\ n = shapefile[q][g] + 1
                                     /\ shapefile' = [shapefile EXCEPT ![q][g] = n]
      BY <1>3 DEF EditFile, NothingReverts
    <2>2. \A p \in Products, f \in ShapeFiles :
             shapefile'[p][f] = IF p = q /\ f = g THEN n ELSE shapefile[p][f]
      BY <2>1 DEF TypeInv, TypeOK
    <2> QED  BY <1>0, <2>1, <2>2
  <1>4. Crash \/ UNCHANGED vars => shapefile' = shapefile  BY DEF Crash, vars, remote
  <1> QED  BY <1>0, <1>1, <1>2, <1>3, <1>4 DEF Next, WorldNext

(* What a product had, it had.                                             *)
LEMMA HadStays ==
    ASSUME NothingReverts, TypeInv, [Next]_vars, NEW p \in Products, NEW S \in SUBSET Checksum, UpTo(S, p)
    PROVE  \A c \in S : c[2] <= shapefile'[p][c[1]]
  <1> SUFFICES ASSUME NEW c \in S PROVE c[2] <= shapefile'[p][c[1]]  OBVIOUS
  <1>1. c[1] \in ShapeFiles /\ c[2] \in Nat /\ c[2] <= shapefile[p][c[1]]
    BY StateAssumption DEF Checksum, UpTo
  <1>2. shapefile[p][c[1]] \in Nat /\ shapefile'[p][c[1]] \in Nat
    <2>1. TypeInv'  BY TypeInvStep
    <2> QED  BY <1>1, <2>1, StateAssumption DEF TypeInv, TypeOK
  <1> QED  BY <1>1, <1>2, ShapefilesAge

(* Between what was validated and what is recorded there is nothing: a     *)
(* bypass that finds the files unchanged finds them as they were validated.*)
LEMMA SameContent ==
    ASSUME NEW ranOn \in SUBSET Checksum, NEW recorded \in SUBSET Checksum, NEW read \in SUBSET Checksum,
           \A f \in ShapeFiles : \E d \in ranOn : d[1] = f,
           NoNewer(recorded, ranOn), NoNewer(ranOn, read),
           ~MoreToRead(read), ~isChecksumChanged(recorded, read)
    PROVE  read = ranOn
  <1>1. \A c \in Checksum : c = <<c[1], c[2]>> /\ c[1] \in ShapeFiles /\ c[2] \in Nat
    BY StateAssumption DEF Checksum
  <1>2. \A c \in read : c \in recorded  BY DEF isChecksumChanged, checksumExists
  <1>3. ASSUME NEW c \in read, NEW d \in ranOn, c[1] = d[1]  PROVE c = d
    <2>1. c[2] <= d[2] /\ d[2] <= c[2]  BY <1>2, <1>3 DEF NoNewer
    <2>2. c[2] = d[2]  BY <1>1, <2>1
    <2> QED  BY <1>1, <1>3, <2>2
  <1>4. \A d \in ranOn : \E c \in read : c[1] = d[1]  BY <1>1 DEF MoreToRead
  <1>5. \A c \in read : \E d \in ranOn : c[1] = d[1]  BY <1>1
  <1>6. read \subseteq ranOn  BY <1>3, <1>5
  <1>7. ranOn \subseteq read  BY <1>3, <1>4
  <1> QED  BY <1>6, <1>7

(* A step that leaves what is recorded of a job, and its product.          *)
LEMMA KeepsRecorded ==
    ASSUME NothingReverts, TypeInv, [Next]_vars, NEW j \in Jobs, Recorded(j), Product(j)' = Product(j),
           task'[j].checksums = task[j].checksums, task'[j].summary = task[j].summary, ran'[j] = ran[j]
    PROVE  Recorded(j)'
  <1>0. /\ Product(j) \in Products /\ task[j].checksums \in SUBSET Checksum
        /\ ran[j].checksums \in SUBSET Checksum
    BY DEF TypeInv, TypeOK, Job, Task, Product
  <1>1. /\ \A c \in task[j].checksums : c[2] <= shapefile'[Product(j)][c[1]]
        /\ task[j].summary # NoSummary =>
              \A c \in ran[j].checksums : c[2] <= shapefile'[Product(j)][c[1]]
    BY <1>0, HadStays DEF Recorded
  <1> QED  BY <1>1 DEF Recorded, UpTo, NoNewer

(* The write of a request records what was there.                          *)
LEMMA WritesRecorded ==
    ASSUME NothingReverts, Core, ContentInv, [Next]_vars, NEW h \in Handlers,
           NEW j, j = req[h].job, Writing(h)
    PROVE  Recorded(j)'
  <1>0. /\ j \in Jobs /\ Recorded(j) /\ Exists(j) /\ TypeInv /\ job[j] \in Job /\ task[j] \in Task
        /\ StandsOn(h) /\ RetryStands(h) /\ BypassStands(h) /\ Reads(h) /\ Product(j) \in Products
        /\ req[h].read \in SUBSET Checksum /\ ran[j].checksums \in SUBSET Checksum
    BY WritingJob DEF Core, Base, ContentInv, RequestsFormed, Writing, SoftReset, HardResetTask, HardResetJob,
       BypassUpdateTask, BypassUpdateJob, BypassNotify, AbortJob, Awaiting, JobOps, TypeInv, TypeOK, Stands,
       Request, Job, Product
  <1>1. Product(j)' = Product(j)  BY <1>0, RecordStays DEF Product
  <1>2. \A c \in task[j].checksums : c[2] <= shapefile'[Product(j)][c[1]]
    BY <1>0, HadStays DEF Recorded, Task
  <1>3. ASSUME task'[j].checksums = task[j].checksums, task'[j].summary = task[j].summary, ran'[j] = ran[j]
        PROVE  Recorded(j)'
    BY <1>0, <1>1, <1>3, KeepsRecorded
  <1>4. CASE SoftReset(h) \/ AbortJob(h)
    BY <1>0, <1>3, <1>4, SoftResetIs, AbortJobIs DEF TaskIs
  <1>5. CASE HardResetJob(h) \/ BypassUpdateJob(h) \/ BypassNotify(h)
    BY <1>0, <1>3, <1>5, HardResetJobIs, BypassUpdateJobIs, BypassNotifyIs
  <1>6. CASE BypassUpdateTask(h)
    <2>1. req[h].task = task[j]  BY <1>0, <1>6 DEF BypassUpdateTask, BypassStands, Awaiting
    <2> QED  BY <1>0, <1>3, <1>6, <2>1, BypassUpdateTaskIs DEF TaskIs
  <1>7. CASE HardResetTask(h)
    <2>1. req[h].task = task[j] /\ req[h].product = Product(j)
      BY <1>0, <1>7 DEF HardResetTask, RetryStands, StandsOn, Awaiting, JobOps
    <2>2. /\ task'[j].summary = NoSummary
          /\ task'[j].checksums \subseteq task[j].checksums \cup req[h].read
      BY <1>0, <1>7, <2>1, HardResetTaskIs DEF TaskIs, buildUpdatedChecksums
    <2>3. \A c \in req[h].read : c[2] <= shapefile'[Product(j)][c[1]]
      <3>1. req[h].op # "none"  BY <1>7 DEF HardResetTask, Awaiting
      <3>2. UpTo(req[h].read, Product(j))  BY <1>0, <2>1, <3>1 DEF Reads
      <3> QED  BY <1>0, <3>2, HadStays
    <2>4. \A c \in task'[j].checksums : c[2] <= shapefile'[Product(j)'][c[1]]
      BY <1>1, <1>2, <2>2, <2>3
    <2> QED  BY <2>2, <2>4 DEF Recorded, UpTo
  <1> QED  BY <1>4, <1>5, <1>6, <1>7 DEF Writing

(* So does every other step.                                               *)
LEMMA JobsRecorded ==
    ASSUME NothingReverts, Core, ContentInv, [Next]_vars, NEW j \in Jobs
    PROVE  Recorded(j)'
  <1>0. TypeInv /\ RequestsFormed /\ Recorded(j) /\ job[j] \in Job /\ task[j] \in Task
    BY DEF Core, Base, TypeInv, TypeOK, ContentInv
  <1>1. CASE Untouched(j)
    BY <1>0, <1>1, KeepsRecorded DEF Untouched, SameJob, Product
  <1>2. ASSUME NEW h \in Handlers, CreateJob(h, j)  PROVE Recorded(j)'
    <2>1. req[h].at = "createJob"  BY <1>0, <1>2, CreateIs
    <2>2. Reads(h) /\ Formed(req[h])  BY <1>0 DEF ContentInv, RequestsFormed
    <2>3. UpTo(req[h].read, req[h].product)  BY <2>1, <2>2 DEF Reads, Formed
    <2>4. req[h].product \in Products /\ req[h].read \in SUBSET Checksum
      BY <1>0 DEF TypeInv, TypeOK, Request
    <2>5. \A c \in req[h].read : c[2] <= shapefile'[req[h].product][c[1]]
      BY <1>0, <2>3, <2>4, HadStays
    <2>6. TaskIs(j, "PENDING", FALSE, req[h].read, NoSummary) /\ job'[j].product = req[h].product
      BY <1>0, <1>2, CreateIs
    <2>7. task'[j].checksums = req[h].read /\ task'[j].summary = NoSummary  BY <2>6 DEF TaskIs
    <2> QED  BY <2>5, <2>6, <2>7 DEF Recorded, UpTo, Product
  <1>3. ASSUME NEW h \in Handlers, req[h].job = j, Writing(h)  PROVE Recorded(j)'
    BY <1>3, WritesRecorded
  <1>4. CASE WorkOn(j)
    <2>1. ASSUME NEW s \in Summaries, FinishValidation(j, s)  PROVE Recorded(j)'
      <3>1. ran'[j] = [summary |-> s, checksums |-> Checksums(Product(j))]  BY <1>0, <2>1, FinishIs
      <3>2. ran'[j].checksums = Checksums(Product(j))  BY <3>1
      <3>3. job'[j].product = job[j].product /\ task'[j].checksums = task[j].checksums
        BY <1>0, <2>1, FinishIs DEF JobIs, TaskIs
      <3>4. shapefile' = shapefile  BY <2>1 DEF FinishValidation
      <3>5. \A c \in Checksums(Product(j)) : c[2] = shapefile[Product(j)][c[1]]
        BY DEF Checksums, ChecksumOf
      <3>6. \A f \in ShapeFiles : \E d \in Checksums(Product(j)) : d[1] = f
        <4>1. \A f \in ShapeFiles : ChecksumOf(Product(j), f) \in Checksums(Product(j))
          BY DEF Checksums
        <4>2. \A f \in ShapeFiles : ChecksumOf(Product(j), f)[1] = f  BY DEF ChecksumOf
        <4> QED  BY <4>1, <4>2
      <3>7. NoNewer(task[j].checksums, Checksums(Product(j)))
        BY <1>0, <3>5 DEF NoNewer, Recorded, UpTo
      <3>8. UpTo(Checksums(Product(j)), Product(j))
        <4>1. \A f \in ShapeFiles : shapefile[Product(j)][f] \in Nat
          BY <1>0, StateAssumption DEF TypeInv, TypeOK, Job, Product
        <4> QED  BY <4>1 DEF UpTo, Checksums, ChecksumOf
      <3> QED  BY <1>0, <3>2, <3>3, <3>4, <3>6, <3>7, <3>8 DEF Recorded, UpTo, NoNewer, Product
    <2>2. CASE StartValidation(j) \/ FailValidation(j)
      <3>1. job'[j].product = job[j].product  BY <1>0, <2>2, WorkIs DEF StatusIs, JobIs
      <3>2. /\ task'[j].checksums = task[j].checksums /\ task'[j].summary = task[j].summary
            /\ ran'[j] = ran[j]
        BY <1>0, <2>2, WorkIs DEF TaskIs
      <3> QED  BY <1>0, <3>1, <3>2, KeepsRecorded DEF Product
    <2>3. CASE Resume(j) \/ FailLater(j) \/ AddFinalize(j) \/ Complete(j) \/ Expire(j)
      <3>1. job'[j].product = job[j].product
        BY <1>0, <2>3, WorkIs, AddFinalizeIs DEF StatusIs, JobIs
      <3>2. task' = task /\ ran' = ran  BY <1>0, <2>3, WorkIs, AddFinalizeIs
      <3> QED  BY <1>0, <3>1, <3>2, KeepsRecorded DEF Product
    <2>4. CASE CleanUp(j)
      <3>1. job'[j].product = job[j].product /\ task' = task /\ ran' = ran
        BY <1>0, <2>4, CleanUpIs DEF StatusIs, JobIs
      <3> QED  BY <1>0, <3>1, KeepsRecorded DEF Product
    <2> QED  BY <1>4, <2>1, <2>2, <2>3, <2>4 DEF WorkOn
  <1> QED  BY <1>0, <1>1, <1>2, <1>3, <1>4, TouchedBy

(* What a request has read stays what it is while others act.              *)
LEMMA WorldReads ==
    ASSUME NothingReverts, Core, ContentInv, WorldNext, NEW h \in Handlers
    PROVE  Reads(h)'
  <1> DEFINE j == req[h].job
  <1>0. /\ TypeInv /\ Reads(h) /\ BypassStands(h) /\ req' = req /\ req[h] \in Request
        /\ req[h].op \in JobOps => j \in Jobs
    BY WorldAsksNothing DEF Core, Base, Stands, ContentInv, TypeInv, TypeOK, JobRequests
  <1>1. req[h].op # "none" => \A c \in req[h].read : c[2] <= shapefile'[req[h].product][c[1]]
    BY <1>0, HadStays DEF Reads, Request, Next
  <1>2. ASSUME req[h].op = "bypass", req[h].at \in {"checksums", "updateTask", "updateJob"}
        PROVE  ran'[j] = ran[j]
    <2>1. j \in Jobs  BY <1>0, <1>2 DEF JobOps
    <2>2. job[j].status \in {"SUSPENDED", "EXPIRED"}  BY <1>0, <1>2 DEF BypassStands, CanBypass
    <2> QED  BY <1>0, <2>1, <2>2, WorldLeaves
  <1> QED  BY <1>0, <1>1, <1>2 DEF Reads, UpTo, NoNewer

(* What it has read after a step of its own.                               *)
LEMMA RequestReads ==
    ASSUME NothingReverts, Core, ContentInv, NEW h \in Handlers, Receive(h) \/ Step(h)
    PROVE  Reads(h)'
  <1> DEFINE j == req[h].job
             r == req[h]
  <1>0. /\ TypeInv /\ RequestsFormed /\ Reads(h) /\ BypassStands(h) /\ r \in Request
        /\ r.op \in JobOps => j \in Jobs
    BY DEF Core, Base, Stands, ContentInv, TypeInv, TypeOK, JobRequests
  <1>1. CASE Gone(h)  BY <1>1 DEF Gone, Reads
  <1>2. CASE Receive(h)
    <2>1. req'[h].read = {} /\ req'[h].at \in {"inputFiles", "findById", "getJob"}
      BY <1>0, <1>2, ArrivingIs
    <2> QED  BY <2>1 DEF Reads, UpTo
  <1>3. shapefile' = shapefile /\ ran' = ran  BY <1>0, RequestEditsNone
  <1>4. ASSUME r.op # "none", req'[h].op = r.op, req'[h].product = r.product, req'[h].job = j,
               req'[h].read = r.read,
               r.op = "bypass" => <<r.at, req'[h].at>> \in
                                     {<<"getJob", "getTasks">>, <<"getTasks", "filesExist">>,
                                      <<"filesExist", "checksums">>, <<"updateTask", "updateJob">>,
                                      <<"updateJob", "notify">>}
        PROVE  Reads(h)'
    <2>1. \A c \in req'[h].read : c[2] <= shapefile'[req'[h].product][c[1]]
      BY <1>0, <1>3, <1>4 DEF Reads, UpTo
    <2>2. CASE r.op = "bypass"
      <3>1. req'[h].at \in {"getTasks", "filesExist"} => req'[h].read = {}
        BY <1>0, <1>4, <2>2 DEF Reads
      <3>2. req'[h].at = "checksums" => NoNewer(ran[j].checksums, req'[h].read)
        BY <1>0, <1>4, <2>2 DEF Reads, NoNewer
      <3>3. req'[h].at \in {"updateTask", "updateJob"} => req'[h].read = ran[j].checksums
        BY <1>0, <1>4, <2>2 DEF Reads
      <3>4. req'[h].at # "getJob"  BY <1>4, <2>2
      <3> QED  BY <1>3, <1>4, <2>1, <3>1, <3>2, <3>3, <3>4 DEF Reads, UpTo, NoNewer
    <2> QED  BY <1>4, <2>1, <2>2 DEF Reads, UpTo
  <1>5. ASSUME NEW f \in ShapeFiles, GetFileChecksum(h, f), ~Gone(h)  PROVE Reads(h)'
    <2> DEFINE read == r.read \cup {ChecksumOf(r.product, f)}
    <2>1. /\ r.at = "checksums" /\ req'[h].read = read
          /\ req'[h].op = r.op /\ req'[h].product = r.product /\ req'[h].job = j
          /\ \/ req'[h].at = "checksums"
             \/ /\ ~MoreToRead(read) /\ r.op = "bypass" /\ req'[h].at = "updateTask"
                /\ ~isChecksumChanged(r.task.checksums, read)
             \/ r.op # "bypass"
      BY <1>0, <1>5, ChecksumIs DEF Moved
    <2>2. r.op # "none"  BY <1>0, <2>1 DEF RequestsFormed, Formed
    <2>3. r.product \in Products /\ shapefile[r.product][f] \in Nat /\ ChecksumOf(r.product, f) \in Checksum
      BY <1>0, StateAssumption DEF Request, TypeInv, TypeOK, Checksum, ChecksumOf
    <2>4. UpTo(read, r.product)  BY <1>0, <2>2, <2>3 DEF Reads, UpTo, ChecksumOf
    <2>5. CASE r.op = "bypass"
      <3>1. j \in Jobs /\ Recorded(j) /\ StandsOn(h)
        BY <1>0, <2>5 DEF JobOps, ContentInv, Core, Stands
      <3>2. r.product = Product(j)  BY <2>5, <3>1 DEF StandsOn, JobOps
      <3>3. r.task = task[j] /\ task[j].summary # NoSummary
        BY <1>0, <2>1, <2>5 DEF BypassStands, CanBypass
      <3>4. NoNewer(ran[j].checksums, r.read)  BY <1>0, <2>1, <2>5 DEF Reads
      <3>5. UpTo(ran[j].checksums, r.product)  BY <3>1, <3>2, <3>3 DEF Recorded
      <3>6. NoNewer(ran[j].checksums, read)  BY <3>4, <3>5 DEF NoNewer, UpTo, ChecksumOf
      <3>7. req'[h].at = "updateTask" => read = ran[j].checksums
        <4>1. /\ ran[j].checksums \in SUBSET Checksum /\ task[j].checksums \in SUBSET Checksum
              /\ read \in SUBSET Checksum
          BY <1>0, <2>3, <3>1 DEF Request, TypeInv, TypeOK, Task
        <4>2. /\ NoNewer(task[j].checksums, ran[j].checksums)
              /\ \A g \in ShapeFiles : \E d \in ran[j].checksums : d[1] = g
          BY <3>1, <3>3 DEF Recorded
        <4> HIDE DEF read
        <4> QED  BY <2>1, <2>5, <3>3, <3>6, <4>1, <4>2, SameContent
      <3> HIDE DEF read
      <3> QED  BY <1>3, <2>1, <2>4, <2>5, <3>6, <3>7 DEF Reads, UpTo, NoNewer
    <2> HIDE DEF read
    <2> QED  BY <1>3, <2>1, <2>4, <2>5 DEF Reads, UpTo
  <1>6. CASE Step(h) /\ ~Gone(h) /\ r.op = "bypass"
    BY <1>0, <1>4, <1>5, <1>6, BypassSteps, JobReadIs DEF MovedTo, Moved, Awaiting, CheckFilesExist,
       BypassUpdateTask, BypassUpdateJob
  <1>7. CASE Step(h) /\ ~Gone(h) /\ r.op = "retry"
    BY <1>0, <1>4, <1>5, <1>7, RetrySteps, JobReadIs DEF MovedTo, Moved
  <1>8. CASE Step(h) /\ ~Gone(h) /\ r.op \in {"new", "update"}
    BY <1>0, <1>4, <1>5, <1>8, AdmitSteps, AdmitReadIs DEF MovedTo, Moved
  <1>9. CASE Step(h) /\ ~Gone(h) /\ r.op = "abort"
    BY <1>0, <1>4, <1>9, AbortSteps, JobReadIs DEF MovedTo, Moved
  <1>10. r.op \in {"none", "new", "update", "retry", "bypass", "abort"}
    BY <1>0 DEF Request, Ops
  <1> QED  BY <1>0, <1>1, <1>2, <1>6, <1>7, <1>8, <1>9, <1>10, NoSteps

(* The invariant is inductive.                                             *)
LEMMA ContentStep == OneSlot /\ NothingReverts /\ Core /\ ContentInv /\ [Next]_vars => ContentInv'
  <1> SUFFICES ASSUME OneSlot, NothingReverts, Core, ContentInv, [Next]_vars  PROVE ContentInv'
    OBVIOUS
  <1>1. \A j \in Jobs : Recorded(j)'  BY JobsRecorded
  <1>2. ASSUME NEW h \in Handlers  PROVE Reads(h)'
    <2>1. ASSUME NEW g \in Handlers, Receive(g) \/ Step(g)  PROVE Reads(h)'
      BY <2>1, RequestReads DEF OneSlot
    <2>2. CASE WorldNext  BY <2>2, WorldReads
    <2>3. CASE Crash
      <3>1. req'[h] = Idle  BY <2>3 DEF Crash
      <3> QED  BY <3>1 DEF Idle, Reads
    <2>4. CASE UNCHANGED vars
      BY <2>4 DEF ContentInv, vars, Reads, UpTo, NoNewer
    <2> QED  BY <2>1, <2>2, <2>3, <2>4 DEF Next
  <1> QED  BY <1>1, <1>2 DEF ContentInv

(* It holds when the service starts.                                       *)
LEMMA ContentInit == Init => ContentInv
  BY DEF Init, ContentInv, Recorded, Reads, UpTo, BlankTask, Idle

(* One request at a time, whatever fails or expires and however often      *)
(* files are edited while they are read: a bypass that is about to write   *)
(* has read, of every file, the content the last validation ran on.  The   *)
(* code compares with the checksums recorded of the job, which are those   *)
(* of other moments; that no file gets an earlier content back is needed.  *)
THEOREM OneAtATimeBypassOnValidatedContent ==
    OneSlot /\ NothingReverts /\ Spec => []BypassOnValidatedContent
  <1>1. ContentInv => BypassOnValidatedContent  BY DEF ContentInv, Reads, BypassOnValidatedContent
  <1>2. OneSlot /\ NothingReverts =>
          /\ Init => Core /\ ContentInv
          /\ Core /\ ContentInv /\ [Next]_vars => (Core /\ ContentInv)'
    BY CoreInit, CoreStep, ContentInit, ContentStep
  <1>3. CASE OneSlot /\ NothingReverts  BY <1>1, <1>2, <1>3, PTL DEF Spec
  <1> QED  BY <1>3
=============================================================================
