---------------------------- MODULE HealingProofs ----------------------------
(***************************************************************************)
(* What every step does to the records of one job and to one request,      *)
(* field by field; and from it, for any overlap of requests and any of the *)
(* faults, what may leave a job that nobody can move (WedgedHasCause).     *)
(***************************************************************************)
EXTENDS RefinementProofs

(* The record of job j and the history of its task after a step.           *)
JobIs(j, st, tracked, finalize, approval, outrun) ==
    /\ job'[j].status = st
    /\ job'[j].tracked = tracked
    /\ job'[j].finalize = finalize
    /\ job'[j].approval = approval
    /\ job'[j].outrun = outrun
    /\ job'[j].product = job[j].product
    /\ job'[j].version = job[j].version
    /\ (j \in revived') = (j \in revived \/ (st \in Blocking /\ ~Active(j) /\ Exists(j)))

(* Its status alone changes.                                               *)
StatusIs(j, st) ==
    JobIs(j, st, job[j].tracked, job[j].finalize, job[j].approval, job[j].outrun)

TaskIs(j, st, isValid, checksums, summary) ==
    /\ task'[j].status = st
    /\ task'[j].isValid = isValid
    /\ task'[j].checksums = checksums
    /\ task'[j].summary = summary

SameJob(j) == job'[j] = job[j] /\ (j \in revived' <=> j \in revived)

Untouched(j) == SameJob(j) /\ task'[j] = task[j] /\ ran'[j] = ran[j]

-----------------------------------------------------------------------------
(* A write of one job leaves the others.                                   *)
LEMMA SetJobOthers ==
    ASSUME TypeInv, NEW k \in Jobs, NEW r, SetJob(k, r)
    PROVE  \A j \in Jobs : j # k => SameJob(j)
  BY DEF TypeInv, TypeOK, SetJob, SameJob

(* A write of one task leaves the others.                                  *)
LEMMA SetTaskOthers ==
    ASSUME TypeInv, NEW k \in Jobs, NEW r, SetTask(k, r)
    PROVE  task'[k] = r /\ \A j \in Jobs : j # k => task'[j] = task[j]
  BY DEF TypeInv, TypeOK, SetTask

(* A write of a record with the same product and version.                  *)
LEMMA SetJobIs ==
    ASSUME TypeInv, NEW j \in Jobs, NEW r, SetJob(j, r), r.product = job[j].product,
           r.version = job[j].version
    PROVE  JobIs(j, r.status, r.tracked, r.finalize, r.approval, r.outrun)
  BY DEF TypeInv, TypeOK, SetJob, JobIs

(* A write of the status alone.                                            *)
LEMMA SetStatusIs ==
    ASSUME TypeInv, NEW j \in Jobs, NEW st, SetJob(j, [job[j] EXCEPT !.status = st])
    PROVE  StatusIs(j, st)
  <1> DEFINE r == [job[j] EXCEPT !.status = st]
  <1>1. /\ r.status = st /\ r.product = job[j].product /\ r.version = job[j].version
        /\ r.tracked = job[j].tracked /\ r.finalize = job[j].finalize
        /\ r.approval = job[j].approval /\ r.outrun = job[j].outrun
    BY DEF TypeInv, TypeOK, Job
  <1>2. SetJob(j, r)  OBVIOUS
  <1> HIDE DEF r
  <1>3. JobIs(j, r.status, r.tracked, r.finalize, r.approval, r.outrun)  BY <1>1, <1>2, SetJobIs
  <1> QED  BY <1>1, <1>3 DEF StatusIs

(* The requests that write, and the job they write.                        *)
Writing(h) ==
    \/ SoftReset(h) \/ HardResetTask(h) \/ HardResetJob(h)
    \/ BypassUpdateTask(h) \/ BypassUpdateJob(h) \/ BypassNotify(h)
    \/ AbortJob(h)

WorkOn(j) ==
    \/ StartValidation(j) \/ (\E s \in Summaries : FinishValidation(j, s)) \/ FailValidation(j)
    \/ Resume(j) \/ FailLater(j) \/ AddFinalize(j) \/ Complete(j) \/ Expire(j)
    \/ CleanUp(j)

(* Whom a step of a request touches: nobody, or the job it writes.         *)
LEMMA RequestTouches ==
    ASSUME TypeInv, NEW j \in Jobs, NEW h \in Handlers, Receive(h) \/ Step(h)
    PROVE  Untouched(j) \/ CreateJob(h, j) \/ (req[h].job = j /\ Writing(h))
  <1> USE DEF Untouched
  <1>0. job' = job /\ task' = task /\ ran' = ran /\ revived' = revived => Untouched(j)
    BY DEF SameJob
  <1>1. CASE Receive(h) \/ ReadFiles(h) \/ CallFails(h)
    BY <1>0, <1>1 DEF Receive, ReceiveNew, ReceiveUpdate, ReceiveForJob, ReadFiles, CheckFilesExist,
       GetFileChecksum, CallFails, remote, history
  <1>2. CASE Admit(h)
    <2>1. ASSUME NEW k \in Jobs, CreateJob(h, k)  PROVE Untouched(j) \/ CreateJob(h, j)
      BY <2>1 DEF CreateJob, SameJob, TypeInv, TypeOK
    <2> QED
      BY <1>0, <1>2, <2>1 DEF Admit, GetLayerMetadata, ValidateInputFiles, CheckMapProxy,
         CheckCatalog, CheckNoParallelJobs, RefuseJob, remote, history
  <1>3. CASE Retry(h) \/ Bypass(h) \/ Abort(h)
    <2>1. CASE ~Writing(h)
      BY <1>0, <1>3, <2>1 DEF Writing, Retry, RetryGetJob, RetryGetTasks, RetryDeleteEntity, Bypass,
         BypassGetJob, BypassGetTasks, Abort, AbortGetJob, AbortGetTasks, AbortDeleteEntity, remote,
         history
    <2>2. CASE Writing(h) /\ req[h].job # j
      <3>0. req[h].job \in Jobs
        BY <2>2 DEF Writing, SoftReset, HardResetTask, HardResetJob, BypassUpdateTask, BypassUpdateJob,
           BypassNotify, AbortJob, Awaiting, TypeInv, JobRequests, JobOps
      <3>1. (job' = job /\ revived' = revived) \/ (\E r : SetJob(req[h].job, r)) \/ BypassNotify(h)
        BY <2>2 DEF Writing, SoftReset, HardResetTask, HardResetJob, BypassUpdateTask, BypassUpdateJob,
           AbortJob, ResetJob
      <3>2. task' = task \/ \E r : SetTask(req[h].job, r)
        BY <2>2 DEF Writing, SoftReset, HardResetTask, HardResetJob, BypassUpdateTask, BypassUpdateJob,
           BypassNotify, AbortJob
      <3>3. ran' = ran
        BY <2>2 DEF Writing, SoftReset, HardResetTask, HardResetJob, BypassUpdateTask, BypassUpdateJob,
           BypassNotify, AbortJob
      <3>4. SameJob(j)
        BY <2>2, <3>0, <3>1, SetJobOthers DEF SameJob, BypassNotify, TypeInv, TypeOK
      <3>5. task'[j] = task[j]  BY <2>2, <3>0, <3>2, SetTaskOthers
      <3> QED  BY <3>3, <3>4, <3>5
    <2> QED  BY <2>1, <2>2
  <1> QED  BY <1>1, <1>2, <1>3 DEF Step

(* Workers and the job manager touch the job they work on.                 *)
LEMMA WorldTouches ==
    ASSUME TypeInv, NEW j \in Jobs, WorldNext
    PROVE  Untouched(j) \/ WorkOn(j)
  <1> USE DEF Untouched
  <1>0. job' = job /\ task' = task /\ ran' = ran /\ revived' = revived => Untouched(j)
    BY DEF SameJob
  <1>1. ASSUME NEW k \in Jobs, WorkOn(k) \/ Publish(k)  PROVE Untouched(j) \/ WorkOn(j)
    <2>1. CASE k # j /\ WorkOn(k)
      <3>1. \E r : SetJob(k, r)
        BY <2>1 DEF WorkOn, StartValidation, FinishValidation, FailValidation, Resume, FailLater,
           AddFinalize, Complete, Expire, CleanUp
      <3>2. task' = task \/ \E r : SetTask(k, r)
        BY <2>1 DEF WorkOn, StartValidation, FinishValidation, FailValidation, Resume, FailLater,
           AddFinalize, Complete, Expire, CleanUp
      <3>3. ran'[j] = ran[j]
        BY <2>1 DEF WorkOn, StartValidation, FinishValidation, FailValidation, Resume, FailLater,
           AddFinalize, Complete, Expire, CleanUp, TypeInv, TypeOK
      <3> QED  BY <2>1, <3>1, <3>2, <3>3, SetJobOthers, SetTaskOthers
    <2>2. CASE Publish(k)  BY <1>0, <2>2 DEF Publish
    <2> QED  BY <1>1, <2>1, <2>2
  <1>2. ASSUME NEW p, NEW f, EditFile(p, f)  PROVE Untouched(j)  BY <1>0, <1>2 DEF EditFile
  <1> QED  BY <1>1, <1>2 DEF WorldNext, WorkerNext, WorkOn

(* Who touches the records of a job.                                       *)
LEMMA TouchedBy ==
    ASSUME TypeInv, [Next]_vars, NEW j \in Jobs
    PROVE  \/ Untouched(j)
           \/ \E h \in Handlers : CreateJob(h, j) \/ (req[h].job = j /\ Writing(h))
           \/ WorkOn(j)
  <1>1. CASE Crash \/ UNCHANGED vars
    BY <1>1 DEF Crash, vars, remote, history, Untouched, SameJob
  <1> QED  BY <1>1, RequestTouches, WorldTouches DEF Next

-----------------------------------------------------------------------------
(* The writes, field by field.                                             *)

(* A job is created blank, with its task, and was never validated.         *)
LEMMA CreateIs ==
    ASSUME TypeInv, NEW h \in Handlers, NEW j \in Jobs, CreateJob(h, j)
    PROVE  /\ req[h].at = "createJob" /\ ~Exists(j) /\ Ends(h)
           /\ job'[j].status = "PENDING" /\ job'[j].product = req[h].product
           /\ job'[j].version = req[h].version
           /\ ~job'[j].tracked /\ ~job'[j].finalize /\ ~job'[j].outrun
           /\ job'[j].approval = NotApproved
           /\ TaskIs(j, "PENDING", FALSE, req[h].read, NoSummary)
           /\ ran' = ran /\ revived' = revived /\ entity' = entity /\ catalog' = catalog
           /\ shapefile' = shapefile
           /\ \A k \in Jobs : k # j => Untouched(k)
  BY Answering DEF CreateJob, BlankJob, BlankTask, TaskIs, Untouched, SameJob, TypeInv, TypeOK

(* The job a request writes is one.                                        *)
LEMMA WritingJob ==
    ASSUME TypeInv, NEW h \in Handlers, Writing(h)
    PROVE  req[h].job \in Jobs /\ req[h] \in Request /\ req[h].task \in Task
  BY DEF Writing, SoftReset, HardResetTask, HardResetJob, BypassUpdateTask, BypassUpdateJob,
     BypassNotify, AbortJob, Awaiting, TypeInv, TypeOK, JobRequests, JobOps, Request

(* The two ways of a retry to reset a job.                                 *)
LEMMA SoftResetIs ==
    ASSUME TypeInv, NEW h \in Handlers, NEW j, j = req[h].job, SoftReset(h)
    PROVE  /\ Awaiting(h, "retry", "resetJob") /\ LastWrite(h)
           /\ JobIs(j, "PENDING", job[j].tracked, job[j].finalize, job[j].approval,
                    job[j].outrun \/ task[j] # req[h].task)
           /\ TaskIs(j, IF task[j].status = "FAILED" THEN "PENDING" ELSE task[j].status,
                     task[j].isValid, task[j].checksums, task[j].summary)
           /\ ran' = ran /\ UNCHANGED <<catalog, entity, shapefile>>
  <1>0. j \in Jobs /\ job[j] \in Job  BY WritingJob DEF Writing, TypeInv, TypeOK
  <1>1. ResetJob(j, task[j] # req[h].task)  BY DEF SoftReset
  <1>2. (task[j] # req[h].task) \in BOOLEAN  OBVIOUS
  <1>3. PICK r \in Job : /\ SetJob(j, r)
                         /\ r.status = "PENDING" /\ r.outrun = (job[j].outrun \/ task[j] # req[h].task)
                         /\ r.product = job[j].product /\ r.version = job[j].version
                         /\ r.approval = job[j].approval /\ r.tracked = job[j].tracked
                         /\ r.finalize = job[j].finalize
    BY <1>0, <1>1, <1>2, ResetIs, ZenonT(30)
  <1>4. JobIs(j, "PENDING", job[j].tracked, job[j].finalize, job[j].approval,
              job[j].outrun \/ task[j] # req[h].task)
    BY <1>0, <1>3, SetJobIs
  <1>5. TaskIs(j, IF task[j].status = "FAILED" THEN "PENDING" ELSE task[j].status,
               task[j].isValid, task[j].checksums, task[j].summary)
    BY <1>0 DEF SoftReset, SetTask, TaskIs, TypeInv, TypeOK, Task
  <1> QED  BY <1>4, <1>5 DEF SoftReset

(* The second write of the hard reset.                                     *)
LEMMA HardResetJobIs ==
    ASSUME TypeInv, NEW h \in Handlers, NEW j, j = req[h].job, HardResetJob(h)
    PROVE  /\ Awaiting(h, "retry", "updateJob") /\ LastWrite(h)
           /\ JobIs(j, "PENDING", job[j].tracked, job[j].finalize, job[j].approval,
                    job[j].outrun \/ task[j] # ResetTask(req[h]))
           /\ task' = task /\ ran' = ran /\ UNCHANGED <<catalog, entity, shapefile>>
  <1>0. j \in Jobs /\ job[j] \in Job  BY WritingJob DEF Writing, TypeInv, TypeOK
  <1> DEFINE b == task[j] # ResetTask(req[h])
  <1>1. ResetJob(j, b)  BY DEF HardResetJob
  <1>2. b \in BOOLEAN  OBVIOUS
  <1> HIDE DEF b
  <1>3. PICK r \in Job : /\ SetJob(j, r)
                         /\ r.status = "PENDING" /\ r.outrun = (job[j].outrun \/ b)
                         /\ r.product = job[j].product /\ r.version = job[j].version
                         /\ r.approval = job[j].approval /\ r.tracked = job[j].tracked
                         /\ r.finalize = job[j].finalize
    BY <1>0, <1>1, <1>2, ResetIs
  <1>4. JobIs(j, "PENDING", job[j].tracked, job[j].finalize, job[j].approval, job[j].outrun \/ b)
    BY <1>0, <1>3, SetJobIs
  <1> QED  BY <1>4 DEF HardResetJob, b

(* Its first write.                                                        *)
LEMMA HardResetTaskIs ==
    ASSUME TypeInv, NEW h \in Handlers, NEW j, j = req[h].job, HardResetTask(h)
    PROVE  /\ Awaiting(h, "retry", "updateTask") /\ WriteThen(h, "updateJob")
           /\ SameJob(j)
           /\ TaskIs(j, "PENDING", req[h].task.isValid,
                     IF req[h].task.status = "COMPLETED"
                       THEN buildUpdatedChecksums(req[h].task.checksums, req[h].read)
                       ELSE req[h].task.checksums,
                     NoSummary)
           /\ ran' = ran /\ UNCHANGED <<catalog, entity, shapefile>>
  <1>0. j \in Jobs  BY WritingJob DEF Writing
  <1> QED  BY <1>0 DEF HardResetTask, ResetTask, SetTask, BlankTask, TaskIs, SameJob, TypeInv, TypeOK

(* The writes of a bypass.                                                 *)
LEMMA BypassUpdateTaskIs ==
    ASSUME TypeInv, NEW h \in Handlers, NEW j, j = req[h].job, BypassUpdateTask(h)
    PROVE  /\ Awaiting(h, "bypass", "updateTask") /\ WroteThen(h, "updateJob")
           /\ SameJob(j)
           /\ TaskIs(j, task[j].status, TRUE, req[h].task.checksums, req[h].task.summary)
           /\ ran' = ran /\ UNCHANGED <<catalog, entity, shapefile>>
  <1>0. j \in Jobs  BY WritingJob DEF Writing
  <1> QED  BY <1>0 DEF BypassUpdateTask, SetTask, TaskIs, SameJob, TypeInv, TypeOK, Task

(* Its write of the job.                                                   *)
LEMMA BypassUpdateJobIs ==
    ASSUME TypeInv, NEW h \in Handlers, NEW j, j = req[h].job, BypassUpdateJob(h)
    PROVE  /\ Awaiting(h, "bypass", "updateJob") /\ WriteThen(h, "notify")
           /\ JobIs(j, "IN_PROGRESS", job[j].tracked, job[j].finalize, req[h].allowed, job[j].outrun)
           /\ task' = task /\ ran' = ran /\ UNCHANGED <<catalog, entity, shapefile>>
  <1>0. j \in Jobs /\ job[j] \in Job /\ req[h].allowed \in AllowedLists \cup {{}}
    BY WritingJob DEF Writing, TypeInv, TypeOK, Request
  <1>1. PICK r \in Job : /\ SetJob(j, r)
                         /\ r.status = "IN_PROGRESS" /\ r.approval = req[h].allowed
                         /\ r.product = job[j].product /\ r.version = job[j].version
                         /\ r.tracked = job[j].tracked /\ r.finalize = job[j].finalize
                         /\ r.outrun = job[j].outrun
    BY <1>0, ApprovalIs
  <1>2. JobIs(j, "IN_PROGRESS", job[j].tracked, job[j].finalize, req[h].allowed, job[j].outrun)
    BY <1>0, <1>1, SetJobIs
  <1> QED  BY <1>2 DEF BypassUpdateJob

(* The notification.                                                       *)
LEMMA BypassNotifyIs ==
    ASSUME TypeInv, NEW h \in Handlers, NEW j, j = req[h].job, BypassNotify(h)
    PROVE  /\ Awaiting(h, "bypass", "notify") /\ LastWrite(h)
           /\ job'[j].status = job[j].status /\ job'[j].tracked
           /\ job'[j].finalize = job[j].finalize /\ job'[j].approval = job[j].approval
           /\ job'[j].outrun = job[j].outrun /\ job'[j].product = job[j].product
           /\ job'[j].version = job[j].version
           /\ task' = task /\ ran' = ran /\ revived' = revived
           /\ UNCHANGED <<catalog, entity, shapefile>>
  <1>0. j \in Jobs /\ job[j] \in Job  BY WritingJob DEF Writing, TypeInv, TypeOK
  <1> QED  BY <1>0 DEF BypassNotify, TypeInv, TypeOK, Job

(* The abort.                                                              *)
LEMMA AbortJobIs ==
    ASSUME TypeInv, NEW h \in Handlers, NEW j, j = req[h].job, AbortJob(h)
    PROVE  /\ Awaiting(h, "abort", "abortJob") /\ WriteThen(h, "deleteEntity")
           /\ StatusIs(j, "ABORTED")
           /\ TaskIs(j, IF task[j].status = "COMPLETED" THEN "COMPLETED" ELSE "ABORTED",
                     task[j].isValid, task[j].checksums, task[j].summary)
           /\ ran' = ran /\ UNCHANGED <<catalog, entity, shapefile>>
  <1>0. j \in Jobs  BY WritingJob DEF Writing
  <1>1. StatusIs(j, "ABORTED")  BY <1>0, SetStatusIs DEF AbortJob
  <1>2. TaskIs(j, IF task[j].status = "COMPLETED" THEN "COMPLETED" ELSE "ABORTED",
               task[j].isValid, task[j].checksums, task[j].summary)
    BY <1>0 DEF AbortJob, SetTask, TaskIs, TypeInv, TypeOK, Task
  <1> QED  BY <1>1, <1>2 DEF AbortJob

(* A validation run ends.                                                  *)
LEMMA FinishIs ==
    ASSUME TypeInv, NEW j \in Jobs, NEW s \in Summaries, FinishValidation(j, s)
    PROVE  /\ task[j].status = "IN_PROGRESS" /\ job[j].status = "IN_PROGRESS" /\ s \in Summary
           /\ JobIs(j, IF s.counted = {} THEN "IN_PROGRESS" ELSE "SUSPENDED", s.counted = {},
                    job[j].finalize, job[j].approval, job[j].outrun)
           /\ TaskIs(j, "COMPLETED", s.counted = {}, task[j].checksums, s)
           /\ ran'[j] = [summary |-> s, checksums |-> Checksums(Product(j))]
           /\ entity' = [entity EXCEPT ![Product(j)] = j]
           /\ req' = req /\ UNCHANGED <<catalog, shapefile>>
  <1> DEFINE clean == s.counted = {}
             st == IF clean THEN "IN_PROGRESS" ELSE "SUSPENDED"
             r == [job[j] EXCEPT !.status = st, !.tracked = clean]
  <1>1. /\ r.status = st /\ r.product = job[j].product /\ r.version = job[j].version
        /\ r.tracked = clean /\ r.finalize = job[j].finalize
        /\ r.approval = job[j].approval /\ r.outrun = job[j].outrun
    BY DEF TypeInv, TypeOK, Job
  <1>2. SetJob(j, r)  BY DEF FinishValidation
  <1>3. JobIs(j, st, clean, job[j].finalize, job[j].approval, job[j].outrun)
    <2> HIDE DEF r, st, clean
    <2>1. JobIs(j, r.status, r.tracked, r.finalize, r.approval, r.outrun)  BY <1>1, <1>2, SetJobIs
    <2> QED  BY <1>1, <2>1
  <1>4. TaskIs(j, "COMPLETED", s.counted = {}, task[j].checksums, s)
    BY DEF FinishValidation, SetTask, TaskIs, TypeInv, TypeOK, Task
  <1>5. s \in Summary  BY StateAssumption
  <1>6. ran'[j] = [summary |-> s, checksums |-> Checksums(Product(j))]
    BY DEF FinishValidation, TypeInv, TypeOK
  <1> QED  BY <1>3, <1>4, <1>5, <1>6 DEF FinishValidation

(* The other steps of workers and of the job manager.                      *)
LEMMA WorkIs ==
    ASSUME TypeInv, NEW j \in Jobs
    PROVE  /\ StartValidation(j) =>
                 /\ job[j].status \in {"PENDING", "IN_PROGRESS"} /\ task[j].status = "PENDING"
                 /\ StatusIs(j, "IN_PROGRESS")
                 /\ TaskIs(j, "IN_PROGRESS", task[j].isValid, task[j].checksums, task[j].summary)
                 /\ ran' = ran /\ req' = req /\ UNCHANGED <<catalog, entity, shapefile>>
           /\ FailValidation(j) =>
                 /\ job[j].status = "IN_PROGRESS" /\ task[j].status = "IN_PROGRESS"
                 /\ StatusIs(j, "FAILED")
                 /\ TaskIs(j, "FAILED", task[j].isValid, task[j].checksums, task[j].summary)
                 /\ ran' = ran /\ req' = req /\ UNCHANGED <<catalog, entity, shapefile>>
           /\ Resume(j) =>
                 /\ job[j].status = "PENDING" /\ Validated(j) /\ StatusIs(j, "IN_PROGRESS")
                 /\ task' = task /\ ran' = ran /\ req' = req /\ UNCHANGED <<catalog, entity, shapefile>>
           /\ FailLater(j) =>
                 /\ job[j].status = "IN_PROGRESS" /\ Validated(j) /\ StatusIs(j, "FAILED")
                 /\ task' = task /\ ran' = ran /\ req' = req /\ UNCHANGED <<catalog, entity, shapefile>>
           /\ Complete(j) =>
                 /\ job[j].status = "IN_PROGRESS" /\ job[j].finalize /\ StatusIs(j, "COMPLETED")
                 /\ catalog' = [catalog EXCEPT ![Product(j)] = job[j].version]
                 /\ entity' = [entity EXCEPT ![Product(j)] =
                                  IF entity[Product(j)] = j THEN NoJob ELSE entity[Product(j)]]
                 /\ task' = task /\ ran' = ran /\ req' = req /\ UNCHANGED shapefile
           /\ Expire(j) =>
                 /\ "expire" \in Faults /\ Active(j) /\ StatusIs(j, "EXPIRED")
                 /\ task' = task /\ ran' = ran /\ req' = req /\ UNCHANGED <<catalog, entity, shapefile>>
  <1>1. ASSUME NEW st, task' = [task EXCEPT ![j].status = st]
        PROVE  TaskIs(j, st, task[j].isValid, task[j].checksums, task[j].summary)
    BY <1>1 DEF TaskIs, TypeInv, TypeOK, Task
  <1> QED
    BY <1>1, SetStatusIs DEF StartValidation, FailValidation, SetTask, Resume, FailLater, Complete, Expire

(* The finalize task is added.                                             *)
LEMMA AddFinalizeIs ==
    ASSUME TypeInv, NEW j \in Jobs, AddFinalize(j)
    PROVE  /\ job[j].status = "IN_PROGRESS" /\ Validated(j)
           /\ JobIs(j, "IN_PROGRESS", job[j].tracked, TRUE, job[j].approval, job[j].outrun)
           /\ task' = task /\ ran' = ran /\ req' = req /\ UNCHANGED <<catalog, entity, shapefile>>
  <1> DEFINE b == Aborting(j)
             r == [job[j] EXCEPT !.finalize = TRUE, !.overtook = b]
  <1>1. SetJob(j, r) /\ job[j].status = "IN_PROGRESS"  BY DEF AddFinalize
  <1>2. /\ r.status = "IN_PROGRESS" /\ r.product = job[j].product /\ r.version = job[j].version
        /\ r.tracked = job[j].tracked /\ r.finalize = TRUE
        /\ r.approval = job[j].approval /\ r.outrun = job[j].outrun
    BY <1>1 DEF TypeInv, TypeOK, Job
  <1> HIDE DEF r
  <1>3. JobIs(j, r.status, r.tracked, r.finalize, r.approval, r.outrun)  BY <1>1, <1>2, SetJobIs
  <1> QED  BY <1>2, <1>3 DEF AddFinalize

(* A job is cleaned up: it keeps its status.                               *)
LEMMA CleanUpIs ==
    ASSUME TypeInv, NEW j \in Jobs, CleanUp(j)
    PROVE  /\ StatusIs(j, job[j].status)
           /\ task' = task /\ ran' = ran /\ req' = req /\ UNCHANGED <<catalog, entity, shapefile>>
  <1> DEFINE r == [job[j] EXCEPT !.cleaned = TRUE, !.stray = job[j].stray \/ Active(j)]
  <1>1. /\ r.status = job[j].status /\ r.product = job[j].product /\ r.version = job[j].version
        /\ r.tracked = job[j].tracked /\ r.finalize = job[j].finalize
        /\ r.approval = job[j].approval /\ r.outrun = job[j].outrun
    BY DEF TypeInv, TypeOK, Job
  <1>2. SetJob(j, r)  BY DEF CleanUp
  <1> HIDE DEF r
  <1>3. JobIs(j, r.status, r.tracked, r.finalize, r.approval, r.outrun)  BY <1>1, <1>2, SetJobIs
  <1> QED  BY <1>1, <1>3 DEF CleanUp, StatusIs

-----------------------------------------------------------------------------
(* A request after a step, field by field.                                 *)

(* It goes on to the call at, with these of its fields.                    *)
Moved(h, at, status, t, version, read) ==
    /\ req'[h].op = req[h].op /\ req'[h].product = req[h].product
    /\ req'[h].job = req[h].job /\ req'[h].allowed = req[h].allowed
    /\ req'[h].at = at
    /\ req'[h].status = status
    /\ req'[h].task = t
    /\ req'[h].version = version
    /\ req'[h].read = read
    /\ \A g \in Handlers : g # h => req'[g] = req[g]

(* It only goes on.                                                        *)
MovedTo(h, at) == Moved(h, at, req[h].status, req[h].task, req[h].version, req[h].read)

(* It is answered.                                                         *)
Gone(h) ==
    /\ req'[h].at = "idle" /\ req'[h].op = "none"
    /\ \A g \in Handlers : g # h => req'[g] = req[g]

(* Answers, and steps that only go on.                                     *)
LEMMA GoingIs ==
    ASSUME TypeInv, NEW h \in Handlers
    PROVE  /\ Ends(h) => Gone(h)
           /\ \A error : Respond(h, error) => Gone(h)
           /\ MaybeLost(h) => Gone(h)
           /\ LastWrite(h) => Gone(h)
           /\ \A at : GoTo(h, at) \/ WroteThen(h, at) => MovedTo(h, at)
           /\ \A at : WriteThen(h, at) => MovedTo(h, at) \/ Gone(h)
  <1>1. Ends(h) => Gone(h)  BY DEF Ends, Idle, Gone, TypeInv, TypeOK
  <1>2. ASSUME NEW at, GoTo(h, at)  PROVE MovedTo(h, at)
    BY <1>2 DEF GoTo, Proceed, MovedTo, Moved, TypeInv, TypeOK, Request
  <1>3. ASSUME NEW at, WroteThen(h, at)  PROVE MovedTo(h, at)
    BY <1>3 DEF WroteThen, Proceed, MovedTo, Moved, TypeInv, TypeOK, Request
  <1> QED  BY <1>1, <1>2, <1>3, Answering DEF WriteThen

(* Arrivals.                                                               *)
LEMMA ArrivingIs ==
    ASSUME TypeInv, NEW h \in Handlers, Receive(h)
    PROVE  /\ req[h].at = "idle" /\ UNCHANGED <<remote, history>>
           /\ \A g \in Handlers : g # h => req'[g] = req[g]
           /\ req'[h].read = {}
           /\ \/ req'[h].op = "new" /\ req'[h].at = "inputFiles" /\ req'[h].version = 1
                 /\ req'[h].product \in Products
              \/ req'[h].op = "update" /\ req'[h].at = "findById" /\ req'[h].product \in Products
              \/ /\ req'[h].op \in JobOps /\ req'[h].at = "getJob" /\ req'[h].job \in Jobs
                 /\ Exists(req'[h].job) /\ req'[h].product = Product(req'[h].job)
                 /\ req'[h].op = "bypass" => req'[h].allowed \in AllowedLists
  <1> DEFINE Others == \A g \in Handlers : g # h => req'[g] = req[g]
             Blank == req'[h].read = {}
  <1>1. ASSUME NEW p \in Products, ReceiveNew(h, p)
        PROVE  /\ Others /\ Blank /\ req'[h].op = "new" /\ req'[h].at = "inputFiles"
               /\ req'[h].version = 1 /\ req'[h].product \in Products
    BY <1>1 DEF ReceiveNew, Proceed, Idle, TypeInv, TypeOK
  <1>2. ASSUME NEW p \in Products, ReceiveUpdate(h, p)
        PROVE  /\ Others /\ Blank /\ req'[h].op = "update" /\ req'[h].at = "findById"
               /\ req'[h].product \in Products
    BY <1>2 DEF ReceiveUpdate, Proceed, Idle, TypeInv, TypeOK
  <1>3. ASSUME NEW op \in JobOps, NEW j \in Jobs, NEW a, ReceiveForJob(h, op, j, a)
        PROVE  /\ Others /\ Blank /\ req'[h].op = op /\ req'[h].at = "getJob" /\ req'[h].job = j
               /\ req'[h].product = Product(j) /\ req'[h].allowed = a /\ Exists(j)
    BY <1>3 DEF ReceiveForJob, Proceed, Idle, TypeInv, TypeOK
  <1>4. {"retry", "bypass", "abort"} = JobOps  BY DEF JobOps
  <1>5. req[h].at = "idle" /\ UNCHANGED <<remote, history>>
    BY DEF Receive, ReceiveNew, ReceiveUpdate, ReceiveForJob
  <1> QED  BY <1>1, <1>2, <1>3, <1>4, <1>5 DEF Receive

(* The steps of admissions that read.                                      *)
LEMMA AdmitReadIs ==
    ASSUME TypeInv, NEW h \in Handlers
    PROVE  /\ GetLayerMetadata(h) =>
                 /\ Awaiting(h, "update", "findById") /\ UNCHANGED <<remote, history>>
                 /\ \/ Gone(h)
                    \/ Moved(h, "inputFiles", req[h].status, req[h].task, catalog[req[h].product] + 1,
                             req[h].read)
           /\ CheckNoParallelJobs(h) =>
                 /\ req[h].at = "findJobs" /\ UNCHANGED <<remote, history>>
                 /\ Gone(h) \/ (Conflicting(req[h].product) = {} /\ MovedTo(h, "checksums"))
  <1> DEFINE v == catalog[req[h].product] + 1
             seen == {j \in Jobs : Exists(j) /\ Product(j) = req[h].product}
  <1>1. Proceed(h, [req[h] EXCEPT !.at = "inputFiles", !.version = v]) =>
          Moved(h, "inputFiles", req[h].status, req[h].task, v, req[h].read)
    BY DEF Proceed, Moved, TypeInv, TypeOK, Request
  <1>2. Proceed(h, [req[h] EXCEPT !.at = "checksums", !.checked = seen]) => MovedTo(h, "checksums")
    BY DEF Proceed, Moved, MovedTo, TypeInv, TypeOK, Request
  <1> QED  BY <1>1, <1>2, GoingIs DEF GetLayerMetadata, CheckNoParallelJobs

(* The steps of the other operations that read a job or its task.          *)
LEMMA JobReadIs ==
    ASSUME TypeInv, NEW h \in Handlers, NEW j, j = req[h].job
    PROVE  /\ RetryGetJob(h) =>
                 /\ Awaiting(h, "retry", "getJob") /\ UNCHANGED <<remote, history>>
                 /\ \/ Gone(h)
                    \/ /\ job[j].status \in Retryable
                       /\ Moved(h, "getTasks", job[j].status, req[h].task, req[h].version, req[h].read)
           /\ RetryGetTasks(h) =>
                 /\ Awaiting(h, "retry", "getTasks") /\ UNCHANGED <<remote, history>>
                 /\ Moved(h, IF task[j].isValid THEN "resetJob" ELSE "deleteEntity", req[h].status,
                          task[j], req[h].version, req[h].read)
           /\ BypassGetJob(h) =>
                 /\ Awaiting(h, "bypass", "getJob") /\ UNCHANGED <<remote, history>>
                 /\ Moved(h, "getTasks", job[j].status, req[h].task, req[h].version, req[h].read)
           /\ BypassGetTasks(h) =>
                 /\ Awaiting(h, "bypass", "getTasks") /\ UNCHANGED <<remote, history>>
                 /\ \/ Gone(h)
                    \/ /\ CanBypass(task[j], req[h].status, req[h].allowed)
                       /\ Moved(h, "filesExist", req[h].status, task[j], req[h].version, req[h].read)
           /\ AbortGetJob(h) =>
                 /\ Awaiting(h, "abort", "getJob") /\ UNCHANGED <<remote, history>>
                 /\ \/ Gone(h)
                    \/ /\ job[j].status \notin Unabortable
                       /\ Moved(h, "getTasks", job[j].status, req[h].task, req[h].version, req[h].read)
  <1>1. \A s : Proceed(h, [req[h] EXCEPT !.at = "getTasks", !.status = s]) =>
                  Moved(h, "getTasks", s, req[h].task, req[h].version, req[h].read)
    BY DEF Proceed, Moved, TypeInv, TypeOK, Request
  <1>2. \A t, at : Proceed(h, [req[h] EXCEPT !.task = t, !.at = at]) =>
                      Moved(h, at, req[h].status, t, req[h].version, req[h].read)
    BY DEF Proceed, Moved, TypeInv, TypeOK, Request
  <1>3. \A t, at : Proceed(h, [req[h] EXCEPT !.at = at, !.task = t]) =>
                      Moved(h, at, req[h].status, t, req[h].version, req[h].read)
    BY DEF Proceed, Moved, TypeInv, TypeOK, Request
  <1> QED
    BY <1>1, <1>2, <1>3, GoingIs
       DEF RetryGetJob, RetryGetTasks, BypassGetJob, BypassGetTasks, AbortGetJob

(* The files are read one by one; with the last one the handler decides.   *)
MoreToRead(read) == \E g \in ShapeFiles : \A c \in read : c[1] # g

(* What reading one file does to the request.                              *)
LEMMA ChecksumIs ==
    ASSUME TypeInv, NEW h \in Handlers, NEW f \in ShapeFiles, GetFileChecksum(h, f)
    PROVE  LET read == req[h].read \cup {ChecksumOf(req[h].product, f)}
               t == req[h].task
               Goes(at) == Moved(h, at, req[h].status, t, req[h].version, read) IN
           /\ req[h].at = "checksums" /\ UNCHANGED <<remote, history>>
           /\ \A c \in req[h].read : c[1] # f
           /\ \/ MoreToRead(read) /\ Goes("checksums")
              \/ Gone(h)
              \/ /\ ~MoreToRead(read) /\ req[h].op = "retry" /\ Goes("updateTask")
                 /\ t.status = "COMPLETED" => isChecksumChanged(t.checksums, read)
              \/ /\ ~MoreToRead(read) /\ req[h].op = "bypass" /\ Goes("updateTask")
                 /\ ~isChecksumChanged(t.checksums, read)
              \/ /\ ~MoreToRead(read) /\ req[h].op \notin {"retry", "bypass"} /\ Goes("createJob")
  <1> DEFINE read == req[h].read \cup {ChecksumOf(req[h].product, f)}
             t == req[h].task
             Goes(at) == Moved(h, at, req[h].status, t, req[h].version, read)
  <1>1. req[h].at = "checksums" => (Proceed(h, [req[h] EXCEPT !.read = read]) => Goes("checksums"))
    BY DEF Proceed, Moved, TypeInv, TypeOK, Request
  <1>2. \A at : Proceed(h, [req[h] EXCEPT !.at = at, !.read = read]) => Goes(at)
    BY DEF Proceed, Moved, TypeInv, TypeOK, Request
  <1> HIDE DEF Goes
  <1>3. \/ MoreToRead(read) /\ Goes("checksums")
        \/ Gone(h)
        \/ /\ ~MoreToRead(read) /\ req[h].op = "retry" /\ Goes("updateTask")
           /\ t.status = "COMPLETED" => isChecksumChanged(t.checksums, read)
        \/ /\ ~MoreToRead(read) /\ req[h].op = "bypass" /\ Goes("updateTask")
           /\ ~isChecksumChanged(t.checksums, read)
        \/ /\ ~MoreToRead(read) /\ req[h].op \notin {"retry", "bypass"} /\ Goes("createJob")
    BY <1>1, <1>2, GoingIs DEF GetFileChecksum, RetryDecision, BypassDecision, MoreToRead
  <1> QED  BY <1>3 DEF GetFileChecksum, Goes

(* A step of a request is on that request alone.                           *)
LEMMA ActsOn ==
    ASSUME TypeInv, NEW g \in Handlers, Receive(g) \/ Step(g)
    PROVE  Ends(g) \/ \E r : Proceed(g, r)
  <1>1. CASE Receive(g)  BY <1>1 DEF Receive, ReceiveNew, ReceiveUpdate, ReceiveForJob
  <1>2. CASE Step(g)
    BY <1>2, StepKinds DEF Continues, FirstRead, CheckNoParallelJobs, RetryGetJob, BypassGetJob,
       BypassGetTasks, AbortGetJob, Respond, Proceed
  <1> QED  BY <1>1, <1>2

(* Workers, users and the job manager leave requests alone.                *)
LEMMA WorldAsksNothing ==
    ASSUME WorldNext
    PROVE  req' = req
  BY DEF WorldNext, WorkerNext, StartValidation, FinishValidation, FailValidation, Resume, FailLater,
     AddFinalize, Publish, Complete, Expire, CleanUp, EditFile

-----------------------------------------------------------------------------
(* The inductive invariant of wedged jobs.  It says where the outcome of a *)
(* validation run is remembered, that a clean one was made known to the    *)
(* tracker, and that an aborted task under an active job means that the    *)
(* job came back.                                                          *)
Cause(j) ==
    \/ job[j].approval # NotApproved
    \/ task[j].isValid /\ ran[j].summary.counted # {}
    \/ j \in revived
    \/ job[j].outrun

Healing(j) ==
    /\ ~Exists(j) => ran[j].summary = NoSummary
    /\ ran[j].summary # NoSummary /\ ran[j].summary.counted = {} => job[j].tracked
    /\ task[j].status = "COMPLETED" => ran[j].summary # NoSummary
    /\ task[j].status = "ABORTED" /\ Active(j) => j \in revived
    /\ Wedged(j) => Cause(j)

(* A retry that will reset the job softly read a valid task; a bypass      *)
(* carries a list.                                                         *)
Heals(r) ==
    /\ r.op = "retry" /\ r.at = "resetJob" => r.task.isValid
    /\ r.op = "bypass" => r.allowed \in AllowedLists

HealInv == (\A j \in Jobs : Healing(j)) /\ (\A h \in Handlers : Heals(req[h]))

(* The writes of requests leave a job healing.                             *)
LEMMA WritesHeal ==
    ASSUME TypeInv, RequestsFormed, HealInv, NEW h \in Handlers, NEW j, j = req[h].job, Writing(h)
    PROVE  Healing(j)'
  <1>0. /\ j \in Jobs /\ Healing(j) /\ Heals(req[h]) /\ Exists(j)
        /\ job[j] \in Job /\ task[j] \in Task
    BY WritingJob DEF HealInv, RequestsFormed, Writing, SoftReset, HardResetTask, HardResetJob,
       BypassUpdateTask, BypassUpdateJob, BypassNotify, AbortJob, Awaiting, JobOps, TypeInv, TypeOK
  <1> USE DEF Healing, Wedged, Validated, Cause, Exists, Active, Blocking
  <1>1. CASE SoftReset(h)
    <2>1. job[j].outrun \/ (task[j] = req[h].task /\ task[j].isValid) \/ job'[j].outrun
      BY <1>0, <1>1, SoftResetIs DEF JobIs, Heals, Awaiting
    <2>2. /\ job'[j].status = "PENDING" /\ job'[j].tracked = job[j].tracked
          /\ job'[j].approval = job[j].approval /\ (job[j].outrun => job'[j].outrun)
          /\ j \in revived \/ job[j].status \notin Blocking => j \in revived'
      BY <1>0, <1>1, SoftResetIs DEF JobIs
    <2>3. /\ task'[j].isValid = task[j].isValid /\ ran'[j] = ran[j]
          /\ task'[j].status = (IF task[j].status = "FAILED" THEN "PENDING" ELSE task[j].status)
      BY <1>0, <1>1, SoftResetIs DEF TaskIs
    <2> QED  BY <1>0, <2>1, <2>2, <2>3 DEF Task, TaskStatuses
  <1>2. CASE HardResetTask(h)
    BY <1>0, <1>2, HardResetTaskIs DEF SameJob, TaskIs
  <1>3. CASE HardResetJob(h)
    <2>1. /\ job'[j].status = "PENDING" /\ job'[j].tracked = job[j].tracked
          /\ job'[j].approval = job[j].approval /\ task'[j] = task[j] /\ ran'[j] = ran[j]
          /\ j \in revived \/ job[j].status \notin Blocking => j \in revived'
      BY <1>0, <1>3, HardResetJobIs DEF JobIs
    <2>2. task[j] # ResetTask(req[h]) => job'[j].outrun  BY <1>0, <1>3, HardResetJobIs DEF JobIs
    <2>3. ResetTask(req[h]).status = "PENDING"  BY DEF ResetTask, BlankTask
    <2>4. task[j].status = "PENDING" \/ job'[j].outrun  BY <2>2, <2>3
    <2> QED  BY <1>0, <2>1, <2>4
  <1>4. CASE BypassUpdateTask(h)
    BY <1>0, <1>4, BypassUpdateTaskIs DEF SameJob, TaskIs
  <1>5. CASE BypassUpdateJob(h)
    <2>1. req[h].allowed # NotApproved
      BY <1>0, <1>5, BypassUpdateJobIs, StateAssumption DEF Heals, Awaiting
    <2> QED  BY <1>0, <1>5, <2>1, BypassUpdateJobIs DEF JobIs
  <1>6. CASE BypassNotify(h)
    BY <1>0, <1>6, BypassNotifyIs
  <1>7. CASE AbortJob(h)
    BY <1>0, <1>7, AbortJobIs DEF StatusIs, JobIs, TaskIs
  <1> QED  BY <1>1, <1>2, <1>3, <1>4, <1>5, <1>6, <1>7 DEF Writing

(* So do those of workers,                                                 *)
LEMMA WorkHeals ==
    ASSUME TypeInv, HealInv, NEW j \in Jobs, WorkOn(j)
    PROVE  Healing(j)'
  <1>0. Healing(j) /\ job[j] \in Job /\ task[j] \in Task  BY DEF HealInv, TypeInv, TypeOK
  <1> USE DEF Healing, Wedged, Validated, Cause, Exists, Active, Blocking
  <1>1. CASE StartValidation(j)  BY <1>0, <1>1, WorkIs DEF StatusIs, JobIs, TaskIs
  <1>2. ASSUME NEW s \in Summaries, FinishValidation(j, s)  PROVE Healing(j)'
    <2>1. s # NoSummary  BY StateAssumption
    <2>2. /\ job'[j].status = (IF s.counted = {} THEN "IN_PROGRESS" ELSE "SUSPENDED")
          /\ job'[j].tracked <=> s.counted = {}
          /\ job'[j].approval = job[j].approval /\ (j \in revived => j \in revived')
      BY <1>2, FinishIs DEF JobIs
    <2>3. /\ task'[j].status = "COMPLETED"
          /\ task'[j].isValid = (s.counted = {})
      BY <1>2, FinishIs DEF TaskIs
    <2>4. ran'[j].summary = s
      <3>1. ran'[j] = [summary |-> s, checksums |-> Checksums(Product(j))]  BY <1>2, FinishIs
      <3> QED  BY <3>1
    <2> QED  BY <2>1, <2>2, <2>3, <2>4
  <1>3. CASE FailValidation(j)  BY <1>0, <1>3, WorkIs DEF StatusIs, JobIs, TaskIs
  <1>4. CASE Resume(j)  BY <1>0, <1>4, WorkIs DEF StatusIs, JobIs
  <1>5. CASE FailLater(j)  BY <1>0, <1>5, WorkIs DEF StatusIs, JobIs
  <1>6. CASE AddFinalize(j)  BY <1>0, <1>6, AddFinalizeIs DEF JobIs
  <1>7. CASE Complete(j)  BY <1>0, <1>7, WorkIs DEF StatusIs, JobIs
  <1>8. CASE Expire(j)  BY <1>0, <1>8, WorkIs DEF StatusIs, JobIs
  <1>9. CASE CleanUp(j)  BY <1>0, <1>9, CleanUpIs DEF StatusIs, JobIs
  <1> QED  BY <1>1, <1>2, <1>3, <1>4, <1>5, <1>6, <1>7, <1>8, <1>9 DEF WorkOn

(* and every other step.                                                   *)
LEMMA JobsHeal ==
    ASSUME TypeInv, RequestsFormed, HealInv, [Next]_vars, NEW j \in Jobs
    PROVE  Healing(j)'
  <1>0. Healing(j)  BY DEF HealInv
  <1> USE DEF Healing, Wedged, Validated, Cause, Exists, Active, Blocking
  <1>1. CASE Untouched(j)  BY <1>0, <1>1 DEF Untouched, SameJob
  <1>2. ASSUME NEW h \in Handlers, CreateJob(h, j)  PROVE Healing(j)'
    BY <1>0, <1>2, CreateIs DEF TaskIs
  <1>3. ASSUME NEW h \in Handlers, req[h].job = j, Writing(h)  PROVE Healing(j)'
    BY <1>3, WritesHeal
  <1> QED  BY <1>1, <1>2, <1>3, WorkHeals, TouchedBy

(* What a request may do without a look at the tasks.                      *)
LEMMA RequestsHeal ==
    ASSUME TypeInv, RequestsFormed, HealInv, [Next]_vars, NEW h \in Handlers
    PROVE  Heals(req[h])'
  <1>0. Heals(req[h]) /\ Formed(req[h])  BY DEF HealInv, RequestsFormed
  <1> USE DEF Heals
  <1>1. CASE Gone(h)  BY <1>1 DEF Gone
  <1>2. CASE req'[h] = req[h]  BY <1>0, <1>2
  <1>3. ASSUME NEW at, at # "resetJob", MovedTo(h, at)  PROVE Heals(req[h])'
    BY <1>0, <1>3 DEF MovedTo, Moved
  <1>4. CASE Receive(h)  BY <1>4, ArrivingIs DEF JobOps
  <1>5. CASE GetLayerMetadata(h) \/ CheckNoParallelJobs(h)
    BY <1>0, <1>1, <1>3, <1>5, AdmitReadIs DEF Moved
  <1>6. ASSUME NEW f \in ShapeFiles, GetFileChecksum(h, f)  PROVE Heals(req[h])'
    BY <1>0, <1>1, <1>6, ChecksumIs DEF Moved
  <1>7. CASE RetryGetJob(h) \/ RetryGetTasks(h) \/ BypassGetJob(h) \/ BypassGetTasks(h) \/ AbortGetJob(h)
    BY <1>0, <1>1, <1>7, JobReadIs DEF Moved, Awaiting
  <1>8. CASE ValidateInputFiles(h) \/ CheckMapProxy(h) \/ CheckCatalog(h) \/ RefuseJob(h)
             \/ CheckFilesExist(h) \/ (\E j \in Jobs : CreateJob(h, j)) \/ SoftReset(h) \/ RetryDeleteEntity(h)
             \/ HardResetTask(h) \/ HardResetJob(h) \/ BypassUpdateTask(h) \/ BypassUpdateJob(h)
             \/ BypassNotify(h) \/ AbortGetTasks(h) \/ AbortJob(h) \/ AbortDeleteEntity(h)
             \/ CallFails(h)
    <2>1. \/ \E error : Respond(h, error)
          \/ LastWrite(h) \/ MaybeLost(h)
          \/ \E at \in Awaits \ {"resetJob"} : GoTo(h, at) \/ WroteThen(h, at)
      BY <1>8 DEF ValidateInputFiles, CheckMapProxy, CheckCatalog, RefuseJob, CheckFilesExist, CreateJob,
         SoftReset, RetryDeleteEntity, HardResetTask, HardResetJob, BypassUpdateTask, BypassUpdateJob,
         BypassNotify, AbortGetTasks, AbortJob, AbortDeleteEntity, CallFails, WriteThen, Awaits
    <2> QED  BY <1>1, <1>3, <2>1, GoingIs
  <1>9. ASSUME NEW g \in Handlers, g # h, Receive(g) \/ Step(g)  PROVE req'[h] = req[h]
    <2>1. Ends(g) \/ \E r : Proceed(g, r)  BY <1>9, ActsOn
    <2> QED  BY <1>9, <2>1 DEF Ends, Proceed, TypeInv, TypeOK
  <1>10. CASE Crash  BY <1>10 DEF Crash, Idle
  <1>11. CASE WorldNext \/ UNCHANGED vars  BY <1>2, <1>11, WorldAsksNothing DEF vars
  <1>12. ASSUME NEW g \in Handlers, Receive(g) \/ Step(g)  PROVE Heals(req[h])'
    <2>1. CASE g # h  BY <1>2, <1>9, <1>12, <2>1
    <2>2. CASE g = h
      BY <1>4, <1>5, <1>6, <1>7, <1>8, <1>12, <2>2
         DEF Step, Admit, ReadFiles, Retry, Bypass, Abort
    <2> QED  BY <2>1, <2>2
  <1> QED  BY <1>10, <1>11, <1>12 DEF Next

(* HealInv holds when the service starts, when no job exists.              *)
LEMMA HealInit == Init => HealInv
  BY DEF Init, HealInv, Healing, Heals, Exists, Active, Blocking, Wedged, BlankJob, BlankTask, Idle

(* Whatever requests overlap, whatever fails and wherever the service      *)
(* restarts: a job that nobody but an abort can move got there by a bypass *)
(* that stopped half-way, by an overlap of two retries, or by a write that *)
(* brought it back after it was closed.                                    *)
THEOREM OnlyTheseWedge == Spec => []WedgedHasCause
  <1>1. HealInv => WedgedHasCause  BY DEF HealInv, Healing, Cause, WedgedHasCause
  <1>2. TypeInv /\ RequestsFormed /\ HealInv /\ [Next]_vars => HealInv'
    BY JobsHeal, RequestsHeal DEF HealInv
  <1> QED
    BY <1>1, <1>2, HealInit, TypeInvInit, TypeInvStep, FormedInit, FormedStep, PTL DEF Spec
=============================================================================
