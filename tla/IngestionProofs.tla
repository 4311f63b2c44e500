---------------------------- MODULE IngestionProofs ----------------------------
(***************************************************************************)
(* Proofs about IngestionManager for any number of products, jobs and      *)
(* request slots, any overlap of requests and any of the faults.           *)
(***************************************************************************)
EXTENDS IngestionProperties, TLAPS

JobOps == {"retry", "bypass", "abort"}

(* A request on a job knows its job.                                       *)
JobRequests == \A h \in Handlers : req[h].op \in JobOps => req[h].job \in Jobs

TypeInv == TypeOK /\ JobRequests

-----------------------------------------------------------------------------
(* The values every record starts from are well-typed.                     *)
LEMMA BlankTypes ==
    /\ BlankTask \in Task
    /\ BlankJob \in Job
    /\ Idle \in Request
  BY StateAssumption DEF BlankTask, BlankJob, Idle, Task, Job, Request, TaskStatuses, Statuses,
     Ops, Awaits, Answers

(* Updates of one field, or of a few, of a job record.                     *)
LEMMA JobUpdates ==
    ASSUME NEW r \in Job, NEW st \in Statuses, NEW b \in BOOLEAN
    PROVE  /\ [r EXCEPT !.status = st] \in Job
           /\ [r EXCEPT !.status = st, !.tracked = b] \in Job
  BY DEF Job

(* Updates of one flag of a job record.                                    *)
LEMMA JobFlags ==
    ASSUME NEW r \in Job, NEW b \in BOOLEAN
    PROVE  /\ [r EXCEPT !.tracked = b] \in Job
           /\ [r EXCEPT !.finalize = TRUE, !.overtook = b] \in Job
           /\ [r EXCEPT !.cleaned = TRUE, !.stray = b] \in Job
  BY DEF Job

(* The reset of a job: its record but for the status and the history.      *)
LEMMA ResetIs ==
    ASSUME NEW j \in Jobs, job[j] \in Job, NEW b \in BOOLEAN, ResetJob(j, b)
    PROVE  \E r \in Job :
              /\ SetJob(j, r)
              /\ r.status = "PENDING" /\ r.outrun = (job[j].outrun \/ b)
              /\ r.product = job[j].product /\ r.version = job[j].version
              /\ r.approval = job[j].approval /\ r.tracked = job[j].tracked
              /\ r.finalize = job[j].finalize /\ r.overtook = job[j].overtook
              /\ r.cleaned = job[j].cleaned /\ r.stray = (job[j].stray \/ job[j].cleaned)
  <1> DEFINE r == [job[j] EXCEPT !.status = "PENDING", !.stray = job[j].stray \/ job[j].cleaned,
                                 !.outrun = job[j].outrun \/ b]
  <1>1. SetJob(j, r)  BY DEF ResetJob
  <1>2. (job[j].outrun \/ b) \in BOOLEAN /\ (job[j].stray \/ job[j].cleaned) \in BOOLEAN
    OBVIOUS
  <1>3. r \in Job  BY <1>2 DEF Job, Statuses, Blocking
  <1>4. /\ r.status = "PENDING" /\ r.outrun = (job[j].outrun \/ b)
        /\ r.product = job[j].product /\ r.version = job[j].version
        /\ r.approval = job[j].approval /\ r.tracked = job[j].tracked
        /\ r.finalize = job[j].finalize /\ r.overtook = job[j].overtook
        /\ r.cleaned = job[j].cleaned /\ r.stray = (job[j].stray \/ job[j].cleaned)
    BY DEF Job
  <1> HIDE DEF r
  <1> QED  BY <1>1, <1>3, <1>4

(* The approval of a job by a bypass, likewise.                            *)
LEMMA ApprovalIs ==
    ASSUME NEW h \in Handlers, req[h].job \in Jobs, job[req[h].job] \in Job,
           req[h].allowed \in AllowedLists \cup {{}}, BypassUpdateJob(h)
    PROVE  \E r \in Job :
              LET q == job[req[h].job] IN
              /\ SetJob(req[h].job, r)
              /\ r.status = "IN_PROGRESS" /\ r.approval = req[h].allowed
              /\ r.product = q.product /\ r.version = q.version
              /\ r.tracked = q.tracked /\ r.outrun = q.outrun
              /\ r.finalize = q.finalize /\ r.overtook = q.overtook
              /\ r.cleaned = q.cleaned /\ r.stray = (q.stray \/ q.cleaned)
  <1> DEFINE q == job[req[h].job]
             r == [q EXCEPT !.status = "IN_PROGRESS", !.stray = q.stray \/ q.cleaned,
                            !.approval = req[h].allowed]
  <1>1. SetJob(req[h].job, r)  BY DEF BypassUpdateJob
  <1>2. (q.stray \/ q.cleaned) \in BOOLEAN  OBVIOUS
  <1>3. r \in Job  BY <1>2, ZenonT(40) DEF Job, Statuses, Blocking
  <1>4. /\ r.status = "IN_PROGRESS" /\ r.approval = req[h].allowed
        /\ r.product = q.product /\ r.version = q.version
        /\ r.tracked = q.tracked /\ r.outrun = q.outrun
        /\ r.finalize = q.finalize /\ r.overtook = q.overtook
        /\ r.cleaned = q.cleaned /\ r.stray = (q.stray \/ q.cleaned)
    BY DEF Job
  <1> HIDE DEF r
  <1> QED  BY <1>1, <1>3, <1>4

(* Both ways of a retry to reset its job.                                  *)
LEMMA RetryResets ==
    ASSUME NEW h \in Handlers, SoftReset(h) \/ HardResetJob(h)
    PROVE  \E b \in BOOLEAN : ResetJob(req[h].job, b)
  BY DEF SoftReset, HardResetJob

(* Updates of a task record.                                               *)
LEMMA TaskUpdates ==
    ASSUME NEW r \in Task, NEW st \in TaskStatuses, NEW b \in BOOLEAN,
           NEW s \in Summary \cup {NoSummary}, NEW cs \in SUBSET Checksum
    PROVE  /\ [r EXCEPT !.status = st] \in Task
           /\ [r EXCEPT !.status = st, !.isValid = b, !.summary = s] \in Task
           /\ [r EXCEPT !.isValid = b, !.checksums = cs, !.summary = s] \in Task
  BY DEF Task

(* How a step of a request ends: it is answered, or it goes on to another  *)
(* await, having written or not.                                           *)
Ends(h) == \E st \in Answers : req' = [req EXCEPT ![h] = [Idle EXCEPT !.answer = st]]
GoesOn(h, at) == \E b \in BOOLEAN : Proceed(h, [req[h] EXCEPT !.at = at, !.wrote = b])

(* Respond, MaybeLost and LastWrite end the request.                       *)
LEMMA Answering ==
    \A h \in Handlers : /\ \A error : Respond(h, error) => Ends(h)
                        /\ MaybeLost(h) => Ends(h)
                        /\ LastWrite(h) => Ends(h)
  <1>1. \A op, error : StatusOf(op, error) \in Answers  BY DEF StatusOf, Answers
  <1> QED  BY <1>1 DEF Respond, Ends, MaybeLost, LastWrite

(* GoTo, WroteThen and WriteThen go on to another await, or end.           *)
LEMMA Moving ==
    ASSUME TypeInv
    PROVE  \A h \in Handlers, at \in Awaits :
              /\ GoTo(h, at) => GoesOn(h, at)
              /\ WroteThen(h, at) => GoesOn(h, at)
              /\ WriteThen(h, at) => GoesOn(h, at) \/ Ends(h)
  <1> SUFFICES ASSUME NEW h \in Handlers, NEW at \in Awaits
               PROVE  /\ GoTo(h, at) => GoesOn(h, at)
                      /\ WroteThen(h, at) => GoesOn(h, at)
                      /\ WriteThen(h, at) => GoesOn(h, at) \/ Ends(h)
    OBVIOUS
  <1>1. req[h] \in Request  BY DEF TypeInv, TypeOK
  <1>2. [req[h] EXCEPT !.at = at] = [req[h] EXCEPT !.at = at, !.wrote = req[h].wrote]
    BY <1>1 DEF Request
  <1>3. req[h].wrote \in BOOLEAN  BY <1>1 DEF Request
  <1>4. GoTo(h, at) => GoesOn(h, at)  BY <1>2, <1>3 DEF GoTo, GoesOn
  <1>5. WroteThen(h, at) => GoesOn(h, at)  BY DEF WroteThen, GoesOn
  <1> QED  BY <1>4, <1>5, Answering DEF WriteThen

(* Answering a request keeps the requests well-typed.                      *)
LEMMA RespondType ==
    ASSUME TypeInv, NEW h \in Handlers, Ends(h)
    PROVE  req' \in [Handlers -> Request] /\ JobRequests'
  <1>1. \A st \in Answers : /\ [Idle EXCEPT !.answer = st] \in Request
                            /\ [Idle EXCEPT !.answer = st].op \notin JobOps
    BY BlankTypes DEF Request, Idle, JobOps
  <1>2. PICK st \in Answers : req' = [req EXCEPT ![h] = [Idle EXCEPT !.answer = st]]  BY DEF Ends
  <1> QED  BY <1>1, <1>2 DEF TypeInv, TypeOK, JobRequests

(* A request that runs on keeps the requests well-typed.                   *)
LEMMA ProceedType ==
    ASSUME TypeInv, NEW h \in Handlers, NEW r \in Request, r.op \in JobOps => r.job \in Jobs,
           Proceed(h, r)
    PROVE  req' \in [Handlers -> Request] /\ JobRequests'
  BY DEF TypeInv, TypeOK, JobRequests, Proceed

(* So does one that only moves to another await.                           *)
LEMMA GoToType ==
    ASSUME TypeInv, NEW h \in Handlers, NEW at \in Awaits, GoesOn(h, at)
    PROVE  req' \in [Handlers -> Request] /\ JobRequests'
  <1>1. PICK b \in BOOLEAN : Proceed(h, [req[h] EXCEPT !.at = at, !.wrote = b])  BY DEF GoesOn
  <1> DEFINE r == [req[h] EXCEPT !.at = at, !.wrote = b]
  <1>2. req[h] \in Request  BY DEF TypeInv, TypeOK
  <1>3. r \in Request /\ r.op = req[h].op /\ r.job = req[h].job  BY <1>2 DEF Request
  <1>4. r.op \in JobOps => r.job \in Jobs  BY <1>3 DEF TypeInv, JobRequests
  <1> QED  BY <1>1, <1>3, <1>4, ProceedType

(* A write of a job record keeps the records and the history well-typed.   *)
LEMMA SetJobType ==
    ASSUME TypeInv, NEW j \in Jobs, NEW r \in Job, SetJob(j, r)
    PROVE  job' \in [Jobs -> Job] /\ revived' \in SUBSET Jobs
  BY DEF TypeInv, TypeOK, SetJob

(* The checksums of a shapefile are checksums.                             *)
LEMMA ChecksumType ==
    ASSUME TypeInv, NEW p \in Products, NEW f \in ShapeFiles
    PROVE  ChecksumOf(p, f) \in Checksum /\ Checksums(p) \subseteq Checksum
  BY DEF TypeInv, TypeOK, ChecksumOf, Checksums, Checksum

-----------------------------------------------------------------------------
(* Type correctness, one lemma per kind of step.                           *)

(* The records of requests that arrive.                                    *)
LEMMA Arrivals ==
    ASSUME NEW q \in Request, NEW p \in Products
    PROVE  /\ [q EXCEPT !.op = "new", !.at = "inputFiles", !.product = p, !.version = 1] \in Request
           /\ [q EXCEPT !.op = "update", !.at = "findById", !.product = p] \in Request
           /\ \A op \in JobOps, j \in Jobs, a \in AllowedLists \cup {{}} :
                 [q EXCEPT !.op = op, !.at = "getJob", !.product = p, !.job = j, !.allowed = a] \in Request
  <1>1. "inputFiles" \in Awaits /\ "findById" \in Awaits /\ "getJob" \in Awaits  BY DEF Awaits
  <1>2. "new" \in Ops /\ "update" \in Ops /\ JobOps \subseteq Ops  BY DEF Ops, JobOps
  <1>3. [q EXCEPT !.op = "new", !.at = "inputFiles", !.product = p, !.version = 1] \in Request
    BY <1>1, <1>2 DEF Request
  <1>4. [q EXCEPT !.op = "update", !.at = "findById", !.product = p] \in Request
    BY <1>1, <1>2 DEF Request
  <1>5. ASSUME NEW op \in JobOps, NEW j \in Jobs, NEW a \in AllowedLists \cup {{}}
        PROVE  [q EXCEPT !.op = op, !.at = "getJob", !.product = p, !.job = j, !.allowed = a] \in Request
    BY <1>1, <1>2 DEF Request
  <1> QED  BY <1>3, <1>4, <1>5

(* Requests arrive well-typed.                                             *)
LEMMA ReceiveInv == ASSUME TypeInv, NEW h \in Handlers, Receive(h) PROVE TypeInv'
  <1> USE DEF TypeInv, TypeOK, remote, history
  <1>1. ASSUME NEW p \in Products, ReceiveNew(h, p)  PROVE TypeInv'
    <2> DEFINE r == [Idle EXCEPT !.op = "new", !.at = "inputFiles", !.product = p, !.version = 1]
    <2>1. r \in Request  BY BlankTypes, Arrivals
    <2>2. r.op \notin JobOps  BY DEF Idle, JobOps
    <2>3. Proceed(h, r)  BY <1>1 DEF ReceiveNew
    <2> QED  BY <1>1, <2>1, <2>2, <2>3, ProceedType DEF ReceiveNew
  <1>2. ASSUME NEW p \in Products, ReceiveUpdate(h, p)  PROVE TypeInv'
    <2> DEFINE r == [Idle EXCEPT !.op = "update", !.at = "findById", !.product = p]
    <2>1. r \in Request  BY BlankTypes, Arrivals
    <2>2. r.op \notin JobOps  BY DEF Idle, JobOps
    <2>3. Proceed(h, r)  BY <1>2 DEF ReceiveUpdate
    <2> QED  BY <1>2, <2>1, <2>2, <2>3, ProceedType DEF ReceiveUpdate
  <1>3. ASSUME NEW j \in Jobs, NEW op \in JobOps, NEW a \in AllowedLists \cup {{}},
               ReceiveForJob(h, op, j, a)  PROVE TypeInv'
    <2> DEFINE r == [Idle EXCEPT !.op = op, !.at = "getJob", !.product = Product(j), !.job = j,
                                 !.allowed = a]
    <2>1. Product(j) \in Products  BY DEF Product, Job
    <2>2. r \in Request  BY <2>1, Arrivals, BlankTypes
    <2>3. r.job \in Jobs  BY DEF Idle
    <2>4. Proceed(h, r)  BY <1>3 DEF ReceiveForJob
    <2> QED  BY <1>3, <2>2, <2>3, <2>4, ProceedType DEF ReceiveForJob
  <1> QED  BY <1>1, <1>2, <1>3 DEF Receive, JobOps

(* The steps of newLayer and updateLayer.                                  *)
LEMMA AdmitInv == ASSUME TypeInv, NEW h \in Handlers, Admit(h) PROVE TypeInv'
  <1> USE DEF TypeInv, TypeOK, remote, history
  <1>0. req[h] \in Request /\ req[h].product \in Products  BY DEF Request
  <1>1. CASE GetLayerMetadata(h)
    <2> DEFINE r == [req[h] EXCEPT !.at = "inputFiles", !.version = catalog[req[h].product] + 1]
    <2>1. catalog[req[h].product] + 1 \in Nat  BY <1>0
    <2>2. r \in Request /\ r.op = req[h].op /\ r.job = req[h].job
      BY <1>0, <2>1 DEF Request, Awaits
    <2>3. Ends(h) \/ Proceed(h, r)  BY <1>1, Answering DEF GetLayerMetadata
    <2>4. r.op \in JobOps => r.job \in Jobs  BY <2>2 DEF JobRequests
    <2> QED  BY <1>1, <2>2, <2>3, <2>4, ProceedType, RespondType, Answering DEF GetLayerMetadata
  <1>2. CASE ValidateInputFiles(h)
    BY <1>2, GoToType, Moving DEF ValidateInputFiles, Awaits
  <1>3. CASE CheckMapProxy(h)
    <2>1. GoesOn(h, "catalog") \/ GoesOn(h, "findJobs") \/ Ends(h)  
      BY <1>3, Answering, Moving DEF CheckMapProxy, Awaits
    <2> QED  BY <1>3, <2>1, GoToType, Moving, RespondType, Answering DEF CheckMapProxy, Awaits
  <1>4. CASE CheckCatalog(h)
    BY <1>4, GoToType, Moving, RespondType, Answering DEF CheckCatalog, Awaits
  <1>5. CASE CheckNoParallelJobs(h)
    <2> DEFINE r == [req[h] EXCEPT !.at = "checksums",
                       !.checked = {j \in Jobs : Exists(j) /\ Product(j) = req[h].product}]
    <2>1. r \in Request /\ r.op = req[h].op /\ r.job = req[h].job  BY <1>0 DEF Request, Awaits
    <2>2. Ends(h) \/ Proceed(h, r)  BY <1>5, Answering DEF CheckNoParallelJobs
    <2>3. r.op \in JobOps => r.job \in Jobs  BY <2>1 DEF JobRequests
    <2> QED  BY <1>5, <2>1, <2>2, <2>3, ProceedType, RespondType, Answering DEF CheckNoParallelJobs
  <1>6. ASSUME NEW j \in Jobs, CreateJob(h, j)  PROVE TypeInv'
    <2>1. [BlankJob EXCEPT !.status = "PENDING", !.product = req[h].product,
                           !.version = req[h].version] \in Job
      BY <1>0, BlankTypes DEF Job, Request, Statuses, Blocking
    <2>2. [BlankTask EXCEPT !.checksums = req[h].read] \in Task
      BY <1>0, BlankTypes DEF Task, Request
    <2>3. req[h].checked \in SUBSET Jobs  BY <1>0 DEF Request
    <2>4. job' \in [Jobs -> Job] /\ task' \in [Jobs -> Task] /\ saw' \in [Jobs -> SUBSET Jobs]
      BY <1>6, <2>1, <2>2, <2>3 DEF CreateJob
    <2>5. req' \in [Handlers -> Request] /\ JobRequests'  BY <1>6, RespondType, Answering DEF CreateJob
    <2> QED  BY <1>6, <2>4, <2>5 DEF CreateJob
  <1>7. CASE RefuseJob(h)
    BY <1>7, RespondType, Answering DEF RefuseJob
  <1> QED  BY <1>1, <1>2, <1>3, <1>4, <1>5, <1>6, <1>7 DEF Admit

(* Reading the shapefile.                                                  *)
LEMMA ReadFilesInv == ASSUME TypeInv, NEW h \in Handlers, ReadFiles(h) PROVE TypeInv'
  <1> USE DEF TypeInv, TypeOK, remote, history
  <1>0. req[h] \in Request /\ req[h].product \in Products  BY DEF Request
  <1>1. CASE CheckFilesExist(h)
    BY <1>1, GoToType, Moving DEF CheckFilesExist, Awaits
  <1>2. ASSUME NEW f \in ShapeFiles, GetFileChecksum(h, f)  PROVE TypeInv'
    <2> DEFINE read == req[h].read \cup {ChecksumOf(req[h].product, f)}
               r(at) == [req[h] EXCEPT !.at = at, !.read = read]
    <2>1. read \in SUBSET Checksum  BY <1>0, ChecksumType DEF Request
    <2>2. \A at \in Awaits : r(at) \in Request /\ r(at).op = req[h].op /\ r(at).job = req[h].job
      BY <1>0, <2>1 DEF Request
    <2>3. [req[h] EXCEPT !.read = read] = r("checksums")
      BY <1>0, <1>2 DEF Request, GetFileChecksum
    <2>4. Ends(h) \/ \E at \in {"checksums", "updateTask", "createJob"} : Proceed(h, r(at))
      BY <1>2, <2>3, Answering DEF GetFileChecksum, RetryDecision, BypassDecision
    <2>5. \A at \in Awaits : r(at).op \in JobOps => r(at).job \in Jobs  BY <2>2 DEF JobRequests
    <2>6. {"checksums", "updateTask", "createJob"} \subseteq Awaits  BY DEF Awaits
    <2>7. req' \in [Handlers -> Request] /\ JobRequests'
      <3>1. CASE Ends(h)  BY <3>1, RespondType, Answering
      <3>2. ASSUME NEW at \in {"checksums", "updateTask", "createJob"}, Proceed(h, r(at))
            PROVE  req' \in [Handlers -> Request] /\ JobRequests'
        <4> HIDE DEF r
        <4> QED  BY <3>2, <2>2, <2>5, <2>6, ProceedType
      <3> QED  BY <2>4, <3>1, <3>2
    <2> QED  BY <1>2, <2>7 DEF GetFileChecksum
  <1> QED  BY <1>1, <1>2 DEF ReadFiles

(* The steps of retryIngestion.                                            *)
LEMMA RetryInv == ASSUME TypeInv, NEW h \in Handlers, Retry(h) PROVE TypeInv'
  <1> USE DEF TypeInv, TypeOK, remote, history
  <1>0. req[h] \in Request /\ req[h].product \in Products /\ req[h].task \in Task
    BY DEF Request
  <1>1. CASE RetryGetJob(h)
    <2> DEFINE r == [req[h] EXCEPT !.at = "getTasks", !.status = job[req[h].job].status]
    <2>1. req[h].job \in Jobs  BY <1>1 DEF RetryGetJob, Awaiting, JobRequests, JobOps
    <2>2. r \in Request /\ r.op = req[h].op /\ r.job = req[h].job
      BY <1>0, <2>1 DEF Request, Awaits, Job
    <2>3. Ends(h) \/ Proceed(h, r)  BY <1>1, Answering DEF RetryGetJob
    <2> QED  BY <1>1, <2>1, <2>2, <2>3, ProceedType, RespondType, Answering DEF RetryGetJob
  <1>2. CASE RetryGetTasks(h)
    <2> DEFINE t == task[req[h].job]
               r == [req[h] EXCEPT !.task = t, !.at = IF t.isValid THEN "resetJob" ELSE "deleteEntity"]
    <2>1. req[h].job \in Jobs  BY <1>2 DEF RetryGetTasks, Awaiting, JobRequests, JobOps
    <2>2. r \in Request /\ r.op = req[h].op /\ r.job = req[h].job
      BY <1>0, <2>1 DEF Request, Awaits
    <2>3. Proceed(h, r)  BY <1>2 DEF RetryGetTasks
    <2> QED  BY <1>2, <2>1, <2>2, <2>3, ProceedType DEF RetryGetTasks
  <1>3. CASE SoftReset(h)
    <2> DEFINE j == req[h].job
               rt == [task[j] EXCEPT !.status = IF @ = "FAILED" THEN "PENDING" ELSE @]
    <2>1. j \in Jobs  BY <1>3 DEF SoftReset, Awaiting, JobRequests, JobOps
    <2>2. PICK rj \in Job : SetJob(j, rj)  BY <1>3, <2>1, RetryResets, ResetIs
    <2>3. rt \in Task
      <3>1. CASE task[j].status = "FAILED"
        <4>1. rt = [task[j] EXCEPT !.status = "PENDING"]  BY <3>1
        <4> QED  BY <2>1, <4>1, TaskUpdates DEF TaskStatuses
      <3>2. CASE task[j].status # "FAILED"
        <4>1. rt = [task[j] EXCEPT !.status = task[j].status] /\ task[j].status \in TaskStatuses
          BY <2>1, <3>2 DEF Task
        <4> QED  BY <2>1, <4>1, TaskUpdates
      <3> QED  BY <3>1, <3>2
    <2>4. SetTask(j, rt) /\ Ends(h)  BY <1>3, Answering DEF SoftReset
    <2> QED  BY <1>3, <2>1, <2>2, <2>3, <2>4, SetJobType, RespondType, Answering DEF SoftReset, SetTask
  <1>4. CASE RetryDeleteEntity(h)
    BY <1>0, <1>4, GoToType, Moving, RespondType, Answering DEF RetryDeleteEntity, WriteThen, Awaits
  <1>5. CASE HardResetTask(h)
    <2> DEFINE t == req[h].task
               cs == IF t.status = "COMPLETED" THEN buildUpdatedChecksums(t.checksums, req[h].read)
                                               ELSE t.checksums
               rt == [BlankTask EXCEPT !.isValid = t.isValid, !.checksums = cs]
    <2>1. req[h].job \in Jobs  BY <1>5 DEF HardResetTask, Awaiting, JobRequests, JobOps
    <2>2. cs \in SUBSET Checksum  BY <1>0 DEF Request, Task, buildUpdatedChecksums
    <2>3. rt \in Task  BY <1>0, <2>2, BlankTypes DEF Task
    <2>4. SetTask(req[h].job, rt)  BY <1>5 DEF HardResetTask, ResetTask
    <2>5. GoesOn(h, "updateJob") \/ Ends(h)  BY <1>5, Moving DEF HardResetTask, Awaits
    <2> QED  BY <1>5, <2>1, <2>3, <2>4, <2>5, GoToType, Moving, RespondType, Answering
             DEF HardResetTask, SetTask, Awaits
  <1>6. CASE HardResetJob(h)
    <2>1. req[h].job \in Jobs  BY <1>6 DEF HardResetJob, Awaiting, JobRequests, JobOps
    <2>2. PICK rj \in Job : SetJob(req[h].job, rj)  BY <1>6, <2>1, RetryResets, ResetIs
    <2>3. Ends(h)  BY <1>6, Answering DEF HardResetJob
    <2> QED  BY <1>6, <2>1, <2>2, <2>3, SetJobType, RespondType, Answering DEF HardResetJob
  <1> QED  BY <1>1, <1>2, <1>3, <1>4, <1>5, <1>6 DEF Retry

(* The steps of bypassValidationErrors.                                    *)
LEMMA BypassInv == ASSUME TypeInv, NEW h \in Handlers, Bypass(h) PROVE TypeInv'
  <1> USE DEF TypeInv, TypeOK, remote, history
  <1>0. req[h] \in Request /\ req[h].task \in Task
    BY DEF Request
  <1>1. CASE BypassGetJob(h)
    <2> DEFINE r == [req[h] EXCEPT !.at = "getTasks", !.status = job[req[h].job].status]
    <2>1. req[h].job \in Jobs  BY <1>1 DEF BypassGetJob, Awaiting, JobRequests, JobOps
    <2>2. r \in Request /\ r.op = req[h].op /\ r.job = req[h].job
      BY <1>0, <2>1 DEF Request, Awaits, Job
    <2>3. Proceed(h, r)  BY <1>1 DEF BypassGetJob
    <2> QED  BY <1>1, <2>1, <2>2, <2>3, ProceedType DEF BypassGetJob
  <1>2. CASE BypassGetTasks(h)
    <2> DEFINE r == [req[h] EXCEPT !.at = "filesExist", !.task = task[req[h].job]]
    <2>1. req[h].job \in Jobs  BY <1>2 DEF BypassGetTasks, Awaiting, JobRequests, JobOps
    <2>2. r \in Request /\ r.op = req[h].op /\ r.job = req[h].job
      BY <1>0, <2>1 DEF Request, Awaits
    <2>3. Ends(h) \/ Proceed(h, r)  BY <1>2, Answering DEF BypassGetTasks
    <2> QED  BY <1>2, <2>1, <2>2, <2>3, ProceedType, RespondType, Answering DEF BypassGetTasks
  <1>3. CASE BypassUpdateTask(h)
    <2> DEFINE j == req[h].job
               t == req[h].task
               rt == [task[j] EXCEPT !.isValid = TRUE, !.checksums = t.checksums, !.summary = t.summary]
    <2>1. j \in Jobs  BY <1>3 DEF BypassUpdateTask, Awaiting, JobRequests, JobOps
    <2>2. rt \in Task  BY <1>0, <2>1 DEF Task
    <2>3. SetTask(j, rt) /\ GoesOn(h, "updateJob")  BY <1>3, Moving DEF BypassUpdateTask, Awaits
    <2> QED  BY <1>3, <2>1, <2>2, <2>3, GoToType, Moving DEF BypassUpdateTask, SetTask, Awaits
  <1>4. CASE BypassUpdateJob(h)
    <2>1. req[h].job \in Jobs  BY <1>4 DEF BypassUpdateJob, Awaiting, JobRequests, JobOps
    <2>2. req[h].allowed \in AllowedLists \cup {{}}  BY <1>0 DEF Request
    <2>3. PICK rj \in Job : SetJob(req[h].job, rj)  BY <1>4, <2>1, <2>2, ApprovalIs
    <2>4. GoesOn(h, "notify") \/ Ends(h)  BY <1>4, Moving DEF BypassUpdateJob, Awaits
    <2> QED  BY <1>4, <2>1, <2>3, <2>4, SetJobType, GoToType, Moving, RespondType, Answering
             DEF BypassUpdateJob, Awaits
  <1>5. CASE BypassNotify(h)
    <2> DEFINE rj == [job[req[h].job] EXCEPT !.tracked = TRUE]
    <2>1. req[h].job \in Jobs  BY <1>5 DEF BypassNotify, Awaiting, JobRequests, JobOps
    <2>2. rj \in Job  BY <2>1, JobFlags
    <2>3. job' = [job EXCEPT ![req[h].job] = rj]  BY <1>5, <2>1 DEF BypassNotify
    <2> QED  BY <1>5, <2>1, <2>2, <2>3, RespondType, Answering DEF BypassNotify
  <1> QED  BY <1>1, <1>2, <1>3, <1>4, <1>5 DEF Bypass

(* The steps of abortIngestion.                                            *)
LEMMA AbortInv == ASSUME TypeInv, NEW h \in Handlers, Abort(h) PROVE TypeInv'
  <1> USE DEF TypeInv, TypeOK, remote, history
  <1>0. req[h] \in Request /\ req[h].product \in Products  BY DEF Request
  <1>1. CASE AbortGetJob(h)
    <2> DEFINE r == [req[h] EXCEPT !.at = "getTasks", !.status = job[req[h].job].status]
    <2>1. req[h].job \in Jobs  BY <1>1 DEF AbortGetJob, Awaiting, JobRequests, JobOps
    <2>2. r \in Request /\ r.op = req[h].op /\ r.job = req[h].job
      BY <1>0, <2>1 DEF Request, Awaits, Job
    <2>3. Ends(h) \/ Proceed(h, r)  BY <1>1, Answering DEF AbortGetJob
    <2> QED  BY <1>1, <2>1, <2>2, <2>3, ProceedType, RespondType, Answering DEF AbortGetJob
  <1>2. CASE AbortGetTasks(h)
    BY <1>2, GoToType, Moving, RespondType, Answering DEF AbortGetTasks, Awaits
  <1>3. CASE AbortJob(h)
    <2> DEFINE j == req[h].job
               rj == [job[j] EXCEPT !.status = "ABORTED"]
               rt == [task[j] EXCEPT !.status = IF @ = "COMPLETED" THEN @ ELSE "ABORTED"]
    <2>1. j \in Jobs  BY <1>3 DEF AbortJob, Awaiting, JobRequests, JobOps
    <2>2. rj \in Job  BY <2>1, JobUpdates DEF Statuses, Unabortable
    <2>3. rt \in Task
      <3>1. CASE task[j].status = "COMPLETED"
        <4>1. rt = [task[j] EXCEPT !.status = task[j].status] /\ task[j].status \in TaskStatuses
          BY <2>1, <3>1 DEF Task
        <4> QED  BY <2>1, <4>1, TaskUpdates
      <3>2. CASE task[j].status # "COMPLETED"
        <4>1. rt = [task[j] EXCEPT !.status = "ABORTED"]  BY <3>2
        <4> QED  BY <2>1, <4>1, TaskUpdates DEF TaskStatuses
      <3> QED  BY <3>1, <3>2
    <2>4. SetJob(j, rj) /\ SetTask(j, rt)  BY <1>3 DEF AbortJob
    <2>5. GoesOn(h, "deleteEntity") \/ Ends(h)  BY <1>3, Moving DEF AbortJob, Awaits
    <2> QED  BY <1>3, <2>1, <2>2, <2>3, <2>4, <2>5, SetJobType, GoToType, Moving, RespondType, Answering
             DEF AbortJob, SetTask, Awaits
  <1>4. CASE AbortDeleteEntity(h)
    BY <1>0, <1>4, RespondType, Answering DEF AbortDeleteEntity
  <1> QED  BY <1>1, <1>2, <1>3, <1>4 DEF Abort

(* Failing calls.                                                          *)
LEMMA CallFailsInv == ASSUME TypeInv, NEW h \in Handlers, CallFails(h) PROVE TypeInv'
  BY GoToType, Moving, RespondType, Answering DEF TypeInv, TypeOK, remote, history, CallFails, Awaits

(* Restarts.                                                               *)
LEMMA CrashInv == ASSUME TypeInv, Crash PROVE TypeInv'
  <1>1. req' \in [Handlers -> Request]  BY BlankTypes DEF Crash
  <1>2. JobRequests'  BY DEF Crash, JobRequests, Idle, JobOps
  <1> QED  BY <1>1, <1>2 DEF Crash, TypeInv, TypeOK, remote, history

(* The steps of workers, users and the job manager.                        *)
LEMMA WorldInv == ASSUME TypeInv, WorldNext PROVE TypeInv'
  <1> USE DEF TypeInv, TypeOK, remote, history
  <1>0. ASSUME NEW j \in Jobs, NEW s \in Statuses
        PROVE  [job[j] EXCEPT !.status = s] \in Job
    BY <1>0, JobUpdates
  <1>1. ASSUME NEW j \in Jobs, NEW s \in TaskStatuses
        PROVE  [task[j] EXCEPT !.status = s] \in Task
    BY <1>1, TaskUpdates
  <1>2. {"IN_PROGRESS", "SUSPENDED", "FAILED", "COMPLETED", "EXPIRED"} \subseteq Statuses
    BY DEF Statuses, Blocking, Unabortable
  <1>3. {"IN_PROGRESS", "FAILED"} \subseteq TaskStatuses  BY DEF TaskStatuses
  <1>r. req' = req => JobRequests'  BY DEF JobRequests
  <1>4. ASSUME NEW j \in Jobs, StartValidation(j)  PROVE TypeInv'
    BY <1>0, <1>1, <1>2, <1>3, <1>r, <1>4, SetJobType DEF StartValidation, SetTask
  <1>5. ASSUME NEW j \in Jobs, NEW s \in Summaries, FinishValidation(j, s)  PROVE TypeInv'
    <2> DEFINE clean == s.counted = {}
               rj == [job[j] EXCEPT !.status = IF clean THEN "IN_PROGRESS" ELSE "SUSPENDED",
                                    !.tracked = clean]
               rt == [task[j] EXCEPT !.status = "COMPLETED", !.isValid = clean, !.summary = s]
    <2>1. s \in Summary  BY StateAssumption
    <2>0. clean \in BOOLEAN /\ "COMPLETED" \in TaskStatuses  BY DEF TaskStatuses
    <2>2. rj \in Job
      <3>1. CASE clean
        <4>1. rj = [job[j] EXCEPT !.status = "IN_PROGRESS", !.tracked = clean]  BY <3>1
        <4> HIDE DEF clean
        <4> QED  BY <1>2, <2>0, <4>1, JobUpdates
      <3>2. CASE ~clean
        <4>1. rj = [job[j] EXCEPT !.status = "SUSPENDED", !.tracked = clean]  BY <3>2
        <4> HIDE DEF clean
        <4> QED  BY <1>2, <2>0, <4>1, JobUpdates
      <3> QED  BY <3>1, <3>2
    <2>3. rt \in Task
      <3> HIDE DEF clean
      <3> QED  BY <2>0, <2>1, TaskUpdates
    <2>4. SetJob(j, rj) /\ SetTask(j, rt)  BY <1>5 DEF FinishValidation
    <2>5. Product(j) \in Products  BY DEF Product, Job
    <2>6. Checksums(Product(j)) \in SUBSET Checksum  BY <2>5, ChecksumType DEF Checksums
    <2>7. [summary |-> s, checksums |-> Checksums(Product(j))]
            \in [summary : Summary \cup {NoSummary}, checksums : SUBSET Checksum]
      BY <2>1, <2>6
    <2> QED  BY <1>5, <1>r, <2>2, <2>3, <2>4, <2>5, <2>7, SetJobType DEF FinishValidation, SetTask
  <1>6. ASSUME NEW j \in Jobs, FailValidation(j)  PROVE TypeInv'
    BY <1>0, <1>1, <1>2, <1>3, <1>r, <1>6, SetJobType DEF FailValidation, SetTask
  <1>7. ASSUME NEW j \in Jobs, Resume(j) \/ FailLater(j) \/ Expire(j)  PROVE TypeInv'
    BY <1>0, <1>2, <1>r, <1>7, SetJobType DEF Resume, FailLater, Expire
  <1>8. ASSUME NEW j \in Jobs, AddFinalize(j)  PROVE TypeInv'
    <2>1. [job[j] EXCEPT !.finalize = TRUE, !.overtook = Aborting(j)] \in Job
      BY JobFlags DEF Aborting
    <2> QED  BY <1>r, <1>8, <2>1, SetJobType DEF AddFinalize
  <1>9. ASSUME NEW j \in Jobs, Publish(j)  PROVE TypeInv'
    BY <1>r, <1>9 DEF Publish
  <1>10. ASSUME NEW j \in Jobs, Complete(j)  PROVE TypeInv'
    <2>1. job[j].version \in Nat /\ Product(j) \in Products  BY DEF Product, Job
    <2> QED  BY <1>0, <1>2, <1>r, <1>10, <2>1, SetJobType DEF Complete
  <1>11. ASSUME NEW p \in Products, NEW f \in ShapeFiles, EditFile(p, f)  PROVE TypeInv'
    BY <1>r, <1>11 DEF EditFile
  <1>12. ASSUME NEW j \in Jobs, CleanUp(j)  PROVE TypeInv'
    <2>1. [job[j] EXCEPT !.cleaned = TRUE, !.stray = job[j].stray \/ Active(j)] \in Job
      BY JobFlags DEF Active
    <2> QED  BY <1>r, <1>12, <2>1, SetJobType DEF CleanUp
  <1> QED
    BY <1>4, <1>5, <1>6, <1>7, <1>8, <1>9, <1>10, <1>11, <1>12 DEF WorldNext, WorkerNext

(* TypeInv is inductive.                                                   *)
LEMMA TypeInvStep == TypeInv /\ [Next]_vars => TypeInv'
  <1> SUFFICES ASSUME TypeInv, [Next]_vars PROVE TypeInv'  OBVIOUS
  <1>1. CASE Next
    BY <1>1, ReceiveInv, AdmitInv, ReadFilesInv, RetryInv, BypassInv, AbortInv, CallFailsInv, CrashInv,
       WorldInv
       DEF Next, Step
  <1>2. CASE UNCHANGED vars
    BY <1>2 DEF vars, TypeInv, TypeOK, JobRequests
  <1> QED  BY <1>1, <1>2

(* TypeInv holds when the service starts.                                  *)
LEMMA TypeInvInit == Init => TypeInv
  <1> SUFFICES ASSUME Init PROVE TypeInv  OBVIOUS
  <1>1. job \in [Jobs -> Job] /\ task \in [Jobs -> Task] /\ req \in [Handlers -> Request]
    BY BlankTypes DEF Init
  <1>2. shapefile \in [Products -> [ShapeFiles -> 1 .. MaxEdits]]  BY StateAssumption DEF Init
  <1>3. JobRequests  BY DEF Init, JobRequests, JobOps, Idle
  <1> QED  BY <1>1, <1>2, <1>3 DEF Init, TypeInv, TypeOK

(* The records of the job manager, the catalog, MapProxy and the polygon   *)
(* parts manager, and what requests hold of them, keep their types under   *)
(* every interleaving and every fault.                                     *)
THEOREM TypeCorrect == Spec => []TypeOK
  <1>1. TypeInv => TypeOK  BY DEF TypeInv
  <1> QED  BY <1>1, TypeInvInit, TypeInvStep, PTL DEF Spec

-----------------------------------------------------------------------------
(* What every step keeps of a job: once created it exists, for the same    *)
(* product; its marks stay; it becomes active again only by a revival that *)
(* is remembered, and is active although cleaned only as a stray job.      *)
Kept(j) ==
    /\ Exists(j) => /\ Exists(j)' /\ Product(j)' = Product(j)
                    /\ job[j].cleaned => job'[j].cleaned
                    /\ job[j].stray => job'[j].stray
                    /\ ~Active(j) /\ Active(j)' => j \in revived'
    /\ j \in revived => j \in revived'
    /\ Exists(j)' \/ (job'[j].cleaned = job[j].cleaned /\ job'[j].stray = job[j].stray)
    /\ Active(j)' /\ job'[j].cleaned => job'[j].stray \/ (Active(j) /\ job[j].cleaned)

(* Of the job that is written, by the record written.                      *)
LEMMA SetJobKeeps ==
    ASSUME TypeInv, NEW j \in Jobs, NEW k \in Jobs, NEW r, SetJob(k, r),
           r.status # "NONE", r.product = job[k].product,
           job[k].cleaned => r.cleaned, job[k].stray => r.stray,
           r.status \in Blocking /\ r.cleaned => r.stray \/ (Active(k) /\ job[k].cleaned)
    PROVE  Kept(j)
  <1>1. CASE j = k
    <2>1. job'[j] = r  BY <1>1 DEF SetJob, TypeInv, TypeOK
    <2>2. /\ j \in revived => j \in revived'
          /\ Exists(j) /\ ~Active(j) /\ r.status \in Blocking => j \in revived'
      BY <1>1 DEF SetJob
    <2> QED  BY <1>1, <2>1, <2>2 DEF Kept, Exists, Active, Product
  <1>2. CASE j # k
    <2>1. job'[j] = job[j] /\ (j \in revived => j \in revived')
      BY <1>2 DEF SetJob, TypeInv, TypeOK
    <2> QED  BY <2>1 DEF Kept, Exists, Active, Product
  <1> QED  BY <1>1, <1>2

(* By the service and around it.                                           *)
LEMMA JobKept ==
    ASSUME TypeInv, NEW j \in Jobs, [Next]_vars
    PROVE  Kept(j)
  <1> DEFINE Unmoved == job' = job /\ revived' = revived
  <1>1. Unmoved => Kept(j)  BY DEF Kept, Exists, Active, Product
  <1>2. \A k \in Jobs : job[k] \in Job  BY DEF TypeInv, TypeOK
  <1>3. ASSUME NEW k \in Jobs, NEW st \in Statuses, st \in Blocking => Active(k),
               SetJob(k, [job[k] EXCEPT !.status = st])
        PROVE  Kept(j)
    <2> DEFINE r == [job[k] EXCEPT !.status = st]
    <2>1. /\ r.status = st /\ r.product = job[k].product
          /\ r.cleaned = job[k].cleaned /\ r.stray = job[k].stray
      BY <1>2 DEF Job
    <2>2. st # "NONE"  BY DEF Statuses, Blocking, Unabortable
    <2>3. SetJob(k, r)  BY <1>3
    <2> HIDE DEF r
    <2> QED  BY <1>3, <2>1, <2>2, <2>3, SetJobKeeps
  <1>4. {"IN_PROGRESS", "FAILED", "COMPLETED", "ABORTED", "EXPIRED"} \subseteq Statuses
    BY DEF Statuses, Blocking, Unabortable
  <1>5. ASSUME NEW h \in Handlers, Receive(h) \/ ReadFiles(h) \/ CallFails(h)  PROVE Unmoved
    BY <1>5 DEF Receive, ReceiveNew, ReceiveUpdate, ReceiveForJob, ReadFiles, CheckFilesExist,
       GetFileChecksum, CallFails, remote, history
  <1>6. ASSUME NEW h \in Handlers, Admit(h)  PROVE Kept(j)
    <2>1. ASSUME NEW k \in Jobs, CreateJob(h, k)  PROVE Kept(j)
      <3> DEFINE r == [BlankJob EXCEPT !.status = "PENDING", !.product = req[h].product,
                                       !.version = req[h].version]
      <3>1. ~r.cleaned /\ r.status # "NONE"  BY DEF BlankJob
      <3>2. job'[j] = (IF j = k THEN r ELSE job[j]) /\ revived' = revived /\ ~Exists(k)
        BY <2>1 DEF CreateJob, TypeInv, TypeOK
      <3> HIDE DEF r
      <3> QED  BY <3>1, <3>2 DEF Kept, Exists, Active, Product
    <2>2. CASE Unmoved  BY <1>1, <2>2
    <2> QED
      BY <1>6, <2>1, <2>2 DEF Admit, GetLayerMetadata, ValidateInputFiles, CheckMapProxy,
         CheckCatalog, CheckNoParallelJobs, RefuseJob, remote, history
  <1>7. ASSUME NEW h \in Handlers, Retry(h)  PROVE Kept(j)
    <2>1. CASE SoftReset(h) \/ HardResetJob(h)
      <3>1. req[h].job \in Jobs
        BY <2>1 DEF SoftReset, HardResetJob, Awaiting, TypeInv, JobRequests, JobOps
      <3>2. PICK r \in Job : /\ SetJob(req[h].job, r)
                             /\ r.status = "PENDING" /\ r.product = job[req[h].job].product
                             /\ r.cleaned = job[req[h].job].cleaned
                             /\ r.stray = (job[req[h].job].stray \/ job[req[h].job].cleaned)
        BY <1>2, <2>1, <3>1, RetryResets, ResetIs
      <3> QED  BY <3>1, <3>2, SetJobKeeps
    <2>2. CASE Unmoved  BY <1>1, <2>2
    <2> QED
      BY <1>7, <2>1, <2>2 DEF Retry, RetryGetJob, RetryGetTasks, RetryDeleteEntity, HardResetTask,
         remote, history
  <1>8. ASSUME NEW h \in Handlers, Bypass(h)  PROVE Kept(j)
    <2>1. CASE BypassUpdateJob(h)
      <3>1. req[h].job \in Jobs  BY <2>1 DEF BypassUpdateJob, Awaiting, TypeInv, JobRequests, JobOps
      <3>2. req[h].allowed \in AllowedLists \cup {{}}  BY DEF TypeInv, TypeOK, Request
      <3>3. PICK r \in Job : /\ SetJob(req[h].job, r)
                             /\ r.status = "IN_PROGRESS" /\ r.product = job[req[h].job].product
                             /\ r.cleaned = job[req[h].job].cleaned
                             /\ r.stray = (job[req[h].job].stray \/ job[req[h].job].cleaned)
        BY <1>2, <2>1, <3>1, <3>2, ApprovalIs
      <3> QED  BY <3>1, <3>3, SetJobKeeps
    <2>2. CASE BypassNotify(h)
      <3>1. req[h].job \in Jobs  BY <2>2 DEF BypassNotify, Awaiting, TypeInv, JobRequests, JobOps
      <3>2. /\ job'[j].status = job[j].status /\ job'[j].product = job[j].product
            /\ job'[j].cleaned = job[j].cleaned /\ job'[j].stray = job[j].stray
        BY <1>2, <2>2, <3>1 DEF BypassNotify, TypeInv, TypeOK, Job
      <3> QED  BY <2>2, <3>2 DEF BypassNotify, Kept, Exists, Active, Product
    <2>3. CASE Unmoved  BY <1>1, <2>3
    <2> QED
      BY <1>8, <2>1, <2>2, <2>3 DEF Bypass, BypassGetJob, BypassGetTasks, BypassUpdateTask,
         remote, history
  <1>9. ASSUME NEW h \in Handlers, Abort(h)  PROVE Kept(j)
    <2>1. CASE AbortJob(h)
      <3>1. req[h].job \in Jobs  BY <2>1 DEF AbortJob, Awaiting, TypeInv, JobRequests, JobOps
      <3>2. "ABORTED" \notin Blocking  BY DEF Blocking
      <3> QED  BY <1>3, <1>4, <2>1, <3>1, <3>2 DEF AbortJob
    <2>2. CASE Unmoved  BY <1>1, <2>2
    <2> QED
      BY <1>9, <2>1, <2>2 DEF Abort, AbortGetJob, AbortGetTasks, AbortDeleteEntity, remote, history
  <1>10. CASE Crash  BY <1>1, <1>10 DEF Crash, remote, history
  <1>11. CASE WorldNext
    <2>1. ASSUME NEW k \in Jobs, StartValidation(k) \/ FailValidation(k) \/ Resume(k) \/ FailLater(k)
                                 \/ Complete(k) \/ Expire(k)
          PROVE  Kept(j)
      <3>1. Active(k)
        BY <2>1 DEF StartValidation, FailValidation, Resume, FailLater, Complete, Expire, Active,
           Blocking
      <3> QED
        BY <1>3, <1>4, <2>1, <3>1
           DEF StartValidation, FailValidation, Resume, FailLater, Complete, Expire
    <2>2. ASSUME NEW k \in Jobs, NEW s \in Summaries, FinishValidation(k, s)  PROVE Kept(j)
      <3> DEFINE st == IF s.counted = {} THEN "IN_PROGRESS" ELSE "SUSPENDED"
                 r == [job[k] EXCEPT !.status = st, !.tracked = (s.counted = {})]
      <3>1. /\ r.status # "NONE" /\ r.product = job[k].product
            /\ r.cleaned = job[k].cleaned /\ r.stray = job[k].stray
        BY <1>2 DEF Job
      <3>2. SetJob(k, r) /\ Active(k)  BY <2>2 DEF FinishValidation, Active, Blocking
      <3> HIDE DEF r
      <3> QED  BY <3>1, <3>2, SetJobKeeps
    <2>3. ASSUME NEW k \in Jobs, AddFinalize(k)  PROVE Kept(j)
      <3> DEFINE r == [job[k] EXCEPT !.finalize = TRUE, !.overtook = Aborting(k)]
      <3>1. /\ r.status = job[k].status /\ r.product = job[k].product
            /\ r.cleaned = job[k].cleaned /\ r.stray = job[k].stray
        BY <1>2 DEF Job
      <3>2. SetJob(k, r) /\ Active(k) /\ Exists(k)
        BY <2>3 DEF AddFinalize, Active, Blocking, Exists
      <3> HIDE DEF r
      <3> QED  BY <3>1, <3>2, SetJobKeeps DEF Exists
    <2>4. ASSUME NEW k \in Jobs, CleanUp(k)  PROVE Kept(j)
      <3> DEFINE r == [job[k] EXCEPT !.cleaned = TRUE, !.stray = job[k].stray \/ Active(k)]
      <3>1. /\ r.status = job[k].status /\ r.product = job[k].product
            /\ r.cleaned /\ r.stray = (job[k].stray \/ Active(k))
        BY <1>2 DEF Job
      <3>2. SetJob(k, r) /\ Exists(k)  BY <2>4 DEF CleanUp, Exists
      <3> HIDE DEF r
      <3> QED  BY <3>1, <3>2, SetJobKeeps DEF Exists, Active
    <2>5. ASSUME NEW k \in Jobs, Publish(k)  PROVE Kept(j)  BY <1>1, <2>5 DEF Publish
    <2>6. ASSUME NEW p \in Products, NEW f \in ShapeFiles, EditFile(p, f)  PROVE Kept(j)
      BY <1>1, <2>6 DEF EditFile
    <2> QED  BY <1>11, <2>1, <2>2, <2>3, <2>4, <2>5, <2>6 DEF WorldNext, WorkerNext
  <1>12. CASE UNCHANGED vars  BY <1>1, <1>12 DEF vars
  <1> QED  BY <1>1, <1>5, <1>6, <1>7, <1>8, <1>9, <1>10, <1>11, <1>12 DEF Next, Step

(* The inductive invariant of the marks: a job that is active although it  *)
(* was cleaned up is stray, and only a job that was created has marks.     *)
MarksInv ==
    \A j \in Jobs :
        /\ Active(j) /\ job[j].cleaned => job[j].stray
        /\ job[j].cleaned \/ job[j].stray => Exists(j)

LEMMA MarksStep == TypeInv /\ MarksInv /\ [Next]_vars => MarksInv'
  <1> SUFFICES ASSUME TypeInv, MarksInv, [Next]_vars, NEW j \in Jobs
               PROVE  /\ Active(j)' /\ job'[j].cleaned => job'[j].stray
                      /\ job'[j].cleaned \/ job'[j].stray => Exists(j)'
    BY DEF MarksInv, Active, Exists
  <1>1. Kept(j)  BY JobKept
  <1>2. /\ Active(j) /\ job[j].cleaned => job[j].stray
        /\ job[j].cleaned \/ job[j].stray => Exists(j)
    BY DEF MarksInv
  <1>3. Active(j) => Exists(j)  BY DEF Active, Exists, Blocking
  <1> QED  BY <1>1, <1>2, <1>3 DEF Kept

LEMMA MarksInit == Init => MarksInv
  BY DEF Init, MarksInv, BlankJob, Active, Blocking

(* The inductive invariant of admission.  A job is passed over by an       *)
(* admission when it is closed or was cleaned up; it is settled when, in   *)
(* addition, it may have been brought back after it was closed.  Every job *)
(* that an admission check saw is settled from then on.                    *)
Passed(j) == Exists(j) /\ (job[j].cleaned \/ ~Active(j))
Settled(j) == Exists(j) /\ (job[j].cleaned \/ (Active(j) => j \in revived))

AdmissionInv ==
    /\ \A k \in Jobs : \A j \in saw[k] : Settled(j)
    /\ \A h \in Handlers : \A j \in req[h].checked : Settled(j)

(* No step of the service or around it unsettles a job.                    *)
LEMMA StaysSettled ==
    ASSUME TypeInv, NEW j \in Jobs, Settled(j), [Next]_vars
    PROVE  Settled(j)'
  <1>1. Kept(j)  BY JobKept
  <1>2. /\ Exists(j)' /\ (job[j].cleaned => job'[j].cleaned)
        /\ ~Active(j) /\ Active(j)' => j \in revived'
        /\ j \in revived => j \in revived'
    BY <1>1 DEF Kept, Settled
  <1>3. job[j].cleaned \/ (Active(j) => j \in revived)  BY DEF Settled
  <1>4. job'[j].cleaned \/ (Active(j)' => j \in revived')  BY <1>2, <1>3
  <1> QED  BY <1>2, <1>4 DEF Settled, Exists, Active

-----------------------------------------------------------------------------
(* How a request changes: it is answered, or it runs on with what it has   *)
(* read, or it is one of the actions that read something new.              *)
Continues(h) ==
    /\ req[h].at \notin {"idle", "getJob"}
    /\ ~Awaiting(h, "bypass", "getTasks")
    /\ \E r \in Request :
          Proceed(h, r) /\ r.op = req[h].op /\ r.status = req[h].status /\ r.checked = req[h].checked

FirstRead(h) ==
    CheckNoParallelJobs(h) \/ RetryGetJob(h) \/ BypassGetJob(h) \/ BypassGetTasks(h) \/ AbortGetJob(h)

(* Moving to another await is running on.                                  *)
LEMMA GoToContinues ==
    ASSUME TypeInv, NEW h \in Handlers, NEW at \in Awaits, GoesOn(h, at),
           req[h].at \notin {"idle", "getJob"}, ~Awaiting(h, "bypass", "getTasks")
    PROVE  Continues(h)
  <1>1. PICK b \in BOOLEAN : Proceed(h, [req[h] EXCEPT !.at = at, !.wrote = b])  BY DEF GoesOn
  <1> DEFINE r == [req[h] EXCEPT !.at = at, !.wrote = b]
  <1>2. req[h] \in Request  BY DEF TypeInv, TypeOK
  <1>3. r \in Request  BY <1>2 DEF Request
  <1>4. r.op = req[h].op /\ r.status = req[h].status /\ r.checked = req[h].checked
    BY <1>2 DEF Request
  <1> QED  BY <1>1, <1>3, <1>4 DEF Continues

(* Every step of a request is of one of these kinds.                       *)
LEMMA StepKinds ==
    ASSUME TypeInv, NEW h \in Handlers, Step(h)
    PROVE  Ends(h) \/ Continues(h) \/ FirstRead(h)
  <1>0. /\ req[h] \in Request /\ req[h].task \in Task /\ req[h].read \in SUBSET Checksum
        /\ req[h].product \in Products
    BY DEF TypeInv, TypeOK, Request
  <1>a. \A at \in Awaits : /\ GoesOn(h, at)
                          /\ req[h].at \notin {"idle", "getJob"}
                          /\ ~Awaiting(h, "bypass", "getTasks") => Continues(h)
    BY GoToContinues
  <1>b. {"inputFiles", "mapProxy", "catalog", "findJobs", "checksums", "createJob", "filesExist",
         "updateTask", "updateJob", "notify", "abortJob", "deleteEntity", "resetJob"} \subseteq Awaits
    BY DEF Awaits
  <1>1. CASE GetLayerMetadata(h)
    <2> DEFINE v == catalog[req[h].product] + 1
               r == [req[h] EXCEPT !.at = "inputFiles", !.version = v]
    <2>1. v \in Nat  BY <1>0 DEF TypeInv, TypeOK
    <2>2. r \in Request /\ r.op = req[h].op /\ r.status = req[h].status /\ r.checked = req[h].checked
      BY <1>0, <1>b, <2>1 DEF Request
    <2>3. Ends(h) \/ Proceed(h, r)  BY <1>1, Answering DEF GetLayerMetadata
    <2> QED  BY <1>1, <2>2, <2>3 DEF GetLayerMetadata, Awaiting, Continues
  <1>2. CASE ValidateInputFiles(h) \/ CheckMapProxy(h) \/ CheckCatalog(h)
    <2>1. \/ Ends(h)
          \/ \E at \in {"mapProxy", "catalog", "findJobs"} : GoesOn(h, at)
      BY <1>b, <1>2, Answering, Moving DEF ValidateInputFiles, CheckMapProxy, CheckCatalog
    <2>2. req[h].at \in {"inputFiles", "mapProxy", "catalog"}
      BY <1>2 DEF ValidateInputFiles, CheckMapProxy, CheckCatalog
    <2> QED  BY <1>a, <1>b, <2>1, <2>2 DEF Awaiting
  <1>3. ASSUME NEW j \in Jobs, CreateJob(h, j)  PROVE Ends(h)  BY <1>3, Answering DEF CreateJob
  <1>4. CASE RefuseJob(h)  BY <1>4, Answering DEF RefuseJob
  <1>5. CASE CheckFilesExist(h)
    BY <1>a, <1>b, <1>5, Answering, Moving DEF CheckFilesExist, Awaiting
  <1>6. ASSUME NEW f \in ShapeFiles, GetFileChecksum(h, f)  PROVE Ends(h) \/ Continues(h)
    <2> DEFINE read == req[h].read \cup {ChecksumOf(req[h].product, f)}
               r(at) == [req[h] EXCEPT !.at = at, !.read = read]
    <2>1. read \in SUBSET Checksum  BY <1>0, ChecksumType
    <2>2. \A at \in Awaits : /\ r(at) \in Request /\ r(at).op = req[h].op
                            /\ r(at).status = req[h].status /\ r(at).checked = req[h].checked
      BY <1>0, <2>1 DEF Request
    <2>3. [req[h] EXCEPT !.read = read] = r("checksums")
      BY <1>0, <1>6 DEF Request, GetFileChecksum
    <2>4. Ends(h) \/ \E at \in {"checksums", "updateTask", "createJob"} : Proceed(h, r(at))
      BY <1>6, <2>3, Answering DEF GetFileChecksum, RetryDecision, BypassDecision
    <2>5. req[h].at = "checksums"  BY <1>6 DEF GetFileChecksum
    <2> HIDE DEF r
    <2> QED  BY <1>b, <2>2, <2>4, <2>5 DEF Continues, Awaiting
  <1>7. CASE RetryGetTasks(h)
    <2> DEFINE t == task[req[h].job]
               at == IF t.isValid THEN "resetJob" ELSE "deleteEntity"
               r == [req[h] EXCEPT !.task = t, !.at = at]
    <2>1. t \in Task
      BY <1>7 DEF RetryGetTasks, Awaiting, TypeInv, TypeOK, JobRequests, JobOps
    <2>2. at \in Awaits  BY <1>b
    <2>3. r \in Request /\ r.op = req[h].op /\ r.status = req[h].status /\ r.checked = req[h].checked
      <3> HIDE DEF t, at
      <3> QED  BY <1>0, <2>1, <2>2 DEF Request
    <2>4. Proceed(h, r)  BY <1>7 DEF RetryGetTasks
    <2> QED  BY <1>7, <2>3, <2>4 DEF RetryGetTasks, Awaiting, Continues
  <1>8. CASE \/ RetryDeleteEntity(h) \/ HardResetTask(h) \/ BypassUpdateTask(h) \/ BypassUpdateJob(h)
             \/ AbortGetTasks(h) \/ AbortJob(h)
    <2>1. \/ Ends(h)
          \/ \E at \in {"filesExist", "updateJob", "notify", "abortJob", "deleteEntity"} : GoesOn(h, at)
      <3>1. CASE RetryDeleteEntity(h)  BY <1>b, <3>1, Answering, Moving DEF RetryDeleteEntity
      <3>2. CASE AbortGetTasks(h)  BY <1>b, <3>2, Answering, Moving DEF AbortGetTasks
      <3>3. CASE HardResetTask(h) \/ BypassUpdateTask(h) \/ BypassUpdateJob(h) \/ AbortJob(h)
        BY <1>b, <3>3, Moving DEF HardResetTask, BypassUpdateTask, BypassUpdateJob, AbortJob
      <3> QED  BY <1>8, <3>1, <3>2, <3>3
    <2>2. /\ req[h].at \in {"deleteEntity", "updateTask", "updateJob", "getTasks", "abortJob"}
          /\ ~Awaiting(h, "bypass", "getTasks")
      BY <1>8 DEF RetryDeleteEntity, HardResetTask, BypassUpdateTask, BypassUpdateJob, AbortGetTasks,
         AbortJob, Awaiting
    <2> QED  BY <1>a, <1>b, <2>1, <2>2
  <1>9. CASE SoftReset(h) \/ HardResetJob(h) \/ BypassNotify(h) \/ AbortDeleteEntity(h)
    BY <1>9, Answering DEF SoftReset, HardResetJob, BypassNotify, AbortDeleteEntity
  <1>10. CASE CallFails(h)
    BY <1>a, <1>b, <1>10, Answering, Moving DEF CallFails, Awaiting
  <1>11. CASE FirstRead(h)  BY <1>11
  <1> QED
    BY <1>1, <1>2, <1>3, <1>4, <1>5, <1>6, <1>7, <1>8, <1>9, <1>10, <1>11
       DEF Step, Admit, ReadFiles, Retry, Bypass, Abort, FirstRead

-----------------------------------------------------------------------------
(* What a request holds as `checked` is what it held before, nothing, or,  *)
(* right after findJobs found no conflict, the jobs of its product.        *)
LEMMA CheckedStep ==
    ASSUME TypeInv, [Next]_vars, NEW h \in Handlers
    PROVE  \/ req'[h].checked \subseteq req[h].checked
           \/ \A j \in req'[h].checked : j \in Jobs /\ Passed(j)
  <1> DEFINE Fewer == req'[h].checked \subseteq req[h].checked
  <1>0. /\ req \in [Handlers -> Request] /\ req[h] \in Request
        /\ Idle.checked = {} /\ \A st : [Idle EXCEPT !.answer = st].checked = {}
    BY DEF TypeInv, TypeOK, Idle
  <1>1. ASSUME NEW g \in Handlers, Ends(g)  PROVE Fewer
    BY <1>0, <1>1 DEF Ends
  <1>2. ASSUME NEW g \in Handlers, NEW r, Proceed(g, r), r.checked \subseteq req[g].checked  PROVE Fewer
    BY <1>0, <1>2 DEF Proceed
  <1>3. ASSUME NEW g \in Handlers, Receive(g)  PROVE Fewer
    <2>1. \E r : Proceed(g, r) /\ r.checked = {}
      <3>1. \A p : [Idle EXCEPT !.op = "new", !.at = "inputFiles", !.product = p,
                               !.version = 1].checked = {}
        BY DEF Idle
      <3>2. \A p : [Idle EXCEPT !.op = "update", !.at = "findById", !.product = p].checked = {}
        BY DEF Idle
      <3>3. \A op, p, j, a : [Idle EXCEPT !.op = op, !.at = "getJob", !.product = p, !.job = j,
                                         !.allowed = a].checked = {}
        BY DEF Idle
      <3>4. CASE \E p \in Products : ReceiveNew(g, p) \/ ReceiveUpdate(g, p)
        BY <3>1, <3>2, <3>4 DEF ReceiveNew, ReceiveUpdate
      <3>5. ASSUME NEW op, NEW j, NEW a, ReceiveForJob(g, op, j, a)
            PROVE  \E r : Proceed(g, r) /\ r.checked = {}
        BY <3>3, <3>5 DEF ReceiveForJob
      <3> QED  BY <1>3, <3>4, <3>5 DEF Receive
    <2> QED  BY <1>2, <2>1
  <1>4. ASSUME NEW g \in Handlers, CheckNoParallelJobs(g)
        PROVE  Fewer \/ \A j \in req'[h].checked : j \in Jobs /\ Passed(j)
    <2> DEFINE seen == {j \in Jobs : Exists(j) /\ Product(j) = req[g].product}
    <2>1. CASE Ends(g)  BY <1>1, <2>1
    <2>2. CASE /\ Conflicting(req[g].product) = {}
               /\ Proceed(g, [req[g] EXCEPT !.at = "checksums", !.checked = seen])
      <3>1. \A j \in seen : j \in Jobs /\ Passed(j)
        BY <2>2 DEF Conflicting, Passed, Active
      <3>2. CASE h = g
        <4>1. req'[h].checked = seen  BY <1>0, <2>2, <3>2 DEF Proceed, Request
        <4> HIDE DEF seen
        <4> QED  BY <3>1, <4>1
      <3>3. CASE h # g  BY <1>0, <2>2, <3>3 DEF Proceed
      <3> QED  BY <3>2, <3>3
    <2> QED  BY <1>4, <2>1, <2>2, Answering DEF CheckNoParallelJobs
  <1>5. ASSUME NEW g \in Handlers, RetryGetJob(g) \/ BypassGetJob(g) \/ BypassGetTasks(g) \/ AbortGetJob(g)
        PROVE  Fewer
    <2>1. req[g] \in Request  BY DEF TypeInv, TypeOK
    <2>2. Ends(g) \/ \E r : Proceed(g, r) /\ r.checked = req[g].checked
      <3>1. \A st : [req[g] EXCEPT !.at = "getTasks", !.status = st].checked = req[g].checked
        BY <2>1 DEF Request
      <3>2. \A t : [req[g] EXCEPT !.at = "filesExist", !.task = t].checked = req[g].checked
        BY <2>1 DEF Request
      <3> QED  BY <1>5, <3>1, <3>2, Answering DEF RetryGetJob, BypassGetJob, BypassGetTasks, AbortGetJob
    <2> QED  BY <1>1, <1>2, <2>2
  <1>6. ASSUME NEW g \in Handlers, Step(g)
        PROVE  Fewer \/ \A j \in req'[h].checked : j \in Jobs /\ Passed(j)
    <2>1. Ends(g) \/ Continues(g) \/ FirstRead(g)  BY <1>6, StepKinds
    <2>2. CASE Continues(g)  BY <1>2, <2>2 DEF Continues
    <2> QED  BY <1>1, <1>4, <1>5, <2>1, <2>2 DEF FirstRead
  <1>7. CASE Crash  BY <1>0, <1>7 DEF Crash
  <1>8. CASE WorldNext \/ UNCHANGED vars
    <2>1. req' = req
      BY <1>8 DEF WorldNext, WorkerNext, StartValidation, FinishValidation, FailValidation, Resume,
         FailLater, AddFinalize, Publish, Complete, Expire, CleanUp, EditFile, vars
    <2> QED  BY <2>1
  <1> QED  BY <1>3, <1>6, <1>7, <1>8 DEF Next

(* The jobs a job is recorded to have seen are those its request checked.  *)
LEMMA SawStep ==
    ASSUME TypeInv, [Next]_vars, NEW k \in Jobs
    PROVE  saw'[k] = saw[k] \/ \E h \in Handlers : saw'[k] = req[h].checked
  <1>1. ASSUME NEW h \in Handlers, Admit(h)
        PROVE  saw'[k] = saw[k] \/ saw'[k] = req[h].checked
    <2>1. ASSUME NEW j \in Jobs, CreateJob(h, j)
          PROVE  saw'[k] = saw[k] \/ saw'[k] = req[h].checked
      BY <2>1 DEF CreateJob, TypeInv, TypeOK
    <2> QED
      BY <1>1, <2>1 DEF Admit, GetLayerMetadata, ValidateInputFiles, CheckMapProxy, CheckCatalog,
         CheckNoParallelJobs, RefuseJob, history
  <1>2. ASSUME NEW h \in Handlers, Receive(h) \/ ReadFiles(h) \/ CallFails(h) \/ Crash  PROVE saw' = saw
    BY <1>2 DEF Receive, ReceiveNew, ReceiveUpdate, ReceiveForJob, ReadFiles, CheckFilesExist,
       GetFileChecksum, CallFails, Crash, history
  <1>3. ASSUME NEW h \in Handlers, Retry(h) \/ Bypass(h) \/ Abort(h)  PROVE saw' = saw
    BY <1>3 DEF Retry, RetryGetJob, RetryGetTasks, SoftReset, RetryDeleteEntity, HardResetTask,
       HardResetJob, Bypass, BypassGetJob, BypassGetTasks, BypassUpdateTask, BypassUpdateJob,
       BypassNotify, Abort, AbortGetJob, AbortGetTasks, AbortJob, AbortDeleteEntity, history
  <1>4. CASE WorldNext \/ UNCHANGED vars
    BY <1>4 DEF WorldNext, WorkerNext, StartValidation, FinishValidation, FailValidation, Resume,
       FailLater, AddFinalize, Publish, Complete, Expire, CleanUp, EditFile, vars
  <1>5. CASE Crash  BY <1>5 DEF Crash, history
  <1> QED  BY <1>1, <1>2, <1>3, <1>4, <1>5 DEF Next, Step

(* AdmissionInv is inductive.                                              *)
LEMMA AdmissionStep == TypeInv /\ AdmissionInv /\ [Next]_vars => AdmissionInv'
  <1> SUFFICES ASSUME TypeInv, AdmissionInv, [Next]_vars PROVE AdmissionInv'  OBVIOUS
  <1>1. /\ \A k \in Jobs : saw[k] \subseteq Jobs
        /\ \A h \in Handlers : req[h].checked \subseteq Jobs
    BY DEF TypeInv, TypeOK, Request
  <1>2. \A j \in Jobs : Settled(j) => Settled(j)'  BY StaysSettled
  <1>3. ASSUME NEW k \in Jobs, NEW j \in saw'[k]  PROVE Settled(j)'
    <2>1. j \in saw[k] \/ \E h \in Handlers : j \in req[h].checked  BY <1>3, SawStep
    <2> QED  BY <1>1, <1>2, <2>1 DEF AdmissionInv
  <1>4. ASSUME NEW h \in Handlers, NEW j \in req'[h].checked  PROVE Settled(j)'
    <2>1. j \in req[h].checked \/ (j \in Jobs /\ Passed(j))  BY <1>4, CheckedStep
    <2>2. j \in Jobs /\ Settled(j)  BY <1>1, <2>1 DEF AdmissionInv, Settled, Passed
    <2> QED  BY <1>2, <2>2
  <1> QED  BY <1>3, <1>4 DEF AdmissionInv

(* Whatever requests overlap, whichever calls fail and whenever the        *)
(* service restarts: two active jobs of a product were admitted without    *)
(* either admission having seen the other, unless one was brought back     *)
(* after it was closed or is active although it was cleaned up.            *)
THEOREM AdmissionIsSound == Spec => []AdmissionSound
  <1>1. Init => AdmissionInv  BY DEF Init, AdmissionInv, Idle
  <1>2. TypeInv /\ MarksInv /\ AdmissionInv => AdmissionSound
    BY DEF TypeInv, TypeOK, MarksInv, AdmissionInv, AdmissionSound, Settled
  <1> QED
    BY <1>1, <1>2, TypeInvInit, TypeInvStep, MarksInit, MarksStep, AdmissionStep, PTL DEF Spec

-----------------------------------------------------------------------------
(* The inductive invariant of revivals: a retry or a bypass that got past  *)
(* its guards still holds the job status they accepted.                    *)
StatusRead(r) ==
    /\ r.op = "retry" /\ r.at \notin {"idle", "getJob"} => r.status \in {"FAILED", "SUSPENDED"}
    /\ r.op = "bypass" /\ r.at \notin {"idle", "getJob", "getTasks"} => r.status = "SUSPENDED"

StatusesRead == \A h \in Handlers : StatusRead(req[h])

(* StatusesRead is inductive.                                              *)
LEMMA StatusReadStep == TypeInv /\ StatusesRead /\ [Next]_vars => StatusesRead'
  <1> SUFFICES ASSUME TypeInv, StatusesRead, [Next]_vars PROVE StatusesRead'  OBVIOUS
  <1>0. /\ req \in [Handlers -> Request]
        /\ \A g \in Handlers : req[g] \in Request /\ StatusRead(req[g])
        /\ StatusRead(Idle) /\ \A st : StatusRead([Idle EXCEPT !.answer = st])
    BY DEF TypeInv, TypeOK, StatusesRead, StatusRead, Idle
  <1>1. ASSUME NEW g \in Handlers, NEW r, StatusRead(r), Proceed(g, r)  PROVE StatusesRead'
    BY <1>0, <1>1 DEF Proceed, StatusesRead
  <1>2. ASSUME NEW g \in Handlers, Ends(g)  PROVE StatusesRead'
    BY <1>0, <1>2 DEF Ends, StatusesRead
  <1>3. ASSUME NEW g \in Handlers, Receive(g)  PROVE StatusesRead'
    <2>1. \A p : StatusRead([Idle EXCEPT !.op = "new", !.at = "inputFiles", !.product = p,
                                         !.version = 1])
      BY DEF Idle, StatusRead
    <2>2. \A p : StatusRead([Idle EXCEPT !.op = "update", !.at = "findById", !.product = p])
      BY DEF Idle, StatusRead
    <2>3. \A op, p, j, a : StatusRead([Idle EXCEPT !.op = op, !.at = "getJob", !.product = p,
                                                  !.job = j, !.allowed = a])
      BY DEF Idle, StatusRead
    <2>4. CASE \E p \in Products : ReceiveNew(g, p) \/ ReceiveUpdate(g, p)
      BY <1>1, <2>1, <2>2, <2>4 DEF ReceiveNew, ReceiveUpdate
    <2>5. ASSUME NEW op, NEW j, NEW a, ReceiveForJob(g, op, j, a)  PROVE StatusesRead'
      BY <1>1, <2>3, <2>5 DEF ReceiveForJob
    <2> QED  BY <1>3, <2>4, <2>5 DEF Receive
  <1>4. ASSUME NEW g \in Handlers, Continues(g)  PROVE StatusesRead'
    <2>1. PICK r \in Request : Proceed(g, r) /\ r.op = req[g].op /\ r.status = req[g].status
      BY <1>4 DEF Continues
    <2>2. StatusRead(r)  BY <1>0, <1>4, <2>1 DEF Continues, Awaiting, StatusRead
    <2> QED  BY <1>1, <2>1, <2>2
  <1>5. ASSUME NEW g \in Handlers, FirstRead(g)  PROVE StatusesRead'
    <2>1. CASE CheckNoParallelJobs(g)
      <3> DEFINE seen == {j \in Jobs : Exists(j) /\ Product(j) = req[g].product}
                 r == [req[g] EXCEPT !.at = "checksums", !.checked = seen]
      <3>1. StatusRead(r)
        BY <1>0, <2>1 DEF CheckNoParallelJobs, StatusRead, Request
      <3>2. Ends(g) \/ Proceed(g, r)  BY <2>1, Answering DEF CheckNoParallelJobs
      <3> HIDE DEF r
      <3> QED  BY <1>1, <1>2, <3>1, <3>2
    <2>2. CASE RetryGetJob(g) \/ BypassGetJob(g) \/ AbortGetJob(g)
      <3> DEFINE s == job[req[g].job].status
                 r == [req[g] EXCEPT !.at = "getTasks", !.status = s]
      <3>1. /\ Ends(g) \/ Proceed(g, r)
            /\ req[g].op \in {"bypass", "abort"} \/ Ends(g) \/ s \in {"FAILED", "SUSPENDED"}
        BY <2>2, Answering DEF RetryGetJob, BypassGetJob, AbortGetJob, Awaiting, Retryable
      <3>2. Ends(g) \/ StatusRead(r)
        BY <1>0, <3>1 DEF StatusRead, Request
      <3> HIDE DEF r, s
      <3> QED  BY <1>1, <1>2, <3>1, <3>2
    <2>3. CASE BypassGetTasks(g)
      <3> DEFINE r == [req[g] EXCEPT !.at = "filesExist", !.task = task[req[g].job]]
      <3>1. Ends(g) \/ (Proceed(g, r) /\ req[g].status = "SUSPENDED")
        BY <2>3, Answering DEF BypassGetTasks, CanBypass
      <3>2. req[g].status = "SUSPENDED" => StatusRead(r)
        BY <1>0 DEF StatusRead, Request
      <3> HIDE DEF r
      <3> QED  BY <1>1, <1>2, <3>1, <3>2
    <2> QED  BY <1>5, <2>1, <2>2, <2>3 DEF FirstRead
  <1>6. ASSUME NEW g \in Handlers, Step(g)  PROVE StatusesRead'
    BY <1>2, <1>4, <1>5, <1>6, StepKinds
  <1>7. CASE Crash  BY <1>0, <1>7 DEF Crash, StatusesRead
  <1>8. CASE WorldNext \/ UNCHANGED vars
    <2>1. req' = req
      BY <1>8 DEF WorldNext, WorkerNext, StartValidation, FinishValidation, FailValidation, Resume,
         FailLater, AddFinalize, Publish, Complete, Expire, CleanUp, EditFile, vars
    <2> QED  BY <2>1 DEF StatusesRead
  <1> QED  BY <1>3, <1>6, <1>7, <1>8 DEF Next

(* A step that brings a closed job back is a write of a retry or a bypass. *)
LEMMA ReviveStep ==
    ASSUME TypeInv, Next, NEW j \in Jobs, Exists(j), ~Active(j), Active(j)'
    PROVE  \E h \in Handlers :
              /\ req[h].job = j
              /\ \/ Awaiting(h, "retry", "resetJob")
                 \/ Awaiting(h, "retry", "updateJob")
                 \/ Awaiting(h, "bypass", "updateJob")
  <1> DEFINE Same == job'[j].status = job[j].status
  <1>0. ~Same  BY DEF Active
  <1>1. \A k \in Jobs : \A r : SetJob(k, r) /\ k # j => Same
    BY DEF SetJob, TypeInv, TypeOK
  <1>2. ASSUME NEW h \in Handlers, Receive(h) \/ ReadFiles(h) \/ CallFails(h)  PROVE FALSE
    BY <1>0, <1>2 DEF Receive, ReceiveNew, ReceiveUpdate, ReceiveForJob, ReadFiles, CheckFilesExist,
       GetFileChecksum, CallFails, remote
  <1>3. ASSUME NEW h \in Handlers, Admit(h)  PROVE FALSE
    <2>1. ASSUME NEW k \in Jobs, CreateJob(h, k)  PROVE Same
      BY <2>1 DEF CreateJob, Exists, TypeInv, TypeOK
    <2> QED
      BY <1>0, <1>3, <2>1 DEF Admit, GetLayerMetadata, ValidateInputFiles, CheckMapProxy,
         CheckCatalog, CheckNoParallelJobs, RefuseJob, remote
  <1>4. ASSUME NEW h \in Handlers, Retry(h)
        PROVE  req[h].job = j /\ (Awaiting(h, "retry", "resetJob") \/ Awaiting(h, "retry", "updateJob"))
    <2>1. CASE SoftReset(h) \/ HardResetJob(h)
      <3>1. req[h].job \in Jobs
        BY <2>1 DEF SoftReset, HardResetJob, Awaiting, TypeInv, JobRequests, JobOps
      <3> QED  BY <1>0, <1>1, <2>1, <3>1 DEF SoftReset, HardResetJob, ResetJob
    <2> QED
      BY <1>0, <1>4, <2>1 DEF Retry, RetryGetJob, RetryGetTasks, RetryDeleteEntity, HardResetTask, remote
  <1>5. ASSUME NEW h \in Handlers, Bypass(h)
        PROVE  req[h].job = j /\ Awaiting(h, "bypass", "updateJob")
    <2>1. CASE BypassUpdateJob(h)
      <3>1. req[h].job \in Jobs  BY <2>1 DEF BypassUpdateJob, Awaiting, TypeInv, JobRequests, JobOps
      <3> QED  BY <1>0, <1>1, <2>1, <3>1 DEF BypassUpdateJob
    <2>2. CASE BypassNotify(h)
      <3>1. req[h].job \in Jobs  BY <2>2 DEF BypassNotify, Awaiting, TypeInv, JobRequests, JobOps
      <3>2. Same  BY <2>2, <3>1 DEF BypassNotify, TypeInv, TypeOK, Job
      <3> QED  BY <1>0, <3>2
    <2> QED
      BY <1>0, <1>5, <2>1, <2>2 DEF Bypass, BypassGetJob, BypassGetTasks, BypassUpdateTask, remote
  <1>6. ASSUME NEW h \in Handlers, Abort(h)  PROVE FALSE
    <2>1. CASE AbortJob(h)
      <3>1. req[h].job \in Jobs  BY <2>1 DEF AbortJob, Awaiting, TypeInv, JobRequests, JobOps
      <3>2. req[h].job = j  BY <1>0, <1>1, <2>1, <3>1 DEF AbortJob
      <3>3. job'[j].status = "ABORTED"
        BY <2>1, <3>2 DEF AbortJob, SetJob, TypeInv, TypeOK, Job
      <3> QED  BY <3>3 DEF Active, Blocking
    <2> QED  BY <1>0, <1>6, <2>1 DEF Abort, AbortGetJob, AbortGetTasks, AbortDeleteEntity, remote
  <1>7. CASE Crash  BY <1>0, <1>7 DEF Crash, remote
  <1>8. CASE WorldNext
    <2>1. ASSUME NEW k \in Jobs,
                 \/ StartValidation(k) \/ FailValidation(k) \/ Resume(k) \/ FailLater(k)
                 \/ AddFinalize(k) \/ Complete(k) \/ Expire(k)
                 \/ \E s \in Summaries : FinishValidation(k, s)
          PROVE  FALSE
      <3>1. Active(k) /\ \E r : SetJob(k, r)
        BY <2>1 DEF StartValidation, FinishValidation, FailValidation, Resume, FailLater, AddFinalize,
           Complete, Expire, Active, Blocking
      <3> QED  BY <1>0, <1>1, <3>1
    <2>2. ASSUME NEW k \in Jobs, Publish(k)  PROVE FALSE  BY <1>0, <2>2 DEF Publish
    <2>3. ASSUME NEW p \in Products, NEW f \in ShapeFiles, EditFile(p, f)  PROVE FALSE
      BY <1>0, <2>3 DEF EditFile
    <2>4. ASSUME NEW k \in Jobs, CleanUp(k)  PROVE FALSE
      <3>1. Same  BY <2>4 DEF CleanUp, SetJob, TypeInv, TypeOK, Job
      <3> QED  BY <1>0, <3>1
    <2> QED  BY <1>8, <2>1, <2>2, <2>3, <2>4 DEF WorldNext, WorkerNext
  <1> QED  BY <1>2, <1>3, <1>4, <1>5, <1>6, <1>7, <1>8 DEF Next, Step

(* Whatever requests overlap and fail: a closed job becomes active again   *)
(* only by the write of a retry or a bypass that had read it in a status   *)
(* the operation accepts.  Nothing else resurrects a job.                  *)
THEOREM RevivalOnlyByStaleRead == Spec => RevivalNeedsStaleRead
  <1> DEFINE Excused(j) ==
        \E h \in Handlers :
           /\ Working(h, j)
           /\ req[h].at \in {"resetJob", "updateJob"}
           /\ req[h].op = "retry" => req[h].status \in {"FAILED", "SUSPENDED"}
           /\ req[h].op = "bypass" => req[h].status = "SUSPENDED"
        Act == \A j \in Jobs : Exists(j) /\ ~Active(j) /\ Active(j)' => Excused(j)
  <1>1. Init => StatusesRead  BY DEF Init, StatusesRead, StatusRead, Idle
  <1>2. TypeInv /\ StatusesRead /\ [Next]_vars => [Act]_vars
    <2> SUFFICES ASSUME TypeInv, StatusesRead, Next, NEW j \in Jobs, Exists(j), ~Active(j), Active(j)'
                 PROVE  Excused(j)
      OBVIOUS
    <2>1. PICK h \in Handlers : /\ req[h].job = j
                                /\ \/ Awaiting(h, "retry", "resetJob")
                                   \/ Awaiting(h, "retry", "updateJob")
                                   \/ Awaiting(h, "bypass", "updateJob")
      BY ReviveStep
    <2>2. StatusRead(req[h])  BY DEF StatusesRead
    <2> QED  BY <2>1, <2>2 DEF StatusRead, Awaiting, Working
  <1> QED
    BY <1>1, <1>2, TypeInvInit, TypeInvStep, StatusReadStep, PTL DEF Spec, RevivalNeedsStaleRead

-----------------------------------------------------------------------------
(* The openapi document admits only "resolution" in allowedValidationErrors*)
(* of a bypass.  Whatever such a list holds, it decides nothing: a         *)
(* resolution error is refused when it exceeds its threshold and let pass  *)
(* when it does not.                                                       *)
THEOREM AllowedListDecidesNothing ==
    ASSUME NEW s \in Summary, NEW allowed \in SUBSET {"resolution"}
    PROVE  Bypassable(s, allowed) <=> Bypassable(s, {})
  BY PolicyAssumption DEF Bypassable, Acceptable, Summary
=============================================================================
