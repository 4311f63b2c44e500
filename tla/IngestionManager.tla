--------------------------- MODULE IngestionManager ---------------------------
(***************************************************************************)
(* The request handlers of IngestionManager                                *)
(* (src/ingestion/models/ingestionManager.ts).  Every await of a handler   *)
(* is an action: the remote call takes effect and the handler runs on to   *)
(* its next await, so handlers, workers and users interleave exactly where *)
(* the event loop lets them.  req[h].at names the call being awaited.      *)
(***************************************************************************)
EXTENDS IngestionWorld

Awaiting(h, op, at) == req[h].op = op /\ req[h].at = at

(* The controllers set the status of the errors they know; the errors of   *)
(* the HTTP clients have one of their own, whichever operation they end;   *)
(* the rest are answered 500.  The bypass does not know ValidationError,   *)
(* and only the update knows GpkgError.                                    *)
StatusOf(op, error) ==
    CASE error = "none" -> 200
      [] error = "ValidationError" /\ op # "bypass" -> 400
      [] error = "BadRequestError" -> 400
      [] error = "NotFoundError" -> 404
      [] error = "ConflictError" -> 409
      [] error = "UnsupportedEntityError" -> 422
      [] error = "GpkgError" /\ op = "update" -> 422
      [] OTHER -> 500

(* The request is answered, by a result ("none") or by an error: what it   *)
(* read is forgotten.                                                      *)
Respond(h, error) ==
    req' = [req EXCEPT ![h] = [Idle EXCEPT !.answer = StatusOf(req[h].op, error)]]

Proceed(h, r) == req' = [req EXCEPT ![h] = r]
GoTo(h, at) == Proceed(h, [req[h] EXCEPT !.at = at])

(* After a remote write, whose reply may be lost.                          *)
MaybeLost(h) == "lostReply" \in Faults /\ Respond(h, "Error")

WroteThen(h, at) == Proceed(h, [req[h] EXCEPT !.at = at, !.wrote = TRUE])
WriteThen(h, at) == WroteThen(h, at) \/ MaybeLost(h)
LastWrite(h) == Respond(h, "none") \/ MaybeLost(h)

-----------------------------------------------------------------------------
(* A request arrives.                                                      *)

ReceiveNew(h, p) ==
    /\ req[h].at = "idle" /\ "new" \in Serves[h]
    /\ Proceed(h, [Idle EXCEPT !.op = "new", !.at = "inputFiles", !.product = p, !.version = 1])
    /\ UNCHANGED <<remote, history>>

ReceiveUpdate(h, p) ==
    /\ req[h].at = "idle" /\ "update" \in Serves[h]
    /\ Proceed(h, [Idle EXCEPT !.op = "update", !.at = "findById", !.product = p])
    /\ UNCHANGED <<remote, history>>

ReceiveForJob(h, op, j, allowed) ==
    /\ req[h].at = "idle" /\ op \in Serves[h]
    /\ Exists(j)
    /\ Proceed(h, [Idle EXCEPT !.op = op, !.at = "getJob", !.product = Product(j), !.job = j,
                               !.allowed = allowed])
    /\ UNCHANGED <<remote, history>>

-----------------------------------------------------------------------------
(* newLayer and updateLayer                                                *)

(* MapProxyClient.exists, CatalogClient.exists                             *)
ExistsInMapProxy(p) == served[p]
ExistsInCatalog(p) == catalog[p] # 0

(* getLayerMetadata: the version of the new job is fixed here.  That the   *)
(* catalog has more than one layer of an id is an answer of the catalog    *)
(* (ErrorsOf): the models hold one layer per product.                      *)
GetLayerMetadata(h) ==
    /\ Awaiting(h, "update", "findById")
    /\ LET p == req[h].product IN
       IF ExistsInCatalog(p)
         THEN Proceed(h, [req[h] EXCEPT !.at = "inputFiles", !.version = catalog[p] + 1])
         ELSE Respond(h, "NotFoundError")
    /\ UNCHANGED <<remote, history>>

(* validateInputFiles; its failures are those of the call (CallFails).     *)
ValidateInputFiles(h) ==
    /\ req[h].at = "inputFiles"
    /\ GoTo(h, "mapProxy")
    /\ UNCHANGED <<remote, history>>

(* validateLayerDoesntExistInMapProxy, validateLayerExistsInMapProxy       *)
CheckMapProxy(h) ==
    /\ req[h].at = "mapProxy"
    /\ LET exists == ExistsInMapProxy(req[h].product) IN
       CASE req[h].op = "new"    /\ ~exists -> GoTo(h, "catalog")
         [] req[h].op = "update" /\ exists  -> GoTo(h, "findJobs")
         [] req[h].op = "new"    /\ exists  -> Respond(h, "ConflictError")
         [] OTHER                           -> Respond(h, "NotFoundError")
    /\ UNCHANGED <<remote, history>>

(* validateLayerDoesntExistInCatalog                                       *)
CheckCatalog(h) ==
    /\ req[h].at = "catalog"
    /\ IF ExistsInCatalog(req[h].product) THEN Respond(h, "ConflictError") ELSE GoTo(h, "findJobs")
    /\ UNCHANGED <<remote, history>>

(* mutant: only running jobs are asked for                                 *)
ConflictingRunning(p) ==
    {j \in Jobs : Product(j) = p /\ job[j].status \in {"PENDING", "IN_PROGRESS"} /\ ~job[j].cleaned}

Conflicting(p) == {j \in Jobs : Product(j) = p /\ job[j].status \in Blocking /\ ~job[j].cleaned}

(* validateNoParallelJobs                                                  *)
CheckNoParallelJobs(h) ==
    /\ req[h].at = "findJobs"
    /\ IF Conflicting(req[h].product) = {}
         THEN Proceed(h, [req[h] EXCEPT !.at = "checksums",
                            !.checked = {j \in Jobs : Exists(j) /\ Product(j) = req[h].product}])
         ELSE Respond(h, "ConflictError")
    /\ UNCHANGED <<remote, history>>

(* newLayerJobPayload, updateLayerJobPayload, createIngestionJob: the job  *)
(* and its validation task are created together.                           *)
CreateJob(h, j) ==
    /\ req[h].at = "createJob"
    /\ ~Exists(j)
    /\ job' = [job EXCEPT ![j] = [BlankJob EXCEPT !.status = "PENDING",
                                    !.product = req[h].product, !.version = req[h].version]]
    /\ task' = [task EXCEPT ![j] = [BlankTask EXCEPT !.checksums = req[h].read]]
    /\ saw' = [saw EXCEPT ![j] = req[h].checked]
    /\ LastWrite(h)
    /\ UNCHANGED <<catalog, served, entity, shapefile, revived, ran>>

(* All of Jobs in use: the bound shows as a job manager that takes no more.    *)
RefuseJob(h) ==
    /\ req[h].at = "createJob"
    /\ \A j \in Jobs : Exists(j)
    /\ Respond(h, "Error")
    /\ UNCHANGED <<remote, history>>

-----------------------------------------------------------------------------
(* getChecksum: the files are read one by one, in any order (Promise.all). *)
(* With the last one the handler goes on to its decision.                  *)

(* mutant: the request waits until a file changes                          *)
RetryDecisionPolls(h, read) ==
    LET t == req[h].task IN
    IF t.status = "COMPLETED" /\ ~isChecksumChanged(t.checksums, read)
      THEN Proceed(h, [req[h] EXCEPT !.at = "filesExist", !.read = {}])
      ELSE Proceed(h, [req[h] EXCEPT !.at = "updateTask", !.read = read])

RetryDecision(h, read) ==
    LET t == req[h].task IN
    IF t.status = "COMPLETED" /\ ~isChecksumChanged(t.checksums, read)
      THEN Respond(h, "ConflictError")
      ELSE Proceed(h, [req[h] EXCEPT !.at = "updateTask", !.read = read])

(* mutant: the files are not compared                                      *)
BypassDecisionBlind(h, read) == Proceed(h, [req[h] EXCEPT !.at = "updateTask", !.read = read])

BypassDecision(h, read) ==
    IF isChecksumChanged(req[h].task.checksums, read)
      THEN Respond(h, "ConflictError")
      ELSE Proceed(h, [req[h] EXCEPT !.at = "updateTask", !.read = read])

GetFileChecksum(h, f) ==
    /\ req[h].at = "checksums"
    /\ \A c \in req[h].read : c[1] # f
    /\ LET read == req[h].read \cup {ChecksumOf(req[h].product, f)} IN
       CASE \E g \in ShapeFiles : \A c \in read : c[1] # g -> Proceed(h, [req[h] EXCEPT !.read = read])
         [] OTHER ->
            CASE req[h].op = "retry"  -> RetryDecision(h, read)
              [] req[h].op = "bypass" -> BypassDecision(h, read)
              [] OTHER -> Proceed(h, [req[h] EXCEPT !.at = "createJob", !.read = read])
    /\ UNCHANGED <<remote, history>>

-----------------------------------------------------------------------------
(* retryIngestion                                                          *)

(* mutant: isJobRetryable is not asked                                     *)
RetryGetJobAny(h) ==
    /\ Awaiting(h, "retry", "getJob")
    /\ Proceed(h, [req[h] EXCEPT !.at = "getTasks", !.status = job[req[h].job].status])
    /\ UNCHANGED <<remote, history>>

RetryGetJob(h) ==
    /\ Awaiting(h, "retry", "getJob")
    /\ LET s == job[req[h].job].status IN
       IF s \in Retryable THEN Proceed(h, [req[h] EXCEPT !.at = "getTasks", !.status = s])
                          ELSE Respond(h, "ConflictError")
    /\ UNCHANGED <<remote, history>>

(* mutant: the entity is deleted whether or not the validation passed      *)
RetryGetTasksPurge(h) ==
    /\ Awaiting(h, "retry", "getTasks")
    /\ Proceed(h, [req[h] EXCEPT !.task = task[req[h].job], !.at = "deleteEntity"])
    /\ UNCHANGED <<remote, history>>

RetryGetTasks(h) ==
    /\ Awaiting(h, "retry", "getTasks")
    /\ LET t == task[req[h].job] IN
       Proceed(h, [req[h] EXCEPT !.task = t,
                                 !.at = IF t.isValid THEN "resetJob" ELSE "deleteEntity"])
    /\ UNCHANGED <<remote, history>>

(* The job is pending again; whether the task has meanwhile become another *)
(* one than the retry looked at or wrote is remembered.  The retry does    *)
(* not look at isCleaned, nor reset it.                                    *)
ResetJob(j, outrun) ==
    SetJob(j, [job[j] EXCEPT !.status = "PENDING", !.stray = @ \/ job[j].cleaned,
                             !.outrun = @ \/ outrun])

(* softReset: the job manager resets the job and its failed tasks.         *)
SoftReset(h) ==
    /\ Awaiting(h, "retry", "resetJob")
    /\ LET j == req[h].job IN
       /\ ResetJob(j, task[j] # req[h].task)
       /\ SetTask(j, [task[j] EXCEPT !.status = IF @ = "FAILED" THEN "PENDING" ELSE @])
    /\ LastWrite(h)
    /\ UNCHANGED <<catalog, served, entity, shapefile, saw, ran>>

(* deleteValidationEntity, before the shapefile is looked at               *)
RetryDeleteEntity(h) ==
    /\ Awaiting(h, "retry", "deleteEntity")
    /\ entity' = [entity EXCEPT ![req[h].product] = NoJob]
    /\ GoTo(h, "filesExist") \/ MaybeLost(h)
    /\ UNCHANGED <<job, task, catalog, served, shapefile, saw, revived, ran>>

(* validateAndGetAbsoluteInputFiles, of hardReset and canBypass...         *)
CheckFilesExist(h) ==
    /\ req[h].at = "filesExist"
    /\ GoTo(h, "checksums")
    /\ UNCHANGED <<remote, history>>

(* mutant: the status of the task is left as it is                         *)
ResetParameters(r) ==
    [r.task EXCEPT !.checksums = buildUpdatedChecksums(@, r.read), !.summary = NoSummary]

(* manualResetJobAndTask: the parameters written keep isValid and the      *)
(* checksums read earlier; the errorsSummary is dropped.                   *)
ResetTask(r) ==
    [BlankTask EXCEPT !.isValid = r.task.isValid,
                      !.checksums = IF r.task.status = "COMPLETED"
                                      THEN buildUpdatedChecksums(r.task.checksums, r.read)
                                      ELSE r.task.checksums]

HardResetTask(h) ==
    /\ Awaiting(h, "retry", "updateTask")
    /\ SetTask(req[h].job, ResetTask(req[h]))
    /\ WriteThen(h, "updateJob")
    /\ UNCHANGED <<job, catalog, served, entity, shapefile, saw, revived, ran>>

HardResetJob(h) ==
    /\ Awaiting(h, "retry", "updateJob")
    /\ ResetJob(req[h].job, task[req[h].job] # ResetTask(req[h]))
    /\ LastWrite(h)
    /\ UNCHANGED <<task, catalog, served, entity, shapefile, saw, ran>>

-----------------------------------------------------------------------------
(* bypassValidationErrors                                                  *)

BypassGetJob(h) ==
    /\ Awaiting(h, "bypass", "getJob")
    /\ Proceed(h, [req[h] EXCEPT !.at = "getTasks", !.status = job[req[h].job].status])
    /\ UNCHANGED <<remote, history>>

(* canBypassValidationTask, up to its first await                          *)
CanBypass(t, status, allowed) ==
    /\ ~t.isValid
    /\ status = "SUSPENDED"
    /\ t.summary # NoSummary
    /\ Bypassable(t.summary, allowed)

BypassGetTasks(h) ==
    /\ Awaiting(h, "bypass", "getTasks")
    /\ LET t == task[req[h].job] IN
       IF CanBypass(t, req[h].status, req[h].allowed)
         THEN Proceed(h, [req[h] EXCEPT !.at = "filesExist", !.task = t])
         ELSE Respond(h, "UnsupportedEntityError")
    /\ UNCHANGED <<remote, history>>

(* mutant: the shapefile is compared after the write, too                  *)
BypassUpdateTaskFirst(h) ==
    /\ Awaiting(h, "bypass", "updateTask")
    /\ LET j == req[h].job
           t == req[h].task IN
       SetTask(j, [task[j] EXCEPT !.isValid = TRUE, !.checksums = t.checksums, !.summary = t.summary])
    /\ Proceed(h, [req[h] EXCEPT !.at = "filesExist", !.read = {}, !.wrote = TRUE])
    /\ UNCHANGED <<job, catalog, served, entity, shapefile, saw, revived, ran>>

(* makeValidationTaskCompleted: the task parameters read earlier are       *)
(* written back; a failure is swallowed.                                   *)
BypassUpdateTask(h) ==
    /\ Awaiting(h, "bypass", "updateTask")
    /\ LET j == req[h].job
           t == req[h].task IN
       SetTask(j, [task[j] EXCEPT !.isValid = TRUE, !.checksums = t.checksums, !.summary = t.summary])
    /\ WroteThen(h, "updateJob")
    /\ UNCHANGED <<job, catalog, served, entity, shapefile, saw, revived, ran>>

BypassUpdateJob(h) ==
    /\ Awaiting(h, "bypass", "updateJob")
    /\ SetJob(req[h].job, [job[req[h].job] EXCEPT !.status = "IN_PROGRESS",
                                                  !.stray = @ \/ job[req[h].job].cleaned,
                                                  !.approval = req[h].allowed])
    /\ WriteThen(h, "notify")
    /\ UNCHANGED <<task, catalog, served, entity, shapefile, saw, ran>>

BypassNotify(h) ==
    /\ Awaiting(h, "bypass", "notify")
    /\ job' = [job EXCEPT ![req[h].job].tracked = TRUE]
    /\ LastWrite(h)
    /\ UNCHANGED <<task, catalog, served, entity, shapefile, saw, revived, ran>>

-----------------------------------------------------------------------------
(* abortIngestion                                                          *)

AbortGetJob(h) ==
    /\ Awaiting(h, "abort", "getJob")
    /\ LET s == job[req[h].job].status IN
       IF s \in Unabortable THEN Respond(h, "ConflictError")
                            ELSE Proceed(h, [req[h] EXCEPT !.at = "getTasks", !.status = s])
    /\ UNCHANGED <<remote, history>>

(* mutant: the finalize task is not looked for                             *)
AbortGetTasksBlind(h) ==
    /\ Awaiting(h, "abort", "getTasks")
    /\ GoTo(h, "abortJob")
    /\ UNCHANGED <<remote, history>>

AbortGetTasks(h) ==
    /\ Awaiting(h, "abort", "getTasks")
    /\ IF job[req[h].job].finalize THEN Respond(h, "ConflictError") ELSE GoTo(h, "abortJob")
    /\ UNCHANGED <<remote, history>>

(* mutant: tasks get a job status                                          *)
AbortJobExpire(h) ==
    /\ Awaiting(h, "abort", "abortJob")
    /\ LET j == req[h].job IN
       /\ SetJob(j, [job[j] EXCEPT !.status = "ABORTED"])
       /\ SetTask(j, [task[j] EXCEPT !.status = "EXPIRED"])
    /\ WriteThen(h, "deleteEntity")
    /\ UNCHANGED <<catalog, served, entity, shapefile, saw, ran>>

(* The job manager aborts the job and its unfinished tasks.                *)
AbortJob(h) ==
    /\ Awaiting(h, "abort", "abortJob")
    /\ LET j == req[h].job IN
       /\ SetJob(j, [job[j] EXCEPT !.status = "ABORTED"])
       /\ SetTask(j, [task[j] EXCEPT !.status = IF @ = "COMPLETED" THEN @ ELSE "ABORTED"])
    /\ WriteThen(h, "deleteEntity")
    /\ UNCHANGED <<catalog, served, entity, shapefile, saw, ran>>

AbortDeleteEntity(h) ==
    /\ Awaiting(h, "abort", "deleteEntity")
    /\ entity' = [entity EXCEPT ![req[h].product] = NoJob]
    /\ LastWrite(h)
    /\ UNCHANGED <<job, task, catalog, served, shapefile, saw, revived, ran>>

-----------------------------------------------------------------------------
(* Faults                                                                  *)

(* The errors the HTTP clients throw: a 400, 404 or 409 of the service     *)
(* called has an error of its own, any other failure has not.              *)
RemoteErrors == {"BadRequestError", "NotFoundError", "ConflictError", "Error"}

(* The errors a call fails with: what the input files deserve (the module  *)
(* InputValidation tells when), paths the schema refuses or files that are *)
(* gone, one that cannot be read, a service that fails or refuses.  A 404  *)
(* of MapProxy and of the delete is an answer and no failure; the client   *)
(* of the job tracker wraps all errors in a plain one.  Among the errors   *)
(* of getTasks are a job without a validation task (404) and parameters    *)
(* the schema refuses (400), among those of findById more than one layer   *)
(* of that id (409).                                                       *)
ErrorsOf(at) ==
    CASE at = "inputFiles" -> {"ValidationError", "NotFoundError", "UnsupportedEntityError",
                               "GpkgError", "Error"}
      [] at = "filesExist" -> {"BadRequestError", "NotFoundError"}
      [] at = "checksums"  -> {"UnsupportedEntityError", "Error"}
      [] at \in {"mapProxy", "deleteEntity"} -> RemoteErrors \ {"NotFoundError"}
      [] at = "notify"     -> {"Error"}
      [] OTHER             -> RemoteErrors

(* mutant: the failure of the job's update is swallowed too                *)
CallFailsSwallowed(h) ==
    /\ "callFails" \in Faults
    /\ req[h].at # "idle"
    /\ CASE Awaiting(h, "bypass", "updateTask") -> GoTo(h, "updateJob")
         [] Awaiting(h, "bypass", "updateJob")  -> GoTo(h, "notify")
         [] OTHER -> \E error \in ErrorsOf(req[h].at) : Respond(h, error)
    /\ UNCHANGED <<remote, history>>

(* The awaited call is answered by an error: the handler throws, except    *)
(* that makeValidationTaskCompleted swallows the failure.                  *)
CallFails(h) ==
    /\ "callFails" \in Faults
    /\ req[h].at # "idle"
    /\ IF Awaiting(h, "bypass", "updateTask")
         THEN GoTo(h, "updateJob")
         ELSE \E error \in ErrorsOf(req[h].at) : Respond(h, error)
    /\ UNCHANGED <<remote, history>>

(* The process restarts: the requests in flight are gone.                  *)
Crash ==
    /\ "crash" \in Faults
    /\ \E h \in Handlers : req[h].at # "idle"
    /\ req' = [h \in Handlers |-> Idle]
    /\ UNCHANGED <<remote, history>>

-----------------------------------------------------------------------------
Receive(h) ==
    \/ \E p \in Products : ReceiveNew(h, p) \/ ReceiveUpdate(h, p)
    \/ \E j \in Jobs :
        \/ ReceiveForJob(h, "retry", j, {})
        \/ ReceiveForJob(h, "abort", j, {})
        \/ \E a \in AllowedLists : ReceiveForJob(h, "bypass", j, a)

Admit(h) ==
    \/ GetLayerMetadata(h)
    \/ ValidateInputFiles(h)
    \/ CheckMapProxy(h)
    \/ CheckCatalog(h)
    \/ CheckNoParallelJobs(h)
    \/ \E j \in Jobs : CreateJob(h, j)
    \/ RefuseJob(h)

ReadFiles(h) == CheckFilesExist(h) \/ \E f \in ShapeFiles : GetFileChecksum(h, f)

Retry(h) ==
    \/ RetryGetJob(h)
    \/ RetryGetTasks(h)
    \/ SoftReset(h)
    \/ RetryDeleteEntity(h)
    \/ HardResetTask(h)
    \/ HardResetJob(h)

Bypass(h) ==
    \/ BypassGetJob(h)
    \/ BypassGetTasks(h)
    \/ BypassUpdateTask(h)
    \/ BypassUpdateJob(h)
    \/ BypassNotify(h)

Abort(h) ==
    \/ AbortGetJob(h)
    \/ AbortGetTasks(h)
    \/ AbortJob(h)
    \/ AbortDeleteEntity(h)

(* A step of a request in flight.                                          *)
Step(h) == Admit(h) \/ ReadFiles(h) \/ Retry(h) \/ Bypass(h) \/ Abort(h) \/ CallFails(h)

Next ==
    \/ \E h \in Handlers : Receive(h) \/ Step(h)
    \/ Crash
    \/ WorldNext

Spec == Init /\ [][Next]_vars

(* The event loop resumes every handler whose call was answered.  That the *)
(* remote services and the mount do answer, or fail, is an assumption: the *)
(* clients limit their retries (config/default.json) but set no timeout.   *)
FairSpec == Spec /\ \A h \in Handlers : WF_vars(Step(h))
=============================================================================
