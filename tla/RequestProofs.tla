---------------------------- MODULE RequestProofs ----------------------------
(***************************************************************************)
(* What an answer tells its caller, and what an abort may close: proved    *)
(* for any overlap of requests and any of the faults.                      *)
(***************************************************************************)
EXTENDS RefinementProofs

-----------------------------------------------------------------------------
(* The answers of steps that write: a success or a failure of the service. *)
NoRefusal(h) == req'[h].answer \in {200, 500}

(* The answers that may follow a write are no refusals.                    *)
LEMMA WritersDoNotRefuse ==
    ASSUME TypeInv, NEW h \in Handlers
    PROVE  /\ Respond(h, "Error") => NoRefusal(h)
           /\ LastWrite(h) => NoRefusal(h)
           /\ MaybeLost(h) => NoRefusal(h)
  <1>1. \A op : StatusOf(op, "Error") = 500 /\ StatusOf(op, "none") = 200  BY DEF StatusOf
  <1>2. \A st : [Idle EXCEPT !.answer = st].answer = st  BY DEF Idle
  <1>3. \A error : Respond(h, error) => req'[h].answer = StatusOf(req[h].op, error)
    BY <1>2 DEF Respond, TypeInv, TypeOK
  <1>4. Respond(h, "Error") \/ Respond(h, "none") => NoRefusal(h)  BY <1>1, <1>3 DEF NoRefusal
  <1> QED  BY <1>4 DEF LastWrite, MaybeLost

(* A request that goes on is not answered.                                 *)
LEMMA GoingOnIsNoAnswer ==
    ASSUME TypeInv, NEW h \in Handlers, NEW at, at # "idle", GoTo(h, at) \/ WroteThen(h, at)
    PROVE  req'[h].at # "idle"
  <1>1. req[h] \in Request /\ req \in [Handlers -> Request]  BY DEF TypeInv, TypeOK
  <1>2. \A r \in Request : [r EXCEPT !.at = at].at = at /\ [r EXCEPT !.at = at, !.wrote = TRUE].at = at
    BY DEF Request
  <1>3. PICK r : req'[h] = r /\ r.at = at  BY <1>1, <1>2 DEF GoTo, WroteThen, Proceed
  <1> QED  BY <1>3

(* A refusal of another service that is passed on.                         *)
Relayed(h) ==
    /\ req'[h].answer \in {400, 404, 409}
    /\ \/ req[h].op \in {"retry", "bypass"} /\ req[h].at = "updateJob"
       \/ req[h].op = "abort" /\ req[h].at = "deleteEntity" /\ req'[h].answer # 404

(* A call that fails after a write: its error is answered by 500, or is    *)
(* the refusal of a service.                                               *)
LEMMA FailureAfterWrite ==
    ASSUME TypeInv, NEW h \in Handlers, Formed(req[h]), req[h].wrote,
           NEW error \in ErrorsOf(req[h].at), Respond(h, error)
    PROVE  NoRefusal(h) \/ Relayed(h)
  <1>1. req'[h].answer = StatusOf(req[h].op, error)
    <2>1. \A st : [Idle EXCEPT !.answer = st].answer = st  BY DEF Idle
    <2> QED  BY <2>1 DEF Respond, TypeInv, TypeOK
  <1>2. \A op : /\ StatusOf(op, "BadRequestError") = 400
                /\ StatusOf(op, "NotFoundError") = 404
                /\ StatusOf(op, "ConflictError") = 409
                /\ StatusOf(op, "Error") = 500
    BY DEF StatusOf
  <1>3. CASE req[h].at = "updateJob" /\ req[h].op \in {"retry", "bypass"}
    <2>1. error \in {"BadRequestError", "NotFoundError", "ConflictError", "Error"}
      BY <1>3 DEF ErrorsOf, RemoteErrors
    <2> QED  BY <1>1, <1>2, <1>3, <2>1 DEF NoRefusal, Relayed
  <1>4. CASE req[h].at = "notify"
    <2>1. error = "Error"  BY <1>4 DEF ErrorsOf
    <2> QED  BY <1>1, <1>2, <2>1 DEF NoRefusal
  <1>5. CASE req[h].at = "deleteEntity" /\ req[h].op = "abort"
    <2>1. error \in {"BadRequestError", "ConflictError", "Error"}
      BY <1>5 DEF ErrorsOf, RemoteErrors
    <2> QED  BY <1>1, <1>2, <1>5, <2>1 DEF NoRefusal, Relayed
  <1> QED  BY <1>3, <1>4, <1>5 DEF Formed

(* A step of a request that is answered does not refuse, or it writes      *)
(* nothing and refuses after a write only what another service refused.    *)
LEMMA RefusingSteps ==
    ASSUME TypeInv, RequestsFormed, NEW h \in Handlers, Step(h), req'[h].at = "idle"
    PROVE  NoRefusal(h) \/ (UNCHANGED remote /\ (req[h].wrote => Relayed(h)))
  <1> USE DEF remote
  <1>0. Formed(req[h])  BY DEF RequestsFormed
  <1>1. CASE Admit(h)
    <2>1. ASSUME NEW j \in Jobs, CreateJob(h, j)  PROVE NoRefusal(h)
      BY <2>1, WritersDoNotRefuse DEF CreateJob
    <2>2. CASE \/ GetLayerMetadata(h) \/ ValidateInputFiles(h) \/ CheckMapProxy(h) \/ CheckCatalog(h)
               \/ CheckNoParallelJobs(h) \/ RefuseJob(h)
      BY <1>0, <2>2
         DEF GetLayerMetadata, ValidateInputFiles, CheckMapProxy, CheckCatalog, CheckNoParallelJobs,
             RefuseJob, Awaiting, Formed
    <2> QED  BY <1>1, <2>1, <2>2 DEF Admit
  <1>2. CASE ReadFiles(h)
    BY <1>0, <1>2 DEF ReadFiles, CheckFilesExist, GetFileChecksum, Formed
  <1>3. CASE RetryGetJob(h) \/ RetryGetTasks(h) \/ BypassGetJob(h) \/ BypassGetTasks(h)
             \/ AbortGetJob(h) \/ AbortGetTasks(h)
    BY <1>0, <1>3
       DEF RetryGetJob, RetryGetTasks, BypassGetJob, BypassGetTasks, AbortGetJob, AbortGetTasks,
           Awaiting, Formed
  <1>4. CASE SoftReset(h) \/ HardResetJob(h) \/ BypassNotify(h) \/ AbortDeleteEntity(h)
    BY <1>4, WritersDoNotRefuse DEF SoftReset, HardResetJob, BypassNotify, AbortDeleteEntity
  <1>5. CASE RetryDeleteEntity(h) \/ HardResetTask(h) \/ BypassUpdateTask(h) \/ BypassUpdateJob(h)
             \/ AbortJob(h)
    <2>1. \/ MaybeLost(h)
          \/ \E at \in {"filesExist", "updateJob", "notify", "deleteEntity"} :
                GoTo(h, at) \/ WroteThen(h, at)
      BY <1>5
         DEF RetryDeleteEntity, HardResetTask, BypassUpdateTask, BypassUpdateJob, AbortJob, WriteThen
    <2> QED  BY <2>1, WritersDoNotRefuse, GoingOnIsNoAnswer
  <1>6. CASE CallFails(h)
    <2>1. UNCHANGED remote  BY <1>6 DEF CallFails
    <2>2. PICK error \in ErrorsOf(req[h].at) : Respond(h, error)
      BY <1>6, GoingOnIsNoAnswer DEF CallFails
    <2> QED  BY <1>0, <2>1, <2>2, FailureAfterWrite
  <1> QED  BY <1>1, <1>2, <1>3, <1>4, <1>5, <1>6 DEF Step, Retry, Bypass, Abort

(* Whatever requests overlap, whichever calls fail or lose their reply: a  *)
(* request that is answered 4xx has written no job and no task, and its    *)
(* last step writes nothing, except that it passes on what the job manager *)
(* or the polygon parts manager answers to a write that comes too late.    *)
THEOREM RefusalIsCleanOrRelayed == Spec => LateRefusalsAreRelayed
  <1> DEFINE Act == \A h \in Handlers :
                       AnsweredBy(h, 400 .. 499) =>
                         /\ UNCHANGED remote
                         /\ req[h].wrote =>
                              /\ req'[h].answer \in {400, 404, 409}
                              /\ \/ req[h].op \in {"retry", "bypass"} /\ req[h].at = "updateJob"
                                 \/ req[h].op = "abort" /\ req[h].at = "deleteEntity" /\ req'[h].answer # 404
  <1>1. TypeInv /\ RequestsFormed /\ [Next]_vars => [Act]_vars
    <2> SUFFICES ASSUME TypeInv, RequestsFormed, Next, NEW h \in Handlers, AnsweredBy(h, 400 .. 499)
                 PROVE  UNCHANGED remote /\ (req[h].wrote => Relayed(h))
      BY DEF Relayed
    <2>1. req[h].at # "idle" /\ req'[h].at = "idle" /\ req'[h].answer \in 400 .. 499
      BY DEF AnsweredBy
    <2>2. req'[h] # req[h]  BY <2>1
    <2>3. ~Crash  BY <2>1 DEF Crash, Idle
    <2>4. ~WorldNext
      BY <2>2, ZenonT(40) DEF WorldNext, WorkerNext, StartValidation, FinishValidation, FailValidation, Resume,
         FailLater, AddFinalize, Publish, Complete, Expire, CleanUp, EditFile
    <2>5. ASSUME NEW g \in Handlers, Receive(g) \/ Step(g)  PROVE Step(h)
      <3>1. \/ Ends(g) \/ \E r : Proceed(g, r)
        <4>1. CASE Receive(g)
          BY <4>1 DEF Receive, ReceiveNew, ReceiveUpdate, ReceiveForJob
        <4>2. CASE Step(g)
          BY <4>2, StepKinds DEF Continues, FirstRead, CheckNoParallelJobs, RetryGetJob, BypassGetJob,
             BypassGetTasks, AbortGetJob, Respond, Proceed
        <4> QED  BY <2>5, <4>1, <4>2
      <3>2. g = h  BY <2>2, <3>1 DEF Ends, Proceed, TypeInv, TypeOK
      <3>3. ~Receive(g)  BY <2>1, <3>2 DEF Receive, ReceiveNew, ReceiveUpdate, ReceiveForJob
      <3> QED  BY <2>5, <3>2, <3>3
    <2>6. Step(h)  BY <2>3, <2>4, <2>5 DEF Next
    <2>7. ~NoRefusal(h)  BY <2>1 DEF NoRefusal
    <2> QED  BY <2>1, <2>6, <2>7, RefusingSteps
  <1> QED
    BY <1>1, TypeInvInit, TypeInvStep, FormedInit, FormedStep, PTL DEF Spec, LateRefusalsAreRelayed

-----------------------------------------------------------------------------
(* The inductive invariant of aborts: a request that looked at the tasks   *)
(* of a job and is about to abort it either saw the job before its         *)
(* finalize task, or was overtaken by it.                                  *)
Spared(j) == job[j].finalize => job[j].overtook

AbortInvariant ==
    /\ \A j \in Jobs : job[j].status = "ABORTED" => Spared(j)
    /\ \A h \in Handlers : Awaiting(h, "abort", "abortJob") => Spared(req[h].job)

(* What a step does to the flags of a job.                                 *)
FlagsKept(j) ==
    /\ job'[j].finalize = job[j].finalize /\ job'[j].overtook = job[j].overtook
    /\ job'[j].status = "ABORTED" => job[j].status = "ABORTED" \/ Aborting(j)

(* A step keeps them, creates the job anew, or adds the finalize task.     *)
LEMMA FlagsStep ==
    ASSUME TypeInv, [Next]_vars, NEW j \in Jobs
    PROVE  \/ FlagsKept(j)
           \/ ~job'[j].finalize
           \/ req' = req /\ job'[j].overtook = Aborting(j) /\ job'[j].status # "ABORTED"
  <1>0. \A k \in Jobs : job[k] \in Job  BY DEF TypeInv, TypeOK
  <1>1. job' = job => FlagsKept(j)  BY DEF FlagsKept
  <1>2. ASSUME NEW k \in Jobs, NEW r, SetJob(k, r),
               r.finalize = job[k].finalize /\ r.overtook = job[k].overtook,
               r.status = "ABORTED" => job[k].status = "ABORTED" \/ Aborting(k)
        PROVE  FlagsKept(j)
    BY <1>2 DEF SetJob, FlagsKept, TypeInv, TypeOK
  <1>3. ASSUME NEW k \in Jobs, NEW st, SetJob(k, [job[k] EXCEPT !.status = st]),
               st = "ABORTED" => Aborting(k)
        PROVE  FlagsKept(j)
    <2> DEFINE r == [job[k] EXCEPT !.status = st]
    <2>1. r.finalize = job[k].finalize /\ r.overtook = job[k].overtook /\ r.status = st
      BY <1>0 DEF Job
    <2>2. SetJob(k, r)  BY <1>3
    <2> HIDE DEF r
    <2> QED  BY <1>2, <1>3, <2>1, <2>2
  <1>4. ASSUME NEW h \in Handlers, Receive(h) \/ ReadFiles(h) \/ CallFails(h)  PROVE FlagsKept(j)
    BY <1>1, <1>4 DEF Receive, ReceiveNew, ReceiveUpdate, ReceiveForJob, ReadFiles, CheckFilesExist,
       GetFileChecksum, CallFails, remote
  <1>5. ASSUME NEW h \in Handlers, Admit(h)  PROVE FlagsKept(j) \/ ~job'[j].finalize
    <2>1. ASSUME NEW k \in Jobs, CreateJob(h, k)  PROVE FlagsKept(j) \/ ~job'[j].finalize
      <3> DEFINE r == [BlankJob EXCEPT !.status = "PENDING", !.product = req[h].product,
                                       !.version = req[h].version]
      <3>1. ~r.finalize  BY DEF BlankJob
      <3>2. job' = [job EXCEPT ![k] = r]  BY <2>1 DEF CreateJob
      <3> HIDE DEF r
      <3> QED  BY <3>1, <3>2 DEF FlagsKept, TypeInv, TypeOK
    <2> QED
      BY <1>1, <1>5, <2>1 DEF Admit, GetLayerMetadata, ValidateInputFiles, CheckMapProxy, CheckCatalog,
         CheckNoParallelJobs, RefuseJob, remote
  <1>6. ASSUME NEW h \in Handlers, Retry(h) \/ Bypass(h) \/ Abort(h)  PROVE FlagsKept(j)
    <2>0. req[h].job \in Jobs
      BY <1>6 DEF Retry, RetryGetJob, RetryGetTasks, SoftReset, RetryDeleteEntity, HardResetTask,
         HardResetJob, Bypass, BypassGetJob, BypassGetTasks, BypassUpdateTask, BypassUpdateJob,
         BypassNotify, Abort, AbortGetJob, AbortGetTasks, AbortJob, AbortDeleteEntity, Awaiting,
         TypeInv, JobRequests, JobOps
    <2>1. CASE SoftReset(h) \/ HardResetJob(h)
      <3>1. PICK r \in Job : /\ SetJob(req[h].job, r) /\ r.status = "PENDING"
                             /\ r.finalize = job[req[h].job].finalize
                             /\ r.overtook = job[req[h].job].overtook
        BY <1>0, <2>0, <2>1, RetryResets, ResetIs
      <3> QED  BY <1>2, <2>0, <3>1
    <2>2. CASE BypassUpdateJob(h)
      <3>1. req[h].allowed \in AllowedLists \cup {{}}  BY DEF TypeInv, TypeOK, Request
      <3>2. PICK r \in Job : /\ SetJob(req[h].job, r) /\ r.status = "IN_PROGRESS"
                             /\ r.finalize = job[req[h].job].finalize
                             /\ r.overtook = job[req[h].job].overtook
        BY <1>0, <2>0, <2>2, <3>1, ApprovalIs
      <3> QED  BY <1>2, <2>0, <3>2
    <2>3. CASE BypassNotify(h)
      BY <1>0, <2>0, <2>3 DEF BypassNotify, FlagsKept, TypeInv, TypeOK, Job
    <2>4. CASE AbortJob(h)
      <3>1. Aborting(req[h].job)  BY <2>4 DEF AbortJob, Awaiting, Aborting
      <3> QED  BY <1>3, <2>0, <2>4, <3>1 DEF AbortJob
    <2> QED
      BY <1>1, <1>6, <2>1, <2>2, <2>3, <2>4 DEF Retry, RetryGetJob, RetryGetTasks, RetryDeleteEntity,
         HardResetTask, Bypass, BypassGetJob, BypassGetTasks, BypassUpdateTask, Abort, AbortGetJob,
         AbortGetTasks, AbortDeleteEntity, remote
  <1>7. ASSUME NEW k \in Jobs, AddFinalize(k)
        PROVE  \/ FlagsKept(j)
               \/ req' = req /\ job'[j].overtook = Aborting(j) /\ job'[j].status # "ABORTED"
    <2> DEFINE r == [job[k] EXCEPT !.finalize = TRUE, !.overtook = Aborting(k)]
    <2>1. r.overtook = Aborting(k) /\ r.status = "IN_PROGRESS"  BY <1>0, <1>7 DEF AddFinalize, Job
    <2>2. job' = [job EXCEPT ![k] = r] /\ req' = req  BY <1>7 DEF AddFinalize, SetJob
    <2> HIDE DEF r
    <2> QED  BY <2>1, <2>2 DEF FlagsKept, TypeInv, TypeOK
  <1>8. ASSUME NEW k \in Jobs, NEW s \in Summaries, FinishValidation(k, s)  PROVE FlagsKept(j)
    <2> DEFINE clean == s.counted = {}
               st == IF clean THEN "IN_PROGRESS" ELSE "SUSPENDED"
               r == [job[k] EXCEPT !.status = st, !.tracked = clean]
    <2>1. /\ r.finalize = job[k].finalize /\ r.overtook = job[k].overtook
          /\ r.status # "ABORTED"
      BY <1>0 DEF Job
    <2>2. SetJob(k, r)  BY <1>8 DEF FinishValidation
    <2> HIDE DEF r
    <2> QED  BY <1>2, <2>1, <2>2
  <1>9. ASSUME NEW k \in Jobs, StartValidation(k) \/ FailValidation(k) \/ Resume(k) \/ FailLater(k)
                               \/ Complete(k) \/ Expire(k)
        PROVE  FlagsKept(j)
    BY <1>3, <1>9 DEF StartValidation, FailValidation, Resume, FailLater, Complete, Expire
  <1>10. ASSUME NEW k \in Jobs, Publish(k)  PROVE FlagsKept(j)  BY <1>1, <1>10 DEF Publish
  <1>11. ASSUME NEW p \in Products, NEW f \in ShapeFiles, EditFile(p, f)  PROVE FlagsKept(j)
    BY <1>1, <1>11 DEF EditFile
  <1>12. ASSUME NEW k \in Jobs, CleanUp(k)  PROVE FlagsKept(j)
    <2> DEFINE r == [job[k] EXCEPT !.cleaned = TRUE, !.stray = job[k].stray \/ Active(k)]
    <2>1. /\ r.finalize = job[k].finalize /\ r.overtook = job[k].overtook
          /\ r.status = job[k].status
      BY <1>0 DEF Job
    <2>2. SetJob(k, r)  BY <1>12 DEF CleanUp
    <2> HIDE DEF r
    <2> QED  BY <1>2, <2>1, <2>2
  <1>13. CASE Crash \/ UNCHANGED vars  BY <1>1, <1>13 DEF Crash, remote, vars
  <1> QED
    BY <1>4, <1>5, <1>6, <1>7, <1>8, <1>9, <1>10, <1>11, <1>12, <1>13
       DEF Next, Step, WorldNext, WorkerNext

(* A request comes to await the abort only by having looked at the tasks.  *)
LEMMA ComesToAbort ==
    ASSUME TypeInv, [Next]_vars, NEW h \in Handlers, Awaiting(h, "abort", "abortJob")'
    PROVE  \/ req'[h] = req[h]
           \/ job' = job /\ req'[h].job = req[h].job /\ ~job[req[h].job].finalize
  <1> DEFINE Come(r) == r.op = "abort" /\ r.at = "abortJob"
  <1>0. Come(req'[h])  BY DEF Awaiting
  <1>2. ASSUME NEW g \in Handlers, NEW r, Proceed(g, r), ~Come(r)  PROVE req'[h] = req[h]
    BY <1>0, <1>2 DEF Proceed, TypeInv, TypeOK
  <1>3. ASSUME NEW g \in Handlers, Ends(g)  PROVE req'[h] = req[h]
    <2>1. \A st : ~Come([Idle EXCEPT !.answer = st])  BY DEF Idle
    <2> QED  BY <1>2, <1>3, <2>1 DEF Ends, Proceed
  <1>4. ASSUME NEW g \in Handlers, NEW at, at # "abortJob", GoTo(g, at) \/ WroteThen(g, at)
        PROVE  req'[h] = req[h]
    <2>1. /\ [req[g] EXCEPT !.at = at].at = at
          /\ [req[g] EXCEPT !.at = at, !.wrote = TRUE].at = at
      BY DEF TypeInv, TypeOK, Request
    <2>2. ~Come([req[g] EXCEPT !.at = at]) /\ ~Come([req[g] EXCEPT !.at = at, !.wrote = TRUE])
      BY <1>4, <2>1
    <2> QED  BY <1>2, <1>4, <2>2 DEF GoTo, WroteThen
  <1>5. ASSUME NEW g \in Handlers, Receive(g)  PROVE req'[h] = req[h]
    <2>1. ASSUME NEW p, ReceiveNew(g, p) \/ ReceiveUpdate(g, p)  PROVE req'[h] = req[h]
      BY <1>2, <2>1 DEF ReceiveNew, ReceiveUpdate, Idle
    <2>2. ASSUME NEW op, NEW j, NEW a, ReceiveForJob(g, op, j, a)  PROVE req'[h] = req[h]
      BY <1>2, <2>2 DEF ReceiveForJob, Idle
    <2> QED  BY <1>5, <2>1, <2>2 DEF Receive
  <1>6. ASSUME NEW g \in Handlers, Admit(g)  PROVE req'[h] = req[h]
    <2>1. req[g] \in Request  BY DEF TypeInv, TypeOK
    <2>2. CASE GetLayerMetadata(g) \/ CheckNoParallelJobs(g)
      BY <1>2, <1>3, <2>1, <2>2, Answering DEF GetLayerMetadata, CheckNoParallelJobs, Request
    <2>3. CASE ValidateInputFiles(g) \/ CheckMapProxy(g) \/ CheckCatalog(g)
      BY <1>3, <1>4, <2>3, Answering DEF ValidateInputFiles, CheckMapProxy, CheckCatalog
    <2>4. CASE RefuseJob(g) \/ \E j \in Jobs : CreateJob(g, j)
      BY <1>3, <2>4, Answering DEF RefuseJob, CreateJob
    <2> QED  BY <1>6, <2>2, <2>3, <2>4 DEF Admit
  <1>7. ASSUME NEW g \in Handlers, ReadFiles(g)  PROVE req'[h] = req[h]
    <2>1. req[g] \in Request  BY DEF TypeInv, TypeOK
    <2>2. CASE CheckFilesExist(g)  BY <1>4, <2>2 DEF CheckFilesExist
    <2>3. ASSUME NEW f \in ShapeFiles, GetFileChecksum(g, f)  PROVE req'[h] = req[h]
      BY <1>2, <1>3, <2>1, <2>3, Answering DEF GetFileChecksum, RetryDecision, BypassDecision, Request
    <2> QED  BY <1>7, <2>2, <2>3 DEF ReadFiles
  <1>8. ASSUME NEW g \in Handlers, Retry(g)  PROVE req'[h] = req[h]
    <2>1. req[g] \in Request  BY DEF TypeInv, TypeOK
    <2>2. CASE RetryGetJob(g) \/ RetryGetTasks(g)
      BY <1>2, <1>3, <2>1, <2>2, Answering DEF RetryGetJob, RetryGetTasks, Request
    <2>3. CASE SoftReset(g) \/ HardResetJob(g)
      BY <1>3, <2>3, Answering DEF SoftReset, HardResetJob
    <2>4. CASE RetryDeleteEntity(g) \/ HardResetTask(g)
      BY <1>3, <1>4, <2>4, Answering DEF RetryDeleteEntity, HardResetTask, WriteThen
    <2> QED  BY <1>8, <2>2, <2>3, <2>4 DEF Retry
  <1>9. ASSUME NEW g \in Handlers, Bypass(g)  PROVE req'[h] = req[h]
    <2>1. req[g] \in Request  BY DEF TypeInv, TypeOK
    <2>2. CASE BypassGetJob(g) \/ BypassGetTasks(g)
      BY <1>2, <1>3, <2>1, <2>2, Answering DEF BypassGetJob, BypassGetTasks, Request
    <2>3. CASE BypassUpdateTask(g) \/ BypassUpdateJob(g) \/ BypassNotify(g)
      BY <1>3, <1>4, <2>3, Answering DEF BypassUpdateTask, BypassUpdateJob, BypassNotify, WriteThen
    <2> QED  BY <1>9, <2>2, <2>3 DEF Bypass
  <1>10. ASSUME NEW g \in Handlers, AbortGetTasks(g)
         PROVE  \/ req'[h] = req[h]
                \/ job' = job /\ req'[h].job = req[h].job /\ ~job[req[h].job].finalize
    <2>1. CASE Ends(g)  BY <1>3, <2>1
    <2>2. CASE ~job[req[g].job].finalize /\ GoTo(g, "abortJob")
      <3>1. job' = job  BY <1>10 DEF AbortGetTasks, remote
      <3>2. CASE g # h  BY <2>2, <3>2 DEF GoTo, Proceed, TypeInv, TypeOK
      <3>3. CASE g = h  BY <2>2, <3>1, <3>3 DEF GoTo, Proceed, TypeInv, TypeOK, Request
      <3> QED  BY <3>2, <3>3
    <2> QED  BY <1>10, <2>1, <2>2, Answering DEF AbortGetTasks
  <1>11. ASSUME NEW g \in Handlers, AbortGetJob(g) \/ AbortJob(g) \/ AbortDeleteEntity(g)
         PROVE  req'[h] = req[h]
    <2>1. req[g] \in Request  BY DEF TypeInv, TypeOK
    <2>2. CASE AbortGetJob(g)
      BY <1>2, <1>3, <2>1, <2>2, Answering DEF AbortGetJob, Request
    <2>3. CASE AbortJob(g) \/ AbortDeleteEntity(g)
      BY <1>3, <1>4, <2>3, Answering DEF AbortJob, AbortDeleteEntity, WriteThen
    <2> QED  BY <1>11, <2>2, <2>3
  <1>12. ASSUME NEW g \in Handlers, CallFails(g)  PROVE req'[h] = req[h]
    BY <1>3, <1>4, <1>12, Answering DEF CallFails
  <1>13. ~Crash  BY <1>0 DEF Crash, Idle
  <1>14. CASE WorldNext \/ UNCHANGED vars
    BY <1>14 DEF WorldNext, WorkerNext, StartValidation, FinishValidation, FailValidation, Resume,
       FailLater, AddFinalize, Publish, Complete, Expire, CleanUp, EditFile, vars
  <1> QED
    BY <1>5, <1>6, <1>7, <1>8, <1>9, <1>10, <1>11, <1>12, <1>13, <1>14 DEF Next, Step, Abort

(* AbortInvariant is inductive.                                            *)
LEMMA AbortStep == TypeInv /\ AbortInvariant /\ [Next]_vars => AbortInvariant'
  <1> SUFFICES ASSUME TypeInv, AbortInvariant, [Next]_vars PROVE AbortInvariant'  OBVIOUS
  <1>1. ASSUME NEW j \in Jobs, job'[j].status = "ABORTED"  PROVE Spared(j)'
    <2>1. CASE FlagsKept(j)
      <3>1. job[j].status = "ABORTED" \/ Aborting(j)  BY <1>1, <2>1 DEF FlagsKept
      <3>2. Aborting(j) => Spared(j)  BY DEF Aborting, AbortInvariant, Awaiting
      <3> QED  BY <2>1, <3>1, <3>2 DEF AbortInvariant, Spared, FlagsKept
    <2> QED  BY <1>1, <2>1, FlagsStep DEF Spared
  <1>2. ASSUME NEW h \in Handlers, Awaiting(h, "abort", "abortJob")'  PROVE Spared(req[h].job)'
    <2>1. req'[h].job \in Jobs  BY <1>2, TypeInvStep DEF Awaiting, TypeInv, JobRequests, JobOps
    <2>2. CASE job' = job /\ req'[h].job = req[h].job /\ ~job[req[h].job].finalize
      BY <2>2 DEF Spared
    <2>3. CASE req'[h] = req[h]
      <3>1. PICK j \in Jobs : j = req[h].job /\ j = req'[h].job  BY <2>1, <2>3
      <3>2. Aborting(j)  BY <1>2, <2>3, <3>1 DEF Aborting, Awaiting
      <3>3. Spared(j)  BY <1>2, <2>3, <3>1 DEF AbortInvariant, Awaiting
      <3>4. job'[j].finalize => job'[j].overtook  BY <3>2, <3>3, FlagsStep DEF Spared, FlagsKept
      <3> QED  BY <3>1, <3>4 DEF Spared
    <2> QED  BY <1>2, <2>2, <2>3, ComesToAbort
  <1> QED  BY <1>1, <1>2 DEF AbortInvariant

(* Whatever requests overlap and fail: a job that has its finalize task is *)
(* aborted only by a request whose look at the tasks the finalize task     *)
(* overtook.                                                               *)
THEOREM FinalizingIsSpared == Spec => []AbortSparesFinalizing
  <1>1. Init => AbortInvariant
    BY DEF Init, AbortInvariant, Spared, BlankJob, Idle, Awaiting
  <1>2. AbortInvariant => AbortSparesFinalizing  BY DEF AbortInvariant, Spared, AbortSparesFinalizing
  <1> QED  BY <1>1, <1>2, TypeInvInit, TypeInvStep, AbortStep, PTL DEF Spec

-----------------------------------------------------------------------------
(* Whatever requests overlap and fail: the validation data of a valid job  *)
(* is removed only by the last step of an abort, by a retry that read the  *)
(* task before it was valid, or by another job of the product.             *)
THEOREM EntityLossIsCaused == Spec => EntityLossHasCause
  <1> DEFINE Caused(j) ==
        \/ \E h \in Handlers :
              /\ req[h].at = "deleteEntity" /\ req[h].product = Product(j)
              /\ req[h].op = "retry" /\ req[h].job = j => ~req[h].task.isValid
        \/ \E k \in Jobs \ {j} : Active(k) /\ Product(k) = Product(j)
      Act == \A j \in Jobs :
        LET p == Product(j) IN
        /\ Active(j) /\ task[j].isValid /\ ran[j].summary.counted = {} /\ entity[p] = j
        /\ Active(j)' /\ entity'[p] # j
        => \/ \E h \in Handlers :
                /\ req[h].at = "deleteEntity" /\ req[h].product = p
                /\ req[h].op = "retry" /\ req[h].job = j => ~req[h].task.isValid
           \/ \E k \in Jobs \ {j} : Active(k) /\ Product(k) = p
  <1>1. TypeInv /\ RequestsFormed /\ [Next]_vars => [Act]_vars
    <2> SUFFICES ASSUME TypeInv, RequestsFormed, Next, NEW j \in Jobs,
                        Active(j), entity[Product(j)] = j, Active(j)', entity'[Product(j)] # j
                 PROVE  Caused(j)
      OBVIOUS
    <2>1. entity' # entity  OBVIOUS
    <2>2. ASSUME NEW h \in Handlers, RetryDeleteEntity(h) \/ AbortDeleteEntity(h)  PROVE Caused(j)
      <3>1. req[h].at = "deleteEntity" /\ (req[h].op = "retry" => ~req[h].task.isValid)
        BY <2>2 DEF RetryDeleteEntity, AbortDeleteEntity, Awaiting, RequestsFormed, Formed
      <3>2. req[h].product = Product(j)
        BY <2>2 DEF RetryDeleteEntity, AbortDeleteEntity, TypeInv, TypeOK, Product, Job
      <3> QED  BY <3>1, <3>2
    <2>3. ASSUME NEW k \in Jobs, NEW s \in Summaries, FinishValidation(k, s)  PROVE Caused(j)
      BY <2>3 DEF FinishValidation, Active, Blocking, TypeInv, TypeOK, Product, Job
    <2>4. ASSUME NEW k \in Jobs, Complete(k)  PROVE Caused(j)
      <3>1. k = j  BY <2>4 DEF Complete, TypeInv, TypeOK, Product, Job
      <3>2. job'[j].status = "COMPLETED"
        BY <2>4, <3>1 DEF Complete, SetJob, TypeInv, TypeOK, Job
      <3> QED  BY <3>2 DEF Active, Blocking
    <2>5. ASSUME NEW h \in Handlers, Receive(h) \/ Admit(h) \/ ReadFiles(h) \/ CallFails(h)
          PROVE  entity' = entity
      BY <2>5 DEF Receive, ReceiveNew, ReceiveUpdate, ReceiveForJob, Admit, GetLayerMetadata,
         ValidateInputFiles, CheckMapProxy, CheckCatalog, CheckNoParallelJobs, CreateJob, RefuseJob,
         ReadFiles, CheckFilesExist, GetFileChecksum, CallFails, remote
    <2>6. ASSUME NEW h \in Handlers, Retry(h) \/ Bypass(h) \/ Abort(h),
                 ~RetryDeleteEntity(h), ~AbortDeleteEntity(h)
          PROVE  entity' = entity
      BY <2>6 DEF Retry, RetryGetJob, RetryGetTasks, SoftReset, HardResetTask, HardResetJob, Bypass,
         BypassGetJob, BypassGetTasks, BypassUpdateTask, BypassUpdateJob, BypassNotify, Abort,
         AbortGetJob, AbortGetTasks, AbortJob, remote
    <2>7. Crash => entity' = entity  BY DEF Crash, remote
    <2>8. ASSUME NEW k \in Jobs, StartValidation(k) \/ FailValidation(k) \/ Resume(k) \/ FailLater(k)
                                 \/ AddFinalize(k) \/ Publish(k) \/ Expire(k) \/ CleanUp(k)
          PROVE  entity' = entity
      BY <2>8 DEF StartValidation, FailValidation, Resume, FailLater, AddFinalize, Publish, Expire,
         CleanUp
    <2>9. ASSUME NEW p \in Products, NEW f \in ShapeFiles, EditFile(p, f)  PROVE entity' = entity
      BY <2>9 DEF EditFile
    <2> QED
      BY <2>1, <2>2, <2>3, <2>4, <2>5, <2>6, <2>7, <2>8, <2>9 DEF Next, Step, WorldNext, WorkerNext
  <1> QED
    BY <1>1, TypeInvInit, TypeInvStep, FormedInit, FormedStep, PTL DEF Spec, EntityLossHasCause
=============================================================================
