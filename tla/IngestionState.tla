---------------------------- MODULE IngestionState ----------------------------
(***************************************************************************)
(* The state the ingestion service works on.  The service itself persists  *)
(* nothing: the records live in the job manager, the catalog, MapProxy,    *)
(* the polygon parts manager and the file system, and what a request has   *)
(* read from them lives in the request until it is answered.               *)
(***************************************************************************)
EXTENDS Naturals, BypassPolicy

CONSTANTS
    Products,      \* (productId, productType) pairs
    Jobs,          \* job ids: bounds the number of jobs ever created
    Handlers,      \* request slots: bounds the requests in flight
    Serves,        \* the operations requested in each slot: bounds the overlaps
    ShapeFiles,    \* the files a metadata shapefile consists of
    MaxEdits,      \* bounds the contents of one file: 1 .. MaxEdits
    Summaries,     \* error summaries validation runs may end with
    AllowedLists,  \* allowedValidationErrors lists callers send
    Faults,        \* what else the environment does, see FaultKinds
    NoJob, NoSummary, NotApproved

FaultKinds == {"callFails",  \* a remote call is answered by an error, without effect
               "lostReply",  \* a remote write takes effect, its caller sees an error
               "crash",      \* the service process restarts
               "expire",     \* the job manager expires an unfinished job
               "clean",      \* a job that is not running may be marked cleaned
               "revert"}     \* a file may get a content it had before

ASSUME StateAssumption ==
    /\ Products # {}
    /\ MaxEdits \in Nat \ {0}
    /\ Summaries \subseteq Summary
    /\ Serves \in [Handlers -> SUBSET {"new", "update", "retry", "bypass", "abort"}]
    /\ Faults \subseteq FaultKinds
    /\ NoJob \notin Jobs
    /\ NoSummary \notin Summary
    /\ NotApproved \notin AllowedLists

VARIABLES
    job,        \* job manager: the job records
    task,       \* job manager: the validation task of each job
    catalog,    \* catalog: the published version of each layer, 0 when there is none
    served,     \* MapProxy: whether the layer is served
    entity,     \* polygon parts manager: the job whose validation data is held, per product
    shapefile,  \* file system: the edit number of each file of the metadata shapefile
    req,        \* the requests in flight, by handler slot
    saw,        \* history: the jobs of the product that existed when a job was admitted
    revived,    \* history: the jobs that became active again after having been closed
    ran         \* history: the errors and the files of each job's last validation run

remote == <<job, task, catalog, served, entity, shapefile>>
history == <<saw, revived, ran>>
vars == <<job, task, catalog, served, entity, shapefile, req, saw, revived, ran>>

-----------------------------------------------------------------------------
Checksum == ShapeFiles \X (1 .. MaxEdits)
ChecksumOf(p, f) == <<f, shapefile[p][f]>>
Checksums(p) == {ChecksumOf(p, f) : f \in ShapeFiles}

TaskStatuses == {"PENDING", "IN_PROGRESS", "COMPLETED", "FAILED", "ABORTED"}

Job == [status   : Statuses \cup {"NONE"},
        product  : Products,
        version  : Nat,
        approval : AllowedLists \cup {{}, NotApproved},  \* allowedValidationErrors, with an approver
        finalize : BOOLEAN,                          \* the finalize task exists
        cleaned  : BOOLEAN,                          \* isCleaned
        stray    : BOOLEAN,                          \* history: it was active although cleaned
        overtook : BOOLEAN,                          \* history: it was created under an abort
        outrun   : BOOLEAN,                          \* history: a retry reset it past its look at the task
        tracked  : BOOLEAN]                          \* the job tracker knows validation is over

Task == [status    : TaskStatuses,
         isValid   : BOOLEAN,          \* undefined counts as FALSE: the code tests === true
         checksums : SUBSET Checksum,
         summary   : Summary \cup {NoSummary}]

Ops == {"none", "new", "update", "retry", "bypass", "abort"}

(* The call a request is awaiting.                                         *)
Awaits == {"idle", "findById", "inputFiles", "mapProxy", "catalog", "findJobs", "checksums",
           "createJob", "getJob", "getTasks", "resetJob", "deleteEntity", "filesExist",
           "updateTask", "updateJob", "notify", "abortJob"}

(* The statuses of answers; 0 when no answer was given.                    *)
Answers == {0, 200, 400, 404, 409, 422, 500}

Request == [op      : Ops,
            at      : Awaits,
            product : Products,
            job     : Jobs \cup {NoJob},
            status  : Statuses \cup {"NONE"},       \* the job status it read
            task    : Task,                         \* the validation task it read
            version : Nat,                          \* the version the job will get
            read    : SUBSET Checksum,              \* the checksums computed so far
            allowed : AllowedLists \cup {{}},
            checked : SUBSET Jobs,                  \* history: jobs that existed at findJobs
            wrote   : BOOLEAN,                      \* history: it wrote a job or a task
            answer  : Answers]                      \* history, when idle: the last answer

BlankTask == [status |-> "PENDING", isValid |-> FALSE, checksums |-> {}, summary |-> NoSummary]

Idle == [op |-> "none", at |-> "idle", product |-> CHOOSE p \in Products : TRUE, job |-> NoJob,
         status |-> "NONE", task |-> BlankTask, version |-> 0, read |-> {}, allowed |-> {},
         checked |-> {}, wrote |-> FALSE, answer |-> 0]

BlankJob == [status |-> "NONE", product |-> CHOOSE p \in Products : TRUE, version |-> 0,
             approval |-> NotApproved, finalize |-> FALSE, cleaned |-> FALSE, stray |-> FALSE,
             overtook |-> FALSE, outrun |-> FALSE, tracked |-> FALSE]

Exists(j) == job[j].status # "NONE"
Active(j) == job[j].status \in Blocking
Product(j) == job[j].product

TypeOK ==
    /\ job \in [Jobs -> Job]
    /\ task \in [Jobs -> Task]
    /\ catalog \in [Products -> Nat]
    /\ served \in [Products -> BOOLEAN]
    /\ entity \in [Products -> Jobs \cup {NoJob}]
    /\ shapefile \in [Products -> [ShapeFiles -> 1 .. MaxEdits]]
    /\ req \in [Handlers -> Request]
    /\ saw \in [Jobs -> SUBSET Jobs]
    /\ revived \in SUBSET Jobs
    /\ ran \in [Jobs -> [summary : Summary \cup {NoSummary}, checksums : SUBSET Checksum]]

Init ==
    /\ job = [j \in Jobs |-> BlankJob]
    /\ task = [j \in Jobs |-> BlankTask]
    /\ catalog = [p \in Products |-> 0]
    /\ served = [p \in Products |-> FALSE]
    /\ entity = [p \in Products |-> NoJob]
    /\ shapefile = [p \in Products |-> [f \in ShapeFiles |-> 1]]
    /\ req = [h \in Handlers |-> Idle]
    /\ saw = [j \in Jobs |-> {}]
    /\ revived = {}
    /\ ran = [j \in Jobs |-> [summary |-> NoSummary, checksums |-> {}]]

-----------------------------------------------------------------------------
(* Writes to the job manager's records.                                    *)

(* The job record changes status; a closed job that becomes active again   *)
(* is remembered.                                                          *)
SetJob(j, r) ==
    /\ job' = [job EXCEPT ![j] = r]
    /\ revived' = IF r.status \in Blocking /\ ~Active(j) /\ Exists(j)
                    THEN revived \cup {j} ELSE revived

SetTask(j, r) == task' = [task EXCEPT ![j] = r]
=============================================================================
