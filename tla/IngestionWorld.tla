---------------------------- MODULE IngestionWorld ----------------------------
(***************************************************************************)
(* What goes on around the service and is not under src/: the workers that *)
(* run the validation and the later tasks of a job, the job manager's      *)
(* expiry, the cleaner of jobs, and the users who edit the shapefiles.     *)
(* Modelled from how the service uses it: the statuses and the isCleaned   *)
(* it filters on, the task fields it reads, the finalize task it looks     *)
(* for.                                                                    *)
(***************************************************************************)
EXTENDS IngestionState

(* A worker takes a pending task of a job that is pending or in progress.  *)
StartValidation(j) ==
    /\ job[j].status \in {"PENDING", "IN_PROGRESS"}
    /\ task[j].status = "PENDING"
    /\ SetTask(j, [task[j] EXCEPT !.status = "IN_PROGRESS"])
    /\ SetJob(j, [job[j] EXCEPT !.status = "IN_PROGRESS"])
    /\ UNCHANGED <<catalog, served, entity, shapefile, req, saw, ran>>

(* The validation ends.  Its data is stored as the validation entity of    *)
(* the product; a job with errors is suspended.                            *)
FinishValidation(j, s) ==
    /\ task[j].status = "IN_PROGRESS"
    /\ job[j].status = "IN_PROGRESS"
    /\ LET clean == s.counted = {} IN
       /\ SetTask(j, [task[j] EXCEPT !.status = "COMPLETED", !.isValid = clean, !.summary = s])
       /\ SetJob(j, [job[j] EXCEPT !.status = IF clean THEN "IN_PROGRESS" ELSE "SUSPENDED",
                                   !.tracked = clean])
    /\ entity' = [entity EXCEPT ![Product(j)] = j]
    /\ ran' = [ran EXCEPT ![j] = [summary |-> s, checksums |-> Checksums(Product(j))]]
    /\ UNCHANGED <<catalog, served, shapefile, req, saw>>

(* The validation task runs out of attempts.                               *)
FailValidation(j) ==
    /\ task[j].status = "IN_PROGRESS"
    /\ job[j].status = "IN_PROGRESS"
    /\ SetTask(j, [task[j] EXCEPT !.status = "FAILED"])
    /\ SetJob(j, [job[j] EXCEPT !.status = "FAILED"])
    /\ UNCHANGED <<catalog, served, entity, shapefile, req, saw, ran>>

(* Past validation, the job tracker has the later tasks created.           *)
Validated(j) == task[j].status = "COMPLETED" /\ task[j].isValid /\ job[j].tracked

(* A later task of a job that was reset is picked up again.                *)
Resume(j) ==
    /\ job[j].status = "PENDING"
    /\ Validated(j)
    /\ SetJob(j, [job[j] EXCEPT !.status = "IN_PROGRESS"])
    /\ UNCHANGED <<task, catalog, served, entity, shapefile, req, saw, ran>>

FailLater(j) ==
    /\ job[j].status = "IN_PROGRESS"
    /\ Validated(j)
    /\ SetJob(j, [job[j] EXCEPT !.status = "FAILED"])
    /\ UNCHANGED <<task, catalog, served, entity, shapefile, req, saw, ran>>

(* A request to abort j has looked at its tasks and goes on to abort it.   *)
Aborting(j) == \E h \in Handlers : req[h].op = "abort" /\ req[h].at = "abortJob" /\ req[h].job = j

AddFinalize(j) ==
    /\ job[j].status = "IN_PROGRESS"
    /\ Validated(j)
    /\ ~job[j].finalize
    /\ SetJob(j, [job[j] EXCEPT !.finalize = TRUE, !.overtook = Aborting(j)])
    /\ UNCHANGED <<task, catalog, served, entity, shapefile, req, saw, ran>>

(* The finalize task publishes the layer to MapProxy, then to the catalog, *)
(* and the job completes.                                                  *)
Publish(j) ==
    /\ job[j].status = "IN_PROGRESS"
    /\ job[j].finalize
    /\ ~served[Product(j)]
    /\ served' = [served EXCEPT ![Product(j)] = TRUE]
    /\ UNCHANGED <<job, task, catalog, entity, shapefile, req, saw, revived, ran>>

Complete(j) ==
    /\ job[j].status = "IN_PROGRESS"
    /\ job[j].finalize
    /\ served[Product(j)]
    /\ SetJob(j, [job[j] EXCEPT !.status = "COMPLETED"])
    /\ catalog' = [catalog EXCEPT ![Product(j)] = job[j].version]
    /\ entity' = [entity EXCEPT ![Product(j)] = IF @ = j THEN NoJob ELSE @]
    /\ UNCHANGED <<task, served, shapefile, req, saw, ran>>

(* The job manager expires a job nobody finished.                          *)
Expire(j) ==
    /\ "expire" \in Faults
    /\ Active(j)
    /\ SetJob(j, [job[j] EXCEPT !.status = "EXPIRED"])
    /\ UNCHANGED <<task, catalog, served, entity, shapefile, req, saw, ran>>

(* What a job that is not running has left behind is cleaned up.  It keeps *)
(* its status; validateNoParallelJobs no longer finds it.                  *)
CleanUp(j) ==
    /\ "clean" \in Faults
    /\ job[j].status \notin {"NONE", "PENDING", "IN_PROGRESS"}
    /\ ~job[j].cleaned
    /\ SetJob(j, [job[j] EXCEPT !.cleaned = TRUE, !.stray = @ \/ Active(j)])
    /\ UNCHANGED <<task, catalog, served, entity, shapefile, req, saw, ran>>

(* A user replaces a file of the metadata shapefile, by a content it never *)
(* had or, with "revert", by any other.                                    *)
EditFile(p, f) ==
    \E n \in 1 .. MaxEdits :
        /\ IF "revert" \in Faults THEN n # shapefile[p][f] ELSE n = shapefile[p][f] + 1
        /\ shapefile' = [shapefile EXCEPT ![p][f] = n]
        /\ UNCHANGED <<job, task, catalog, served, entity, req, saw, revived, ran>>

WorkerNext ==
    \E j \in Jobs :
        \/ StartValidation(j)
        \/ \E s \in Summaries : FinishValidation(j, s)
        \/ FailValidation(j)
        \/ Resume(j)
        \/ FailLater(j)
        \/ AddFinalize(j)
        \/ Publish(j)
        \/ Complete(j)
        \/ Expire(j)
        \/ CleanUp(j)

WorldNext ==
    \/ WorkerNext
    \/ \E p \in Products, f \in ShapeFiles : EditFile(p, f)
=============================================================================
