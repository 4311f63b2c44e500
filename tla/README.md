# Verification of the ingestion trigger

TLA+ models of the raster ingestion trigger (`src/`), TLC configurations that check
them on small instances, and proofs checked by TLAPS for every instance.

The service is a stateless Express application. It validates the files of a raster
layer on a shared mount, creates ingestion jobs in the job manager, and lets callers
retry, bypass or abort them. It has no lock and no database. What can go wrong lies
between the awaits of its handlers: other handlers, other replicas, the workers that
run the jobs and the users who edit the files all write the records and files a
handler has read.

## 1. Inventory

| Component | State | Operations | Talks to |
|---|---|---|---|
| `IngestionManager` | none of its own; per request: the job and task it read, the checksums it computed | `newLayer`, `updateLayer`, `retryIngestion`, `bypassValidationErrors`, `abortIngestion` | all clients, `ValidateManager`, `InfoManager`, `ProductManager`, `GeoValidator`, `Checksum` |
| `IngestionController`, error classes | none | HTTP requests to the manager, errors to statuses | `IngestionManager` |
| `JobManagerWrapper` | job manager: jobs and tasks (external) | find, get, create, update, reset, abort | job manager |
| `CatalogClient`, `MapProxyClient` | published layers (external) | `exists`, `findById` | catalog, MapProxy |
| `PolygonPartsManagerClient` | validation entities, one per product (external) | `deleteValidationEntity` | polygon parts manager |
| `JobTrackerClient` | none | `notify`: the validation task is over, create the next tasks | job tracker |
| `Checksum` | none | hash of one file, streamed | shared mount |
| `ProductManager` | the field `features`, **shared by all requests** | `read` | shapefile reader, zod schema |
| `SourceValidator`, `ValidateManager`, `GpkgManager`, `SQLiteClient` | none; a SQLite handle during one synchronous call | existence, index, grid, tile size | shared mount |
| `InfoManager`, `GdalInfoManager`, `GdalUtilities` | GDAL datasets while they are read | `getInfoData`, `validateInfoData` | shared mount |
| `GeoValidator` | none | footprint within the extent, then within the buffered extent | |
| Schemas, paths, server, container, telemetry | none | parsing, wiring, spans | |

Hard behaviours: decisions taken on records read several awaits earlier; two remote
writes that belong together and may be cut apart by a failure or a restart; checksums
of several files read while they are edited; a field shared by overlapping reads; a file
opened several times by one request and replaced in between; jobs that the admission
check no longer sees and a retry still accepts. `PROJECT.json` lists each under `hazards`, at
its line. What makes each component correct:

- *manager*: one active job per product; closed jobs stay closed; a job can always be
  moved on by someone; a bypass applies to the content that was validated; recorded
  checksums are not lost; the published version does not go back;
- *product manager*: a read returns its own product and refuses all but one feature;
- *input validation*: the status depends on the files and on nothing else while they do
  not change, and a flaw they have throughout a request is found. (What was found valid
  need not have been valid at one instant: each check opens the file anew.)

## 2. Modules

    BypassPolicy          pure decisions: checksums, statuses, bypassable errors
      IngestionState      records of the job manager, catalog, MapProxy, entities, files; requests
        IngestionWorld    external: workers, expiry, cleaner, users editing files
          IngestionManager      the handlers, one action per await; Next composes both
            IngestionProperties   properties; refinement mappings to the two below
              MCIngestion           instances for TLC
              IngestionProofs       types, admissions, revivals
                RefinementProofs    IngestionManager implements CheckThenAct
                  RequestProofs     what requests do not write, abort or lose
                  HealingProofs     what can leave a job that nobody can move
                    OneAtATimeProofs  what one request at a time can rely on
    CheckThenAct          abstract: look once, write later        CheckThenActProofs
    JobLifecycle          abstract: look and write in one step
    ProductReader         ProductManager.read          MCProductReader     ProductReaderProofs
    InputValidation       one request's file checks    MCInputValidation   InputValidationProofs

**State and code.** `job[j]` holds the status, product, version, approval
(`allowedValidationErrors` with an `approver`), whether the finalize task exists and
whether the job was cleaned up (`isCleaned`);
`task[j]` the validation task's status and parameters. `job[j].tracked` says whether
the job tracker knows the validation is over (`notify`). `entity[p]` is the job whose
validation data the polygon parts manager holds. `req[h]` is the request of slot `h`:
`at` is the call it awaits, the other fields are the local variables later steps use.
The handlers keep no state of their own, so several slots stand for concurrent requests
of one process and for replicas alike.

Some fields are history. No guard reads them: `saw`, `revived` and `ran`, `wrote`,
`checked` and `answer` of a request, `stray`, `overtook` and `outrun` of a job,
`overlapped` in `ProductReader`, and `persistent` in `InputValidation`: the flaws the files
have had ever since the request arrived. `touched` counts file changes there, to bound
them.

**Steps and code.** Each `await` of a handler is one action: the call takes effect and
the handler runs to its next await. `CheckNoParallelJobs` is the answer of `findJobs`
at `ingestionManager.ts:476`, `HardResetTask` and `HardResetJob` are the two writes of
`manualResetJobAndTask`, and so on; the `map` of `PROJECT.json` gives the lines of every
definition. `CallFails` is a call answered by an error, at any await: the handler throws
and is gone, except in `makeValidationTaskCompleted`, which swallows it. `WriteThen`
is a write whose reply is lost. `Crash` loses all requests in flight. In `InputValidation`
the three checks of `validateGpkgFiles` run in one turn of the event loop, but each opens
the gpkg anew (`gpkgManager.ts:33-35`, `:87-90`), and the event loop does not stop other
processes: each check is a step of its own, and files change between any two steps.

**Answers.** `StatusOf` maps the error a handler throws to the status the controller
sets: a `ValidationError` is 400 except for a bypass, whose handler looks for a
`BadRequestError` instead; only an update knows `GpkgError`. An error without a status
is answered by 500. The HTTP clients throw errors with a status of their own when the
service they call answers 400, 404 or 409, and the controllers pass these on:
`ErrorsOf` gives the errors each awaited call may end in. A 404 of MapProxy and of
`deleteValidationEntity` is not among them, since their clients take it for an answer
(`mapProxyClient.ts:35`, `polygonPartsManagerClient.ts:35`), and the client of the job
tracker wraps what it catches.

**Abstractions.** A checksum is the pair of a file and its edit number: files differ in
content, so a list of checksums is a set. A summary is the set of error types that
occur and the set of thresholds exceeded. A missing task, unparsable identifiers or
parameters and files that do not exist end a handler like a failed call and are not
told apart from it in `IngestionManager`, except by the status of the answer. Which of
New, Update and Swap_Update a job
is does not matter: all three block each other (`config/default.json:73`). A request has
exactly one gpkg (`openapi3.yaml:416-419`): it is the set of its defects and its extent; an
extent is a set of cells. A file that is open stays what it was: files are replaced,
not written into. The catalog of the models has one layer per product: that it finds
more of one id (409, `ingestionManager.ts:574`) is a way `findById` may fail. Operations that
carry the comment `mutant` are variants the model does not use: each replaces the
definition below it to show that a property can fail.

**External behaviour assumed.** A worker takes a pending task of a pending or running
job; a validation run that finds nothing leaves the job in progress and known to the
tracker, one with errors suspends it; it stores its data as the product's entity
together with its outcome. The tracker creates later tasks only for a valid task it
was told of. The job manager's reset and abort are unconditional, reset sets failed
tasks back to pending, abort aborts the tasks that are not completed; it creates a job
and its task in one step. Some cleaner may mark any job that is not pending or running
as cleaned: the service only asks for jobs with `isCleaned: false`
(`ingestionManager.ts:471`) and never sets the mark. The job keeps its status, and nothing
takes the mark back. The final task publishes to MapProxy, then to the catalog.

## 3. The abstract specifications

`JobLifecycle` is what a caller reads out of the API: every operation looks at the jobs
and writes in one step, and the status of a job moves along the arrows that the
operations and the workers have. An admission needs every job of the product to be
closed or cleaned up; the operations on one job do not ask whether it was cleaned up,
as in the code. `CheckThenAct` is what the code does. A request that
has seen jobs that allow its operation holds a *permit*, which it may use once, at any
later time and whatever has become of the jobs; refusals, failures and restarts drop it.

`IngestionProperties` maps the service to both: the statuses, products and marks of the
jobs are their own, and the permit of a slot (`PermitOf`) is a function of the operation and of
the call it awaits. A new layer past `findJobs` may create, a retry past `getJob` may
reset, a bypass past the tasks may set in progress, and an abort past `getJob` may
abort. No history variable is needed for it.

- The service implements `CheckThenAct` always (`ServiceChecksThenActs`, proved; checked
  by `answered`). So no handler writes a status twice on one look at the jobs, writes
  another status than its own, or writes before it has looked.
- With one holder of permits and no expiry, `CheckThenAct` implements `JobLifecycle`
  (`OneHolderIsAtomic`). Hence so does the service when its requests come one after
  the other (`OneAtATimeIsAtomic`, proved; checked by `faults`, and by `versions`
  with cleaned jobs). What is left of the
  difference between the two specifications is exactly the staleness of permits, which
  the `doc_` runs exhibit.

## 4. Runs

One product, since no step relates two products.

| Run | Instance | Checks |
|---|---|---|
| `contents` | 2 jobs, 1 slot, all operations, 2 files with 2 contents each, every kind of validation outcome | `BypassOnValidatedContent`, `ValidWithinThresholds`, `ChecksumsGrow` |
| `faults` | 2 jobs, 1 slot, 1 file; failing calls, lost replies, restarts | type; `WedgedHasCause`, `ValidJobHasEntity`, `AbortSparesFinalizing`, `LateRefusalsAreRelayed`, `SuccessMeansDone`; implements `JobLifecycle` |
| `versions` | 3 jobs, 1 slot, all operations but bypass; jobs may be cleaned up | `SingleActiveJob`, `AdmissionSound`, `ValidJobHasEntity`, `CatalogNeverRegresses`; implements `JobLifecycle` |
| `overlap` | 2 jobs, 2 slots: a bypass or an abort beside a new layer, a retry or a bypass | `WedgedHasCause`, `AdmissionSound`, `AbortSparesFinalizing`, `RevivalNeedsStaleRead`, `EntityLossHasCause` |
| `answered` | 1 job, 2 slots; restarts, expiry and cleaning, fair | `RequestsAnswered`; implements `CheckThenAct` |
| `product` | 2 reads, 5 files | type, `ExactWhenAlone` |
| `inputs` | the gpkg with each defect alone and in pairs, 2 shapefile files, 6 products; three changes during a request | type, `AnswerMatchesFiles`, `PersistentFlawsFound` |
| `doc_parallel` | 2 overlapping admissions | `SingleActiveJob` fails |
| `doc_abort_undone` | an abort beside a retry or a bypass | `AbortedStaysAborted` fails |
| `doc_bypass_reverted` | 2 jobs, 1 slot, files may be put back | `BypassOnValidatedContent` fails |
| `doc_bypass_stale` | 1 job, a bypass beside a retry, every kind of outcome | `ValidWithinThresholds` fails |
| `doc_product_mixed` | 2 reads | `ReturnsOwnProduct` fails |

The runs with one slot have one request at a time, but workers and users act between its
awaits: they show what a single careful caller can rely on, and what half-done requests
leave. The others show which of it survives overlaps. Read together:

- *Exclusion.* One at a time, a product has one active job that was not cleaned up
  (`SingleActiveJob`, proved). With overlaps it may have more (`doc_parallel`), but only if
  the admissions themselves overlapped (`AdmissionSound`, proved): a job that was there
  when another was admitted is closed or cleaned up, and comes back only through a stale
  read (`RevivalNeedsStaleRead`, proved) or through the next gap.
- *Cleaned jobs.* The admission check does not see a cleaned job
  (`ingestionManager.ts:471`), and a retry looks at the status alone (`:706-710`). So a
  FAILED or SUSPENDED job that was cleaned up and is retried after another job of its
  product was admitted runs beside that job, with one request at a time and no fault at
  all. Its hard retry deletes the validation entity of the other job (`:225`), and when
  it completes last it publishes the older version. The models have all of this. `stray`
  marks a job that was active although cleaned, and `NoStray(p)` says that product `p` has
  none. Three properties are guarded by it: without the guard `versions` violates
  `ValidJobHasEntity` and `CatalogNeverRegresses`, and two jobs with cleaning violate
  `SuccessMeansDone`, since the worker of the other job may store its data before the
  retry is over. What these properties show is that nothing else has these effects as
  long as no job of the product is stray.
- *Half-done requests.* A refusal the service decides on wrote no job and no task, whatever
  overlaps and fails, although a retry may have deleted the validation entity by then.
  But a 4xx may also follow a write: the job manager refuses the update of the job by a
  400, 404 or 409 after the task was updated (`ingestionManager.ts:401-402`, `:239-240`), or
  the polygon parts manager refuses the delete by a 400 or 409 after the job was aborted
  (`:742`, `:746`). The caller then sees that status, and the request is half done.
  `LateRefusalsAreRelayed` (proved) says that there are no other such answers. A success means that the records are what was asked for
  (`SuccessMeansDone`), when nobody else wrote and nothing expired (proved). What lies
  between leaves a job that a retry, a bypass or a worker can move, or one that only an
  abort can move. The last case is `Wedged`. Whatever fails (`faults`) and however
  requests interleave (`overlap`), it has one of four causes (`WedgedHasCause`, proved): a
  bypass wrote the task valid or the job approved and did not get to `notify`; or its
  update of the task was swallowed; or the job was brought back after it was closed, as
  when an abort falls between the two writes of a hard reset and leaves a pending job
  with an aborted task; or two retries overlapped. In the last case the first retry
  resets task and job, a worker validates the files again and finds errors or fails, and
  only then does the second retry write its status PENDING
  (`ingestionManager.ts:402`, or the reset of a retry that read a valid task): the job
  is pending, its task is done, and neither a retry nor a bypass is allowed. `outrun`
  records it.
- *Aborts.* An aborted job was not being finalized, unless the finalize task came
  between the abort's look at the tasks and its write: the window of one call
  (`AbortSparesFinalizing`, proved).
- *Validation data.* One request at a time, a job that passed its validation has its
  data (`ValidJobHasEntity`, proved), unless a cleaned job came back or jobs expire: an abort accepts an expired job
  (`ingestionManager.ts:714`) and deletes the entity of its product, which may by then be
  that of the job admitted after it. With overlaps it may lose them, by three steps only: the
  late delete of an abort, that of a retry that read the task before it was valid, or a
  second active job of the product (`EntityLossHasCause`, proved). `ValidJobHasEntity`
  leaves out jobs with errors: a retry deletes the entity before it finds the shapefile
  unchanged and refuses (`ingestionManager.ts:225` and `:310`), and such a job may then
  be bypassed.
- *Freshness.* As long as contents do not come back, a bypass on its own writes only when
  the shapefile is what the last validation saw, even if it is edited while its files
  are read, and what it lets pass is within the thresholds (both proved). With contents that come
  back the first fails (`doc_bypass_reverted`), because the recorded checksums
  accumulate. Beside a retry the second fails (`doc_bypass_stale`), because the bypass
  writes `isValid` over the outcome of a later validation.
- *Input files.* While no file changes, the status is the one of the table `Rules`, whichever
  defects come together (`AnswerMatchesFiles`, proved). When files are replaced during the
  request, it may be found valid although they were never sound at one instant: each
  check opens the gpkg anew, and the extent compared with the product is read earlier than
  the product. But a flaw the files have at every instant of the request is found
  (`PersistentFlawsFound`, proved). The footprint is a relation between two files and not
  among these flaws: a product outside an extent that changes with it may pass.

**Documented claims that fail.** The `doc_` runs check what a message, comment, test or
the OpenAPI document says; `findings` in `PROJECT.json` quotes each.

Other disagreements are plain from the code and have no run of their own. They are
modelled as the code has them. Nothing in the repository says what a retry of a cleaned
job should do; see above for what it does. The OpenAPI document has a retry of a job that is
FAILED or COMPLETED (`src/openapi3.yaml:130`), and a few lines on one that is FAILED or
SUSPENDED (`:144`), which is what the code has (`ingestionManager.ts:708`). It answers 400
to a retry, an abort or a bypass of a job in the wrong status; the code and its tests
answer 409, 409 and 422. It says that a job in finalization is not aborted (`:216`), but
see above for the window (`ingestionManager.ts:731`). `POST /info/gpkgs` never answers
422. `POST /ingestion` answers 404, which is not documented, and 500 where `PUT` answers
422. Three things may surprise a reader and contradict no document: an error type with a
threshold that was not exceeded is let pass although the caller did not list it
(`:786`, and a test says so, `ingestion.spec.ts:2268`); a product whose features come in several
chunks is judged by its last chunk (`productManager.ts:92`); a retry after a validation
that *failed* does not record the checksums of what the next validation reads, so a later
bypass of that very content is refused as changed (`ingestionManager.ts:309`).

**Bounds.** Two jobs are enough for a conflict and three for a conflict on a job that was
admitted after another was closed. Two slots are enough for every pair of operations.
The pairs of `overlap` leave out two retries, with which it outgrows TLC; what two retries
can do to a job is the theorem's (`OnlyTheseWedge`).
Two contents of each of two files let an edit fall between the reads of the files and
leave a mix of old and new ones; where the reads of the files are not in question, one
file does. One gpkg is all a request may have (`openapi3.yaml:416-419`). Three changes let
the gpkg be replaced before each of its three checks, or a defect come and go; the defects
are each alone and in the pairs whose order of discovery matters. Jobs are symmetric in
the runs with more than one; the liveness run has one job and uses no symmetry. The
bounds and the overlaps of operations (`Serves`) are constants. The faults of a run are
those of its row: with `callFails` an awaited call may be answered by an error, with
`lostReply` a write may take effect without its reply, with `crash` the process may
restart, with `expire` the job manager may expire a job, with `clean` a job may be marked
cleaned, with `revert` a file may be put back. Expiry has no run with more than one job,
and cleaning none with failing calls or with two slots and two jobs; the theorems on one
slot and on overlaps cover both.

**Fairness.** `FairSpec` asks for weak fairness of the steps of each slot: the event loop
resumes a handler whose call was answered. That every call is answered, by a result or
an error, is an assumption about the services and the mount: the configuration limits the
attempts of the HTTP client (`config/default.json:75`) and sets no timeout, so a service
that keeps a connection open without answering would keep a request waiting. Nothing is
asked of workers, users or callers. `RequestsAnswered` therefore says that no handler waits
for another handler or for a worker.

Deadlock is checked everywhere.

## 5. Proofs

The proofs hold for any number of jobs, slots, products and files and any faults. They
use the named assumptions on the constants (`StateAssumption`, `PolicyAssumption`,
`ReaderAssumption`, `InputAssumption`: their types). A theorem that needs more than
these says so in its statement, and the table in `OneAtATimeProofs` below says why.

`IngestionProofs`:

- `TypeCorrect`: `Spec => []TypeOK`. The induction needs more than types: a request
  past its first read holds a job, and a retry or bypass that has read the task has a
  task record. `TypeInv` adds it; there is one step lemma per group of actions
  (`AdmitInv`, `RetryInv`, `BypassInv`, `AbortInv`, `WorldInv`, ...).
- `AdmissionIsSound`: `Spec => []AdmissionSound`. The strengthening says that every job a
  request has *checked* is settled - closed, cleaned up or revived - from the answer of `findJobs`
  until the job is created, and that the same holds of the jobs a created job *saw*.
  `StaysSettled` carries it: no step makes a closed job active without recording it in
  `revived` or takes the mark of a cleaned job back (`JobKept`), and jobs never change
  product. `MarksInv` keeps the marks: a job that is active although cleaned is stray.
- `RevivalOnlyByStaleRead`: `Spec => RevivalNeedsStaleRead`. The invariant is that a request
  about to write has a recorded status that admitted it (`StatusRead`); `ReviveStep`
  shows which steps can revive a job.
- `AllowedListDecidesNothing`: `allowedValidationErrors` may only hold `resolution`, which
  has a threshold: whether it is given or not, the same summaries are bypassable.

`CheckThenActProofs` and `RefinementProofs`:

- `OneHolderOneOpenJob` and `OneHolderIsAtomic` are about the abstract specification with
  one holder. `AloneInv` says what a permit is still worth when nobody else holds one: no
  other job of the product has been opened since, save cleaned ones. `StillGood` adds, without expiry, that
  the status still admits the write.
- `ServiceChecksThenActs`: one lemma per group of actions shows that a step maps to a
  `Check`, `Create`, `Write`, `Drop`, `Work`, `CleanUp` or a stutter (`RefineAdmit`, `RefineRetry`, ...).
  It needs the shape of requests (`RequestsFormed`): which calls an operation may await,
  and that the job it is about exists.
- `OneAtATimeOneActiveJob` and `OneAtATimeIsAtomic` carry the abstract results over through
  the mapping: the argument about one request at a time is made on
  six actions, not on all those of the service.

`RequestProofs`:

- `RefusalIsCleanOrRelayed`: `Spec => LateRefusalsAreRelayed`. The decisions that refuse come
  before any write of the request (`RefusingSteps`), and of the calls a request awaits
  after a write only the update of the job and the delete of an abort can fail by a 4xx
  (`FailureAfterWrite`).
- `FinalizingIsSpared`: by `AbortInvariant`, a request about to abort a job either saw it
  without a finalize task or is recorded as overtaken.
- `EntityLossIsCaused`: an action property, from the types and the shape of requests.

`HealingProofs`, for any overlap and any fault:

- Its first half says once, field by field, what every step does to the records of one
  job (`TouchedBy` and the lemmas after it) and to one request (`ActsOn`).
  The proofs that follow, and those of `OneAtATimeProofs`, cite these lemmas and seldom
  the actions.
- `OnlyTheseWedge`: `Spec => []WedgedHasCause`. `HealInv` adds to it where the outcome of a
  validation is remembered: a completed task has the outcome of its last run, the
  tracker knows of every run that found nothing, an aborted task under an active job
  means that the job came back, and a retry that will reset the job softly read a valid
  task. The attempt to prove it is what found the fourth cause: `overlap` never has two
  retries on one job, and the invariant had three causes.

`OneAtATimeProofs`, for a single slot (`OneSlot`) with workers, expiry, users and faults
between its awaits. Its theorems build one invariant on another:

| Invariant | Says | Gives |
|---|---|---|
| `Base` | types, shape of requests, `HealInv`, and that a permit is held alone | |
| `Core` | the job and task a request has read still stand, as far as workers leave them (`Stands`); the records of a job tell the outcome of its last run (`Outcomes`) | `OneAtATimeValidWithinThresholds`, `OneAtATimeChecksumsGrow` |
| `CalmInv` | a suspended job is unknown to the tracker; what a request has written is still so when it writes next; without stray jobs, an aborting request is alone with its product | `OneAtATimeValidJobHasEntity`, `OneAtATimeSuccessMeansDone` |
| `TurnInv` | without stray jobs, the version of a job that is, or may become, active is the published one or the next; so is that of an admission past the catalog | `OneAtATimeCatalogGrows` |
| `ContentInv` | no checksum recorded or read is newer than what was validated or than the file; what a bypass read is not older | `OneAtATimeBypassOnValidatedContent` |

Their hypotheses besides `OneSlot` (requests that overlap break the first, see `doc_bypass_stale`):

| Theorem | Hypothesis | Why |
|---|---|---|
| `OneAtATimeValidWithinThresholds` | `SchemaLists`: a bypass lists nothing but `resolution` | the request schema admits no other list; a listed type without a threshold would pass |
| `OneAtATimeValidJobHasEntity` | `NothingExpires` | the abort of an expired job deletes the entity of the job admitted after it |
| `OneAtATimeSuccessMeansDone` | `NothingExpires` | a job may expire between the write of a request and its answer |
| `OneAtATimeBypassOnValidatedContent` | `NothingReverts` | `doc_bypass_reverted` |
| `OneAtATimeChecksumsGrow`, `OneAtATimeCatalogGrows` | none | |

`ValidJobHasEntity`, `SuccessMeansDone` and `CatalogNeverRegresses` carry the guard `NoStray`
in their own statement (see *Cleaned jobs* above). A product that has a stray job keeps it
(`ClearBefore`), so the invariants claim what needs the guard only of products that have
none so far.

`ContentInv` needs `NothingReverts` because checksums accumulate: a bypass that
finds all its checksums recorded may have read contents of different validations. Edit
numbers that only grow make the recorded content that is not older than the last
validated one unique, file by file.

`ProductReaderProofs`: `ExactnessWhenAlone` and `ReadsTypeCorrect`. `AloneInv` says that the
field holds what a read has collected of its chunk, for reads that have not overlapped,
and that overlaps are recorded on both sides. `OneReaderReturnsItsOwn` shows that
overlapping is the only reason why `doc_product_mixed` fails.

`InputValidationProofs`: `RequestTypeCorrect`, and

- `LastingFlawsAreFound`: `Spec => []PersistentFlawsFound`. `MeetInv` says what cannot have
  lasted when a request is at a stage (`Outlived`): what the checks it has passed find. A flaw
  that is still `persistent` is one the files have now, so the check that opens them now
  finds it.
- `AnswersMatchTheFiles`: `Spec => []AnswerMatchesFiles`. It compares the code's order of
  questions, one stage after the other, with the list `Rules` of what files deserve.
  `FirstFault` finds the fault the code meets first, and `FirstRule` reads the status off the
  first rule that applies. `MatchInv` says that all rules before the stage of a request
  have been ruled out, and of the shapefiles' files those it no longer awaits.

**Only model-checked.** `RequestsAnswered`, since liveness is out of the prover's reach.
Every invariant and action property of a passing run has a theorem. Those of `faults`,
`contents` and `versions` that are about one request at a time have it for one slot,
which is what these runs have; nothing is proved of the counterexamples of the `doc_` runs,
nor that the bounds of a run reach them.

## 6. Not modelled

- Parsing of requests, paths, schemas and identifiers. Requests in the models have
  passed it. The identifiers of a job are parsed only after it was aborted
  (`ingestionManager.ts:744`); those of jobs this service creates always parse.
- Requests for jobs that do not exist: the client's error ends them like a failed call.
- Wiring, routers, the dependency container and telemetry. That one `ProductManager` serves
  all requests is assumed by `ProductReader`.
- Calls the HTTP client sends again: whether the job manager accepts a second `createJob`
  cannot be known from this repository.
- The stream of one checksum (`checksum.ts:57`): a file is read at one instant. A torn
  checksum matches no recorded one and counts as a change.
- SQLite handles, opened and closed in one synchronous call, and GDAL datasets, which
  stay open when a read fails (`gdalUtilities.ts:51`), as resources.
- The split of a validation's two writes (entity and outcome), which belongs to the worker.

## 7. Plan

Done: the modules above. What is left, by worth:

1. Theorems on overlaps that sharpen those on one slot: which of `ChecksumsGrow` and
   `ValidWithinThresholds` survives when the requests that overlap are on different jobs.
2. A statement about half-published layers: after `Publish` and before `Complete` a layer
   is served but not in the catalog, and a job closed there leaves a product that
   neither a new layer nor an update accepts.
3. Datasets as a resource in `InputValidation`; a duplicated `createJob`, once the job
   manager's answer to it is known.
