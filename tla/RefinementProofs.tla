--------------------------- MODULE RefinementProofs ---------------------------
(***************************************************************************)
(* IngestionManager implements CheckThenAct, for any overlap of requests   *)
(* and any of the faults; and what CheckThenActProofs proves of one holder *)
(* carries over to a service that serves one request at a time.            *)
(***************************************************************************)
EXTENDS IngestionProofs

CP == INSTANCE CheckThenActProofs
      WITH Holders <- Handlers, Expires <- "expire" \in Faults, Nobody <- NoJob,
           status <- StatusOfJobs, product <- ProductOfJobs, cleaned <- CleanedJobs,
           permit <- PermitsHeld

(* The two instances are of one specification.                             *)
LEMMA SameSpec ==
    /\ C!CInit <=> CP!CInit
    /\ [C!CNext]_(C!cvars) <=> [CP!CNext]_(CP!cvars)
  <1>1. C!CInit <=> CP!CInit  BY DEF C!CInit, C!None, CP!CInit, CP!None
  <1>2. \A h, j : C!Create(h, j) <=> CP!Create(h, j)
    BY DEF C!Create, C!None, CP!Create, CP!None
  <1>3. \A h, kind, on : C!Check(h, kind, on) <=> CP!Check(h, kind, on)
    BY DEF C!Check, C!None, C!Good, C!Open, CP!Check, CP!None, CP!Good, CP!Open
  <1>4. \A h : C!Write(h) <=> CP!Write(h)
    BY DEF C!Write, C!None, C!Writes, CP!Write, CP!None, CP!Writes
  <1>5. \A H : C!Drop(H) <=> CP!Drop(H)
    BY DEF C!Drop, C!None, CP!Drop, CP!None
  <1>6. \A j : C!Work(j) <=> CP!Work(j)
    BY DEF C!Work, C!Moves, C!Open, CP!Work, CP!Moves, CP!Open
  <1>7. \A j : C!CleanUp(j) <=> CP!CleanUp(j)  BY DEF C!CleanUp, CP!CleanUp
  <1>8. C!CNext <=> CP!CNext  BY <1>2, <1>3, <1>4, <1>5, <1>6, <1>7 DEF C!CNext, CP!CNext
  <1>9. UNCHANGED C!cvars <=> UNCHANGED CP!cvars  BY DEF C!cvars, CP!cvars
  <1> QED  BY <1>1, <1>8, <1>9

(* The two instances of the lifecycle are of one specification.            *)
LEMMA SameLifecycle ==
    /\ CP!L!LInit <=> L!LInit
    /\ [CP!L!LNext]_(CP!L!lvars) <=> [L!LNext]_(L!lvars)
  <1>1. CP!L!LInit <=> L!LInit  BY DEF CP!L!LInit, L!LInit
  <1>2. \A j, p : CP!L!Create(j, p) <=> L!Create(j, p)
    BY DEF CP!L!Create, CP!L!Open, L!Create, L!Open
  <1>3. \A j : /\ CP!L!Reset(j) <=> L!Reset(j)
               /\ CP!L!Bypass(j) <=> L!Bypass(j)
               /\ CP!L!Abort(j) <=> L!Abort(j)
               /\ CP!L!Start(j) <=> L!Start(j)
               /\ CP!L!Finish(j) <=> L!Finish(j)
               /\ CP!L!CleanUp(j) <=> L!CleanUp(j)
    BY DEF CP!L!Reset, CP!L!Bypass, CP!L!Abort, CP!L!Start, CP!L!Finish, CP!L!CleanUp, CP!L!Becomes,
       CP!L!Open, L!CleanUp, L!Reset, L!Bypass, L!Abort, L!Start, L!Finish, L!Becomes, L!Open
  <1>4. CP!L!LNext <=> L!LNext  BY <1>2, <1>3 DEF CP!L!LNext, L!LNext
  <1>5. UNCHANGED CP!L!lvars <=> UNCHANGED L!lvars  BY DEF CP!L!lvars, L!lvars
  <1> QED  BY <1>1, <1>4, <1>5

-----------------------------------------------------------------------------
(* The shape of requests.  Where a request may be depends on what it is    *)
(* asked to do, on whether it has written and on what it has read, and the *)
(* job it is about exists.                                                 *)
Formed(r) ==
    /\ r.at = "catalog" => r.op = "new"
    /\ r.at \in {"inputFiles", "mapProxy", "findJobs", "createJob"} => r.op \in {"new", "update"}
    /\ r.at = "filesExist" => r.op \in {"retry", "bypass"}
    /\ r.at = "checksums" => r.op \in {"new", "update", "retry", "bypass"}
    /\ r.wrote => \/ r.at = "updateJob" /\ r.op \in {"retry", "bypass"}
                  \/ r.at = "notify" /\ r.op = "bypass"
                  \/ r.at = "deleteEntity" /\ r.op = "abort"
    /\ r.at = "deleteEntity" /\ r.op = "retry" => ~r.task.isValid

RequestsFormed ==
    \A h \in Handlers : Formed(req[h]) /\ (req[h].op \in JobOps => Exists(req[h].job))

-----------------------------------------------------------------------------
(* Steps of CheckThenAct, as they appear in IngestionManager.              *)

JobsUnmoved == UNCHANGED <<StatusOfJobs, ProductOfJobs, CleanedJobs>>

(* A request that goes on as r holds the permit of r.                      *)
LEMMA Holding ==
    ASSUME TypeInv, NEW h \in Handlers, NEW r, Proceed(h, r)
    PROVE  PermitsHeld' = [PermitsHeld EXCEPT ![h] = PermitOf(r)]
  BY DEF TypeInv, TypeOK, Proceed, PermitsHeld

(* One that is answered holds none.                                        *)
LEMMA Dropping ==
    ASSUME TypeInv, NEW h \in Handlers, Ends(h)
    PROVE  PermitsHeld' = [PermitsHeld EXCEPT ![h] = C!None]
  <1>1. \A st : PermitOf([Idle EXCEPT !.answer = st]) = C!None
    BY DEF Idle, PermitOf, KindOf, C!None
  <1>2. PICK st \in Answers : Proceed(h, [Idle EXCEPT !.answer = st])  BY DEF Ends, Proceed
  <1>3. PermitsHeld' = [PermitsHeld EXCEPT ![h] = PermitOf([Idle EXCEPT !.answer = st])]
    BY <1>2, Holding
  <1> QED  BY <1>1, <1>3

(* A write of a job's record.                                              *)
LEMMA JobMoves ==
    ASSUME TypeInv, NEW j \in Jobs, NEW r, job' = [job EXCEPT ![j] = r]
    PROVE  /\ StatusOfJobs' = [StatusOfJobs EXCEPT ![j] = r.status]
           /\ ProductOfJobs' = [ProductOfJobs EXCEPT ![j] = r.product]
           /\ r.product = job[j].product => ProductOfJobs' = ProductOfJobs
           /\ r.cleaned = job[j].cleaned => CleanedJobs' = CleanedJobs
           /\ r.product = job[j].product /\ r.status = job[j].status /\ r.cleaned = job[j].cleaned
                => JobsUnmoved
  <1> USE DEF TypeInv, TypeOK
  <1>1. StatusOfJobs' = [StatusOfJobs EXCEPT ![j] = r.status]  BY DEF StatusOfJobs
  <1>2. ProductOfJobs' = [ProductOfJobs EXCEPT ![j] = r.product]  BY DEF ProductOfJobs
  <1>3. r.product = job[j].product => ProductOfJobs' = ProductOfJobs  BY DEF ProductOfJobs
  <1>4. r.status = job[j].status => StatusOfJobs' = StatusOfJobs  BY DEF StatusOfJobs
  <1>5. r.cleaned = job[j].cleaned => CleanedJobs' = CleanedJobs  BY DEF CleanedJobs
  <1> QED  BY <1>1, <1>2, <1>3, <1>4, <1>5 DEF JobsUnmoved

(* Requests of one kind, product and job hold the same permit.             *)
LEMMA SamePermit ==
    \A r, q : KindOf(r) = KindOf(q) /\ r.product = q.product /\ r.job = q.job => PermitOf(r) = PermitOf(q)
  BY DEF PermitOf

(* Stuttering, dropping, checking, writing, working.                       *)
LEMMA Stays ==
    ASSUME TypeInv, NEW h \in Handlers, NEW r, Proceed(h, r), JobsUnmoved, PermitOf(r) = PermitOf(req[h])
    PROVE  UNCHANGED C!cvars
  BY Holding DEF C!cvars, JobsUnmoved, PermitsHeld

(* A request that is answered without a write loses its permit.            *)
LEMMA Drops ==
    ASSUME TypeInv, NEW h \in Handlers, Ends(h), JobsUnmoved
    PROVE  C!CNext
  <1>1. C!Drop({h})  BY Dropping DEF C!Drop, JobsUnmoved, PermitsHeld
  <1> QED  BY <1>1 DEF C!CNext

(* A look at the jobs that shows them good gives the permit.               *)
LEMMA Checks ==
    ASSUME TypeInv, NEW h \in Handlers, NEW r, Proceed(h, r), JobsUnmoved, KindOf(req[h]) = "none",
           KindOf(r) # "none", NEW on \in Products \cup Jobs, PermitOf(r).on = on, C!Good(KindOf(r), on)
    PROVE  C!CNext
  <1>1. PermitsHeld[h] = C!None  BY DEF PermitsHeld, PermitOf, C!None
  <1>2. PermitOf(r) = [kind |-> KindOf(r), on |-> on]  BY DEF PermitOf
  <1>3. KindOf(r) \in {"create", "reset", "bypass", "abort"}  BY DEF KindOf
  <1>4. C!Check(h, KindOf(r), on)  BY <1>1, <1>2, Holding DEF C!Check, JobsUnmoved
  <1> QED  BY <1>3, <1>4 DEF C!CNext

(* The write of a job's status uses up the permit of its request.          *)
LEMMA Writes ==
    ASSUME TypeInv, NEW h \in Handlers, KindOf(req[h]) \in {"reset", "bypass", "abort"},
           req[h].job \in Jobs, NEW r, job' = [job EXCEPT ![req[h].job] = r],
           r.product = job[req[h].job].product, r.cleaned = job[req[h].job].cleaned,
           r.status = C!Writes[KindOf(req[h])],
           PermitsHeld' = [PermitsHeld EXCEPT ![h] = C!None]
    PROVE  C!CNext
  <1>1. PermitsHeld[h] = [kind |-> KindOf(req[h]), on |-> req[h].job]  BY DEF PermitsHeld, PermitOf
  <1>2. PermitsHeld[h].kind \in DOMAIN C!Writes /\ PermitsHeld[h].on = req[h].job
    BY <1>1 DEF C!Writes
  <1>3. /\ StatusOfJobs' = [StatusOfJobs EXCEPT ![req[h].job] = C!Writes[PermitsHeld[h].kind]]
        /\ ProductOfJobs' = ProductOfJobs /\ CleanedJobs' = CleanedJobs
    <2>1. /\ StatusOfJobs' = [StatusOfJobs EXCEPT ![req[h].job] = r.status]
          /\ ProductOfJobs' = ProductOfJobs /\ CleanedJobs' = CleanedJobs
      BY JobMoves
    <2>2. r.status = C!Writes[PermitsHeld[h].kind]  BY <1>1
    <2> QED  BY <2>1, <2>2
  <1>4. C!Write(h)  BY <1>2, <1>3 DEF C!Write
  <1> QED  BY <1>4 DEF C!CNext

(* A worker's write needs no permit and leaves them all.                   *)
LEMMA Works ==
    ASSUME TypeInv, NEW j \in Jobs, NEW r, job' = [job EXCEPT ![j] = r], req' = req,
           r.product = job[j].product, r.cleaned = job[j].cleaned,
           \/ r.status \in C!Moves(job[j].status) \cup {job[j].status}
           \/ r.status = "EXPIRED" /\ "expire" \in Faults /\ Active(j)
    PROVE  [C!CNext]_(C!cvars)
  <1>1. PermitsHeld' = PermitsHeld  BY DEF PermitsHeld
  <1>2. StatusOfJobs[j] = job[j].status  BY DEF StatusOfJobs
  <1>3. CASE r.status = job[j].status  BY <1>1, <1>3, JobMoves DEF C!cvars, JobsUnmoved
  <1>4. CASE r.status # job[j].status
    <2>1. r.status \in C!Moves(StatusOfJobs[j])
             \cup (IF "expire" \in Faults /\ StatusOfJobs[j] \in C!Open THEN {"EXPIRED"} ELSE {})
      BY <1>2, <1>4 DEF Active, Blocking, C!Open
    <2>2. C!Work(j)  BY <1>1, <2>1, JobMoves DEF C!Work
    <2> QED  BY <2>2 DEF C!CNext
  <1> QED  BY <1>3, <1>4

-----------------------------------------------------------------------------
(* Every step of IngestionManager is one of CheckThenAct, or none.         *)

Refined == [C!CNext]_(C!cvars)

(* Going on without a look at the jobs: the kind of permit stays.          *)
LEMMA GoingOn ==
    ASSUME TypeInv, NEW h \in Handlers, JobsUnmoved, NEW r, Proceed(h, r), KindOf(r) = KindOf(req[h]),
           r.product = req[h].product /\ r.job = req[h].job
    PROVE  Refined
  BY Stays, SamePermit DEF Refined

(* The same for the steps that only move to another await.                 *)
LEMMA MovingOn ==
    ASSUME TypeInv, NEW h \in Handlers, JobsUnmoved, NEW at, GoTo(h, at) \/ WroteThen(h, at),
           \A r : r.op = req[h].op /\ r.status = req[h].status /\ r.at = at => KindOf(r) = KindOf(req[h])
    PROVE  Refined
  <1> DEFINE r(b) == [req[h] EXCEPT !.at = at, !.wrote = b]
  <1>1. req[h] \in Request  BY DEF TypeInv, TypeOK
  <1>2. [req[h] EXCEPT !.at = at] = r(req[h].wrote)  BY <1>1 DEF Request
  <1>3. PICK b : Proceed(h, r(b))  BY <1>2 DEF GoTo, WroteThen
  <1>4. /\ r(b).op = req[h].op /\ r(b).status = req[h].status /\ r(b).at = at
        /\ r(b).product = req[h].product /\ r(b).job = req[h].job
    BY <1>1 DEF Request
  <1> HIDE DEF r
  <1> QED  BY <1>3, <1>4, GoingOn

(* Requests arrive without a permit.                                       *)
LEMMA RefineReceive == ASSUME TypeInv, NEW h \in Handlers, Receive(h) PROVE Refined
  <1>0. JobsUnmoved
    BY DEF Receive, ReceiveNew, ReceiveUpdate, ReceiveForJob, remote, JobsUnmoved, StatusOfJobs,
       ProductOfJobs, CleanedJobs
  <1>1. req[h].at = "idle"  BY DEF Receive, ReceiveNew, ReceiveUpdate, ReceiveForJob
  <1>2. KindOf(req[h]) = "none"  BY <1>1 DEF KindOf
  <1>3. ASSUME NEW r, Proceed(h, r), KindOf(r) = "none"  PROVE Refined
    <2>1. PermitOf(r) = PermitOf(req[h])  BY <1>2, <1>3 DEF PermitOf
    <2> QED  BY <1>0, <1>3, <2>1, Stays DEF Refined
  <1>4. \A p : KindOf([Idle EXCEPT !.op = "new", !.at = "inputFiles", !.product = p, !.version = 1])
                 = "none"
    BY DEF Idle, KindOf
  <1>5. \A p : KindOf([Idle EXCEPT !.op = "update", !.at = "findById", !.product = p]) = "none"
    BY DEF Idle, KindOf
  <1>6. ASSUME NEW p, ReceiveNew(h, p) \/ ReceiveUpdate(h, p)  PROVE Refined
    BY <1>3, <1>4, <1>5, <1>6 DEF ReceiveNew, ReceiveUpdate
  <1>7. ASSUME NEW op, NEW j, NEW a, ReceiveForJob(h, op, j, a)  PROVE Refined
    <2> DEFINE r == [Idle EXCEPT !.op = op, !.at = "getJob", !.product = Product(j), !.job = j,
                                 !.allowed = a]
    <2>1. Proceed(h, r)  BY <1>7 DEF ReceiveForJob
    <2>2. KindOf(r) = "none"  BY DEF Idle, KindOf
    <2> HIDE DEF r
    <2> QED  BY <1>3, <2>1, <2>2
  <1> QED  BY <1>6, <1>7 DEF Receive

(* Admissions look at the jobs of the product and create one.              *)
LEMMA RefineAdmit ==
    ASSUME TypeInv, MarksInv, RequestsFormed, NEW h \in Handlers, Admit(h)
    PROVE  Refined
  <1>0. req[h] \in Request /\ Formed(req[h])  BY DEF TypeInv, TypeOK, RequestsFormed
  <1>1. job' = job => JobsUnmoved  BY DEF JobsUnmoved, StatusOfJobs, ProductOfJobs, CleanedJobs
  <1>2. JobsUnmoved /\ Ends(h) => Refined  BY Drops DEF Refined
  <1>3. CASE GetLayerMetadata(h)
    <2> DEFINE r == [req[h] EXCEPT !.at = "inputFiles", !.version = catalog[req[h].product] + 1]
    <2>1. /\ KindOf(r) = KindOf(req[h])
          /\ r.product = req[h].product /\ r.job = req[h].job
      BY <1>0, <1>3 DEF GetLayerMetadata, Awaiting, KindOf, Request
    <2>2. JobsUnmoved /\ (Ends(h) \/ Proceed(h, r))
      BY <1>1, <1>3, Answering DEF GetLayerMetadata, remote
    <2> HIDE DEF r
    <2> QED  BY <1>2, <2>1, <2>2, GoingOn
  <1>4. CASE ValidateInputFiles(h)
    <2>1. \A r : r.op = req[h].op /\ r.status = req[h].status /\ r.at = "mapProxy" =>
                    KindOf(r) = KindOf(req[h])
      BY <1>4 DEF ValidateInputFiles, KindOf
    <2> QED  BY <1>1, <1>4, <2>1, MovingOn DEF ValidateInputFiles, remote
  <1>5. CASE CheckMapProxy(h) \/ CheckCatalog(h)
    <2>1. \A r, at : at \in {"catalog", "findJobs"} /\
                     r.op = req[h].op /\ r.status = req[h].status /\ r.at = at =>
                        KindOf(r) = KindOf(req[h])
      BY <1>5 DEF CheckMapProxy, CheckCatalog, KindOf
    <2>2. JobsUnmoved /\ (Ends(h) \/ \E at \in {"catalog", "findJobs"} : GoTo(h, at))
      BY <1>1, <1>5, Answering DEF CheckMapProxy, CheckCatalog, remote
    <2> QED  BY <1>2, <2>1, <2>2, MovingOn
  <1>6. CASE CheckNoParallelJobs(h)
    <2> DEFINE p == req[h].product
               r == [req[h] EXCEPT !.at = "checksums",
                                   !.checked = {j \in Jobs : Exists(j) /\ Product(j) = p}]
    <2>1. /\ KindOf(req[h]) = "none" /\ KindOf(r) = "create"
          /\ PermitOf(r).on = p /\ p \in Products
      BY <1>0, <1>6 DEF CheckNoParallelJobs, Formed, KindOf, PermitOf, Request
    <2>2. CASE Ends(h)  BY <1>1, <1>2, <1>6, <2>2 DEF CheckNoParallelJobs, remote
    <2>3. CASE Conflicting(p) = {} /\ Proceed(h, r)
      <3>1. C!Good("create", p)
        BY <2>1, <2>3 DEF C!Good, C!Open, Conflicting, Blocking, StatusOfJobs, ProductOfJobs,
           CleanedJobs, Product
      <3>2. JobsUnmoved  BY <1>1, <1>6 DEF CheckNoParallelJobs, remote
      <3> HIDE DEF r
      <3> QED  BY <2>1, <2>3, <3>1, <3>2, Checks DEF Refined
    <2> QED  BY <1>6, <2>2, <2>3, Answering DEF CheckNoParallelJobs
  <1>7. ASSUME NEW j \in Jobs, CreateJob(h, j)  PROVE Refined
    <2> DEFINE r == [BlankJob EXCEPT !.status = "PENDING", !.product = req[h].product,
                                     !.version = req[h].version]
    <2>1. r.status = "PENDING" /\ r.product = req[h].product /\ r.cleaned = job[j].cleaned
      BY <1>7 DEF BlankJob, CreateJob, MarksInv, TypeInv, TypeOK, Job
    <2>2. KindOf(req[h]) = "create"  BY <1>0, <1>7 DEF CreateJob, Formed, KindOf
    <2>3. PermitsHeld[h].kind = "create" /\ PermitsHeld[h].on = req[h].product
      BY <2>2 DEF PermitsHeld, PermitOf
    <2>4. StatusOfJobs[j] = "NONE"  BY <1>7 DEF CreateJob, Exists, StatusOfJobs
    <2>5. job' = [job EXCEPT ![j] = r] /\ Ends(h)  BY <1>7, Answering DEF CreateJob
    <2>6. C!Create(h, j)
      <3> HIDE DEF r
      <3>1. /\ StatusOfJobs' = [StatusOfJobs EXCEPT ![j] = "PENDING"]
            /\ ProductOfJobs' = [ProductOfJobs EXCEPT ![j] = req[h].product]
            /\ CleanedJobs' = CleanedJobs
        <4>1. /\ StatusOfJobs' = [StatusOfJobs EXCEPT ![j] = r.status]
              /\ ProductOfJobs' = [ProductOfJobs EXCEPT ![j] = r.product]
              /\ CleanedJobs' = CleanedJobs
          BY <2>1, <2>5, JobMoves
        <4> QED  BY <2>1, <4>1
      <3>2. PermitsHeld' = [PermitsHeld EXCEPT ![h] = C!None]  BY <2>5, Dropping
      <3> QED  BY <2>3, <2>4, <3>1, <3>2 DEF C!Create
    <2> QED  BY <2>6 DEF C!CNext, Refined
  <1>8. CASE RefuseJob(h)  BY <1>1, <1>2, <1>8, Answering DEF RefuseJob, remote
  <1> QED  BY <1>3, <1>4, <1>5, <1>6, <1>7, <1>8 DEF Admit

(* The shapefile is read under the permit the request has.                 *)
LEMMA RefineReadFiles == ASSUME TypeInv, RequestsFormed, NEW h \in Handlers, ReadFiles(h) PROVE Refined
  <1>0. req[h] \in Request /\ Formed(req[h])  BY DEF TypeInv, TypeOK, RequestsFormed
  <1>1. JobsUnmoved
    BY DEF ReadFiles, CheckFilesExist, GetFileChecksum, remote, JobsUnmoved, StatusOfJobs,
       ProductOfJobs, CleanedJobs
  <1>2. CASE CheckFilesExist(h)
    <2>1. \A r : r.op = req[h].op /\ r.status = req[h].status /\ r.at = "checksums" =>
                    KindOf(r) = KindOf(req[h])
      BY <1>0, <1>2 DEF CheckFilesExist, Formed, KindOf
    <2> QED  BY <1>1, <1>2, <2>1, MovingOn DEF CheckFilesExist
  <1>3. ASSUME NEW f \in ShapeFiles, GetFileChecksum(h, f)  PROVE Refined
    <2> DEFINE read == req[h].read \cup {ChecksumOf(req[h].product, f)}
               r(at) == [req[h] EXCEPT !.at = at, !.read = read]
    <2>1. [req[h] EXCEPT !.read = read] = r("checksums")
      BY <1>0, <1>3 DEF Request, GetFileChecksum
    <2>2. \/ Ends(h)
          \/ Proceed(h, r("checksums"))
          \/ req[h].op \in {"retry", "bypass"} /\ Proceed(h, r("updateTask"))
          \/ req[h].op \notin {"retry", "bypass"} /\ Proceed(h, r("createJob"))
      BY <1>3, <2>1, Answering DEF GetFileChecksum, RetryDecision, BypassDecision
    <2>3. \A at : /\ r(at).op = req[h].op /\ r(at).at = at /\ r(at).status = req[h].status
                  /\ r(at).product = req[h].product /\ r(at).job = req[h].job
      BY <1>0 DEF Request
    <2>4. req[h].at = "checksums" /\ req[h].op \in {"new", "update", "retry", "bypass"}
      BY <1>0, <1>3 DEF GetFileChecksum, Formed
    <2> HIDE DEF r
    <2>5. /\ KindOf(r("checksums")) = KindOf(req[h])
          /\ req[h].op \in {"retry", "bypass"} => KindOf(r("updateTask")) = KindOf(req[h])
          /\ req[h].op \notin {"retry", "bypass"} => KindOf(r("createJob")) = KindOf(req[h])
      BY <2>3, <2>4 DEF KindOf
    <2> QED  BY <1>1, <2>2, <2>3, <2>5, GoingOn, Drops DEF Refined
  <1> QED  BY <1>2, <1>3 DEF ReadFiles

(* The write of a request that is over, or past its permit, is its one use *)
(* of the permit.                                                          *)
LEMMA WritingStatus ==
    ASSUME TypeInv, NEW h \in Handlers, req[h].job \in Jobs, NEW r, SetJob(req[h].job, r),
           r.product = job[req[h].job].product, r.cleaned = job[req[h].job].cleaned,
           r.status = C!Writes[KindOf(req[h])], KindOf(req[h]) \in {"reset", "bypass", "abort"},
           \/ Ends(h)
           \/ \E at \in {"notify", "deleteEntity"} : req[h].op \in {"bypass", "abort"} /\ WroteThen(h, at)
    PROVE  Refined
  <1>1. job' = [job EXCEPT ![req[h].job] = r]  BY DEF SetJob
  <1>2. PermitsHeld' = [PermitsHeld EXCEPT ![h] = C!None]
    <2>1. CASE Ends(h)  BY <2>1, Dropping
    <2>2. ASSUME NEW at \in {"notify", "deleteEntity"}, req[h].op \in {"bypass", "abort"}, WroteThen(h, at)
          PROVE  PermitsHeld' = [PermitsHeld EXCEPT ![h] = C!None]
      <3> DEFINE q == [req[h] EXCEPT !.at = at, !.wrote = TRUE]
      <3>1. q.op = req[h].op /\ q.at = at  BY DEF TypeInv, TypeOK, Request
      <3>2. Proceed(h, q)  BY <2>2 DEF WroteThen
      <3> HIDE DEF q
      <3>3. PermitOf(q) = C!None  BY <2>2, <3>1 DEF PermitOf, KindOf, C!None
      <3> QED  BY <3>2, <3>3, Holding
    <2> QED  BY <2>1, <2>2
  <1> QED  BY <1>1, <1>2, Writes DEF Refined

(* A retry resets the job under the permit it got from its status.         *)
LEMMA RefineRetry == ASSUME TypeInv, NEW h \in Handlers, Retry(h) PROVE Refined
  <1>0. req[h] \in Request /\ req[h].job \in Jobs /\ req[h].op = "retry"
    BY DEF TypeInv, TypeOK, JobRequests, JobOps, Retry, RetryGetJob, RetryGetTasks, SoftReset,
       RetryDeleteEntity, HardResetTask, HardResetJob, Awaiting
  <1>1. job' = job => JobsUnmoved  BY DEF JobsUnmoved, StatusOfJobs, ProductOfJobs, CleanedJobs
  <1>2. JobsUnmoved /\ Ends(h) => Refined  BY Drops DEF Refined
  <1>3. CASE RetryGetJob(h)
    <2> DEFINE j == req[h].job
               r == [req[h] EXCEPT !.at = "getTasks", !.status = job[j].status]
    <2>1. KindOf(req[h]) = "none"  BY <1>0, <1>3 DEF RetryGetJob, Awaiting, KindOf
    <2>2. KindOf(r) = "reset" /\ PermitOf(r).on = j  BY <1>0 DEF KindOf, PermitOf, Request
    <2>3. Ends(h) \/ (job[j].status \in Retryable /\ Proceed(h, r))
      BY <1>3, Answering DEF RetryGetJob
    <2>4. job[j].status \in Retryable => C!Good("reset", j)
      BY <1>0 DEF C!Good, StatusOfJobs, Retryable
    <2>5. JobsUnmoved  BY <1>1, <1>3 DEF RetryGetJob, remote
    <2> HIDE DEF r
    <2> QED  BY <1>0, <1>2, <2>1, <2>2, <2>3, <2>4, <2>5, Checks DEF Refined
  <1>4. CASE RetryGetTasks(h)
    <2> DEFINE t == task[req[h].job]
               at == IF t.isValid THEN "resetJob" ELSE "deleteEntity"
               r == [req[h] EXCEPT !.task = t, !.at = at]
    <2>1. /\ r.op = "retry" /\ r.at = at /\ r.product = req[h].product /\ r.job = req[h].job
          /\ req[h].at = "getTasks"
      BY <1>0, <1>4 DEF Request, RetryGetTasks, Awaiting
    <2>2. JobsUnmoved /\ Proceed(h, r)  BY <1>1, <1>4 DEF RetryGetTasks, remote
    <2>3. at \notin {"idle", "getJob"}  OBVIOUS
    <2> HIDE DEF r, at
    <2>4. KindOf(r) = KindOf(req[h])  BY <1>0, <2>1, <2>3 DEF KindOf
    <2> QED  BY <2>1, <2>2, <2>4, GoingOn
  <1>5. CASE SoftReset(h) \/ HardResetJob(h)
    <2>1. KindOf(req[h]) = "reset"  BY <1>0, <1>5 DEF SoftReset, HardResetJob, Awaiting, KindOf
    <2>2. PICK r \in Job : /\ SetJob(req[h].job, r)
                           /\ r.product = job[req[h].job].product /\ r.status = "PENDING"
                           /\ r.cleaned = job[req[h].job].cleaned
      BY <1>0, <1>5, RetryResets, ResetIs DEF TypeInv, TypeOK
    <2>3. r.status = C!Writes[KindOf(req[h])]  BY <2>1, <2>2 DEF C!Writes
    <2>4. Ends(h)  BY <1>5, Answering DEF SoftReset, HardResetJob
    <2> QED  BY <1>0, <2>1, <2>2, <2>3, <2>4, WritingStatus
  <1>6. CASE RetryDeleteEntity(h) \/ HardResetTask(h)
    <2>1. JobsUnmoved  BY <1>1, <1>6 DEF RetryDeleteEntity, HardResetTask
    <2>2. Ends(h) \/ \E at \in {"filesExist", "updateJob"} : GoTo(h, at) \/ WroteThen(h, at)
      BY <1>6, Answering DEF RetryDeleteEntity, HardResetTask, WriteThen
    <2>3. \A r, at : at \in {"filesExist", "updateJob"} /\
                     r.op = req[h].op /\ r.status = req[h].status /\ r.at = at =>
                        KindOf(r) = KindOf(req[h])
      BY <1>0, <1>6 DEF RetryDeleteEntity, HardResetTask, Awaiting, KindOf
    <2> QED  BY <1>2, <2>1, <2>2, <2>3, MovingOn
  <1> QED  BY <1>3, <1>4, <1>5, <1>6 DEF Retry

(* A bypass sets the job running under the permit of a suspended job.      *)
LEMMA RefineBypass == ASSUME TypeInv, NEW h \in Handlers, Bypass(h) PROVE Refined
  <1>0. req[h] \in Request /\ req[h].job \in Jobs /\ req[h].op = "bypass"
    BY DEF TypeInv, TypeOK, JobRequests, JobOps, Bypass, BypassGetJob, BypassGetTasks, BypassUpdateTask,
       BypassUpdateJob, BypassNotify, Awaiting
  <1>1. job' = job => JobsUnmoved  BY DEF JobsUnmoved, StatusOfJobs, ProductOfJobs, CleanedJobs
  <1>2. JobsUnmoved /\ Ends(h) => Refined  BY Drops DEF Refined
  <1>3. CASE BypassGetJob(h)
    <2> DEFINE j == req[h].job
               r == [req[h] EXCEPT !.at = "getTasks", !.status = job[j].status]
    <2>1. KindOf(req[h]) = "none"  BY <1>0, <1>3 DEF BypassGetJob, Awaiting, KindOf
    <2>2. /\ r.op = "bypass" /\ r.at = "getTasks" /\ r.status = job[j].status
          /\ r.job = j /\ r.product = req[h].product
      BY <1>0 DEF Request
    <2>3. JobsUnmoved /\ Proceed(h, r)  BY <1>1, <1>3 DEF BypassGetJob, remote
    <2> HIDE DEF r
    <2>4. CASE job[j].status = "SUSPENDED"
      <3>1. KindOf(r) = "bypass" /\ PermitOf(r).on = j  BY <2>2, <2>4 DEF KindOf, PermitOf
      <3>2. C!Good("bypass", j)  BY <1>0, <2>4 DEF C!Good, StatusOfJobs
      <3> QED  BY <1>0, <2>1, <2>3, <3>1, <3>2, Checks DEF Refined
    <2>5. CASE job[j].status # "SUSPENDED"
      <3>1. KindOf(r) = "none"  BY <2>2, <2>5 DEF KindOf
      <3> QED  BY <2>1, <2>2, <2>3, <3>1, GoingOn
    <2> QED  BY <2>4, <2>5
  <1>4. CASE BypassGetTasks(h)
    <2> DEFINE r == [req[h] EXCEPT !.at = "filesExist", !.task = task[req[h].job]]
    <2>1. /\ r.op = "bypass" /\ r.at = "filesExist" /\ r.product = req[h].product
          /\ r.job = req[h].job
      BY <1>0 DEF Request
    <2>2. Ends(h) \/ (req[h].status = "SUSPENDED" /\ Proceed(h, r))
      BY <1>4, Answering DEF BypassGetTasks, CanBypass
    <2>3. JobsUnmoved /\ req[h].at = "getTasks"
      BY <1>1, <1>4 DEF BypassGetTasks, Awaiting, remote
    <2> HIDE DEF r
    <2>4. req[h].status = "SUSPENDED" => KindOf(r) = KindOf(req[h])  BY <1>0, <2>1, <2>3 DEF KindOf
    <2> QED  BY <1>2, <2>1, <2>2, <2>3, <2>4, GoingOn
  <1>5. CASE BypassUpdateTask(h)
    <2>1. \A r : r.op = req[h].op /\ r.status = req[h].status /\ r.at = "updateJob" =>
                    KindOf(r) = KindOf(req[h])
      BY <1>0, <1>5 DEF BypassUpdateTask, Awaiting, KindOf
    <2> QED  BY <1>1, <1>5, <2>1, MovingOn DEF BypassUpdateTask
  <1>6. CASE BypassUpdateJob(h)
    <2>1. KindOf(req[h]) = "bypass"  BY <1>0, <1>6 DEF BypassUpdateJob, Awaiting, KindOf
    <2>2. PICK r \in Job : /\ SetJob(req[h].job, r)
                           /\ r.product = job[req[h].job].product /\ r.status = "IN_PROGRESS"
                           /\ r.cleaned = job[req[h].job].cleaned
      BY <1>0, <1>6, ApprovalIs DEF TypeInv, TypeOK, Request
    <2>3. r.status = C!Writes[KindOf(req[h])]  BY <2>1, <2>2 DEF C!Writes
    <2>4. Ends(h) \/ WroteThen(h, "notify")
      BY <1>6, Answering DEF BypassUpdateJob, WriteThen
    <2> QED  BY <1>0, <2>1, <2>2, <2>3, <2>4, WritingStatus
  <1>7. CASE BypassNotify(h)
    <2> DEFINE j == req[h].job
               r == [job[j] EXCEPT !.tracked = TRUE]
    <2>1. /\ r.product = job[j].product /\ r.status = job[j].status
          /\ r.cleaned = job[j].cleaned
      BY <1>0 DEF TypeInv, TypeOK, Job
    <2>2. job' = [job EXCEPT ![j] = r] /\ Ends(h)  BY <1>7, Answering DEF BypassNotify
    <2> HIDE DEF r
    <2>3. JobsUnmoved  BY <1>0, <2>1, <2>2, JobMoves
    <2> QED  BY <1>2, <2>2, <2>3
  <1> QED  BY <1>3, <1>4, <1>5, <1>6, <1>7 DEF Bypass

(* An abort aborts the job under the permit it got from its status.        *)
LEMMA RefineAbort == ASSUME TypeInv, RequestsFormed, NEW h \in Handlers, Abort(h) PROVE Refined
  <1>0. req[h] \in Request /\ req[h].job \in Jobs /\ req[h].op = "abort"
    BY DEF TypeInv, TypeOK, JobRequests, JobOps, Abort, AbortGetJob, AbortGetTasks, AbortJob,
       AbortDeleteEntity, Awaiting
  <1>1. job' = job => JobsUnmoved  BY DEF JobsUnmoved, StatusOfJobs, ProductOfJobs, CleanedJobs
  <1>2. JobsUnmoved /\ Ends(h) => Refined  BY Drops DEF Refined
  <1>3. CASE AbortGetJob(h)
    <2> DEFINE j == req[h].job
               r == [req[h] EXCEPT !.at = "getTasks", !.status = job[j].status]
    <2>1. KindOf(req[h]) = "none"  BY <1>0, <1>3 DEF AbortGetJob, Awaiting, KindOf
    <2>2. KindOf(r) = "abort" /\ PermitOf(r).on = j  BY <1>0 DEF KindOf, PermitOf, Request
    <2>3. Ends(h) \/ (job[j].status \notin Unabortable /\ Proceed(h, r))
      BY <1>3, Answering DEF AbortGetJob
    <2>4. job[j].status # "NONE"  BY <1>0 DEF RequestsFormed, JobOps, Exists
    <2>5. job[j].status \notin Unabortable => C!Good("abort", j)
      BY <1>0, <2>4 DEF C!Good, StatusOfJobs, Unabortable
    <2>6. JobsUnmoved  BY <1>1, <1>3 DEF AbortGetJob, remote
    <2> HIDE DEF r
    <2> QED  BY <1>0, <1>2, <2>1, <2>2, <2>3, <2>5, <2>6, Checks DEF Refined
  <1>4. CASE AbortGetTasks(h)
    <2>1. \A r : r.op = req[h].op /\ r.status = req[h].status /\ r.at = "abortJob" =>
                    KindOf(r) = KindOf(req[h])
      BY <1>0, <1>4 DEF AbortGetTasks, Awaiting, KindOf
    <2>2. JobsUnmoved /\ (Ends(h) \/ GoTo(h, "abortJob"))
      BY <1>1, <1>4, Answering DEF AbortGetTasks, remote
    <2> QED  BY <1>2, <2>1, <2>2, MovingOn
  <1>5. CASE AbortJob(h)
    <2> DEFINE r == [job[req[h].job] EXCEPT !.status = "ABORTED"]
    <2>1. KindOf(req[h]) = "abort"  BY <1>0, <1>5 DEF AbortJob, Awaiting, KindOf
    <2>2. /\ r.product = job[req[h].job].product /\ r.cleaned = job[req[h].job].cleaned
          /\ r.status = C!Writes[KindOf(req[h])]
      BY <1>0, <2>1 DEF TypeInv, TypeOK, Job, C!Writes
    <2>3. SetJob(req[h].job, r) /\ (Ends(h) \/ WroteThen(h, "deleteEntity"))
      BY <1>5, Answering DEF AbortJob, WriteThen
    <2> HIDE DEF r
    <2> QED  BY <1>0, <2>1, <2>2, <2>3, WritingStatus
  <1>6. CASE AbortDeleteEntity(h)  BY <1>1, <1>2, <1>6, Answering DEF AbortDeleteEntity
  <1> QED  BY <1>3, <1>4, <1>5, <1>6 DEF Abort

(* Failing calls and restarts lose permits.                                *)
LEMMA RefineFaults == ASSUME TypeInv, Crash \/ \E h \in Handlers : CallFails(h) PROVE Refined
  <1>1. JobsUnmoved
    BY DEF Crash, CallFails, remote, JobsUnmoved, StatusOfJobs, ProductOfJobs, CleanedJobs
  <1>2. ASSUME NEW h \in Handlers, CallFails(h)  PROVE Refined
    <2>1. CASE Awaiting(h, "bypass", "updateTask")
      <3>1. \A r : r.op = req[h].op /\ r.status = req[h].status /\ r.at = "updateJob" =>
                      KindOf(r) = KindOf(req[h])
        BY <2>1 DEF Awaiting, KindOf
      <3> QED  BY <1>1, <1>2, <2>1, <3>1, MovingOn DEF CallFails
    <2>2. CASE ~Awaiting(h, "bypass", "updateTask")
      <3>1. Ends(h)  BY <1>2, <2>2, Answering DEF CallFails
      <3> QED  BY <1>1, <3>1, Drops DEF Refined
    <2> QED  BY <2>1, <2>2
  <1>3. CASE Crash
    <2>1. PermitOf(Idle) = C!None  BY DEF Idle, PermitOf, KindOf, C!None
    <2>2. PermitsHeld' = [h \in Handlers |-> C!None]  BY <1>3, <2>1 DEF Crash, PermitsHeld
    <2>3. C!Drop(Handlers)  BY <1>1, <2>2 DEF C!Drop, JobsUnmoved
    <2> QED  BY <2>3 DEF C!CNext, Refined
  <1> QED  BY <1>2, <1>3

(* Workers and expiry.                                                     *)
LEMMA RefineWorld == ASSUME TypeInv, WorldNext PROVE Refined
  <1>0. \A j \in Jobs : job[j] \in Job  BY DEF TypeInv, TypeOK
  <1>1. ASSUME NEW j \in Jobs, NEW r, SetJob(j, r), req' = req, r.product = job[j].product,
               r.cleaned = job[j].cleaned,
               \/ r.status = job[j].status
               \/ job[j].status = "PENDING" /\ r.status = "IN_PROGRESS"
               \/ job[j].status = "IN_PROGRESS" /\ r.status \in {"SUSPENDED", "FAILED", "COMPLETED"}
               \/ "expire" \in Faults /\ Active(j) /\ r.status = "EXPIRED"
        PROVE  Refined
    <2>1. job' = [job EXCEPT ![j] = r]  BY <1>1 DEF SetJob
    <2>2. \/ r.status \in C!Moves(job[j].status) \cup {job[j].status}
          \/ r.status = "EXPIRED" /\ "expire" \in Faults /\ Active(j)
      BY <1>1 DEF C!Moves
    <2> QED  BY <1>1, <2>1, <2>2, Works DEF Refined
  <1>2. ASSUME NEW j \in Jobs, NEW st,
               SetJob(j, [job[j] EXCEPT !.status = st]), req' = req,
               \/ st = job[j].status
               \/ job[j].status = "PENDING" /\ st = "IN_PROGRESS"
               \/ job[j].status = "IN_PROGRESS" /\ st \in {"SUSPENDED", "FAILED", "COMPLETED"}
               \/ "expire" \in Faults /\ Active(j) /\ st = "EXPIRED"
        PROVE  Refined
    <2> DEFINE r == [job[j] EXCEPT !.status = st]
    <2>1. r.status = st /\ r.product = job[j].product /\ r.cleaned = job[j].cleaned
      BY <1>0 DEF Job
    <2>2. SetJob(j, r)  BY <1>2
    <2> HIDE DEF r
    <2> QED  BY <1>1, <1>2, <2>1, <2>2
  <1>3. ASSUME NEW j \in Jobs, StartValidation(j)  PROVE Refined
    BY <1>2, <1>3 DEF StartValidation
  <1>4. ASSUME NEW j \in Jobs, NEW s \in Summaries, FinishValidation(j, s)  PROVE Refined
    <2> DEFINE clean == s.counted = {}
               st == IF clean THEN "IN_PROGRESS" ELSE "SUSPENDED"
               r == [job[j] EXCEPT !.status = st, !.tracked = clean]
    <2>1. r.status = st /\ r.product = job[j].product /\ r.cleaned = job[j].cleaned
      BY <1>0 DEF Job
    <2>2. SetJob(j, r) /\ job[j].status = "IN_PROGRESS" /\ req' = req  BY <1>4 DEF FinishValidation
    <2>3. st \in {"IN_PROGRESS", "SUSPENDED"}  OBVIOUS
    <2> HIDE DEF r, st
    <2> QED  BY <1>1, <2>1, <2>2, <2>3
  <1>5. ASSUME NEW j \in Jobs, FailValidation(j) \/ Resume(j) \/ FailLater(j) \/ Complete(j) \/ Expire(j)
        PROVE  Refined
    BY <1>2, <1>5 DEF FailValidation, Resume, FailLater, Complete, Expire
  <1>6. ASSUME NEW j \in Jobs, AddFinalize(j)  PROVE Refined
    <2> DEFINE r == [job[j] EXCEPT !.finalize = TRUE, !.overtook = Aborting(j)]
    <2>1. /\ r.status = job[j].status /\ r.product = job[j].product
          /\ r.cleaned = job[j].cleaned
      BY <1>0 DEF Job
    <2>2. SetJob(j, r) /\ req' = req  BY <1>6 DEF AddFinalize
    <2> HIDE DEF r
    <2> QED  BY <1>1, <2>1, <2>2
  <1>7. ASSUME job' = job, req' = req  PROVE Refined
    BY <1>7 DEF Refined, C!cvars, StatusOfJobs, ProductOfJobs, CleanedJobs, PermitsHeld
  <1>8. ASSUME NEW j \in Jobs, Publish(j)  PROVE Refined  BY <1>7, <1>8 DEF Publish
  <1>9. ASSUME NEW p \in Products, NEW f \in ShapeFiles, EditFile(p, f)  PROVE Refined
    BY <1>7, <1>9 DEF EditFile
  <1>10. ASSUME NEW j \in Jobs, CleanUp(j)  PROVE Refined
    <2> DEFINE r == [job[j] EXCEPT !.cleaned = TRUE, !.stray = job[j].stray \/ Active(j)]
    <2>1. r.status = job[j].status /\ r.product = job[j].product /\ r.cleaned
      BY <1>0 DEF Job
    <2>2. job' = [job EXCEPT ![j] = r] /\ req' = req  BY <1>10 DEF CleanUp, SetJob
    <2> HIDE DEF r
    <2>3. /\ StatusOfJobs' = StatusOfJobs /\ ProductOfJobs' = ProductOfJobs
          /\ PermitsHeld' = PermitsHeld
      BY <2>1, <2>2 DEF StatusOfJobs, ProductOfJobs, PermitsHeld, TypeInv, TypeOK
    <2>4. CleanedJobs' = CleanedJobs \cup {j}
      BY <2>1, <2>2 DEF CleanedJobs, TypeInv, TypeOK
    <2>5. StatusOfJobs[j] \notin {"NONE", "PENDING", "IN_PROGRESS"}
      BY <1>10 DEF CleanUp, StatusOfJobs
    <2>6. C!CleanUp(j)  BY <2>3, <2>4, <2>5 DEF C!CleanUp
    <2> QED  BY <2>6 DEF C!CNext, Refined
  <1> QED  BY <1>3, <1>4, <1>5, <1>6, <1>8, <1>9, <1>10 DEF WorldNext, WorkerNext

(* Every step.                                                             *)
LEMMA RefineStep == TypeInv /\ MarksInv /\ RequestsFormed /\ [Next]_vars => Refined
  <1> SUFFICES ASSUME TypeInv, MarksInv, RequestsFormed, [Next]_vars PROVE Refined  OBVIOUS
  <1>1. CASE UNCHANGED vars
    BY <1>1 DEF vars, Refined, C!cvars, StatusOfJobs, ProductOfJobs, CleanedJobs, PermitsHeld
  <1> QED
    BY <1>1, RefineReceive, RefineAdmit, RefineReadFiles, RefineRetry, RefineBypass, RefineAbort,
       RefineFaults, RefineWorld
       DEF Next, Step

-----------------------------------------------------------------------------
(* A step of a request either answers it, or moves it on to where Formed   *)
(* says it may be.                                                         *)
LEMMA MovesFormed ==
    ASSUME TypeInv, RequestsFormed, NEW h \in Handlers, NEW r, Proceed(h, r), Formed(r),
           r.op = req[h].op, r.job = req[h].job, \A j \in Jobs : Exists(j) => Exists(j)'
    PROVE  RequestsFormed'
  BY DEF RequestsFormed, Proceed, TypeInv, TypeOK, JobRequests

(* A request that is answered is formed.                                   *)
LEMMA EndsFormed ==
    ASSUME TypeInv, RequestsFormed, NEW h \in Handlers, Ends(h), \A j \in Jobs : Exists(j) => Exists(j)'
    PROVE  RequestsFormed'
  <1>1. \A st : /\ Formed([Idle EXCEPT !.answer = st])
                /\ [Idle EXCEPT !.answer = st].op \notin JobOps
    BY DEF Idle, Formed, JobOps
  <1>2. PICK st \in Answers : Proceed(h, [Idle EXCEPT !.answer = st])  BY DEF Ends, Proceed
  <1> DEFINE r == [Idle EXCEPT !.answer = st]
  <1>3. Proceed(h, r) /\ Formed(r) /\ r.op \notin JobOps  BY <1>1, <1>2
  <1> HIDE DEF r
  <1> QED  BY <1>3 DEF Proceed, RequestsFormed, TypeInv, TypeOK, JobRequests

(* Moving by GoTo and WroteThen.                                           *)
LEMMA MovesTo ==
    ASSUME TypeInv, RequestsFormed, NEW h \in Handlers, NEW at,
           \/ GoTo(h, at) /\ \A r : r.op = req[h].op /\ r.at = at /\ r.wrote = req[h].wrote => Formed(r)
           \/ WroteThen(h, at) /\ \A r : r.op = req[h].op /\ r.at = at => Formed(r),
           \A j \in Jobs : Exists(j) => Exists(j)'
    PROVE  RequestsFormed'
  <1> DEFINE q == [req[h] EXCEPT !.at = at]
             w == [req[h] EXCEPT !.at = at, !.wrote = TRUE]
  <1>1. /\ q.op = req[h].op /\ q.at = at /\ q.wrote = req[h].wrote /\ q.job = req[h].job
        /\ w.op = req[h].op /\ w.at = at /\ w.job = req[h].job
    BY DEF TypeInv, TypeOK, Request
  <1>2. GoTo(h, at) => Proceed(h, q)  BY DEF GoTo
  <1>3. WroteThen(h, at) => Proceed(h, w)  BY DEF WroteThen
  <1> HIDE DEF q, w
  <1> QED  BY <1>1, <1>2, <1>3, MovesFormed

(* RequestsFormed is inductive, one lemma per kind of step.                *)
LEMMA AdmitFormed ==
    ASSUME TypeInv, RequestsFormed, \A j \in Jobs : Exists(j) => Exists(j)',
           NEW h \in Handlers, Admit(h)
    PROVE  RequestsFormed'
  <1>0. req[h] \in Request /\ Formed(req[h])  BY DEF TypeInv, TypeOK, RequestsFormed
  <1>1. CASE GetLayerMetadata(h)
    <2> DEFINE r == [req[h] EXCEPT !.at = "inputFiles", !.version = catalog[req[h].product] + 1]
    <2>1. /\ r.op = req[h].op /\ r.job = req[h].job
          /\ r.at = "inputFiles" /\ r.wrote = req[h].wrote
      BY <1>0 DEF Request
    <2>2. Ends(h) \/ Proceed(h, r)  BY <1>1, Answering DEF GetLayerMetadata
    <2>3. ~req[h].wrote /\ req[h].op = "update"
      BY <1>0, <1>1 DEF GetLayerMetadata, Awaiting, Formed
    <2> HIDE DEF r
    <2>4. Formed(r)  BY <2>1, <2>3 DEF Formed
    <2> QED  BY <2>1, <2>2, <2>4, MovesFormed, EndsFormed
  <1>2. CASE ValidateInputFiles(h) \/ CheckMapProxy(h) \/ CheckCatalog(h)
    <2>1. ~req[h].wrote /\ req[h].op \in {"new", "update"}
      BY <1>0, <1>2 DEF ValidateInputFiles, CheckMapProxy, CheckCatalog, Formed
    <2>2. \/ Ends(h)
          \/ GoTo(h, "mapProxy")
          \/ req[h].op = "new" /\ (GoTo(h, "catalog") \/ GoTo(h, "findJobs"))
          \/ req[h].op = "update" /\ GoTo(h, "findJobs")
      BY <1>0, <1>2, Answering DEF ValidateInputFiles, CheckMapProxy, CheckCatalog, Formed
    <2>3. \A r : r.op = req[h].op /\ r.wrote = req[h].wrote =>
             /\ r.at = "mapProxy" => Formed(r)
             /\ r.at = "catalog" /\ r.op = "new" => Formed(r)
             /\ r.at = "findJobs" /\ r.op \in {"new", "update"} => Formed(r)
      BY <2>1 DEF Formed
    <2> QED  BY <2>2, <2>3, MovesTo, EndsFormed
  <1>3. CASE CheckNoParallelJobs(h)
    <2> DEFINE r == [req[h] EXCEPT !.at = "checksums",
                       !.checked = {j \in Jobs : Exists(j) /\ Product(j) = req[h].product}]
    <2>1. /\ r.op = req[h].op /\ r.job = req[h].job
          /\ r.at = "checksums" /\ r.wrote = req[h].wrote
      BY <1>0 DEF Request
    <2>2. Ends(h) \/ Proceed(h, r)  BY <1>3, Answering DEF CheckNoParallelJobs
    <2>3. ~req[h].wrote /\ req[h].op \in {"new", "update"}
      BY <1>0, <1>3 DEF CheckNoParallelJobs, Formed
    <2> HIDE DEF r
    <2>4. Formed(r)  BY <2>1, <2>3 DEF Formed
    <2> QED  BY <2>1, <2>2, <2>4, MovesFormed, EndsFormed
  <1>4. CASE RefuseJob(h) \/ \E j \in Jobs : CreateJob(h, j)
    BY <1>4, Answering, EndsFormed DEF RefuseJob, CreateJob
  <1> QED  BY <1>1, <1>2, <1>3, <1>4 DEF Admit

(* Reading the shapefile keeps requests formed.                            *)
LEMMA ReadFilesFormed ==
    ASSUME TypeInv, RequestsFormed, \A j \in Jobs : Exists(j) => Exists(j)',
           NEW h \in Handlers, ReadFiles(h)
    PROVE  RequestsFormed'
  <1>0. req[h] \in Request /\ Formed(req[h])  BY DEF TypeInv, TypeOK, RequestsFormed
  <1>1. CASE CheckFilesExist(h)
    <2>1. GoTo(h, "checksums") /\ ~req[h].wrote /\ req[h].op \in {"retry", "bypass"}
      BY <1>0, <1>1 DEF CheckFilesExist, Formed
    <2>2. \A r : r.op = req[h].op /\ r.at = "checksums" /\ r.wrote = req[h].wrote => Formed(r)
      BY <2>1 DEF Formed
    <2> QED  BY <2>1, <2>2, MovesTo
  <1>2. ASSUME NEW f \in ShapeFiles, GetFileChecksum(h, f)  PROVE RequestsFormed'
    <2> DEFINE read == req[h].read \cup {ChecksumOf(req[h].product, f)}
               r(at) == [req[h] EXCEPT !.at = at, !.read = read]
    <2>1. [req[h] EXCEPT !.read = read] = r("checksums")
      BY <1>0, <1>2 DEF Request, GetFileChecksum
    <2>2. \/ Ends(h)
          \/ Proceed(h, r("checksums"))
          \/ Proceed(h, r("updateTask"))
          \/ req[h].op \notin {"retry", "bypass"} /\ Proceed(h, r("createJob"))
      BY <1>2, <2>1, Answering DEF GetFileChecksum, RetryDecision, BypassDecision
    <2>3. \A at : /\ r(at).op = req[h].op /\ r(at).at = at /\ r(at).wrote = req[h].wrote
                  /\ r(at).job = req[h].job
      BY <1>0 DEF Request
    <2>4. req[h].op \in {"new", "update", "retry", "bypass"} /\ ~req[h].wrote
      BY <1>0, <1>2 DEF GetFileChecksum, Formed
    <2> HIDE DEF r
    <2>5. /\ Formed(r("checksums")) /\ Formed(r("updateTask"))
          /\ req[h].op \notin {"retry", "bypass"} => Formed(r("createJob"))
      BY <2>3, <2>4 DEF Formed
    <2> QED  BY <2>2, <2>3, <2>5, MovesFormed, EndsFormed
  <1> QED  BY <1>1, <1>2 DEF ReadFiles

(* So do the steps of retries, bypasses and aborts,                        *)
LEMMA JobOpsFormed ==
    ASSUME TypeInv, RequestsFormed, \A j \in Jobs : Exists(j) => Exists(j)',
           NEW h \in Handlers, Retry(h) \/ Bypass(h) \/ Abort(h) \/ CallFails(h)
    PROVE  RequestsFormed'
  <1>0. req[h] \in Request /\ Formed(req[h])  BY DEF TypeInv, TypeOK, RequestsFormed
  <1>1. CASE RetryGetJob(h) \/ BypassGetJob(h) \/ AbortGetJob(h)
    <2> DEFINE r == [req[h] EXCEPT !.at = "getTasks", !.status = job[req[h].job].status]
    <2>1. /\ r.op = req[h].op /\ r.job = req[h].job
          /\ r.at = "getTasks" /\ r.wrote = req[h].wrote
      BY <1>0 DEF Request
    <2>2. Ends(h) \/ Proceed(h, r)
      BY <1>1, Answering DEF RetryGetJob, BypassGetJob, AbortGetJob
    <2>3. ~req[h].wrote
      BY <1>0, <1>1 DEF RetryGetJob, BypassGetJob, AbortGetJob, Awaiting, Formed
    <2> HIDE DEF r
    <2>4. Formed(r)  BY <2>1, <2>3 DEF Formed
    <2> QED  BY <2>1, <2>2, <2>4, MovesFormed, EndsFormed
  <1>2. CASE RetryGetTasks(h)
    <2> DEFINE t == task[req[h].job]
               at == IF t.isValid THEN "resetJob" ELSE "deleteEntity"
               r == [req[h] EXCEPT !.task = t, !.at = at]
    <2>1. /\ r.op = req[h].op /\ r.job = req[h].job /\ r.at = at /\ r.wrote = req[h].wrote
          /\ r.task = t
      BY <1>0 DEF Request
    <2>2. Proceed(h, r)  BY <1>2 DEF RetryGetTasks
    <2>3. ~req[h].wrote  BY <1>0, <1>2 DEF RetryGetTasks, Awaiting, Formed
    <2>4. at = "resetJob" \/ (at = "deleteEntity" /\ ~t.isValid)  OBVIOUS
    <2> HIDE DEF r, at, t
    <2>5. Formed(r)  BY <2>1, <2>3, <2>4 DEF Formed
    <2> QED  BY <2>1, <2>2, <2>5, MovesFormed
  <1>3. CASE BypassGetTasks(h)
    <2> DEFINE r == [req[h] EXCEPT !.at = "filesExist", !.task = task[req[h].job]]
    <2>1. /\ r.op = req[h].op /\ r.job = req[h].job
          /\ r.at = "filesExist" /\ r.wrote = req[h].wrote
      BY <1>0 DEF Request
    <2>2. Ends(h) \/ Proceed(h, r)  BY <1>3, Answering DEF BypassGetTasks
    <2>3. ~req[h].wrote /\ req[h].op = "bypass"
      BY <1>0, <1>3 DEF BypassGetTasks, Awaiting, Formed
    <2> HIDE DEF r
    <2>4. Formed(r)  BY <2>1, <2>3 DEF Formed
    <2> QED  BY <2>1, <2>2, <2>4, MovesFormed, EndsFormed
  <1>4. CASE SoftReset(h) \/ HardResetJob(h) \/ BypassNotify(h) \/ AbortDeleteEntity(h)
    BY <1>4, Answering, EndsFormed DEF SoftReset, HardResetJob, BypassNotify, AbortDeleteEntity
  <1>5. CASE RetryDeleteEntity(h) \/ AbortGetTasks(h)
    <2>1. ~req[h].wrote
      BY <1>0, <1>5 DEF RetryDeleteEntity, AbortGetTasks, Awaiting, Formed
    <2>2. \/ Ends(h)
          \/ req[h].op = "retry" /\ GoTo(h, "filesExist")
          \/ req[h].op = "abort" /\ GoTo(h, "abortJob")
      BY <1>5, Answering DEF RetryDeleteEntity, AbortGetTasks, Awaiting
    <2>3. \A r : r.op = req[h].op /\ r.wrote = req[h].wrote =>
             /\ r.at = "filesExist" /\ r.op = "retry" => Formed(r)
             /\ r.at = "abortJob" => Formed(r)
      BY <2>1 DEF Formed
    <2> QED  BY <2>2, <2>3, MovesTo, EndsFormed
  <1>6. CASE HardResetTask(h) \/ BypassUpdateTask(h) \/ BypassUpdateJob(h) \/ AbortJob(h)
    <2>1. \/ Ends(h)
          \/ req[h].op \in {"retry", "bypass"} /\ WroteThen(h, "updateJob")
          \/ req[h].op = "bypass" /\ WroteThen(h, "notify")
          \/ req[h].op = "abort" /\ WroteThen(h, "deleteEntity")
      BY <1>6, Answering
         DEF HardResetTask, BypassUpdateTask, BypassUpdateJob, AbortJob, Awaiting, WriteThen
    <2>2. \A r : r.op = req[h].op =>
             /\ r.at = "updateJob" /\ r.op \in {"retry", "bypass"} => Formed(r)
             /\ r.at = "notify" /\ r.op = "bypass" => Formed(r)
             /\ r.at = "deleteEntity" /\ r.op = "abort" => Formed(r)
      BY DEF Formed
    <2> QED  BY <2>1, <2>2, MovesTo, EndsFormed
  <1>7. CASE CallFails(h)
    <2>1. Ends(h) \/ (req[h].op = "bypass" /\ GoTo(h, "updateJob"))
      BY <1>7, Answering DEF CallFails, Awaiting
    <2>2. \A r : r.op = "bypass" /\ r.at = "updateJob" => Formed(r)  BY DEF Formed
    <2> QED  BY <2>1, <2>2, MovesTo, EndsFormed
  <1> QED  BY <1>1, <1>2, <1>3, <1>4, <1>5, <1>6, <1>7 DEF Retry, Bypass, Abort

(* and requests that arrive.                                               *)
LEMMA ReceiveFormed ==
    ASSUME TypeInv, RequestsFormed, \A j \in Jobs : Exists(j) => Exists(j)',
           NEW h \in Handlers, Receive(h)
    PROVE  RequestsFormed'
  <1>1. ASSUME NEW r, Proceed(h, r), Formed(r), r.op \in JobOps => r.job \in Jobs /\ Exists(r.job)
        PROVE  RequestsFormed'
    BY <1>1 DEF RequestsFormed, Proceed, TypeInv, TypeOK, JobRequests
  <1>2. ASSUME NEW p, ReceiveNew(h, p)  PROVE RequestsFormed'
    <2> DEFINE r == [Idle EXCEPT !.op = "new", !.at = "inputFiles", !.product = p, !.version = 1]
    <2>1. Proceed(h, r)  BY <1>2 DEF ReceiveNew
    <2>2. Formed(r) /\ r.op \notin JobOps  BY DEF Idle, Formed, JobOps
    <2> HIDE DEF r
    <2> QED  BY <1>1, <2>1, <2>2
  <1>3. ASSUME NEW p, ReceiveUpdate(h, p)  PROVE RequestsFormed'
    <2> DEFINE r == [Idle EXCEPT !.op = "update", !.at = "findById", !.product = p]
    <2>1. Proceed(h, r)  BY <1>3 DEF ReceiveUpdate
    <2>2. Formed(r) /\ r.op \notin JobOps  BY DEF Idle, Formed, JobOps
    <2> HIDE DEF r
    <2> QED  BY <1>1, <2>1, <2>2
  <1>4. ASSUME NEW op \in JobOps, NEW j \in Jobs, NEW a, ReceiveForJob(h, op, j, a)
        PROVE  RequestsFormed'
    <2> DEFINE r == [Idle EXCEPT !.op = op, !.at = "getJob", !.product = Product(j), !.job = j,
                                 !.allowed = a]
    <2>1. Proceed(h, r) /\ Exists(j)  BY <1>4 DEF ReceiveForJob
    <2>2. Formed(r) /\ r.job = j  BY DEF Idle, Formed
    <2> HIDE DEF r
    <2> QED  BY <1>1, <2>1, <2>2
  <1> QED  BY <1>2, <1>3, <1>4 DEF Receive, JobOps

(* RequestsFormed is inductive.                                            *)
LEMMA FormedStep == TypeInv /\ RequestsFormed /\ [Next]_vars => RequestsFormed'
  <1> SUFFICES ASSUME TypeInv, RequestsFormed, [Next]_vars PROVE RequestsFormed'  OBVIOUS
  <1>1. \A j \in Jobs : Exists(j) => Exists(j)'  BY JobKept DEF Kept
  <1>2. CASE Crash
    BY <1>2 DEF Crash, RequestsFormed, Formed, Idle, JobOps
  <1>3. CASE WorldNext \/ UNCHANGED vars
    <2>1. req' = req
      BY <1>3 DEF WorldNext, WorkerNext, StartValidation, FinishValidation, FailValidation, Resume,
         FailLater, AddFinalize, Publish, Complete, Expire, CleanUp, EditFile, vars
    <2> QED  BY <1>1, <2>1 DEF RequestsFormed, TypeInv, JobRequests
  <1> QED
    BY <1>1, <1>2, <1>3, ReceiveFormed, AdmitFormed, ReadFilesFormed, JobOpsFormed DEF Next, Step

(* It holds when the service starts.                                       *)
LEMMA FormedInit == Init => RequestsFormed
  BY DEF Init, RequestsFormed, Formed, Idle, JobOps

-----------------------------------------------------------------------------
(* Initial states map to initial states.                                   *)
LEMMA RefineInit == Init => C!CInit
  <1> SUFFICES ASSUME Init PROVE C!CInit  OBVIOUS
  <1>1. StatusOfJobs = [j \in Jobs |-> "NONE"]  BY DEF Init, StatusOfJobs, BlankJob
  <1>2. ProductOfJobs \in [Jobs -> Products]
    BY TypeInvInit DEF TypeInv, TypeOK, Job, ProductOfJobs
  <1>3. PermitOf(Idle) = C!None  BY DEF Idle, PermitOf, KindOf, C!None
  <1>4. PermitsHeld = [h \in Handlers |-> C!None]  BY <1>3 DEF Init, PermitsHeld
  <1>5. CleanedJobs = {}  BY DEF Init, CleanedJobs, BlankJob
  <1> QED  BY <1>1, <1>2, <1>4, <1>5 DEF C!CInit

(* Whatever requests overlap, whichever calls fail, whatever expires and   *)
(* whenever the service restarts: a request writes the status of a job at  *)
(* most once after each look at the jobs, the status its operation is for, *)
(* on jobs that it has seen to allow it; everybody else moves jobs only    *)
(* the way workers do.                                                     *)
THEOREM ServiceChecksThenActs == Spec => ImplementsCheckThenAct
  <1> QED
    BY TypeInvInit, TypeInvStep, MarksInit, MarksStep, FormedInit, FormedStep, RefineInit,
       RefineStep, PTL
       DEF Spec, ImplementsCheckThenAct, C!CSpec, Refined

OneSlot == \A h, g \in Handlers : h = g

(* One request at a time: at most one job of a product is open, those that *)
(* were cleaned up not counted, whatever fails or expires, and wherever    *)
(* the service restarts.                                                   *)
THEOREM OneAtATimeOneActiveJob == OneSlot /\ Spec => []SingleActiveJob
  <1>1. OneSlot => CP!OneHolder  BY DEF OneSlot, CP!OneHolder
  <1>2. ImplementsCheckThenAct => CP!CSpec
    BY SameSpec, PTL DEF ImplementsCheckThenAct, C!CSpec, CP!CSpec
  <1>3. CP!OneOpenJob => SingleActiveJob
    BY DEF CP!OneOpenJob, CP!Seen, SingleActiveJob, CP!Open, StatusOfJobs, ProductOfJobs,
       CleanedJobs, Active, Product, Blocking
  <1> QED  BY <1>1, <1>2, <1>3, CP!OneHolderOneOpenJob, ServiceChecksThenActs, PTL

(* One request at a time, and nothing expires: every operation is atomic   *)
(* towards the workers, whatever fails and wherever the service restarts.  *)
THEOREM OneAtATimeIsAtomic ==
    OneSlot /\ ~("expire" \in Faults) /\ Spec => ImplementsJobLifecycle
  <1>1. OneSlot => CP!OneHolder  BY DEF OneSlot, CP!OneHolder
  <1>2. ImplementsCheckThenAct => CP!CSpec
    BY SameSpec, PTL DEF ImplementsCheckThenAct, C!CSpec, CP!CSpec
  <1>3. CP!L!LSpec => ImplementsJobLifecycle
    BY SameLifecycle, PTL DEF CP!L!LSpec, ImplementsJobLifecycle, L!LSpec
  <1> QED  BY <1>1, <1>2, <1>3, CP!OneHolderIsAtomic, ServiceChecksThenActs, PTL
=============================================================================
