-------------------------- MODULE CheckThenActProofs --------------------------
(***************************************************************************)
(* What follows from CheckThenAct alone when there is one holder, for any  *)
(* number of jobs and products: no permit is stale towards other requests, *)
(* and the operations are those of JobLifecycle.                           *)
(***************************************************************************)
EXTENDS CheckThenAct, TLAPS

L == INSTANCE JobLifecycle

OneHolder == \A h, g \in Holders : h = g

(* The jobs an admission looks for: open, and not cleaned up.              *)
Seen(j) == status[j] \in Open /\ j \notin cleaned

(* At most one of them per product.                                        *)
OneOpenJob == \A j, k \in Jobs : Seen(j) /\ Seen(k) /\ product[j] = product[k] => j = k

(* What a permit is still worth: the jobs it was given for cannot have     *)
(* been opened by anybody else.  (Of a job that was cleaned up a permit    *)
(* says nothing about the others.)                                         *)
StillAlone ==
    \A h \in Holders :
        LET p == permit[h] IN
        /\ p.kind = "create" => /\ p.on \in Products
                                /\ \A j \in Jobs : product[j] = p.on => ~Seen(j)
        /\ p.kind \in {"reset", "bypass"} =>
              /\ p.on \in Jobs
              /\ p.on \notin cleaned =>
                    \A j \in Jobs : Seen(j) /\ product[j] = product[p.on] => j = p.on
        /\ p.kind = "abort" => p.on \in Jobs

AloneInv == CTypeOK /\ OneOpenJob /\ StillAlone

(* Without expiry a permit stays as good as when it was given.             *)
StillGood ==
    \A h \in Holders :
        LET p == permit[h] IN
        /\ p.kind = "reset" => status[p.on] \in {"FAILED", "SUSPENDED"}
        /\ p.kind = "bypass" => status[p.on] = "SUSPENDED"
        /\ p.kind = "abort" => status[p.on] \notin {"NONE", "ABORTED"}

-----------------------------------------------------------------------------
(* What a worker does to a job leaves open only what was open.             *)
LEMMA WorkKeeps ==
    ASSUME CTypeOK, NEW j \in Jobs, Work(j)
    PROVE  /\ cleaned' = cleaned
           /\ status' \in [Jobs -> JobStatuses]
           /\ status[j] \in {"PENDING", "IN_PROGRESS"} \/ (Expires /\ status'[j] = "EXPIRED")
           /\ \A k \in Jobs : k # j => status'[k] = status[k]
           /\ \A k \in Jobs : status'[k] \in Open => status[k] \in Open
           /\ \A k \in Jobs : status[k] \notin {"NONE", "ABORTED"} => status'[k] \notin {"NONE", "ABORTED"}
  <1>1. PICK s \in Moves(status[j]) \cup (IF Expires /\ status[j] \in Open THEN {"EXPIRED"} ELSE {}) :
          status' = [status EXCEPT ![j] = s]
    BY DEF Work
  <1>2. /\ s \in JobStatuses \ {"NONE", "ABORTED", "PENDING"}
        /\ status[j] \in {"PENDING", "IN_PROGRESS"} \/ (Expires /\ s = "EXPIRED")
        /\ status[j] \in Open
    BY <1>1 DEF Moves, Open, Closed, JobStatuses
  <1>3. cleaned' = cleaned  BY DEF Work
  <1> QED  BY <1>1, <1>2, <1>3 DEF CTypeOK, JobStatuses

(* The invariant holds initially.                                          *)
LEMMA AloneInit == CInit => AloneInv /\ StillGood
  <1> SUFFICES ASSUME CInit PROVE AloneInv /\ StillGood  OBVIOUS
  <1>1. \A j \in Jobs : status[j] = "NONE" /\ status[j] \notin Open  BY DEF CInit, Open
  <1>2. \A h \in Holders : permit[h] = None /\ permit[h].kind = "none"  BY DEF CInit, None
  <1>3. CTypeOK  BY DEF CTypeOK, CInit, None, Permits, JobStatuses
  <1> QED  BY <1>1, <1>2, <1>3 DEF AloneInv, OneOpenJob, StillAlone, StillGood, Seen

(* A holder that has no permit any more, all holders being that one.       *)
LEMMA NobodyHolds ==
    ASSUME OneHolder, CTypeOK, NEW h \in Holders, permit' = [permit EXCEPT ![h] = None]
    PROVE  /\ permit' \in [Holders -> Permits]
           /\ StillAlone' /\ StillGood'
  <1>1. \A g \in Holders : permit'[g] = None  BY DEF OneHolder, CTypeOK
  <1> QED  BY <1>1 DEF CTypeOK, StillAlone, StillGood, None, Permits

(* With one holder the invariant is inductive.                             *)
LEMMA AloneStep == OneHolder /\ AloneInv /\ [CNext]_cvars => AloneInv'
  <1> SUFFICES ASSUME OneHolder, AloneInv, [CNext]_cvars PROVE AloneInv'  OBVIOUS
  <1> USE DEF AloneInv, Seen
  <1>1. ASSUME NEW h \in Holders, NEW kind \in {"create", "reset", "bypass", "abort"},
               NEW on \in Products \cup Jobs, Check(h, kind, on)
        PROVE  AloneInv'
    <2>1. CTypeOK'  BY <1>1 DEF Check, CTypeOK, Permits
    <2>2. OneOpenJob'  BY <1>1 DEF Check, OneOpenJob
    <2>3. \A g \in Holders : permit'[g] = [kind |-> kind, on |-> on]
      BY <1>1 DEF Check, CTypeOK, OneHolder
    <2>4. kind \in {"reset", "bypass"} => status[on] \in Open  BY <1>1 DEF Check, Good, Open
    <2>5. StillAlone'
      BY <1>1, <2>3, <2>4 DEF Check, Good, StillAlone, OneOpenJob
    <2> QED  BY <2>1, <2>2, <2>5
  <1>2. ASSUME NEW h \in Holders, NEW j \in Jobs, Create(h, j)  PROVE AloneInv'
    <2>1. CTypeOK'
      BY <1>2, NobodyHolds DEF Create, CTypeOK, StillAlone, JobStatuses, Open
    <2>2. OneOpenJob'  BY <1>2 DEF Create, OneOpenJob, CTypeOK, StillAlone
    <2> QED  BY <1>2, <2>1, <2>2, NobodyHolds DEF Create
  <1>3. ASSUME NEW h \in Holders, Write(h)  PROVE AloneInv'
    <2> DEFINE j == permit[h].on
               s == Writes[permit[h].kind]
    <2>1. permit[h].kind \in {"reset", "bypass", "abort"}  BY <1>3 DEF Write, Writes
    <2>2. j \in Jobs  BY <2>1 DEF StillAlone
    <2>3. s \in JobStatuses /\ (permit[h].kind = "abort" => s \notin Open)
      BY <2>1 DEF Writes, JobStatuses, Open, Closed
    <2>4. status' = [status EXCEPT ![j] = s] /\ product' = product /\ cleaned' = cleaned
      BY <1>3 DEF Write
    <2>5. CTypeOK'  BY <1>3, <2>2, <2>3, <2>4, NobodyHolds DEF Write, CTypeOK
    <2>6. OneOpenJob'
      <3> HIDE DEF s
      <3> QED  BY <2>1, <2>2, <2>3, <2>4 DEF OneOpenJob, CTypeOK, StillAlone
    <2> QED  BY <1>3, <2>5, <2>6, NobodyHolds DEF Write
  <1>4. ASSUME NEW H \in SUBSET Holders, Drop(H)  PROVE AloneInv'
    BY <1>4 DEF Drop, CTypeOK, OneOpenJob, StillAlone, None, Permits
  <1>5. ASSUME NEW j \in Jobs, Work(j)  PROVE AloneInv'
    <2>1. permit' = permit /\ product' = product  BY <1>5 DEF Work
    <2> QED  BY <1>5, <2>1, WorkKeeps DEF CTypeOK, OneOpenJob, StillAlone
  <1>6. ASSUME NEW j \in Jobs, CleanUp(j)  PROVE AloneInv'
    <2>1. /\ permit' = permit /\ product' = product /\ status' = status
          /\ cleaned' = cleaned \cup {j}
      BY <1>6 DEF CleanUp
    <2>2. \A k \in Jobs : Seen(k)' => Seen(k)  BY <2>1
    <2> HIDE DEF Seen
    <2>3. OneOpenJob'  BY <2>1, <2>2 DEF OneOpenJob
    <2>4. StillAlone'  BY <2>1, <2>2 DEF StillAlone
    <2> QED  BY <2>1, <2>3, <2>4 DEF CTypeOK
  <1>7. CASE UNCHANGED cvars  BY <1>7 DEF cvars, CTypeOK, OneOpenJob, StillAlone
  <1> QED  BY <1>1, <1>2, <1>3, <1>4, <1>5, <1>6, <1>7 DEF CNext

(* One holder: at most one job of a product is open, those that were       *)
(* cleaned up not counted, also when jobs expire under a request and       *)
(* whatever permits are lost.                                              *)
THEOREM OneHolderOneOpenJob == OneHolder /\ CSpec => []OneOpenJob
  <1>1. AloneInv => OneOpenJob  BY DEF AloneInv
  <1>2. OneHolder => (CInit => AloneInv) /\ (AloneInv /\ [CNext]_cvars => AloneInv')
    BY AloneInit, AloneStep
  <1>3. CASE OneHolder  BY <1>1, <1>2, <1>3, PTL DEF CSpec
  <1> QED  BY <1>3

(* Without expiry permits stay good.                                       *)
LEMMA GoodStep ==
    ASSUME OneHolder, ~Expires, AloneInv, StillGood, [CNext]_cvars
    PROVE  StillGood'
  <1> USE DEF AloneInv
  <1>1. ASSUME NEW h \in Holders, NEW kind \in {"create", "reset", "bypass", "abort"},
               NEW on \in Products \cup Jobs, Check(h, kind, on)
        PROVE  StillGood'
    <2>1. \A g \in Holders : permit'[g] = [kind |-> kind, on |-> on]
      BY <1>1 DEF Check, CTypeOK, OneHolder
    <2> QED  BY <1>1, <2>1 DEF Check, Good, StillGood
  <1>2. ASSUME NEW h \in Holders, (\E j \in Jobs : Create(h, j)) \/ Write(h)  PROVE StillGood'
    BY <1>2, NobodyHolds DEF Create, Write
  <1>3. ASSUME NEW H \in SUBSET Holders, Drop(H)  PROVE StillGood'
    BY <1>3 DEF Drop, StillGood, None
  <1>4. ASSUME NEW j \in Jobs, Work(j)  PROVE StillGood'
    <2>1. permit' = permit  BY <1>4 DEF Work
    <2>2. \A k \in Jobs : status[k] \in {"FAILED", "SUSPENDED"} => status'[k] = status[k]
      BY <1>4, WorkKeeps
    <2> QED  BY <1>4, <2>1, <2>2, WorkKeeps DEF StillAlone, StillGood
  <1>5. ASSUME NEW j \in Jobs, CleanUp(j)  PROVE StillGood'
    BY <1>5 DEF CleanUp, StillGood
  <1>6. CASE UNCHANGED cvars  BY <1>6 DEF cvars, StillGood
  <1> QED  BY <1>1, <1>2, <1>3, <1>4, <1>5, <1>6 DEF CNext
-----------------------------------------------------------------------------

(* A step with one holder and no expiry is one of the lifecycle of jobs.   *)
LEMMA LifecycleStep ==
    ASSUME ~Expires, AloneInv, StillGood, [CNext]_cvars
    PROVE  [L!LNext]_(L!lvars)
  <1> USE DEF AloneInv, L!lvars
  <1>1. ASSUME NEW h \in Holders, NEW j \in Jobs, Create(h, j)  PROVE L!LNext
    <2>1. L!Create(j, permit[h].on) /\ permit[h].on \in Products
      BY <1>1 DEF Create, StillAlone, Seen, L!Create, Open, L!Open
    <2> QED  BY <2>1 DEF L!LNext
  <1>2. ASSUME NEW h \in Holders, Write(h)  PROVE L!LNext
    <2> DEFINE j == permit[h].on
    <2>1. permit[h].kind \in {"reset", "bypass", "abort"}  BY <1>2 DEF Write, Writes
    <2>2. j \in Jobs /\ status[j] \in JobStatuses  BY <2>1 DEF StillAlone, CTypeOK
    <2>3. L!Becomes(j, Writes[permit[h].kind])  BY <1>2 DEF Write, L!Becomes
    <2>4. L!Reset(j) \/ L!Bypass(j) \/ L!Abort(j)
      BY <2>1, <2>2, <2>3
         DEF StillGood, Writes, JobStatuses, Open, Closed, L!Reset, L!Bypass, L!Abort, L!Open
    <2> QED  BY <2>2, <2>4 DEF L!LNext
  <1>3. ASSUME NEW j \in Jobs, Work(j)  PROVE L!LNext
    <2>1. PICK s \in Moves(status[j]) : L!Becomes(j, s)  BY <1>3 DEF Work, L!Becomes
    <2>2. L!Start(j) \/ L!Finish(j)  BY <2>1 DEF Moves, L!Start, L!Finish
    <2> QED  BY <2>2 DEF L!LNext
  <1>4. ASSUME NEW h \in Holders, NEW kind, NEW on, Check(h, kind, on)  PROVE UNCHANGED L!lvars
    BY <1>4 DEF Check
  <1>5. ASSUME NEW H, Drop(H)  PROVE UNCHANGED L!lvars  BY <1>5 DEF Drop
  <1>6. ASSUME NEW j \in Jobs, CleanUp(j)  PROVE L!LNext
    BY <1>6 DEF CleanUp, L!CleanUp, L!LNext
  <1>7. CASE UNCHANGED cvars  BY <1>7 DEF cvars
  <1> QED  BY <1>1, <1>2, <1>3, <1>4, <1>5, <1>6, <1>7 DEF CNext

(* One holder and no expiry: looking first and writing later is as good as *)
(* doing both in one step.                                                 *)
THEOREM OneHolderIsAtomic == OneHolder /\ ~Expires /\ CSpec => L!LSpec
  <1>1. CInit => L!LInit  BY DEF CInit, L!LInit
  <1>2. OneHolder /\ ~Expires =>
          /\ CInit => AloneInv /\ StillGood
          /\ AloneInv /\ StillGood /\ [CNext]_cvars =>
                (AloneInv /\ StillGood)' /\ [L!LNext]_(L!lvars)
    BY AloneInit, AloneStep, GoodStep, LifecycleStep
  <1>3. CASE OneHolder /\ ~Expires  BY <1>1, <1>2, <1>3, PTL DEF CSpec, L!LSpec
  <1> QED  BY <1>3
=============================================================================
