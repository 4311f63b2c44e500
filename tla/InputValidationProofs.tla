------------------------- MODULE InputValidationProofs -------------------------
(***************************************************************************)
(* What a request that validates files answers, for any contents: a flaw   *)
(* that lasts is found, whatever is replaced meanwhile, and the status is  *)
(* the one the files deserve, in whatever order the accesses finish.       *)
(***************************************************************************)
EXTENDS InputValidation, WellFoundedInduction, TLAPS

(* A set of numbers has a least element.                                   *)
LEMMA LeastElement ==
    ASSUME NEW T, T \subseteq Nat, T # {}
    PROVE  Min(T) \in T /\ \A y \in T : Min(T) <= y
  <1>1. PICK x \in T : \A y \in T : <<y, x>> \notin OpToRel(<, Nat)  BY NatLessThanWellFounded, WFMin
  <1>2. ASSUME NEW y \in T PROVE x =< y
    <2>1. x \in Nat /\ y \in Nat  OBVIOUS
    <2>2. y < x => <<y, x>> \in OpToRel(<, Nat)  BY <2>1 DEF OpToRel
    <2>3. ~(y < x)  BY <1>1, <2>2
    <2> QED  BY <2>1, <2>3
  <1> QED  BY <1>2 DEF Min

(* The answers are among those the endpoints give.                         *)
LEMMA AnswerType == \A endpoint \in Endpoints : \A e : AnswerTo(endpoint, e) \in Answers
  <1>1. \A e : /\ NewLayerStatus(e) \in {200, 400, 404, 422, 500}
               /\ OwnStatus(e) \in {200, 400, 404, 422, 500}
    BY DEF NewLayerStatus, OwnStatus
  <1>2. \A e : /\ UpdateLayerStatus(e) \in {200, 400, 404, 422, 500}
               /\ ValidateGpkgsStatus(e) \in {200, 400, 404, 422, 500}
    BY <1>1 DEF UpdateLayerStatus, ValidateGpkgsStatus
  <1> QED  BY <1>1, <1>2 DEF AnswerTo, Endpoints, Answers

RequestType ==
    [endpoint : Endpoints, at : Stages, pending : SUBSET ShapeFiles,
     missing : BOOLEAN, info : Contents \cup {NoContent}, answer : Answers]

Same == UNCHANGED <<gpkg, product, exists, touched, persistent>>

-----------------------------------------------------------------------------
(* What each step does to the request.                                     *)

(* A request is answered.                                                  *)
LEMMA AnswerIs ==
    ASSUME TypeOK, NEW e, Answer(e)
    PROVE  /\ Same /\ req' \in RequestType
           /\ req'.at = "answered" /\ req'.pending = {} /\ req'.endpoint = req.endpoint
           /\ req'.answer = AnswerTo(req.endpoint, e)
  <1>1. req \in RequestType /\ req.endpoint \in Endpoints  BY DEF TypeOK, RequestType
  <1> DEFINE a == AnswerTo(req.endpoint, e)
  <1>2. a \in Answers /\ "answered" \in Stages  BY <1>1, AnswerType DEF Stages
  <1>3. Same /\ req' = [req EXCEPT !.at = "answered", !.pending = {}, !.answer = a]
    BY DEF Answer, Goes, Same
  <1> HIDE DEF a
  <1>4. /\ req' \in RequestType /\ req'.at = "answered" /\ req'.pending = {}
        /\ req'.endpoint = req.endpoint /\ req'.answer = a
    BY <1>1, <1>2, <1>3 DEF RequestType
  <1> QED  BY <1>3, <1>4 DEF a

(* A request goes on to the next stage.                                    *)
LEMMA GoesTo ==
    ASSUME TypeOK, NEW at \in Stages, Goes([req EXCEPT !.at = at])
    PROVE  /\ Same /\ req' \in RequestType
           /\ req'.at = at /\ req'.pending = req.pending /\ req'.endpoint = req.endpoint
           /\ req'.info = req.info
  <1>1. req \in RequestType  BY DEF TypeOK, RequestType
  <1>2. Same /\ req' = [req EXCEPT !.at = at]  BY DEF Goes, Same
  <1> QED  BY <1>1, <1>2 DEF RequestType

(* The request of a caller.                                                *)
LEMMA ArriveIs ==
    ASSUME NEW endpoint \in Endpoints, Arrive(endpoint)
    PROVE  /\ req' \in RequestType /\ req'.endpoint = endpoint /\ ~req'.missing
           /\ IF Ingests(endpoint) THEN req'.at = "shapefiles" /\ req'.pending = ShapeFiles
                                   ELSE req'.at = "gpkg" /\ req'.pending = {}
           /\ UNCHANGED files /\ touched' = 0 /\ persistent' = Flaws(gpkg, product, exists)
  <1>1. /\ Idle \in RequestType /\ ~Idle.missing /\ Idle.pending = {}
    BY DEF Idle, RequestType, Endpoints, Stages, NoAnswer, Answers
  <1>2. {"shapefiles", "gpkg"} \subseteq Stages  BY DEF Stages
  <1>3. UNCHANGED files /\ touched' = 0 /\ persistent' = Flaws(gpkg, product, exists)  BY DEF Arrive
  <1>4. CASE Ingests(endpoint)
    <2>1. req' = [Idle EXCEPT !.endpoint = endpoint, !.at = "shapefiles", !.pending = ShapeFiles]
      BY <1>4 DEF Arrive, Ingests
    <2> QED  BY <1>1, <1>2, <1>3, <1>4, <2>1 DEF RequestType
  <1>5. CASE ~Ingests(endpoint)
    <2>1. req' = [Idle EXCEPT !.endpoint = endpoint, !.at = "gpkg"]  BY <1>5 DEF Arrive, Ingests
    <2> QED  BY <1>1, <1>2, <1>3, <1>5, <2>1 DEF RequestType
  <1> QED  BY <1>4, <1>5

(* The access of a shapefile: the last one decides.                        *)
LEMMA AccessIs ==
    ASSUME TypeOK, NEW f \in ShapeFiles, AccessShapeFile(f)
    PROVE  /\ Same /\ req.at = "shapefiles" /\ f \in req.pending
           /\ \/ /\ req' \in RequestType /\ req'.at = "shapefiles" /\ req'.endpoint = req.endpoint
                 /\ req'.pending = req.pending \ {f} /\ req'.pending # {}
                 /\ req'.missing = (req.missing \/ ~exists[f])
              \/ req.pending = {f} /\ (req.missing \/ ~exists[f]) /\ Answer("FileNotFoundError")
              \/ /\ req.pending = {f} /\ ~req.missing /\ exists[f]
                 /\ req' \in RequestType /\ req'.at = "gpkg" /\ req'.endpoint = req.endpoint
                 /\ req'.pending = {}
  <1> DEFINE missing == req.missing \/ ~exists[f]
  <1>1. req \in RequestType /\ missing \in BOOLEAN  BY DEF TypeOK, RequestType
  <1>2. req.at = "shapefiles" /\ f \in req.pending  BY DEF AccessShapeFile
  <1>3. CASE req.pending # {f}
    <2>1. Same /\ req' = [req EXCEPT !.pending = @ \ {f}, !.missing = missing]
      BY <1>3 DEF AccessShapeFile, Goes, Same
    <2> HIDE DEF missing
    <2>2. /\ req' \in RequestType /\ req'.at = "shapefiles" /\ req'.endpoint = req.endpoint
          /\ req'.pending = req.pending \ {f} /\ req'.missing = missing
      BY <1>1, <1>2, <2>1 DEF RequestType
    <2>3. req'.pending # {}  BY <1>2, <1>3, <2>2
    <2> QED  BY <1>2, <2>1, <2>2, <2>3 DEF missing
  <1>4. CASE req.pending = {f} /\ missing
    <2>1. Answer("FileNotFoundError")  BY <1>4 DEF AccessShapeFile
    <2> QED  BY <1>2, <1>4, <2>1, AnswerIs
  <1>5. CASE req.pending = {f} /\ ~missing
    <2>1. Same /\ req' = [req EXCEPT !.at = "gpkg", !.pending = {}]
      BY <1>5 DEF AccessShapeFile, Goes, Same
    <2>2. "gpkg" \in Stages  BY DEF Stages
    <2>3. /\ req' \in RequestType /\ req'.at = "gpkg" /\ req'.endpoint = req.endpoint
          /\ req'.pending = {}
      BY <1>1, <2>1, <2>2 DEF RequestType
    <2> QED  BY <1>2, <1>5, <2>1, <2>3
  <1> QED  BY <1>3, <1>4, <1>5

(* GDAL reads the gpkg.                                                    *)
LEMMA InfoIs ==
    ASSUME TypeOK, GetInfoData
    PROVE  LET e == getInfoData(gpkg.defects) IN
           /\ req.at \in {"gdalInfo", "infoAgain"}
           /\ \/ (e # "none" \/ req.endpoint = "info") /\ Answer(e)
              \/ /\ e = "none" /\ req.endpoint # "info"
                 /\ Same /\ req' \in RequestType /\ req'.endpoint = req.endpoint
                 /\ req'.pending = req.pending /\ req'.info = gpkg
                 /\ req'.at = IF req.at = "infoAgain" THEN "product" ELSE "infoData"
  <1> DEFINE e == getInfoData(gpkg.defects)
             at == IF req.at = "infoAgain" THEN "product" ELSE "infoData"
  <1>1. req \in RequestType /\ gpkg \in Contents  BY DEF TypeOK, RequestType
  <1>2. req.at \in {"gdalInfo", "infoAgain"}  BY DEF GetInfoData
  <1>3. CASE e # "none" \/ req.endpoint = "info"  BY <1>2, <1>3 DEF GetInfoData
  <1>4. CASE ~(e # "none" \/ req.endpoint = "info")
    <2>1. Same /\ req' = [req EXCEPT !.info = gpkg, !.at = at]
      BY <1>4 DEF GetInfoData, Goes, Same
    <2>2. at \in Stages  BY DEF Stages
    <2> HIDE DEF at
    <2>3. /\ req' \in RequestType /\ req'.endpoint = req.endpoint
          /\ req'.pending = req.pending /\ req'.info = gpkg /\ req'.at = at
      BY <1>1, <2>1, <2>2 DEF RequestType
    <2> QED  BY <1>2, <1>4, <2>1, <2>3 DEF at
  <1> QED  BY <1>3, <1>4

(* The check of a stage finds e, and at is the stage after it.             *)
Checks(e, at) ==
    \/ /\ req.at = "gpkg" /\ at = "gdalInfo"
       /\ e = IF "missing" \in gpkg.defects THEN "FileNotFoundError" ELSE "none"
    \/ req.at = "infoData" /\ at = "index" /\ e = validateInfoData(req.info)
    \/ req.at = "index" /\ at = "grid" /\ e = validateGpkgIndex(gpkg.defects)
    \/ req.at = "grid" /\ at = "tileSize" /\ e = validateGpkgGrid(gpkg.defects)
    \/ req.at = "tileSize" /\ at = "infoAgain" /\ e = validateTilesSize(gpkg.defects)

Last == req.at = "tileSize" /\ req.endpoint = "validate"

Leads(e, at) ==
    \/ (e # "none" \/ Last) /\ Answer(e)
    \/ e = "none" /\ ~Last /\ Goes([req EXCEPT !.at = at])

(* A check that finds nothing leads to the next stage, and the last one of *)
(* POST /validate/gpkgs to its answer.                                     *)
LEMMA CheckIs ==
    ASSUME AccessGpkg \/ ValidateInfoData \/ ValidateGpkgIndex \/ ValidateGpkgGrid \/ ValidateTilesSize
    PROVE  \E e, at : at \in Stages /\ Checks(e, at) /\ Leads(e, at)
  <1>1. ASSUME NEW e, NEW at \in {"gdalInfo", "index", "grid", "tileSize", "infoAgain"},
               Checks(e, at), Leads(e, at)
        PROVE  \E f, a : a \in Stages /\ Checks(f, a) /\ Leads(f, a)
    <2>1. at \in Stages  BY DEF Stages
    <2> QED  BY <1>1, <2>1
  <1>2. CASE AccessGpkg
    <2> DEFINE e == IF "missing" \in gpkg.defects THEN "FileNotFoundError" ELSE "none"
    <2>1. Checks(e, "gdalInfo")  BY <1>2 DEF AccessGpkg, Checks
    <2>2. Leads(e, "gdalInfo")  BY <1>2 DEF AccessGpkg, Leads, Last, Continue
    <2> HIDE DEF e
    <2> QED  BY <1>1, <2>1, <2>2
  <1>3. CASE ValidateInfoData
    <2> DEFINE e == validateInfoData(req.info)
    <2>1. Checks(e, "index")  BY <1>3 DEF ValidateInfoData, Checks
    <2>2. Leads(e, "index")  BY <1>3 DEF ValidateInfoData, Leads, Last, Continue
    <2> HIDE DEF e
    <2> QED  BY <1>1, <2>1, <2>2
  <1>4. CASE ValidateGpkgIndex
    <2> DEFINE e == validateGpkgIndex(gpkg.defects)
    <2>1. Checks(e, "grid")  BY <1>4 DEF ValidateGpkgIndex, Checks
    <2>2. Leads(e, "grid")  BY <1>4 DEF ValidateGpkgIndex, Leads, Last, Continue
    <2> HIDE DEF e
    <2> QED  BY <1>1, <2>1, <2>2
  <1>5. CASE ValidateGpkgGrid
    <2> DEFINE e == validateGpkgGrid(gpkg.defects)
    <2>1. Checks(e, "tileSize")  BY <1>5 DEF ValidateGpkgGrid, Checks
    <2>2. Leads(e, "tileSize")  BY <1>5 DEF ValidateGpkgGrid, Leads, Last, Continue
    <2> HIDE DEF e
    <2> QED  BY <1>1, <2>1, <2>2
  <1>6. CASE ValidateTilesSize
    <2> DEFINE e == validateTilesSize(gpkg.defects)
    <2>1. Checks(e, "infoAgain")  BY <1>6 DEF ValidateTilesSize, Checks
    <2>2. Leads(e, "infoAgain")  BY <1>6 DEF ValidateTilesSize, Leads, Last, Continue
    <2> HIDE DEF e
    <2> QED  BY <1>1, <2>1, <2>2
  <1> QED  BY <1>2, <1>3, <1>4, <1>5, <1>6

(* The last stage answers.                                                 *)
LEMMA ProductIs ==
    ASSUME ValidateProduct
    PROVE  req.at = "product" /\ Answer(Then(readProduct, GeoValidate(req.info.extent, product.polygons)))
  BY DEF ValidateProduct

-----------------------------------------------------------------------------
(* Types                                                                   *)

(* What is wrong with files of the right type is a flaw.                   *)
Flaw == {"gpkg", "shapefile", "product"} \X
        (Defects \cup {"noIndex", "noFeatures", "invalid"} \cup ShapeFiles)

LEMMA FlawsType ==
    ASSUME NEW content \in Contents, NEW prod \in ProductContents, NEW present
    PROVE  Flaws(content, prod, present) \subseteq Flaw
  <1>1. content.defects \subseteq Defects /\ prod.kind \in {"ok", "unreadable", "noFeatures", "invalid"}
    BY InputAssumption
  <1>2. "unreadable" \in Defects  BY DEF Defects
  <1> QED  BY <1>1, <1>2 DEF Flaws, Flaw

(* A step of the request to one that is well-typed.                        *)
LEMMA SameType ==
    ASSUME TypeOK, Same, req' \in RequestType, req'.at = "shapefiles" <=> req'.pending # {}
    PROVE  TypeOK'
  BY DEF TypeOK, Same, RequestType

(* The types hold initially and are kept.                                  *)
LEMMA TypeInit == Init => TypeOK
  <1> SUFFICES ASSUME Init PROVE TypeOK  OBVIOUS
  <1>1. Idle \in RequestType /\ Idle.at = "idle" /\ Idle.pending = {}
    BY DEF Idle, RequestType, Endpoints, Stages, NoAnswer, Answers
  <1>2. 0 \in 0 .. MaxTouches  BY InputAssumption
  <1> QED  BY <1>1, <1>2 DEF Init, TypeOK, RequestType

LEMMA TypeStep == TypeOK /\ [Next]_vars => TypeOK'
  <1> SUFFICES ASSUME TypeOK, [Next]_vars PROVE TypeOK'  OBVIOUS
  <1>0. req.at # "shapefiles" => req.pending = {}  BY DEF TypeOK
  <1>a. ASSUME NEW e, Answer(e)  PROVE TypeOK'  BY <1>a, AnswerIs, SameType
  <1>1. ASSUME NEW endpoint \in Endpoints, Arrive(endpoint)  PROVE TypeOK'
    <2>1. req' \in RequestType /\ (req'.at = "shapefiles" <=> req'.pending # {})
      BY <1>1, ArriveIs, InputAssumption
    <2>2. persistent' \subseteq Flaw  BY <1>1, ArriveIs, FlawsType DEF TypeOK
    <2>3. touched' \in 0 .. MaxTouches /\ UNCHANGED files  BY <1>1, ArriveIs, InputAssumption
    <2> QED  BY <2>1, <2>2, <2>3 DEF TypeOK, RequestType, files, Flaw
  <1>2. ASSUME NEW f \in ShapeFiles, AccessShapeFile(f)  PROVE TypeOK'
    BY <1>2, <1>a, AccessIs, SameType
  <1>3. CASE GetInfoData
    <2>1. \/ Answer(getInfoData(gpkg.defects))
          \/ /\ Same /\ req' \in RequestType /\ req'.pending = req.pending
             /\ req'.at \in {"product", "infoData"} /\ req.at # "shapefiles"
      BY <1>3, InfoIs
    <2> QED  BY <1>0, <1>a, <2>1, SameType
  <1>4. CASE AccessGpkg \/ ValidateInfoData \/ ValidateGpkgIndex \/ ValidateGpkgGrid \/ ValidateTilesSize
    <2>1. PICK e, at : at \in Stages /\ Checks(e, at) /\ Leads(e, at)  BY <1>4, CheckIs
    <2>2. req.at # "shapefiles" /\ at # "shapefiles"  BY <2>1 DEF Checks
    <2>3. Answer(e) \/ Goes([req EXCEPT !.at = at])  BY <2>1 DEF Leads
    <2> QED  BY <1>0, <1>a, <2>1, <2>2, <2>3, GoesTo, SameType
  <1>5. CASE ValidateProduct  BY <1>5, <1>a, ProductIs
  <1>6. CASE Touch
    <2>1. /\ gpkg' \in Contents /\ product' \in ProductContents /\ exists' \in [ShapeFiles -> BOOLEAN]
      BY <1>6 DEF Touch, TypeOK
    <2>2. /\ req' = req /\ touched' = touched + 1 /\ touched < MaxTouches
          /\ persistent' \subseteq persistent
      BY <1>6 DEF Touch
    <2>3. touched' \in 0 .. MaxTouches  BY <2>2, InputAssumption DEF TypeOK
    <2> QED  BY <2>1, <2>2, <2>3 DEF TypeOK
  <1>7. CASE Forget
    <2>1. Idle \in RequestType /\ Idle.at = "idle" /\ Idle.pending = {}
      BY DEF Idle, RequestType, Endpoints, Stages, NoAnswer, Answers
    <2>2. Same /\ req' = Idle  BY <1>7 DEF Forget, Goes, Same
    <2> QED  BY <2>1, <2>2, SameType
  <1>8. CASE UNCHANGED vars  BY <1>8 DEF vars, TypeOK
  <1> QED  BY <1>1, <1>2, <1>3, <1>4, <1>5, <1>6, <1>7, <1>8 DEF Next, Step

(* The records of a request are well-typed: it awaits shapefiles just at   *)
(* the stage that accesses them, and is answered by a status its endpoint  *)
(* gives.                                                                  *)
THEOREM RequestTypeCorrect == Spec => []TypeOK
  BY TypeInit, TypeStep, PTL DEF Spec

-----------------------------------------------------------------------------
(* A flaw that lasts is met by the check that looks for it.                *)

(* The defects that cannot have lasted when a request is at a stage: what  *)
(* each check it has passed finds.                                         *)
Outlived(at) ==
    CASE at = "gdalInfo" -> {"missing"}
      [] at = "infoData" -> {"missing", "unreadable"}
      [] at = "index" -> {"missing", "unreadable", "badInfo"}
      [] at = "grid" -> {"missing", "unreadable", "badInfo", "noContents", "manyTables", "noIndex"}
      [] at = "tileSize" -> {"missing", "unreadable", "badInfo", "noContents", "manyTables", "noIndex",
                             "noMatrix", "grid"}
      [] at \in {"infoAgain", "product"} -> (Defects \cup {"noIndex"}) \ {"noUnique", "noManual"}
      [] OTHER -> {}

Meets ==
    /\ req.at \in {"shapefiles", "infoAgain", "product"} => Ingests(req.endpoint)
    /\ req.at \in {"infoData", "index", "grid", "tileSize"} => req.endpoint # "info"
    /\ req.at \notin {"idle", "answered"} => persistent \subseteq Flaws(gpkg, product, exists)
    /\ \A f \in ShapeFiles : <<"shapefile", f>> \in persistent =>
          /\ req.at = "shapefiles" => f \in req.pending \/ req.missing
          /\ req.at \notin {"idle", "shapefiles", "answered"} => ~Ingests(req.endpoint)
    /\ \A d \in Outlived(req.at) : <<"gpkg", d>> \notin persistent
    /\ req.at = "infoData" /\ <<"gpkg", "badInfo">> \in persistent => "badInfo" \in req.info.defects
    /\ PersistentFlawsFound

MeetInv == TypeOK /\ Meets

(* What a lasting flaw says of the files as they are.                      *)
LEMMA FlawsAre ==
    ASSUME NEW content, NEW prod, NEW present
    PROVE  LET flaws == Flaws(content, prod, present) IN
           /\ \A d : <<"gpkg", d>> \in flaws =>
                 \/ d \in content.defects \ {"noUnique", "noManual"}
                 \/ d = "noIndex" /\ {"noUnique", "noManual"} \subseteq content.defects
           /\ \A f : <<"shapefile", f>> \in flaws => f \in ShapeFiles /\ ~present[f]
           /\ \A k : <<"product", k>> \in flaws => k = prod.kind /\ k # "ok"
  BY DEF Flaws

(* The checks find the defects they look for.                              *)
LEMMA ChecksFind ==
    ASSUME NEW d
    PROVE  /\ validateGpkgIndex(d) = "none" =>
                 /\ {"missing", "noContents", "manyTables"} \cap d = {}
                 /\ ~({"noUnique", "noManual"} \subseteq d)
           /\ validateGpkgGrid(d) = "none" => {"noMatrix", "grid"} \cap d = {}
           /\ validateTilesSize(d) = "none" => {"mixedTiles", "tileSize"} \cap d = {}
           /\ getInfoData(d) = "none" => {"missing", "unreadable"} \cap d = {}
  <1>1. validateGpkgIndex(d) = "none" => /\ {"missing", "noContents", "manyTables"} \cap d = {}
                                         /\ ~({"noUnique", "noManual"} \subseteq d)
    BY DEF validateGpkgIndex, Then, getDB, getGpkgTableName, isGpkgIndexExist, hasUniqueGpkgIndex,
           hasGpkgManualIndex, handleError
  <1>2. validateGpkgGrid(d) = "none" => {"noMatrix", "grid"} \cap d = {}
    BY DEF validateGpkgGrid, Then, getGrid, getDB, getMatrixValues, handleError
  <1>3. validateTilesSize(d) = "none" => {"mixedTiles", "tileSize"} \cap d = {}
    BY DEF validateTilesSize, Then, getGpkgTileSize, getDB, handleError
  <1>4. getInfoData(d) = "none" => {"missing", "unreadable"} \cap d = {}  BY DEF getInfoData
  <1> QED  BY <1>1, <1>2, <1>3, <1>4

(* An error is never an answer of validity.                                *)
LEMMA MeetRefused ==
    ASSUME TypeOK, NEW e, Answer(e), e # "none"
    PROVE  Meets'
  <1>1. AnswerTo(req.endpoint, e).valid = FALSE  BY DEF AnswerTo
  <1>2. req'.at = "answered" /\ ~req'.answer.valid
    <2> DEFINE a == AnswerTo(req.endpoint, e)
    <2>1. req'.at = "answered" /\ req'.answer = a  BY AnswerIs
    <2>2. a.valid = FALSE  BY <1>1
    <2> HIDE DEF a
    <2> QED  BY <2>1, <2>2
  <1> QED  BY <1>2 DEF Meets, Outlived, PersistentFlawsFound

(* A request found valid, if no flaw it seeks has lasted.                  *)
LEMMA MeetFound ==
    ASSUME TypeOK, Answer("none"), persistent \cap Sought(req.endpoint) = {}
    PROVE  Meets'
  <1>1. req'.at = "answered" /\ req'.endpoint = req.endpoint /\ persistent' = persistent
    BY AnswerIs DEF Same
  <1>2. PersistentFlawsFound'  BY <1>1 DEF PersistentFlawsFound
  <1> QED  BY <1>1, <1>2 DEF Meets, Outlived

(* What has not lasted to a stage that goes on has not lasted to the next. *)
LEMMA MeetGoes ==
    ASSUME MeetInv, Same, req'.endpoint = req.endpoint,
           req.at \in Stages \ {"idle", "shapefiles", "answered"},
           req'.at \in Stages \ {"idle", "shapefiles", "answered"},
           req'.at \in {"infoAgain", "product"} => Ingests(req.endpoint),
           req'.at \in {"infoData", "index", "grid", "tileSize"} => req.endpoint # "info",
           \A d \in Outlived(req'.at) : <<"gpkg", d>> \notin persistent,
           req'.at = "infoData" => req'.info = gpkg
    PROVE  Meets'
  <1>1. gpkg' = gpkg /\ product' = product /\ exists' = exists /\ persistent' = persistent  BY DEF Same
  <1>2. Flaws(gpkg, product, exists)' = Flaws(gpkg, product, exists)  BY <1>1 DEF Flaws
  <1>3. persistent \subseteq Flaws(gpkg, product, exists)  BY DEF MeetInv, Meets
  <1>4. req'.at = "infoData" /\ <<"gpkg", "badInfo">> \in persistent => "badInfo" \in req'.info.defects
    BY <1>3, FlawsAre
  <1>5. PersistentFlawsFound'  BY DEF PersistentFlawsFound
  <1>6. \A f \in ShapeFiles : <<"shapefile", f>> \in persistent => ~Ingests(req.endpoint)
    BY DEF MeetInv, Meets
  <1>7. Outlived(req.at)' = Outlived(req'.at)  BY DEF Outlived
  <1> QED  BY <1>1, <1>2, <1>3, <1>4, <1>5, <1>6, <1>7 DEF Meets, Ingests

(* The checks of the gpkg and what GDAL says of it.                        *)
LEMMA MeetCheck ==
    ASSUME MeetInv, NEW e, NEW at \in Stages, Checks(e, at), Leads(e, at)
    PROVE  Meets'
  <1>0. /\ TypeOK /\ req.endpoint \in Endpoints /\ persistent \subseteq Flaw
        /\ persistent \subseteq Flaws(gpkg, product, exists)
        /\ \A d \in Outlived(req.at) : <<"gpkg", d>> \notin persistent
    BY DEF MeetInv, Meets, Checks, TypeOK, Flaw
  <1>1. CASE e # "none"
    <2>1. Answer(e)  BY <1>1 DEF Leads
    <2> QED  BY <1>0, <1>1, <2>1, MeetRefused
  <1>2. CASE e = "none"
    <2>1. \A d \in Outlived(at) : <<"gpkg", d>> \notin persistent
      <3>1. \A d : <<"gpkg", d>> \in persistent =>
               \/ d \in gpkg.defects \ {"noUnique", "noManual"}
               \/ d = "noIndex" /\ {"noUnique", "noManual"} \subseteq gpkg.defects
        BY <1>0, FlawsAre
      <3>2. CASE req.at = "gpkg"  BY <1>2, <3>1, <3>2 DEF Checks, Outlived
      <3>3. CASE req.at = "infoData"
        <4>1. <<"gpkg", "badInfo">> \notin persistent
          BY <1>2, <3>3 DEF Checks, validateInfoData, MeetInv, Meets
        <4> QED  BY <1>0, <3>3, <4>1 DEF Checks, Outlived
      <3>4. CASE req.at = "index"
        <4>1. /\ at = "grid" /\ {"missing", "noContents", "manyTables"} \cap gpkg.defects = {}
              /\ ~({"noUnique", "noManual"} \subseteq gpkg.defects)
          BY <1>2, <3>4, ChecksFind DEF Checks
        <4>2. <<"gpkg", "noIndex">> \notin persistent
          <5>1. gpkg.defects \subseteq Defects  BY <1>0, InputAssumption DEF TypeOK
          <5> QED  BY <3>1, <4>1, <5>1 DEF Defects
        <4>3. {<<"gpkg", "noContents">>, <<"gpkg", "manyTables">>} \cap persistent = {}  BY <3>1, <4>1
        <4> QED  BY <1>0, <3>4, <4>1, <4>2, <4>3 DEF Outlived
      <3>5. CASE req.at = "grid"  BY <1>0, <1>2, <3>1, <3>5, ChecksFind DEF Checks, Outlived
      <3>6. CASE req.at = "tileSize"
        <4>1. at = "infoAgain" /\ {"mixedTiles", "tileSize"} \cap gpkg.defects = {}
          BY <1>2, <3>6, ChecksFind DEF Checks
        <4> QED  BY <1>0, <3>1, <3>6, <4>1 DEF Outlived, Defects
      <3> QED  BY <3>2, <3>3, <3>4, <3>5, <3>6 DEF Checks
    <2>2. CASE Last
      <3>1. Answer(e) /\ at = "infoAgain"  BY <2>2 DEF Leads, Last, Checks
      <3>2. persistent \cap Sought(req.endpoint) = {}
        <4>1. Sought(req.endpoint) = {"gpkg"} \X (Defects \cup {"noIndex"})  BY <2>2 DEF Last, Sought
        <4>2. \A d \in Defects \cup {"noIndex"} : <<"gpkg", d>> \notin persistent
          BY <1>0, <2>1, <3>1, FlawsAre DEF Outlived
        <4> QED  BY <4>1, <4>2
      <3> QED  BY <1>0, <1>2, <3>1, <3>2, MeetFound
    <2>3. CASE ~Last
      <3>1. Goes([req EXCEPT !.at = at])  BY <1>2, <2>3 DEF Leads
      <3>2. Same /\ req'.at = at /\ req'.endpoint = req.endpoint  BY <1>0, <3>1, GoesTo
      <3>3. /\ req.at \in Stages \ {"idle", "shapefiles", "answered"}
            /\ at \in Stages \ {"idle", "shapefiles", "answered", "infoData", "product"}
        BY DEF Checks, Stages
      <3>4. at \in {"index", "grid", "tileSize", "infoAgain"} => req.endpoint # "info"
        BY DEF Checks, MeetInv, Meets
      <3>5. at = "infoAgain" => Ingests(req.endpoint)
        BY <1>0, <2>3, <3>4 DEF Checks, Last, Ingests, Endpoints
      <3> QED  BY <2>1, <3>2, <3>3, <3>4, <3>5, MeetGoes
    <2> QED  BY <2>2, <2>3
  <1> QED  BY <1>1, <1>2

(* The invariant is kept by every step.                                    *)
LEMMA MeetStep == MeetInv /\ [Next]_vars => MeetInv'
  <1> SUFFICES ASSUME MeetInv, [Next]_vars PROVE Meets'  BY TypeStep DEF MeetInv
  <1>0. /\ TypeOK /\ req.endpoint \in Endpoints /\ persistent \subseteq Flaw
    BY DEF MeetInv, TypeOK, Flaw
  <1>1. ASSUME NEW endpoint \in Endpoints, Arrive(endpoint)  PROVE Meets'
    <2>1. /\ req'.at \in {"shapefiles", "gpkg"} /\ req'.endpoint = endpoint
          /\ req'.at = "shapefiles" <=> Ingests(endpoint)
          /\ req'.at = "shapefiles" => req'.pending = ShapeFiles
          /\ persistent' = Flaws(gpkg, product, exists) /\ UNCHANGED files
      BY <1>1, ArriveIs
    <2>2. Flaws(gpkg, product, exists)' = Flaws(gpkg, product, exists)  BY <2>1 DEF files, Flaws
    <2>3. \A x : Ingests(x)' <=> Ingests(x)  BY DEF Ingests
    <2> QED  BY <2>1, <2>2, <2>3 DEF Meets, Outlived, PersistentFlawsFound
  <1>2. ASSUME NEW f \in ShapeFiles, AccessShapeFile(f)  PROVE Meets'
    <2>1. /\ req.at = "shapefiles" /\ f \in req.pending /\ Same /\ Ingests(req.endpoint)
          /\ persistent \subseteq Flaws(gpkg, product, exists)
          /\ \A s \in ShapeFiles : <<"shapefile", s>> \in persistent => s \in req.pending \/ req.missing
      BY <1>0, <1>2, AccessIs DEF MeetInv, Meets
    <2>2. Flaws(gpkg, product, exists)' = Flaws(gpkg, product, exists) /\ persistent' = persistent
      BY <2>1 DEF Same, Flaws
    <2>3. <<"shapefile", f>> \in persistent => ~exists[f]  BY <2>1, FlawsAre
    <2>4. CASE /\ req'.at = "shapefiles" /\ req'.endpoint = req.endpoint
               /\ req'.pending = req.pending \ {f}
               /\ req'.missing = (req.missing \/ ~exists[f])
      BY <2>1, <2>2, <2>3, <2>4 DEF Meets, Outlived, PersistentFlawsFound, Ingests
    <2>5. CASE Answer("FileNotFoundError")  BY <1>0, <2>5, MeetRefused
    <2>6. CASE /\ req.pending = {f} /\ ~req.missing /\ exists[f]
               /\ req'.at = "gpkg" /\ req'.endpoint = req.endpoint
      <3>1. \A s \in ShapeFiles : <<"shapefile", s>> \notin persistent  BY <2>1, <2>3, <2>6
      <3> QED  BY <2>1, <2>2, <2>6, <3>1 DEF Meets, Outlived, PersistentFlawsFound
    <2> QED  BY <1>0, <1>2, <2>4, <2>5, <2>6, AccessIs
  <1>3. CASE GetInfoData
    <2> DEFINE e == getInfoData(gpkg.defects)
    <2>1. req.at \in {"gdalInfo", "infoAgain"}  BY <1>0, <1>3, InfoIs
    <2>2. /\ persistent \subseteq Flaws(gpkg, product, exists)
          /\ \A d \in Outlived(req.at) : <<"gpkg", d>> \notin persistent
          /\ req.at = "infoAgain" => Ingests(req.endpoint)
      BY <2>1 DEF MeetInv, Meets
    <2>3. e = "none" => <<"gpkg", "missing">> \notin persistent /\ <<"gpkg", "unreadable">> \notin persistent
      BY <2>2, FlawsAre, ChecksFind
    <2>4. CASE e # "none" /\ Answer(e)  BY <1>0, <2>4, MeetRefused
    <2>5. CASE e = "none" /\ req.endpoint = "info" /\ Answer(e)
      <3>1. persistent \cap Sought(req.endpoint) = {}  BY <2>3, <2>5 DEF Sought
      <3> QED  BY <1>0, <2>5, <3>1, MeetFound
    <2>6. CASE /\ e = "none" /\ req.endpoint # "info" /\ Same /\ req'.endpoint = req.endpoint
               /\ req'.info = gpkg /\ req'.at = IF req.at = "infoAgain" THEN "product" ELSE "infoData"
      <3>1. \A d \in Outlived(req'.at) : <<"gpkg", d>> \notin persistent
        BY <2>1, <2>2, <2>3, <2>6 DEF Outlived
      <3>2. /\ req.at \in Stages \ {"idle", "shapefiles", "answered"}
            /\ req'.at \in Stages \ {"idle", "shapefiles", "answered"}
        BY <2>1, <2>6 DEF Stages
      <3> QED  BY <2>1, <2>2, <2>6, <3>1, <3>2, MeetGoes
    <2> QED  BY <1>0, <1>3, <2>4, <2>5, <2>6, InfoIs
  <1>4. CASE AccessGpkg \/ ValidateInfoData \/ ValidateGpkgIndex \/ ValidateGpkgGrid \/ ValidateTilesSize
    BY <1>4, CheckIs, MeetCheck
  <1>5. CASE ValidateProduct
    <2> DEFINE geo == GeoValidate(req.info.extent, product.polygons)
               e == Then(readProduct, geo)
    <2>1. req.at = "product" /\ Answer(e)  BY <1>5, ProductIs
    <2>2. CASE e # "none"  BY <1>0, <2>1, <2>2, MeetRefused
    <2>3. CASE e = "none"
      <3>1. readProduct = "none"  BY <2>3 DEF Then
      <3>2. product.kind \notin {"unreadable", "noFeatures", "invalid"}  BY <3>1 DEF readProduct
      <3>3. product.kind = "ok"  BY <1>0, <3>2, InputAssumption DEF TypeOK
      <3>4. /\ persistent \subseteq Flaws(gpkg, product, exists) /\ Ingests(req.endpoint)
            /\ \A f \in ShapeFiles : <<"shapefile", f>> \notin persistent
            /\ \A d \in (Defects \cup {"noIndex"}) \ {"noUnique", "noManual"} : <<"gpkg", d>> \notin persistent
        BY <2>1 DEF MeetInv, Meets, Outlived
      <3>5. persistent = {}
        <4> SUFFICES ASSUME NEW x \in persistent PROVE FALSE  OBVIOUS
        <4>1. PICK a, b : x = <<a, b>> /\ a \in {"gpkg", "shapefile", "product"}  BY <1>0 DEF Flaw
        <4>2. CASE a = "gpkg"
          <5>1. \/ b \in gpkg.defects \ {"noUnique", "noManual"}
                \/ b = "noIndex"
            BY <3>4, <4>1, <4>2, FlawsAre
          <5>2. gpkg.defects \subseteq Defects  BY <1>0, InputAssumption DEF TypeOK
          <5> QED  BY <3>4, <4>1, <4>2, <5>1, <5>2
        <4>3. CASE a = "shapefile"  BY <3>4, <4>1, <4>3, FlawsAre
        <4>4. CASE a = "product"  BY <3>3, <3>4, <4>1, <4>4, FlawsAre
        <4> QED  BY <4>1, <4>2, <4>3, <4>4
      <3> QED  BY <1>0, <2>1, <2>3, <3>5, MeetFound
    <2> QED  BY <2>2, <2>3
  <1>6. CASE Touch
    <2>1. /\ req' = req /\ req.at \notin {"idle", "answered"}
          /\ persistent' = persistent \cap Flaws(gpkg', product', exists')
      BY <1>6 DEF Touch
    <2>2. Flaws(gpkg, product, exists)' = Flaws(gpkg', product', exists')  BY DEF Flaws
    <2> QED  BY <2>1, <2>2 DEF MeetInv, Meets, Outlived, PersistentFlawsFound, Ingests
  <1>7. CASE Forget
    <2>1. req'.at = "idle"  BY <1>7 DEF Forget, Goes, Idle
    <2> QED  BY <2>1 DEF Meets, Outlived, PersistentFlawsFound
  <1>8. CASE UNCHANGED vars
    <2>1. /\ gpkg' = gpkg /\ product' = product /\ exists' = exists /\ req' = req
          /\ persistent' = persistent
      BY <1>8 DEF vars
    <2> QED  BY <2>1 DEF MeetInv, Meets, Outlived, PersistentFlawsFound, Flaws, Ingests, Sought
  <1> QED  BY <1>1, <1>2, <1>3, <1>4, <1>5, <1>6, <1>7, <1>8 DEF Next, Step

(* A request found valid has files without a flaw that lasted from its     *)
(* arrival on, whatever was replaced before, between and after its reads.  *)
THEOREM LastingFlawsAreFound == Spec => []PersistentFlawsFound
  <1>1. Init => MeetInv
    <2>1. Init => req.at = "idle"  BY DEF Init, Idle
    <2> QED  BY <2>1, TypeInit DEF MeetInv, Meets, Outlived, PersistentFlawsFound, Init
  <1>2. MeetInv => PersistentFlawsFound  BY DEF MeetInv, Meets
  <1> QED  BY <1>1, <1>2, MeetStep, PTL DEF Spec

-----------------------------------------------------------------------------
(* The checks of the gpkg, by number.                                      *)

CheckError(k, d) ==
    CASE k = 1 -> validateGpkgIndex(d)
      [] k = 2 -> validateGpkgGrid(d)
      [] k = 3 -> validateTilesSize(d)

(* What each check makes of a gpkg that is there.                          *)
LEMMA CheckErrorIs ==
    ASSUME NEW k \in 1 .. 3, "missing" \notin gpkg.defects
    PROVE  LET e == CheckError(k, gpkg.defects) IN
           /\ e # "none" <=> Faulty(k)
           /\ e # "none" => /\ e \in GpkgErrors \cup {"SqliteError"}
                            /\ e = "SqliteError" <=>
                                  gpkg.defects \cap CheckDefects[k] \cap {"noContents", "noMatrix"} # {}
  <1> USE DEF CheckError, Faulty, CheckDefects, GpkgErrors, Then, getDB, handleError
  <1>1. CASE k = 1
    BY <1>1 DEF validateGpkgIndex, getGpkgTableName, isGpkgIndexExist, hasUniqueGpkgIndex, hasGpkgManualIndex
  <1>2. CASE k = 2  BY <1>2 DEF validateGpkgGrid, getGrid, getMatrixValues
  <1>3. CASE k = 3  BY <1>3 DEF validateTilesSize, getGpkgTileSize
  <1> QED  BY <1>1, <1>2, <1>3

(* The first check that finds fault is the first fault.                    *)
LEMMA FirstFault ==
    ASSUME NEW k \in 1 .. 3, \A i \in 1 .. 3 : i < k => ~Faulty(i), Faulty(k)
    PROVE  Faults # {} /\ Min(Faults) = k
  <1>1. Faults \subseteq Nat /\ k \in Faults  BY DEF Faults
  <1>2. Min(Faults) \in Faults /\ Min(Faults) <= k  BY <1>1, LeastElement
  <1> QED  BY <1>1, <1>2 DEF Faults

-----------------------------------------------------------------------------
(* The rules of what files deserve, read one by one.                       *)

(* The first that applies decides.                                         *)
LEMMA FirstRule ==
    ASSUME NEW endpoint, NEW i \in 1 .. 13, Rules(endpoint)[i][1],
           \A k \in 1 .. 13 : k < i => ~Rules(endpoint)[k][1]
    PROVE  Deserved(endpoint) = Rules(endpoint)[i][2]
  <1> DEFINE applying == {k \in DOMAIN Rules(endpoint) : Rules(endpoint)[k][1]}
  <1>1. DOMAIN Rules(endpoint) = 1 .. 13  BY DEF Rules
  <1>2. applying \subseteq Nat /\ i \in applying  BY <1>1
  <1>3. Min(applying) \in applying /\ Min(applying) <= i  BY <1>2, LeastElement
  <1>4. Min(applying) = i  BY <1>1, <1>3
  <1> QED  BY <1>4 DEF Deserved

(* What each of them asks.                                                 *)
LEMMA RuleAsks ==
    ASSUME NEW endpoint
    PROVE  LET asks(i) == Rules(endpoint)[i][1] IN
           /\ asks(1) <=> Ingests(endpoint) /\ \E f \in ShapeFiles : ~exists[f]
           /\ asks(2) <=> Has({"missing"})
           /\ asks(3) <=> endpoint = "info"
           /\ asks(4) <=> Has({"unreadable", "badInfo"})
           /\ asks(5) <=> Faults # {} /\ Unqueryable
           /\ asks(6) <=> Faults # {}
           /\ asks(7) <=> endpoint = "validate"
           /\ asks(8) <=> product.kind = "unreadable"
           /\ asks(9) <=> product.kind \in {"noFeatures", "invalid"}
           /\ asks(10) <=> ~Outside(gpkg.extent)
           /\ asks(11) <=> Buffered[gpkg.extent] = NoExtent
           /\ asks(12) <=> Buffered[gpkg.extent] # NoExtent /\ Outside(Buffered[gpkg.extent])
           /\ asks(13)
  BY DEF Rules

(* What each of them answers.                                              *)
LEMMA RuleAnswers ==
    ASSUME NEW endpoint
    PROVE  LET answer(i) == Rules(endpoint)[i][2] IN
           /\ answer(1) = 404 /\ answer(2) = 404
           /\ answer(3) = IF Has({"unreadable"}) THEN 500 ELSE 200
           /\ answer(4) = IF Ingests(endpoint) THEN 422 ELSE 200
           /\ answer(5) = 500
           /\ answer(6) = CASE endpoint = "new" -> 500 [] endpoint = "update" -> 422 [] OTHER -> 200
           /\ answer(7) = 200 /\ answer(8) = 422 /\ answer(9) = 400 /\ answer(10) = 200
           /\ answer(11) = 422 /\ answer(12) = 400 /\ answer(13) = 200
  BY DEF Rules

(* The verdict of files that did not change is what it was.                *)
LEMMA SameFilesDeserve ==
    ASSUME UNCHANGED files
    PROVE  /\ \A s : Has(s)' <=> Has(s)
           /\ \A k : Faulty(k)' <=> Faulty(k)
           /\ \A endpoint : Deserved(endpoint)' = Deserved(endpoint)
  <1>0. gpkg' = gpkg /\ product' = product /\ exists' = exists  BY DEF files
  <1>1. \A s : Has(s)' = Has(s)  BY <1>0 DEF Has
  <1>2. \A k : Faulty(k)' = Faulty(k)  BY <1>0 DEF Faulty
  <1>3. Faults' = Faults  BY <1>2 DEF Faults
  <1>4. ASSUME NEW endpoint  PROVE Rules(endpoint)' = Rules(endpoint)
    <2>1. \A e : Outside(e)' = Outside(e)  BY <1>0 DEF Outside
    <2>2. (\E f \in ShapeFiles : ~exists'[f]) = (\E f \in ShapeFiles : ~exists[f])  BY <1>0
    <2>3. Unqueryable' = Unqueryable  BY <1>0, <1>3 DEF Unqueryable
    <2> QED  BY <1>0, <1>1, <1>3, <2>1, <2>2, <2>3 DEF Rules
  <1> QED  BY <1>1, <1>2, <1>4 DEF Deserved

-----------------------------------------------------------------------------
(* What the request knows of the files when none of them changed: the      *)
(* stages it has passed found no fault, and what it was told is what is.   *)

AtGpkg == {"gpkg", "gdalInfo", "infoData", "index", "grid", "tileSize", "infoAgain", "product"}

Matches ==
    /\ req.at \in {"shapefiles", "infoAgain", "product"} => Ingests(req.endpoint)
    /\ req.at \in {"infoData", "index", "grid", "tileSize"} => req.endpoint # "info"
    /\ req.at = "shapefiles" => (req.missing <=> \E f \in ShapeFiles \ req.pending : ~exists[f])
    /\ req.at \in AtGpkg => (Ingests(req.endpoint) => \A f \in ShapeFiles : exists[f])
    /\ req.at \in AtGpkg \ {"gpkg"} => ~Has({"missing"})
    /\ req.at \in AtGpkg \ {"gpkg", "gdalInfo"} => ~Has({"unreadable"}) /\ req.info = gpkg
    /\ req.at \in {"index", "grid", "tileSize", "infoAgain", "product"} => ~Has({"unreadable", "badInfo"})
    /\ req.at \in {"grid", "tileSize", "infoAgain", "product"} => ~Faulty(1)
    /\ req.at \in {"tileSize", "infoAgain", "product"} => ~Faulty(2)
    /\ req.at \in {"infoAgain", "product"} => ~Faulty(3)
    /\ req.at = "answered" => req.answer.status = Deserved(req.endpoint)

MatchInv == TypeOK /\ (touched = 0 => Matches)

(* The status each error becomes.                                          *)
LEMMA StatusIs ==
    ASSUME NEW endpoint \in Endpoints
    PROVE  LET status(e) == AnswerTo(endpoint, e).status IN
           /\ status("none") = 200
           /\ status("FileNotFoundError") = 404
           /\ status("SqliteError") = 500
           /\ status("GdalInfoError") = CASE endpoint = "info" -> 500
                                          [] endpoint = "validate" -> 200
                                          [] OTHER -> 422
           /\ \A e \in GpkgErrors : /\ endpoint = "new" => status(e) = 500
                                    /\ endpoint = "update" => status(e) = 422
                                    /\ endpoint = "validate" => status(e) = 200
           /\ Ingests(endpoint) => status("UnsupportedEntityError") = 422 /\ status("ValidationError") = 400
  <1>1. \A e : /\ endpoint = "new" => AnswerTo(endpoint, e).status = NewLayerStatus(e)
               /\ endpoint = "update" => AnswerTo(endpoint, e).status = UpdateLayerStatus(e)
               /\ endpoint = "validate" => AnswerTo(endpoint, e).status = ValidateGpkgsStatus(e)
               /\ endpoint = "info" => AnswerTo(endpoint, e).status = OwnStatus(e)
    BY DEF AnswerTo
  <1> USE DEF NewLayerStatus, UpdateLayerStatus, ValidateGpkgsStatus, OwnStatus, GpkgErrors,
              UnsupportedEntityErrors, Ingests
  <1>2. CASE endpoint = "new"  BY <1>1, <1>2
  <1>3. CASE endpoint = "update"  BY <1>1, <1>3
  <1>4. CASE endpoint = "validate"  BY <1>1, <1>4
  <1>5. CASE endpoint = "info"  BY <1>1, <1>5
  <1> QED  BY <1>2, <1>3, <1>4, <1>5 DEF Endpoints

(* A request is answered what the files deserve.                           *)
LEMMA MatchAnswer ==
    ASSUME TypeOK, NEW e, Answer(e), AnswerTo(req.endpoint, e).status = Deserved(req.endpoint)
    PROVE  Matches'
  <1> DEFINE a == AnswerTo(req.endpoint, e)
  <1>1. Same /\ req'.at = "answered" /\ req'.endpoint = req.endpoint /\ req'.answer = a  BY AnswerIs
  <1>2. a.status = Deserved(req.endpoint)  OBVIOUS
  <1> HIDE DEF a
  <1>3. \A x : Deserved(x)' = Deserved(x)  BY <1>1, SameFilesDeserve DEF Same, files
  <1> QED  BY <1>1, <1>2, <1>3 DEF Matches, AtGpkg

(* A request that goes on knows what it knew and what its check found.     *)
LEMMA MatchGoes ==
    ASSUME Matches, Same, req'.endpoint = req.endpoint,
           req.at \in AtGpkg, req'.at \in AtGpkg \ {"gpkg"},
           req'.at \in {"infoAgain", "product"} => Ingests(req.endpoint),
           req'.at \in {"infoData", "index", "grid", "tileSize"} => req.endpoint # "info",
           ~Has({"missing"}),
           req'.at # "gdalInfo" => ~Has({"unreadable"}) /\ req'.info = gpkg,
           req'.at \notin {"gdalInfo", "infoData"} => ~Has({"unreadable", "badInfo"}),
           req'.at \in {"grid", "tileSize", "infoAgain", "product"} => ~Faulty(1),
           req'.at \in {"tileSize", "infoAgain", "product"} => ~Faulty(2),
           req'.at \in {"infoAgain", "product"} => ~Faulty(3)
    PROVE  Matches'
  <1>0. gpkg' = gpkg /\ product' = product /\ exists' = exists  BY DEF Same
  <1>1. (\A s : Has(s)' <=> Has(s)) /\ (\A k : Faulty(k)' <=> Faulty(k))
    BY <1>0, SameFilesDeserve DEF files
  <1>2. \A x : Ingests(x)' <=> Ingests(x)  BY DEF Ingests
  <1>3. Ingests(req.endpoint) => \A f \in ShapeFiles : exists[f]  BY DEF Matches
  <1> QED  BY <1>0, <1>1, <1>2, <1>3 DEF Matches, AtGpkg

(* The shapefiles a request accesses, one by one.                          *)
LEMMA MatchAccess ==
    ASSUME TypeOK, Matches, NEW f \in ShapeFiles, AccessShapeFile(f)
    PROVE  Matches'
  <1>0. /\ req.at = "shapefiles" /\ f \in req.pending /\ Same /\ Ingests(req.endpoint)
        /\ req.endpoint \in Endpoints
        /\ req.missing <=> \E s \in ShapeFiles \ req.pending : ~exists[s]
    BY AccessIs DEF Matches, TypeOK
  <1>1. gpkg' = gpkg /\ product' = product /\ exists' = exists  BY <1>0 DEF Same
  <1>2. CASE /\ req'.at = "shapefiles" /\ req'.endpoint = req.endpoint
             /\ req'.pending = req.pending \ {f}
             /\ req'.missing = (req.missing \/ ~exists[f])
    <2>1. req'.missing <=> \E s \in ShapeFiles \ (req.pending \ {f}) : ~exists[s]  BY <1>0, <1>2
    <2> QED  BY <1>0, <1>1, <1>2, <2>1 DEF Matches, AtGpkg, Ingests
  <1>3. CASE req.pending = {f} /\ (req.missing \/ ~exists[f]) /\ Answer("FileNotFoundError")
    <2>1. \E s \in ShapeFiles : ~exists[s]  BY <1>0, <1>3
    <2>2. Deserved(req.endpoint) = 404  BY <1>0, <2>1, FirstRule, RuleAsks, RuleAnswers
    <2>3. AnswerTo(req.endpoint, "FileNotFoundError").status = 404  BY <1>0, StatusIs
    <2> QED  BY <1>3, <2>2, <2>3, MatchAnswer
  <1>4. CASE /\ req.pending = {f} /\ ~req.missing /\ exists[f]
             /\ req'.at = "gpkg" /\ req'.endpoint = req.endpoint
    <2>1. \A s \in ShapeFiles : exists[s]  BY <1>0, <1>4
    <2> QED  BY <1>0, <1>1, <1>4, <2>1 DEF Matches, AtGpkg, Ingests
  <1> QED  BY <1>2, <1>3, <1>4, AccessIs

(* GDAL reads the gpkg, before it is checked and again afterwards.         *)
LEMMA MatchInfo ==
    ASSUME TypeOK, Matches, GetInfoData
    PROVE  Matches'
  <1> DEFINE e == getInfoData(gpkg.defects)
  <1>0. /\ req.at \in {"gdalInfo", "infoAgain"} /\ req.endpoint \in Endpoints
        /\ ~Has({"missing"}) /\ (Ingests(req.endpoint) => \A f \in ShapeFiles : exists[f])
        /\ req.at = "infoAgain" => Ingests(req.endpoint)
    BY InfoIs DEF Matches, AtGpkg, TypeOK
  <1>1. /\ e = IF Has({"unreadable"}) THEN "GdalInfoError" ELSE "none"
    BY <1>0 DEF Has, getInfoData
  <1>2. CASE Has({"unreadable"}) /\ Answer(e)
    <2>1. Has({"unreadable", "badInfo"})  BY <1>2 DEF Has
    <2>2. AnswerTo(req.endpoint, "GdalInfoError").status =
             CASE req.endpoint = "info" -> 500 [] req.endpoint = "validate" -> 200 [] OTHER -> 422
      BY <1>0, StatusIs
    <2>3. CASE req.endpoint = "info"
      <3>1. Deserved(req.endpoint) = 500
        BY <1>0, <1>2, <2>3, FirstRule, RuleAsks, RuleAnswers
      <3> QED  BY <1>1, <1>2, <2>2, <2>3, <3>1, MatchAnswer
    <2>4. CASE req.endpoint # "info"
      <3>1. Deserved(req.endpoint) = IF Ingests(req.endpoint) THEN 422 ELSE 200
        BY <1>0, <2>1, <2>4, FirstRule, RuleAsks, RuleAnswers
      <3>2. req.endpoint = "validate" <=> ~Ingests(req.endpoint)  BY <1>0, <2>4 DEF Endpoints, Ingests
      <3>3. AnswerTo(req.endpoint, "GdalInfoError").status = Deserved(req.endpoint)
        BY <2>2, <2>4, <3>1, <3>2
      <3> QED  BY <1>1, <1>2, <3>3, MatchAnswer
    <2> QED  BY <2>3, <2>4
  <1>3. CASE e = "none" /\ req.endpoint = "info" /\ Answer(e)
    <2>1. ~Has({"unreadable"}) /\ ~Ingests(req.endpoint)  BY <1>1, <1>3 DEF Ingests
    <2>2. Deserved(req.endpoint) = 200  BY <1>0, <1>3, <2>1, FirstRule, RuleAsks, RuleAnswers
    <2> QED  BY <1>0, <1>3, <2>2, MatchAnswer, StatusIs
  <1>4. CASE /\ e = "none" /\ req.endpoint # "info" /\ Same /\ req'.endpoint = req.endpoint
             /\ req'.info = gpkg /\ req'.at = IF req.at = "infoAgain" THEN "product" ELSE "infoData"
    <2>1. ~Has({"unreadable"})  BY <1>1, <1>4
    <2>2. req.at \in AtGpkg /\ req'.at \in {"product", "infoData"} /\ (req'.at = "product" <=> req.at = "infoAgain")
      BY <1>0, <1>4 DEF AtGpkg
    <2>3. req.at = "infoAgain" =>
             ~Has({"unreadable", "badInfo"}) /\ ~Faulty(1) /\ ~Faulty(2) /\ ~Faulty(3)
      BY DEF Matches
    <2> QED  BY <1>0, <1>4, <2>1, <2>2, <2>3, MatchGoes DEF AtGpkg
  <1> QED  BY <1>1, <1>2, <1>3, <1>4, InfoIs

(* The error of a check of validateGpkgFiles is what its fault deserves.   *)
LEMMA FaultAnswered ==
    ASSUME TypeOK, Matches, NEW k \in 1 .. 3, NEW e, e = CheckError(k, gpkg.defects), e # "none",
           req.at = <<"index", "grid", "tileSize">>[k], Answer(e)
    PROVE  Matches'
  <1>0. /\ req.at \in {"index", "grid", "tileSize"} /\ req.endpoint \in Endpoints \ {"info"}
        /\ ~Has({"missing"}) /\ ~Has({"unreadable", "badInfo"})
        /\ Ingests(req.endpoint) => \A f \in ShapeFiles : exists[f]
    BY DEF Matches, AtGpkg, TypeOK
  <1>1. \A i \in 1 .. 3 : i < k => ~Faulty(i)  BY DEF Matches
  <1>2. "missing" \notin gpkg.defects  BY <1>0 DEF Has
  <1>3. /\ Faulty(k) /\ e \in GpkgErrors \cup {"SqliteError"}
        /\ e = "SqliteError" <=> gpkg.defects \cap CheckDefects[k] \cap {"noContents", "noMatrix"} # {}
    BY <1>2, CheckErrorIs
  <1>4. Faults # {} /\ Min(Faults) = k  BY <1>1, <1>3, FirstFault
  <1>5. e = "SqliteError" <=> Unqueryable  BY <1>3, <1>4 DEF Unqueryable
  <1>6. Deserved(req.endpoint) =
           IF Unqueryable THEN 500
           ELSE CASE req.endpoint = "new" -> 500 [] req.endpoint = "update" -> 422 [] OTHER -> 200
    <2>1. CASE Unqueryable  BY <1>0, <1>4, <2>1, FirstRule, RuleAsks, RuleAnswers
    <2>2. CASE ~Unqueryable  BY <1>0, <1>4, <2>2, FirstRule, RuleAsks, RuleAnswers
    <2> QED  BY <2>1, <2>2
  <1>7. AnswerTo(req.endpoint, e).status = Deserved(req.endpoint)
    <2>1. CASE Unqueryable  BY <1>0, <1>5, <1>6, <2>1, StatusIs
    <2>2. CASE ~Unqueryable
      <3>1. e \in GpkgErrors  BY <1>3, <1>5, <2>2
      <3> QED  BY <1>0, <1>6, <2>2, <3>1, StatusIs DEF Endpoints
    <2> QED  BY <2>1, <2>2
  <1> QED  BY <1>7, MatchAnswer

(* The checks of the gpkg.                                                 *)
LEMMA MatchCheck ==
    ASSUME TypeOK, Matches, NEW e, NEW at \in Stages, Checks(e, at), Leads(e, at)
    PROVE  Matches'
  <1>0. /\ req.at \in AtGpkg /\ at \in AtGpkg \ {"gpkg"} /\ req.endpoint \in Endpoints
        /\ Ingests(req.endpoint) => \A f \in ShapeFiles : exists[f]
    BY DEF Checks, Matches, AtGpkg, TypeOK
  <1>1. CASE req.at = "gpkg"
    <2>1. e = (IF Has({"missing"}) THEN "FileNotFoundError" ELSE "none") /\ at = "gdalInfo" /\ ~Last
      BY <1>1 DEF Checks, Has, Last
    <2>2. CASE Has({"missing"})
      <3>1. Answer("FileNotFoundError")  BY <2>1, <2>2 DEF Leads
      <3>2. Deserved(req.endpoint) = 404  BY <1>0, <2>2, FirstRule, RuleAsks, RuleAnswers
      <3> QED  BY <1>0, <3>1, <3>2, MatchAnswer, StatusIs
    <2>3. CASE ~Has({"missing"})
      <3>1. Goes([req EXCEPT !.at = at])  BY <2>1, <2>3 DEF Leads
      <3> QED  BY <1>0, <2>1, <2>3, <3>1, GoesTo, MatchGoes
    <2> QED  BY <2>2, <2>3
  <1>2. CASE req.at = "infoData"
    <2>0. ~Has({"missing"}) /\ ~Has({"unreadable"}) /\ req.info = gpkg /\ req.endpoint # "info"
      BY <1>2 DEF Matches, AtGpkg
    <2>1. /\ e = IF Has({"unreadable", "badInfo"}) THEN "GdalInfoError" ELSE "none"
          /\ at = "index" /\ ~Last
      BY <1>2, <2>0 DEF Checks, Has, Last, validateInfoData
    <2>2. CASE Has({"unreadable", "badInfo"})
      <3>1. Answer("GdalInfoError")  BY <2>1, <2>2 DEF Leads
      <3>2. Deserved(req.endpoint) = IF Ingests(req.endpoint) THEN 422 ELSE 200
        BY <1>0, <2>0, <2>2, FirstRule, RuleAsks, RuleAnswers
      <3>3. AnswerTo(req.endpoint, "GdalInfoError").status =
               CASE req.endpoint = "info" -> 500 [] req.endpoint = "validate" -> 200 [] OTHER -> 422
        BY <1>0, StatusIs
      <3>4. req.endpoint = "validate" <=> ~Ingests(req.endpoint)  BY <1>0, <2>0 DEF Endpoints, Ingests
      <3>5. AnswerTo(req.endpoint, "GdalInfoError").status = Deserved(req.endpoint)
        BY <2>0, <3>2, <3>3, <3>4
      <3> QED  BY <3>1, <3>5, MatchAnswer
    <2>3. CASE ~Has({"unreadable", "badInfo"})
      <3>1. Goes([req EXCEPT !.at = at])  BY <2>1, <2>3 DEF Leads
      <3> QED  BY <1>0, <2>0, <2>1, <2>3, <3>1, GoesTo, MatchGoes
    <2> QED  BY <2>2, <2>3
  <1>3. ASSUME NEW k \in 1 .. 3, req.at = <<"index", "grid", "tileSize">>[k]  PROVE Matches'
    <2>0. /\ ~Has({"missing"}) /\ ~Has({"unreadable"}) /\ ~Has({"unreadable", "badInfo"})
          /\ req.info = gpkg /\ req.endpoint # "info" /\ "missing" \notin gpkg.defects
      BY <1>3 DEF Matches, AtGpkg, Has
    <2>1. e = CheckError(k, gpkg.defects) /\ at = <<"grid", "tileSize", "infoAgain">>[k]
      BY <1>3 DEF Checks, CheckError
    <2>2. CASE e # "none"
      <3>1. Answer(e)  BY <2>2 DEF Leads
      <3> QED  BY <1>3, <2>1, <2>2, <3>1, FaultAnswered
    <2>3. CASE e = "none"
      <3>1. ~Faulty(k)  BY <2>0, <2>1, <2>3, CheckErrorIs
      <3>2. /\ k >= 1 => ~Faulty(1)
            /\ k >= 2 => ~Faulty(2)
            /\ k >= 3 => ~Faulty(3)
        BY <1>3, <3>1 DEF Matches
      <3>3. CASE Last
        <4>1. k = 3 /\ req.endpoint = "validate" /\ Answer(e)  BY <1>3, <3>3 DEF Last, Leads
        <4>2. Faults = {}  BY <3>2, <4>1 DEF Faults
        <4>3. ~Ingests(req.endpoint)  BY <4>1 DEF Ingests
        <4>4. Deserved(req.endpoint) = 200
          BY <2>0, <4>1, <4>2, <4>3, FirstRule, RuleAsks, RuleAnswers
        <4> QED  BY <1>0, <2>3, <4>1, <4>4, MatchAnswer, StatusIs
      <3>4. CASE ~Last
        <4>1. Goes([req EXCEPT !.at = at])  BY <2>3, <3>4 DEF Leads
        <4>2. at = "infoAgain" => Ingests(req.endpoint)
          BY <1>0, <1>3, <2>0, <2>1, <3>4 DEF Last, Endpoints, Ingests
        <4>3. /\ at \in {"grid", "tileSize", "infoAgain"}
              /\ at \in {"tileSize", "infoAgain"} => k >= 2
              /\ at = "infoAgain" => k >= 3
          BY <2>1
        <4> QED  BY <1>0, <2>0, <3>2, <4>1, <4>2, <4>3, GoesTo, MatchGoes
      <3> QED  BY <3>3, <3>4
    <2> QED  BY <2>2, <2>3
  <1>4. <<"index", "grid", "tileSize">>[1] = "index" /\ <<"index", "grid", "tileSize">>[2] = "grid"
        /\ <<"index", "grid", "tileSize">>[3] = "tileSize" /\ 1 \in 1 .. 3 /\ 2 \in 1 .. 3 /\ 3 \in 1 .. 3
    OBVIOUS
  <1>5. req.at \in {"gpkg", "infoData", "index", "grid", "tileSize"}  BY DEF Checks
  <1> QED  BY <1>1, <1>2, <1>3, <1>4, <1>5

(* The last stage: the product and its footprint.                          *)
LEMMA MatchProduct ==
    ASSUME TypeOK, Matches, ValidateProduct
    PROVE  Matches'
  <1> DEFINE geo == GeoValidate(req.info.extent, product.polygons)
             e == Then(readProduct, geo)
             asks(i) == Rules(req.endpoint)[i][1]
  <1>0. req.at = "product" /\ req.endpoint \in Endpoints /\ Answer(e)  BY ProductIs DEF TypeOK
  <1>1. /\ ~Has({"missing"}) /\ ~Has({"unreadable", "badInfo"}) /\ Ingests(req.endpoint)
        /\ \A f \in ShapeFiles : exists[f]
        /\ ~Faulty(1) /\ ~Faulty(2) /\ ~Faulty(3) /\ req.info = gpkg
    BY <1>0 DEF Matches, AtGpkg
  <1>2. Faults = {} /\ exists[ProductFile] /\ req.endpoint \notin {"info", "validate"}
    BY <1>1, InputAssumption DEF Faults, Ingests
  <1>3. \A k \in 1 .. 7 : ~asks(k)  BY <1>1, <1>2, RuleAsks
  <1>4. \A x : hasFootprintCorrelation(x, product.polygons) <=> ~Outside(x)
    BY DEF hasFootprintCorrelation, Outside
  <1>5. geo = IF ~Outside(gpkg.extent) THEN "none"
              ELSE IF Buffered[gpkg.extent] = NoExtent THEN "UnsupportedEntityError"
              ELSE IF ~Outside(Buffered[gpkg.extent]) THEN "none" ELSE "ValidationError"
    BY <1>1, <1>4 DEF GeoValidate
  <1>6. AnswerTo(req.endpoint, e).status = Deserved(req.endpoint)
    <2> HIDE DEF geo
    <2>1. CASE product.kind = "unreadable"
      <3>1. e = "UnsupportedEntityError"  BY <1>2, <2>1 DEF readProduct, Then
      <3>2. Deserved(req.endpoint) = 422  BY <1>3, <2>1, FirstRule, RuleAsks, RuleAnswers
      <3> QED  BY <1>0, <3>1, <3>2, <1>1, StatusIs
    <2>2. CASE product.kind \in {"noFeatures", "invalid"}
      <3>1. e = "ValidationError"  BY <1>2, <2>2 DEF readProduct, Then
      <3>2. Deserved(req.endpoint) = 400  BY <1>3, <2>2, FirstRule, RuleAsks, RuleAnswers
      <3> QED  BY <1>0, <3>1, <3>2, <1>1, StatusIs
    <2>3. CASE product.kind \notin {"unreadable", "noFeatures", "invalid"}
      <3>1. e = geo  BY <1>2, <2>3 DEF readProduct, Then
      <3>2. \A k \in 1 .. 9 : ~asks(k)  BY <1>3, <2>3, RuleAsks
      <3> HIDE DEF e
      <3>3. CASE ~Outside(gpkg.extent)
        <4>1. Deserved(req.endpoint) = 200  BY <3>2, <3>3, FirstRule, RuleAsks, RuleAnswers
        <4> QED  BY <1>0, <1>5, <3>1, <3>3, <4>1, <1>1, StatusIs
      <3>4. CASE Outside(gpkg.extent) /\ Buffered[gpkg.extent] = NoExtent
        <4>1. Deserved(req.endpoint) = 422  BY <3>2, <3>4, FirstRule, RuleAsks, RuleAnswers
        <4> QED  BY <1>0, <1>5, <3>1, <3>4, <4>1, <1>1, StatusIs
      <3>5. CASE Outside(gpkg.extent) /\ Buffered[gpkg.extent] # NoExtent /\ Outside(Buffered[gpkg.extent])
        <4>1. Deserved(req.endpoint) = 400  BY <3>2, <3>5, FirstRule, RuleAsks, RuleAnswers
        <4> QED  BY <1>0, <1>5, <3>1, <3>5, <4>1, <1>1, StatusIs
      <3>6. CASE Outside(gpkg.extent) /\ Buffered[gpkg.extent] # NoExtent /\ ~Outside(Buffered[gpkg.extent])
        <4>1. Deserved(req.endpoint) = 200  BY <3>2, <3>6, FirstRule, RuleAsks, RuleAnswers
        <4> QED  BY <1>0, <1>5, <3>1, <3>6, <4>1, <1>1, StatusIs
      <3> QED  BY <3>3, <3>4, <3>5, <3>6
    <2> QED  BY <2>1, <2>2, <2>3
  <1> QED  BY <1>0, <1>6, MatchAnswer

(* The invariant is inductive.                                             *)
LEMMA MatchStep == MatchInv /\ [Next]_vars => MatchInv'
  <1> SUFFICES ASSUME MatchInv, [Next]_vars, touched' = 0  PROVE Matches'
    BY TypeStep DEF MatchInv
  <1>0. TypeOK  BY DEF MatchInv
  <1>1. ASSUME NEW endpoint \in Endpoints, Arrive(endpoint)  PROVE Matches'
    <2>1. /\ req'.endpoint = endpoint /\ ~req'.missing /\ UNCHANGED files
          /\ IF Ingests(endpoint) THEN req'.at = "shapefiles" /\ req'.pending = ShapeFiles
                                  ELSE req'.at = "gpkg"
      BY <1>1, ArriveIs
    <2>2. \A x : Ingests(x)' <=> Ingests(x)  BY DEF Ingests
    <2> QED  BY <2>1, <2>2 DEF Matches, AtGpkg
  <1>2. CASE Step
    <2>1. touched = 0
      <3>1. ASSUME NEW r, Goes(r)  PROVE touched' = touched  BY <3>1 DEF Goes
      <3>2. ASSUME NEW e, Answer(e)  PROVE touched' = touched  BY <3>2 DEF Answer, Goes
      <3>3. ASSUME NEW e, NEW at, Continue(e, at)  PROVE touched' = touched
        BY <3>1, <3>2, <3>3 DEF Continue
      <3>4. CASE \E f \in ShapeFiles : AccessShapeFile(f)  BY <1>0, <3>2, <3>4, AccessIs DEF Same
      <3>5. CASE GetInfoData  BY <1>0, <3>2, <3>5, InfoIs DEF Same
      <3>6. CASE ValidateProduct  BY <3>2, <3>6, ProductIs
      <3>7. CASE AccessGpkg \/ ValidateInfoData \/ ValidateGpkgIndex \/ ValidateGpkgGrid \/ ValidateTilesSize
        BY <3>1, <3>2, <3>7, CheckIs DEF Leads
      <3> QED  BY <1>2, <3>4, <3>5, <3>6, <3>7 DEF Step
    <2>2. Matches  BY <2>1 DEF MatchInv
    <2>3. ASSUME NEW e, NEW at, at \in Stages /\ Checks(e, at) /\ Leads(e, at)  PROVE Matches'
      BY <1>0, <2>2, <2>3, MatchCheck
    <2>4. CASE AccessGpkg \/ ValidateInfoData \/ ValidateGpkgIndex \/ ValidateGpkgGrid \/ ValidateTilesSize
      BY <2>3, <2>4, CheckIs
    <2> QED  BY <1>0, <1>2, <2>2, <2>4, MatchAccess, MatchInfo, MatchProduct DEF Step
  <1>3. CASE Touch
    <2>1. touched \in Nat /\ touched' = touched + 1  BY <1>0, <1>3, InputAssumption DEF TypeOK, Touch
    <2> QED  BY <2>1
  <1>4. CASE Forget
    <2>1. req'.at = "idle"  BY <1>4 DEF Forget, Goes, Idle
    <2> QED  BY <2>1 DEF Matches, AtGpkg
  <1>5. CASE UNCHANGED vars
    <2>1. req' = req /\ UNCHANGED files /\ touched' = touched  BY <1>5 DEF vars, files
    <2>2. Matches  BY <2>1 DEF MatchInv
    <2>3. gpkg' = gpkg /\ exists' = exists  BY <2>1 DEF files
    <2> QED  BY <2>1, <2>2, <2>3, SameFilesDeserve DEF Matches, AtGpkg, Ingests
  <1> QED  BY <1>1, <1>2, <1>3, <1>4, <1>5 DEF Next

(* Whatever the order in which the accesses finish and whatever is wrong   *)
(* at once: the status of an answer is the one the files deserve, when     *)
(* none of them changed meanwhile.                                         *)
THEOREM AnswersMatchTheFiles == Spec => []AnswerMatchesFiles
  <1>1. MatchInv => AnswerMatchesFiles  BY DEF MatchInv, Matches, AnswerMatchesFiles
  <1>2. Init => MatchInv
    <2>1. Init => req.at = "idle"  BY DEF Init, Idle
    <2> QED  BY <2>1, TypeInit DEF MatchInv, Matches, AtGpkg
  <1> QED  BY <1>1, <1>2, MatchStep, PTL DEF Spec
=============================================================================
