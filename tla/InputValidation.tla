---------------------------- MODULE InputValidation ----------------------------
(***************************************************************************)
(* The validation of the input files of one request: POST and PUT          *)
(* /ingestion up to the end of validateInputFiles, POST /validate/gpkgs    *)
(* and POST /info/gpkgs.  The files live on a shared mount: anybody may    *)
(* replace them between two awaits, and between two opens of a file by the *)
(* synchronous checks.  A file that is open stays what it was: a file is   *)
(* replaced, not written into.  Requests share nothing else here (the      *)
(* features field of ProductManager is the subject of ProductReader), so   *)
(* one request at a time is enough.  gpkgFilesPath has exactly one element *)
(* (minItems and maxItems of GpkgFilesPath, openapi3.yaml), so the loops   *)
(* over it run once.                                                       *)
(***************************************************************************)
EXTENDS Naturals, FiniteSetsExt

CONSTANTS
    ShapeFiles,      \* the files of the metadata and the product shapefiles
    ProductFile,     \* the one holding the product's features
    Cells,           \* the places extents and footprints are made of
    Buffered,        \* an extent enlarged by extentBufferInMeters, or NoExtent
    NoExtent,
    Contents,        \* contents of the gpkg
    ProductContents, \* contents of the product shapefile
    MaxTouches       \* bounds the changes of files during one request

Endpoints == {"new", "update", "validate", "info"}

Defects == {"missing",
            "unreadable",   \* GDAL cannot open it, or its info is not of the expected form
            "badInfo",      \* crs, format or pixel size not supported
            "noContents", "noMatrix",    \* gpkg_contents, gpkg_tile_matrix cannot be queried
            "manyTables",   \* not exactly one row in gpkg_contents
            "noUnique", "noManual",      \* no unique constraint, no index, on the tile columns
            "grid",         \* the matrix is not 2 x 1
            "mixedTiles", "tileSize"}    \* not exactly one tile size, a size not supported

ASSUME InputAssumption ==
    /\ MaxTouches \in Nat
    /\ ProductFile \in ShapeFiles
    /\ Contents \subseteq [defects : SUBSET Defects, extent : SUBSET Cells]
    /\ ProductContents \subseteq [kind : {"ok", "unreadable", "noFeatures", "invalid"},
                                  polygons : SUBSET SUBSET Cells]

VARIABLES
    gpkg,      \* the content of the gpkg
    product,   \* the content of the product shapefile
    exists,    \* which shapefile files exist
    req,       \* the request
    touched,   \* history: how often a file changed since the request arrived
    persistent \* history: the flaws the files have had ever since

files == <<gpkg, product, exists>>
vars == <<gpkg, product, exists, req, touched, persistent>>

-----------------------------------------------------------------------------
(* Errors.  "none" is no error; Then runs the next call if there was none. *)

Then(e, f) == IF e = "none" THEN f ELSE e

GpkgErrors == {"GpkgError", "InvalidIndexError", "UnsupportedGridError", "UnsupportedTileSizeError"}
UnsupportedEntityErrors == {"UnsupportedEntityError", "GdalInfoError"}

-----------------------------------------------------------------------------
(* SQLiteClient: the error each query of a gpkg with defects d ends in.    *)
(* handleError runs at every level an error passes, to the same effect.    *)

(* mutant: every error becomes a GpkgError                                 *)
handleErrorAlike(e) == "GpkgError"

handleError(e) == IF e = "SqliteError" THEN "SqliteError" ELSE "GpkgError"

getDB(d) == IF "missing" \in d THEN handleError("SqliteError") ELSE "none"

getGpkgTableName(d) ==
    CASE "noContents" \in d -> handleError("SqliteError")
      [] "noContents" \notin d /\ "manyTables" \in d -> handleError("Error")
      [] OTHER -> "none"

hasUniqueGpkgIndex(d) == "noUnique" \notin d
hasGpkgManualIndex(d) == "noManual" \notin d
isGpkgIndexExist(d) == hasUniqueGpkgIndex(d) \/ hasGpkgManualIndex(d)

getMatrixValues(d) == IF "noMatrix" \in d THEN handleError("SqliteError") ELSE "none"

getGrid(d) == Then(getDB(d), getMatrixValues(d))

getGpkgTileSize(d) ==
    Then(getDB(d), CASE "noMatrix" \in d -> handleError("SqliteError")
                     [] "noMatrix" \notin d /\ "mixedTiles" \in d -> handleError("Error")
                     [] OTHER -> "none")

(* GpkgManager                                                             *)
validateGpkgIndex(d) ==
    Then(getDB(d), Then(getGpkgTableName(d), IF isGpkgIndexExist(d) THEN "none" ELSE "InvalidIndexError"))
validateGpkgGrid(d) == Then(getGrid(d), IF "grid" \in d THEN "UnsupportedGridError" ELSE "none")
validateTilesSize(d) == Then(getGpkgTileSize(d), IF "tileSize" \in d THEN "UnsupportedTileSizeError" ELSE "none")

-----------------------------------------------------------------------------
(* GDAL info, product and geometry                                         *)

getInfoData(d) == IF d \cap {"missing", "unreadable"} # {} THEN "GdalInfoError" ELSE "none"

validateInfoData(info) == IF "badInfo" \in info.defects THEN "GdalInfoError" ELSE "none"

hasFootprintCorrelation(extent, polygons) == \A p \in polygons : p \subseteq extent

GeoValidate(extent, polygons) ==
    LET buffered == Buffered[extent] IN
    CASE hasFootprintCorrelation(extent, polygons) -> "none"
      [] ~hasFootprintCorrelation(extent, polygons) /\ buffered = NoExtent -> "UnsupportedEntityError"
      [] OTHER -> IF hasFootprintCorrelation(buffered, polygons) THEN "none" ELSE "ValidationError"

readProduct ==
    CASE ~exists[ProductFile] \/ product.kind = "unreadable" -> "UnsupportedEntityError"
      [] exists[ProductFile] /\ product.kind \in {"noFeatures", "invalid"} -> "ValidationError"
      [] OTHER -> "none"

-----------------------------------------------------------------------------
(* The answers: the controllers set the status of the errors they know,    *)
(* and the error middleware answers 500 to an error without a status.      *)

Answers == [status : {200, 400, 404, 422, 500}, valid : BOOLEAN]

NewLayerStatus(e) ==
    CASE e = "none" -> 200
      [] e = "ValidationError" -> 400
      [] e = "FileNotFoundError" -> 404
      [] e \in UnsupportedEntityErrors -> 422
      [] OTHER -> 500

UpdateLayerStatus(e) == IF e \in GpkgErrors THEN 422 ELSE NewLayerStatus(e)

(* mutant: an error without a status has no default                        *)
OwnStatusOnly(e) ==
    CASE e = "none" -> 200
      [] e = "FileNotFoundError" -> 404
      [] OTHER -> 0

(* A FileNotFoundError has the status 404 of its own.                      *)
OwnStatus(e) ==
    CASE e = "none" -> 200
      [] e = "FileNotFoundError" -> 404
      [] OTHER -> 500

(* validateGpkgs answers 200 and isValid false to the errors of the files. *)
ValidateGpkgsStatus(e) == IF e \in GpkgErrors \cup {"GdalInfoError"} THEN 200 ELSE OwnStatus(e)

AnswerTo(endpoint, e) ==
    [status |-> CASE endpoint = "new" -> NewLayerStatus(e)
                  [] endpoint = "update" -> UpdateLayerStatus(e)
                  [] endpoint = "validate" -> ValidateGpkgsStatus(e)
                  [] endpoint = "info" -> OwnStatus(e),
     valid |-> e = "none"]

-----------------------------------------------------------------------------
(* The request                                                             *)

Stages == {"idle", "shapefiles", "gpkg", "gdalInfo", "infoData", "index", "grid", "tileSize",
           "infoAgain", "product", "answered"}

NoContent == [defects |-> {}, extent |-> {}]
NoAnswer == [status |-> 200, valid |-> FALSE]
Idle == [endpoint |-> "info", at |-> "idle", pending |-> {}, missing |-> FALSE,
         info |-> NoContent, answer |-> NoAnswer]

TypeOK ==
    /\ gpkg \in Contents /\ product \in ProductContents
    /\ exists \in [ShapeFiles -> BOOLEAN]
    /\ req \in [endpoint : Endpoints, at : Stages, pending : SUBSET ShapeFiles,
                missing : BOOLEAN, info : Contents \cup {NoContent}, answer : Answers]
    /\ req.at = "shapefiles" <=> req.pending # {}
    /\ touched \in 0 .. MaxTouches
    /\ persistent \subseteq {"gpkg", "shapefile", "product"} \X
                            (Defects \cup {"noIndex", "noFeatures", "invalid"} \cup ShapeFiles)

(* What is wrong with the files.  An index of one kind or the other is     *)
(* enough.                                                                 *)
Flaws(content, prod, present) ==
    {<<"gpkg", d>> : d \in content.defects \ {"noUnique", "noManual"}} \cup
    {<<"gpkg", d>> : d \in IF {"noUnique", "noManual"} \subseteq content.defects THEN {"noIndex"} ELSE {}} \cup
    {<<"shapefile", f>> : f \in {s \in ShapeFiles : ~present[s]}} \cup
    {<<"product", k>> : k \in {prod.kind} \ {"ok"}}

Init ==
    /\ gpkg \in Contents /\ product \in ProductContents
    /\ exists = [f \in ShapeFiles |-> TRUE]
    /\ req = Idle
    /\ touched = 0 /\ persistent = {}

Goes(r) == req' = r /\ UNCHANGED <<gpkg, product, exists, touched, persistent>>

Answer(e) == Goes([req EXCEPT !.at = "answered", !.pending = {}, !.answer = AnswerTo(req.endpoint, e)])

Continue(e, at) == IF e = "none" THEN Goes([req EXCEPT !.at = at]) ELSE Answer(e)

Arrive(endpoint) ==
    /\ req.at = "idle"
    /\ req' = IF endpoint \in {"new", "update"}
              THEN [Idle EXCEPT !.endpoint = endpoint, !.at = "shapefiles", !.pending = ShapeFiles]
              ELSE [Idle EXCEPT !.endpoint = endpoint, !.at = "gpkg"]
    /\ touched' = 0 /\ persistent' = Flaws(gpkg, product, exists)
    /\ UNCHANGED files

(* mutant: only the file accessed last counts                              *)
AccessShapeFileLast(f) ==
    /\ req.at = "shapefiles" /\ f \in req.pending
    /\ CASE req.pending # {f} -> Goes([req EXCEPT !.pending = @ \ {f}])
         [] req.pending = {f} /\ ~exists[f] -> Answer("FileNotFoundError")
         [] OTHER -> Goes([req EXCEPT !.at = "gpkg", !.pending = {}])

(* validateFilesExist: every file is accessed (Promise.allSettled), then   *)
(* the missing ones are reported together.                                 *)
AccessShapeFile(f) ==
    /\ req.at = "shapefiles" /\ f \in req.pending
    /\ LET missing == req.missing \/ ~exists[f] IN
       CASE req.pending # {f} -> Goes([req EXCEPT !.pending = @ \ {f}, !.missing = missing])
         [] req.pending = {f} /\ missing -> Answer("FileNotFoundError")
         [] OTHER -> Goes([req EXCEPT !.at = "gpkg", !.pending = {}])

AccessGpkg ==
    /\ req.at = "gpkg"
    /\ Continue(IF "missing" \in gpkg.defects THEN "FileNotFoundError" ELSE "none", "gdalInfo")

(* getInfoData: POST /info/gpkgs answers what GDAL says.  The others check *)
(* it, and POST and PUT /ingestion read it once more for the footprint.    *)
GetInfoData ==
    /\ req.at \in {"gdalInfo", "infoAgain"}
    /\ LET e == getInfoData(gpkg.defects) IN
       IF e # "none" \/ req.endpoint = "info"
       THEN Answer(e)
       ELSE Goes([req EXCEPT !.info = gpkg,
                             !.at = IF req.at = "infoAgain" THEN "product" ELSE "infoData"])

ValidateInfoData == req.at = "infoData" /\ Continue(validateInfoData(req.info), "index")

(* validateGpkgFiles: each check opens the file anew.                      *)
ValidateGpkgIndex == req.at = "index" /\ Continue(validateGpkgIndex(gpkg.defects), "grid")
ValidateGpkgGrid == req.at = "grid" /\ Continue(validateGpkgGrid(gpkg.defects), "tileSize")

ValidateTilesSize ==
    /\ req.at = "tileSize"
    /\ LET e == validateTilesSize(gpkg.defects) IN
       IF req.endpoint = "validate" THEN Answer(e) ELSE Continue(e, "infoAgain")

(* ProductManager.read, then GeoValidator.validate in the same turn.  With *)
(* no error the request goes on in IngestionManager.                       *)
ValidateProduct ==
    /\ req.at = "product"
    /\ Answer(Then(readProduct, GeoValidate(req.info.extent, product.polygons)))

Forget == req.at = "answered" /\ Goes(Idle)

Step ==
    \/ \E f \in ShapeFiles : AccessShapeFile(f)
    \/ AccessGpkg
    \/ GetInfoData
    \/ ValidateInfoData
    \/ ValidateGpkgIndex
    \/ ValidateGpkgGrid
    \/ ValidateTilesSize
    \/ ValidateProduct

(* The files change while the request is being handled.                    *)
Touch ==
    /\ req.at \notin {"idle", "answered"} /\ touched < MaxTouches
    /\ \/ \E c \in Contents \ {gpkg} : gpkg' = c /\ UNCHANGED <<product, exists>>
       \/ \E c \in ProductContents \ {product} : product' = c /\ UNCHANGED <<gpkg, exists>>
       \/ \E f \in ShapeFiles : exists' = [exists EXCEPT ![f] = ~@] /\ UNCHANGED <<gpkg, product>>
    /\ touched' = touched + 1
    /\ persistent' = persistent \cap Flaws(gpkg', product', exists')
    /\ UNCHANGED req

Next == (\E endpoint \in Endpoints : Arrive(endpoint)) \/ Step \/ Touch \/ Forget

Spec == Init /\ [][Next]_vars

-----------------------------------------------------------------------------
(* Properties                                                              *)

(* What the files deserve: the earliest stage that finds fault decides,    *)
(* and within validateGpkgFiles the earliest check.                        *)
CheckDefects == <<{"missing", "noContents", "manyTables", "noUnique", "noManual"},
                  {"missing", "noMatrix", "grid"},
                  {"missing", "noMatrix", "mixedTiles", "tileSize"}>>

Faulty(k) ==
    LET found == gpkg.defects \cap CheckDefects[k] IN
    found # {} /\ ~(k = 1 /\ found \in {{"noUnique"}, {"noManual"}})

Faults == {k \in 1 .. 3 : Faulty(k)}

(* The first fault is that of a table that cannot be queried.              *)
Unqueryable == gpkg.defects \cap CheckDefects[Min(Faults)] \cap {"noContents", "noMatrix"} # {}

Has(defects) == gpkg.defects \cap defects # {}
Ingests(endpoint) == endpoint \in {"new", "update"}
Outside(extent) == (UNION product.polygons) \ extent # {}

(* The first that applies decides.                                         *)
Rules(endpoint) == <<
    <<Ingests(endpoint) /\ \E f \in ShapeFiles : ~exists[f], 404>>,
    <<Has({"missing"}), 404>>,
    <<endpoint = "info", IF Has({"unreadable"}) THEN 500 ELSE 200>>,
    <<Has({"unreadable", "badInfo"}), IF Ingests(endpoint) THEN 422 ELSE 200>>,
    <<Faults # {} /\ Unqueryable, 500>>,
    <<Faults # {}, CASE endpoint = "new" -> 500 [] endpoint = "update" -> 422 [] OTHER -> 200>>,
    <<endpoint = "validate", 200>>,
    <<product.kind = "unreadable", 422>>,
    <<product.kind \in {"noFeatures", "invalid"}, 400>>,
    <<~Outside(gpkg.extent), 200>>,
    <<Buffered[gpkg.extent] = NoExtent, 422>>,
    <<Buffered[gpkg.extent] # NoExtent /\ Outside(Buffered[gpkg.extent]), 400>>,
    <<TRUE, 200>> >>

Deserved(endpoint) ==
    Rules(endpoint)[Min({i \in DOMAIN Rules(endpoint) : Rules(endpoint)[i][1]})][2]

(* When no file changed under it, a request's status is a function of the  *)
(* files: neither the order in which the accesses finish nor the number of *)
(* things wrong at once makes a caller see now 404, now 422, now 500.      *)
AnswerMatchesFiles ==
    req.at = "answered" /\ touched = 0 => req.answer.status = Deserved(req.endpoint)

(* The flaws an endpoint is to find.                                       *)
Sought(endpoint) ==
    CASE endpoint = "info" -> {<<"gpkg", "missing">>, <<"gpkg", "unreadable">>}
      [] endpoint = "validate" -> {"gpkg"} \X (Defects \cup {"noIndex"})
      [] OTHER -> {"gpkg", "shapefile", "product"} \X
                  (Defects \cup {"noIndex", "noFeatures", "invalid"} \cup ShapeFiles)

(* The checks open the files one after the other, and what they open may   *)
(* be replaced in between, so a request may be found valid whose files     *)
(* were never sound at one instant.  But a flaw they have had at every     *)
(* instant of the request is found.                                        *)
PersistentFlawsFound ==
    req.at = "answered" /\ req.answer.valid => persistent \cap Sought(req.endpoint) = {}
=============================================================================
