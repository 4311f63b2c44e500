CONSTANTS
    Products = {p1}
    Jobs = {j1, j2, j3}
    Handlers = {"A"}
    Serves <- NoBypass
    ShapeFiles = {shp}
    MaxEdits = 1
    Summaries <- OnlyClean
    ErrorTypes <- MCErrorTypes
    ThresholdTypes <- MCThresholdTypes
    AllowedLists <- MCAllowedLists
    Faults = {"clean"}
    NoJob = NoJob
    NoSummary = NoSummary
    NotApproved = NotApproved
SYMMETRY JobSymmetry
SPECIFICATION Spec
INVARIANTS SingleActiveJob AdmissionSound ValidJobHasEntity
PROPERTIES CatalogNeverRegresses ImplementsJobLifecycle
