CONSTANTS
    Products = {p1}
    Jobs = {j1, j2}
    Handlers = {"A", "B"}
    Serves <- Admissions
    ShapeFiles = {shp}
    MaxEdits = 1
    Summaries <- OnlyClean
    ErrorTypes <- MCErrorTypes
    ThresholdTypes <- MCThresholdTypes
    AllowedLists <- MCAllowedLists
    Faults = {}
    NoJob = NoJob
    NoSummary = NoSummary
    NotApproved = NotApproved
SYMMETRY JobSymmetry
SPECIFICATION Spec
INVARIANTS SingleActiveJob
