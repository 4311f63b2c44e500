CONSTANTS
    Products = {p1}
    Jobs = {j1, j2}
    Handlers = {"A", "B"}
    Serves <- Overlaps
    ShapeFiles = {shp}
    MaxEdits = 1
    Summaries <- FewSummaries
    ErrorTypes <- MCErrorTypes
    ThresholdTypes <- MCThresholdTypes
    AllowedLists <- MCAllowedLists
    Faults = {}
    NoJob = NoJob
    NoSummary = NoSummary
    NotApproved = NotApproved
SYMMETRY JobSymmetry
SPECIFICATION Spec
PROPERTIES AbortedStaysAborted
