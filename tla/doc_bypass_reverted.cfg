CONSTANTS
    Products = {p1}
    Jobs = {j1, j2}
    Handlers = {"A"}
    Serves <- OneAtATime
    ShapeFiles = {shp}
    MaxEdits = 2
    Summaries <- MCSummaries
    ErrorTypes <- MCErrorTypes
    ThresholdTypes <- MCThresholdTypes
    AllowedLists <- MCAllowedLists
    Faults = {"revert"}
    NoJob = NoJob
    NoSummary = NoSummary
    NotApproved = NotApproved
SYMMETRY JobSymmetry
SPECIFICATION Spec
INVARIANTS BypassOnValidatedContent
