CONSTANTS
    Products = {p1}
    Jobs = {j1}
    Handlers = {"A", "B"}
    Serves <- Overlaps
    ShapeFiles = {shp}
    MaxEdits = 2
    Summaries <- MCSummaries
    ErrorTypes <- MCErrorTypes
    ThresholdTypes <- MCThresholdTypes
    AllowedLists <- MCAllowedLists
    Faults = {}
    NoJob = NoJob
    NoSummary = NoSummary
    NotApproved = NotApproved
SPECIFICATION Spec
INVARIANTS ValidWithinThresholds
