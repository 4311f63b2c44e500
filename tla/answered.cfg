CONSTANTS
    Products = {p1}
    Jobs = {j1}
    Handlers = {"A", "B"}
    Serves <- Overlaps
    ShapeFiles = {shp}
    MaxEdits = 1
    Summaries <- FewSummaries
    ErrorTypes <- MCErrorTypes
    ThresholdTypes <- MCThresholdTypes
    AllowedLists <- MCAllowedLists
    Faults = {"crash", "expire", "clean"}
    NoJob = NoJob
    NoSummary = NoSummary
    NotApproved = NotApproved
SPECIFICATION FairSpec
PROPERTIES RequestsAnswered ImplementsCheckThenAct
