CONSTANTS
    Products = {p1}
    Jobs = {j1, j2}
    Handlers = {"A"}
    Serves <- OneAtATime
    ShapeFiles = {shp}
    MaxEdits = 2
    Summaries <- MCSummaries
    ErrorTypes <- MCErrorTypes
    ThresholdTypes <- MCThresholdTypes
    AllowedLists <- MCAllowedLists
    Faults = {"callFails", "lostReply", "crash"}
    NoJob = NoJob
    NoSummary = NoSummary
    NotApproved = NotApproved
SYMMETRY JobSymmetry
SPECIFICATION Spec
INVARIANTS TypeOK WedgedHasCause ValidJobHasEntity AbortSparesFinalizing
PROPERTIES ImplementsJobLifecycle LateRefusalsAreRelayed SuccessMeansDone
