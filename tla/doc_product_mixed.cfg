CONSTANTS
    Readers = {r1, r2}
    Features <- MCFeatures
    Files <- MCFiles
    Invalid = Invalid
SPECIFICATION Spec
INVARIANTS ReturnsOwnProduct
