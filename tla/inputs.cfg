CONSTANTS
    ShapeFiles = {metadata, product}
    ProductFile = product
    Cells <- MCCells
    Buffered <- MCBuffered
    NoExtent = NoExtent
    Contents <- MCContents
    ProductContents <- MCProducts
    MaxTouches = 3
SPECIFICATION Spec
INVARIANTS TypeOK AnswerMatchesFiles PersistentFlawsFound
