CONSTANTS
    None = None
    Line = {x, y, z}
    Field <- CsvFields
    MaxLines = 3
    TextFile <- SmallText
    EnvFile <- SmallEnv
    JsonValue <- Values
    JsonDepth <- DepthOf
    JsonFile <- SmallJson
    CsvFile <- SmallCsv
    Files <- SomeFiles
SPECIFICATION Spec
INVARIANTS
    SameFromBothSides
    LinesAddUp
    OneSided
    PanicIsOverlap
    JsonLeavesMerged
    EnvKeysMerged
    CsvCellsMerged
CHECK_DEADLOCK FALSE
