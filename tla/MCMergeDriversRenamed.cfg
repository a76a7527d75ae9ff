CONSTANTS
    None = None
    Line = {x, y, z}
    Field <- CsvFields
    MaxLines = 1
    TextFile <- SmallText
    EnvFile <- SmallEnv
    JsonValue <- Values
    JsonDepth <- DepthOf
    JsonFile <- SmallJson
    CsvFile <- RenamedCsv
    Files <- CsvFiles
SPECIFICATION Spec
INVARIANTS
    DroppedUnchanged
CHECK_DEADLOCK FALSE
