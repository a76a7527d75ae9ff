CONSTANTS
    None = None
    Line = {x, y, z}
    Field <- CsvFields
    MaxLines = 1
    TextFile <- SmallText
    EnvFile <- SmallEnv
    JsonValue <- Values
    JsonDepth <- DepthOf
    JsonFile <- SmallJson
    CsvFile <- SmallCsv
    Files <- StoredFiles
SPECIFICATION Spec
INVARIANTS
    SameDriver
CHECK_DEADLOCK FALSE
