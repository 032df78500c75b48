CONSTANTS
    None = None
    Rotations = {"rename", "truncate"}
    TornWrites = TRUE
    Undecodable = {2}
    MaxLines = 5
    MaxRotations = 1
    BufLines = 2
    Capacity = 1
    Failing = {5}
    Pairs = {3}
    Ignorable = {1}
SPECIFICATION PipelineSpec
CHECK_DEADLOCK FALSE
INVARIANTS PipelineTypeOK OnceInOrder DatesAreClose
PROPERTIES LinesArrive FailureCounted
