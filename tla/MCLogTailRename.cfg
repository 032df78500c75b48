CONSTANTS
    None = None
    Rotations = {"rename"}
    TornWrites = FALSE
    Undecodable = {}
    MaxLines = 2
    MaxRotations = 1
    BufLines = 1
    Capacity = 1
    Failing = {}
    Pairs = {}
    Ignorable = {}
SPECIFICATION PipelineSpec
CHECK_DEADLOCK FALSE
PROPERTY RotationFollowed
