CONSTANTS
    c1 = c1
    c2 = c2
    j1 = j1
    j2 = j2
    None = None
    Client = {c1}
    JailNames = {j1}
    Ops <- StartStop
    SelfEnding = {}
    MaxRequests = 2
    MaxEdits = 0
SPECIFICATION FairSpec
CHECK_DEADLOCK FALSE
PROPERTY RequestsEnd
