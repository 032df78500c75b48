CONSTANTS
    c1 = c1
    c2 = c2
    j1 = j1
    j2 = j2
    None = None
    Client = {c1, c2}
    JailNames = {j1}
    Ops <- BothStart
    SelfEnding = {j1}
    MaxRequests = 3
    MaxEdits = 1
SPECIFICATION FairSpec
CHECK_DEADLOCK FALSE
INVARIANTS TypeOK OneJailPerName RunningIsListed ReloadTakesEffect
PROPERTY RequestsEnd
