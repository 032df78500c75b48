CONSTANTS
    h1 = h1
    h2 = h2
    m1 = m1
    None = None
    Host = {h1, h2}
    Mlfid = {m1}
    MaxRetry = 2
    FindTime = 1
    Ignored = {}
    HasIgnoreCommand = TRUE
    MaxTime = 2
    MaxFailures = 4
    MaxCount = 1
    MaxAge = 1
    MaxChanges = 1
SYMMETRY HostsAlike
SPECIFICATION CheckSpec
INVARIANTS CheckTypeOK BanIsJustified
PROPERTIES NoMissedBan DecisionsAreFresh
