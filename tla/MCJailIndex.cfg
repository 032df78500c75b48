CONSTANTS
    h1 = h1
    h2 = h2
    a1 = a1
    a2 = a2
    None = None
    JailName = "sshd"
    Host = {h1, h2}
    Action = {a1}
    FlushAction = {a1}
    OnDemand = FALSE
    RuleBag = FALSE
    ActionsMayFail = TRUE
    Ops = {"unbanip", "stop", "crash", "start_all"}
    QuietRestore = TRUE
    BanSecs = 2
    Factor = 1
    QueueCap = 2
    MaxTime = 3
    MaxBans = 2
SPECIFICATION Spec
INVARIANTS NoOrphanRule BannedIsBlocked StopCleans IndexAgrees RuleHasRecord
