CONSTANTS
    h1 = h1
    h2 = h2
    a1 = a1
    a2 = a2
    None = None
    JailName = "sshd"
    Host = {h1}
    Action = {a1, a2}
    FlushAction = {a1}
    OnDemand = FALSE
    RuleBag = TRUE
    ActionsMayFail = FALSE
    Ops = {"unban", "unbanip", "banip", "unban_all", "start_all", "start_all_again"}
    QuietRestore = FALSE
    BanSecs = 2
    Factor = 1
    QueueCap = 1
    MaxTime = 3
    MaxBans = 2
SPECIFICATION FairSpec
INVARIANTS TypeOK NoOrphanRule BannedIsBlocked
PROPERTIES BansEnd MutexReleased
