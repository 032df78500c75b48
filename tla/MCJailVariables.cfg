CONSTANTS
    None = None
    Unset = Unset
    MaxDepth = 3
    SearchDirs <- TheSearchDirs
    ConfFiles <- TheConfFiles
    LocalFiles <- NoFiles
    GlobalFiles <- NoFiles
    Builtins <- TheBuiltins
    JailDefaults <- TheJailDefaults
    KeyType <- TheKeyType
    Bools <- TheBools
    Nums <- TheNums
    Times <- TheTimes
    Unreadable <- TheUnreadable
    Specs <- TheSpecs
    Width = 8
    LongestBan = 100
    Trees <- TheTrees
    Menu <- TheMenu
    MaxEdits = 1
    MaxBans = 1
SPECIFICATION Spec
CHECK_DEADLOCK FALSE
INVARIANT JailVariablesWork
