CONSTANTS
    j1 = j1
    j2 = j2
    h1 = h1
    h2 = h2
    Jail = {j1, j2}
    Host = {h1}
    BanTime <- MCBanTime
    MaxAge = 1
    MaxTime = 3
SPECIFICATION Spec
INVARIANTS TypeOK OneCurrentBanPerHost CurrentIsMostRecent IndexIsBacked
PROPERTY CallsAreAtomic
SYMMETRY Symmetry
