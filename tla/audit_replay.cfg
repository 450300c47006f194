SPECIFICATION AuditSpec
CONSTANTS
    s1 = s1  s2 = s2
    r1 = r1
    old = old  new = new
    NoVersion = NoVersion
    Server <- MCServer
    Region = {r1}
    RegionOf <- MCRegionOf
    Version = {old, new}
    Source = old
    Target = new
    Percent <- MCPercent
    InitialRecords <- MCInitialRecords
    Governed = TRUE
    Quarantining = TRUE
    MaxHealthRetries = 0
    MaxInjections = 0
    MaxLost = 0
    MaxFaults = 1
SYMMETRY MCSymmetry
INVARIANTS
    LineageSound
    TimelineCausal
    ReplayNow
    HistoryStable
