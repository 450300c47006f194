SPECIFICATION FairSpec
CONSTANTS
    s1 = s1  s2 = s2  s3 = s3
    r1 = r1  r2 = r2
    old = old  odd = odd  new = new
    NoVersion = NoVersion
    Server = {s1, s2, s3}
    Region = {r1, r2}
    RegionOf <- MCRegionOf
    Version = {old, odd, new}
    Target = new
    Percent <- MCPercent
    InitialRecords <- MCFreshRecords
    Governed = FALSE
    Quarantining = TRUE
    MaxHealthRetries = 1
    MaxInjections = 1
    MaxLost = 1
INVARIANTS
    CompletedCovers
PROPERTIES
    Termination
