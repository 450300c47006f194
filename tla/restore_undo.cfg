SPECIFICATION Spec
CONSTANTS
    s1 = s1  s2 = s2
    r1 = r1  r2 = r2
    old = old  new = new
    NoVersion = NoVersion
    Version = {old, new}
    Server = {s1, s2}
    Region = {r1, r2}
    RegionOf <- MCRegionOf
    Target = new
    InitialRecords <- MCInitialRecords
    BatchSize = 1
    MaxCalls = 4
    MaxWrites = 1
INVARIANT
    FailedRestoreHarmless
