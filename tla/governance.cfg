SPECIFICATION Spec
CONSTANTS
    s1 = s1  s2 = s2  s3 = s3
    east = east  west = west
    Server = {s1, s2}
    Region = {east, west}
    RegionOf <- RegionOfTwo
    CriticalRegion = {east, west}
    StrictRegion = {east}
    ProgressThreshold = 75
    AutoApproveBelow = "HIGH"
    Callback = TRUE
    MaxQuarantinedRegions = 1
    MaxRecoveryAttempts = 1
    MaxRecentRollbacks = 1
    Stages = 2
    MaxDeployments = 2
    MaxChanges = 2
    MaxLost = 1
INVARIANTS
    StrictestWins
    NoUnattendedRisk
    SickNeverAllowed
PROPERTY
    RiskMonotone
