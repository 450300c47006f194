SPECIFICATION FairSpec
CONSTANTS
    s1 = s1  s2 = s2
    c1 = c1  c2 = c2
    old = old  new = new
    NoVersion = NoVersion
    Version = {old, new}
    Server = {s1, s2}
    Caller = {c1, c2}
    Target = new
    Source = old
    MaxChanges = 1
INVARIANTS
    RolledBackTrue
    ReportTrue
PROPERTIES
    NoDoubleFlip
    Progress
