SPECIFICATION Spec
CONSTANTS
    s1 = s1  s2 = s2
    Server = {s1, s2}
    MaxRollouts = 2
    MaxResets = 1
INVARIANTS
    OneAtATime
    NoStrayAbort
    OnLiveCluster
    ManualCovers
PROPERTY
    Responsive
\* Nobody has to call the API.
CHECK_DEADLOCK FALSE
