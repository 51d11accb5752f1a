SPECIFICATION Spec
CONSTANTS
    j1 = j1
    j2 = j2
    j3 = j3
    NoJob = NoJob
    Jobs = {j1, j2, j3}
    DataJobs = {j3}
    Limits = {0, 1}
    MaxRedirects = 1
    MaxTries = 0
    HarmfulSiteFilter = TRUE
    RedirectInWKC = TRUE
    ProxyChanges = TRUE
    WebSockets = FALSE
INVARIANTS TypeOK OneList MultiMatchesList ReachableIsHeld TimerArmed SingleConnection
PROPERTY CancelledNeverSent
SYMMETRY JobSymmetry
