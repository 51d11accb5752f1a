SPECIFICATION FairSpec
CONSTANTS
    j1 = j1
    j2 = j2
    j3 = j3
    NoJob = NoJob
    Jobs = {j1, j2}
    DataJobs = {}
    Limits = {1}
    MaxRedirects = 1
    MaxTries = 1
    HarmfulSiteFilter = FALSE
    RedirectInWKC = TRUE
    ProxyChanges = FALSE
    WebSockets = TRUE
PROPERTIES CookiesCleared
