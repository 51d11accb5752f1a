SPECIFICATION FairSpec
CONSTANTS
    k1 = k1
    k2 = k2
    v1 = v1
    v2 = v2
    Null = Null
    Same = Same
    Keys = {k1, k2}
    Values = {v1}
    MaxItems = 1
    MaxChanges = 4
    MaxCrashes = 1
INVARIANTS
    ClosedIsSaved
    Recoverable
    Accounted
PROPERTIES
    ChangesAreTaken
    CloseEnds
