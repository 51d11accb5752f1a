SPECIFICATION Spec
CONSTANTS
    v1 = v1
    v2 = v2
    c1 = c1
    c2 = c2
    NoView = NoView
    NoConn = NoConn
    Views = {v1, v2}
    Conns = {c1, c2}
    MaxPage = 3
    MaxRequests = 1
SYMMETRY Interchangeable
INVARIANTS
    MapsMatch
    RegisteredIsKnown
    ConnectedIsTold
    HandleTimerArmed
