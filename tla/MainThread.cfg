SPECIFICATION FairSpec
CONSTANTS
    Main = Main
    t1 = t1
    t2 = t2
    k1 = k1
    k2 = k2
    Workers = {t1, t2}
    Keys = {k1}
    MaxCalls = 3
    MaxDepth = 2
INVARIANTS
    NoLostDispatch
PROPERTIES
    CallsEnd
    ImplementsCallOrder
