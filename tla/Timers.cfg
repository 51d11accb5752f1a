SPECIFICATION FairSpec
CONSTANTS
    NoTimer = NoTimer
    t1 = t1
    t2 = t2
    t3 = t3
    Timers = {t1, t2, t3}
    Delays = {0,2}
    Repeats = {0,2}
    Unit = 2
    Limit = 0
    Width = 4
    FirstOrder = 14
    MaxSets = 3
    MaxNow = 3
    MaxDepth = 2
INVARIANTS
    HeapIsValid
    FirstIsScheduled
PROPERTIES
    FiresInOrder
    TimersFire
