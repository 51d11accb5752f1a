SPECIFICATION FairDOMSpec
CONSTANTS
    NoDoc = NoDoc
    t1 = t1
    t2 = t2
    t3 = t3
    p1 = p1
    p2 = p2
    d1 = d1
    d2 = d2
    d3 = d3
    ScriptTimers = {t1, t2}
    Pages = {p1, p2}
    Docs = {d1, d2, d3}
    PageOf <- MCPageOf
    MaxDialogs = 2
INVARIANTS
    NeverLost
    QuietBeneathDialog
    HiddenWhileHidden
PROPERTIES
    ReadyTimersFire
