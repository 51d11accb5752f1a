SPECIFICATION Spec
CONSTANTS
    j1 = j1
    j2 = j2
    p1 = p1
    s1 = s1
    s2 = s2
    a = a
    b = b
    c = c
    x = x
    y = y
    r1 = r1
    r2 = r2
    NTLM = NTLM
    Digest = Digest
    Basic = Basic
    Default = Default
    None = None
    Jobs = {j1, j2}
    Urls <- Sites
    Proxies = {p1}
    Answers = {s1}
    MaxRedirects = 1
SYMMETRY Interchangeable
CHECK_DEADLOCK FALSE
INVARIANTS
    EntriesDistinct
    CredentialOfHost
    RepeatsByItselfOnce
