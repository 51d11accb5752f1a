SPECIFICATION FairSpec
CONSTANTS
    h1 = h1
    h2 = h2
    h3 = h3
    hostA = hostA
    hostB = hostB
    Handles <- MCHandles
    Hosts <- MCHosts
    HostOf <- MCHostOf
    Limits <- MCLimits
INVARIANTS SlotsBacked OneHandshakePerHost TimerArmed ClosedIsTold
PROPERTIES ConnectingEnds
