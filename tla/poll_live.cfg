\* What must happen in the end: two clients, which may break off and come back.
CONSTANTS
    f1 = f1
    f2 = f2
    Fd = {f1, f2}
    Listen = listen
    Quitter = {}
    HalfCloser = {}
    Breaker = {f1, f2}
    MaxBacklog = 1
    MaxRx = 1
    MaxTx = 1
    MaxOut = 1
SPECIFICATION FairSpec
PROPERTIES
    CommandsAreRead
    BrokenAreRemoved
    PolloutIsDropped
