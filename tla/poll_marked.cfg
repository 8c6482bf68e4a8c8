\* "5. Clean up clients marked for disconnection": one client of two may quit
\* or shut down its sending side.
CONSTANTS
    f1 = f1
    f2 = f2
    Fd = {f1, f2}
    Listen = listen
    Quitter = {f1}
    HalfCloser = {f1}
    Breaker = {}
    MaxBacklog = 1
    MaxRx = 1
    MaxTx = 1
    MaxOut = 1
SPECIFICATION FairSpec
PROPERTY
    MarkedAreRemoved
