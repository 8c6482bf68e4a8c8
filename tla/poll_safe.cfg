\* The tables at every step of the loop: two clients that do all that clients do.
CONSTANTS
    f1 = f1
    f2 = f2
    Fd = {f1, f2}
    Listen = listen
    Quitter = {f1}
    HalfCloser = {f1}
    Breaker = {f1, f2}
    MaxBacklog = 1
    MaxRx = 1
    MaxTx = 1
    MaxOut = 2
SPECIFICATION Spec
INVARIANTS
    TypeOK
    PollTableMatchesClients
    PolloutWhenPending
    OnlyGoneAreMarked
