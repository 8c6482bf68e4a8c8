\* Replies reach their sockets, with sends that take a part or nothing: two
\* clients, one of which may break off and come back.
CONSTANTS
    f1 = f1
    f2 = f2
    Fd = {f1, f2}
    Listen = listen
    Quitter = {}
    HalfCloser = {}
    Breaker = {f1}
    MaxBacklog = 1
    MaxRx = 1
    MaxTx = 1
    MaxOut = 2
SPECIFICATION FairKernelSpec
PROPERTY
    RepliesAreSent
