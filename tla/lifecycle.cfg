\* The whole life of the process with two clients; it ends, so it may stop.
CONSTANTS
    f1 = f1
    f2 = f2
    Fd = {f1, f2}
    Listen = listen
SPECIFICATION FairSpec
INVARIANTS
    HandlerFindsServer
    NoDescriptorLeaks
PROPERTY
    StopEndsRun
CHECK_DEADLOCK FALSE
