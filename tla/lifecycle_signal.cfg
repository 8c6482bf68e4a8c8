\* A signal at any time, before run() has set _running too.
CONSTANTS
    f1 = f1
    Fd = {f1}
    Listen = listen
SPECIFICATION FairSpec
PROPERTY
    SignalStopsServer
CHECK_DEADLOCK FALSE
