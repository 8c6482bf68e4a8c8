\* Every line of six characters after a command, every port of three digits.
CONSTANTS
    Char = {" ", ",", ":", "#", "a", "1"}
    MaxLine = 6
    MaxArg = 3
    MaxNick = 4
    MaxChannel = 5
    PortSize = 8
    IntSize = 32
    LongSize = 128
SPECIFICATION Spec
INVARIANTS
    ParseFollowsGrammar
    KeysStayWithChannels
    NamesSurvive
    RelayedIntact
    PortIsTheNumber
\* Typing ends at the bound.
CHECK_DEADLOCK FALSE
