\* What three clients in one channel know of it.
CONSTANTS
    c1 = c1
    c2 = c2
    c3 = c3
    Fd = {c1, c2, c3}
    Word <- ViewWord
    Empty = ""
    Lower <- ViewLower
    AtoI <- ViewAtoI
    NickWord = {"al", "bo", "cy"}
    ChanWord = {"#x"}
    TopicWord = {"so long"}
    JoinRequest <- ViewsJoin
    PartRequest <- ViewsPart
    ModeRequest <- ViewsMode
    PassRight = {TRUE}
    Quitter = {c1, c2, c3}
    Invitee = {"cy"}
    Told <- ViewTold
SYMMETRY Clients3
SPECIFICATION MCViewSpec
INVARIANTS
    InsideKnown
    NoHiddenMember
    OperatorsKnown
    TopicTold
