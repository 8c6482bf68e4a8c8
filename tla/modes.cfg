\* Modes, keys, limits, invitations and topics: two clients, every way to
\* combine the modes of a string with parameters.
CONSTANTS
    c1 = c1
    c2 = c2
    c3 = c3
    Fd = {c1, c2}
    Word <- MCWord
    Empty = ""
    Lower <- MCLower
    AtoI <- MCAtoI
    NickWord = {"al", "AL", "bo"}
    ChanWord = {"#x", "#X"}
    TopicWord = {"hi"}
    JoinRequest <- ModesJoin
    PartRequest <- ModesPart
    ModeRequest <- ModesMode
    PassRight = {TRUE, FALSE}
    Quitter = {c1, c2}
SYMMETRY Clients2
SPECIFICATION Spec
INVARIANT
    TypeOK
PROPERTIES
    LeaderlessFrozen
    InvitationAdmitsOnce
    LimitRespected
