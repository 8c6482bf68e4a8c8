\* Who is who, and who is in which of two channels, in the two records of it.
CONSTANTS
    c1 = c1
    c2 = c2
    c3 = c3
    Fd = {c1, c2, c3}
    Word <- MCWord
    Empty = ""
    Lower <- MCLower
    AtoI <- MCAtoI
    NickWord = {"al", "AL", "bo"}
    ChanWord = {"#x", "#X", "#y"}
    TopicWord = {"hi"}
    JoinRequest <- TablesJoin
    PartRequest <- TablesPart
    ModeRequest <- TablesMode
    PassRight = {TRUE}
    Quitter = {}
SYMMETRY Clients3
SPECIFICATION Spec
INVARIANTS
    NoStaleMember
    NicksUnique
    CredentialsBeforeRegistration
    MembershipAgrees
    ChannelsInhabited
PROPERTY
    ImplementsRoom
