------------------------ MODULE ChannelViewsProofs ------------------------
(***************************************************************************)
(* What clients know of their channels, for any number of clients, channels*)
(* and any words: the four invariants of ChannelViews, from the tables that*)
(* IrcServerProofs proves sound and from what the lines add up to.  A MODE *)
(* is the hard part: its walk changes ranks character by character, and its*)
(* members hear of all that at once, from a line they parse themselves.    *)
(***************************************************************************)
EXTENDS ChannelViews, IrcServerProofs, Induction

\* The strings.  That a literal is a string no prover finds.
Letter == STRING \cup {"space", "L", "l"}

\* What a client can know of a channel.
ViewType ==
    [inside : BOOLEAN, names : SUBSET Text, operators : SUBSET Text, topic : STRING \cup Text]

\* The type invariant of the views.
ViewsTyped ==
    /\ view \in [Fd -> [Chan -> ViewType]]
    /\ announced \in [modes : Seq(Letter), params : Seq(Word)]
    /\ untold \subseteq Chan

\* Who is accepted on a descriptor that was used before starts without knowledge.
AbsentKnowNothing == \A f \in Fd \ live, c \in Chan : view[f][c] = NoView

\* Each member knows the rank of each member.
RanksTold(c) ==
    \A f, g \in Present(c) : Nick(g) \in view[f][c].operators <=> g \in channels[c].operators

\* Read as far as it is built, the line of a MODE says what the walk has done:
\* its sign is the one of the walk, its parameters are used up, and it makes the
\* operators of the channel of those whom a member took for operators before.
WalkTold(w) ==
    \A f, g \in Present(w.chan) :
        LET read == ReadModes(view[f][w.chan], announced.modes, announced.params)
        IN  /\ read.adding = w.adding
            /\ read.next = Len(announced.params) + 1
            /\ Nick(g) \in read.ops <=> g \in channels[w.chan].operators

\* A MODE in progress may have changed ranks of its channel only if it has an o
\* to announce.
RanksKnown ==
    \A c \in Chan \ untold :
        NoModeOn(c) \/ "o" \notin Range(announced.modes) => RanksTold(c)

\* There is one walk at most, and what is announced is of that walk.
WalkAnnounced ==
    /\ \A v, w \in running : v = w
    /\ running = {} => announced = NoWalk
    /\ \A w \in running :
          w.chan \notin untold /\ "space" \notin Range(announced.modes) => WalkTold(w)

\* The inductive invariant.
ViewInvariant ==
    /\ ViewsTyped
    /\ AbsentKnowNothing
    /\ InsideKnown
    /\ NoHiddenMember
    /\ TopicTold
    /\ RanksKnown
    /\ WalkAnnounced

-----------------------------------------------------------------------------
(* The tables behave here as in IrcServer.                                 *)

\* What a handler does to the tables does not depend on what it sends.
LEMMA ViewStepIsStep == ASSUME [ViewNext]_viewVars PROVE [Next]_vars
<1>1. CASE UNCHANGED viewVars
  BY <1>1 DEF viewVars
<1>2. ASSUME NEW f \in Fd, Session(f)
      PROVE  Next
  <2>1. Connection(f)
    BY <1>2 DEF Session, AcceptClient, LoseClient, Connection
  <2> QED
    BY <2>1 DEF Next
<1>3. ASSUME NEW f \in Fd, Command(f)
      PROVE  [Next]_vars
  <2>1. CASE Register(f)
    BY <2>1 DEF Register, Connection, Next
  <2>2. CASE \E n \in NickWord : ChangeNick(f, n)
    BY <2>2 DEF ChangeNick, Connection, Next
  <2>3. CASE f \in Quitter /\ Quit(f)
    BY <2>3 DEF Quit, Connection, Next
  <2>4. CASE \E req \in JoinRequest : Join(f, req)
    BY <2>4 DEF Join, ChannelCommand, Next
  <2>5. CASE Part(f)
    BY <2>5 DEF Part, ChannelCommand, Next
  <2>6. CASE \E c \in Chan : AskTopic(f, c) \/ AskNames(f, c) \/ AskWho(f, c)
    BY <2>6 DEF AskTopic, AskNames, AskWho
  <2>7. CASE \E name \in ChanWord, w \in NickWord : Kick(f, name, w)
    BY <2>7 DEF Kick, ChannelCommand, Next
  <2>8. CASE \E name \in ChanWord, w \in Invitee : Invite(f, w, name)
    BY <2>8, ViewsAssumption DEF Invite, ChannelCommand, Next
  <2>9. CASE \E name \in ChanWord, t \in TopicWord : SetTopic(f, name, t)
    BY <2>9 DEF SetTopic, ChannelCommand, Next
  <2>10. CASE \E name \in ChanWord, req \in ModeRequest : StartMode(f, name, req)
    BY <2>10 DEF StartMode, ChannelCommand, Next
  <2> QED
    BY <1>3, <2>1, <2>2, <2>3, <2>4, <2>5, <2>6, <2>7, <2>8, <2>9, <2>10 DEF Command
<1>4. ASSUME NEW w \in running, ModeStep(w) \/ CutMode(w)
      PROVE  Next
  <2>1. applyModeChanges(w)
    BY <1>4 DEF ModeStep, CutMode, applyModeChanges
  <2> QED
    BY <2>1 DEF Next
<1> QED
  BY <1>1, <1>2, <1>3, <1>4 DEF ViewNext

\* The server that tells its clients of their channels is the server of
\* IrcServer: all that is proved of its tables holds here.
LEMMA ViewsKeepTables == ViewSpec => Spec
<1>1. ViewInit => Init
  BY DEF ViewInit
<1>2. [ViewNext]_viewVars => [Next]_vars
  BY ViewStepIsStep
<1> QED
  BY <1>1, <1>2, PTL DEF ViewSpec, Spec

\* What is needed of the tables.
Sound ==
    /\ Consistent
    /\ NicksUnique
    /\ CredentialsBeforeRegistration

\* These hold of the tables in every state.
LEMMA AlwaysSound == ViewSpec => []Sound
  BY ViewsKeepTables, AlwaysConsistent, NicknamesUnique, RegistrationComplete, PTL DEF Sound

\* Members are connected, registered and known by a nickname that nobody else
\* has; a client's own record of its channels is the one of the channels.
LEMMA SoundFacts ==
    ASSUME Sound
    PROVE  /\ \A f \in Fd : clients[f] \in ClientType /\ Nick(f) \in Text
           /\ live \subseteq Fd
           /\ chans \subseteq Chan
           /\ \A c \in Chan :
                 /\ channels[c] \in ChannelType
                 /\ channels[c].members \subseteq live
                 /\ channels[c].operators \subseteq channels[c].members
                 /\ channels[c].members # {} => c \in chans
                 /\ \A f \in channels[c].members :
                       /\ clients[f].registered
                       /\ clients[f].nickname # Empty
                       /\ \A g \in live : Nick(f) = Nick(g) => f = g
                 /\ \A f \in Fd : c \in clients[f].channels <=> f \in channels[c].members
<1>1. Consistent /\ TypeOK
  BY DEF Sound, Consistent
<1>2. \A f \in Fd : clients[f] \in ClientType
  BY <1>1 DEF TypeOK
<1>3. ASSUME NEW f \in Fd
      PROVE  Nick(f) \in Text
  <2>1. clients[f].nickname \in Text
    BY <1>2, WordsAssumption DEF ClientType, Text
  <2> QED
    BY <2>1, WordsAssumption DEF Nick
<1>4. \A c \in Chan : channels[c] \in ChannelType
  BY <1>1 DEF TypeOK
<1>5. live \subseteq Fd /\ chans \subseteq Chan
  BY <1>1 DEF TypeOK
<1>6. ASSUME NEW c \in Chan
      PROVE  /\ channels[c].members \subseteq live
             /\ channels[c].operators \subseteq channels[c].members
             /\ channels[c].members # {} => c \in chans
             /\ \A f \in channels[c].members : clients[f].registered
  BY <1>1 DEF Consistent, NoStaleMember, ChannelsInhabited
<1>7. ASSUME NEW c \in Chan, NEW f \in channels[c].members
      PROVE  /\ clients[f].nickname # Empty
             /\ \A g \in live : Nick(f) = Nick(g) => f = g
  <2>1. f \in live /\ clients[f].registered
    BY <1>6
  <2>2. clients[f].nickname # Empty
    BY <2>1 DEF Sound, CredentialsBeforeRegistration
  <2> QED
    BY <2>1, <2>2 DEF Sound, NicksUnique, Nick
<1>8. ASSUME NEW c \in Chan, NEW f \in Fd
      PROVE  c \in clients[f].channels <=> f \in channels[c].members
  BY <1>1, <1>6 DEF Consistent, MembershipAgrees
<1> QED
  BY <1>2, <1>3, <1>4, <1>5, <1>6, <1>7, <1>8

-----------------------------------------------------------------------------
(* What a client makes of a line.                                          *)

\* ViewInvariant while no MODE is in progress.
WellInformed ==
    /\ ViewsTyped
    /\ AbsentKnowNothing
    /\ InsideKnown
    /\ NoHiddenMember
    /\ TopicTold
    /\ \A c \in Chan \ untold : RanksTold(c)

\* The line of a JOIN adds one name, without rank.
LEMMA EnteredEffect ==
    ASSUME NEW v \in ViewType, NEW n \in Text
    PROVE  /\ Entered(v, n) \in ViewType
           /\ Entered(v, n).inside = v.inside
           /\ Entered(v, n).names = v.names \cup {n}
           /\ Entered(v, n).operators = v.operators \ {n}
           /\ Entered(v, n).topic = v.topic
  BY DEF Entered, ViewType

\* The line of a PART, KICK or QUIT takes one name away.
LEMMA GoneEffect ==
    ASSUME NEW v \in ViewType, NEW n \in Text
    PROVE  /\ Gone(v, n) \in ViewType
           /\ Gone(v, n).inside = v.inside
           /\ Gone(v, n).names = v.names \ {n}
           /\ Gone(v, n).operators = v.operators \ {n}
           /\ Gone(v, n).topic = v.topic
  BY DEF Gone, ViewType

\* A new nickname has the rank of the old one, and no other changes.
LEMMA RenamedEffect ==
    ASSUME NEW v \in ViewType, NEW o \in Text, NEW n \in Text
    PROVE  /\ Renamed(v, o, n) \in ViewType
           /\ Renamed(v, o, n).inside = v.inside
           /\ Renamed(v, o, n).topic = v.topic
           /\ \A p \in v.names : p # o => p \in Renamed(v, o, n).names
           /\ \A p \in Text \ {o, n} : p \in v.operators <=> p \in Renamed(v, o, n).operators
           /\ o \in v.names => /\ n \in Renamed(v, o, n).names
                               /\ o \in v.operators <=> n \in Renamed(v, o, n).operators
<1> DEFINE w == [v EXCEPT !.names = (@ \ {o}) \cup {n},
                          !.operators = (@ \ {o, n}) \cup {p \in {n} : o \in @}]
<1>1. CASE o = n \/ o \notin v.names
  BY <1>1 DEF Renamed
<1>2. CASE ~(o = n \/ o \notin v.names)
  <2>1. Renamed(v, o, n) = w
    BY <1>2 DEF Renamed
  <2>2. /\ w \in ViewType
        /\ w.inside = v.inside
        /\ w.topic = v.topic
        /\ w.names = (v.names \ {o}) \cup {n}
        /\ w.operators = (v.operators \ {o, n}) \cup {p \in {n} : o \in v.operators}
    BY DEF ViewType
  <2> HIDE DEF w
  <2> QED
    BY <1>2, <2>1, <2>2
<1> QED
  BY <1>1, <1>2

\* A list of names has those of the members, with their ranks.
LEMMA NamesEffect ==
    ASSUME Sound, NEW v \in ViewType, NEW ch \in ChannelType,
           ch.members \subseteq live, ch.operators \subseteq ch.members,
           \A f \in ch.members, g \in live : Nick(f) = Nick(g) => f = g
    PROVE  /\ getNamesList(v, ch) \in ViewType
           /\ getNamesList(v, ch).inside = v.inside
           /\ getNamesList(v, ch).topic = v.topic
           /\ \A f \in ch.members : /\ Nick(f) \in getNamesList(v, ch).names
                                    /\ Nick(f) \in getNamesList(v, ch).operators <=> f \in ch.operators
<1>1. /\ {Nick(g) : g \in ch.members} \subseteq Text
      /\ {Nick(g) : g \in ch.operators} \subseteq Text
  BY SoundFacts
<1>2. /\ getNamesList(v, ch) \in ViewType
      /\ getNamesList(v, ch).inside = v.inside
      /\ getNamesList(v, ch).topic = v.topic
      /\ getNamesList(v, ch).names = {Nick(g) : g \in ch.members}
      /\ getNamesList(v, ch).operators = {Nick(g) : g \in ch.operators}
  BY <1>1 DEF getNamesList, ViewType
<1> QED
  BY <1>2

\* Who is in no channel knows nothing.
LEMMA NoViewFacts == NoView \in ViewType /\ NoView.inside = FALSE /\ NoView.topic = Empty
  BY DEF NoView, ViewType, Text

\* Who is present is a member and has not quit.
LEMMA PresentFacts ==
    ASSUME NEW c \in Chan, NEW f \in Present(c)
    PROVE  f \in channels[c].members /\ ~HasQuit(f)
  BY DEF Present

-----------------------------------------------------------------------------
(* The steps that change no walk of a MODE.                                *)

\* Nothing is said, and nothing changes that somebody would have to be told.
LEMMA QuietKeeps ==
    ASSUME Sound, WellInformed, view' = view, announced' = announced, untold' = untold,
           live \subseteq live', live' \subseteq Fd,
           \A c \in Chan : /\ channels'[c].members = channels[c].members
                           /\ channels'[c].operators = channels[c].operators
                           /\ channels'[c].topic = channels[c].topic,
           \A f \in live : HasQuit(f) => HasQuit(f)',
           \A c \in Chan : \A f \in channels[c].members : Nick(f)' = Nick(f)
    PROVE  WellInformed'
<1>1. \A c \in Chan : channels[c].members \subseteq live
  BY SoundFacts
<1>2. \A c \in Chan : \A f \in Present(c)' : /\ f \in Present(c)
                                             /\ Nick(f)' = Nick(f)
                                             /\ f \in channels[c].members
  BY <1>1 DEF Present
<1>3. ViewsTyped' /\ AbsentKnowNothing'
  BY DEF WellInformed, ViewsTyped, AbsentKnowNothing
<1>4. InsideKnown'
  <2> SUFFICES ASSUME NEW f \in live', NEW c \in Chan, ~HasQuit(f)'
               PROVE  view[f][c].inside <=> f \in channels[c].members
    BY DEF InsideKnown
  <2>1. CASE f \in live
    BY <2>1 DEF WellInformed, InsideKnown
  <2>2. CASE f \notin live
    BY <1>1, <2>2, NoViewFacts DEF WellInformed, AbsentKnowNothing
  <2> QED
    BY <2>1, <2>2
<1>5. NoHiddenMember'
  BY <1>2 DEF WellInformed, NoHiddenMember
<1>6. TopicTold'
  BY <1>2 DEF WellInformed, TopicTold
<1>7. \A c \in Chan \ untold' : RanksTold(c)'
  BY <1>2 DEF WellInformed, RanksTold
<1> QED
  BY <1>3, <1>4, <1>5, <1>6, <1>7 DEF WellInformed

\* A new client is in no channel.
LEMMA AcceptInforms ==
    ASSUME Sound, WellInformed, NEW f \in Fd, AcceptClient(f)
    PROVE  WellInformed'
<1>1. \A c \in Chan : channels[c].members \subseteq live
  BY SoundFacts
<1>2. /\ view' = view /\ announced' = announced /\ untold' = untold
      /\ live' = live \cup {f}
      /\ f \notin live
      /\ channels' = channels
      /\ \A g \in live : clients'[g] = clients[g]
  BY SoundFacts DEF AcceptClient, acceptNewClient, Quietly, Sound, Consistent, TypeOK
<1> QED
  BY <1>1, <1>2, QuietKeeps, SoundFacts DEF HasQuit, Nick

\* Registration says nothing of channels.
LEMMA RegisterInforms ==
    ASSUME Sound, WellInformed, NEW f \in Fd, Register(f)
    PROVE  WellInformed'
<1>1. clients \in [Fd -> ClientType] /\ clients[f] \in ClientType
  BY DEF Sound, Consistent, TypeOK
<1>2. /\ view' = view /\ announced' = announced /\ untold' = untold
      /\ live' = live /\ channels' = channels
  BY DEF Register, handleUser, handlePass, Quietly
<1>3. /\ \A g \in Fd \ {f} : clients'[g] = clients[g]
      /\ clients'[f].nickname = clients[f].nickname
      /\ clients[f].shouldDisconnect => clients'[f].shouldDisconnect
  BY <1>1 DEF Register, handleUser, handlePass, checkRegistration, ClientType
<1> QED
  BY <1>2, <1>3, QuietKeeps, SoundFacts DEF HasQuit, Nick

\* An invitation makes nobody a member.
LEMMA InviteInforms ==
    ASSUME Sound, WellInformed, NEW f \in Fd, NEW w \in NickWord, NEW name \in ChanWord,
           Invite(f, w, name)
    PROVE  WellInformed'
<1>1. channels \in [Chan -> ChannelType] /\ Lower[name] \in Chan
  BY LowerTypes DEF Sound, Consistent, TypeOK
<1>2. /\ view' = view /\ announced' = announced /\ untold' = untold
      /\ live' = live /\ clients' = clients
      /\ \E u : channels' = [channels EXCEPT ![Lower[name]] = addInvite(@, u)]
  BY DEF Invite, handleInvite, Quietly
<1>3. \A ch \in ChannelType : \A u : /\ addInvite(ch, u).members = ch.members
                                     /\ addInvite(ch, u).operators = ch.operators
                                     /\ addInvite(ch, u).topic = ch.topic
  BY DEF addInvite, ChannelType
<1>4. \A c \in Chan : /\ channels'[c].members = channels[c].members
                      /\ channels'[c].operators = channels[c].operators
                      /\ channels'[c].topic = channels[c].topic
  BY <1>1, <1>2, <1>3
<1> QED
  BY <1>2, <1>4, QuietKeeps, SoundFacts DEF HasQuit, Nick

\* All who share a channel with the client hear of its new nickname, and know it
\* by that one; nobody else is known by either.
LEMMA ChangeNickInforms ==
    ASSUME Sound, WellInformed, NEW f \in Fd, NEW n \in NickWord, ChangeNick(f, n)
    PROVE  WellInformed'
<1> DEFINE o == Nick(f)
           m == Lower[n]
<1>1. clients \in [Fd -> ClientType] /\ view \in [Fd -> [Chan -> ViewType]]
  BY DEF WellInformed, Sound, Consistent, TypeOK, ViewsTyped
<1>2. o \in Text /\ m \in Text
  BY SoundFacts, WordsAssumption DEF Text
<1>3. /\ f \in live /\ live' = live /\ channels' = channels
      /\ ClientsNamed(n) \subseteq {f}
      /\ announced' = announced /\ untold' = untold
      /\ clients' = [clients EXCEPT ![f] = checkRegistration([@ EXCEPT !.nickname = n])]
  BY DEF ChangeNick, handleNick, OnlyTells
<1>4. /\ \A g \in Fd \ {f} : clients'[g] = clients[g]
      /\ clients'[f].nickname = n
      /\ clients'[f].shouldDisconnect = clients[f].shouldDisconnect
  BY <1>1, <1>3 DEF checkRegistration, ClientType
<1>5. /\ \A g \in Fd : HasQuit(g)' = HasQuit(g)
      /\ \A g \in Fd \ {f} : Nick(g)' = Nick(g)
      /\ Nick(f)' = m
  BY <1>4 DEF HasQuit, Nick
<1>6. \A g \in live \ {f} : Nick(g) # m
  BY <1>3 DEF ClientsNamed, Nick
<1>7. \A g \in Fd, c \in Chan :
          view'[g][c] = IF clients[f].registered /\ g \in {f} \cup Neighbours(f)
                           THEN Renamed(view[g][c], o, m) ELSE view[g][c]
  BY DEF ChangeNick
<1>8. \A g \in Fd, c \in Chan : view[g][c] \in ViewType
  BY <1>1
<1>9. \A g \in Neighbours(f) : g \in live
  BY SoundFacts DEF Neighbours, ClientType
<1>10. ASSUME NEW c \in Chan, f \in channels[c].members, NEW g \in channels[c].members
       PROVE  view'[g][c] = Renamed(view[g][c], o, m)
  <2>1. /\ clients[f].registered /\ g \in Fd
        /\ c \in clients[f].channels
    BY <1>10, SoundFacts
  <2>2. g \in {f} \cup Neighbours(f)
    BY <1>10, <2>1 DEF Neighbours
  <2> QED
    BY <1>7, <2>1, <2>2
<1>11. \A c \in Chan : Present(c)' = Present(c)
  BY <1>3, <1>5, SoundFacts DEF Present
<1>12. ASSUME NEW c \in Chan, NEW g \in Present(c), NEW h \in Present(c)
       PROVE  /\ view'[g][c].topic = view[g][c].topic
              /\ Nick(h)' \in view'[g][c].names
              /\ Nick(h)' \in view'[g][c].operators <=> Nick(h) \in view[g][c].operators
  <2>1. /\ g \in channels[c].members /\ h \in channels[c].members
        /\ g \in Fd /\ h \in Fd /\ h \in live
        /\ Nick(h) \in view[g][c].names
        /\ view[g][c] \in ViewType
        /\ Nick(h) \in Text
    BY <1>8, PresentFacts, SoundFacts DEF WellInformed, NoHiddenMember
  <2>2. CASE h = f
    <3>1. view'[g][c] = Renamed(view[g][c], o, m)
      BY <1>10, <2>1, <2>2
    <3>2. o \in view[g][c].names
      BY <2>1, <2>2
    <3>3. /\ Renamed(view[g][c], o, m).topic = view[g][c].topic
          /\ m \in Renamed(view[g][c], o, m).names
          /\ o \in view[g][c].operators <=> m \in Renamed(view[g][c], o, m).operators
      <4> HIDE DEF o, m
      <4> QED
        BY <1>2, <2>1, <3>2, RenamedEffect
    <3> QED
      BY <1>5, <2>2, <3>1, <3>3
  <2>3. CASE h # f
    <3>1. Nick(h)' = Nick(h) /\ Nick(h) # m /\ Nick(h) # o
      BY <1>3, <1>5, <1>6, <2>1, <2>3, SoundFacts
    <3>2. view'[g][c] = Renamed(view[g][c], o, m) \/ view'[g][c] = view[g][c]
      BY <1>7, <2>1
    <3>3. /\ Renamed(view[g][c], o, m).topic = view[g][c].topic
          /\ Nick(h) \in Renamed(view[g][c], o, m).names
          /\ Nick(h) \in view[g][c].operators <=> Nick(h) \in Renamed(view[g][c], o, m).operators
      <4> HIDE DEF o, m
      <4> QED
        BY <1>2, <2>1, <3>1, RenamedEffect
    <3> HIDE DEF o, m
    <3> QED
      BY <2>1, <3>1, <3>2, <3>3
  <2> QED
    BY <2>2, <2>3
<1>13. \A g \in Fd, c \in Chan : view'[g][c] \in ViewType /\ view'[g][c].inside = view[g][c].inside
  <2>1. \A v \in ViewType : Renamed(v, o, m) \in ViewType /\ Renamed(v, o, m).inside = v.inside
    <3> HIDE DEF o, m
    <3> QED
      BY <1>2, RenamedEffect
  <2> QED
    BY <1>7, <1>8, <2>1
<1>14. ViewsTyped'
  <2>1. view' \in [Fd -> [Chan -> ViewType]]
    BY <1>13 DEF ChangeNick
  <2> QED
    BY <1>3, <2>1 DEF WellInformed, ViewsTyped
<1>15. AbsentKnowNothing'
  BY <1>3, <1>7, <1>9 DEF WellInformed, AbsentKnowNothing
<1>16. InsideKnown'
  BY <1>3, <1>5, <1>13, SoundFacts DEF WellInformed, InsideKnown
<1>17. NoHiddenMember'
  BY <1>11, <1>12 DEF WellInformed, NoHiddenMember
<1>18. TopicTold'
  BY <1>3, <1>11, <1>12 DEF WellInformed, TopicTold
<1>19. \A c \in Chan \ untold' : RanksTold(c)'
  BY <1>3, <1>11, <1>12 DEF WellInformed, RanksTold
<1> QED
  BY <1>14, <1>15, <1>16, <1>17, <1>18, <1>19 DEF WellInformed

\* The one who quits is no longer present; the others still know each other.
LEMMA QuitInforms ==
    ASSUME Sound, WellInformed, NEW f \in Fd, Quit(f)
    PROVE  WellInformed'
<1>1. clients \in [Fd -> ClientType] /\ view \in [Fd -> [Chan -> ViewType]]
  BY DEF WellInformed, Sound, Consistent, TypeOK, ViewsTyped
<1>2. /\ f \in live /\ live' = live /\ channels' = channels
      /\ announced' = announced /\ untold' = untold
      /\ clients' = [clients EXCEPT ![f].shouldDisconnect = TRUE]
  BY DEF Quit, handleQuit, OnlyTells
<1>3. /\ \A g \in Fd \ {f} : clients'[g] = clients[g]
      /\ clients'[f].nickname = clients[f].nickname
      /\ clients'[f].shouldDisconnect
  BY <1>1, <1>2 DEF ClientType
<1>4. /\ \A g \in Fd : Nick(g)' = Nick(g)
      /\ \A g \in Fd \ {f} : HasQuit(g)' = HasQuit(g)
      /\ HasQuit(f)'
  BY <1>3 DEF HasQuit, Nick
<1>5. \A g \in Fd, c \in Chan :
          view'[g][c] = IF g \in Neighbours(f) THEN Gone(view[g][c], Nick(f)) ELSE view[g][c]
  BY DEF Quit
<1>6. \A g \in Fd, c \in Chan : view[g][c] \in ViewType
  BY <1>1
<1>7. \A g \in Neighbours(f) : g \in live
  BY SoundFacts DEF Neighbours, ClientType
<1>8. \A c \in Chan : Present(c)' \subseteq Present(c) \ {f}
  BY <1>2, <1>4, SoundFacts DEF Present
<1>9. ASSUME NEW c \in Chan, NEW g \in Present(c), NEW h \in Present(c) \ {f}
      PROVE  /\ view'[g][c].topic = view[g][c].topic
             /\ Nick(h) \in view'[g][c].names
             /\ Nick(h) \in view'[g][c].operators <=> Nick(h) \in view[g][c].operators
  <2>1. /\ g \in Fd /\ h \in Fd /\ h \in live
        /\ Nick(h) \in view[g][c].names
        /\ view[g][c] \in ViewType
        /\ Nick(h) # Nick(f)
    BY <1>2, <1>6, PresentFacts, SoundFacts DEF WellInformed, NoHiddenMember
  <2>2. Nick(f) \in Text
    BY SoundFacts
  <2> QED
    BY <1>5, <2>1, <2>2, GoneEffect
<1>10. \A g \in Fd, c \in Chan : view'[g][c] \in ViewType /\ view'[g][c].inside = view[g][c].inside
  <2>1. Nick(f) \in Text
    BY SoundFacts
  <2>2. \A v \in ViewType : Gone(v, Nick(f)) \in ViewType /\ Gone(v, Nick(f)).inside = v.inside
    BY <2>1, GoneEffect
  <2> QED
    BY <1>5, <1>6, <2>2
<1>11. ViewsTyped'
  <2>1. view' \in [Fd -> [Chan -> ViewType]]
    BY <1>10 DEF Quit
  <2> QED
    BY <1>2, <2>1 DEF WellInformed, ViewsTyped
<1>12. AbsentKnowNothing'
  BY <1>2, <1>5, <1>7 DEF WellInformed, AbsentKnowNothing
<1>13. InsideKnown'
  BY <1>2, <1>4, <1>10, SoundFacts DEF WellInformed, InsideKnown
<1>14. NoHiddenMember'
  BY <1>4, <1>8, <1>9, SoundFacts, PresentFacts DEF WellInformed, NoHiddenMember
<1>15. TopicTold'
  BY <1>2, <1>8, <1>9 DEF WellInformed, TopicTold
<1>16. \A c \in Chan \ untold' : RanksTold(c)'
  <2>1. \A c \in Chan : \A h \in Present(c) : Nick(h)' = Nick(h)
    BY <1>4, SoundFacts, PresentFacts
  <2> QED
    BY <1>2, <1>8, <1>9, <2>1 DEF WellInformed, RanksTold
<1> QED
  BY <1>11, <1>12, <1>13, <1>14, <1>15, <1>16 DEF WellInformed

\* Who is left in a channel keeps its rank, and the topic.
LEMMA RemoveFromKeeps ==
    ASSUME Sound, NEW f \in Fd, NEW cs \in SUBSET chans, RemoveFrom(f, cs)
    PROVE  \A c \in Chan :
              /\ channels'[c].members = IF c \in cs THEN channels[c].members \ {f}
                                                    ELSE channels[c].members
              /\ \A h \in channels'[c].members : /\ h \in channels'[c].operators
                                                       <=> h \in channels[c].operators
                                                 /\ channels'[c].topic = channels[c].topic
                                                 /\ c \in chans'
<1>1. TypeOK /\ \A c \in Chan : channels[c] \in ChannelType
  BY SoundFacts DEF Sound, Consistent
<1> SUFFICES ASSUME NEW c \in Chan
             PROVE  /\ channels'[c].members = IF c \in cs THEN channels[c].members \ {f}
                                                          ELSE channels[c].members
                    /\ \A h \in channels'[c].members : /\ h \in channels'[c].operators
                                                             <=> h \in channels[c].operators
                                                       /\ channels'[c].topic = channels[c].topic
                                                       /\ c \in chans'
  OBVIOUS
<1>2. CASE c \in cs /\ channels[c].members \subseteq {f}
  <2>1. channels'[c] = NewChannel
    BY <1>2 DEF RemoveFrom
  <2> QED
    BY <1>2, <2>1 DEF NewChannel
<1>3. CASE c \in cs /\ ~(channels[c].members \subseteq {f})
  <2>1. channels'[c] = removeMember(channels[c], f) /\ c \in chans'
    BY <1>3 DEF RemoveFrom
  <2> QED
    BY <1>1, <1>3, <2>1 DEF removeMember, ChannelType
<1>4. CASE c \notin cs
  <2>1. channels'[c] = channels[c] /\ (c \in chans => c \in chans')
    BY <1>4 DEF RemoveFrom
  <2> QED
    BY <1>4, <2>1, SoundFacts
<1> QED
  BY <1>2, <1>3, <1>4

\* A connection that is lost leaves its channels without a line: those who are
\* left know one name too many, and none too few.
LEMMA LoseClientInforms ==
    ASSUME Sound, WellInformed, NEW f \in Fd, LoseClient(f)
    PROVE  WellInformed'
<1> DEFINE cs == clients[f].channels \cap chans
<1>1. clients \in [Fd -> ClientType] /\ view \in [Fd -> [Chan -> ViewType]]
  BY DEF Sound, Consistent, TypeOK, WellInformed, ViewsTyped
<1>2. /\ f \in live /\ live' = live \ {f}
      /\ RemoveFrom(f, cs)
      /\ announced' = announced /\ untold' = untold \cap chans'
      /\ \A g \in Fd \ {f} : clients'[g] = clients[g]
  BY <1>1 DEF LoseClient, disconnectClient, Forgets
<1>3. \A g \in Fd \ {f} : Nick(g)' = Nick(g) /\ HasQuit(g)' = HasQuit(g)
  BY <1>2 DEF Nick, HasQuit
<1>4. \A g \in Fd, c \in Chan : view'[g][c] = IF g = f THEN NoView ELSE view[g][c]
  BY DEF LoseClient
<1>5. \A c \in Chan : c \in cs <=> f \in channels[c].members
  BY SoundFacts
<1> HIDE DEF cs
<1>6. /\ \A c \in Chan : channels'[c].members = channels[c].members \ {f}
      /\ \A c \in Chan : \A h \in channels'[c].members :
             /\ h \in channels'[c].operators <=> h \in channels[c].operators
             /\ channels'[c].topic = channels[c].topic
             /\ c \in chans'
  <2>1. cs \in SUBSET chans
    BY DEF cs
  <2>2. \A c \in Chan :
            /\ channels'[c].members = IF c \in cs THEN channels[c].members \ {f}
                                                  ELSE channels[c].members
            /\ \A h \in channels'[c].members : /\ h \in channels'[c].operators
                                                     <=> h \in channels[c].operators
                                               /\ channels'[c].topic = channels[c].topic
                                               /\ c \in chans'
    BY <1>2, <2>1, RemoveFromKeeps
  <2> QED
    BY <1>5, <2>2
<1>7. \A c \in Chan : \A g \in Present(c)' : /\ g \in Present(c)
                                             /\ g \in channels'[c].members
                                             /\ g \in Fd
                                             /\ Nick(g)' = Nick(g)
                                             /\ view'[g][c] = view[g][c]
  BY <1>3, <1>4, <1>6, SoundFacts DEF Present
<1>8. ViewsTyped'
  <2>1. view' \in [Fd -> [Chan -> ViewType]]
    BY <1>1, NoViewFacts DEF LoseClient
  <2> QED
    BY <1>2, <2>1 DEF WellInformed, ViewsTyped
<1>9. AbsentKnowNothing'
  BY <1>2, <1>4 DEF WellInformed, AbsentKnowNothing
<1>10. InsideKnown'
  BY <1>2, <1>3, <1>4, <1>6, SoundFacts DEF WellInformed, InsideKnown
<1>11. NoHiddenMember'
  BY <1>7 DEF WellInformed, NoHiddenMember
<1>12. TopicTold'
  BY <1>6, <1>7 DEF WellInformed, TopicTold
<1>13. \A c \in Chan \ untold' : RanksTold(c)'
  <2> SUFFICES ASSUME NEW c \in Chan \ untold', NEW g \in Present(c)', NEW h \in Present(c)'
               PROVE  Nick(h)' \in view'[g][c].operators <=> h \in channels'[c].operators
    BY DEF RanksTold
  <2>1. c \notin untold
    BY <1>2, <1>6, <1>7
  <2> QED
    BY <1>6, <1>7, <2>1 DEF WellInformed, RanksTold
<1> QED
  BY <1>8, <1>9, <1>10, <1>11, <1>12, <1>13 DEF WellInformed

\* PART and KICK: f leaves the channels cs, told to all who are in them.
LEMMA DepartureInforms ==
    ASSUME Sound, WellInformed, NEW f \in live, NEW cs \in SUBSET chans,
           \A c \in cs : f \in channels[c].members,
           RemoveFrom(f, cs), SayGone(f, cs), Forgets, live' = live,
           \A g \in Fd : Nick(g)' = Nick(g) /\ HasQuit(g)' = HasQuit(g)
    PROVE  WellInformed'
<1>1. view \in [Fd -> [Chan -> ViewType]] /\ f \in Fd
  BY SoundFacts DEF WellInformed, ViewsTyped
<1>2. \A g \in Fd, c \in Chan :
          view'[g][c] = IF c \notin cs \/ g \notin channels[c].members THEN view[g][c]
                        ELSE IF g = f THEN NoView
                        ELSE Gone(view[g][c], Nick(f))
  BY DEF SayGone
<1>3. announced' = announced /\ untold' = untold \cap chans'
  BY DEF Forgets
<1>4. \A c \in Chan :
          /\ channels'[c].members = IF c \in cs THEN channels[c].members \ {f}
                                                ELSE channels[c].members
          /\ \A h \in channels'[c].members : /\ h \in channels'[c].operators
                                                   <=> h \in channels[c].operators
                                             /\ channels'[c].topic = channels[c].topic
                                             /\ c \in chans'
  BY <1>1, RemoveFromKeeps
<1>5. Nick(f) \in Text
  BY <1>1, SoundFacts
<1>6. \A v \in ViewType : /\ Gone(v, Nick(f)) \in ViewType
                          /\ Gone(v, Nick(f)).inside = v.inside
                          /\ Gone(v, Nick(f)).topic = v.topic
                          /\ \A p : p # Nick(f) =>
                                /\ p \in v.names => p \in Gone(v, Nick(f)).names
                                /\ p \in v.operators <=> p \in Gone(v, Nick(f)).operators
  BY <1>5, GoneEffect
<1>7. \A g \in Fd, c \in Chan : view[g][c] \in ViewType
  BY <1>1
<1>8. \A c \in Chan : \A g \in Present(c)' :
          g \in Present(c) /\ g \in Fd /\ g \in channels[c].members /\ g \in channels'[c].members
  BY <1>4, SoundFacts DEF Present
<1>9. ASSUME NEW c \in Chan, NEW g \in Present(c)', NEW h \in Present(c)'
      PROVE  /\ view'[g][c].topic = view[g][c].topic
             /\ Nick(h)' = Nick(h)
             /\ Nick(h) \in view'[g][c].names
             /\ Nick(h) \in view'[g][c].operators <=> Nick(h) \in view[g][c].operators
  <2>1. /\ g \in Fd /\ h \in Fd /\ Nick(h)' = Nick(h)
        /\ Nick(h) \in view[g][c].names
    BY <1>8 DEF WellInformed, NoHiddenMember
  <2>2. CASE c \notin cs
    BY <1>2, <2>1, <2>2
  <2>3. CASE c \in cs
    <3>1. h \in channels[c].members /\ h # f /\ g # f
      BY <1>4, <1>8, <2>3
    <3>2. Nick(h) # Nick(f)
      BY <3>1, SoundFacts
    <3>3. view'[g][c] = Gone(view[g][c], Nick(f))
      BY <1>2, <1>8, <2>1, <2>3, <3>1
    <3> QED
      BY <1>6, <1>7, <2>1, <3>2, <3>3
  <2> QED
    BY <2>2, <2>3
<1>10. \A g \in Fd, c \in Chan :
          /\ view'[g][c] \in ViewType
          /\ ~(g = f /\ c \in cs) => view'[g][c].inside = view[g][c].inside
          /\ g = f /\ c \in cs => ~view'[g][c].inside
          /\ g \notin live => view'[g][c] = view[g][c]
  BY <1>2, <1>6, <1>7, NoViewFacts, SoundFacts
<1>11. ViewsTyped'
  <2>1. view' \in [Fd -> [Chan -> ViewType]]
    BY <1>10 DEF SayGone
  <2> QED
    BY <1>3, <2>1 DEF WellInformed, ViewsTyped
<1>12. AbsentKnowNothing'
  BY <1>10 DEF WellInformed, AbsentKnowNothing
<1>13. InsideKnown'
  <2> SUFFICES ASSUME NEW g \in live, NEW c \in Chan, ~HasQuit(g)
               PROVE  view'[g][c].inside <=> g \in channels'[c].members
    BY SoundFacts DEF InsideKnown
  <2>1. g \in Fd /\ (view[g][c].inside <=> g \in channels[c].members)
    BY SoundFacts DEF WellInformed, InsideKnown
  <2>2. g = f /\ c \in cs => g \notin channels'[c].members
    BY <1>4
  <2>3. ~(g = f /\ c \in cs) => (g \in channels'[c].members <=> g \in channels[c].members)
    BY <1>4
  <2> QED
    BY <1>10, <2>1, <2>2, <2>3
<1>14. NoHiddenMember'
  BY <1>9 DEF NoHiddenMember
<1>15. TopicTold'
  <2> SUFFICES ASSUME NEW c \in Chan, NEW g \in Present(c)'
               PROVE  \/ view'[g][c].topic = channels'[c].topic
                      \/ channels'[c].topic # Empty /\ view'[g][c].topic = Told[channels'[c].topic]
    BY DEF TopicTold
  <2>1. channels'[c].topic = channels[c].topic /\ view'[g][c].topic = view[g][c].topic
    BY <1>4, <1>8, <1>9
  <2>2. \/ view[g][c].topic = channels[c].topic
        \/ channels[c].topic # Empty /\ view[g][c].topic = Told[channels[c].topic]
    BY <1>8 DEF WellInformed, TopicTold
  <2> QED
    BY <2>1, <2>2
<1>16. \A c \in Chan \ untold' : RanksTold(c)'
  <2> SUFFICES ASSUME NEW c \in Chan \ untold', NEW g \in Present(c)', NEW h \in Present(c)'
               PROVE  Nick(h)' \in view'[g][c].operators <=> h \in channels'[c].operators
    BY DEF RanksTold
  <2>1. c \notin untold
    BY <1>3, <1>4, <1>8
  <2>2. Nick(h) \in view[g][c].operators <=> h \in channels[c].operators
    BY <1>8, <2>1 DEF WellInformed, RanksTold
  <2>3. h \in channels'[c].operators <=> h \in channels[c].operators
    BY <1>4, <1>8
  <2> QED
    BY <1>9, <2>2, <2>3
<1> QED
  BY <1>11, <1>12, <1>13, <1>14, <1>15, <1>16 DEF WellInformed

\* A member leaves the channels it names, and hears of it.
LEMMA PartInforms ==
    ASSUME Sound, WellInformed, NEW f \in Fd, Part(f)
    PROVE  WellInformed'
<1>1. clients \in [Fd -> ClientType] /\ clients[f] \in ClientType
  BY DEF Sound, Consistent, TypeOK
<1>2. PICK names : handlePart(f, names)
  BY DEF Part, JoinZero
<1> DEFINE left == {c \in chans : f \in channels[c].members /\ \E n \in names : Lower[n] = c}
<1>3. /\ f \in live /\ live' = live
      /\ RemoveFrom(f, left)
      /\ clients' = [clients EXCEPT ![f].channels = @ \ left]
  BY <1>2 DEF handlePart, MayCommand
<1>4. left \in SUBSET chans /\ (\A c \in left : f \in channels[c].members)
      /\ left \subseteq clients[f].channels
  BY SoundFacts
<1> HIDE DEF left
<1>5. clients[f].channels \ clients'[f].channels = left
  BY <1>1, <1>3, <1>4 DEF ClientType
<1>6. SayGone(f, left) /\ Forgets
  BY <1>5 DEF Part
<1>7. \A g \in Fd : Nick(g)' = Nick(g) /\ HasQuit(g)' = HasQuit(g)
  BY <1>1, <1>3 DEF Nick, HasQuit, ClientType
<1> QED
  BY <1>3, <1>4, <1>6, <1>7, DepartureInforms

\* The one who is kicked hears of it before the removal.
LEMMA KickInforms ==
    ASSUME Sound, WellInformed, NEW f \in Fd, NEW name \in ChanWord, NEW w \in NickWord,
           Kick(f, name, w)
    PROVE  WellInformed'
<1> DEFINE c == Lower[name]
<1>1. clients \in [Fd -> ClientType] /\ c \in Chan /\ c \in chans
  BY LowerTypes DEF Sound, Consistent, TypeOK, Kick, handleKick
<1>2. PICK g \in MembersNamed(c, w) :
          /\ RemoveFrom(g, {c})
          /\ clients' = [clients EXCEPT ![g].channels = @ \ {c}]
  BY DEF Kick, handleKick
<1>3. live' = live /\ SayGone(g, {c}) /\ Forgets
  BY <1>2 DEF Kick, handleKick
<1>4. g \in live /\ g \in Fd /\ g \in channels[c].members
  BY <1>1, <1>2, SoundFacts DEF MembersNamed
<1>5. \A h \in Fd : Nick(h)' = Nick(h) /\ HasQuit(h)' = HasQuit(h)
  BY <1>1, <1>2, <1>4 DEF Nick, HasQuit, ClientType
<1> HIDE DEF c
<1> QED
  BY <1>1, <1>2, <1>3, <1>4, <1>5, DepartureInforms

\* Who enters is told the members with their ranks and the topic, and the members
\* are told of who enters.
LEMMA JoinInforms ==
    ASSUME Sound, Sound', WellInformed, NEW f \in Fd, NEW req \in JoinRequest, Join(f, req)
    PROVE  WellInformed'
<1> DEFINE entered == {c \in Chan : \E r \in req :
                          Lower[r[1]] = c /\ MayJoin(channels[c], f, r[2])}
<1>1. /\ clients \in [Fd -> ClientType]
      /\ channels \in [Chan -> ChannelType]
      /\ view \in [Fd -> [Chan -> ViewType]]
  BY DEF Sound, Consistent, TypeOK, WellInformed, ViewsTyped
<1>2. /\ f \in live /\ live' = live
      /\ announced' = announced /\ untold' = untold
      /\ channels' = [c \in Chan |-> IF c \in entered THEN joinSingleChannel(channels[c], f)
                                                      ELSE channels[c]]
      /\ clients' = [clients EXCEPT ![f].channels = @ \cup entered]
  BY DEF Join, handleJoin, MayCommand, OnlyTells
<1>3. \A c \in entered : c \in Chan /\ f \notin channels[c].members
  BY DEF MayJoin
<1> HIDE DEF entered
<1>4. \A g \in Fd : Nick(g)' = Nick(g) /\ HasQuit(g)' = HasQuit(g)
  BY <1>1, <1>2 DEF Nick, HasQuit, ClientType
<1>5. \A ch \in ChannelType :
          /\ joinSingleChannel(ch, f).members = ch.members \cup {f}
          /\ joinSingleChannel(ch, f).operators = IF ch.members = {} THEN ch.operators \cup {f}
                                                                     ELSE ch.operators
          /\ joinSingleChannel(ch, f).topic = ch.topic
  BY DEF joinSingleChannel, removeInvite, addMember, ChannelType
<1>6. \A c \in Chan : channels'[c].topic = channels[c].topic
  BY <1>1, <1>2, <1>5
<1>7. \A c \in Chan \ entered : channels'[c] = channels[c]
  BY <1>2
<1>8. \A c \in entered :
          /\ channels'[c].members = channels[c].members \cup {f}
          /\ \A h \in channels[c].members : /\ h \in channels'[c].operators
                                                  <=> h \in channels[c].operators
                                            /\ f \notin channels'[c].operators
  <2> SUFFICES ASSUME NEW c \in entered
               PROVE  /\ channels'[c].members = channels[c].members \cup {f}
                      /\ \A h \in channels[c].members : /\ h \in channels'[c].operators
                                                              <=> h \in channels[c].operators
                                                        /\ f \notin channels'[c].operators
    OBVIOUS
  <2>1. channels[c] \in ChannelType /\ channels'[c] = joinSingleChannel(channels[c], f)
    BY <1>1, <1>2, <1>3
  <2>2. f \notin channels[c].operators
    BY <1>3, SoundFacts
  <2> QED
    BY <1>5, <2>1, <2>2
<1>9. /\ \A c \in Chan, g \in Fd : c \notin entered => view'[g][c] = view[g][c]
      /\ \A c \in entered, g \in Fd :
            view'[g][c] = IF g = f THEN ViewOnEntry(c)
                          ELSE IF g \in channels[c].members THEN Entered(view[g][c], Nick(f))
                          ELSE view[g][c]
  <2>1. \A c \in Chan, g \in Fd :
            view'[g][c] = IF f \in channels[c].members \/ f \notin channels'[c].members
                             THEN view[g][c]
                          ELSE IF g = f THEN ViewOnEntry(c)
                          ELSE IF g \in channels[c].members THEN Entered(view[g][c], Nick(f))
                          ELSE view[g][c]
    BY DEF Join
  <2> QED
    BY <1>3, <1>7, <1>8, <2>1
<1>10. ASSUME NEW c \in entered
       PROVE  /\ ViewOnEntry(c) \in ViewType
              /\ ViewOnEntry(c).inside
              /\ ViewOnEntry(c).topic = channels[c].topic
              /\ \A h \in channels'[c].members :
                    /\ Nick(h) \in ViewOnEntry(c).names
                    /\ Nick(h) \in ViewOnEntry(c).operators <=> h \in channels'[c].operators
  <2> DEFINE v == [NoView EXCEPT !.inside = TRUE, !.topic = channels[c].topic]
  <2>1. c \in Chan /\ channels[c].topic \in Text
    BY <1>1, <1>3, WordsAssumption DEF ChannelType, Text
  <2>2. v \in ViewType /\ v.inside /\ v.topic = channels[c].topic
    BY <2>1 DEF NoView, ViewType
  <2>3. /\ channels'[c] \in ChannelType
        /\ channels'[c].members \subseteq live
        /\ channels'[c].operators \subseteq channels'[c].members
    BY <1>2, <2>1, SoundFacts DEF Sound, Consistent, TypeOK, NoStaleMember
  <2>4. \A g \in channels'[c].members, h \in live : Nick(g) = Nick(h) => g = h
    <3>1. \A g \in channels[c].members, h \in live : Nick(g) = Nick(h) => g = h
      BY <2>1, SoundFacts
    <3>2. \A h \in live : Nick(f) = Nick(h) => f = h
      <4>1. clients[f].registered
        BY DEF Join, handleJoin, MayCommand
      <4> QED
        BY <1>2, <4>1 DEF Sound, NicksUnique, CredentialsBeforeRegistration, Nick
    <3> QED
      BY <1>8, <3>1, <3>2
  <2>5. ViewOnEntry(c) = getNamesList(v, channels'[c])
    BY DEF ViewOnEntry
  <2> HIDE DEF v
  <2> QED
    BY <2>2, <2>3, <2>4, <2>5, NamesEffect
<1>11. Nick(f) \in Text /\ \A g \in Fd, c \in Chan : view[g][c] \in ViewType
  BY <1>1, SoundFacts
<1>12. \A v \in ViewType : /\ Entered(v, Nick(f)) \in ViewType
                           /\ Entered(v, Nick(f)).inside = v.inside
                           /\ Entered(v, Nick(f)).topic = v.topic
                           /\ Entered(v, Nick(f)).names = v.names \cup {Nick(f)}
                           /\ Entered(v, Nick(f)).operators = v.operators \ {Nick(f)}
  BY <1>11, EnteredEffect
<1>13. ViewsTyped'
  <2>1. \A g \in Fd, c \in Chan : view'[g][c] \in ViewType
    BY <1>9, <1>10, <1>11, <1>12
  <2>2. view' \in [Fd -> [Chan -> ViewType]]
    BY <2>1 DEF Join
  <2> QED
    BY <1>2, <2>2 DEF WellInformed, ViewsTyped
<1>14. \A g \in Fd, c \in Chan : g \notin live => view'[g][c] = view[g][c]
  BY <1>2, <1>3, <1>9, SoundFacts
<1>15. AbsentKnowNothing'
  BY <1>2, <1>14 DEF WellInformed, AbsentKnowNothing
<1>16. InsideKnown'
  <2> SUFFICES ASSUME NEW g \in live, NEW c \in Chan, ~HasQuit(g)
               PROVE  view'[g][c].inside <=> g \in channels'[c].members
    BY <1>2, <1>4, SoundFacts DEF InsideKnown
  <2>1. g \in Fd /\ (view[g][c].inside <=> g \in channels[c].members)
    BY SoundFacts DEF WellInformed, InsideKnown
  <2>2. CASE c \notin entered
    BY <1>7, <1>9, <2>1, <2>2
  <2>3. CASE c \in entered /\ g = f
    BY <1>8, <1>9, <1>10, <2>3
  <2>4. CASE c \in entered /\ g # f
    BY <1>8, <1>9, <1>11, <1>12, <2>1, <2>4
  <2> QED
    BY <2>2, <2>3, <2>4
<1>17. ASSUME NEW c \in Chan, NEW g \in Present(c)', NEW h \in Present(c)'
       PROVE  /\ \/ view'[g][c].topic = channels'[c].topic
                 \/ channels'[c].topic # Empty /\ view'[g][c].topic = Told[channels'[c].topic]
              /\ Nick(h)' \in view'[g][c].names
              /\ c \notin untold => (Nick(h)' \in view'[g][c].operators <=> h \in channels'[c].operators)
  <2>1. /\ g \in channels'[c].members /\ h \in channels'[c].members
        /\ g \in Fd /\ h \in Fd /\ h \in live
        /\ g \in channels[c].members => g \in Present(c)
        /\ h \in channels[c].members => h \in Present(c)
    <3>1. channels'[c].members \subseteq live /\ live \subseteq Fd
      BY <1>2, SoundFacts DEF Sound, Consistent, TypeOK, NoStaleMember
    <3>2. g \in channels'[c].members /\ ~HasQuit(g)' /\ h \in channels'[c].members /\ ~HasQuit(h)'
      BY DEF Present
    <3> QED
      BY <1>4, <3>1, <3>2 DEF Present
  <2>2. /\ Nick(h)' = Nick(h)
        /\ channels'[c].topic = channels[c].topic
    BY <1>4, <1>6, <2>1
  <2>3. CASE c \notin entered
    <3>1. g \in Present(c) /\ h \in Present(c) /\ channels'[c] = channels[c] /\ view'[g][c] = view[g][c]
      BY <1>7, <1>9, <2>1, <2>3
    <3> QED
      BY <2>2, <3>1 DEF WellInformed, NoHiddenMember, TopicTold, RanksTold
  <2>4. CASE c \in entered /\ g = f
    BY <1>9, <1>10, <2>1, <2>2, <2>4
  <2>5. CASE c \in entered /\ g # f
    <3>1. /\ g \in Present(c) /\ g \in channels[c].members
          /\ view'[g][c] = Entered(view[g][c], Nick(f))
          /\ view[g][c] \in ViewType
      BY <1>8, <1>9, <1>11, <2>1, <2>5
    <3>2. \/ view[g][c].topic = channels[c].topic
          \/ channels[c].topic # Empty /\ view[g][c].topic = Told[channels[c].topic]
      BY <3>1 DEF WellInformed, TopicTold
    <3>3. CASE h = f
      <4>1. f \notin channels'[c].operators
        BY <1>8, <2>5, <3>1
      <4> QED
        BY <1>12, <2>2, <3>1, <3>2, <3>3, <4>1
    <3>4. CASE h # f
      <4>1. /\ h \in channels[c].members
            /\ h \in Present(c)
            /\ h \in channels'[c].operators <=> h \in channels[c].operators
        BY <1>8, <2>1, <2>5, <3>4
      <4>2. Nick(h) # Nick(f)
        BY <1>2, <3>4, <4>1, SoundFacts
      <4>3. /\ Nick(h) \in view[g][c].names
            /\ c \notin untold => (Nick(h) \in view[g][c].operators <=> h \in channels[c].operators)
        BY <3>1, <4>1 DEF WellInformed, NoHiddenMember, RanksTold
      <4> QED
        BY <1>12, <2>2, <3>1, <3>2, <4>1, <4>2, <4>3
    <3> QED
      BY <3>3, <3>4
  <2> QED
    BY <2>3, <2>4, <2>5
<1>18. NoHiddenMember'
  BY <1>17 DEF NoHiddenMember
<1>19. TopicTold'
  BY <1>17 DEF TopicTold
<1>20. \A c \in Chan \ untold' : RanksTold(c)'
  BY <1>2, <1>17 DEF RanksTold
<1> QED
  BY <1>13, <1>15, <1>16, <1>18, <1>19, <1>20 DEF WellInformed

\* All members hear of a new topic.
LEMMA SetTopicInforms ==
    ASSUME Sound, WellInformed, NEW f \in Fd, NEW name \in ChanWord, NEW t \in TopicWord,
           SetTopic(f, name, t)
    PROVE  WellInformed'
<1> DEFINE c == Lower[name]
<1>1. /\ channels \in [Chan -> ChannelType]
      /\ view \in [Fd -> [Chan -> ViewType]]
      /\ c \in Chan
  BY LowerTypes DEF Sound, Consistent, TypeOK, WellInformed, ViewsTyped
<1>2. /\ live' = live /\ clients' = clients
      /\ announced' = announced /\ untold' = untold
      /\ channels' = [channels EXCEPT ![c].topic = t]
  BY DEF SetTopic, handleTopic, OnlyTells
<1>3. \A g \in Fd, d \in Chan :
          view'[g][d] = IF d = c /\ g \in channels[d].members
                           THEN [view[g][d] EXCEPT !.topic = Told[t]] ELSE view[g][d]
  BY DEF SetTopic
<1> HIDE DEF c
<1>4. t # Empty /\ Told[t] \in STRING
  BY WordsAssumption, ViewsAssumption
<1>5. \A v \in ViewType : /\ [v EXCEPT !.topic = Told[t]] \in ViewType
                          /\ [v EXCEPT !.topic = Told[t]].inside = v.inside
                          /\ [v EXCEPT !.topic = Told[t]].names = v.names
                          /\ [v EXCEPT !.topic = Told[t]].operators = v.operators
                          /\ [v EXCEPT !.topic = Told[t]].topic = Told[t]
  BY <1>4 DEF ViewType
<1>6. \A g \in Fd, d \in Chan : view[g][d] \in ViewType
  BY <1>1
<1>7. \A d \in Chan : /\ channels'[d].members = channels[d].members
                      /\ channels'[d].operators = channels[d].operators
                      /\ d # c => channels'[d].topic = channels[d].topic
                      /\ d = c => channels'[d].topic = t
  BY <1>1, <1>2 DEF ChannelType
<1>8. \A g \in Fd, d \in Chan :
          /\ view'[g][d] \in ViewType
          /\ view'[g][d].inside = view[g][d].inside
          /\ view'[g][d].names = view[g][d].names
          /\ view'[g][d].operators = view[g][d].operators
          /\ d = c /\ g \in channels[d].members => view'[g][d].topic = Told[t]
          /\ d # c => view'[g][d].topic = view[g][d].topic
          /\ g \notin live => view'[g][d] = view[g][d]
  <2> SUFFICES ASSUME NEW g \in Fd, NEW d \in Chan
               PROVE  /\ view'[g][d] \in ViewType
                      /\ view'[g][d].inside = view[g][d].inside
                      /\ view'[g][d].names = view[g][d].names
                      /\ view'[g][d].operators = view[g][d].operators
                      /\ d = c /\ g \in channels[d].members => view'[g][d].topic = Told[t]
                      /\ d # c => view'[g][d].topic = view[g][d].topic
                      /\ g \notin live => view'[g][d] = view[g][d]
    OBVIOUS
  <2>1. CASE d = c /\ g \in channels[d].members
    <3>1. view'[g][d] = [view[g][d] EXCEPT !.topic = Told[t]] /\ g \in live
      BY <1>3, <2>1, SoundFacts
    <3> QED
      BY <1>5, <1>6, <2>1, <3>1
  <2>2. CASE ~(d = c /\ g \in channels[d].members)
    BY <1>3, <1>6, <2>2
  <2> QED
    BY <2>1, <2>2
<1>9. \A g \in Fd : Nick(g)' = Nick(g) /\ HasQuit(g)' = HasQuit(g)
  BY <1>2 DEF Nick, HasQuit
<1>10. \A d \in Chan : \A g \in Present(d)' :
           g \in Present(d) /\ g \in Fd /\ g \in channels[d].members
  BY <1>7, <1>9, SoundFacts DEF Present
<1>11. ViewsTyped'
  <2>1. view' \in [Fd -> [Chan -> ViewType]]
    BY <1>8 DEF SetTopic
  <2> QED
    BY <1>2, <2>1 DEF WellInformed, ViewsTyped
<1>12. AbsentKnowNothing'
  BY <1>2, <1>8 DEF WellInformed, AbsentKnowNothing
<1>13. InsideKnown'
  BY <1>2, <1>7, <1>8, <1>9, SoundFacts DEF WellInformed, InsideKnown
<1>14. NoHiddenMember'
  BY <1>8, <1>9, <1>10 DEF WellInformed, NoHiddenMember
<1>15. TopicTold'
  BY <1>4, <1>7, <1>8, <1>10 DEF WellInformed, TopicTold
<1>16. \A d \in Chan \ untold' : RanksTold(d)'
  BY <1>2, <1>7, <1>8, <1>9, <1>10 DEF WellInformed, RanksTold
<1> QED
  BY <1>11, <1>12, <1>13, <1>14, <1>15, <1>16 DEF WellInformed

\* A reply to f about the channel c that is true of it, and changes no table.
LEMMA AnswerInforms ==
    ASSUME Sound, WellInformed, UNCHANGED <<vars, announced, untold>>,
           NEW f \in Fd, NEW c \in Chan, f \in channels[c].members,
           NEW v \in ViewType, view' = [view EXCEPT ![f][c] = v],
           v.inside = view[f][c].inside,
           v.topic \in {view[f][c].topic, channels[c].topic},
           \A h \in channels[c].members :
              /\ Nick(h) \in view[f][c].names => Nick(h) \in v.names
              /\ \/ Nick(h) \in v.operators <=> Nick(h) \in view[f][c].operators
                 \/ Nick(h) \in v.operators <=> h \in channels[c].operators
    PROVE  WellInformed'
<1>1. view \in [Fd -> [Chan -> ViewType]]
  BY DEF WellInformed, ViewsTyped
<1>2. /\ live' = live /\ clients' = clients /\ channels' = channels
      /\ announced' = announced /\ untold' = untold
  BY DEF vars
<1>3. /\ view' \in [Fd -> [Chan -> ViewType]]
      /\ view'[f][c] = v
      /\ \A g \in Fd, d \in Chan : g # f \/ d # c => view'[g][d] = view[g][d]
  BY <1>1
<1>4. \A d \in Chan : Present(d)' = Present(d) /\ Present(d) \subseteq channels[d].members
                      /\ Present(d) \subseteq Fd
  BY <1>2, SoundFacts DEF Present, HasQuit
<1>5. \A g \in Fd : Nick(g)' = Nick(g) /\ HasQuit(g)' = HasQuit(g)
  BY <1>2 DEF Nick, HasQuit
<1>6. ViewsTyped'
  BY <1>2, <1>3 DEF WellInformed, ViewsTyped
<1>7. AbsentKnowNothing'
  BY <1>2, <1>3, SoundFacts DEF WellInformed, AbsentKnowNothing
<1>8. InsideKnown'
  BY <1>2, <1>3, <1>5, SoundFacts DEF WellInformed, InsideKnown
<1>9. NoHiddenMember'
  BY <1>3, <1>4, <1>5 DEF WellInformed, NoHiddenMember
<1>10. TopicTold'
  BY <1>2, <1>3, <1>4 DEF WellInformed, TopicTold
<1>11. \A d \in Chan \ untold' : RanksTold(d)'
  BY <1>2, <1>3, <1>4, <1>5 DEF WellInformed, RanksTold
<1> QED
  BY <1>6, <1>7, <1>8, <1>9, <1>10, <1>11 DEF WellInformed

\* TOPIC, NAMES and WHO without anything to set.
LEMMA AskInforms ==
    ASSUME Sound, WellInformed, NEW f \in Fd, NEW c \in Chan,
           AskTopic(f, c) \/ AskNames(f, c) \/ AskWho(f, c)
    PROVE  WellInformed'
<1> DEFINE v == view[f][c]
           ch == channels[c]
<1>1. /\ v \in ViewType
      /\ view \in [Fd -> [Chan -> ViewType]]
      /\ ch \in ChannelType
      /\ ch.topic \in Text
  BY SoundFacts, WordsAssumption DEF WellInformed, ViewsTyped, ChannelType, Text
<1>2. f \in ch.members /\ UNCHANGED <<vars, announced, untold>>
  BY DEF AskTopic, AskNames, AskWho
<1>3. \A u \in ViewType :
          /\ getNamesList(u, ch) \in ViewType
          /\ getNamesList(u, ch).inside = u.inside
          /\ getNamesList(u, ch).topic = u.topic
          /\ \A h \in ch.members : /\ Nick(h) \in getNamesList(u, ch).names
                                   /\ Nick(h) \in getNamesList(u, ch).operators <=> h \in ch.operators
  <2>1. /\ ch.members \subseteq live /\ ch.operators \subseteq ch.members
        /\ \A g \in ch.members, h \in live : Nick(g) = Nick(h) => g = h
    BY SoundFacts
  <2> HIDE DEF ch
  <2> QED
    BY <1>1, <2>1, NamesEffect
<1>4. CASE AskTopic(f, c)
  <2> DEFINE u == [v EXCEPT !.topic = ch.topic]
  <2>1. /\ u \in ViewType /\ u.inside = v.inside /\ u.topic = ch.topic
        /\ u.names = v.names /\ u.operators = v.operators
    BY <1>1 DEF ViewType
  <2>2. view' = [view EXCEPT ![f][c] = u]
    BY <1>4 DEF AskTopic
  <2> HIDE DEF u
  <2> QED
    BY <1>2, <2>1, <2>2, AnswerInforms
<1>5. CASE AskNames(f, c)
  <2> DEFINE u == getNamesList(v, ch)
  <2>1. view' = [view EXCEPT ![f][c] = u]
    BY <1>5 DEF AskNames
  <2>2. /\ u \in ViewType /\ u.inside = v.inside /\ u.topic = v.topic
        /\ \A h \in ch.members : Nick(h) \in u.names /\ (Nick(h) \in u.operators <=> h \in ch.operators)
    BY <1>1, <1>3
  <2> HIDE DEF u
  <2> QED
    BY <1>2, <2>1, <2>2, AnswerInforms
<1>6. CASE AskWho(f, c)
  <2> DEFINE listed == getNamesList(NoView, ch)
             u == [v EXCEPT !.names = @ \cup listed.names,
                            !.operators = (@ \ listed.names) \cup listed.operators]
  <2>1. view' = [view EXCEPT ![f][c] = u]
    <3>1. view' = [view EXCEPT ![f][c].names = @ \cup listed.names,
                               ![f][c].operators = (@ \ listed.names) \cup listed.operators]
      BY <1>6 DEF AskWho
    <3> HIDE DEF listed
    <3> QED
      BY <1>1, <3>1 DEF ViewType
  <2>2. /\ listed \in ViewType
        /\ \A h \in ch.members : /\ Nick(h) \in listed.names
                                 /\ Nick(h) \in listed.operators <=> h \in ch.operators
    BY <1>3, NoViewFacts
  <2> HIDE DEF listed
  <2>3. /\ u \in ViewType /\ u.inside = v.inside /\ u.topic = v.topic
        /\ u.names = v.names \cup listed.names
        /\ u.operators = (v.operators \ listed.names) \cup listed.operators
    BY <1>1, <2>2 DEF ViewType
  <2> HIDE DEF u
  <2>4. \A h \in ch.members : Nick(h) \in u.names /\ (Nick(h) \in u.operators <=> h \in ch.operators)
    BY <2>2, <2>3
  <2> QED
    BY <1>2, <2>1, <2>3, <2>4, AnswerInforms
<1> QED
  BY <1>4, <1>5, <1>6

\* All that is done while no MODE is in progress.
LEMMA IdleInforms ==
    ASSUME Sound, Sound', WellInformed, NEW f \in Fd,
           Session(f) \/ Command(f),
           ~ \E name \in ChanWord, req \in ModeRequest : StartMode(f, name, req)
    PROVE  WellInformed'
<1>1. CASE Session(f)
  BY <1>1, AcceptInforms, LoseClientInforms DEF Session
<1>2. CASE Command(f)
  BY <1>2, RegisterInforms, ChangeNickInforms, QuitInforms, JoinInforms, PartInforms, AskInforms,
     KickInforms, InviteInforms, SetTopicInforms, ViewsAssumption DEF Command
<1> QED
  BY <1>1, <1>2

-----------------------------------------------------------------------------
(* How the line of a MODE is read.                                         *)

\* What a reader of a MODE line has in hand.
Reading == [adding : BOOLEAN, next : Nat \ {0}, ops : SUBSET Text]

\* A character leaves a reader with a reading.
LEMMA ReadModeType ==
    ASSUME NEW acc \in Reading, NEW m, NEW names \in SUBSET Text, NEW ps
    PROVE  ReadMode(acc, m, names, ps) \in Reading
<1>1. PICK n : ReadMode(acc, m, names, ps) =
          [adding |-> IF m \in {"+", "-"} THEN m = "+" ELSE acc.adding,
           next |-> IF m = "o" \/ (m \in {"k", "l"} /\ acc.adding) THEN acc.next + 1 ELSE acc.next,
           ops |-> IF m # "o" \/ n \notin names THEN acc.ops
                   ELSE IF acc.adding THEN acc.ops \cup {n} ELSE acc.ops \ {n}]
  BY DEF ReadMode
<1>2. acc.adding \in BOOLEAN /\ acc.next \in Nat \ {0} /\ acc.ops \subseteq Text
  BY DEF Reading
<1>3. (IF m \in {"+", "-"} THEN m = "+" ELSE acc.adding) \in BOOLEAN
  BY <1>2
<1>4. (IF m = "o" \/ (m \in {"k", "l"} /\ acc.adding) THEN acc.next + 1 ELSE acc.next) \in Nat \ {0}
  BY <1>2
<1>5. (IF m # "o" \/ n \notin names THEN acc.ops
       ELSE IF acc.adding THEN acc.ops \cup {n} ELSE acc.ops \ {n}) \subseteq Text
  BY <1>2
<1> QED
  BY <1>1, <1>3, <1>4, <1>5 DEF Reading

\* Readings one after the other.
LEMMA ReadingExists ==
    ASSUME NEW a \in Reading, NEW N \in Nat, NEW T \in [1 .. N -> [Reading -> Reading]]
    PROVE  \E r \in [0 .. N -> Reading] : /\ r[0] = a
                                          /\ \A n \in 1 .. N : r[n] = T[n][r[n - 1]]
  BY Recursion

\* r is what a reader has made of the modes after each of them.
IsReading(r, v, ms, ps) ==
    /\ r \in [0 .. Len(ms) -> Reading]
    /\ r[0] = [adding |-> TRUE, next |-> 1, ops |-> v.operators]
    /\ \A n \in 1 .. Len(ms) : r[n] = ReadMode(r[n - 1], ms[n], v.names, ps)
    /\ ReadModes(v, ms, ps) = r[Len(ms)]

\* A reader takes one character after the other.
LEMMA ReadingSteps ==
    ASSUME NEW v \in ViewType, NEW ms \in Seq(Letter), NEW ps
    PROVE  \E r : IsReading(r, v, ms, ps)
<1> DEFINE a == [adding |-> TRUE, next |-> 1, ops |-> v.operators]
           N == Len(ms)
           T == [n \in 1 .. N |-> [acc \in Reading |-> ReadMode(acc, ms[n], v.names, ps)]]
           F(r) == [n \in 0 .. N |-> IF n = 0 THEN a ELSE ReadMode(r[n - 1], ms[n], v.names, ps)]
<1>1. a \in Reading /\ N \in Nat /\ v.names \in SUBSET Text
  BY DEF Reading, ViewType
<1>2. \A n \in 1 .. N, acc \in Reading : ReadMode(acc, ms[n], v.names, ps) \in Reading
  BY <1>1, ReadModeType
<1>3. T \in [1 .. N -> [Reading -> Reading]]
  BY <1>2
<1>4. PICK r \in [0 .. N -> Reading] :
          r[0] = a /\ \A n \in 1 .. N : r[n] = T[n][r[n - 1]]
  <2>1. a \in Reading
    BY <1>1
  <2>2. N \in Nat
    BY <1>1
  <2> HIDE DEF a, N, T
  <2> QED
    BY <1>3, <2>1, <2>2, ReadingExists
<1>5. \A n \in 1 .. N : r[n - 1] \in Reading
  BY <1>1
<1>6. r = F(r)
  <2>1. \A n \in 1 .. N : r[n] = ReadMode(r[n - 1], ms[n], v.names, ps)
    <3> SUFFICES ASSUME NEW n \in 1 .. N
                 PROVE  r[n] = ReadMode(r[n - 1], ms[n], v.names, ps)
      OBVIOUS
    <3>1. T[n][r[n - 1]] = ReadMode(r[n - 1], ms[n], v.names, ps)
      BY <1>5
    <3> QED
      BY <1>4, <3>1
  <2> HIDE DEF a, N
  <2> QED
    BY <1>1, <1>4, <2>1
<1>7. ReadModes(v, ms, ps) = (CHOOSE read : read = F(read))[N]
  BY DEF ReadModes
<1> DEFINE q == CHOOSE read : read = F(read)
<1>8. q = F(q)
  BY <1>6
<1>9. /\ q[0] = a
      /\ \A n \in 1 .. N : q[n] = ReadMode(q[n - 1], ms[n], v.names, ps)
  <2> HIDE DEF q, a
  <2> QED
    BY <1>1, <1>8
<1>10. q \in [0 .. N -> Reading]
  <2> DEFINE S == {n \in Nat : n <= N => q[n] \in Reading}
  <2>1. 0 \in S
    BY <1>1, <1>9
  <2>2. ASSUME NEW n \in Nat, n \in S
        PROVE  n + 1 \in S
    <3> HIDE DEF q, a, N
    <3> SUFFICES ASSUME n + 1 <= N
                 PROVE  q[n + 1] \in Reading
      OBVIOUS
    <3>1. q[n] \in Reading /\ n + 1 \in 1 .. N
      BY <1>1, <2>2
    <3>2. q[n + 1] = ReadMode(q[(n + 1) - 1], ms[n + 1], v.names, ps)
      BY <1>9, <3>1
    <3>3. (n + 1) - 1 = n
      OBVIOUS
    <3> QED
      BY <1>2, <3>1, <3>2, <3>3
  <2>3. \A n \in Nat : n \in S
    <3> HIDE DEF S
    <3> QED
      BY <2>1, <2>2, SetInduction
  <2>4. \A n \in 0 .. N : q[n] \in Reading
    BY <2>3, <1>1
  <2> QED
    BY <1>8, <2>4
<1> HIDE DEF q
<1> QED
  BY <1>7, <1>9, <1>10 DEF q, IsReading

\* Whoever has read the modes has a reading.
LEMMA ReadingType ==
    ASSUME NEW v \in ViewType, NEW ms \in Seq(Letter), NEW ps
    PROVE  ReadModes(v, ms, ps) \in Reading
<1>1. PICK r : IsReading(r, v, ms, ps)
  BY ReadingSteps
<1>2. Len(ms) \in 0 .. Len(ms)
  OBVIOUS
<1> QED
  BY <1>1, <1>2 DEF IsReading

\* A line without modes changes nothing.
LEMMA ReadNothing ==
    ASSUME NEW v \in ViewType, NEW ps
    PROVE  ReadModes(v, <<>>, ps) = [adding |-> TRUE, next |-> 1, ops |-> v.operators]
<1>1. <<>> \in Seq(Letter) /\ Len(<<>>) = 0
  OBVIOUS
<1>2. PICK r : IsReading(r, v, <<>>, ps)
  BY <1>1, ReadingSteps
<1> QED
  BY <1>1, <1>2 DEF IsReading

\* Modes without an o leave the ranks as they are.
LEMMA ReadNoRanks ==
    ASSUME NEW v \in ViewType, NEW ms \in Seq(Letter), NEW ps,
           \A k \in 1 .. Len(ms) : ms[k] # "o"
    PROVE  ReadModes(v, ms, ps).ops = v.operators
<1>0. PICK r : IsReading(r, v, ms, ps)
  BY ReadingSteps
<1>1. /\ r \in [0 .. Len(ms) -> Reading]
      /\ r[0] = [adding |-> TRUE, next |-> 1, ops |-> v.operators]
      /\ \A n \in 1 .. Len(ms) : r[n] = ReadMode(r[n - 1], ms[n], v.names, ps)
      /\ ReadModes(v, ms, ps) = r[Len(ms)]
  BY <1>0 DEF IsReading
<1>2. \A acc \in Reading : \A m : m # "o" => ReadMode(acc, m, v.names, ps).ops = acc.ops
  BY DEF ReadMode
<1> DEFINE S == {n \in Nat : n <= Len(ms) => r[n].ops = v.operators}
<1>3. 0 \in S
  BY <1>1
<1>4. ASSUME NEW n \in Nat, n \in S
      PROVE  n + 1 \in S
  <2> SUFFICES ASSUME n + 1 <= Len(ms)
               PROVE  r[n + 1].ops = v.operators
    OBVIOUS
  <2>1. r[n] \in Reading /\ r[n].ops = v.operators /\ n + 1 \in 1 .. Len(ms) /\ (n + 1) - 1 = n
    BY <1>1, <1>4
  <2>2. r[n + 1] = ReadMode(r[n], ms[n + 1], v.names, ps)
    BY <1>1, <2>1
  <2> QED
    BY <1>2, <2>1, <2>2
<1>5. \A n \in Nat : n \in S
  <2> HIDE DEF S
  <2> QED
    BY <1>3, <1>4, SetInduction
<1> QED
  BY <1>1, <1>5

\* A mode more, with its parameters behind those of the others, is read after
\* the others and changes nothing in how they are read.
LEMMA ReadAppend ==
    ASSUME NEW v \in ViewType, NEW ms \in Seq(Letter), NEW m \in Letter,
           NEW ps \in Seq(Text), NEW more \in Seq(Text),
           ReadModes(v, ms, ps).next = Len(ps) + 1
    PROVE  ReadModes(v, Append(ms, m), ps \o more)
               = ReadMode(ReadModes(v, ms, ps), m, v.names, ps \o more)
<1> DEFINE N == Len(ms)
           all == ps \o more
<1>0. PICK r : IsReading(r, v, ms, ps)
  BY ReadingSteps
<1>1. /\ r \in [0 .. N -> Reading]
      /\ r[0] = [adding |-> TRUE, next |-> 1, ops |-> v.operators]
      /\ \A n \in 1 .. N : r[n] = ReadMode(r[n - 1], ms[n], v.names, ps)
      /\ ReadModes(v, ms, ps) = r[N]
  BY <1>0 DEF IsReading
<1>2. /\ Append(ms, m) \in Seq(Letter)
      /\ Len(Append(ms, m)) = N + 1
      /\ \A n \in 1 .. N : Append(ms, m)[n] = ms[n]
      /\ Append(ms, m)[N + 1] = m
      /\ N \in Nat
  OBVIOUS
<1>3. /\ Len(ps) \in Nat /\ Len(all) \in Nat /\ Len(ps) <= Len(all)
      /\ \A k \in 1 .. Len(ps) : all[k] = ps[k]
  OBVIOUS
<1>3a. PICK q : IsReading(q, v, Append(ms, m), all)
  <2>1. Append(ms, m) \in Seq(Letter)
    BY <1>2
  <2> QED
    BY <2>1, ReadingSteps
<1>4. /\ q \in [0 .. N + 1 -> Reading]
      /\ q[0] = [adding |-> TRUE, next |-> 1, ops |-> v.operators]
      /\ \A n \in 1 .. N + 1 : q[n] = ReadMode(q[n - 1], Append(ms, m)[n], v.names, all)
      /\ ReadModes(v, Append(ms, m), all) = q[N + 1]
  BY <1>2, <1>3a DEF IsReading
<1> HIDE DEF all
<1>5. \A acc \in Reading : \A k : \/ ReadMode(acc, k, v.names, ps).next = acc.next
                                  \/ ReadMode(acc, k, v.names, ps).next = acc.next + 1
  BY DEF ReadMode
<1>6. \A n \in 0 .. N : r[n].next <= Len(ps) + 1
  <2> DEFINE S == {k \in Nat : k <= N => r[N - k].next <= Len(ps) + 1}
  <2>1. 0 \in S
    BY <1>1, <1>2, <1>3
  <2>2. ASSUME NEW k \in Nat, k \in S
        PROVE  k + 1 \in S
    <3> SUFFICES ASSUME k + 1 <= N
                 PROVE  r[N - (k + 1)].next <= Len(ps) + 1
      OBVIOUS
    <3> DEFINE n == N - k
    <3>1. n \in 1 .. N /\ n - 1 = N - (k + 1) /\ r[n].next <= Len(ps) + 1 /\ n - 1 \in 0 .. N
      BY <1>2, <2>2
    <3> HIDE DEF n, N
    <3>2. r[n] = ReadMode(r[n - 1], ms[n], v.names, ps) /\ r[n - 1] \in Reading
      BY <1>1, <3>1
    <3>3. r[n - 1].next \in Nat
      BY <3>2 DEF Reading
    <3>4. r[n].next = r[n - 1].next \/ r[n].next = r[n - 1].next + 1
      BY <1>5, <3>2
    <3>5. r[n - 1].next <= Len(ps) + 1
      BY <1>3, <3>1, <3>3, <3>4
    <3> QED
      BY <3>1, <3>5
  <2>3. \A k \in Nat : k \in S
    <3> HIDE DEF S
    <3> QED
      BY <2>1, <2>2, SetInduction
  <2> SUFFICES ASSUME NEW n \in 0 .. N
               PROVE  r[n].next <= Len(ps) + 1
    OBVIOUS
  <2>4. N - n \in Nat /\ N - n <= N /\ N - (N - n) = n
    BY <1>2
  <2>5. N - n \in S
    BY <2>3, <2>4
  <2> QED
    BY <2>4, <2>5
<1>7. \A n \in 0 .. N : q[n] = r[n]
  <2> DEFINE S == {n \in Nat : n <= N => q[n] = r[n]}
  <2>1. 0 \in S
    BY <1>1, <1>4
  <2>2. ASSUME NEW n \in Nat, n \in S
        PROVE  n + 1 \in S
    <3> SUFFICES ASSUME n + 1 <= N
                 PROVE  q[n + 1] = r[n + 1]
      OBVIOUS
    <3>1. n + 1 \in 1 .. N /\ n + 1 \in 1 .. N + 1 /\ n \in 0 .. N /\ (n + 1) - 1 = n /\ q[n] = r[n]
      BY <1>2, <2>2
    <3> HIDE DEF N
    <3>2. /\ r[n + 1] = ReadMode(r[n], ms[n + 1], v.names, ps)
          /\ q[n + 1] = ReadMode(r[n], ms[n + 1], v.names, all)
      BY <1>1, <1>2, <1>4, <3>1
    <3>3. r[n] \in Reading /\ r[n].next \in Nat \ {0}
      BY <1>1, <3>1 DEF Reading
    <3> DEFINE takes == ms[n + 1] = "o" \/ (ms[n + 1] \in {"k", "l"} /\ r[n].adding)
    <3>4. takes => r[n].next <= Len(ps)
      <4>1. takes => r[n + 1].next = r[n].next + 1
        BY <3>2 DEF ReadMode
      <4>2. r[n + 1].next <= Len(ps) + 1
        BY <1>6, <3>1
      <4> QED
        BY <1>3, <3>3, <4>1, <4>2
    <3>5. CASE ~takes
      BY <3>2, <3>5 DEF ReadMode
    <3>6. CASE takes
      <4>1. r[n].next <= Len(ps) /\ r[n].next <= Len(all)
        BY <1>3, <3>3, <3>4, <3>6
      <4>2. all[r[n].next] = ps[r[n].next]
        BY <1>3, <3>3, <4>1
      <4> QED
        BY <3>2, <3>6, <4>1, <4>2 DEF ReadMode
    <3> QED
      BY <3>5, <3>6
  <2>3. \A n \in Nat : n \in S
    <3> HIDE DEF S
    <3> QED
      BY <2>1, <2>2, SetInduction
  <2> QED
    BY <2>3
<1>8. N + 1 \in 1 .. N + 1 /\ (N + 1) - 1 = N /\ N \in 0 .. N
  BY <1>2
<1>9. q[N + 1] = ReadMode(q[N], m, v.names, all)
  BY <1>2, <1>4, <1>8
<1> QED
  BY <1>1, <1>4, <1>7, <1>8, <1>9 DEF all

-----------------------------------------------------------------------------
(* The walk of a MODE and the line that tells of it.                       *)

\* What one character does to the channel and to the walk.
LEMMA ModeStepEffect ==
    ASSUME Sound, NEW w \in running, ModeStep(w)
    PROVE  /\ w \in ModeWalk /\ Head(w.todo) \in STRING
           /\ live' = live /\ clients' = clients /\ chans' = chans
           /\ \A c \in Chan : /\ channels'[c].members = channels[c].members
                              /\ channels'[c].topic = channels[c].topic
                              /\ c # w.chan => channels'[c] = channels[c]
           /\ Head(w.todo) # "o" => channels'[w.chan].operators = channels[w.chan].operators
           /\ Head(w.todo) = "o" => \E g \in ClientsNamed(Head(w.params)) :
                  channels'[w.chan].operators =
                      IF ~w.adding THEN channels[w.chan].operators \ {g}
                      ELSE IF g \in channels[w.chan].members THEN channels[w.chan].operators \cup {g}
                      ELSE channels[w.chan].operators
           /\ Head(w.todo) = "o" \/ (Head(w.todo) = "k" /\ w.adding) => w.params # <<>>
           /\ \A u, v \in running' : u = v
           /\ \A u \in running' :
                 /\ u.chan = w.chan
                 /\ u.adding = IF Head(w.todo) \in {"+", "-"} THEN Head(w.todo) = "+" ELSE w.adding
<1> DEFINE m == Head(w.todo)
           c == w.chan
<1>1. TypeOK /\ channels \in [Chan -> ChannelType]
  BY DEF Sound, Consistent, TypeOK
<1>2. /\ w \in ModeWalk
      /\ w.todo \in Seq(STRING) /\ w.todo # <<>>
      /\ c \in Chan
  BY <1>1 DEF TypeOK, ModeWalk
<1>3. m \in STRING
  BY <1>2, HeadTailProperties
<1>4. channels[c] \in ChannelType
  BY <1>1, <1>2
<1>5. ASSUME NEW x \in ModeWalk, NEW params, Advance(x, params)
      PROVE  /\ \A u, v \in running' : u = v
             /\ \A u \in running' : u.chan = x.chan /\ u.adding = x.adding
  <2>1. CASE Len(x.todo) = 1
    BY <1>5, <2>1 DEF Advance
  <2>2. CASE Len(x.todo) # 1
    BY <1>5, <2>2 DEF Advance, ModeWalk
  <2> QED
    BY <2>1, <2>2
<1>6. /\ live' = live /\ clients' = clients /\ chans' = chans
  BY DEF ModeStep, ModeSign, ModeFlag, ModeKey, ModeOperator, ModeLimit, ModeUnknown
<1>7. ASSUME NEW ch, SetChannel(w, ch), ch.members = channels[c].members, ch.topic = channels[c].topic
      PROVE  /\ \A d \in Chan : /\ channels'[d].members = channels[d].members
                                /\ channels'[d].topic = channels[d].topic
                                /\ d # c => channels'[d] = channels[d]
             /\ channels'[c] = ch
  BY <1>1, <1>2, <1>7 DEF SetChannel
<1> HIDE DEF m, c
<1>8. CASE ModeSign(w)
  <2> DEFINE x == [w EXCEPT !.adding = (Head(w.todo) = "+")]
  <2>1. x \in ModeWalk /\ x.adding = (Head(w.todo) = "+") /\ x.chan = c
    BY <1>2 DEF ModeWalk, c
  <2>2. Advance(x, w.params) /\ m \in {"+", "-"} /\ channels' = channels
    BY <1>8 DEF ModeSign, m
  <2> HIDE DEF x
  <2> QED
    BY <1>2, <1>3, <1>5, <1>6, <2>1, <2>2 DEF m, c
<1>9. CASE ModeFlag(w)
  <2>1. Advance(w, w.params) /\ m \in {"i", "t"}
    BY <1>9 DEF ModeFlag, m
  <2>2. \E ch \in ChannelType : /\ SetChannel(w, ch)
                                /\ ch.members = channels[c].members
                                /\ ch.operators = channels[c].operators
                                /\ ch.topic = channels[c].topic
    BY <1>2, <1>4, <1>9 DEF ModeFlag, ChannelType, ModeWalk, c
  <2> QED
    BY <1>2, <1>3, <1>5, <1>6, <1>7, <2>1, <2>2 DEF m, c
<1>10. CASE ModeKey(w)
  <2>1. (\E params : Advance(w, params)) /\ m = "k" /\ (w.adding => w.params # <<>>)
    BY <1>10 DEF ModeKey, m
  <2>2. \E ch : /\ SetChannel(w, ch)
                /\ ch.members = channels[c].members
                /\ ch.operators = channels[c].operators
                /\ ch.topic = channels[c].topic
    BY <1>2, <1>4, <1>10 DEF ModeKey, ChannelType, c
  <2> QED
    BY <1>2, <1>3, <1>5, <1>6, <1>7, <2>1, <2>2 DEF m, c
<1>11. CASE ModeLimit(w)
  <2>1. (\E params : Advance(w, params)) /\ m = "l"
    BY <1>11 DEF ModeLimit, m
  <2>2. \E ch : /\ SetChannel(w, ch)
                /\ ch.members = channels[c].members
                /\ ch.operators = channels[c].operators
                /\ ch.topic = channels[c].topic
    BY <1>2, <1>4, <1>11 DEF ModeLimit, ChannelType, c
  <2> QED
    BY <1>2, <1>3, <1>5, <1>6, <1>7, <2>1, <2>2 DEF m, c
<1>12. CASE ModeUnknown(w)
  <2>1. Advance(w, w.params) /\ m \notin {"+", "-", "i", "t", "k", "o", "l"} /\ channels' = channels
    BY <1>12 DEF ModeUnknown, m
  <2> QED
    BY <1>2, <1>3, <1>5, <1>6, <2>1 DEF m, c
<1>13. CASE ModeOperator(w)
  <2>1. (\E params : Advance(w, params)) /\ m = "o" /\ w.params # <<>>
    BY <1>13 DEF ModeOperator, m
  <2>2. PICK g \in ClientsNamed(Head(w.params)) :
            SetChannel(w, IF w.adding THEN addOperator(channels[c], g)
                                      ELSE removeOperator(channels[c], g))
    BY <1>13 DEF ModeOperator, c
  <2> DEFINE ch == IF w.adding THEN addOperator(channels[c], g) ELSE removeOperator(channels[c], g)
  <2>3. /\ ch.members = channels[c].members
        /\ ch.topic = channels[c].topic
        /\ ch.operators = IF ~w.adding THEN channels[c].operators \ {g}
                          ELSE IF g \in channels[c].members THEN channels[c].operators \cup {g}
                          ELSE channels[c].operators
    BY <1>4 DEF addOperator, removeOperator, ChannelType
  <2>4. SetChannel(w, ch)
    BY <2>2
  <2> HIDE DEF ch
  <2>5. /\ \A d \in Chan : /\ channels'[d].members = channels[d].members
                           /\ channels'[d].topic = channels[d].topic
                           /\ d # c => channels'[d] = channels[d]
        /\ channels'[c].operators = IF ~w.adding THEN channels[c].operators \ {g}
                                    ELSE IF g \in channels[c].members
                                            THEN channels[c].operators \cup {g}
                                    ELSE channels[c].operators
    BY <1>7, <2>3, <2>4
  <2>6. /\ \A u, v \in running' : u = v
        /\ \A u \in running' : u.chan = c /\ u.adding = w.adding
    BY <1>2, <1>5, <2>1 DEF c
  <2>7. g \in ClientsNamed(Head(w.params))
    BY <2>2
  <2>8. \E h \in ClientsNamed(Head(w.params)) :
            channels'[c].operators = IF ~w.adding THEN channels[c].operators \ {h}
                                     ELSE IF h \in channels[c].members
                                             THEN channels[c].operators \cup {h}
                                     ELSE channels[c].operators
    BY <2>5, <2>7
  <2>9. \A u \in running' :
            u.chan = w.chan /\ u.adding = IF m \in {"+", "-"} THEN m = "+" ELSE w.adding
    BY <2>1, <2>6 DEF c
  <2>10. \A d \in Chan : /\ channels'[d].members = channels[d].members
                         /\ channels'[d].topic = channels[d].topic
                         /\ d # c => channels'[d] = channels[d]
    BY <2>5
  <2>11. /\ m # "o" => channels'[w.chan].operators = channels[w.chan].operators
         /\ m = "o" \/ (m = "k" /\ w.adding) => w.params # <<>>
    BY <2>1
  <2> QED
    BY <1>2, <1>3, <1>6, <2>6, <2>8, <2>9, <2>10, <2>11, Zenon DEF m, c
<1> QED
  BY <1>8, <1>9, <1>10, <1>11, <1>12, <1>13 DEF ModeStep

\* Sequences of one element and of three.
LEMMA ShortSequences ==
    ASSUME NEW S, NEW x \in S, NEW y \in S, NEW z \in S
    PROVE  /\ <<x>> \in Seq(S) /\ Len(<<x>>) = 1 /\ <<x>>[1] = x
           /\ <<x, y, z>> \in Seq(S) /\ Len(<<x, y, z>>) = 3
           /\ <<x, y, z>>[1] = x /\ <<x, y, z>>[2] = y /\ <<x, y, z>>[3] = z
<1>1. <<x>> \in Seq(S) /\ Len(<<x>>) = 1 /\ <<x>>[1] = x
  OBVIOUS
<1>2. <<x, y, z>> \in Seq(S) /\ Len(<<x, y, z>>) = 3
  OBVIOUS
<1>3. <<x, y, z>>[1] = x /\ <<x, y, z>>[2] = y /\ <<x, y, z>>[3] = z
  OBVIOUS
<1> QED
  BY <1>1, <1>2, <1>3

\* What one character adds to the announcement: most often itself.
LEMMA WordsEffect ==
    ASSUME NEW w \in ModeWalk, Head(w.todo) \in STRING,
           Head(w.todo) = "o" \/ (Head(w.todo) = "k" /\ w.adding) => w.params # <<>>
    PROVE  /\ Words(w) \in Seq(Letter)
           /\ WordParams(w) \in Seq(Word)
           /\ \/ \E k \in 1 .. Len(Words(w)) : Words(w)[k] = "space"
              \/ Words(w) = <<>> /\ Head(w.todo) \notin {"+", "-", "o", "k"}
              \/ Words(w) = <<Head(w.todo)>> /\ (Head(w.todo) = "l" => ~w.adding)
           /\ (\E k \in 1 .. Len(Words(w)) : Words(w)[k] = "o") <=> Head(w.todo) = "o"
           /\ WordParams(w) = IF Head(w.todo) = "o" \/ (Head(w.todo) = "k" /\ w.adding)
                                 THEN <<Head(w.params)>> ELSE <<>>
<1> DEFINE m == Head(w.todo)
<1>1. w.params \in Seq(Word) /\ (w.params # <<>> => Head(w.params) \in Word)
  BY HeadTailProperties DEF ModeWalk
<1>2. WordParams(w) = IF m = "o" \/ (m = "k" /\ w.adding) THEN <<Head(w.params)>> ELSE <<>>
  BY DEF WordParams
<1>3. WordParams(w) \in Seq(Word)
  BY <1>1, <1>2
<1>4. \/ Words(w) = <<>> /\ m \notin {"+", "-", "o", "k"}
      \/ Words(w) = <<m>> /\ (m = "l" => ~w.adding)
      \/ Words(w) = <<"space", "L", "l">> /\ m = "l"
  BY DEF Words
<1> HIDE DEF m
<1>5. m \in Letter
  BY DEF m, Letter
<1>6. CASE Words(w) = <<>> /\ m \notin {"+", "-", "o", "k"}
  BY <1>2, <1>3, <1>6 DEF m
<1>7. CASE Words(w) = <<m>> /\ (m = "l" => ~w.adding)
  <2> DEFINE ms == Words(w)
  <2>1. ms \in Seq(Letter) /\ Len(ms) = 1 /\ ms[1] = m
    BY <1>5, <1>7, ShortSequences
  <2>2. (\E k \in 1 .. Len(ms) : ms[k] = "o") <=> m = "o"
    <3> HIDE DEF ms
    <3>1. \A k \in 1 .. Len(ms) : k = 1
      BY <2>1
    <3>2. 1 \in 1 .. Len(ms)
      BY <2>1
    <3> QED
      BY <2>1, <3>1, <3>2
  <2> QED
    BY <1>2, <1>3, <1>7, <2>1, <2>2 DEF m
<1>8. CASE Words(w) = <<"space", "L", "l">> /\ m = "l"
  <2> DEFINE ms == Words(w)
  <2>1. /\ ms \in Seq(Letter) /\ Len(ms) = 3
        /\ ms[1] = "space" /\ ms[2] = "L" /\ ms[3] = "l"
    <3>1. "space" \in Letter /\ "L" \in Letter /\ "l" \in Letter
      BY DEF Letter
    <3>2. /\ <<"space", "L", "l">> \in Seq(Letter) /\ Len(<<"space", "L", "l">>) = 3
          /\ <<"space", "L", "l">>[1] = "space"
          /\ <<"space", "L", "l">>[2] = "L"
          /\ <<"space", "L", "l">>[3] = "l"
      BY <3>1, ShortSequences
    <3> QED
      BY <1>8, <3>2, Zenon
  <2>2. ~(\E k \in 1 .. Len(ms) : ms[k] = "o") /\ \E k \in 1 .. Len(ms) : ms[k] = "space"
    <3> HIDE DEF ms
    <3>1. \A k \in 1 .. Len(ms) : k = 1 \/ k = 2 \/ k = 3
      BY <2>1
    <3>2. 1 \in 1 .. Len(ms)
      BY <2>1
    <3> QED
      BY <2>1, <3>1, <3>2
  <2> QED
    BY <1>2, <1>3, <1>8, <2>1, <2>2 DEF m
<1> QED
  BY <1>4, <1>6, <1>7, <1>8

\* What is in a sequence that is made of two.
LEMMA RangeOfConcat ==
    ASSUME NEW s \in Seq(Letter), NEW t \in Seq(Letter), NEW x
    PROVE  x \in Range(s \o t) <=> x \in Range(s) \/ \E k \in 1 .. Len(t) : t[k] = x
<1>1. /\ s \o t \in Seq(Letter) /\ Len(s \o t) = Len(s) + Len(t)
      /\ \A k \in 1 .. Len(s) : (s \o t)[k] = s[k]
      /\ \A k \in 1 .. Len(t) : (s \o t)[Len(s) + k] = t[k]
      /\ Len(s) \in Nat /\ Len(t) \in Nat
  OBVIOUS
<1>2. /\ x \in Range(s) <=> \E k \in 1 .. Len(s) : s[k] = x
      /\ x \in Range(s \o t) <=> \E k \in 1 .. Len(s) + Len(t) : (s \o t)[k] = x
  BY <1>1 DEF Range
<1>3. ASSUME NEW k \in 1 .. Len(s) + Len(t), (s \o t)[k] = x
      PROVE  (\E j \in 1 .. Len(s) : s[j] = x) \/ \E j \in 1 .. Len(t) : t[j] = x
  <2>1. CASE k <= Len(s)
    BY <1>1, <1>3, <2>1
  <2>2. CASE k > Len(s)
    <3>1. k - Len(s) \in 1 .. Len(t) /\ Len(s) + (k - Len(s)) = k
      BY <1>1, <2>2
    <3> QED
      BY <1>1, <1>3, <3>1
  <2> QED
    BY <1>1, <2>1, <2>2
<1>4. ASSUME NEW k \in 1 .. Len(s), s[k] = x
      PROVE  \E j \in 1 .. Len(s) + Len(t) : (s \o t)[j] = x
  BY <1>1, <1>4
<1>5. ASSUME NEW k \in 1 .. Len(t), t[k] = x
      PROVE  \E j \in 1 .. Len(s) + Len(t) : (s \o t)[j] = x
  <2>1. Len(s) + k \in 1 .. Len(s) + Len(t)
    BY <1>1
  <2>2. (s \o t)[Len(s) + k] = x
    BY <1>1, <1>5
  <2> QED
    BY <2>1, <2>2
<1> QED
  BY <1>2, <1>3, <1>4, <1>5

\* A stretch of a sequence holds nothing else than the sequence.
LEMMA Stretch ==
    ASSUME NEW s \in Seq(Letter), NEW first \in Nat \ {0}, NEW last \in Int, last <= Len(s)
    PROVE  /\ SubSeq(s, first, last) \in Seq(Letter)
           /\ \A k \in 1 .. Len(SubSeq(s, first, last)) : SubSeq(s, first, last)[k] \in Range(s)
<1>1. /\ Len(s) \in Nat /\ DOMAIN s = 1 .. Len(s)
      /\ \A k \in 1 .. Len(s) : s[k] \in Letter /\ s[k] \in Range(s)
  BY DEF Range
<1>2. \A k \in first .. last : k \in 1 .. Len(s)
  BY <1>1
<1>3. /\ SubSeq(s, first, last) \in Seq(Letter)
      /\ Len(SubSeq(s, first, last)) = IF first <= last THEN last - first + 1 ELSE 0
      /\ \A k \in 1 .. last - first + 1 : SubSeq(s, first, last)[k] = s[first + k - 1]
  BY <1>1, <1>2, SubSeqProperties
<1>4. ASSUME NEW k \in 1 .. Len(SubSeq(s, first, last))
      PROVE  SubSeq(s, first, last)[k] \in Range(s)
  <2>1. k \in 1 .. last - first + 1 /\ first + k - 1 \in first .. last
    <3>1. CASE first <= last
      BY <1>3, <3>1
    <3>2. CASE ~(first <= last)
      BY <1>3, <3>2
    <3> QED
      BY <3>1, <3>2
  <2>2. SubSeq(s, first, last)[k] = s[first + k - 1]
    BY <1>3, <2>1
  <2>3. first + k - 1 \in 1 .. Len(s)
    BY <1>2, <2>1
  <2> QED
    BY <1>1, <2>2, <2>3
<1> QED
  BY <1>3, <1>4

\* Min is of its set.
LEMMA MinIsIn ==
    ASSUME NEW S \in SUBSET Nat, S # {}
    PROVE  Min(S) \in S
<1>1. PICK n \in S : \A m \in S : n <= m
  BY Least
<1> QED
  BY <1>1 DEF Min

\* The first word of the modes ends within them.
LEMMA FirstWordEnds ==
    ASSUME NEW n \in Nat, NEW spaces \in SUBSET (1 .. n)
    PROVE  /\ (IF spaces = {} THEN n ELSE Min(spaces) - 1) \in Int
           /\ (IF spaces = {} THEN n ELSE Min(spaces) - 1) <= n
<1>1. CASE spaces = {}
  BY <1>1
<1>2. CASE spaces # {}
  <2>1. spaces \in SUBSET Nat
    OBVIOUS
  <2>2. Min(spaces) \in spaces
    BY <1>2, <2>1, MinIsIn
  <2>3. Min(spaces) \in 1 .. n
    BY <2>2
  <2> QED
    BY <1>2, <2>3
<1> QED
  BY <1>1, <1>2

\* Without a limit the line is read as it was built; without a change of rank
\* it changes none, however it is garbled.
LEMMA AnnouncementEffect ==
    ASSUME NEW v \in ViewType, NEW a \in [modes : Seq(Letter), params : Seq(Word)]
    PROVE  /\ ReadAnnouncement(v, a) \in ViewType
           /\ ReadAnnouncement(v, a).inside = v.inside
           /\ ReadAnnouncement(v, a).names = v.names
           /\ ReadAnnouncement(v, a).topic = v.topic
           /\ "space" \notin Range(a.modes)
                 => ReadAnnouncement(v, a).operators = ReadModes(v, a.modes, a.params).ops
           /\ "o" \notin Range(a.modes) => ReadAnnouncement(v, a).operators = v.operators
<1> DEFINE s == a.modes
           spaces == {k \in DOMAIN s : s[k] = "space" /\ k > 1}
           first == IF s[1] = "space" THEN 2 ELSE 1
           last == IF spaces = {} THEN Len(s) ELSE Min(spaces) - 1
           ps == [k \in 1 .. Cardinality(spaces) |-> Empty] \o a.params
           ms == SubSeq(s, first, last)
           ops == ReadModes(v, ms, ps).ops
<1>1. ReadAnnouncement(v, a) = [v EXCEPT !.operators = ops]
  BY DEF ReadAnnouncement
<1>2. s \in Seq(Letter) /\ a.params \in Seq(Word)
  OBVIOUS
<1>3. first \in Nat \ {0}
  OBVIOUS
<1>4. last \in Int /\ last <= Len(s)
  <2>1. Len(s) \in Nat /\ DOMAIN s = 1 .. Len(s)
    BY <1>2
  <2>2. spaces \in SUBSET (1 .. Len(s))
    BY <2>1
  <2> HIDE DEF spaces, s
  <2> QED
    BY <2>1, <2>2, FirstWordEnds
<1>5. ms \in Seq(Letter) /\ \A k \in 1 .. Len(ms) : ms[k] \in Range(s)
  <2> HIDE DEF s, first, last
  <2> QED
    BY <1>2, <1>3, <1>4, Stretch
<1>6. ASSUME "space" \notin Range(s)
      PROVE  spaces = {} /\ ms = s
  <2>1. DOMAIN s = 1 .. Len(s) /\ Len(s) \in Nat
    BY <1>2
  <2>2. \A k \in 1 .. Len(s) : s[k] # "space"
    BY <1>6, <2>1 DEF Range
  <2>3. spaces = {}
    BY <2>1, <2>2
  <2>4. last = Len(s)
    BY <2>3
  <2> HIDE DEF spaces, last
  <2>5. CASE s = <<>>
    <3>1. Len(s) = 0
      BY <2>5
    <3> HIDE DEF first, s
    <3>2. ms = SubSeq(s, first, 0)
      BY <2>4, <3>1
    <3>3. ms = <<>>
      BY <1>2, <1>3, <3>2, SubSeqEmpty
    <3> QED
      BY <2>3, <2>5, <3>3
  <2>6. CASE s # <<>>
    <3>1. 1 \in 1 .. Len(s)
      BY <1>2, <2>1, <2>6, EmptySeq
    <3>2. first = 1
      BY <2>2, <3>1
    <3> HIDE DEF first, s
    <3> QED
      BY <1>2, <2>3, <2>4, <3>2, SubSeqFull
  <2> QED
    BY <2>5, <2>6
<1>7. ops \subseteq Text
  <2> HIDE DEF ms, ps
  <2> QED
    BY <1>5, ReadingType DEF Reading
<1>8. ASSUME "o" \notin Range(s)
      PROVE  ops = v.operators
  <2> HIDE DEF ms, ps, s
  <2>1. \A k \in 1 .. Len(ms) : ms[k] # "o"
    BY <1>5, <1>8
  <2> QED
    BY <1>5, <2>1, ReadNoRanks
<1>9. ASSUME "space" \notin Range(s)
      PROVE  ops = ReadModes(v, s, a.params).ops
  <2>1. ps = a.params
    <3> DEFINE lead == [k \in 1 .. Cardinality(spaces) |-> Empty]
    <3>1. Cardinality(spaces) = 0
      BY <1>6, <1>9, FS_EmptySet
    <3>2. lead \in Seq({Empty}) /\ Len(lead) = 0
      <4> HIDE DEF spaces
      <4> QED
        BY <3>1
    <3> HIDE DEF lead
    <3>3. lead = <<>>
      BY <3>2, EmptySeq
    <3> QED
      BY <1>2, <3>3, ConcatEmptySeq DEF lead
  <2> HIDE DEF ps, ms
  <2> QED
    BY <1>6, <1>9, <2>1
<1> HIDE DEF ops, s
<1>10. ReadAnnouncement(v, a) = [v EXCEPT !.operators = ops]
  BY <1>1
<1> QED
  BY <1>7, <1>8, <1>9, <1>10 DEF ViewType, s

\* Nicknames among the parameters may be looked up.
LEMMA WordsAreTexts == ASSUME NEW s \in Seq(Word) PROVE s \in Seq(Text)
  BY DEF Text

\* What a reader who knows the names makes of the character m behind the
\* others, with the parameter x behind theirs if it takes one.
LastRead(read, acc, m, names, x, all) ==
    /\ read.adding = IF m \in {"+", "-"} THEN m = "+" ELSE acc.adding
    /\ read.next = Len(all) + 1
    /\ m # "o" => read.ops = acc.ops
    /\ m = "o" => read.ops = IF Lower[x] \notin names THEN acc.ops
                             ELSE IF acc.adding THEN acc.ops \cup {Lower[x]}
                             ELSE acc.ops \ {Lower[x]}

\* One character more of the line, with its parameter if it takes one, is read
\* for what the walk has done.
LEMMA ReadLast ==
    ASSUME NEW acc \in Reading, NEW m, NEW names, NEW ps \in Seq(Text), NEW x, NEW more,
           m = "o" \/ (m = "k" /\ acc.adding) => x \in Text,
           more = IF m = "o" \/ (m = "k" /\ acc.adding) THEN <<x>> ELSE <<>>,
           m = "l" => ~acc.adding,
           acc.next = Len(ps) + 1
    PROVE  LastRead(ReadMode(acc, m, names, ps \o more), acc, m, names, x, ps \o more)
<1> DEFINE takes == m = "o" \/ (m \in {"k", "l"} /\ acc.adding)
           all == ps \o more
           n == IF takes /\ acc.next <= Len(all) THEN Lower[all[acc.next]] ELSE Empty
<1>1. takes <=> m = "o" \/ (m = "k" /\ acc.adding)
  OBVIOUS
<1>2. /\ takes => Len(all) = Len(ps) + 1 /\ all[Len(ps) + 1] = x
      /\ ~takes => Len(all) = Len(ps)
      /\ Len(ps) \in Nat
  <2>1. CASE takes
    <3>1. more = <<x>> /\ x \in Text
      BY <1>1, <2>1
    <3>2. more \in Seq(Text) /\ Len(more) = 1 /\ more[1] = x
      <4>1. <<x>> \in Seq(Text) /\ Len(<<x>>) = 1 /\ <<x>>[1] = x
        BY <3>1, ShortSequences
      <4> QED
        BY <3>1, <4>1, Zenon
    <3> HIDE DEF takes
    <3> QED
      BY <2>1, <3>2
  <2>2. CASE ~takes
    <3>1. all = ps
      BY <1>1, <2>2, ConcatEmptySeq
    <3> QED
      BY <2>2, <3>1
  <2> QED
    BY <2>1, <2>2
<1>3. ReadMode(acc, m, names, all) =
          [adding |-> IF m \in {"+", "-"} THEN m = "+" ELSE acc.adding,
           next   |-> IF takes THEN acc.next + 1 ELSE acc.next,
           ops    |-> IF m # "o" \/ n \notin names THEN acc.ops
                      ELSE IF acc.adding THEN acc.ops \cup {n} ELSE acc.ops \ {n}]
  BY DEF ReadMode
<1>4. m = "o" => n = Lower[x]
  <2>1. m = "o" => takes
    OBVIOUS
  <2> HIDE DEF all, takes
  <2> QED
    BY <1>2, <2>1
<1>5. (IF takes THEN acc.next + 1 ELSE acc.next) = Len(all) + 1
  <2> HIDE DEF all, takes
  <2> QED
    BY <1>2
<1> HIDE DEF all, takes, n
<1> DEFINE read == ReadMode(acc, m, names, all)
<1>6. /\ read.adding = IF m \in {"+", "-"} THEN m = "+" ELSE acc.adding
      /\ read.next = IF takes THEN acc.next + 1 ELSE acc.next
      /\ read.ops = IF m # "o" \/ n \notin names THEN acc.ops
                    ELSE IF acc.adding THEN acc.ops \cup {n} ELSE acc.ops \ {n}
  BY <1>3
<1> HIDE DEF read
<1>7. /\ read.next = Len(all) + 1
      /\ m # "o" => read.ops = acc.ops
      /\ m = "o" => read.ops = IF Lower[x] \notin names THEN acc.ops
                               ELSE IF acc.adding THEN acc.ops \cup {Lower[x]}
                               ELSE acc.ops \ {Lower[x]}
  BY <1>4, <1>5, <1>6
<1> QED
  BY <1>6, <1>7 DEF read, all, LastRead

\* What the walk keeps of the line.
Announcing(w) ==
    [modes |-> announced.modes \o Words(w), params |-> announced.params \o WordParams(w)]

\* The line under construction stays one that says what the walk has done.
LEMMA StepTold ==
    ASSUME Sound, ViewsTyped, NoHiddenMember, NEW w \in running, ModeStep(w), WalkTold(w),
           "space" \notin Range(Announcing(w).modes),
           NEW f \in Present(w.chan), NEW h \in Present(w.chan)
    PROVE  LET read == ReadModes(view[f][w.chan], Announcing(w).modes, Announcing(w).params)
           IN  /\ read.adding = IF Head(w.todo) \in {"+", "-"} THEN Head(w.todo) = "+" ELSE w.adding
               /\ read.next = Len(Announcing(w).params) + 1
               /\ Nick(h) \in read.ops <=> h \in channels'[w.chan].operators
<1> DEFINE m == Head(w.todo)
           c == w.chan
           v == view[f][c]
           ms == announced.modes
           ps == announced.params
           old == ReadModes(v, ms, ps)
           new == ReadModes(v, ms \o Words(w), ps \o WordParams(w))
           x == Head(w.params)
<1>1. w \in ModeWalk /\ m \in STRING /\ (m = "o" \/ (m = "k" /\ w.adding) => w.params # <<>>)
  BY ModeStepEffect
<1>2. c \in Chan /\ w.params \in Seq(Word) /\ w.adding \in BOOLEAN
  BY <1>1 DEF ModeWalk
<1>3. /\ f \in Fd /\ h \in channels[c].members
      /\ \A g \in live : Nick(h) = Nick(g) => h = g
  BY <1>2, SoundFacts DEF Present
<1>4. v \in ViewType /\ ms \in Seq(Letter) /\ ps \in Seq(Word)
  BY <1>2, <1>3 DEF ViewsTyped
<1>5. ps \in Seq(Text) /\ (m = "o" \/ (m = "k" /\ w.adding) => x \in Text)
  BY <1>1, <1>2, <1>4, HeadTailProperties DEF Text
<1>6. /\ old.adding = w.adding
      /\ old.next = Len(ps) + 1
      /\ Nick(h) \in old.ops <=> h \in channels[c].operators
  BY DEF WalkTold
<1>7. old \in Reading
  BY <1>4, ReadingType
<1>8. /\ Words(w) \in Seq(Letter)
      /\ \/ \E k \in 1 .. Len(Words(w)) : Words(w)[k] = "space"
         \/ Words(w) = <<>> /\ m \notin {"+", "-", "o", "k"}
         \/ Words(w) = <<m>> /\ (m = "l" => ~w.adding)
      /\ WordParams(w) = IF m = "o" \/ (m = "k" /\ w.adding) THEN <<x>> ELSE <<>>
      /\ WordParams(w) \in Seq(Word)
  BY <1>1, WordsEffect
<1>9. ~ \E k \in 1 .. Len(Words(w)) : Words(w)[k] = "space"
  BY <1>4, <1>8, RangeOfConcat DEF Announcing
<1>10. /\ m # "o" => channels'[c].operators = channels[c].operators
       /\ m = "o" => \E g \in ClientsNamed(x) :
              channels'[c].operators = IF ~w.adding THEN channels[c].operators \ {g}
                                       ELSE IF g \in channels[c].members
                                               THEN channels[c].operators \cup {g}
                                       ELSE channels[c].operators
  BY ModeStepEffect
<1>11. new.adding = (IF m \in {"+", "-"} THEN m = "+" ELSE w.adding)
       /\ new.next = Len(ps \o WordParams(w)) + 1
       /\ (Nick(h) \in new.ops <=> h \in channels'[c].operators)
  <2>1. CASE Words(w) = <<>> /\ m \notin {"+", "-", "o", "k"}
    <3>1. ms \o Words(w) = ms
      BY <1>4, <2>1, ConcatEmptySeq
    <3>2. ps \o WordParams(w) = ps
      BY <1>4, <1>8, <2>1, ConcatEmptySeq
    <3>3. new = old
      BY <3>1, <3>2
    <3> HIDE DEF new, old, m, c, ps
    <3> QED
      BY <1>6, <1>10, <2>1, <3>2, <3>3
  <2>2. CASE Words(w) = <<m>> /\ (m = "l" => ~w.adding)
    <3> DEFINE more == WordParams(w)
               read == ReadMode(old, m, v.names, ps \o more)
    <3>1. ms \o Words(w) = Append(ms, m)
      BY <1>1, <1>4, <2>2
    <3>2. more \in Seq(Text)
      BY <1>8, WordsAreTexts
    <3>3. m \in Letter
      BY <1>1 DEF Letter
    <3>4. new = read
      <4> HIDE DEF v, ms, ps, m, more
      <4>1. old.next = Len(ps) + 1
        BY <1>6
      <4>2. ReadModes(v, Append(ms, m), ps \o more) = read
        BY <1>4, <1>5, <3>2, <3>3, <4>1, ReadAppend
      <4> QED
        BY <3>1, <4>2 DEF more
    <3>5. /\ read.adding = IF m \in {"+", "-"} THEN m = "+" ELSE old.adding
          /\ read.next = Len(ps \o more) + 1
          /\ m # "o" => read.ops = old.ops
          /\ m = "o" => read.ops = IF Lower[x] \notin v.names THEN old.ops
                                   ELSE IF old.adding THEN old.ops \cup {Lower[x]}
                                   ELSE old.ops \ {Lower[x]}
      <4>1. more = IF m = "o" \/ (m = "k" /\ old.adding) THEN <<x>> ELSE <<>>
        BY <1>6, <1>8
      <4>2. m = "o" \/ (m = "k" /\ old.adding) => x \in Text
        BY <1>5, <1>6
      <4>3. m = "l" => ~old.adding
        BY <1>6, <2>2
      <4>4. LastRead(read, old, m, v.names, x, ps \o more)
        <5> HIDE DEF v, ms, ps, m, more, old, x
        <5>1. ps \in Seq(Text) /\ old.next = Len(ps) + 1
          BY <1>5, <1>6
        <5> QED
          BY <1>7, <4>1, <4>2, <4>3, <5>1, ReadLast
      <4> HIDE DEF v, ms, ps, m, more, old, x, read
      <4> QED
        BY <4>4 DEF LastRead
    <3>6. Nick(h) \in read.ops <=> h \in channels'[c].operators
      <4>1. CASE m # "o"
        <5> HIDE DEF read, old, m, c
        <5> QED
          BY <1>6, <1>10, <3>5, <4>1
      <4>2. CASE m = "o"
        <5>1. PICK g \in ClientsNamed(x) :
                channels'[c].operators = IF ~w.adding THEN channels[c].operators \ {g}
                                         ELSE IF g \in channels[c].members
                                                 THEN channels[c].operators \cup {g}
                                         ELSE channels[c].operators
          BY <1>10, <4>2
        <5>2. g \in live /\ Nick(g) = Lower[x]
          BY DEF ClientsNamed, Nick
        <5>3. Nick(h) \in v.names
          BY <1>2 DEF NoHiddenMember
        <5> HIDE DEF read, old, v, c, x
        <5>4. read.ops = IF Lower[x] \notin v.names THEN old.ops
                         ELSE IF w.adding THEN old.ops \cup {Lower[x]}
                         ELSE old.ops \ {Lower[x]}
          BY <1>6, <3>5, <4>2
        <5> HIDE DEF m
        <5>5. CASE h = g
          BY <1>3, <5>1, <5>2, <5>3, <5>4, <5>5
        <5>6. CASE h # g
          <6>1. Nick(h) # Lower[x]
            BY <1>3, <5>2, <5>6
          <6>2. Nick(h) \in read.ops <=> Nick(h) \in old.ops
            BY <5>4, <6>1
          <6>3. h \in channels'[c].operators <=> h \in channels[c].operators
            BY <5>1, <5>6
          <6> QED
            BY <1>6, <6>2, <6>3
        <5> QED
          BY <5>5, <5>6
      <4> QED
        BY <4>1, <4>2
    <3> HIDE DEF read, new, old, m, c, ps
    <3> QED
      BY <1>6, <3>4, <3>5, <3>6 DEF more
  <2> QED
    BY <1>8, <1>9, <2>1, <2>2
<1> HIDE DEF new
<1> QED
  BY <1>11 DEF new, Announcing

\* A character of a MODE, and the line behind the last one, changes nothing but
\* what is known of the ranks.
LEMMA ModeStepViews ==
    ASSUME Sound, ViewsTyped, NEW w \in running, ModeStep(w)
    PROVE  /\ Announcing(w) \in [modes : Seq(Letter), params : Seq(Word)]
           /\ announced' = IF running' = {} THEN NoWalk ELSE Announcing(w)
           /\ untold' = IF running' = {} /\ {"o", "space"} \subseteq Range(Announcing(w).modes)
                        THEN untold \cup {w.chan} ELSE untold
           /\ view' \in [Fd -> [Chan -> ViewType]]
           /\ \A f \in Fd, c \in Chan :
                 /\ view'[f][c].inside = view[f][c].inside
                 /\ view'[f][c].names = view[f][c].names
                 /\ view'[f][c].topic = view[f][c].topic
                 /\ running' # {} \/ c # w.chan \/ f \notin channels[c].members
                       => view'[f][c] = view[f][c]
                 /\ running' = {} /\ c = w.chan /\ f \in channels[c].members
                       => \/ view'[f][c] = view[f][c] /\ ~Announces(Announcing(w))
                          \/ view'[f][c] = ReadAnnouncement(view[f][c], Announcing(w))
<1> DEFINE all == Announcing(w)
<1>1. w \in ModeWalk /\ Head(w.todo) \in STRING
      /\ (Head(w.todo) = "o" \/ (Head(w.todo) = "k" /\ w.adding) => w.params # <<>>)
  BY ModeStepEffect
<1>2. all \in [modes : Seq(Letter), params : Seq(Word)]
  <2>1. Words(w) \in Seq(Letter) /\ WordParams(w) \in Seq(Word)
    BY <1>1, WordsEffect
  <2>2. announced.modes \in Seq(Letter) /\ announced.params \in Seq(Word)
    BY DEF ViewsTyped
  <2> QED
    BY <2>1, <2>2 DEF Announcing
<1>3. /\ announced' = IF running' = {} THEN NoWalk ELSE all
      /\ untold' = IF running' = {} /\ {"o", "space"} \subseteq Range(all.modes)
                   THEN untold \cup {w.chan} ELSE untold
      /\ view' = [g \in Fd |-> [c \in Chan |->
             IF running' = {} /\ c = w.chan /\ g \in channels[c].members /\ Announces(all)
                THEN ReadAnnouncement(view[g][c], all) ELSE view[g][c]]]
  BY DEF ModeStep, Announcing
<1> HIDE DEF all
<1>4. \A f \in Fd, c \in Chan :
         view'[f][c] = IF running' = {} /\ c = w.chan /\ f \in channels[c].members /\ Announces(all)
                       THEN ReadAnnouncement(view[f][c], all) ELSE view[f][c]
  BY <1>3
<1>5. \A f \in Fd, c \in Chan : view[f][c] \in ViewType
  BY DEF ViewsTyped
<1>6. ASSUME NEW f \in Fd, NEW c \in Chan
      PROVE  /\ view'[f][c] \in ViewType
             /\ view'[f][c].inside = view[f][c].inside
             /\ view'[f][c].names = view[f][c].names
             /\ view'[f][c].topic = view[f][c].topic
  <2>1. view'[f][c] = view[f][c] \/ view'[f][c] = ReadAnnouncement(view[f][c], all)
    BY <1>4
  <2>2. view[f][c] \in ViewType
    BY <1>5
  <2> QED
    BY <1>2, <2>1, <2>2, AnnouncementEffect
<1>7. view' \in [Fd -> [Chan -> ViewType]]
  <2>1. \A f \in Fd : view'[f] = [c \in Chan |-> view'[f][c]]
    BY <1>3
  <2>2. \A f \in Fd : view'[f] \in [Chan -> ViewType]
    BY <1>6, <2>1
  <2>3. view' = [f \in Fd |-> view'[f]]
    BY <1>3
  <2> QED
    BY <2>2, <2>3
<1> QED
  BY <1>2, <1>3, <1>4, <1>6, <1>7 DEF all

\* Nothing that changes a rank goes without a line.
LEMMA RankIsAnnounced ==
    ASSUME NEW a, "o" \in Range(a.modes)
    PROVE  Announces(a)
<1>1. PICK k \in DOMAIN a.modes : a.modes[k] = "o"
  BY DEF Range
<1>2. a.modes # <<>>
  BY <1>1
<1>3. a.modes # <<"+">>
  BY <1>1
<1>4. a.modes # <<"-">>
  BY <1>1
<1> QED
  BY <1>2, <1>3, <1>4 DEF Announces

\* A character of a MODE: nobody hears of it, and the line that will say so has
\* grown by as much; behind the last character all members hear the line.
LEMMA ModeStepInforms ==
    ASSUME Sound, ViewInvariant, NEW w \in running, ModeStep(w)
    PROVE  ViewInvariant'
<1> DEFINE all == Announcing(w)
           c == w.chan
<1>1. /\ w \in ModeWalk /\ Head(w.todo) \in STRING
      /\ live' = live /\ clients' = clients
      /\ \A d \in Chan : /\ channels'[d].members = channels[d].members
                         /\ channels'[d].topic = channels[d].topic
                         /\ d # c => channels'[d] = channels[d]
      /\ Head(w.todo) # "o" => channels'[c].operators = channels[c].operators
      /\ \A u, v \in running' : u = v
      /\ \A u \in running' :
            /\ u.chan = c
            /\ u.adding = IF Head(w.todo) \in {"+", "-"} THEN Head(w.todo) = "+" ELSE w.adding
  BY ModeStepEffect
<1>2. c \in Chan /\ (Head(w.todo) = "o" \/ (Head(w.todo) = "k" /\ w.adding) => w.params # <<>>)
  BY <1>1, ModeStepEffect DEF ModeWalk
<1>3. ViewsTyped
  BY DEF ViewInvariant
<1>4. /\ all \in [modes : Seq(Letter), params : Seq(Word)]
      /\ announced' = IF running' = {} THEN NoWalk ELSE all
      /\ untold' = IF running' = {} /\ {"o", "space"} \subseteq Range(all.modes)
                   THEN untold \cup {c} ELSE untold
      /\ view' \in [Fd -> [Chan -> ViewType]]
      /\ \A f \in Fd, d \in Chan :
            /\ view'[f][d].inside = view[f][d].inside
            /\ view'[f][d].names = view[f][d].names
            /\ view'[f][d].topic = view[f][d].topic
            /\ running' # {} \/ d # c \/ f \notin channels[d].members
                  => view'[f][d] = view[f][d]
            /\ running' = {} /\ d = c /\ f \in channels[d].members
                  => \/ view'[f][d] = view[f][d] /\ ~Announces(all)
                     \/ view'[f][d] = ReadAnnouncement(view[f][d], all)
  BY <1>3, ModeStepViews
<1>5. /\ \A d \in Chan : channels[d].members \subseteq live /\ Present(d)' = Present(d)
      /\ \A d \in Chan : Present(d) \subseteq channels[d].members
      /\ live \subseteq Fd
      /\ \A f \in Fd : Nick(f)' = Nick(f) /\ HasQuit(f)' = HasQuit(f)
  BY <1>1, SoundFacts DEF Present, Nick, HasQuit
<1>6. \A d \in Chan : \A f \in Present(d) : f \in Fd /\ f \in channels[d].members
  BY <1>5
<1>7. all.modes = announced.modes \o Words(w) /\ all.params = announced.params \o WordParams(w)
  BY DEF Announcing
<1> HIDE DEF all, c
<1>8. ViewsTyped'
  <2>1. NoWalk \in [modes : Seq(Letter), params : Seq(Word)]
    BY DEF NoWalk
  <2>2. announced' \in [modes : Seq(Letter), params : Seq(Word)]
    BY <1>4, <2>1
  <2>3. untold' \subseteq Chan
    BY <1>2, <1>3, <1>4 DEF ViewsTyped
  <2> QED
    BY <1>4, <2>2, <2>3 DEF ViewsTyped
<1>9. AbsentKnowNothing'
  <2> SUFFICES ASSUME NEW f \in Fd \ live, NEW d \in Chan
               PROVE  view'[f][d] = NoView
    BY <1>1 DEF AbsentKnowNothing
  <2>1. f \notin channels[d].members /\ view[f][d] = NoView
    BY <1>5 DEF ViewInvariant, AbsentKnowNothing
  <2> QED
    BY <1>4, <2>1
<1>10. InsideKnown'
  BY <1>1, <1>4, <1>5 DEF ViewInvariant, InsideKnown
<1>11. NoHiddenMember'
  BY <1>4, <1>5, <1>6 DEF ViewInvariant, NoHiddenMember
<1>12. TopicTold'
  BY <1>1, <1>4, <1>5, <1>6 DEF ViewInvariant, TopicTold
<1>13. /\ \A u, v \in running : u = v
       /\ c \notin untold /\ "space" \notin Range(announced.modes) => WalkTold(w)
  BY DEF ViewInvariant, WalkAnnounced, c
<1>14. /\ \A x : x \in Range(announced.modes) => x \in Range(all.modes)
       /\ Head(w.todo) = "o" => "o" \in Range(all.modes)
  <2>1. announced.modes \in Seq(Letter)
    BY <1>3 DEF ViewsTyped
  <2>2. /\ Words(w) \in Seq(Letter)
        /\ Head(w.todo) = "o" => \E k \in 1 .. Len(Words(w)) : Words(w)[k] = "o"
    BY <1>1, <1>2, WordsEffect
  <2> QED
    BY <1>7, <2>1, <2>2, RangeOfConcat
<1>15. ASSUME c \notin untold, "space" \notin Range(all.modes),
              NEW f \in Present(c), NEW h \in Present(c)
       PROVE  LET read == ReadModes(view[f][c], all.modes, all.params)
              IN  /\ read.adding = IF Head(w.todo) \in {"+", "-"} THEN Head(w.todo) = "+" ELSE w.adding
                  /\ read.next = Len(all.params) + 1
                  /\ Nick(h) \in read.ops <=> h \in channels'[c].operators
  <2>1. WalkTold(w)
    BY <1>13, <1>14, <1>15
  <2>2. NoHiddenMember
    BY DEF ViewInvariant
  <2> QED
    BY <1>3, <1>15, <2>1, <2>2, StepTold DEF all, c
<1>16. RanksKnown'
  <2> SUFFICES ASSUME NEW d \in Chan \ untold', NEW f \in Present(d), NEW h \in Present(d),
                      NoModeOn(d)' \/ "o" \notin Range(announced'.modes)
               PROVE  Nick(h) \in view'[f][d].operators <=> h \in channels'[d].operators
    BY <1>5, <1>6 DEF RanksKnown, RanksTold
  <2>1. d \notin untold /\ f \in Fd /\ h \in Fd /\ f \in channels[d].members
    BY <1>4, <1>6
  <2>2. RanksKnown
    BY DEF ViewInvariant
  <2>3. CASE d # c
    <3>1. NoModeOn(d)
      BY <1>13, <2>3 DEF NoModeOn, c
    <3>2. RanksTold(d)
      BY <2>1, <2>2, <3>1 DEF RanksKnown
    <3> QED
      BY <1>1, <1>4, <2>1, <2>3, <3>2 DEF RanksTold
  <2>4. CASE d = c /\ "o" \notin Range(all.modes)
    <3>1. RanksTold(c)
      BY <1>14, <2>1, <2>2, <2>4 DEF RanksKnown
    <3>2. channels'[c].operators = channels[c].operators
      BY <1>1, <1>14, <2>4
    <3>3. view'[f][c].operators = view[f][c].operators
      <4>1. view'[f][c] = view[f][c] \/ view'[f][c] = ReadAnnouncement(view[f][c], all)
        BY <1>4, <2>1, <2>4
      <4>2. view[f][c] \in ViewType
        BY <1>2, <1>3, <2>1 DEF ViewsTyped
      <4> QED
        BY <1>4, <2>4, <4>1, <4>2, AnnouncementEffect
    <3> QED
      BY <2>4, <3>1, <3>2, <3>3 DEF RanksTold
  <2>5. CASE d = c /\ "o" \in Range(all.modes)
    <3>1. running' = {}
      <4> SUFFICES ASSUME running' # {}
                   PROVE  FALSE
        OBVIOUS
      <4>1. announced' = all
        BY <1>4
      <4>2. \E u \in running' : u.chan = d
        BY <1>1, <2>5
      <4>3. ~NoModeOn(d)'
        BY <4>2 DEF NoModeOn
      <4> QED
        BY <2>5, <4>1, <4>3
    <3>2. "space" \notin Range(all.modes)
      BY <1>4, <2>5, <3>1
    <3>3. view'[f][c] = ReadAnnouncement(view[f][c], all)
      BY <1>4, <2>1, <2>5, <3>1, RankIsAnnounced
    <3>4. view[f][c] \in ViewType
      BY <1>2, <1>3, <2>1 DEF ViewsTyped
    <3>5. view'[f][c].operators = ReadModes(view[f][c], all.modes, all.params).ops
      BY <1>4, <3>2, <3>3, <3>4, AnnouncementEffect
    <3> QED
      BY <1>15, <2>1, <2>5, <3>2, <3>5
  <2> QED
    BY <2>3, <2>4, <2>5
<1>17. WalkAnnounced'
  <2>1. running' = {} => announced' = NoWalk
    BY <1>4
  <2>2. ASSUME NEW u \in running', u.chan \notin untold', "space" \notin Range(announced'.modes)
        PROVE  WalkTold(u)'
    <3>1. announced' = all /\ u.chan = c /\ untold' = untold
      BY <1>1, <1>4, <2>2
    <3>2. ASSUME NEW f \in Present(c), NEW h \in Present(c)
          PROVE  LET read == ReadModes(view'[f][c], all.modes, all.params)
                 IN  /\ read.adding = u.adding
                     /\ read.next = Len(all.params) + 1
                     /\ Nick(h) \in read.ops <=> h \in channels'[c].operators
      <4>1. view'[f][c] = view[f][c]
        BY <1>2, <1>4, <1>6
      <4> QED
        BY <1>1, <1>15, <2>2, <3>1, <4>1
    <3> QED
      BY <1>2, <1>5, <1>6, <3>1, <3>2 DEF WalkTold
  <2> QED
    BY <1>1, <2>1, <2>2 DEF WalkAnnounced
<1> QED
  BY <1>8, <1>9, <1>10, <1>11, <1>12, <1>16, <1>17 DEF ViewInvariant

\* An error stops the walk; if it had changed a rank, the channel is among those
\* where nobody could know.
LEMMA CutModeInforms ==
    ASSUME Sound, ViewInvariant, NEW w \in running, CutMode(w)
    PROVE  ViewInvariant'
<1>1. /\ running' = {} /\ announced' = NoWalk /\ view' = view
      /\ live' = live /\ clients' = clients /\ channels' = channels
      /\ untold' = IF "o" \in Range(announced.modes) THEN untold \cup {w.chan} ELSE untold
  BY DEF CutMode, ModeAbort
<1>2. w.chan \in Chan
  BY DEF Sound, Consistent, TypeOK, ModeWalk
<1>3. \A c \in Chan : RanksTold(c)' <=> RanksTold(c)
  BY <1>1 DEF RanksTold, Present, Nick, HasQuit
<1>4. ViewsTyped'
  <2>1. NoWalk \in [modes : Seq(Letter), params : Seq(Word)]
    BY DEF NoWalk
  <2> QED
    BY <1>1, <1>2, <2>1 DEF ViewInvariant, ViewsTyped
<1>5. AbsentKnowNothing' /\ InsideKnown' /\ NoHiddenMember' /\ TopicTold'
  BY <1>1 DEF ViewInvariant, AbsentKnowNothing, InsideKnown, NoHiddenMember, TopicTold,
              Present, Nick, HasQuit
<1>6. RanksKnown'
  <2> SUFFICES ASSUME NEW c \in Chan \ untold'
               PROVE  RanksTold(c)
    BY <1>3 DEF RanksKnown
  <2>1. c \notin untold /\ (c = w.chan => "o" \notin Range(announced.modes))
    BY <1>1
  <2>2. c # w.chan => NoModeOn(c)
    BY DEF ViewInvariant, WalkAnnounced, NoModeOn
  <2> QED
    BY <2>1, <2>2 DEF ViewInvariant, RanksKnown
<1>7. WalkAnnounced'
  BY <1>1 DEF WalkAnnounced
<1> QED
  BY <1>4, <1>5, <1>6, <1>7 DEF ViewInvariant

\* A MODE starts with a line that says nothing yet.
LEMMA StartModeInforms ==
    ASSUME Sound, ViewInvariant, NEW f \in Fd, NEW name \in ChanWord, NEW req \in ModeRequest,
           StartMode(f, name, req)
    PROVE  ViewInvariant'
<1> DEFINE walk == [fd |-> f, chan |-> Lower[name], adding |-> TRUE,
                    todo |-> req[1], params |-> req[2]]
<1>1. /\ running = {} /\ running' = {walk} /\ announced' = NoWalk /\ view' = view /\ untold' = untold
      /\ live' = live /\ clients' = clients /\ channels' = channels
  BY DEF StartMode, handleMode, MayCommand, Idle
<1>2. Lower[name] \in Chan
  BY DEF Chan
<1>3. walk.chan = Lower[name] /\ walk.adding = TRUE
  OBVIOUS
<1> HIDE DEF walk
<1>4. \A c \in Chan : RanksTold(c)' <=> RanksTold(c)
  BY <1>1 DEF RanksTold, Present, Nick, HasQuit
<1>5. \A c \in Chan \ untold : RanksTold(c)
  BY <1>1 DEF ViewInvariant, RanksKnown, NoModeOn
<1>6. ViewsTyped'
  <2>1. NoWalk \in [modes : Seq(Letter), params : Seq(Word)]
    BY DEF NoWalk
  <2> QED
    BY <1>1, <2>1 DEF ViewInvariant, ViewsTyped
<1>7. AbsentKnowNothing' /\ InsideKnown' /\ NoHiddenMember' /\ TopicTold'
  BY <1>1 DEF ViewInvariant, AbsentKnowNothing, InsideKnown, NoHiddenMember, TopicTold,
              Present, Nick, HasQuit
<1>8. RanksKnown'
  BY <1>1, <1>4, <1>5 DEF RanksKnown
<1>9. ASSUME walk.chan \notin untold
      PROVE  WalkTold(walk)'
  <2> DEFINE c == Lower[name]
  <2>1. ASSUME NEW g \in Present(c), NEW h \in Present(c)
        PROVE  LET read == ReadModes(view[g][c], <<>>, <<>>)
               IN  /\ read.adding = TRUE
                   /\ read.next = Len(<<>>) + 1
                   /\ Nick(h) \in read.ops <=> h \in channels[c].operators
    <3>1. g \in Fd
      BY <1>2, SoundFacts DEF Present
    <3>2. view[g][c] \in ViewType
      BY <1>2, <3>1 DEF ViewInvariant, ViewsTyped
    <3>3. ReadModes(view[g][c], <<>>, <<>>)
              = [adding |-> TRUE, next |-> 1, ops |-> view[g][c].operators]
      BY <3>2, ReadNothing
    <3>4. Nick(h) \in view[g][c].operators <=> h \in channels[c].operators
      BY <1>2, <1>3, <1>5, <1>9 DEF RanksTold
    <3> QED
      BY <3>3, <3>4
  <2>2. Present(c)' = Present(c) /\ \A h \in Present(c) : Nick(h)' = Nick(h)
    BY <1>1 DEF Present, Nick, HasQuit
  <2>3. announced'.modes = <<>> /\ announced'.params = <<>>
    BY <1>1 DEF NoWalk
  <2>4. walk.chan = c /\ walk.adding = TRUE
    BY <1>3
  <2> HIDE DEF c
  <2>5. ASSUME NEW g \in Present(c)', NEW h \in Present(c)'
        PROVE  LET read == ReadModes(view'[g][c], announced'.modes, announced'.params)
               IN  /\ read.adding = TRUE
                   /\ read.next = Len(announced'.params) + 1
                   /\ Nick(h)' \in read.ops <=> h \in channels'[c].operators
    <3>1. g \in Present(c) /\ h \in Present(c) /\ Nick(h)' = Nick(h)
      BY <2>2
    <3> QED
      BY <1>1, <2>1, <2>3, <3>1
  <2> QED
    BY <2>4, <2>5 DEF WalkTold
<1>10. WalkAnnounced'
  BY <1>1, <1>9 DEF WalkAnnounced
<1> QED
  BY <1>6, <1>7, <1>8, <1>10 DEF ViewInvariant

\* Nothing else happens while a MODE is in progress.
LEMMA OthersAreIdle ==
    ASSUME NEW f \in Fd, Session(f) \/ Command(f),
           ~ \E name \in ChanWord, req \in ModeRequest : StartMode(f, name, req)
    PROVE  running = {} /\ running' = {} /\ announced' = announced
<1>1. CASE Session(f)
  BY <1>1 DEF Session, AcceptClient, LoseClient, acceptNewClient, disconnectClient, Quietly, Forgets, Idle
<1>2. CASE Register(f)
  BY <1>2 DEF Register, handleUser, handlePass, Quietly, Idle
<1>3. CASE \E n \in NickWord : ChangeNick(f, n)
  BY <1>3 DEF ChangeNick, handleNick, OnlyTells, Idle
<1>4. CASE Quit(f)
  BY <1>4 DEF Quit, handleQuit, OnlyTells, Idle
<1>5. CASE \E req \in JoinRequest : Join(f, req)
  BY <1>5 DEF Join, handleJoin, OnlyTells, MayCommand, Idle
<1>6. CASE Part(f)
  BY <1>6 DEF Part, JoinZero, handlePart, Forgets, MayCommand, Idle
<1>7. CASE \E c \in Chan : AskTopic(f, c) \/ AskNames(f, c) \/ AskWho(f, c)
  BY <1>7 DEF AskTopic, AskNames, AskWho, MayCommand, Idle, vars
<1>8. CASE \E name \in ChanWord, w \in NickWord : Kick(f, name, w)
  BY <1>8 DEF Kick, handleKick, Forgets, MayCommand, Idle
<1>9. CASE \E name \in ChanWord, w \in Invitee : Invite(f, w, name)
  BY <1>9 DEF Invite, handleInvite, Quietly, MayCommand, Idle
<1>10. CASE \E name \in ChanWord, t \in TopicWord : SetTopic(f, name, t)
  BY <1>10 DEF SetTopic, handleTopic, OnlyTells, MayCommand, Idle
<1> QED
  BY <1>1, <1>2, <1>3, <1>4, <1>5, <1>6, <1>7, <1>8, <1>9, <1>10 DEF Command

-----------------------------------------------------------------------------
(* The invariant, and what it says of the clients.                         *)

\* At the start there are no clients.
LEMMA ViewInvariantInit == ASSUME ViewInit PROVE ViewInvariant
<1>1. /\ live = {} /\ running = {} /\ untold = {} /\ announced = NoWalk
      /\ view = [f \in Fd |-> [c \in Chan |-> NoView]]
      /\ channels = [c \in Chan |-> NewChannel]
  BY DEF ViewInit, Init
<1>2. \A c \in Chan : channels[c].members = {} /\ Present(c) = {}
  BY <1>1 DEF NewChannel, Present
<1>3. NoWalk \in [modes : Seq(Letter), params : Seq(Word)]
  BY DEF NoWalk
<1>4. ViewsTyped
  BY <1>1, <1>3, NoViewFacts DEF ViewsTyped
<1>5. AbsentKnowNothing /\ InsideKnown /\ WalkAnnounced
  BY <1>1 DEF AbsentKnowNothing, InsideKnown, WalkAnnounced
<1>6. NoHiddenMember /\ TopicTold /\ RanksKnown
  BY <1>2 DEF NoHiddenMember, TopicTold, RanksKnown, RanksTold
<1> QED
  BY <1>4, <1>5, <1>6 DEF ViewInvariant

\* No step ends the invariant.
LEMMA ViewInvariantStep ==
    ASSUME Sound, Sound', ViewInvariant, [ViewNext]_viewVars
    PROVE  ViewInvariant'
<1>1. CASE UNCHANGED viewVars
  BY <1>1 DEF viewVars, vars, ViewInvariant, ViewsTyped, AbsentKnowNothing, InsideKnown, NoHiddenMember,
              TopicTold, RanksKnown, RanksTold, WalkAnnounced, WalkTold, NoModeOn, Present, Nick, HasQuit
<1>2. ASSUME NEW w \in running, ModeStep(w)
      PROVE  ViewInvariant'
  BY <1>2, ModeStepInforms
<1>3. ASSUME NEW w \in running, CutMode(w)
      PROVE  ViewInvariant'
  BY <1>3, CutModeInforms
<1>4. ASSUME NEW f \in Fd, NEW name \in ChanWord, NEW req \in ModeRequest, StartMode(f, name, req)
      PROVE  ViewInvariant'
  BY <1>4, StartModeInforms
<1>5. ASSUME NEW f \in Fd, Session(f) \/ Command(f),
             ~ \E name \in ChanWord, req \in ModeRequest : StartMode(f, name, req)
      PROVE  ViewInvariant'
  <2>1. running = {} /\ running' = {} /\ announced' = announced
    BY <1>5, OthersAreIdle
  <2>2. WellInformed
    BY <2>1 DEF ViewInvariant, RanksKnown, NoModeOn, WellInformed
  <2>3. WellInformed'
    BY <1>5, <2>2, IdleInforms
  <2>4. WalkAnnounced'
    BY <2>1 DEF ViewInvariant, WalkAnnounced
  <2>5. RanksKnown'
    BY <2>3 DEF WellInformed, RanksKnown
  <2> QED
    BY <2>3, <2>4, <2>5 DEF ViewInvariant, WellInformed
<1> QED
  BY <1>1, <1>2, <1>3, <1>4, <1>5 DEF ViewNext

\* The invariant holds in every state.
LEMMA AlwaysViewInvariant == ViewSpec => []ViewInvariant
<1>1. ViewInit => ViewInvariant
  BY ViewInvariantInit
<1>2. Sound /\ Sound' /\ ViewInvariant /\ [ViewNext]_viewVars => ViewInvariant'
  BY ViewInvariantStep
<1>3. ViewSpec => []Sound
  BY AlwaysSound
<1> QED
  BY <1>1, <1>2, <1>3, PTL DEF ViewSpec

\* A client hears of its own entering, leaving and being kicked.
THEOREM ClientsKnowTheirChannels == ViewSpec => []InsideKnown
  BY AlwaysViewInvariant, PTL DEF ViewInvariant

\* No member of a channel is unknown to another member.
THEOREM NobodyListensUnseen == ViewSpec => []NoHiddenMember
  BY AlwaysViewInvariant, PTL DEF ViewInvariant

\* What a member takes for the topic is the one last set or what was said of it.
THEOREM TopicsAreTold == ViewSpec => []TopicTold
  BY AlwaysViewInvariant, PTL DEF ViewInvariant

\* Members know the operators, but for the channels in which a MODE was cut
\* short or garbled.
THEOREM RanksAreTold == ViewSpec => []OperatorsKnown
<1>1. ViewInvariant => OperatorsKnown
  BY DEF ViewInvariant, RanksKnown, RanksTold, OperatorsKnown
<1> QED
  BY <1>1, AlwaysViewInvariant, PTL

=============================================================================
