------------------------ MODULE IrcServerStepProofs ------------------------
(* Proofs of what a step of IrcServer does to a channel: who may enter it,  *)
(* what happens to one that nobody leads, and that each step of a handler   *)
(* is a step of Room or none.                                               *)
EXTENDS IrcServerProofs

-----------------------------------------------------------------------------
\* What a JOIN does to a channel: nothing, or one more member who was let in.
LEMMA JoinEffect ==
    ASSUME Consistent, NEW f \in Fd, NEW req \in JoinRequest, handleJoin(f, req),
           NEW c \in Chan
    PROVE  \/ channels'[c] = channels[c]
           \/ /\ \E key : MayJoin(channels[c], f, key)
              /\ channels'[c].members = channels[c].members \cup {f}
              /\ channels[c].members # {} => channels'[c].operators = channels[c].operators
              /\ channels'[c].invitedUsers =
                    channels[c].invitedUsers \ {Lower[clients[f].nickname]}
              /\ channels'[c].inviteOnly = channels[c].inviteOnly
              /\ channels'[c].topicRestricted = channels[c].topicRestricted
              /\ channels'[c].key = channels[c].key
              /\ channels'[c].userLimit = channels[c].userLimit
              /\ channels'[c].topic = channels[c].topic
<1> DEFINE entered == {d \in Chan : \E r \in req :
                          Lower[r[1]] = d /\ MayJoin(channels[d], f, r[2])}
<1>1. channels' = [d \in Chan |-> IF d \in entered THEN joinSingleChannel(channels[d], f)
                                                   ELSE channels[d]]
  BY DEF handleJoin
<1>2. c \in entered => \E key : MayJoin(channels[c], f, key)
  OBVIOUS
<1> HIDE DEF entered
<1>3. CASE c \in entered
  <2>1. channels'[c] = joinSingleChannel(channels[c], f) /\ channels[c] \in ChannelType
    BY <1>1, <1>3 DEF Consistent, TypeOK
  <2> QED
    BY <1>2, <1>3, <2>1 DEF joinSingleChannel, addMember, removeInvite, ChannelType
<1>4. CASE c \notin entered
  BY <1>1, <1>4
<1> QED
  BY <1>3, <1>4

\* What the steps other than JOIN and the characters of a MODE do to a channel.
LEMMA OtherEffect ==
    ASSUME Consistent, NEW f \in Fd,
           Connection(f) \/ ChannelCommand(f),
           ~ \E req \in JoinRequest : handleJoin(f, req),
           NEW c \in Chan
    PROVE  /\ channels'[c].members \subseteq channels[c].members
           /\ Leaderless(c) => c \notin chans' \/ NothingDecided(c)
<1>1. /\ channels \in [Chan -> ChannelType]
      /\ TypeOK
  BY DEF Consistent, TypeOK
<1>2. ASSUME channels'[c] = channels[c]
      PROVE  /\ channels'[c].members \subseteq channels[c].members
             /\ Leaderless(c) => NothingDecided(c)
  BY <1>2 DEF Leaderless, NothingDecided
<1>3. ASSUME NEW g \in Fd, NEW cs \in SUBSET chans, RemoveFrom(g, cs)
      PROVE  /\ channels'[c].members \subseteq channels[c].members
             /\ Leaderless(c) => c \notin chans' \/ NothingDecided(c)
  <2>1. /\ channels'[c].members = IF c \in cs THEN channels[c].members \ {g}
                                              ELSE channels[c].members
        /\ channels'[c].operators \subseteq channels[c].operators
        /\ channels'[c].invitedUsers \subseteq channels[c].invitedUsers
        /\ c \in chans' => /\ channels'[c].inviteOnly = channels[c].inviteOnly
                           /\ channels'[c].topicRestricted = channels[c].topicRestricted
                           /\ channels'[c].key = channels[c].key
                           /\ channels'[c].userLimit = channels[c].userLimit
                           /\ channels'[c].topic = channels[c].topic
    BY <1>1, <1>3, RemoveFromEffect
  <2> QED
    BY <2>1 DEF Leaderless, NothingDecided
<1>4. CASE Connection(f)
  <2>1. CASE disconnectClient(f)
    <3>1. RemoveFrom(f, clients[f].channels \cap chans)
      BY <2>1 DEF disconnectClient
    <3> QED
      BY <1>3, <3>1
  <2>2. CASE ~disconnectClient(f)
    BY <1>2, <1>4, <2>2 DEF Connection, acceptNewClient, handlePass, handleNick,
                            handleUser, handleQuit
  <2> QED
    BY <2>1, <2>2
<1>5. ASSUME NEW names, handlePart(f, names)
      PROVE  /\ channels'[c].members \subseteq channels[c].members
             /\ Leaderless(c) => c \notin chans' \/ NothingDecided(c)
  <2>1. \E left \in SUBSET chans : RemoveFrom(f, left)
    BY <1>5 DEF handlePart
  <2> QED
    BY <1>3, <2>1
<1>6. CASE (\E names \in PartRequest : handlePart(f, names)) \/ JoinZero(f)
  BY <1>5, <1>6 DEF JoinZero
<1>7. CASE \E name \in ChanWord, w \in NickWord : handleKick(f, name, w)
  <2>1. PICK name \in ChanWord, w \in NickWord : handleKick(f, name, w)
    BY <1>7
  <2>2. MembersNamed(Lower[name], w) \subseteq Fd /\ {Lower[name]} \subseteq chans
    BY <1>1, <2>1 DEF handleKick, MembersNamed, TypeOK, ChannelType
  <2>3. \E g \in Fd : RemoveFrom(g, {Lower[name]})
    BY <2>1, <2>2 DEF handleKick
  <2> QED
    BY <1>3, <2>2, <2>3
<1>8. CASE \E name \in ChanWord, w \in NickWord : handleInvite(f, w, name)
  <2>1. PICK name \in ChanWord, w \in NickWord : handleInvite(f, w, name)
    BY <1>8
  <2>2. /\ Lower[name] \in Chan /\ channels[Lower[name]].operators # {}
        /\ \E n : channels' = [channels EXCEPT ![Lower[name]] = addInvite(channels[Lower[name]], n)]
    BY <1>1, <2>1 DEF handleInvite, TypeOK
  <2>3. CASE c = Lower[name]
    <3>1. channels'[c].members = channels[c].members
      BY <1>1, <2>2, <2>3 DEF addInvite, ChannelType
    <3> QED
      BY <2>2, <2>3, <3>1 DEF Leaderless
  <2>4. CASE c # Lower[name]
    BY <1>1, <1>2, <2>2, <2>4
  <2> QED
    BY <2>3, <2>4
<1>9. CASE \E name \in ChanWord, t \in TopicWord : handleTopic(f, name, t)
  <2>1. PICK name \in ChanWord, t \in TopicWord : handleTopic(f, name, t)
    BY <1>9
  <2>2. /\ Lower[name] \in Chan
        /\ channels[Lower[name]].topicRestricted => channels[Lower[name]].operators # {}
        /\ channels' = [channels EXCEPT ![Lower[name]] = [channels[Lower[name]] EXCEPT !.topic = t]]
    BY <1>1, <2>1 DEF handleTopic, TypeOK
  <2>3. CASE c = Lower[name]
    <3>1. channels'[c] = [channels[c] EXCEPT !.topic = t] /\ channels[c] \in ChannelType
      BY <1>1, <2>2, <2>3
    <3> QED
      BY <2>2, <2>3, <3>1 DEF Leaderless, NothingDecided, ChannelType
  <2>4. CASE c # Lower[name]
    BY <1>1, <1>2, <2>2, <2>4
  <2> QED
    BY <2>3, <2>4
<1>10. CASE \E name \in ChanWord, req \in ModeRequest : handleMode(f, name, req)
  BY <1>2, <1>10 DEF handleMode
<1> QED
  BY <1>4, <1>6, <1>7, <1>8, <1>9, <1>10 DEF ChannelCommand

\* Every step is one of these, seen from one channel.
LEMMA StepEffect ==
    ASSUME Consistent, [Next]_vars, NEW c \in Chan
    PROVE  \/ channels'[c] = channels[c]
           \/ /\ channels'[c].members \subseteq channels[c].members
              /\ Leaderless(c) => c \notin chans' \/ NothingDecided(c)
           \/ \E f \in Fd, req \in JoinRequest : handleJoin(f, req)
<1>1. CASE UNCHANGED vars
  BY <1>1 DEF vars
<1>2. CASE \E w \in running : applyModeChanges(w)
  <2>1. PICK w \in running : applyModeChanges(w)
    BY <1>2
  <2>2. /\ channels'[c].members = channels[c].members
        /\ c # w.chan => channels'[c] = channels[c]
    BY <2>1, ModeEffect DEF Consistent
  <2> QED
    BY <2>2 DEF Leaderless, NoModeOn
<1>3. CASE \E f \in Fd : Connection(f) \/ ChannelCommand(f)
  BY <1>3, OtherEffect
<1> QED
  BY <1>1, <1>2, <1>3 DEF Next

\* A MODE on a channel begins with one of its operators.
LEMMA NoModeStarts ==
    ASSUME Consistent, [Next]_vars, NEW c \in Chan, Leaderless(c)
    PROVE  NoModeOn(c)'
<1> USE DEF NoModeOn
<1>1. CASE UNCHANGED vars
  BY <1>1 DEF vars, Leaderless
<1>2. CASE \E w \in running : applyModeChanges(w)
  <2>1. PICK w \in running : applyModeChanges(w)
    BY <1>2
  <2>2. \A v \in running' : v.chan = w.chan
    BY <2>1, ModeEffect DEF Consistent
  <2> QED
    BY <2>2 DEF Leaderless
<1>3. CASE \E f \in Fd, name \in ChanWord, req \in ModeRequest : handleMode(f, name, req)
  <2>1. PICK f \in Fd, name \in ChanWord, req \in ModeRequest : handleMode(f, name, req)
    BY <1>3
  <2>2. channels[Lower[name]].operators # {} /\ \A v \in running' : v.chan = Lower[name]
    BY <2>1 DEF handleMode
  <2> QED
    BY <2>2 DEF Leaderless
<1>4. CASE /\ \E f \in Fd : Connection(f) \/ ChannelCommand(f)
           /\ ~ \E f \in Fd, name \in ChanWord, req \in ModeRequest : handleMode(f, name, req)
  <2>1. UNCHANGED running
    BY <1>4 DEF Connection, acceptNewClient, disconnectClient, handlePass, handleNick,
                handleUser, handleQuit, ChannelCommand, handleJoin, handlePart, JoinZero,
                handleKick, handleInvite, handleTopic
  <2> QED
    BY <2>1 DEF Leaderless
<1> QED
  BY <1>1, <1>2, <1>3, <1>4 DEF Next

-----------------------------------------------------------------------------
\* Nobody comes to lead a channel that has lost its operators, and nothing that
\* is theirs to decide changes in it, until it is empty and gone.
THEOREM LeaderlessStaysFrozen == Spec => LeaderlessFrozen
<1>1. ASSUME Consistent, [Next]_vars, NEW c \in Chan, Leaderless(c)
      PROVE  c \notin chans' \/ (NothingDecided(c) /\ NoModeOn(c)')
  <2>1. CASE \E f \in Fd, req \in JoinRequest : handleJoin(f, req)
    <3>1. channels[c].members # {}
      BY <1>1 DEF Consistent, ChannelsInhabited, Leaderless
    <3> QED
      BY <1>1, <2>1, <3>1, JoinEffect, NoModeStarts DEF Leaderless, NothingDecided
  <2>2. CASE channels'[c] = channels[c]
    BY <1>1, <2>2, NoModeStarts DEF Leaderless, NothingDecided
  <2> QED
    BY <1>1, <2>1, <2>2, StepEffect, NoModeStarts
<1>2. Consistent /\ [Next]_vars =>
        [\A c \in Chan : Leaderless(c) =>
            c \notin chans' \/ (NothingDecided(c) /\ NoModeOn(c)')]_vars
  BY <1>1
<1> QED
  BY <1>2, AlwaysConsistent, PTL DEF Spec, LeaderlessFrozen

\* An invitation lets its holder in once.
THEOREM InvitationsAdmitOnce == Spec => InvitationAdmitsOnce
<1>1. ASSUME Consistent, [Next]_vars, NEW c \in Chan, NEW g \in Fd,
             g \in channels'[c].members \ channels[c].members, channels[c].inviteOnly
      PROVE  InviteUsed(c, g)
  <2>1. PICK f \in Fd, req \in JoinRequest : handleJoin(f, req)
    BY <1>1, StepEffect
  <2>2. /\ \E key : MayJoin(channels[c], f, key)
        /\ channels'[c].members = channels[c].members \cup {f}
        /\ channels'[c].invitedUsers =
              channels[c].invitedUsers \ {Lower[clients[f].nickname]}
    BY <1>1, <2>1, JoinEffect
  <2>3. g = f /\ Lower[clients[f].nickname] \in channels[c].invitedUsers
    BY <1>1, <2>2 DEF MayJoin, isInvited
  <2>4. clients'[f].nickname = clients[f].nickname
    BY <1>1, <2>1, ChannelCommandEffect DEF ChannelCommand, Consistent
  <2> QED
    BY <2>2, <2>3, <2>4 DEF InviteUsed
<1>2. Consistent /\ [Next]_vars =>
        [\A c \in Chan, f \in Fd :
            f \in channels'[c].members \ channels[c].members /\ channels[c].inviteOnly
            => InviteUsed(c, f)]_vars
  BY <1>1
<1> QED
  BY <1>2, AlwaysConsistent, PTL DEF Spec, InvitationAdmitsOnce

\* No step that adds a member ends above the limit of the channel.
THEOREM LimitsRespected == Spec => LimitRespected
<1>1. ASSUME Consistent, [Next]_vars, NEW c \in Chan,
             ~(channels'[c].members \subseteq channels[c].members),
             channels[c].userLimit # 0
      PROVE  Cardinality(channels'[c].members) <= channels[c].userLimit
  <2>1. PICK f \in Fd, req \in JoinRequest : handleJoin(f, req)
    BY <1>1, StepEffect
  <2>2. /\ \E key : MayJoin(channels[c], f, key)
        /\ channels'[c].members = channels[c].members \cup {f}
    BY <1>1, <2>1, JoinEffect
  <2>3. /\ channels[c].members \subseteq Fd
        /\ channels[c].userLimit \in Nat
    BY <1>1 DEF Consistent, TypeOK, ChannelType
  <2>4. IsFiniteSet(channels[c].members)
    BY <2>3, WordsAssumption, FS_Subset
  <2>5. /\ f \notin channels[c].members
        /\ ~(Cardinality(channels[c].members) >= channels[c].userLimit)
    BY <1>1, <2>2, <2>3 DEF MayJoin, isFull
  <2>6. /\ Cardinality(channels[c].members) \in Nat
        /\ Cardinality(channels[c].members \cup {f}) = Cardinality(channels[c].members) + 1
    BY <2>4, <2>5, FS_CardinalityType, FS_AddElement
  <2> QED
    BY <2>2, <2>3, <2>5, <2>6
<1>2. Consistent /\ [Next]_vars =>
        [\A c \in Chan :
            \/ channels'[c].members \subseteq channels[c].members
            \/ channels[c].userLimit = 0
            \/ Cardinality(channels'[c].members) <= channels[c].userLimit]_vars
  BY <1>1
<1> QED
  BY <1>2, AlwaysConsistent, PTL DEF Spec, LimitRespected

-----------------------------------------------------------------------------
(* IrcServer implements Room, for any number of clients, any words and any   *)
(* requests.                                                                *)

\* The variables of Room as the tables have them.
Registered == {f \in live : clients[f].registered}
Inside == {p \in Fd \X Chan : p[2] \in clients[p[1]].channels}
Leads == {p \in Fd \X Chan : p[1] \in channels[p[2]].operators}
Rules == [c \in Chan |-> RulesOf(channels[c])]
Deciding == {w.chan : w \in running}

\* Client::_channels and Channel::_members give the same pairs.
OneMembership ==
    \A f \in Fd, c \in Chan :
        /\ <<f, c>> \in Inside <=> f \in channels[c].members
        /\ <<f, c>> \in Leads <=> f \in channels[c].operators

LEMMA ConsistentIsOne == Consistent => OneMembership
<1> SUFFICES ASSUME Consistent, NEW f \in Fd, NEW c \in Chan
             PROVE  /\ <<f, c>> \in Inside <=> f \in channels[c].members
                    /\ <<f, c>> \in Leads <=> f \in channels[c].operators
  BY DEF OneMembership
<1>1. c \in clients[f].channels <=> f \in channels[c].members
  BY DEF Consistent, MembershipAgrees, NoStaleMember, ChannelsInhabited
<1> QED BY <1>1 DEF Inside, Leads

LEMMA PairSets ==
    ASSUME NEW A \in SUBSET (Fd \X Chan), NEW B \in SUBSET (Fd \X Chan),
           \A f \in Fd, c \in Chan : <<f, c>> \in A <=> <<f, c>> \in B
    PROVE  A = B
OBVIOUS

\* Both states of a step have one record of membership.
LEMMA StepIsOne ==
    ASSUME Consistent, [Next]_vars
    PROVE  Consistent' /\ OneMembership /\ OneMembership'
<1>1. Consistent'
  BY NextConsistent
<1>2. Consistent' => OneMembership'
  BY ConsistentIsOne, PTL
<1> QED BY <1>1, <1>2, ConsistentIsOne

-----------------------------------------------------------------------------
(* Entering and leaving.                                                    *)

\* What every way out of a channel comes to: the pairs of g with the channels
\* cs are gone, ranks too, and a channel that is empty has no modes.
LEMMA Removal ==
    ASSUME Consistent, Consistent', OneMembership, OneMembership',
           NEW g \in Fd, NEW cs \in SUBSET Chan, NEW ds \in SUBSET chans, ds \subseteq cs,
           \A c \in cs \ ds : g \notin channels[c].members,
           RemoveFrom(g, ds)
    PROVE  Rooms!Remove({g} \X cs)
<1>1. /\ TypeOK
      /\ \A c \in Chan : channels[c].operators \subseteq channels[c].members
      /\ \A c \in Chan : channels'[c].operators \subseteq channels'[c].members
      /\ \A c \in Chan : channels'[c].members \subseteq Fd
  BY DEF Consistent, NoStaleMember, TypeOK, ChannelType
<1>2. \A c \in Chan :
          /\ channels'[c].members = IF c \in ds THEN channels[c].members \ {g}
                                                ELSE channels[c].members
          /\ channels'[c].operators \subseteq channels[c].operators
          /\ c \in ds => g \notin channels'[c].operators
          /\ c \in chans' => RulesOf(channels'[c]) = RulesOf(channels[c])
          /\ c \notin ds => channels'[c] = channels[c]
  <2>1. \A c \in Chan :
            /\ channels'[c].members = IF c \in ds THEN channels[c].members \ {g}
                                                  ELSE channels[c].members
            /\ channels'[c].operators \subseteq channels[c].operators
            /\ c \in ds => g \notin channels'[c].operators
            /\ channels'[c].invitedUsers \subseteq channels[c].invitedUsers
            /\ c \in chans' => /\ c \in chans
                               /\ c \in ds => channels'[c].members # {}
                               /\ channels'[c].inviteOnly = channels[c].inviteOnly
                               /\ channels'[c].topicRestricted = channels[c].topicRestricted
                               /\ channels'[c].key = channels[c].key
                               /\ channels'[c].userLimit = channels[c].userLimit
                               /\ channels'[c].topic = channels[c].topic
            /\ c \in chans \ chans' => channels'[c] = NewChannel
            /\ c \notin ds => channels'[c] = channels[c] /\ (c \in chans' <=> c \in chans)
    BY <1>1, RemoveFromEffect
  <2>2. \A c \in Chan : c \in chans' => RulesOf(channels'[c]) = RulesOf(channels[c])
    BY <2>1 DEF RulesOf
  <2> QED BY <2>1, <2>2
<1>3. \A c \in ds : channels'[c].operators = channels[c].operators \ {g}
  <2> SUFFICES ASSUME NEW c \in ds PROVE channels'[c].operators = channels[c].operators \ {g}
    OBVIOUS
  <2>1. c \in Chan
    BY <1>1 DEF TypeOK
  <2>2. CASE channels[c].members \subseteq {g}
    BY <1>1, <1>2, <2>1, <2>2
  <2>3. CASE ~(channels[c].members \subseteq {g})
    <3>1. channels'[c] = removeMember(channels[c], g)
      BY <2>1, <2>3 DEF RemoveFrom
    <3>2. channels[c] \in ChannelType
      BY <1>1, <2>1 DEF TypeOK
    <3> QED BY <3>1, <3>2 DEF removeMember, ChannelType
  <2> QED BY <2>2, <2>3
<1>4. Inside' = Inside \ ({g} \X cs)
  <2>1. \A f \in Fd, c \in Chan : <<f, c>> \in Inside' <=> <<f, c>> \in Inside \ ({g} \X cs)
    BY <1>2 DEF OneMembership
  <2>2. Inside' \in SUBSET (Fd \X Chan) /\ Inside \ ({g} \X cs) \in SUBSET (Fd \X Chan)
    BY DEF Inside
  <2> QED BY <2>1, <2>2, PairSets
<1>5. Leads' = Leads \ ({g} \X cs)
  <2>1. \A f \in Fd, c \in Chan : <<f, c>> \in Leads' <=> <<f, c>> \in Leads \ ({g} \X cs)
    <3> SUFFICES ASSUME NEW f \in Fd, NEW c \in Chan
                 PROVE  f \in channels'[c].operators <=> f \in channels[c].operators /\ ~(f = g /\ c \in cs)
      BY DEF OneMembership
    <3>1. CASE c \in ds
      BY <1>3, <3>1
    <3>2. CASE c \notin ds
      BY <1>1, <1>2, <3>2
    <3> QED BY <3>1, <3>2
  <2>2. Leads' \in SUBSET (Fd \X Chan) /\ Leads \ ({g} \X cs) \in SUBSET (Fd \X Chan)
    BY DEF Leads
  <2> QED BY <2>1, <2>2, PairSets
<1>6. \A r \in Chan : RulesOf(channels'[r]) = IF \E p \in Fd : <<p, r>> \in Inside'
                                              THEN Rules[r] ELSE RulesOf(NewChannel)
  <2> SUFFICES ASSUME NEW r \in Chan
               PROVE  RulesOf(channels'[r]) = IF \E p \in Fd : <<p, r>> \in Inside'
                                              THEN Rules[r] ELSE RulesOf(NewChannel)
    OBVIOUS
  <2>1. CASE r \in chans'
    <3>1. \E p \in Fd : p \in channels'[r].members
      BY <1>1, <2>1 DEF Consistent, ChannelsInhabited
    <3> QED BY <1>2, <2>1, <3>1 DEF OneMembership, Rules
  <2>2. CASE r \notin chans'
    <3>1. channels'[r].members = {} /\ channels'[r] = NewChannel
      BY <2>2 DEF Consistent, ChannelsInhabited, AbsentIsNew
    <3> QED BY <3>1 DEF OneMembership
  <2> QED BY <2>1, <2>2
<1>7. Rules' = [r \in Chan |-> IF \E p \in Fd : <<p, r>> \in Inside'
                               THEN Rules[r] ELSE RulesOf(NewChannel)]
  BY <1>6 DEF Rules
<1> QED BY <1>4, <1>5, <1>7 DEF Rooms!Remove, Rooms!ForgetRulesOfEmptied, Inside, Leads, Rules

\* The rest of a step out of channels: nothing else changes.
LEMMA OutsideStep ==
    ASSUME Consistent, [Next]_vars, NEW g \in live, NEW cs \in SUBSET chans,
           \A c \in cs : g \in channels[c].members,
           RemoveFrom(g, cs),
           clients' = [clients EXCEPT ![g].channels = @ \ cs],
           live' = live, running' = running
    PROVE  \E rs \in SUBSET Chan : Rooms!Leave(g, rs)
<1>1. g \in Fd /\ cs \in SUBSET Chan /\ clients \in [Fd -> ClientType]
  BY DEF Consistent, TypeOK
<1>2. Rooms!Remove({g} \X cs)
  BY <1>1, StepIsOne, Removal
<1>3. \A f \in Fd : clients'[f].registered = clients[f].registered
  BY <1>1 DEF ClientType
<1>4. Registered' = Registered /\ Deciding' = Deciding
  BY <1>1, <1>3 DEF Registered, Deciding, Consistent, TypeOK
<1>5. Rooms!Leave(g, cs)
  BY <1>2, <1>4 DEF Rooms!Leave, Registered, Deciding
<1> QED BY <1>1, <1>5

LEMMA PartStep ==
    ASSUME Consistent, [Next]_vars, NEW f \in Fd, NEW names, handlePart(f, names)
    PROVE  \E rs \in SUBSET Chan : Rooms!Leave(f, rs)
<1> DEFINE left == {c \in chans : f \in channels[c].members /\ \E n \in names : Lower[n] = c}
<1>1. /\ f \in live
      /\ RemoveFrom(f, left)
      /\ clients' = [clients EXCEPT ![f].channels = @ \ left]
      /\ live' = live /\ running' = running
  BY DEF handlePart, MayCommand
<1>2. left \in SUBSET chans /\ \A c \in left : f \in channels[c].members
  OBVIOUS
<1> HIDE DEF left
<1> QED BY <1>1, <1>2, OutsideStep

LEMMA KickStep ==
    ASSUME Consistent, [Next]_vars, NEW f \in Fd, NEW name, NEW w, handleKick(f, name, w)
    PROVE  \E g \in Fd : \E rs \in SUBSET Chan : Rooms!Leave(g, rs)
<1>1. PICK g \in MembersNamed(Lower[name], w) :
          /\ RemoveFrom(g, {Lower[name]})
          /\ clients' = [clients EXCEPT ![g].channels = @ \ {Lower[name]}]
  BY DEF handleKick
<1>2. Lower[name] \in chans /\ live' = live /\ running' = running
  BY DEF handleKick
<1>3. /\ g \in live /\ g \in Fd
      /\ {Lower[name]} \in SUBSET chans
      /\ \A c \in {Lower[name]} : g \in channels[c].members
  BY <1>1, <1>2 DEF MembersNamed, Consistent, TypeOK, NoStaleMember
<1> QED BY <1>1, <1>2, <1>3, OutsideStep

LEMMA DisconnectStep ==
    ASSUME Consistent, [Next]_vars, NEW f \in Fd, disconnectClient(f)
    PROVE  Rooms!Vanish(f)
<1> DEFINE ds == clients[f].channels \cap chans
<1>1. /\ RemoveFrom(f, ds) /\ live' = live \ {f}
      /\ clients' = [clients EXCEPT ![f] = NewClient]
      /\ running' = running
  BY DEF disconnectClient
<1>2. \A c \in Chan \ ds : f \notin channels[c].members
  BY DEF Consistent, MembershipAgrees, NoStaleMember, ChannelsInhabited
<1>3. ds \in SUBSET chans /\ ds \subseteq Chan
  BY DEF Consistent, TypeOK
<1> HIDE DEF ds
<1>4. Rooms!Remove({f} \X Chan)
  BY <1>1, <1>2, <1>3, StepIsOne, Removal
<1>5. clients \in [Fd -> ClientType] /\ live \subseteq Fd
  BY DEF Consistent, TypeOK
<1>6. Registered' = Registered \ {f} /\ Deciding' = Deciding
  BY <1>1, <1>5 DEF Registered, Deciding
<1> QED BY <1>4, <1>6 DEF Rooms!Vanish, Registered, Deciding

\* The channels a JOIN lets the client into, all at once.
LEMMA JoinStep ==
    ASSUME Consistent, [Next]_vars, NEW f \in Fd, NEW req, handleJoin(f, req)
    PROVE  \E rs \in SUBSET Chan : Rooms!Enter(f, rs)
<1>1. PICK entered \in SUBSET Chan :
          entered = {c \in Chan : \E r \in req : Lower[r[1]] = c /\ MayJoin(channels[c], f, r[2])}
  OBVIOUS
<1>2. /\ f \in live /\ clients[f].registered
      /\ channels' = [c \in Chan |->
             IF c \in entered THEN joinSingleChannel(channels[c], f) ELSE channels[c]]
      /\ clients' = [clients EXCEPT ![f].channels = @ \cup entered]
      /\ live' = live /\ running' = running
  BY <1>1 DEF handleJoin, MayCommand
<1>3. OneMembership /\ OneMembership'
  BY StepIsOne
<1>4. /\ clients \in [Fd -> ClientType] /\ live \subseteq Fd
      /\ \A c \in Chan : channels[c] \in ChannelType
  BY DEF Consistent, TypeOK
<1>5. \A c \in Chan :
          /\ channels'[c].members = IF c \in entered THEN channels[c].members \cup {f}
                                    ELSE channels[c].members
          /\ channels'[c].operators = IF c \in entered /\ channels[c].members = {}
                                      THEN channels[c].operators \cup {f}
                                      ELSE channels[c].operators
          /\ RulesOf(channels'[c]) = RulesOf(channels[c])
  BY <1>2, <1>4 DEF joinSingleChannel, addMember, removeInvite, RulesOf, ChannelType
<1>6. Inside' = Inside \cup ({f} \X entered)
  <2>1. \A g \in Fd, c \in Chan : <<g, c>> \in Inside' <=> <<g, c>> \in Inside \cup ({f} \X entered)
    BY <1>3, <1>5 DEF OneMembership
  <2>2. Inside' \in SUBSET (Fd \X Chan) /\ Inside \cup ({f} \X entered) \in SUBSET (Fd \X Chan)
    BY <1>1 DEF Inside
  <2> QED BY <2>1, <2>2, PairSets
<1> DEFINE empty == {c \in entered : ~\E p \in Fd : <<p, c>> \in Inside}
<1>7. \A c \in Chan : c \in empty <=> c \in entered /\ channels[c].members = {}
  BY <1>1, <1>3, <1>4 DEF OneMembership, ChannelType
<1> HIDE DEF empty
<1>8. Leads' = Leads \cup ({f} \X empty)
  <2>1. \A g \in Fd, c \in Chan : <<g, c>> \in Leads' <=> <<g, c>> \in Leads \cup ({f} \X empty)
    BY <1>3, <1>5, <1>7 DEF OneMembership
  <2>2. empty \subseteq Chan
    BY <1>1 DEF empty
  <2>3. Leads' \in SUBSET (Fd \X Chan) /\ Leads \cup ({f} \X empty) \in SUBSET (Fd \X Chan)
    BY <2>2 DEF Leads
  <2> QED BY <2>1, <2>3, PairSets
<1>9. Rules' = Rules
  BY <1>5 DEF Rules
<1>10. Registered' = Registered /\ Deciding' = Deciding /\ f \in Registered
  <2>1. \A g \in Fd : clients'[g].registered = clients[g].registered
    BY <1>2, <1>4 DEF ClientType
  <2> QED BY <1>2, <1>4, <2>1 DEF Registered, Deciding
<1>11. Rooms!Enter(f, entered)
  BY <1>6, <1>8, <1>9, <1>10
     DEF Rooms!Enter, Rooms!Inhabited, Inside, Leads, Rules, Registered, Deciding, empty
<1> QED BY <1>11

-----------------------------------------------------------------------------
(* Steps that no table of Room sees, registration, and MODE.                *)

\* What is in channels and how they are ruled stays, and nobody registers.
LEMMA UnseenStep ==
    ASSUME Consistent, [Next]_vars,
           \A f \in Fd : /\ f \in live' /\ clients'[f].registered <=> f \in live /\ clients[f].registered
                         /\ clients'[f].channels = clients[f].channels,
           \A c \in Chan : /\ channels'[c].operators = channels[c].operators
                           /\ RulesOf(channels'[c]) = RulesOf(channels[c]),
           running' = running
    PROVE  UNCHANGED Rooms!roomVars
<1>1. live \subseteq Fd /\ live' \subseteq Fd
  BY StepIsOne DEF Consistent, TypeOK
<1>2. Registered' = Registered
  BY <1>1 DEF Registered
<1>3. Inside' = Inside /\ Leads' = Leads
  BY DEF Inside, Leads
<1>4. Rules' = Rules /\ Deciding' = Deciding
  BY DEF Rules, Deciding
<1> QED BY <1>2, <1>3, <1>4 DEF Rooms!roomVars, Registered, Inside, Leads, Rules, Deciding

\* PASS, NICK, USER and QUIT change one client and none of its channels.
LEMMA ClientStep ==
    ASSUME Consistent, [Next]_vars, NEW f \in live, NEW cl \in ClientType,
           clients' = [clients EXCEPT ![f] = cl],
           cl.channels = clients[f].channels,
           clients[f].registered => cl.registered,
           UNCHANGED <<live, chans, channels, running>>
    PROVE  Rooms!Admit(f) \/ UNCHANGED Rooms!roomVars
<1>1. f \in Fd /\ live \subseteq Fd /\ clients \in [Fd -> ClientType]
  BY DEF Consistent, TypeOK
<1>2. \A g \in Fd : clients'[g].channels = clients[g].channels
  BY <1>1
<1>3. CASE cl.registered <=> clients[f].registered
  <2>1. \A g \in Fd : clients'[g].registered <=> clients[g].registered
    BY <1>1, <1>3
  <2> QED BY <1>2, <2>1, UnseenStep
<1>4. CASE cl.registered /\ ~clients[f].registered
  <2>1. Registered' = Registered \cup {f} /\ f \notin Registered
    BY <1>1, <1>4 DEF Registered
  <2>2. Inside' = Inside /\ Leads' = Leads /\ Rules' = Rules /\ Deciding' = Deciding
    BY <1>2 DEF Inside, Leads, Rules, Deciding
  <2> QED BY <2>1, <2>2 DEF Rooms!Admit, Registered, Inside, Leads, Rules, Deciding
<1> QED BY <1>3, <1>4

LEMMA ConnectionStep ==
    ASSUME Consistent, [Next]_vars, NEW f \in Fd, Connection(f)
    PROVE  Rooms!Admit(f) \/ Rooms!Vanish(f) \/ UNCHANGED Rooms!roomVars
<1>1. clients \in [Fd -> ClientType] /\ live \subseteq Fd /\ clients[f] \in ClientType
  BY DEF Consistent, TypeOK
<1>2. CASE acceptNewClient(f)
  <2>1. clients[f].channels = {} /\ f \notin live
    BY <1>1, <1>2 DEF acceptNewClient, Consistent, MembershipAgrees, ClientType
  <2>2. \A g \in Fd :
           /\ g \in live' /\ clients'[g].registered <=> g \in live /\ clients[g].registered
           /\ clients'[g].channels = clients[g].channels
    BY <1>1, <1>2, <2>1 DEF acceptNewClient, NewClient
  <2>3. channels' = channels /\ running' = running
    BY <1>2 DEF acceptNewClient
  <2> QED BY <2>2, <2>3, UnseenStep
<1>3. CASE disconnectClient(f)
  BY <1>3, DisconnectStep
<1>4. CASE \E right \in PassRight : handlePass(f, right)
  <2>1. /\ [clients[f] EXCEPT !.passwordProvided = TRUE] \in ClientType
        /\ [clients[f] EXCEPT !.shouldDisconnect = TRUE] \in ClientType
    BY <1>1 DEF ClientType
  <2>2. f \in live /\ UNCHANGED <<live, chans, channels, running>>
    BY <1>4 DEF handlePass
  <2>3. \E cl \in ClientType :
           /\ clients' = [clients EXCEPT ![f] = cl]
           /\ cl.channels = clients[f].channels
           /\ cl.registered = clients[f].registered
    BY <1>1, <1>4, <2>1 DEF handlePass, ClientType
  <2> QED BY <2>2, <2>3, ClientStep
<1>5. CASE \E n \in NickWord : handleNick(f, n)
  <2>1. PICK n \in NickWord : handleNick(f, n)
    BY <1>5
  <2> DEFINE cl == checkRegistration([clients[f] EXCEPT !.nickname = n])
  <2>2. cl \in ClientType
    BY <1>1, ClientTypes
  <2>3. cl.channels = clients[f].channels /\ (clients[f].registered => cl.registered)
    BY <1>1 DEF checkRegistration, ClientType
  <2>4. /\ f \in live /\ UNCHANGED <<live, chans, channels, running>>
        /\ clients' = [clients EXCEPT ![f] = cl]
    BY <2>1 DEF handleNick
  <2> HIDE DEF cl
  <2> QED BY <2>2, <2>3, <2>4, ClientStep
<1>6. CASE handleUser(f)
  <2> DEFINE cl == checkRegistration([clients[f] EXCEPT !.username = TRUE])
  <2>1. cl \in ClientType
    BY <1>1, ClientTypes
  <2>2. cl.channels = clients[f].channels /\ (clients[f].registered => cl.registered)
    BY <1>1 DEF checkRegistration, ClientType
  <2>3. /\ f \in live /\ UNCHANGED <<live, chans, channels, running>>
        /\ clients' = [clients EXCEPT ![f] = cl]
    BY <1>6 DEF handleUser
  <2> HIDE DEF cl
  <2> QED BY <2>1, <2>2, <2>3, ClientStep
<1>7. CASE handleQuit(f)
  <2> DEFINE cl == [clients[f] EXCEPT !.shouldDisconnect = TRUE]
  <2>1. /\ cl \in ClientType
        /\ cl.channels = clients[f].channels
        /\ cl.registered = clients[f].registered
    BY <1>1 DEF ClientType
  <2>2. /\ f \in live /\ UNCHANGED <<live, chans, channels, running>>
        /\ clients' = [clients EXCEPT ![f] = cl]
    BY <1>7 DEF handleQuit
  <2> HIDE DEF cl
  <2> QED BY <2>1, <2>2, ClientStep
<1> QED BY <1>2, <1>3, <1>4, <1>5, <1>6, <1>7 DEF Connection

\* INVITE and TOPIC change what Room does not speak of.
LEMMA InviteStep ==
    ASSUME Consistent, [Next]_vars, NEW f \in Fd, NEW w, NEW name, handleInvite(f, w, name)
    PROVE  UNCHANGED Rooms!roomVars
<1>1. Lower[name] \in Chan /\ UNCHANGED <<live, clients, chans, running>>
  BY DEF handleInvite, Consistent, TypeOK
<1>2. \A c \in Chan : channels[c] \in ChannelType
  BY DEF Consistent, TypeOK
<1>3. \A c \in Chan : /\ channels'[c].operators = channels[c].operators
                      /\ RulesOf(channels'[c]) = RulesOf(channels[c])
  BY <1>1, <1>2 DEF handleInvite, addInvite, RulesOf, ChannelType, Consistent, TypeOK
<1> QED BY <1>1, <1>3, UnseenStep

LEMMA TopicStep ==
    ASSUME Consistent, [Next]_vars, NEW f \in Fd, NEW name, NEW t, handleTopic(f, name, t)
    PROVE  UNCHANGED Rooms!roomVars
<1>1. Lower[name] \in Chan /\ UNCHANGED <<live, clients, chans, running>>
  BY DEF handleTopic, Consistent, TypeOK
<1>2. \A c \in Chan : channels[c] \in ChannelType
  BY DEF Consistent, TypeOK
<1>3. \A c \in Chan : /\ channels'[c].operators = channels[c].operators
                      /\ RulesOf(channels'[c]) = RulesOf(channels[c])
  BY <1>1, <1>2 DEF handleTopic, RulesOf, ChannelType, Consistent, TypeOK
<1> QED BY <1>1, <1>3, UnseenStep

LEMMA ModeStart ==
    ASSUME Consistent, [Next]_vars, NEW f \in Fd, NEW name, NEW req, handleMode(f, name, req)
    PROVE  \E c \in Chan : Rooms!Begin(f, c)
<1>1. /\ Lower[name] \in Chan /\ f \in channels[Lower[name]].operators
      /\ running' = {[fd |-> f, chan |-> Lower[name], adding |-> TRUE,
                      todo |-> req[1], params |-> req[2]]}
      /\ UNCHANGED <<live, clients, chans, channels>>
  BY DEF handleMode, Consistent, TypeOK
<1>2. PICK c \in Chan : c = Lower[name]
  BY <1>1
<1>3. <<f, c>> \in Leads
  BY <1>1, <1>2 DEF Leads
<1>4. Deciding' = {c}
  BY <1>1, <1>2 DEF Deciding
<1>5. Registered' = Registered /\ Inside' = Inside /\ Leads' = Leads /\ Rules' = Rules
  BY <1>1 DEF Registered, Inside, Leads, Rules
<1> QED BY <1>3, <1>4, <1>5 DEF Rooms!Begin, Registered, Inside, Leads, Rules, Deciding

\* One character of a MODE decides in the channel it was sent for and in no other.
LEMMA ModeDecides ==
    ASSUME Consistent, [Next]_vars, NEW w \in running, applyModeChanges(w)
    PROVE  Rooms!Decide(w.chan)
<1>1. /\ UNCHANGED <<live, clients, chans>>
      /\ \A c \in Chan : /\ channels'[c].members = channels[c].members
                         /\ channels'[c].operators \subseteq channels'[c].members
                         /\ c # w.chan => channels'[c] = channels[c]
      /\ \A v \in running' : v.chan = w.chan
  BY ModeEffect DEF Consistent
<1>2. OneMembership /\ OneMembership' /\ TypeOK'
  BY StepIsOne DEF Consistent
<1>3. Deciding' \in SUBSET Deciding
  BY <1>1 DEF Deciding
<1>4. Leads' \subseteq Inside
  <2>1. \A f \in Fd, c \in Chan : <<f, c>> \in Leads' => <<f, c>> \in Inside
    BY <1>1, <1>2 DEF OneMembership
  <2> QED BY <2>1 DEF Leads
<1>5. Rules' \in [Chan -> [inviteOnly : BOOLEAN, topicRestricted : BOOLEAN,
                           key : Text, userLimit : Nat]]
  BY <1>2 DEF TypeOK, ChannelType, Rules, RulesOf
<1>6. \A s \in Chan \ {w.chan} :
          /\ Rules'[s] = Rules[s]
          /\ \A f \in Fd : <<f, s>> \in Leads' <=> <<f, s>> \in Leads
  BY <1>1 DEF Rules, Leads
<1>7. Registered' = Registered /\ Inside' = Inside
  BY <1>1 DEF Registered, Inside
<1> QED BY <1>3, <1>4, <1>5, <1>6, <1>7
        DEF Rooms!Decide, Registered, Inside, Leads, Rules, Deciding

-----------------------------------------------------------------------------
(* The refinement.                                                          *)

LEMMA RoomStep == Consistent /\ [Next]_vars => [Rooms!Next]_(Rooms!roomVars)
<1> SUFFICES ASSUME Consistent, [Next]_vars
             PROVE  Rooms!Next \/ UNCHANGED Rooms!roomVars
  OBVIOUS
<1>1. ASSUME NEW f \in Fd, Idle, Rooms!Undisturbed(f)
      PROVE  Rooms!Next
  BY <1>1 DEF Rooms!Next, Idle
<1>2. CASE UNCHANGED vars
  BY <1>2 DEF vars, Rooms!roomVars
<1>3. ASSUME NEW f \in Fd, Connection(f)
      PROVE  Rooms!Next \/ UNCHANGED Rooms!roomVars
  <2>1. Idle
    BY <1>3 DEF Connection, acceptNewClient, disconnectClient, handlePass, handleNick,
                handleUser, handleQuit
  <2>2. Rooms!Admit(f) \/ Rooms!Vanish(f) => Rooms!Undisturbed(f)
    BY DEF Rooms!Undisturbed
  <2> QED BY <1>1, <1>3, <2>1, <2>2, ConnectionStep
<1>4. ASSUME NEW f \in Fd, ChannelCommand(f)
      PROVE  Rooms!Next \/ UNCHANGED Rooms!roomVars
  <2>1. Idle
    BY <1>4 DEF ChannelCommand, handleJoin, JoinZero, handlePart, handleKick,
                handleInvite, handleTopic, handleMode, MayCommand
  <2>2. ASSUME NEW g \in Fd,
               \/ \E rs \in SUBSET Chan : Rooms!Enter(g, rs)
               \/ \E rs \in SUBSET Chan : Rooms!Leave(g, rs)
               \/ \E c \in Chan : Rooms!Begin(g, c)
        PROVE  Rooms!Next
    <3>1. Rooms!Undisturbed(g)
      BY <2>2 DEF Rooms!Undisturbed
    <3> QED BY <1>1, <2>1, <3>1
  <2>3. CASE \E req \in JoinRequest : handleJoin(f, req)
    BY <2>2, <2>3, JoinStep
  <2>4. CASE (\E names \in PartRequest : handlePart(f, names)) \/ JoinZero(f)
    BY <2>2, <2>4, PartStep DEF JoinZero
  <2>5. CASE \E name \in ChanWord, w \in NickWord : handleKick(f, name, w)
    BY <2>2, <2>5, KickStep
  <2>6. CASE \E name \in ChanWord, w \in NickWord : handleInvite(f, w, name)
    BY <2>6, InviteStep
  <2>7. CASE \E name \in ChanWord, t \in TopicWord : handleTopic(f, name, t)
    BY <2>7, TopicStep
  <2>8. CASE \E name \in ChanWord, req \in ModeRequest : handleMode(f, name, req)
    BY <2>2, <2>8, ModeStart
  <2> QED BY <1>4, <2>3, <2>4, <2>5, <2>6, <2>7, <2>8 DEF ChannelCommand
<1>5. ASSUME NEW w \in running, applyModeChanges(w)
      PROVE  Rooms!Next
  <2>1. Rooms!Decide(w.chan)
    BY <1>5, ModeDecides
  <2> QED BY <2>1 DEF Rooms!Next
<1> QED BY <1>2, <1>3, <1>4, <1>5 DEF Next

\* For any number of clients and whatever they send: the tables of the server
\* behave as rooms that people enter and leave and in which leaders decide.
THEOREM IrcServerImplementsRoom == Spec => ImplementsRoom
<1>1. Init => Rooms!Init
  BY DEF Init, Rooms!Init, NewClient, NewChannel
<1> QED BY <1>1, RoomStep, AlwaysConsistent, PTL DEF Spec, ImplementsRoom, Rooms!Spec
=============================================================================
