-------------------------- MODULE IrcServerProofs --------------------------
(* Proofs that the properties of IrcServer hold for any number of clients,  *)
(* any words and any requests.                                              *)
EXTENDS IrcServer, SequenceTheorems, FiniteSetTheorems, TLAPS

-----------------------------------------------------------------------------
(* The words and the types of the methods.                                  *)

\* Looking a name up yields a key of _channels, a nickname one of the names
\* that an invitation can hold.
LEMMA LowerTypes ==
    /\ \A w \in ChanWord : Lower[w] \in Chan
    /\ \A w \in NickWord : Lower[w] \in {Lower[v] : v \in NickWord}
    /\ Chan \subseteq Text
  BY WordsAssumption DEF Chan, Text

\* Both records of a new object have their type.
LEMMA NewTypes ==
    /\ NewClient \in ClientType
    /\ NewChannel \in ChannelType
  BY DEF NewClient, ClientType, NewChannel, ChannelType, Text

\* Methods that add or take away members and operators keep the type.
LEMMA MethodTypes ==
    ASSUME NEW ch \in ChannelType, NEW f \in Fd
    PROVE  /\ addMember(ch, f) \in ChannelType
           /\ removeMember(ch, f) \in ChannelType
           /\ addOperator(ch, f) \in ChannelType
           /\ removeOperator(ch, f) \in ChannelType
           /\ \A w : removeInvite(ch, w) \in ChannelType
           /\ \A w : Lower[w] \in {Lower[v] : v \in NickWord}
                        => addInvite(ch, w) \in ChannelType
  BY DEF ChannelType, addMember, removeMember, addOperator, removeOperator,
         removeInvite, addInvite

\* What RemoveFrom does to each channel: the one place where channels vanish.
LEMMA RemoveFromEffect ==
    ASSUME TypeOK, NEW f \in Fd, NEW cs \in SUBSET chans, RemoveFrom(f, cs)
    PROVE  /\ chans' \subseteq chans
           /\ channels' \in [Chan -> ChannelType]
           /\ \A c \in Chan :
                 /\ channels'[c].members = IF c \in cs THEN channels[c].members \ {f}
                                                       ELSE channels[c].members
                 /\ channels'[c].operators \subseteq channels[c].operators
                 /\ c \in cs => f \notin channels'[c].operators
                 /\ channels'[c].invitedUsers \subseteq channels[c].invitedUsers
                 /\ c \in chans' => /\ c \in chans
                                    /\ c \in cs => channels'[c].members # {}
                                    /\ channels'[c].inviteOnly = channels[c].inviteOnly
                                    /\ channels'[c].topicRestricted = channels[c].topicRestricted
                                    /\ channels'[c].key = channels[c].key
                                    /\ channels'[c].userLimit = channels[c].userLimit
                                    /\ channels'[c].topic = channels[c].topic
                 /\ c \in chans \ chans' => channels'[c] = NewChannel
                 /\ c \notin cs => channels'[c] = channels[c] /\ (c \in chans' <=> c \in chans)
<1> DEFINE emptied == {c \in cs : channels[c].members \subseteq {f}}
<1>1. /\ chans' = chans \ emptied
      /\ channels' = [c \in Chan |-> IF c \in emptied THEN NewChannel
                                     ELSE IF c \in cs THEN removeMember(channels[c], f)
                                     ELSE channels[c]]
  BY DEF RemoveFrom
<1>2. cs \subseteq Chan /\ channels \in [Chan -> ChannelType]
  BY DEF TypeOK
<1>3. channels' \in [Chan -> ChannelType]
  BY <1>1, <1>2, NewTypes, MethodTypes
<1>4. ASSUME NEW c \in emptied
      PROVE  channels'[c] = NewChannel /\ channels[c].members \ {f} = {}
  BY <1>1, <1>2
<1>5. ASSUME NEW c \in cs \ emptied
      PROVE  /\ channels'[c] = removeMember(channels[c], f)
             /\ channels[c].members \ {f} # {}
  BY <1>1, <1>2
<1>6. ASSUME NEW c \in Chan \ cs
      PROVE  channels'[c] = channels[c]
  BY <1>1
<1>7. ASSUME NEW c \in cs \ emptied
      PROVE  /\ channels'[c].members = channels[c].members \ {f}
             /\ channels'[c].operators = channels[c].operators \ {f}
             /\ channels'[c].invitedUsers = channels[c].invitedUsers
             /\ channels'[c].inviteOnly = channels[c].inviteOnly
             /\ channels'[c].topicRestricted = channels[c].topicRestricted
             /\ channels'[c].key = channels[c].key
             /\ channels'[c].userLimit = channels[c].userLimit
             /\ channels'[c].topic = channels[c].topic
  <2>1. channels[c] \in ChannelType
    BY <1>2
  <2> QED
    BY <1>5, <2>1 DEF removeMember, ChannelType
<1>8. ASSUME NEW c \in emptied
      PROVE  /\ channels'[c].members = channels[c].members \ {f}
             /\ channels'[c].operators = {}
             /\ channels'[c].invitedUsers = {}
  BY <1>4 DEF NewChannel
<1> HIDE DEF emptied
<1>9. emptied \subseteq cs /\ chans' = chans \ emptied
  BY <1>1 DEF emptied
<1> SUFFICES ASSUME NEW c \in Chan
             PROVE  /\ channels'[c].members = IF c \in cs THEN channels[c].members \ {f}
                                                       ELSE channels[c].members
                    /\ channels'[c].operators \subseteq channels[c].operators
                    /\ c \in cs => f \notin channels'[c].operators
                    /\ channels'[c].invitedUsers \subseteq channels[c].invitedUsers
                    /\ c \in chans' => /\ c \in chans
                                       /\ c \in cs => channels'[c].members # {}
                                       /\ channels'[c].inviteOnly = channels[c].inviteOnly
                                       /\ channels'[c].topicRestricted = channels[c].topicRestricted
                                       /\ channels'[c].key = channels[c].key
                                       /\ channels'[c].userLimit = channels[c].userLimit
                                       /\ channels'[c].topic = channels[c].topic
                    /\ c \in chans \ chans' => channels'[c] = NewChannel
                    /\ c \notin cs => channels'[c] = channels[c] /\ (c \in chans' <=> c \in chans)
  BY <1>3, <1>9
<1>10. CASE c \in emptied
  BY <1>4, <1>8, <1>9, <1>10
<1>11. CASE c \in cs \ emptied
  BY <1>5, <1>7, <1>9, <1>11
<1>12. CASE c \notin cs
  BY <1>6, <1>9, <1>12
<1> QED
  BY <1>10, <1>11, <1>12, <1>9

-----------------------------------------------------------------------------
(* Types.                                                                   *)

\* The bodies of the steps that change one client keep its type.
LEMMA ClientTypes ==
    ASSUME NEW cl \in ClientType
    PROVE  /\ checkRegistration(cl) \in ClientType
           /\ \A n \in NickWord : checkRegistration([cl EXCEPT !.nickname = n]) \in ClientType
           /\ checkRegistration([cl EXCEPT !.username = TRUE]) \in ClientType
           /\ \A cs \in SUBSET Chan : /\ [cl EXCEPT !.channels = cl.channels \cup cs] \in ClientType
                                      /\ [cl EXCEPT !.channels = cl.channels \ cs] \in ClientType
  BY DEF ClientType, checkRegistration

\* The walk after a character is a walk again, or over.
LEMMA AdvanceTypes ==
    ASSUME NEW w \in ModeWalk, NEW params \in Seq(Word), Advance(w, params)
    PROVE  /\ running' \subseteq ModeWalk
           /\ \A v \in running' : v.chan = w.chan
<1>1. CASE Len(w.todo) = 1
  BY <1>1 DEF Advance
<1>2. CASE Len(w.todo) # 1
  <2>1. /\ w.todo \in Seq(STRING)
        /\ w.todo # <<>>
        /\ w.chan \in Chan
        /\ w.fd \in Fd
        /\ w.adding \in BOOLEAN
    BY DEF ModeWalk
  <2>2. Tail(w.todo) \in Seq(STRING) /\ Tail(w.todo) # <<>>
    <3>1. /\ Tail(w.todo) \in Seq(STRING)
          /\ Len(Tail(w.todo)) = Len(w.todo) - 1
      BY <2>1, HeadTailProperties
    <3>2. Len(w.todo) \in Nat
      BY <2>1
    <3>3. Len(Tail(w.todo)) # 0
      BY <1>2, <3>1, <3>2
    <3> QED
      BY <3>1, <3>3, EmptySeq
  <2>3. \A t \in Seq(STRING) \ {<<>>} : /\ [w EXCEPT !.todo = t] \in ModeWalk
                                        /\ [w EXCEPT !.todo = t].chan = w.chan
    BY <2>1 DEF ModeWalk
  <2>4. \A u \in ModeWalk : /\ [u EXCEPT !.params = params] \in ModeWalk
                            /\ [u EXCEPT !.params = params].chan = u.chan
    BY DEF ModeWalk
  <2>5. running' = {[[w EXCEPT !.todo = Tail(w.todo)] EXCEPT !.params = params]}
    BY <1>2 DEF Advance
  <2> QED
    BY <2>2, <2>3, <2>4, <2>5
<1> QED
  BY <1>1, <1>2

\* One character of a MODE keeps the types.
LEMMA ModeTypes ==
    ASSUME TypeOK, NEW w \in running, applyModeChanges(w)
    PROVE  TypeOK'
<1> USE DEF TypeOK
<1>1. w \in ModeWalk /\ w.chan \in Chan /\ w.params \in Seq(Word)
      /\ (w.params # <<>> => Head(w.params) \in Word /\ Tail(w.params) \in Seq(Word))
  BY HeadTailProperties DEF ModeWalk
<1>2. channels[w.chan] \in ChannelType
  BY <1>1
<1>3. ASSUME NEW ch \in ChannelType, SetChannel(w, ch)
      PROVE  channels' \in [Chan -> ChannelType]
  BY <1>1, <1>3 DEF SetChannel
<1>4. CASE ModeSign(w)
  <2>1. [w EXCEPT !.adding = (Head(w.todo) = "+")] \in ModeWalk
    BY <1>1 DEF ModeWalk
  <2> QED
    BY <1>1, <1>4, <2>1, AdvanceTypes DEF ModeSign
<1>5. CASE ModeFlag(w)
  <2>1. /\ [channels[w.chan] EXCEPT !.inviteOnly = w.adding] \in ChannelType
        /\ [channels[w.chan] EXCEPT !.topicRestricted = w.adding] \in ChannelType
    BY <1>1, <1>2 DEF ChannelType, ModeWalk
  <2> QED
    BY <1>1, <1>3, <1>5, <2>1, AdvanceTypes DEF ModeFlag
<1>6. CASE ModeKey(w)
  <2>1. /\ w.params # <<>> => [channels[w.chan] EXCEPT !.key = Head(w.params)] \in ChannelType
        /\ [channels[w.chan] EXCEPT !.key = Empty] \in ChannelType
    BY <1>1, <1>2 DEF ChannelType, Text
  <2> QED
    BY <1>1, <1>3, <1>6, <2>1, AdvanceTypes DEF ModeKey
<1>7. CASE ModeOperator(w)
  <2>1. \A g \in Fd : /\ addOperator(channels[w.chan], g) \in ChannelType
                      /\ removeOperator(channels[w.chan], g) \in ChannelType
    BY <1>2, MethodTypes
  <2>2. ClientsNamed(Head(w.params)) \subseteq Fd
    BY DEF ClientsNamed
  <2>3. \E ch \in ChannelType : SetChannel(w, ch)
    BY <1>7, <2>1, <2>2 DEF ModeOperator
  <2> QED
    BY <1>1, <1>3, <1>7, <2>3, AdvanceTypes DEF ModeOperator
<1>8. CASE ModeLimit(w)
  <2>1. w.params # <<>> => AtoI[Head(w.params)] \in Int
    BY <1>1, WordsAssumption
  <2>2. \A n \in Nat : [channels[w.chan] EXCEPT !.userLimit = n] \in ChannelType
    BY <1>2 DEF ChannelType
  <2>3. \E ch \in ChannelType : SetChannel(w, ch)
    BY <1>2, <1>8, <2>1, <2>2 DEF ModeLimit
  <2> QED
    BY <1>1, <1>3, <1>8, <2>3, AdvanceTypes DEF ModeLimit
<1>9. CASE ModeUnknown(w)
  BY <1>1, <1>9, AdvanceTypes DEF ModeUnknown
<1>10. CASE ModeAbort(w)
  BY <1>10 DEF ModeAbort
<1> QED
  BY <1>4, <1>5, <1>6, <1>7, <1>8, <1>9, <1>10 DEF applyModeChanges

\* Every step keeps the types.
LEMMA NextTypes == TypeOK /\ [Next]_vars => TypeOK'
<1> SUFFICES ASSUME TypeOK, [Next]_vars
             PROVE  TypeOK'
  OBVIOUS
<1>1. CASE UNCHANGED vars
  BY <1>1 DEF TypeOK, vars
<1>2. CASE \E w \in running : applyModeChanges(w)
  BY <1>2, ModeTypes
<1>3. CASE \E f \in Fd : Connection(f)
  <2>1. PICK f \in Fd : Connection(f)
    BY <1>3
  <2>2. clients[f] \in ClientType
    BY DEF TypeOK
  <2>3. CASE acceptNewClient(f)
    BY <2>3, NewTypes DEF acceptNewClient, TypeOK
  <2>4. CASE disconnectClient(f)
    <3>1. channels' \in [Chan -> ChannelType] /\ chans' \subseteq chans
      BY <2>4, RemoveFromEffect DEF disconnectClient
    <3> QED
      BY <2>4, <3>1, NewTypes DEF disconnectClient, TypeOK
  <2>5. CASE \E right \in PassRight : handlePass(f, right)
    <3>1. PICK right : handlePass(f, right)
      BY <2>5
    <3>2. /\ [clients[f] EXCEPT !.passwordProvided = TRUE] \in ClientType
          /\ [clients[f] EXCEPT !.shouldDisconnect = TRUE] \in ClientType
      BY <2>2 DEF ClientType
    <3>3. clients' \in [Fd -> ClientType]
      BY <3>1, <3>2 DEF handlePass, TypeOK
    <3> QED
      BY <3>1, <3>3 DEF handlePass, TypeOK
  <2>6. CASE \E n \in NickWord : handleNick(f, n)
    <3>1. PICK n \in NickWord : handleNick(f, n)
      BY <2>6
    <3>2. checkRegistration([clients[f] EXCEPT !.nickname = n]) \in ClientType
      BY <2>2, ClientTypes
    <3> QED
      BY <3>1, <3>2 DEF handleNick, TypeOK
  <2>7. CASE handleUser(f)
    BY <2>2, <2>7, ClientTypes DEF handleUser, TypeOK
  <2>8. CASE handleQuit(f)
    <3>1. [clients[f] EXCEPT !.shouldDisconnect = TRUE] \in ClientType
      BY <2>2 DEF ClientType
    <3> QED
      BY <2>8, <3>1 DEF handleQuit, TypeOK
  <2> QED
    BY <2>1, <2>3, <2>4, <2>5, <2>6, <2>7, <2>8 DEF Connection
<1>4. CASE \E f \in Fd : ChannelCommand(f)
  <2>1. PICK f \in Fd : ChannelCommand(f)
    BY <1>4
  <2>2. clients[f] \in ClientType
    BY DEF TypeOK
  <2>3. ASSUME NEW names, handlePart(f, names)
        PROVE  TypeOK'
    <3> DEFINE left == {c \in chans : f \in channels[c].members
                                      /\ \E n \in names : Lower[n] = c}
    <3>1. left \subseteq chans /\ left \subseteq Chan
      BY DEF TypeOK
    <3>2. /\ RemoveFrom(f, left)
          /\ clients' = [clients EXCEPT ![f].channels = @ \ left]
          /\ UNCHANGED <<live, running>>
      BY <2>3 DEF handlePart
    <3> HIDE DEF left
    <3>3. channels' \in [Chan -> ChannelType] /\ chans' \subseteq chans
      BY <3>1, <3>2, RemoveFromEffect
    <3>4. clients' \in [Fd -> ClientType]
      BY <2>2, <3>1, <3>2, ClientTypes DEF TypeOK
    <3> QED
      BY <3>2, <3>3, <3>4 DEF TypeOK
  <2>4. CASE \E req \in JoinRequest : handleJoin(f, req)
    <3>1. PICK req \in JoinRequest : handleJoin(f, req)
      BY <2>4
    <3>2. \A r \in req : Lower[r[1]] \in Chan
      BY LowerTypes, RequestsAssumption
    <3> DEFINE entered == {c \in Chan : \E r \in req :
                              Lower[r[1]] = c /\ MayJoin(channels[c], f, r[2])}
    <3>3. entered \subseteq Chan
      OBVIOUS
    <3>4. \A c \in Chan : /\ channels[c] \in ChannelType
                          /\ joinSingleChannel(channels[c], f) \in ChannelType
      BY MethodTypes DEF TypeOK, joinSingleChannel
    <3>5. /\ chans' = chans \cup {Lower[r[1]] : r \in req}
          /\ channels' = [c \in Chan |->
                 IF c \in entered THEN joinSingleChannel(channels[c], f) ELSE channels[c]]
          /\ clients' = [clients EXCEPT ![f].channels = @ \cup entered]
          /\ UNCHANGED <<live, running>>
      BY <3>1 DEF handleJoin
    <3> HIDE DEF entered
    <3>6. channels' \in [Chan -> ChannelType]
      BY <3>4, <3>5
    <3>7. clients' \in [Fd -> ClientType]
      BY <2>2, <3>3, <3>5, ClientTypes DEF TypeOK
    <3> QED
      BY <3>2, <3>5, <3>6, <3>7 DEF TypeOK
  <2>5. CASE \E name \in ChanWord, w \in NickWord : handleKick(f, name, w)
    <3>1. PICK name \in ChanWord, w \in NickWord : handleKick(f, name, w)
      BY <2>5
    <3>2. Lower[name] \in chans /\ Lower[name] \in Chan
      BY <3>1 DEF handleKick, TypeOK
    <3>3. MembersNamed(Lower[name], w) \subseteq Fd
      BY <3>2 DEF MembersNamed, TypeOK, ChannelType
    <3>4. PICK g \in Fd : /\ RemoveFrom(g, {Lower[name]})
                          /\ clients' = [clients EXCEPT ![g].channels = @ \ {Lower[name]}]
      BY <3>1, <3>3 DEF handleKick
    <3>5. channels' \in [Chan -> ChannelType] /\ chans' \subseteq chans
      BY <3>2, <3>4, RemoveFromEffect
    <3>6. clients' \in [Fd -> ClientType]
      BY <3>2, <3>4, ClientTypes DEF TypeOK
    <3> QED
      BY <3>1, <3>5, <3>6 DEF handleKick, TypeOK
  <2>6. CASE \E name \in ChanWord, w \in NickWord : handleInvite(f, w, name)
    <3>1. PICK name \in ChanWord, w \in NickWord : handleInvite(f, w, name)
      BY <2>6
    <3>2. Lower[name] \in Chan
      BY <3>1 DEF handleInvite, TypeOK
    <3>3. PICK g \in ClientsNamed(w) :
             channels' = [channels EXCEPT ![Lower[name]] = addInvite(@, clients[g].nickname)]
      BY <3>1 DEF handleInvite
    <3>4. Lower[clients[g].nickname] \in {Lower[v] : v \in NickWord}
      BY LowerTypes DEF ClientsNamed
    <3>5. channels[Lower[name]] \in ChannelType
      BY <3>2 DEF TypeOK
    <3>6. addInvite(channels[Lower[name]], clients[g].nickname) \in ChannelType
      BY <3>4, <3>5, MethodTypes
    <3> QED
      BY <3>1, <3>2, <3>3, <3>6 DEF handleInvite, TypeOK
  <2>7. CASE \E name \in ChanWord, t \in TopicWord : handleTopic(f, name, t)
    <3>1. PICK name \in ChanWord, t \in TopicWord : handleTopic(f, name, t)
      BY <2>7
    <3>2. Lower[name] \in Chan
      BY <3>1 DEF handleTopic, TypeOK
    <3>3. [channels[Lower[name]] EXCEPT !.topic = t] \in ChannelType
      BY <3>2 DEF TypeOK, ChannelType
    <3> QED
      BY <3>1, <3>2, <3>3 DEF handleTopic, TypeOK
  <2>8. CASE \E name \in ChanWord, req \in ModeRequest : handleMode(f, name, req)
    <3>1. PICK name \in ChanWord, req \in ModeRequest : handleMode(f, name, req)
      BY <2>8
    <3>2. /\ Lower[name] \in Chan
          /\ req[1] \in Seq(STRING) \ {<<>>}
          /\ req[2] \in Seq(Word)
      BY <3>1, RequestsAssumption DEF handleMode, TypeOK
    <3>3. [fd |-> f, chan |-> Lower[name], adding |-> TRUE,
           todo |-> req[1], params |-> req[2]] \in ModeWalk
      BY <3>2 DEF ModeWalk
    <3> QED
      BY <3>1, <3>3 DEF handleMode, TypeOK
  <2> QED
    BY <2>1, <2>3, <2>4, <2>5, <2>6, <2>7, <2>8 DEF ChannelCommand, JoinZero
<1> QED
  BY <1>1, <1>2, <1>3, <1>4 DEF Next

\* Every field of every table has its type at all times, however many clients
\* there are and whatever they send.
THEOREM TypesCorrect == Spec => []TypeOK
<1>1. Init => TypeOK
  BY NewTypes DEF Init, TypeOK
<1> QED
  BY <1>1, NextTypes, PTL DEF Spec

-----------------------------------------------------------------------------
(* Who is in which channel.  MembershipAgrees is inductive only together    *)
(* with what makes a channel that is created empty admit whoever asks       *)
(* (AbsentIsNew and ChannelsInhabited) and what keeps unregistered          *)
(* clients out (NoStaleMember): their conjunction is Consistent.            *)

\* One character of a MODE changes one channel, and nobody's membership.
LEMMA ModeEffect ==
    ASSUME TypeOK, NoStaleMember, WalkHasChannel, NEW w \in running, applyModeChanges(w)
    PROVE  /\ UNCHANGED <<live, clients, chans>>
           /\ \A c \in Chan :
                 /\ channels'[c].members = channels[c].members
                 /\ channels'[c].operators \subseteq channels'[c].members
                 /\ channels'[c].invitedUsers = channels[c].invitedUsers
                 /\ c # w.chan => channels'[c] = channels[c]
           /\ \A v \in running' : v.chan = w.chan
<1> USE DEF TypeOK
<1>1. w \in ModeWalk /\ w.chan \in Chan /\ w.chan \in chans /\ w.params \in Seq(Word)
      /\ (w.params # <<>> => Head(w.params) \in Word /\ Tail(w.params) \in Seq(Word))
  BY HeadTailProperties DEF ModeWalk, WalkHasChannel
<1>2. channels[w.chan] \in ChannelType /\ channels[w.chan].operators \subseteq channels[w.chan].members
  BY <1>1 DEF NoStaleMember
<1>3. ASSUME NEW ch, SetChannel(w, ch),
             ch.members = channels[w.chan].members,
             ch.operators \subseteq ch.members,
             ch.invitedUsers = channels[w.chan].invitedUsers
      PROVE  \A c \in Chan :
                 /\ channels'[c].members = channels[c].members
                 /\ channels'[c].operators \subseteq channels'[c].members
                 /\ channels'[c].invitedUsers = channels[c].invitedUsers
                 /\ c # w.chan => channels'[c] = channels[c]
  BY <1>1, <1>2, <1>3 DEF SetChannel, NoStaleMember
<1>4. ASSUME channels' = channels
      PROVE  \A c \in Chan : channels'[c].operators \subseteq channels'[c].members
  BY <1>4 DEF NoStaleMember
<1>5. CASE ModeSign(w)
  <2>1. [w EXCEPT !.adding = (Head(w.todo) = "+")] \in ModeWalk
        /\ [w EXCEPT !.adding = (Head(w.todo) = "+")].chan = w.chan
    BY <1>1 DEF ModeWalk
  <2> QED
    BY <1>1, <1>4, <1>5, <2>1, AdvanceTypes DEF ModeSign
<1>6. CASE ModeFlag(w)
  <2>1. \A b : LET a == [channels[w.chan] EXCEPT !.inviteOnly = b]
                   t == [channels[w.chan] EXCEPT !.topicRestricted = b]
               IN  /\ a.members = channels[w.chan].members /\ t.members = a.members
                   /\ a.operators = channels[w.chan].operators /\ t.operators = a.operators
                   /\ a.invitedUsers = channels[w.chan].invitedUsers /\ t.invitedUsers = a.invitedUsers
    BY <1>2 DEF ChannelType
  <2> QED
    BY <1>1, <1>2, <1>3, <1>6, <2>1, AdvanceTypes DEF ModeFlag
<1>7. CASE ModeKey(w)
  <2>1. \A k : LET a == [channels[w.chan] EXCEPT !.key = k]
               IN  /\ a.members = channels[w.chan].members
                   /\ a.operators = channels[w.chan].operators
                   /\ a.invitedUsers = channels[w.chan].invitedUsers
    BY <1>2 DEF ChannelType
  <2> QED
    BY <1>1, <1>2, <1>3, <1>7, <2>1, AdvanceTypes DEF ModeKey
<1>8. CASE ModeOperator(w)
  <2>1. \A g : LET a == addOperator(channels[w.chan], g)
                   b == removeOperator(channels[w.chan], g)
               IN  /\ a.members = channels[w.chan].members /\ b.members = a.members
                   /\ a.operators \subseteq a.members /\ b.operators \subseteq b.members
                   /\ a.invitedUsers = channels[w.chan].invitedUsers /\ b.invitedUsers = a.invitedUsers
    BY <1>2 DEF ChannelType, addOperator, removeOperator
  <2>2. PICK g : SetChannel(w, IF w.adding THEN addOperator(channels[w.chan], g)
                                           ELSE removeOperator(channels[w.chan], g))
    BY <1>8 DEF ModeOperator
  <2> QED
    BY <1>1, <1>3, <1>8, <2>1, <2>2, AdvanceTypes DEF ModeOperator
<1>9. CASE ModeLimit(w)
  <2>1. \A n : LET a == [channels[w.chan] EXCEPT !.userLimit = n]
               IN  /\ a.members = channels[w.chan].members
                   /\ a.operators = channels[w.chan].operators
                   /\ a.invitedUsers = channels[w.chan].invitedUsers
    BY <1>2 DEF ChannelType
  <2> QED
    BY <1>1, <1>2, <1>3, <1>9, <2>1, AdvanceTypes DEF ModeLimit
<1>10. CASE ModeUnknown(w)
  BY <1>1, <1>4, <1>10, AdvanceTypes DEF ModeUnknown
<1>11. CASE ModeAbort(w)
  BY <1>4, <1>11 DEF ModeAbort
<1> QED
  BY <1>5, <1>6, <1>7, <1>8, <1>9, <1>10, <1>11 DEF applyModeChanges

\* Whoever leaves some of its channels, on its own or kicked, leaves the two
\* records in agreement: what PART, JOIN 0 and KICK have in common.
LEMMA LeavingConsistent ==
    ASSUME Consistent, TypeOK', NEW g \in live, NEW cs \in SUBSET chans, Idle,
           \A c \in cs : g \in channels[c].members,
           RemoveFrom(g, cs),
           clients' = [clients EXCEPT ![g].channels = @ \ cs],
           live' = live, running' = running
    PROVE  Consistent'
<1> USE DEF Consistent
<1>1. g \in Fd /\ clients[g] \in ClientType /\ cs \subseteq Chan /\ clients \in [Fd -> ClientType]
  BY DEF TypeOK
<1>2. /\ \A f \in Fd : f # g => clients'[f] = clients[f]
      /\ clients'[g].channels = clients[g].channels \ cs
      /\ \A f \in Fd : clients'[f].registered = clients[f].registered
  BY <1>1 DEF ClientType
<1>3. /\ chans' \subseteq chans
      /\ \A c \in Chan :
            /\ channels'[c].members = IF c \in cs THEN channels[c].members \ {g}
                                                  ELSE channels[c].members
            /\ channels'[c].operators \subseteq channels[c].operators
            /\ c \in cs => g \notin channels'[c].operators
            /\ c \in chans' => (c \in cs => channels'[c].members # {})
            /\ c \in chans \ chans' => channels'[c] = NewChannel
            /\ c \notin cs => channels'[c] = channels[c] /\ (c \in chans' <=> c \in chans)
  BY <1>1, RemoveFromEffect
<1>4. NewChannel.members = {}
  BY DEF NewChannel
<1>5. ChannelsInhabited'
  BY <1>3, <1>4 DEF ChannelsInhabited
<1>6. MembershipAgrees'
  <2> SUFFICES ASSUME NEW f \in Fd, NEW c \in Chan
               PROVE  c \in clients'[f].channels
                      <=> f \in live /\ c \in chans' /\ f \in channels'[c].members
    BY DEF MembershipAgrees
  <2>1. c \in clients[f].channels <=> f \in live /\ c \in chans /\ f \in channels[c].members
    BY DEF MembershipAgrees
  <2>2. c \in chans' <=> channels'[c].members # {}
    BY <1>5 DEF ChannelsInhabited
  <2>3. CASE f = g
    BY <1>2, <1>3, <2>1, <2>2, <2>3
  <2>4. CASE f # g
    <3>1. f \in channels'[c].members <=> f \in channels[c].members
      BY <1>3, <2>4
    <3>2. clients'[f].channels = clients[f].channels
      BY <1>2, <2>4
    <3>3. c \in chans' => c \in chans
      BY <1>3
    <3> QED
      BY <2>1, <2>2, <3>1, <3>2, <3>3
  <2> QED
    BY <2>3, <2>4
<1>7. NoStaleMember'
  <2> SUFFICES ASSUME NEW c \in Chan
               PROVE  /\ \A f \in channels'[c].members : f \in live /\ clients'[f].registered
                      /\ channels'[c].operators \subseteq channels'[c].members
    BY DEF NoStaleMember
  <2>1. /\ \A f \in channels[c].members : f \in Fd /\ f \in live /\ clients[f].registered
        /\ channels[c].operators \subseteq channels[c].members
    BY DEF NoStaleMember, TypeOK
  <2> QED
    BY <1>2, <1>3, <2>1
<1>8. AbsentIsNew'
  BY <1>1, <1>3 DEF AbsentIsNew
<1>9. WalkHasChannel'
  BY DEF WalkHasChannel, Idle
<1> QED
  BY <1>5, <1>6, <1>7, <1>8, <1>9

\* A command that changes no membership keeps the records in agreement: what
\* PASS, NICK, USER, QUIT, INVITE, TOPIC, MODE and its characters have in common.
LEMMA StayingConsistent ==
    ASSUME Consistent, TypeOK',
           \A c \in Chan : /\ channels'[c].members = channels[c].members
                           /\ channels'[c].operators \subseteq channels'[c].members
                           /\ c \notin chans => channels'[c] = channels[c],
           \A f \in Fd : /\ clients'[f].channels = clients[f].channels
                         /\ clients[f].registered => clients'[f].registered,
           live' = live, chans' = chans,
           \A w \in running' : w.chan \in chans
    PROVE  Consistent'
<1> USE DEF Consistent
<1>1. MembershipAgrees'
  BY DEF MembershipAgrees
<1>2. ChannelsInhabited'
  BY DEF ChannelsInhabited
<1>3. NoStaleMember'
  <2> SUFFICES ASSUME NEW c \in Chan
               PROVE  /\ \A f \in channels'[c].members : f \in live /\ clients'[f].registered
                      /\ channels'[c].operators \subseteq channels'[c].members
    BY DEF NoStaleMember
  <2>1. \A f \in channels[c].members : f \in Fd /\ f \in live /\ clients[f].registered
    BY DEF NoStaleMember, TypeOK
  <2> QED
    BY <2>1
<1>4. AbsentIsNew'
  BY DEF AbsentIsNew
<1>5. WalkHasChannel'
  BY DEF WalkHasChannel
<1> QED
  BY <1>1, <1>2, <1>3, <1>4, <1>5

\* JOIN: whatever the list, the client enters the two records together, and a
\* channel that was created for it does not stay empty.
LEMMA JoinConsistent ==
    ASSUME Consistent, TypeOK', NEW f \in Fd, NEW req \in JoinRequest, handleJoin(f, req)
    PROVE  Consistent'
<1> USE DEF Consistent
<1> DEFINE entered == {c \in Chan : \E r \in req :
                          Lower[r[1]] = c /\ MayJoin(channels[c], f, r[2])}
           asked == {Lower[r[1]] : r \in req}
<1>1. /\ Idle /\ f \in live /\ clients[f].registered
      /\ chans' = chans \cup asked
      /\ channels' = [c \in Chan |->
             IF c \in entered THEN joinSingleChannel(channels[c], f) ELSE channels[c]]
      /\ clients' = [clients EXCEPT ![f].channels = @ \cup entered]
      /\ UNCHANGED <<live, running>>
  BY DEF handleJoin, MayCommand
<1>2. asked \subseteq Chan /\ entered \subseteq asked
  BY LowerTypes, RequestsAssumption
<1>3. \A c \in entered : f \notin channels[c].members
  BY DEF MayJoin
<1>4. asked \ chans \subseteq entered
  <2>1. ASSUME NEW c \in Chan \ chans, NEW key
        PROVE  MayJoin(channels[c], f, key)
    BY <2>1 DEF AbsentIsNew, NewChannel, MayJoin, isFull
  <2> QED
    BY <1>2, <2>1
<1> HIDE DEF entered, asked
<1>5. /\ clients[f] \in ClientType /\ clients \in [Fd -> ClientType]
      /\ \A c \in Chan : channels[c] \in ChannelType
  BY DEF TypeOK
<1>6. /\ \A g \in Fd : g # f => clients'[g] = clients[g]
      /\ clients'[f].channels = clients[f].channels \cup entered
      /\ \A g \in Fd : clients'[g].registered = clients[g].registered
  BY <1>1, <1>5 DEF ClientType
<1>7. ASSUME NEW c \in entered
      PROVE  /\ channels'[c].members = channels[c].members \cup {f}
             /\ channels'[c].operators \subseteq channels[c].operators \cup {f}
  <2>1. c \in Chan /\ channels'[c] = joinSingleChannel(channels[c], f)
    BY <1>1, <1>2
  <2> QED
    BY <1>5, <2>1 DEF joinSingleChannel, addMember, removeInvite, ChannelType
<1>8. \A c \in Chan \ entered : channels'[c] = channels[c]
  BY <1>1
<1>9. ChannelsInhabited'
  <2> SUFFICES ASSUME NEW c \in Chan
               PROVE  c \in chans' <=> channels'[c].members # {}
    BY DEF ChannelsInhabited
  <2>1. CASE c \in entered
    BY <1>1, <1>2, <1>7, <2>1
  <2>2. CASE c \notin entered
    BY <1>1, <1>4, <1>8, <2>2 DEF ChannelsInhabited
  <2> QED
    BY <2>1, <2>2
<1>10. MembershipAgrees'
  <2> SUFFICES ASSUME NEW g \in Fd, NEW c \in Chan
               PROVE  c \in clients'[g].channels
                      <=> g \in live /\ c \in chans' /\ g \in channels'[c].members
    BY <1>1 DEF MembershipAgrees
  <2>1. CASE c \in entered
    BY <1>1, <1>2, <1>6, <1>7, <2>1, <1>9 DEF MembershipAgrees, ChannelsInhabited
  <2>2. CASE c \notin entered
    BY <1>1, <1>2, <1>4, <1>6, <1>8, <2>2 DEF MembershipAgrees
  <2> QED
    BY <2>1, <2>2
<1>11. NoStaleMember'
  <2> SUFFICES ASSUME NEW c \in Chan
               PROVE  /\ \A g \in channels'[c].members : g \in live /\ clients'[g].registered
                      /\ channels'[c].operators \subseteq channels'[c].members
    BY <1>1 DEF NoStaleMember
  <2>1. /\ \A g \in channels[c].members : g \in Fd /\ g \in live /\ clients[g].registered
        /\ channels[c].operators \subseteq channels[c].members
    BY DEF NoStaleMember, TypeOK
  <2>2. CASE c \in entered
    BY <1>1, <1>6, <1>7, <2>1, <2>2
  <2>3. CASE c \notin entered
    BY <1>6, <1>8, <2>1, <2>3
  <2> QED
    BY <2>2, <2>3
<1>12. AbsentIsNew'
  BY <1>1, <1>2, <1>8 DEF AbsentIsNew
<1>13. WalkHasChannel'
  BY <1>1 DEF WalkHasChannel, Idle
<1> QED
  BY <1>9, <1>10, <1>11, <1>12, <1>13

\* Connections, registration and nicknames keep the records in agreement.
LEMMA ConnectionConsistent ==
    ASSUME Consistent, TypeOK', NEW f \in Fd, Connection(f)
    PROVE  Consistent'
<1> USE DEF Consistent
<1>1. /\ clients \in [Fd -> ClientType]
      /\ clients[f] \in ClientType
      /\ \A c \in Chan : channels[c].members \subseteq Fd
  BY DEF TypeOK, ChannelType
<1>2. ASSUME NEW cl, clients' = [clients EXCEPT ![f] = cl],
             cl.channels = clients[f].channels,
             clients[f].registered => cl.registered,
             live' = live, chans' = chans, channels' = channels, running' = running
      PROVE  Consistent'
  <2>1. \A g \in Fd : /\ clients'[g].channels = clients[g].channels
                      /\ clients[g].registered => clients'[g].registered
    BY <1>1, <1>2
  <2>2. \A c \in Chan : channels[c].operators \subseteq channels[c].members
    BY DEF NoStaleMember
  <2> QED
    BY <1>2, <2>1, <2>2, StayingConsistent DEF WalkHasChannel
<1>3. CASE acceptNewClient(f)
  <2>1. /\ Idle /\ f \notin live
        /\ live' = live \cup {f}
        /\ clients' = [clients EXCEPT ![f] = NewClient]
        /\ chans' = chans /\ channels' = channels /\ running' = running
    BY <1>3 DEF acceptNewClient
  <2>2. NewClient.channels = {}
    BY DEF NewClient
  <2>3. \A c \in Chan : f \notin channels[c].members
    BY <2>1 DEF NoStaleMember
  <2>4. MembershipAgrees'
    BY <1>1, <2>1, <2>2, <2>3 DEF MembershipAgrees
  <2>5. NoStaleMember'
    BY <1>1, <2>1, <2>3 DEF NoStaleMember
  <2>6. ChannelsInhabited' /\ AbsentIsNew' /\ WalkHasChannel'
    BY <2>1 DEF ChannelsInhabited, AbsentIsNew, WalkHasChannel
  <2> QED
    BY <2>4, <2>5, <2>6
<1>4. CASE disconnectClient(f)
  <2> DEFINE cs == clients[f].channels \cap chans
  <2>1. /\ Idle /\ f \in live
        /\ RemoveFrom(f, cs)
        /\ live' = live \ {f}
        /\ clients' = [clients EXCEPT ![f] = NewClient]
        /\ running' = running
    BY <1>4 DEF disconnectClient
  <2>2. \A c \in Chan : c \in cs <=> f \in channels[c].members
    BY <2>1 DEF MembershipAgrees, ChannelsInhabited
  <2>3. cs \subseteq chans /\ cs \subseteq Chan
    BY DEF TypeOK
  <2> HIDE DEF cs
  <2>4. /\ chans' \subseteq chans
        /\ \A c \in Chan :
              /\ channels'[c].members = channels[c].members \ {f}
              /\ channels'[c].operators \subseteq channels[c].operators
              /\ f \notin channels'[c].operators
              /\ c \in chans' => (c \in cs => channels'[c].members # {})
              /\ c \in chans \ chans' => channels'[c] = NewChannel
              /\ c \notin cs => channels'[c] = channels[c] /\ (c \in chans' <=> c \in chans)
    <3>1. \A c \in Chan : c \notin cs => /\ channels[c].members = channels[c].members \ {f}
                                         /\ f \notin channels[c].operators
      BY <2>2 DEF NoStaleMember
    <3>2. /\ chans' \subseteq chans
          /\ \A c \in Chan :
                /\ channels'[c].members = IF c \in cs THEN channels[c].members \ {f}
                                                      ELSE channels[c].members
                /\ channels'[c].operators \subseteq channels[c].operators
                /\ c \in cs => f \notin channels'[c].operators
                /\ c \in chans' => (c \in cs => channels'[c].members # {})
                /\ c \in chans \ chans' => channels'[c] = NewChannel
                /\ c \notin cs => channels'[c] = channels[c] /\ (c \in chans' <=> c \in chans)
      BY <2>1, <2>3, RemoveFromEffect
    <3> QED
      BY <3>1, <3>2
  <2>5. NewChannel.members = {} /\ NewClient.channels = {}
    BY DEF NewChannel, NewClient
  <2>6. ChannelsInhabited'
    BY <2>4, <2>5 DEF ChannelsInhabited
  <2>7. MembershipAgrees'
    <3> SUFFICES ASSUME NEW g \in Fd, NEW c \in Chan
                 PROVE  c \in clients'[g].channels
                        <=> g \in live' /\ c \in chans' /\ g \in channels'[c].members
      BY DEF MembershipAgrees
    <3>1. c \in clients[g].channels <=> g \in live /\ c \in chans /\ g \in channels[c].members
      BY DEF MembershipAgrees
    <3>2. c \in chans' <=> channels'[c].members # {}
      BY <2>6 DEF ChannelsInhabited
    <3>3. CASE g = f
      BY <1>1, <2>1, <2>5, <3>3
    <3>4. CASE g # f
      BY <1>1, <2>1, <2>4, <3>1, <3>2, <3>4
    <3> QED
      BY <3>3, <3>4
  <2>8. NoStaleMember'
    BY <1>1, <2>1, <2>4 DEF NoStaleMember
  <2>9. AbsentIsNew' /\ WalkHasChannel'
    BY <2>1, <2>3, <2>4 DEF AbsentIsNew, WalkHasChannel, Idle
  <2> QED
    BY <2>6, <2>7, <2>8, <2>9
<1>5. CASE \E right \in PassRight : handlePass(f, right)
  <2>1. PICK right : handlePass(f, right)
    BY <1>5
  <2>2. \/ clients' = [clients EXCEPT ![f] = [clients[f] EXCEPT !.passwordProvided = TRUE]]
        \/ clients' = [clients EXCEPT ![f] = [clients[f] EXCEPT !.shouldDisconnect = TRUE]]
    BY <1>1, <2>1 DEF handlePass
  <2>3. LET a == [clients[f] EXCEPT !.passwordProvided = TRUE]
            b == [clients[f] EXCEPT !.shouldDisconnect = TRUE]
        IN  /\ a.channels = clients[f].channels /\ b.channels = clients[f].channels
            /\ a.registered = clients[f].registered /\ b.registered = clients[f].registered
    BY <1>1 DEF ClientType
  <2> QED
    BY <1>2, <2>1, <2>2, <2>3 DEF handlePass
<1>6. CASE \E n \in NickWord : handleNick(f, n)
  <2>1. PICK n \in NickWord : handleNick(f, n)
    BY <1>6
  <2>2. LET cl == checkRegistration([clients[f] EXCEPT !.nickname = n])
        IN  /\ cl.channels = clients[f].channels
            /\ clients[f].registered => cl.registered
    BY <1>1 DEF ClientType, checkRegistration
  <2> QED
    BY <1>2, <2>1, <2>2 DEF handleNick
<1>7. CASE handleUser(f)
  <2>1. LET cl == checkRegistration([clients[f] EXCEPT !.username = TRUE])
        IN  /\ cl.channels = clients[f].channels
            /\ clients[f].registered => cl.registered
    BY <1>1 DEF ClientType, checkRegistration
  <2> QED
    BY <1>2, <1>7, <2>1 DEF handleUser
<1>8. CASE handleQuit(f)
  <2>1. LET cl == [clients[f] EXCEPT !.shouldDisconnect = TRUE]
        IN  /\ cl.channels = clients[f].channels
            /\ clients[f].registered => cl.registered
    BY <1>1 DEF ClientType
  <2> QED
    BY <1>2, <1>8, <2>1 DEF handleQuit
<1> QED
  BY <1>3, <1>4, <1>5, <1>6, <1>7, <1>8 DEF Connection

\* Every step keeps the records in agreement.
LEMMA NextConsistent == Consistent /\ [Next]_vars => Consistent'
<1> SUFFICES ASSUME Consistent, [Next]_vars
             PROVE  Consistent'
  OBVIOUS
<1>1. TypeOK' /\ TypeOK
  BY NextTypes DEF Consistent
<1>2. \A c \in Chan : channels[c].operators \subseteq channels[c].members
  BY DEF Consistent, NoStaleMember
<1>3. CASE UNCHANGED vars
  BY <1>3 DEF vars, Consistent, TypeOK, MembershipAgrees, NoStaleMember,
              ChannelsInhabited, AbsentIsNew, WalkHasChannel
<1>4. CASE \E w \in running : applyModeChanges(w)
  <2>1. PICK w \in running : applyModeChanges(w)
    BY <1>4
  <2>2. w.chan \in chans
    BY DEF Consistent, WalkHasChannel
  <2> QED
    BY <1>1, <2>1, <2>2, ModeEffect, StayingConsistent DEF Consistent
<1>5. CASE \E f \in Fd : Connection(f)
  BY <1>1, <1>5, ConnectionConsistent
<1>6. ASSUME NEW f \in Fd, NEW names, handlePart(f, names)
      PROVE  Consistent'
  <2> DEFINE left == {c \in chans : f \in channels[c].members
                                    /\ \E n \in names : Lower[n] = c}
  <2>1. /\ Idle /\ f \in live
        /\ RemoveFrom(f, left)
        /\ clients' = [clients EXCEPT ![f].channels = @ \ left]
        /\ live' = live /\ running' = running
    BY <1>6 DEF handlePart, MayCommand
  <2>2. left \subseteq chans /\ \A c \in left : f \in channels[c].members
    OBVIOUS
  <2> HIDE DEF left
  <2> QED
    BY <1>1, <2>1, <2>2, LeavingConsistent
<1>7. CASE \E f \in Fd : ChannelCommand(f)
  <2>1. PICK f \in Fd : ChannelCommand(f)
    BY <1>7
  <2>2. CASE \E req \in JoinRequest : handleJoin(f, req)
    BY <1>1, <2>2, JoinConsistent
  <2>3. CASE \E names \in PartRequest : handlePart(f, names)
    BY <1>6, <2>3
  <2>4. CASE JoinZero(f)
    BY <1>6, <2>4 DEF JoinZero
  <2>5. CASE \E name \in ChanWord, w \in NickWord : handleKick(f, name, w)
    <3>1. PICK name \in ChanWord, w \in NickWord : handleKick(f, name, w)
      BY <2>5
    <3>2. /\ Idle /\ Lower[name] \in chans
          /\ live' = live /\ running' = running
      BY <3>1 DEF handleKick, MayCommand
    <3>3. PICK g \in MembersNamed(Lower[name], w) :
             /\ RemoveFrom(g, {Lower[name]})
             /\ clients' = [clients EXCEPT ![g].channels = @ \ {Lower[name]}]
      BY <3>1 DEF handleKick
    <3>4. g \in channels[Lower[name]].members /\ g \in live
      BY <1>1, <3>2 DEF MembersNamed, Consistent, NoStaleMember, TypeOK
    <3> QED
      BY <1>1, <3>2, <3>3, <3>4, LeavingConsistent
  <2>6. CASE \E name \in ChanWord, w \in NickWord : handleInvite(f, w, name)
    <3>1. PICK name \in ChanWord, w \in NickWord : handleInvite(f, w, name)
      BY <2>6
    <3>2. /\ Lower[name] \in chans /\ Lower[name] \in Chan
          /\ channels[Lower[name]] \in ChannelType /\ channels \in [Chan -> ChannelType]
          /\ live' = live /\ running' = running /\ chans' = chans /\ clients' = clients
      BY <1>1, <3>1 DEF handleInvite, TypeOK
    <3>3. \E n : channels' = [channels EXCEPT ![Lower[name]] = addInvite(channels[Lower[name]], n)]
      BY <3>1 DEF handleInvite
    <3>4. \A n : LET ch == addInvite(channels[Lower[name]], n)
                 IN  /\ ch.members = channels[Lower[name]].members
                     /\ ch.operators = channels[Lower[name]].operators
      BY <3>2 DEF addInvite, ChannelType
    <3>5. \A c \in Chan : /\ channels'[c].members = channels[c].members
                          /\ channels'[c].operators \subseteq channels'[c].members
                          /\ c \notin chans => channels'[c] = channels[c]
      BY <1>2, <3>2, <3>3, <3>4
    <3> QED
      BY <1>1, <3>2, <3>5, StayingConsistent DEF Consistent, WalkHasChannel
  <2>7. CASE \E name \in ChanWord, t \in TopicWord : handleTopic(f, name, t)
    <3>1. PICK name \in ChanWord, t \in TopicWord : handleTopic(f, name, t)
      BY <2>7
    <3>2. /\ Lower[name] \in chans /\ Lower[name] \in Chan
          /\ channels[Lower[name]] \in ChannelType /\ channels \in [Chan -> ChannelType]
          /\ channels' = [channels EXCEPT ![Lower[name]].topic = t]
          /\ live' = live /\ running' = running /\ chans' = chans /\ clients' = clients
      BY <1>1, <3>1 DEF handleTopic, TypeOK
    <3>3. \A c \in Chan : /\ channels'[c].members = channels[c].members
                          /\ channels'[c].operators \subseteq channels'[c].members
                          /\ c \notin chans => channels'[c] = channels[c]
      BY <1>2, <3>2 DEF ChannelType
    <3> QED
      BY <1>1, <3>2, <3>3, StayingConsistent DEF Consistent, WalkHasChannel
  <2>8. CASE \E name \in ChanWord, req \in ModeRequest : handleMode(f, name, req)
    <3>1. PICK name \in ChanWord, req \in ModeRequest : handleMode(f, name, req)
      BY <2>8
    <3>2. /\ \A w \in running' : w.chan \in chans
          /\ live' = live /\ channels' = channels /\ chans' = chans /\ clients' = clients
      BY <3>1 DEF handleMode
    <3> QED
      BY <1>1, <1>2, <3>2, StayingConsistent
  <2> QED
    BY <2>1, <2>2, <2>3, <2>4, <2>5, <2>6, <2>7, <2>8 DEF ChannelCommand
<1> QED
  BY <1>3, <1>4, <1>5, <1>7 DEF Next

\* Consistent holds from the start to the end.
LEMMA AlwaysConsistent == Spec => []Consistent
<1>1. Init => Consistent
  BY NewTypes DEF Init, Consistent, TypeOK, MembershipAgrees, NoStaleMember,
                  ChannelsInhabited, AbsentIsNew, WalkHasChannel, NewClient, NewChannel
<1> QED
  BY <1>1, NextConsistent, PTL DEF Spec

\* Client::_channels and Channel::_members always say the same: no channel
\* keeps a pointer to a client that disconnectClient has deleted.
THEOREM MembershipsAgree == Spec => []MembershipAgrees
<1>1. Consistent => MembershipAgrees
  BY DEF Consistent
<1> QED
  BY <1>1, AlwaysConsistent, PTL

\* Operators are members, and members are clients that exist and have registered.
THEOREM MembersExist == Spec => []NoStaleMember
<1>1. Consistent => NoStaleMember
  BY DEF Consistent
<1> QED
  BY <1>1, AlwaysConsistent, PTL

\* Server::_channels holds exactly the channels that have members.
THEOREM ChannelsHaveMembers == Spec => []ChannelsInhabited
<1>1. Consistent => ChannelsInhabited
  BY DEF Consistent
<1> QED
  BY <1>1, AlwaysConsistent, PTL

-----------------------------------------------------------------------------
(* Nicknames and registration.                                              *)

\* The commands on channels say nothing about who the clients are.
LEMMA ChannelCommandEffect ==
    ASSUME TypeOK, NEW f \in Fd, ChannelCommand(f)
    PROVE  /\ live' = live
           /\ \A g \in Fd : /\ clients'[g].nickname = clients[g].nickname
                            /\ clients'[g].username = clients[g].username
                            /\ clients'[g].passwordProvided = clients[g].passwordProvided
                            /\ clients'[g].registered = clients[g].registered
<1>1. clients \in [Fd -> ClientType] /\ \A g \in Fd : clients[g] \in ClientType
  BY DEF TypeOK
<1>2. ASSUME NEW g, NEW cs, clients' = [clients EXCEPT ![g] = [clients[g] EXCEPT !.channels = cs]]
      PROVE  \A h \in Fd : /\ clients'[h].nickname = clients[h].nickname
                           /\ clients'[h].username = clients[h].username
                           /\ clients'[h].passwordProvided = clients[h].passwordProvided
                           /\ clients'[h].registered = clients[h].registered
  <2>1. \A h \in Fd : clients'[h] = IF h = g THEN [clients[g] EXCEPT !.channels = cs] ELSE clients[h]
    BY <1>1, <1>2
  <2> QED
    BY <1>1, <2>1 DEF ClientType
<1>3. CASE \E req \in JoinRequest : handleJoin(f, req)
  <2>1. PICK req \in JoinRequest : handleJoin(f, req)
    BY <1>3
  <2>2. live' = live /\ \E cs : clients' = [clients EXCEPT ![f] = [clients[f] EXCEPT !.channels = cs]]
    BY <1>1, <2>1 DEF handleJoin
  <2> QED
    BY <1>2, <2>2
<1>4. ASSUME NEW names, handlePart(f, names)
      PROVE  live' = live /\ \E cs : clients' = [clients EXCEPT ![f] = [clients[f] EXCEPT !.channels = cs]]
  BY <1>1, <1>4 DEF handlePart
<1>5. CASE (\E names \in PartRequest : handlePart(f, names)) \/ JoinZero(f)
  BY <1>2, <1>4, <1>5 DEF JoinZero
<1>6. CASE \E name \in ChanWord, w \in NickWord : handleKick(f, name, w)
  <2>1. PICK name \in ChanWord, w \in NickWord : handleKick(f, name, w)
    BY <1>6
  <2>2. live' = live
    BY <2>1 DEF handleKick
  <2>3. PICK g : clients' = [clients EXCEPT ![g].channels = @ \ {Lower[name]}]
    BY <2>1 DEF handleKick
  <2>4. \E cs : clients' = [clients EXCEPT ![g] = [clients[g] EXCEPT !.channels = cs]]
    BY <1>1, <2>3
  <2> QED
    BY <1>2, <2>2, <2>4
<1>7. CASE \/ \E name \in ChanWord, w \in NickWord : handleInvite(f, w, name)
           \/ \E name \in ChanWord, t \in TopicWord : handleTopic(f, name, t)
           \/ \E name \in ChanWord, req \in ModeRequest : handleMode(f, name, req)
  BY <1>7 DEF handleInvite, handleTopic, handleMode
<1> QED
  BY <1>3, <1>5, <1>6, <1>7 DEF ChannelCommand

\* Who the clients are changes by these steps only, one client at a time.
LEMMA IdentityStep ==
    ASSUME TypeOK, [Next]_vars
    PROVE  \/ /\ live' = live
              /\ \A g \in Fd : /\ clients'[g].nickname = clients[g].nickname
                               /\ clients'[g].username = clients[g].username
                               /\ clients'[g].passwordProvided = clients[g].passwordProvided
                               /\ clients'[g].registered = clients[g].registered
           \/ \E f \in Fd : Connection(f)
<1>1. CASE UNCHANGED vars
  BY <1>1 DEF vars
<1>2. CASE \E w \in running : applyModeChanges(w)
  BY <1>2 DEF applyModeChanges, ModeSign, ModeFlag, ModeKey, ModeOperator, ModeLimit,
              ModeUnknown, ModeAbort
<1>3. CASE \E f \in Fd : ChannelCommand(f)
  BY <1>3, ChannelCommandEffect
<1> QED
  BY <1>1, <1>2, <1>3 DEF Next

\* No command gives a client a nickname that another has, however it is spelled.
LEMMA NextNicks == TypeOK /\ NicksUnique /\ [Next]_vars => NicksUnique'
<1> SUFFICES ASSUME TypeOK, NicksUnique, [Next]_vars
             PROVE  NicksUnique'
  OBVIOUS
<1>1. /\ clients \in [Fd -> ClientType] /\ live \subseteq Fd
      /\ \A g \in Fd : clients[g] \in ClientType
  BY DEF TypeOK
<1>2. ASSUME live' \subseteq live,
             \A g \in live' : clients'[g].nickname = clients[g].nickname
      PROVE  NicksUnique'
  BY <1>2 DEF NicksUnique
<1>3. CASE \E f \in Fd : Connection(f)
  <2>1. PICK f \in Fd : Connection(f)
    BY <1>3
  <2>2. CASE acceptNewClient(f)
    <3>1. \A g \in live' : \/ g = f /\ clients'[g].nickname = Empty
                           \/ g \in live /\ clients'[g].nickname = clients[g].nickname
      BY <1>1, <2>2 DEF acceptNewClient, NewClient
    <3>2. \A g \in live : Lower[clients[g].nickname] = Lower[Empty] => clients[g].nickname = Empty
      BY <1>1, WordsAssumption DEF ClientType, Text
    <3> QED
      BY <3>1, <3>2 DEF NicksUnique
  <2>3. CASE disconnectClient(f)
    BY <1>1, <1>2, <2>3 DEF disconnectClient
  <2>4. CASE \E n \in NickWord : handleNick(f, n)
    <3>1. PICK n \in NickWord : handleNick(f, n)
      BY <2>4
    <3>2. live' = live /\ \A g \in live \ {f} : /\ clients'[g] = clients[g]
                                                /\ Lower[clients[g].nickname] # Lower[n]
      BY <1>1, <3>1 DEF handleNick, ClientsNamed
    <3>3. checkRegistration([clients[f] EXCEPT !.nickname = n]).nickname = n
      BY <1>1 DEF checkRegistration, ClientType
    <3>4. clients'[f].nickname = n
      BY <1>1, <3>1, <3>3 DEF handleNick
    <3> QED
      BY <3>2, <3>4 DEF NicksUnique
  <2>5. CASE \E right \in PassRight : handlePass(f, right)
    <3>1. live' = live /\ \A g \in Fd : clients'[g].nickname = clients[g].nickname
      BY <1>1, <2>5 DEF handlePass, ClientType
    <3> QED
      BY <1>1, <1>2, <3>1
  <2>6. CASE handleUser(f)
    <3>1. checkRegistration([clients[f] EXCEPT !.username = TRUE]).nickname = clients[f].nickname
      BY <1>1 DEF checkRegistration, ClientType
    <3>2. live' = live /\ \A g \in Fd : clients'[g].nickname = clients[g].nickname
      BY <1>1, <2>6, <3>1 DEF handleUser
    <3> QED
      BY <1>1, <1>2, <3>2
  <2>7. CASE handleQuit(f)
    <3>1. live' = live /\ \A g \in Fd : clients'[g].nickname = clients[g].nickname
      BY <1>1, <2>7 DEF handleQuit, ClientType
    <3> QED
      BY <1>1, <1>2, <3>1
  <2> QED
    BY <2>1, <2>2, <2>3, <2>4, <2>5, <2>6, <2>7 DEF Connection
<1> QED
  BY <1>1, <1>2, <1>3, IdentityStep

\* The three parts of registration, in any order, are all there when it ends.
LEMMA NextCredentials ==
    TypeOK /\ CredentialsBeforeRegistration /\ [Next]_vars => CredentialsBeforeRegistration'
<1> SUFFICES ASSUME TypeOK, CredentialsBeforeRegistration, [Next]_vars
             PROVE  CredentialsBeforeRegistration'
  OBVIOUS
<1>1. /\ clients \in [Fd -> ClientType] /\ live \subseteq Fd
      /\ \A g \in Fd : clients[g] \in ClientType
  BY DEF TypeOK
<1>2. ASSUME \A g \in Fd : /\ clients'[g].nickname = clients[g].nickname
                           /\ clients'[g].username = clients[g].username
                           /\ clients'[g].passwordProvided = clients[g].passwordProvided
                           /\ clients'[g].registered = clients[g].registered,
             live' = live
      PROVE  CredentialsBeforeRegistration'
  BY <1>1, <1>2 DEF CredentialsBeforeRegistration
<1>3. ASSUME NEW f \in Fd, NEW cl,
             clients' = [clients EXCEPT ![f] = cl], live' \subseteq live \cup {f},
             f \in live' /\ cl.registered =>
                 cl.passwordProvided /\ cl.nickname # Empty /\ cl.username
      PROVE  CredentialsBeforeRegistration'
  BY <1>1, <1>3 DEF CredentialsBeforeRegistration
<1>4. CASE \E f \in Fd : Connection(f)
  <2>1. PICK f \in Fd : Connection(f)
    BY <1>4
  <2>2. CASE acceptNewClient(f) \/ disconnectClient(f)
    <3>1. clients' = [clients EXCEPT ![f] = NewClient] /\ live' \subseteq live \cup {f}
      BY <2>2 DEF acceptNewClient, disconnectClient
    <3>2. ~NewClient.registered
      BY DEF NewClient
    <3> QED
      BY <1>3, <3>1, <3>2
  <2>3. CASE \E right \in PassRight : handlePass(f, right)
    <3>1. /\ live' = live /\ f \in live /\ ~clients[f].registered
          /\ \/ clients' = [clients EXCEPT ![f] = [clients[f] EXCEPT !.passwordProvided = TRUE]]
             \/ clients' = [clients EXCEPT ![f] = [clients[f] EXCEPT !.shouldDisconnect = TRUE]]
      BY <1>1, <2>3 DEF handlePass
    <3>2. /\ ~[clients[f] EXCEPT !.passwordProvided = TRUE].registered
          /\ ~[clients[f] EXCEPT !.shouldDisconnect = TRUE].registered
      BY <1>1, <3>1 DEF ClientType
    <3> QED
      BY <1>3, <3>1, <3>2
  <2>4. ASSUME NEW cl \in ClientType, f \in live,
               cl.registered => clients[f].registered,
               cl.passwordProvided = clients[f].passwordProvided,
               clients[f].nickname # Empty => cl.nickname # Empty,
               clients[f].username => cl.username,
               clients' = [clients EXCEPT ![f] = checkRegistration(cl)], live' = live
        PROVE  CredentialsBeforeRegistration'
    <3> DEFINE reg == checkRegistration(cl)
    <3>1. /\ reg.nickname = cl.nickname /\ reg.username = cl.username
          /\ reg.passwordProvided = cl.passwordProvided
          /\ reg.registered <=>
                cl.registered \/ (cl.passwordProvided /\ cl.nickname # Empty /\ cl.username)
      BY <2>4 DEF checkRegistration, ClientType
    <3> HIDE DEF reg
    <3>2. clients' = [clients EXCEPT ![f] = reg]
      BY <2>4 DEF reg
    <3> QED
      BY <1>3, <2>4, <3>1, <3>2 DEF CredentialsBeforeRegistration
  <2>5. CASE \E n \in NickWord : handleNick(f, n)
    <3>1. PICK n \in NickWord : handleNick(f, n)
      BY <2>5
    <3>2. LET cl == [clients[f] EXCEPT !.nickname = n]
          IN  /\ cl \in ClientType /\ cl.nickname = n /\ cl.username = clients[f].username
              /\ cl.registered = clients[f].registered
              /\ cl.passwordProvided = clients[f].passwordProvided
      BY <1>1 DEF ClientType
    <3>3. n # Empty
      BY WordsAssumption
    <3> QED
      BY <1>1, <2>4, <3>1, <3>2, <3>3 DEF handleNick
  <2>6. CASE handleUser(f)
    <3>1. LET cl == [clients[f] EXCEPT !.username = TRUE]
          IN  /\ cl \in ClientType /\ cl.username /\ cl.nickname = clients[f].nickname
              /\ cl.registered = clients[f].registered
              /\ cl.passwordProvided = clients[f].passwordProvided
      BY <1>1 DEF ClientType
    <3> QED
      BY <1>1, <2>4, <2>6, <3>1 DEF handleUser
  <2>7. CASE handleQuit(f)
    <3>1. /\ live' = live
          /\ clients' = [clients EXCEPT ![f] = [clients[f] EXCEPT !.shouldDisconnect = TRUE]]
      BY <1>1, <2>7 DEF handleQuit
    <3>2. LET cl == [clients[f] EXCEPT !.shouldDisconnect = TRUE]
          IN  /\ cl.username = clients[f].username /\ cl.nickname = clients[f].nickname
              /\ cl.registered = clients[f].registered
              /\ cl.passwordProvided = clients[f].passwordProvided
      BY <1>1 DEF ClientType
    <3> QED
      BY <1>1, <1>2, <3>1, <3>2
  <2> QED
    BY <2>1, <2>2, <2>3, <2>5, <2>6, <2>7 DEF Connection
<1> QED
  BY <1>2, <1>4, IdentityStep

\* Nicknames stay unique up to case among the connected clients.
THEOREM NicknamesUnique == Spec => []NicksUnique
<1>1. Init => NicksUnique
  BY DEF Init, NicksUnique
<1> QED
  BY <1>1, NextNicks, TypesCorrect, PTL DEF Spec

\* Nobody is registered without password, nickname and user name.
THEOREM RegistrationComplete == Spec => []CredentialsBeforeRegistration
<1>1. Init => CredentialsBeforeRegistration
  BY DEF Init, CredentialsBeforeRegistration
<1> QED
  BY <1>1, NextCredentials, TypesCorrect, PTL DEF Spec

=============================================================================
