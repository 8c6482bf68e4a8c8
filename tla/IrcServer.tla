------------------------------ MODULE IrcServer ------------------------------
(***************************************************************************)
(* The tables of the ft_irc server and the handlers that change them: the  *)
(* Client objects of Server::_clients, the Channel objects of              *)
(* Server::_channels, and one action per command handler.                  *)
(*                                                                         *)
(* The process has one thread and runs each handler to its end, so a       *)
(* handler is one step.  MODE is the exception: applyModeChanges walks     *)
(* over a string of mode characters and may return in the middle of it, so *)
(* the walk is one step per character; `running` holds it while it lasts   *)
(* and no other action is enabled meanwhile.                               *)
(*                                                                         *)
(* A Client* is the descriptor of the client: members and operators of a   *)
(* channel are sets of descriptors, and a descriptor left in one of them   *)
(* after the client is deleted is a dangling pointer.  What handlers write *)
(* to output buffers is the subject of PollLoop; the replies of handlers   *)
(* that change no table (PRIVMSG, WHO, NAMES, LIST, PING, BOT) and the     *)
(* error branches are steps that leave these tables as they are.           *)
(***************************************************************************)
EXTENDS Integers, FiniteSets, Sequences

CONSTANTS
    Fd,            \* descriptors accept() may return
    Word,          \* non-empty strings a parameter of a command may be
    Empty,         \* the empty string
    Lower,         \* Utils::toLower
    AtoI,          \* Utils::stringToInt
    NickWord,      \* words that parser::isValidNickname accepts
    ChanWord,      \* words that parser::isValidChannelName accepts
    TopicWord,     \* words that clients set as topics
    JoinRequest,   \* parameters of JOIN: sets of pairs <<name, key>>
    PartRequest,   \* parameters of PART: sets of names
    ModeRequest,   \* parameters of MODE: pairs <<mode string, its parameters>>
    PassRight,     \* whether a password sent is the right one: outcomes tried
    Quitter        \* descriptors of the clients that send QUIT

Text == Word \cup {Empty}
Chan == {Lower[w] : w \in ChanWord}        \* keys of Server::_channels

ASSUME WordsAssumption ==
    /\ Empty \notin Word
    /\ Lower \in [Text -> Text]
    /\ \A w \in Text : /\ Lower[Lower[w]] = Lower[w]
                       /\ (Lower[w] = Empty) <=> (w = Empty)
    /\ AtoI \in [Word -> Int]
    /\ NickWord \subseteq Word
    /\ ChanWord \subseteq Word
    /\ TopicWord \subseteq Word
    /\ IsFiniteSet(Fd)

ASSUME RequestsAssumption ==
    /\ JoinRequest \subseteq SUBSET (ChanWord \X Text)
    /\ PartRequest \subseteq SUBSET ChanWord
    /\ ModeRequest \subseteq (Seq(STRING) \ {<<>>}) \X Seq(Word)

VARIABLES
    live,       \* descriptors with a Client object: the keys of _clients
    clients,    \* the fields of each Client
    chans,      \* the keys of _channels
    channels,   \* the fields of each Channel
    running     \* the MODE walk in progress: at most one

vars == <<live, clients, chans, channels, running>>

-----------------------------------------------------------------------------
(* Client and Channel objects.  username says only whether it is non-empty. *)

NewClient ==
    [nickname |-> Empty, username |-> FALSE, passwordProvided |-> FALSE,
     registered |-> FALSE, shouldDisconnect |-> FALSE, channels |-> {}]

NewChannel ==
    [members |-> {}, operators |-> {}, invitedUsers |-> {},
     inviteOnly |-> FALSE, topicRestricted |-> FALSE,
     key |-> Empty, userLimit |-> 0, topic |-> Empty]

ClientType ==
    [nickname : NickWord \cup {Empty}, username : BOOLEAN,
     passwordProvided : BOOLEAN, registered : BOOLEAN,
     shouldDisconnect : BOOLEAN, channels : SUBSET Chan]

ChannelType ==
    [members : SUBSET Fd, operators : SUBSET Fd,
     invitedUsers : SUBSET {Lower[w] : w \in NickWord},
     inviteOnly : BOOLEAN, topicRestricted : BOOLEAN,
     key : Text, userLimit : Nat, topic : TopicWord \cup {Empty}]

\* What applyModeChanges still has to do: its local variables.
ModeWalk ==
    [fd : Fd, chan : Chan, adding : BOOLEAN,
     todo : Seq(STRING) \ {<<>>}, params : Seq(Word)]

\* No handler is in the middle of its work.
Idle == running = {}

\* A command other than PASS, NICK, USER, QUIT and CAP reaches its handler
\* only if the client is registered.
MayCommand(f) == Idle /\ f \in live /\ clients[f].registered

\* Server::getClientByNickname returns the first of these, or NULL.
ClientsNamed(w) == {g \in live : Lower[clients[g].nickname] = Lower[w]}

\* Channel::getMemberByNickname returns the first of these, or NULL.
MembersNamed(c, w) ==
    {g \in channels[c].members : Lower[clients[g].nickname] = Lower[w]}

-----------------------------------------------------------------------------
(* Channel methods.                                                        *)

\* Who enters a channel without operators becomes one.
addMember_WhenLeaderless(ch, f) ==
    [ch EXCEPT !.members = @ \cup {f},
               !.operators = IF ch.operators = {} THEN @ \cup {f} ELSE @]

addMember(ch, f) ==
    [ch EXCEPT !.members = @ \cup {f},
               !.operators = IF ch.members = {} THEN @ \cup {f} ELSE @]

\* A removal that forgets that the leaving member may be an operator.
removeMember_KeepsOperator(ch, f) == [ch EXCEPT !.members = @ \ {f}]

removeMember(ch, f) ==
    [ch EXCEPT !.members = @ \ {f}, !.operators = @ \ {f}]

addOperator(ch, f) ==
    [ch EXCEPT !.operators = IF f \in ch.members THEN @ \cup {f} ELSE @]

removeOperator(ch, f) == [ch EXCEPT !.operators = @ \ {f}]

\* One member too many.
isFull_OffByOne(ch) ==
    ch.userLimit > 0 /\ Cardinality(ch.members) > ch.userLimit

isFull(ch) == ch.userLimit > 0 /\ Cardinality(ch.members) >= ch.userLimit

addInvite(ch, w) == [ch EXCEPT !.invitedUsers = @ \cup {Lower[w]}]

\* The invitation is looked up by the nickname as it is spelled.
removeInvite_AsSpelled(ch, w) == [ch EXCEPT !.invitedUsers = @ \ {w}]

removeInvite(ch, w) == [ch EXCEPT !.invitedUsers = @ \ {Lower[w]}]

isInvited(ch, w) == Lower[w] \in ch.invitedUsers

\* A removal that leaves an empty channel in the table.
RemoveFrom_KeepsEmpty(f, cs) ==
    /\ channels' = [c \in Chan |-> IF c \in cs THEN removeMember(channels[c], f)
                                               ELSE channels[c]]
    /\ UNCHANGED chans

\* removeMember on each of the existing channels cs, and removeChannel on
\* those that it leaves empty.
RemoveFrom(f, cs) ==
    LET emptied == {c \in cs : channels[c].members \subseteq {f}}
    IN  /\ chans' = chans \ emptied
        /\ channels' = [c \in Chan |->
               IF c \in emptied THEN NewChannel
               ELSE IF c \in cs THEN removeMember(channels[c], f)
               ELSE channels[c]]

-----------------------------------------------------------------------------
(* Connections.                                                            *)

acceptNewClient(f) ==
    /\ Idle
    /\ f \notin live
    /\ live' = live \cup {f}
    /\ clients' = [clients EXCEPT ![f] = NewClient]
    /\ UNCHANGED <<chans, channels, running>>

\* poll() reports POLLERR, POLLHUP or POLLNVAL for the client.
disconnectClient(f) ==
    /\ Idle
    /\ f \in live
    /\ RemoveFrom(f, clients[f].channels \cap chans)
    /\ live' = live \ {f}
    /\ clients' = [clients EXCEPT ![f] = NewClient]
    /\ UNCHANGED running

-----------------------------------------------------------------------------
(* PASS, NICK, USER and QUIT.                                              *)

handlePass(f, right) ==
    /\ Idle
    /\ f \in live
    /\ ~clients[f].registered
    /\ \/ /\ right
          /\ clients' = [clients EXCEPT ![f].passwordProvided = TRUE]
       \/ /\ ~right
          /\ clients' = [clients EXCEPT ![f].shouldDisconnect = TRUE]
    /\ UNCHANGED <<live, chans, channels, running>>

\* The client cl, registered if it has given all that registration needs.
checkRegistration(cl) ==
    [cl EXCEPT !.registered =
        @ \/ (cl.passwordProvided /\ cl.nickname # Empty /\ cl.username)]

\* Nicknames are compared as they are spelled.
handleNick_CaseSensitive(f, n) ==
    /\ Idle
    /\ f \in live
    /\ \A g \in live \ {f} : clients[g].nickname # n
    /\ clients' = [clients EXCEPT ![f] = checkRegistration([@ EXCEPT !.nickname = n])]
    /\ UNCHANGED <<live, chans, channels, running>>

\* checkRegistration changes nothing in a registered client, which the code
\* does not pass to it.
handleNick(f, n) ==
    /\ Idle
    /\ f \in live
    /\ ClientsNamed(n) \subseteq {f}
    /\ clients' = [clients EXCEPT ![f] = checkRegistration([@ EXCEPT !.nickname = n])]
    /\ UNCHANGED <<live, chans, channels, running>>

\* USER completes the registration of a client that has not sent PASS.
handleUser_NoPassword(f) ==
    /\ Idle
    /\ f \in live
    /\ ~clients[f].registered
    /\ clients' = [clients EXCEPT ![f].username = TRUE,
                                  ![f].registered = clients[f].nickname # Empty]
    /\ UNCHANGED <<live, chans, channels, running>>

handleUser(f) ==
    /\ Idle
    /\ f \in live
    /\ ~clients[f].registered
    /\ clients' = [clients EXCEPT ![f] = checkRegistration([@ EXCEPT !.username = TRUE])]
    /\ UNCHANGED <<live, chans, channels, running>>

\* Nothing but the mark, which no code of the server reads.
handleQuit(f) ==
    /\ Idle
    /\ f \in live
    /\ clients' = [clients EXCEPT ![f].shouldDisconnect = TRUE]
    /\ UNCHANGED <<live, chans, channels, running>>

-----------------------------------------------------------------------------
(* JOIN, PART, KICK, INVITE and TOPIC.  A request of JOIN or PART is a set: *)
(* its channels do not depend on one another, a channel named again after  *)
(* the client has entered (left) it is skipped, and one that refused a key *)
(* is asked again with the next key given for it.                          *)

\* joinSingleChannel lets the client f in with this key.
MayJoin(ch, f, key) ==
    /\ f \notin ch.members
    /\ ch.inviteOnly => isInvited(ch, clients[f].nickname)
    /\ ch.key # Empty => ch.key = key
    /\ ~isFull(ch)

\* The invitation that let the client in is not used up.
joinSingleChannel_KeepsInvite(ch, f) == addMember(ch, f)

joinSingleChannel(ch, f) == removeInvite(addMember(ch, f), clients[f].nickname)

\* getOrCreatChannel adds every channel asked for, empty: channels[c] is a
\* NewChannel when c is not in chans.
handleJoin(f, req) ==
    LET entered == {c \in Chan : \E r \in req :
                        Lower[r[1]] = c /\ MayJoin(channels[c], f, r[2])}
    IN  /\ MayCommand(f)
        /\ chans' = chans \cup {Lower[r[1]] : r \in req}
        /\ channels' = [c \in Chan |->
               IF c \in entered THEN joinSingleChannel(channels[c], f)
                                ELSE channels[c]]
        /\ clients' = [clients EXCEPT ![f].channels = @ \cup entered]
        /\ UNCHANGED <<live, running>>

\* The client forgets the channel by the name it was given, as it is spelled.
handlePart_AsSpelled(f, names) ==
    LET left == {c \in chans : f \in channels[c].members
                                /\ \E n \in names : Lower[n] = c}
    IN  /\ MayCommand(f)
        /\ RemoveFrom(f, left)
        /\ clients' = [clients EXCEPT ![f].channels = @ \ names]
        /\ UNCHANGED <<live, running>>

handlePart(f, names) ==
    LET left == {c \in chans : f \in channels[c].members
                                /\ \E n \in names : Lower[n] = c}
    IN  /\ MayCommand(f)
        /\ RemoveFrom(f, left)
        /\ clients' = [clients EXCEPT ![f].channels = @ \ left]
        /\ UNCHANGED <<live, running>>

\* JOIN 0: PART from each of the client's channels.
JoinZero(f) == handlePart(f, clients[f].channels)

handleKick(f, name, w) ==
    LET c == Lower[name]
    IN  /\ MayCommand(f)
        /\ c \in chans
        /\ f \in channels[c].members \cap channels[c].operators
        /\ \E g \in MembersNamed(c, w) :
              /\ RemoveFrom(g, {c})
              /\ clients' = [clients EXCEPT ![g].channels = @ \ {c}]
        /\ UNCHANGED <<live, running>>

handleInvite(f, w, name) ==
    LET c == Lower[name]
    IN  /\ MayCommand(f)
        /\ c \in chans
        /\ f \in channels[c].operators
        /\ \E g \in ClientsNamed(w) :
              /\ MembersNamed(c, clients[g].nickname) = {}
              /\ channels' = [channels EXCEPT ![c] = addInvite(@, clients[g].nickname)]
        /\ UNCHANGED <<live, clients, chans, running>>

\* TOPIC with a topic to set.
handleTopic(f, name, t) ==
    LET c == Lower[name]
    IN  /\ MayCommand(f)
        /\ c \in chans
        /\ f \in channels[c].members
        /\ channels[c].topicRestricted => f \in channels[c].operators
        /\ channels' = [channels EXCEPT ![c].topic = t]
        /\ UNCHANGED <<live, clients, chans, running>>

-----------------------------------------------------------------------------
(* MODE with modes to set: handleMode starts the walk of applyModeChanges.  *)

\* Any member may set modes.
handleMode_AnyMember(f, name, req) ==
    LET c == Lower[name]
    IN  /\ MayCommand(f)
        /\ c \in chans
        /\ f \in channels[c].members
        /\ running' = {[fd |-> f, chan |-> c, adding |-> TRUE,
                        todo |-> req[1], params |-> req[2]]}
        /\ UNCHANGED <<live, clients, chans, channels>>

\* The sender is looked up among the operators once, before the walk.
handleMode(f, name, req) ==
    LET c == Lower[name]
    IN  /\ MayCommand(f)
        /\ c \in chans
        /\ f \in channels[c].operators
        /\ running' = {[fd |-> f, chan |-> c, adding |-> TRUE,
                        todo |-> req[1], params |-> req[2]]}
        /\ UNCHANGED <<live, clients, chans, channels>>

\* The walk after its character, with these parameters left.
Advance(w, params) ==
    running' = IF Len(w.todo) = 1 THEN {}
               ELSE {[w EXCEPT !.todo = Tail(@), !.params = params]}

SetChannel(w, ch) == channels' = [channels EXCEPT ![w.chan] = ch]

ModeSign(w) ==
    /\ Head(w.todo) \in {"+", "-"}
    /\ Advance([w EXCEPT !.adding = (Head(w.todo) = "+")], w.params)
    /\ UNCHANGED <<live, clients, chans, channels>>

ModeFlag(w) ==
    /\ \/ /\ Head(w.todo) = "i"
          /\ SetChannel(w, [channels[w.chan] EXCEPT !.inviteOnly = w.adding])
       \/ /\ Head(w.todo) = "t"
          /\ SetChannel(w, [channels[w.chan] EXCEPT !.topicRestricted = w.adding])
    /\ Advance(w, w.params)
    /\ UNCHANGED <<live, clients, chans>>

ModeKey(w) ==
    /\ Head(w.todo) = "k"
    /\ \/ /\ w.adding
          /\ w.params # <<>>
          /\ SetChannel(w, [channels[w.chan] EXCEPT !.key = Head(w.params)])
          /\ Advance(w, Tail(w.params))
       \/ /\ ~w.adding
          /\ SetChannel(w, [channels[w.chan] EXCEPT !.key = Empty])
          /\ Advance(w, w.params)
    /\ UNCHANGED <<live, clients, chans>>

ModeOperator(w) ==
    /\ Head(w.todo) = "o"
    /\ w.params # <<>>
    /\ \E g \in ClientsNamed(Head(w.params)) :
          SetChannel(w, IF w.adding THEN addOperator(channels[w.chan], g)
                                    ELSE removeOperator(channels[w.chan], g))
    /\ Advance(w, Tail(w.params))
    /\ UNCHANGED <<live, clients, chans>>

\* The limit is stored whatever atoi returned.
ModeLimit_Unchecked(w) ==
    /\ Head(w.todo) = "l"
    /\ \/ /\ w.adding
          /\ w.params # <<>>
          /\ SetChannel(w, [channels[w.chan] EXCEPT !.userLimit = AtoI[Head(w.params)]])
       \/ /\ ~w.adding
          /\ SetChannel(w, [channels[w.chan] EXCEPT !.userLimit = 0])
    /\ Advance(w, w.params)
    /\ UNCHANGED <<live, clients, chans>>

\* +l reads its parameter and leaves it to the next mode of the string; a
\* limit that is not positive is skipped.
ModeLimit(w) ==
    /\ Head(w.todo) = "l"
    /\ \/ /\ w.adding
          /\ w.params # <<>>
          /\ SetChannel(w, IF AtoI[Head(w.params)] <= 0 THEN channels[w.chan]
                           ELSE [channels[w.chan] EXCEPT !.userLimit = AtoI[Head(w.params)]])
       \/ /\ ~w.adding
          /\ SetChannel(w, [channels[w.chan] EXCEPT !.userLimit = 0])
    /\ Advance(w, w.params)
    /\ UNCHANGED <<live, clients, chans>>

ModeUnknown(w) ==
    /\ Head(w.todo) \notin {"+", "-", "i", "t", "k", "o", "l"}
    /\ Advance(w, w.params)
    /\ UNCHANGED <<live, clients, chans, channels>>

\* The early returns: the changes made so far stay, the rest is dropped.
ModeAbort(w) ==
    /\ \/ /\ Head(w.todo) \in {"k", "l"}
          /\ w.adding
          /\ w.params = <<>>
       \/ /\ Head(w.todo) = "o"
          /\ w.params # <<>> => ClientsNamed(Head(w.params)) = {}
    /\ running' = {}
    /\ UNCHANGED <<live, clients, chans, channels>>

applyModeChanges(w) ==
    \/ ModeSign(w)
    \/ ModeFlag(w)
    \/ ModeKey(w)
    \/ ModeOperator(w)
    \/ ModeLimit(w)
    \/ ModeUnknown(w)
    \/ ModeAbort(w)

-----------------------------------------------------------------------------
Init ==
    /\ live = {}
    /\ clients = [f \in Fd |-> NewClient]
    /\ chans = {}
    /\ channels = [c \in Chan |-> NewChannel]
    /\ running = {}

Connection(f) ==
    \/ acceptNewClient(f)
    \/ disconnectClient(f)
    \/ \E right \in PassRight : handlePass(f, right)
    \/ \E n \in NickWord : handleNick(f, n)
    \/ handleUser(f)
    \/ f \in Quitter /\ handleQuit(f)

ChannelCommand(f) ==
    \/ \E req \in JoinRequest : handleJoin(f, req)
    \/ \E names \in PartRequest : handlePart(f, names)
    \/ JoinZero(f)
    \/ \E name \in ChanWord :
          \/ \E w \in NickWord : handleKick(f, name, w) \/ handleInvite(f, w, name)
          \/ \E t \in TopicWord : handleTopic(f, name, t)
          \/ \E req \in ModeRequest : handleMode(f, name, req)

Next ==
    \/ \E f \in Fd : Connection(f) \/ ChannelCommand(f)
    \/ \E w \in running : applyModeChanges(w)

Spec == Init /\ [][Next]_vars

-----------------------------------------------------------------------------
(* Properties.                                                             *)

\* Every table holds what its type says, between any two steps: in particular
\* a limit is never negative, and members, operators and the walk of a MODE
\* name descriptors and channels the server knows.
TypeOK ==
    /\ live \subseteq Fd
    /\ clients \in [Fd -> ClientType]
    /\ chans \subseteq Chan
    /\ channels \in [Chan -> ChannelType]
    /\ running \subseteq ModeWalk

\* The two records of membership, Client::_channels and Channel::_members,
\* agree for every client and every channel: a channel holds no pointer to a
\* deleted client (or, once the descriptor is used again, to a stranger), and
\* disconnectClient, which looks only at _channels, misses no channel.
MembershipAgrees ==
    \A f \in Fd, c \in Chan :
        (c \in clients[f].channels) <=> (f \in live /\ c \in chans /\ f \in channels[c].members)

\* Nothing outlives a member in its channel: members are clients that exist
\* and are registered, and operators are members.
NoStaleMember ==
    \A c \in Chan : /\ \A f \in channels[c].members : f \in live /\ clients[f].registered
                    /\ channels[c].operators \subseteq channels[c].members

\* A channel is in the table exactly as long as it has a member: every way out
\* of a channel (PART, KICK, JOIN 0, disconnection) removes the one it empties,
\* and no JOIN that is refused leaves one behind.
ChannelsInhabited ==
    \A c \in Chan : (c \in chans) <=> (channels[c].members # {})

\* A channel that is not in the table is the one getOrCreatChannel would make,
\* and the channel of a MODE in progress is in the table.
AbsentIsNew == \A c \in Chan \ chans : channels[c] = NewChannel
WalkHasChannel == \A w \in running : w.chan \in chans

\* The inductive invariant behind the three above.
Consistent ==
    /\ TypeOK
    /\ MembershipAgrees
    /\ NoStaleMember
    /\ ChannelsInhabited
    /\ AbsentIsNew
    /\ WalkHasChannel

\* No two connected clients have nicknames equal up to case, registered or
\* not: getClientByNickname and getMemberByNickname have one answer.
NicksUnique ==
    \A f, g \in live :
        /\ clients[f].nickname # Empty
        /\ Lower[clients[f].nickname] = Lower[clients[g].nickname]
        => f = g

\* Whatever the order of PASS, NICK and USER, repeated or interleaved with
\* those of other clients, a registered client has given all three.
CredentialsBeforeRegistration ==
    \A f \in live : clients[f].registered =>
        clients[f].passwordProvided /\ clients[f].nickname # Empty /\ clients[f].username

\* No MODE is in progress on the channel.
NoModeOn(c) == \A w \in running : w.chan # c

\* A channel that has members and no operator, and no MODE in progress on it.
Leaderless(c) ==
    /\ c \in chans
    /\ channels[c].operators = {}
    /\ NoModeOn(c)

\* A step that leaves everything an operator decides as it is.
NothingDecided(c) ==
    /\ channels'[c].operators = {}
    /\ channels'[c].inviteOnly = channels[c].inviteOnly
    /\ channels'[c].topicRestricted = channels[c].topicRestricted
    /\ channels'[c].key = channels[c].key
    /\ channels'[c].userLimit = channels[c].userLimit
    /\ channels'[c].invitedUsers \subseteq channels[c].invitedUsers
    /\ channels[c].topicRestricted => channels'[c].topic = channels[c].topic

\* A channel whose last operator has left (or taken its own rank away) keeps
\* its modes, invites nobody and has no operator again until its last member
\* leaves: no sequence of commands promotes anybody or as much as starts a MODE.
LeaderlessFrozen ==
    [][\A c \in Chan : Leaderless(c) =>
          c \notin chans' \/ (NothingDecided(c) /\ NoModeOn(c)')]_vars

\* The step uses up the invitation of f to c.
InviteUsed(c, f) ==
    /\ Lower[clients[f].nickname] \in channels[c].invitedUsers
    /\ Lower[clients'[f].nickname] \notin channels'[c].invitedUsers

\* Who enters an invite-only channel had an invitation, under any spelling of
\* its nickname, and has it no longer: one invitation admits once.
InvitationAdmitsOnce ==
    [][\A c \in Chan, f \in Fd :
          f \in channels'[c].members \ channels[c].members /\ channels[c].inviteOnly
          => InviteUsed(c, f)]_vars

\* A JOIN, of whatever list of channels, takes no channel above its limit; a
\* limit below the present number of members only stops new ones.
LimitRespected ==
    [][\A c \in Chan :
          \/ channels'[c].members \subseteq channels[c].members
          \/ channels[c].userLimit = 0
          \/ Cardinality(channels'[c].members) <= channels[c].userLimit]_vars

-----------------------------------------------------------------------------
(* The tables implement Room: what a channel is, seen from outside.        *)

RulesOf(ch) ==
    [inviteOnly |-> ch.inviteOnly, topicRestricted |-> ch.topicRestricted,
     key |-> ch.key, userLimit |-> ch.userLimit]

Rooms == INSTANCE Room WITH
    Person   <- Fd,
    Place    <- Chan,
    Rule     <- [inviteOnly : BOOLEAN, topicRestricted : BOOLEAN, key : Text, userLimit : Nat],
    NoRules  <- RulesOf(NewChannel),
    known    <- {f \in live : clients[f].registered},
    inside   <- {p \in Fd \X Chan : p[2] \in clients[p[1]].channels},
    leads    <- {p \in Fd \X Chan : p[1] \in channels[p[2]].operators},
    rules    <- [c \in Chan |-> RulesOf(channels[c])],
    deciding <- {w.chan : w \in running}

\* Each step of a handler is a step of Room, or none: the membership that a
\* client records (Client::_channels) and the operators and modes that a channel
\* records change together, as if there were one table, even when a JOIN or PART
\* names several channels; no MODE starts without an operator, and no rank or
\* mode changes but by a MODE of that channel or by entering it first.
ImplementsRoom == Rooms!Spec

=============================================================================
