---------------------------- MODULE ChannelViews ----------------------------
(***************************************************************************)
(* What clients are told of their channels.  A client knows of a channel   *)
(* what the lines it was sent say; `view` is what it knows once it has read *)
(* all of them, in the order in which the handlers wrote them.  IrcServer  *)
(* has the tables; here each of its actions is joined with the lines that  *)
(* the handler sends and with what a client makes of them.                 *)
(*                                                                         *)
(* A client reads by the grammar and the table of modes of the server's own *)
(* parser, compares nicknames as the server does, and takes who enters for *)
(* somebody without rank.                                                  *)
(***************************************************************************)
EXTENDS IrcServer, SequencesExt

CONSTANTS
    Told,      \* what a client takes for the topic that a TOPIC line announces
    Invitee    \* nicknames that clients invite

ASSUME ViewsAssumption ==
    /\ Told \in [TopicWord -> STRING]
    /\ Invitee \subseteq NickWord

VARIABLES
    view,       \* what each client knows of each channel
    announced,  \* appliedModes and modeParamsStr of the MODE walk
    untold      \* channels in which a rank changed and nobody could know

viewVars == <<vars, view, announced, untold>>

NoView == [inside |-> FALSE, names |-> {}, operators |-> {}, topic |-> Empty]

Nick(f) == Lower[clients[f].nickname]

HasQuit(f) == clients[f].shouldDisconnect

\* What the client makes of "n JOIN", "n PART" (or KICK, QUIT) and "o NICK :n".
Entered(v, n) == [v EXCEPT !.names = @ \cup {n}, !.operators = @ \ {n}]

Gone(v, n) == [v EXCEPT !.names = @ \ {n}, !.operators = @ \ {n}]

Renamed(v, o, n) ==
    IF o = n \/ o \notin v.names THEN v
    ELSE [v EXCEPT !.names = (@ \ {o}) \cup {n},
                   !.operators = (@ \ {o, n}) \cup {p \in {n} : o \in @}]

\* RPL_NAMREPLY lists members and marks operators (Channel::getNamesList).
getNamesList_NoRanks(v, ch) ==
    [v EXCEPT !.names = {Nick(g) : g \in ch.members}, !.operators = {}]

getNamesList(v, ch) ==
    [v EXCEPT !.names = {Nick(g) : g \in ch.members},
              !.operators = {Nick(g) : g \in ch.operators}]

\* Those who share a channel with f, which handleNick and handleQuit reach.
Neighbours(f) == (UNION {channels[c].members : c \in clients[f].channels}) \ {f}

NoWalk == [modes |-> <<>>, params |-> <<>>]

-----------------------------------------------------------------------------
(* MODE: the line that applyModeChanges builds, and how it is read.        *)

\* What the walk appends for its character; +l appends a space, the limit (L
\* here) and l, and leaves nothing in modeParamsStr.
Words(w) ==
    LET m == Head(w.todo)
        skipped == m = "l" /\ w.adding /\ AtoI[Head(w.params)] <= 0
    IN  IF skipped \/ m \notin {"+", "-", "i", "t", "k", "o", "l"} THEN <<>>
        ELSE IF m = "l" /\ w.adding THEN <<"space", "L", "l">> ELSE <<m>>

WordParams(w) ==
    IF Head(w.todo) = "o" \/ (Head(w.todo) = "k" /\ w.adding) THEN <<Head(w.params)>> ELSE <<>>

\* A character m read with the parameters ps by somebody who knows these names:
\* k and l with +, and o, take a parameter.
ReadMode(acc, m, names, ps) ==
    LET takes == m = "o" \/ (m \in {"k", "l"} /\ acc.adding)
        n == IF takes /\ acc.next <= Len(ps) THEN Lower[ps[acc.next]] ELSE Empty
    IN  [adding |-> IF m \in {"+", "-"} THEN m = "+" ELSE acc.adding,
         next   |-> IF takes THEN acc.next + 1 ELSE acc.next,
         ops    |-> IF m # "o" \/ n \notin names THEN acc.ops
                    ELSE IF acc.adding THEN acc.ops \cup {n} ELSE acc.ops \ {n}]

\* What somebody has made of the operators who has read the characters ms.
ReadModes(v, ms, ps) ==
    LET read[n \in 0 .. Len(ms)] ==
            IF n = 0 THEN [adding |-> TRUE, next |-> 1, ops |-> v.operators]
            ELSE ReadMode(read[n - 1], ms[n], v.names, ps)
    IN  read[Len(ms)]

\* The first word of the line is the modes; the others, a limit with what
\* follows it among them, count as parameters, which no nickname is like.
ReadAnnouncement(v, a) ==
    LET spaces == {k \in DOMAIN a.modes : a.modes[k] = "space" /\ k > 1}
        first == IF a.modes[1] = "space" THEN 2 ELSE 1
        last == IF spaces = {} THEN Len(a.modes) ELSE Min(spaces) - 1
        params == [k \in 1 .. Cardinality(spaces) |-> Empty] \o a.params
    IN  [v EXCEPT !.operators = ReadModes(v, SubSeq(a.modes, first, last), params).ops]

\* Nothing is announced if nothing but a sign was applied.
Announces(a) == a.modes \notin {<<>>, <<"+">>, <<"-">>}

-----------------------------------------------------------------------------
(* The handlers with what they send.                                       *)

Quietly == UNCHANGED <<view, announced, untold>>
OnlyTells == UNCHANGED <<announced, untold>>

\* A channel that is gone leaves no secret.
Forgets == untold' = untold \cap chans' /\ UNCHANGED announced

AcceptClient(f) == acceptNewClient(f) /\ Quietly

\* Nobody is told.
LoseClient(f) ==
    /\ disconnectClient(f)
    /\ view' = [g \in Fd |-> [c \in Chan |->
           IF g = f THEN NoView ELSE view[g][c]]]
    /\ Forgets

Register(f) ==
    /\ handleUser(f) \/ \E right \in PassRight : handlePass(f, right)
    /\ Quietly

\* Only the client itself learns of its new nickname.
ChangeNick_TellsOnlySelf(f, n) ==
    /\ handleNick(f, n)
    /\ view' = [g \in Fd |-> [c \in Chan |->
           IF clients[f].registered /\ g = f
              THEN Renamed(view[g][c], Nick(f), Lower[n]) ELSE view[g][c]]]
    /\ OnlyTells

\* To the client itself and to each channel it is in; a second line of the same
\* kind, to who shares two channels with it, changes nothing more.
ChangeNick(f, n) ==
    /\ handleNick(f, n)
    /\ view' = [g \in Fd |-> [c \in Chan |->
           IF clients[f].registered /\ g \in {f} \cup Neighbours(f)
              THEN Renamed(view[g][c], Nick(f), Lower[n]) ELSE view[g][c]]]
    /\ OnlyTells

Quit(f) ==
    /\ handleQuit(f)
    /\ view' = [g \in Fd |-> [c \in Chan |->
           IF g \in Neighbours(f) THEN Gone(view[g][c], Nick(f)) ELSE view[g][c]]]
    /\ OnlyTells

\* RPL_TOPIC is not sent to who enters.
ViewOnEntry_NoTopic(c) == getNamesList([NoView EXCEPT !.inside = TRUE], channels'[c])

\* JOIN, RPL_TOPIC if there is a topic, and RPL_NAMREPLY, to who enters.
ViewOnEntry(c) ==
    getNamesList([NoView EXCEPT !.inside = TRUE, !.topic = channels[c].topic], channels'[c])

Join(f, req) ==
    /\ handleJoin(f, req)
    /\ view' = [g \in Fd |-> [c \in Chan |->
           IF f \in channels[c].members \/ f \notin channels'[c].members THEN view[g][c]
           ELSE IF g = f THEN ViewOnEntry(c)
           ELSE IF g \in channels[c].members THEN Entered(view[g][c], Nick(f))
           ELSE view[g][c]]]
    /\ OnlyTells

\* Told after the removal, to those who are left.
SayGone_Late(f, cs) ==
    view' = [g \in Fd |-> [c \in Chan |->
        IF c \in cs /\ g \in channels[c].members \ {f}
           THEN Gone(view[g][c], Nick(f)) ELSE view[g][c]]]

\* PART or KICK of f in the channels cs, told before the removal.
SayGone(f, cs) ==
    view' = [g \in Fd |-> [c \in Chan |->
        IF c \notin cs \/ g \notin channels[c].members THEN view[g][c]
        ELSE IF g = f THEN NoView
        ELSE Gone(view[g][c], Nick(f))]]

Part(f) ==
    /\ JoinZero(f) \/ \E names \in PartRequest : handlePart(f, names)
    /\ SayGone(f, clients[f].channels \ clients'[f].channels)
    /\ Forgets

Kick(f, name, w) ==
    /\ handleKick(f, name, w)
    /\ \A g \in MembersNamed(Lower[name], w) : SayGone(g, {Lower[name]})
    /\ Forgets

\* The INVITE goes to the one who is invited.
Invite(f, w, name) == handleInvite(f, w, name) /\ Quietly

SetTopic(f, name, t) ==
    /\ handleTopic(f, name, t)
    /\ view' = [g \in Fd |-> [c \in Chan |->
           IF c = Lower[name] /\ g \in channels[c].members
              THEN [view[g][c] EXCEPT !.topic = Told[t]] ELSE view[g][c]]]
    /\ OnlyTells

\* TOPIC without a topic: RPL_TOPIC has it whole.
AskTopic(f, c) ==
    /\ MayCommand(f)
    /\ f \in channels[c].members
    /\ view' = [view EXCEPT ![f][c].topic = channels[c].topic]
    /\ UNCHANGED <<vars, announced, untold>>

\* NAMES for a channel that one is in, which replaces the list one had.
AskNames(f, c) ==
    /\ MayCommand(f)
    /\ f \in channels[c].members
    /\ view' = [view EXCEPT ![f][c] = getNamesList(@, channels[c])]
    /\ UNCHANGED <<vars, announced, untold>>

\* WHO for a channel: a line for each member, with its rank, which says nothing
\* of others.
AskWho(f, c) ==
    LET listed == getNamesList(NoView, channels[c])
    IN  /\ MayCommand(f)
        /\ f \in channels[c].members
        /\ view' = [view EXCEPT ![f][c].names = @ \cup listed.names,
                                ![f][c].operators = (@ \ listed.names) \cup listed.operators]
        /\ UNCHANGED <<vars, announced, untold>>

StartMode(f, name, req) ==
    /\ handleMode(f, name, req)
    /\ announced' = NoWalk
    /\ UNCHANGED <<view, untold>>

\* One character; behind the last one the line goes to all members.
ModeStep(w) ==
    LET all == [modes |-> announced.modes \o Words(w), params |-> announced.params \o WordParams(w)]
        ended == running' = {}
    IN  /\ ModeSign(w) \/ ModeFlag(w) \/ ModeKey(w) \/ ModeOperator(w) \/ ModeLimit(w) \/ ModeUnknown(w)
        /\ announced' = IF ended THEN NoWalk ELSE all
        /\ view' = [g \in Fd |-> [c \in Chan |->
               IF ended /\ c = w.chan /\ g \in channels[c].members /\ Announces(all)
                  THEN ReadAnnouncement(view[g][c], all) ELSE view[g][c]]]
        /\ untold' = IF ended /\ {"o", "space"} \subseteq Range(all.modes)
                     THEN untold \cup {w.chan} ELSE untold

\* The walk returns early and says nothing of what it has changed.
CutMode(w) ==
    /\ ModeAbort(w)
    /\ announced' = NoWalk
    /\ untold' = IF "o" \in Range(announced.modes) THEN untold \cup {w.chan} ELSE untold
    /\ UNCHANGED view

-----------------------------------------------------------------------------
ViewInit ==
    /\ Init
    /\ view = [f \in Fd |-> [c \in Chan |-> NoView]]
    /\ announced = NoWalk
    /\ untold = {}

Session(f) == AcceptClient(f) \/ LoseClient(f)

Command(f) ==
    \/ Register(f)
    \/ \E n \in NickWord : ChangeNick(f, n)
    \/ f \in Quitter /\ Quit(f)
    \/ \E req \in JoinRequest : Join(f, req)
    \/ Part(f)
    \/ \E c \in Chan : AskTopic(f, c) \/ AskNames(f, c) \/ AskWho(f, c)
    \/ \E name \in ChanWord :
          \/ \E w \in NickWord : Kick(f, name, w)
          \/ \E w \in Invitee : Invite(f, w, name)
          \/ \E t \in TopicWord : SetTopic(f, name, t)
          \/ \E req \in ModeRequest : StartMode(f, name, req)

ViewNext ==
    \/ \E f \in Fd : Session(f) \/ Command(f)
    \/ \E w \in running : ModeStep(w) \/ CutMode(w)

ViewSpec == ViewInit /\ [][ViewNext]_viewVars

-----------------------------------------------------------------------------
(* Properties.  Nothing is owed to, or said of, a client that has quit: the *)
(* server keeps it, as a member too, and others have been told it is gone.  *)

Present(c) == {f \in channels[c].members : ~HasQuit(f)}

\* A client knows which channels it is in: it hears of its own JOIN and PART and
\* of the KICK that removes it, which has to be sent while it is still a member.
InsideKnown ==
    \A f \in live, c \in Chan :
        ~HasQuit(f) => (view[f][c].inside <=> f \in channels[c].members)

\* Nobody listens unseen: each member knows each other member by its present
\* nickname, whatever entries, renamings, kicks and losses of connections, and
\* nicknames given up and taken by others, came between.
NoHiddenMember ==
    \A c \in Chan : \A f, g \in Present(c) : Nick(g) \in view[f][c].names

\* Members know who the operators among them are, once no MODE is in progress,
\* unless a MODE changed a rank and was then cut short by an error, or set a
\* limit too, which garbles the line that announces it.
OperatorsKnown ==
    \A c \in Chan \ untold : NoModeOn(c) =>
        \A f, g \in Present(c) :
            Nick(g) \in view[f][c].operators <=> g \in channels[c].operators

\* A member takes for the topic what was last set, or what the line says that
\* announced it, whether it was there then or came later or asked.
TopicTold ==
    \A c \in Chan : \A f \in Present(c) :
        \/ view[f][c].topic = channels[c].topic
        \/ channels[c].topic # Empty /\ view[f][c].topic = Told[channels[c].topic]

\* "Notify all members about the topic change" (Topic.cpp:50).
TopicKnown ==
    \A c \in Chan : \A f \in Present(c) : view[f][c].topic = channels[c].topic

=============================================================================
