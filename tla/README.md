# ft_irc: specifications, model checking and proofs

This directory holds TLA+ specifications of the ft_irc server (the C++98 program
in `src/`), the TLC configurations that check them on small instances and proofs,
checked by TLAPS, of the results that matter for every size of instance. Paths
below are relative to the repository; `Server.cpp:120` is `src/server/Server.cpp`,
line 120.

## 1. Inventory of the system

ft_irc is one process with one thread. `main()` builds a `Server`, whose main
loop calls `poll()` and handles what is ready: new connections, data to read,
buffers to write. Lines that clients send become commands, each run to its end
by a handler that changes the server's tables and appends messages to output
buffers. What happens at the same time is outside the process (clients, the
kernel's queues, signals) or inside one loop that changes the table it walks over.

| Part | State it keeps | Operations |
|---|---|---|
| Server tables (`Server.cpp`) | `_clients` (fd -> Client), `_channels` (lower-case name -> Channel) | acceptNewClient, disconnectClient, getOrCreatChannel, getChannel, removeChannel, getClientByNickname |
| Client (`Client.cpp`) | nickname, username, password given, registered, two flags for disconnection, names of its channels, input and output buffers | setters, joinChannel, leaveChannel, markForDisconnection, buffer operations |
| Channel (`Channel.cpp`) | members and operators (`Client*`), invited nicknames, modes i t k l, topic | addMember, removeMember, addOperator, removeOperator, addInvite, removeInvite, setters, isFull |
| Session commands (`Pass`, `Nick`, `User`, `Quit`) | - | registration from three pieces in any order; change of nickname; mark for disconnection |
| Channel commands (`Join`, `Part`, `Kick`, `Invite`, `Topic`, `Mode`) | - | entry and its checks, the ways out, invitations, topic, walk over a mode string |
| Main loop (`Server::run`) | `_pollFds`: an entry per descriptor with the events asked for and reported | poll, accept, read, write, error, cleanup |
| Process (`main.cpp`) | `g_server`, signal handlers, `_running`, `_serverSocket` | validateArguments, setupSignalHandlers, init, run, stop, destructor |
| Input framing (`Server::handleClientData`) | `_inputBuffer` | lines assembled from chunks |
| Parser and utilities | - | parseCommand, lists, validity of names, toLower, atoi |
| Traffic (broadcasts, replies, PRIVMSG, NOTICE) | output buffers | sendToClient, broadcastToChannel |
| Queries and bot (WHO, NAMES, LIST, PING, BOT) | - | answer the sender only |

How the parts interact: handlers are called by the main loop with a `Client*`;
they reach other clients and channels through the server's maps; a Channel keeps
raw pointers to Clients, and a Client keeps names of Channels, so each membership
is recorded twice. `sendToClient` links handlers to the main loop: it fills a
buffer and asks for POLLOUT in `_pollFds`, the vector that the loop walks over by
index. The signal handler reaches the loop through `g_server` and `_running`.

What is hard here, and what makes each part correct:

* **Tables.** Every way out of a channel (PART, KICK, JOIN 0, disconnection) has
  to update both records of membership, the operators and the table of channels,
  under two spellings of each name. Correct: both records agree, no pointer
  outlives its client, a channel exists exactly as long as it has members,
  nicknames are unique up to case.
* **Registration.** Three commands in any order, repeated, interleaved with those
  of others; decided in two places. Correct: who is registered has given all three.
* **Channel rules.** Invitations, limits and ranks refer to each other over many
  steps; MODE is a loop with early returns. Correct: an invitation admits once, no
  JOIN exceeds a limit, nobody gains an operator's powers without one.
* **Main loop.** The loop erases entries of the vector it walks over; what poll()
  reported is used later; sends are partial. Correct: the vector lists each
  descriptor once, waiting data has POLLOUT, commands are read and replies sent.
* **Framing and parser.** A stream of bytes arrives in arbitrary pieces; lists are
  split apart and paired by index; what one handler accepts another writes into a
  line. Correct: the commands do not depend on the pieces, parameters are those of
  the grammar, a name that is accepted can be used, a message reads as it was meant.
* **Traffic.** Clients know of a channel only what they were told, in the order in
  which handlers told it, by nicknames that change. Correct: a member knows where it
  is, who is with it and who decides.
* **Process.** Signals come between any two steps; system calls fail halfway.
  Correct: the handler never meets a dead object, nothing stays open, a stop ends
  the process.

`PROJECT.json` lists every hazard at its line with the properties that cover it.

## 2. Modules

| Module | Models | State -> code |
|---|---|---|
| `IrcServer` | the tables and every handler that changes them | `live` and `clients`: `_clients` and the fields of Client; `chans` and `channels`: `_channels` and the fields of Channel; `running`: local variables of `applyModeChanges` |
| `MCIrcServer` | words and requests of the runs | |
| `IrcServerProofs` | invariants of IrcServer, proved | |
| `IrcServerStepProofs` | action properties of IrcServer, and that it implements Room, proved | |
| `PollLoop` | `Server::run` and what it calls, against clients and kernel | `pollFds`, `i`, `pc`: `_pollFds`, the loop's index and place; `outbuf`, `shouldDisconnect`, `marked`: buffer and flags of Client; `backlog`, `rx`, `tx`, `eof`, `broken`: kernel |
| `PollLoopProofs` | its safety, proved | |
| `Room` | abstract specification of channels: who is in, who leads, what the rules are | mapped to the tables at the end of `IrcServer` |
| `Framing` | one connection's bytes through `handleClientData`, the two buffers and `flushClientBuffer` | `inputBuffer`, `outputBuffer`, `shouldDisconnect`: fields of Client; `extracting`: inside the loop over lines; `sent`, `got`, `taken`, `handled`, `written`, `delivered`: histories |
| `LineReader` | abstract specification of input: lines handled one by one, in the end all | mapped to `Framing` |
| `FramingProofs` | the buffers of Framing, and its steps as steps of LineReader, proved | |
| `Parsing` | `parseCommand`, lists, validators, the relayed line of PRIVMSG and NOTICE, the port | `line`, `arg`: text being typed |
| `ParsingProofs` | what these compute for text of every length, proved | |
| `ChannelViews` | what each handler of `IrcServer` sends and what clients then know | `view`: a client's knowledge; `announced`: `appliedModes` and `modeParamsStr`; `untold`: channels in which a rank changed unheard |
| `MCChannelViews` | words, requests and bounds of its runs | |
| `ChannelViewsProofs` | what clients know, proved | |
| `Induction` | induction and recursion over the naturals, as lemmas about sets and functions | |
| `ServerLifecycle` | `main()`, init, start, stop, destruction, signals | `pc`: place in main(); `g_server`, `isRunning`, `listening`, `clients`: variables of that name; `open`: descriptors of the process |
| `ServerLifecycleProofs` | its safety, proved | |

### IrcServer

A handler runs to its end before anything else happens, so it is one action,
guards from its early returns; error branches that only send a reply change
nothing and are stutters. A `Client*` is a descriptor. MODE is the exception:
`applyModeChanges` is a loop that can return in the middle, so it is one step per
mode character (`ModeSign` ... `ModeAbort`), with `running` holding its local
variables and every other action disabled meanwhile. This is what lets a property
speak of what has happened when it returns early.

Names are abstract words. `Lower` is `Utils::toLower` (assumed idempotent, and
empty only for the empty word), `AtoI` is `Utils::stringToInt`; `NickWord` and
`ChanWord` are the words the validators accept. Parameters of commands come from
`JoinRequest`, `PartRequest` and `ModeRequest`. A JOIN or PART names a set of
channels: a channel named twice gives the same result in any order (the second
time the client is in, or out, already), and a key given later for a channel
is tried after the one before, which is what the set of pairs says. `username`
keeps only whether it is empty.

What is sent is the subject of `ChannelViews`. Left out: real name, host name, who set a topic
and when. They decide nothing.

### Room, and IrcServer as its implementation

`Room` says in a page what channels are for: known people enter and leave, who
enters an empty room leads it, and from then on leaders and rules change only by a
decision that a leader has begun. `ImplementsRoom` maps `inside` to what each
*client* records (`Client::_channels`), `leads` and `rules` to what each *channel*
records, and `deciding` to the MODE in progress: a handler that forgot one of the
two tables would take a step that no single table could take. KICK is `Leave` of
the one who is removed: `Room` does not say who may send whom away. Topics and
invitations are not part of it.

### ChannelViews

Each action is an action of `IrcServer` conjoined with the lines the handler sends,
as a function from what each client knew to what it knows after reading them.
Nothing is delivered late: a client has one connection, so it reads the lines of
all handlers in the order they were written (`Framing!OutputIntact`), and what
matters is the knowledge it arrives at. The order of a broadcast and the change it
announces decides who hears it, so `Join`, `Part` and `Kick` quantify over the members
before or after as the code does. Readers are external and follow the protocol: the
server's own grammar and its table of modes (`Parser.cpp:117-153`), nicknames
compared without case, who enters has no rank.

A mode line is built up character by character next to the walk: `Words` appends
what the code appends, `+l` puts its limit among the mode letters with a space
before it (the literal `"space"`), and `ReadModes` is what a reader makes of that, one `ReadMode` per
character. `CutMode` is the early
return, after which nothing is sent.

`AskTopic`, `AskNames` and `AskWho` are the queries that correct a member's knowledge:
NAMES replaces a list, WHO adds to it.

### Framing

`recv`, one `extractLine` per line and `endExtract` are `handleClientData`; the
client writes and closes between any of them. poll() reports the end of a stream
only behind its last byte. The answer of a command is taken to be its own bytes (as
PING answers with its token), enough to give the output buffer contents that can be
told apart. `LineReader` has neither chunks nor buffer.

### Parsing

Text is a sequence of one-character strings. The state is a line, or a port, that
somebody is typing; the invariants compare the functions translated from the code
with reference definitions. The functions go through the text from left to right, as
`getline` and `atol` do (`ReadChar`, one character; `split`, `NonEmpty`, `atol`:
recursive functions over what has been read). The reference definitions speak of
places in the finished text: a word reaches from a place where words start to the
next space (`WordStarts`, `WordAt`) and the n-th word is the one whose start has rank n
(`Words`); the n-th field stands behind n - 1 commas (`Field`); `Grammar` is the words before
the first " :" and all that follows it. `isValidNickname` is reduced to one letter, the
digits and `-`, the characters that differ in what the code does with them. The numbers of
values of a port, an int and a long are scaled down (8, 32 and 128 for 2^16, 2^32 and
2^64), so that saturation in atol and truncation in atoi and htons happen within three digits;
the proof assumes no more of them than that each fits twice into the next.

### PollLoop

One step per entry of the loop (`SkipEntry`, `AcceptEntry`, `ErrorEntry`,
`ReadEntry`, then `WriteEntry`), one for `poll()`, one for the cleanup
(`EndOfRound`). Clients and kernel act between any two of these. The entry of a
new connection is appended and met in the same round, without events. A removal
erases the entry at `i` and the loop goes on at `i + 1`, past the entry that moved
into its place, as the code does. Flags are two: `shouldDisconnect` is what
`markForDisconnection` sets, `marked` is what `cleanupDisconnectedClients` tests,
and no action sets it because no code does.

A read takes one command; it appends a message to the buffers of any set of
clients and may mark the sender. `accept()` fails when no descriptor is free, and the
connection waits on; a descriptor that cannot be made non-blocking is closed again,
and the connection is lost without an entry in any table. `recv()` fails on a broken
connection or an empty queue, which the code treats alike. `send()` takes any positive
part of the buffer that fits, or nothing (EAGAIN, although poll() reported room), after
which the code leaves buffer and POLLOUT as they are; otherwise it fails only on a
broken connection.

### ServerLifecycle

`pc` follows main() through argument checks, one `sigaction` per signal,
construction, `g_server`, `init()` with each call able to fail, `run()` split at the
test of `_running`, the entry of poll() and its return, and the way out. A signal
is one step: if its handler is set, `stop()` through `g_server`, and a poll() in
progress is interrupted; otherwise it kills the process. `_running` is a plain
`bool`; it is not volatile, but each round calls poll(), through which the compiler
must assume that it changes, so the model reads it afresh each time.

## 3. Runs

Each run uses at most a minute with two workers, `tables` and `views` a minute and a half.

| Run | Shows | Bounds, and why they are enough |
|---|---|---|
| `tables` | `NoStaleMember`, `NicksUnique`, `CredentialsBeforeRegistration`, `MembershipAgrees`, `ChannelsInhabited`, `ImplementsRoom` | three clients, nicknames `al`, `AL`, `bo`, channels `#x` (also `#X`) and `#y`, JOIN and PART of one and of both, MODE +o and -o. Three clients are a sender, a target and a bystander; more would repeat their roles |
| `modes` | `TypeOK`, `LeaderlessFrozen`, `InvitationAdmitsOnce`, `LimitRespected` | two clients, ten mode strings with parameters present, missing, negative and left over; limits of 1, so that the boundary is reached |
| `poll_safe` | `TypeOK`, `PollTableMatchesClients`, `PolloutWhenPending`, `OnlyGoneAreMarked` | two clients that quit, half-close, break and return; buffers of two messages, so that sends are partial |
| `poll_live` | `CommandsAreRead`, `BrokenAreRemoved`, `PolloutIsDropped` | two clients that break and return; queues of one. The skipped entry needs a removal in front of another client: two clients are enough |
| `poll_replies` | `RepliesAreSent` | two clients, one of which breaks; buffers of two messages and sockets with room for one, so that a send takes a part, or nothing, and the rest must follow |
| `poll_marked` | violates `MarkedAreRemoved` | as `poll_live`, nobody breaks, one client may quit or half-close |
| `framing` | `BufferIsRest`, `OutputIntact`, `ImplementsLineReader` | every stream of six bytes over CR, LF and two others, chunks of up to four: long enough for two lines and an empty one, a CRLF across two chunks, a line longer than a chunk, an end of file behind each |
| `parsing` | `ParseFollowsGrammar`, `KeysStayWithChannels`, `NamesSurvive`, `RelayedIntact`, `PortIsTheNumber` | every line of six of the characters space, comma, colon, `#`, letter, digit behind a command; every argument of three characters as a port |
| `views` | `InsideKnown`, `NoHiddenMember`, `OperatorsKnown`, `TopicTold` | three clients, three nicknames, one channel: somebody who changes, somebody who watches, and somebody who takes a nickname that was given up; five mode strings: ranks alone, among other modes, before a limit, before an error |
| `views_topic` | violates `TopicKnown` | as above, nobody quits |
| `lifecycle` | `HandlerFindsServer`, `NoDescriptorLeaks`, `StopEndsRun` | two clients, both signals at any time |
| `lifecycle_signal` | violates `SignalStopsServer` | one client |

Symmetry of the descriptors is used in the runs of `MCIrcServer` and
`MCChannelViews`, which check safety only (`ImplementsRoom` has no fairness). Bounds on counters (`MaxBacklog`, `MaxRx`, `MaxTx`, `MaxOut`) are
constants of `PollLoop` and appear in guards of the environment, except `MaxOut`:
a command reaches only clients with room in their buffer, where the code has no
limit. Deadlock is checked everywhere but in `lifecycle` and `lifecycle_signal`,
where the process ends, and `parsing`, where typing ends at the bound. `framing`
does not stop at its bound for want of a step: the client may still close, and the
server then reads the end of the stream again and again.

`MCViewSpec` restricts what goes on at once, not what may happen to a member: a
client that has connected gives PASS and USER before any other acts (nothing is
sent to or of it until then, and `tables` has every order); a client that has quit
sends nothing more, but stays a member until its connection breaks; after a
change of rank that nobody could know, connections only break until the channel is
empty. The last one makes the exception in `OperatorsKnown` as small as it can be:
it is about what happens before such a step, which is every other history.

What the properties say of the code, beyond the tables:

* `LeaderlessFrozen` compares states: once a channel has members, no operator and
  no MODE in progress, no sequence of commands starts a MODE on it, changes its modes,
  invites anyone or creates an operator until its last member has left. (A MODE in
  progress is excepted because its sender may have taken its own rank away on the way.)
* `InvitationAdmitsOnce` relates a step to what made it possible: each entry into
  an invite-only channel consumes an invitation for that nickname under any spelling.
* `OnlyGoneAreMarked` is the reason why the code may take EAGAIN for the end of a
  connection: an event that poll() reported still holds when the loop comes to it.
* `ImplementsRoom` is an action property of every handler at once: whatever a step
  does to several channels, it is one entry, one way out or one step of one MODE.
* `NoHiddenMember` and `OperatorsKnown` are about names: a client that takes the
  nickname of one that was lost, and enters, must not inherit its rank in the heads
  of those who still have it in their lists. They hold because JOIN says that somebody
  without rank came in, and because a list is never shorter than the truth: a
  disconnection tells nobody, so views may name people who are gone (nothing is
  promised about that), but never lack one who is there.
* `OperatorsKnown` excepts `untold` channels. The two cases are real: a mode string
  that fails in the middle announces nothing, and `+l` in front of its parameters makes
  the rest of the line read as something else. No line of the repository promises
  otherwise, so they are hazards, not findings.
* `BufferIsRest` has two parts that fail in different ways: no byte is lost, repeated
  or moved between chunks, and no complete line waits for the next chunk.
* `StopEndsRun` holds only because of poll()'s timeout: a signal between the test of
  `_running` and poll() interrupts nothing.

**Fairness.** `PollLoop!FairSpec` is `WF_vars(Loop)` and `ServerLifecycle!FairSpec`
is `WF_vars(main)`: the process is scheduled, and poll() returns when something is
ready (and, in the second, at its timeout). Nothing is assumed of clients: they
need not read, send or connect, and they may do so for ever. `RepliesAreSent` alone needs
more, from the kernel: EAGAIN may come any number of times, but a `send()` that
could take something again and again takes something in the end,
`SF_vars(Transmit(f))` in `FairKernelSpec`. It is strong fairness because the loop comes
to the entry of a client only now and then; poll() has reported room for the socket each time it
does. Without it the kernel may refuse for ever and the property fails. `RepliesAreSent`
promises that a reply reaches a socket or the socket is not empty, not that the peer
reads it. `Framing!FairSpec` is `WF_vars(handleClientData)`: that the loop
comes to a client with something to read is what `CommandsAreRead` shows in
`PollLoop`, and that the handler's own loop goes on is that it is code. `LineReader`
asks for weak fairness of `TakeLine`, which the run checks as part of
`ImplementsLineReader`.

**Mutants.** Each property of a passing run has a mutant in its module, an
operator whose name ends in what it breaks (`isFull_OffByOne`); with it in place of
the original TLC finds that property violated.

## 4. Where code and documents disagree

1. *Marked clients are never removed* (run `poll_marked`). `markForDisconnection()`
   sets `_shouldDisconnect`, `cleanupDisconnectedClients()` tests
   `_markedForDisconnection`, which nothing sets. QUIT, a wrong password and an end
   of file leave the client connected; after an end of file poll() returns at once
   for ever. `Server.cpp:119`: "5. Clean up clients marked for disconnection".
2. *A signal before run() is forgotten* (run `lifecycle_signal`): `run()` sets
   `_running = true` (`Server.cpp:122`) after a `stop()` may have cleared it.
   `README.md:218` promises graceful shutdown.
3. *+l leaves its parameter* to the next mode of the string (`Mode.cpp:133`), against
   the table in `Parser.cpp:221`.
4. *A topic cannot be cleared*: the parser drops an empty trailing parameter
   (`CommandHandler.cpp:114`), so the branch at `Topic.cpp:55` is never reached.
5. *A topic is announced without a colon* (run `views_topic`): `Topic.cpp:53` sends
   `TOPIC #x so long`, whose first word is the topic to a reader of the grammar, while
   RPL_TOPIC has it whole. `Topic.cpp:50`: "Notify all members about the topic change".
6. *Nicknames are not stored in lower case*: `setNickname` (`Client.cpp:32`) keeps the
   spelling and comparisons fold it. `README.md:212` says that they are stored so.
   Comparison is case-insensitive all the same (`NicksUnique`).
7. *PASS sent last does not register*: `handlePass` does not check (`Pass.cpp:19`);
   the next NICK or USER does. `User.cpp:23` states no order.

## 5. Proofs

All theorems are about the specification with arbitrary constants, from
`WordsAssumption` (properties of toLower and of the sets of words; the set of
descriptors is finite), `RequestsAssumption` and `ViewsAssumption` (types of the
parameters), `PollAssumption` (the listening socket is not a client, the set of
descriptors is finite, bounds are positive), `FramingAssumption` (the bytes of CRLF are
bytes and differ, a read takes at least one), `ParsingAssumption` (the characters that the
parser knows are among those of a line, bounds are positive, a port fits twice into an int and
an int into a long) and `LifecycleAssumption` (the listening socket is not a client).

**IrcServerProofs.** `MembershipAgrees` is not inductive: a disconnection removes
the client from the channels in its own list that are in the table, so the step
needs to know that the table holds them all; a JOIN of an absent channel adds to
whatever `channels[c]` is, so it needs absent channels to be new; and each MODE step
needs its channel to be in the table. The inductive invariant is

    Consistent == TypeOK /\ MembershipAgrees /\ NoStaleMember
                  /\ ChannelsInhabited /\ AbsentIsNew /\ WalkHasChannel

Its proof rests on lemmas on the methods (`MethodTypes`), on what `RemoveFrom` does
to each channel (`RemoveFromEffect`, the one place where channels disappear) and on
one step per handler. `TypesCorrect`, `MembershipsAgree`, `MembersExist` and
`ChannelsHaveMembers` follow. `NicknamesUnique` and `RegistrationComplete` are
inductive with `TypeOK`.

**IrcServerStepProofs.** `LeaderlessStaysFrozen`, `InvitationsAdmitOnce` and
`LimitsRespected` are action properties: each step from a consistent state has the
property (`LeaderlessStaysFrozen` also needs `NoModeStarts`: a MODE begins with an
operator of its channel). That a handler is one step of one channel is not enough for a limit: JOIN
enters several, and the cardinality of the new members is that of the old plus one,
from `FiniteSetTheorems`.

In the same module, `IrcServerImplementsRoom`: `Spec => ImplementsRoom`. `Room` has one
record of membership and the code has two, so every step needs both to agree before
and after it: `OneMembership` follows from `Consistent`. `Removal` is the one lemma
for every way out of a channel (PART, KICK, a lost connection), including the channel
that disappears and takes its rules with it; JOIN is `Enter` of all its channels at
once; a MODE is `Begin` by a leader and then one `Decide` per character, in the channel it
was sent for and no other (`ModeDecides`, from the same `ModeEffect` that keeps
`Consistent`); all else is a stutter.

**FramingProofs.** The inductive invariant is

    FramingInvariant == Types /\ BufferIsRest /\ OutputIntact

`BufferIsRest` alone would not say where the buffer lies in the stream: `Types` adds
`taken <= got <= Len(sent)`. Then the first CRLF of the buffer is the first CRLF of
the rest of the stream (`LineTaken`), whatever has arrived, so `extractLine` handles
the line that `LineReader` handles (`FramingReadsLines`; without fairness, which the
run `framing` checks).

**ServerLifecycleProofs.** `HandlerIsSafe` and `DescriptorsAreClosed` from
`LifeInvariant`, which adds where in main() a Server exists and where nothing is open.

**PollLoopProofs.** `LoopTypes`, `PollTableIsExact`, `PendingIsPolled` and
`HealthyAreNotMarked`, for any number of clients, from

    LoopInvariant == TypeOK /\ PollTableMatchesClients /\ EntriesDistinct
                     /\ GoneLeaveNothing /\ PolloutWhenPending /\ FlushIsOfClient
                     /\ ReportsHold /\ NobodyMarked /\ OnlyGoneAreMarked

The last clause is the interesting one and each of the others serves it. A client is
marked when `recv()` fails, so `OnlyGoneAreMarked` needs that an entry reported as readable
still is when the loop arrives at it: `ReportsHold`, for the entries that lie *ahead* of
the index. Erasing the entry at the index moves all those behind it, hence the
index has to be known to be in the table (`FlushIsOfClient`) and every descriptor
to have one entry (`EntriesDistinct`, which the set in `PollTableMatchesClients` does not
say). A new connection on a descriptor that was used before must not inherit a
buffer (`GoneLeaveNothing`), or `PolloutWhenPending` would fail at once. Two lemmas about
the operators carry it: what erasing an entry and what adding events do to a table.

**ChannelViewsProofs.** `ClientsKnowTheirChannels`, `NobodyListensUnseen`, `TopicsAreTold`
and `RanksAreTold`: the four invariants of `views`, of the unrestricted `ViewSpec`, for any
number of clients and channels, words, and mode strings of every length.
The lemma `ViewsKeepTables` (`ViewSpec => Spec`, which holds because each action of one is
an action of the other and more) only brings in what `IrcServerProofs` has shown of
the tables. The inductive invariant is

    ViewInvariant == ViewsTyped /\ AbsentKnowNothing /\ InsideKnown /\ NoHiddenMember
                     /\ TopicTold /\ RanksKnown /\ WalkAnnounced

TLC checked it before it was proved, on the constants of `views`, and without the restrictions of
`MCViewSpec` for two clients. Outside a MODE the argument is one lemma per handler: the
line reaches every member, because it is sent before a removal or after an entry, and it
names one nickname, which nobody else present has (`NicksUnique`, used before and after
the step, since a NICK changes the names by which the views are compared).

In a MODE the members hear nothing until its end, so `OperatorsKnown` says
nothing meanwhile. `RanksKnown` and `WalkTold` fill the gap: while no `o` has been
announced no rank has changed, and the line as built so far, *read by a member*, gives the
operators that the channel has now, with the sign of the walk and all its parameters used up.
One more character keeps this (`StepTold`) because reading goes from left to right: what is
added behind the line and behind its parameters does not change how the rest is read
(`ReadAppend`). That is a property of a recursive function and needs induction. The
induction theorems of the library take an operator, which the provers cannot supply; module
`Induction` states the same over a *set* of numbers, proved from the well-foundedness of the
naturals, and `Recursion`, by which the recursive function of `ReadModes` exists at all.
A limit, with its space, ends the argument: the channel is then in `untold`, as it is
when an error cuts the walk after an `o`.

**ParsingProofs.** All five invariants of `parsing`: `LinesAreParsed`,
`KeysGoToTheirChannels`, `NamesAreUsable`, `RelayedLinesAreIntact` and `PortsAreKept`. The only
invariant of the specification is that text is made of characters (`AlwaysTyped`); the rest is
what the functions compute, for text of every length, by induction over what has been read
with the lemmas of `Induction`. Each function of the code needs an account of the
text that is halfway read, and these are the inductive invariants here:

* `Halfway`, for a list: the token reaches from the last comma to here, and there is one
  field for each comma met. `SplitIntoFields` follows, with its exception: `getline`
  finds no field behind a comma at the end. `KeysStayWithChannels` holds *because* a missing
  last key and an empty one mean the same to `joinSingleChannel`.
* `InLine`, for words: the tokens that are not empty are the words that start before
  the last space (`HasWords`), and the token is the word begun there, if any. It gives
  `SplitIntoWords`: dropping empty tokens makes the number of spaces irrelevant. The
  command is the first *token* and not the first word, so this needs that a line starts with no
  space (`NonEmptyCons`); no line of `Command` does.
* for numbers, that `atol` is the number or has saturated (`AtolIsNumber`); a saturated one
  fails the test for the port, and one that passes is too small to lose bits.

`ParseIsGrammar` puts words and trailing parameter together. From the grammar, not
from the code, come what parameters are like (`ParamsAre`: none is empty, and the
first of several is a word that starts with no colon), and from that and `PrefixIsIgnored`
that the " :" which handlePrivmsg writes is the first one of its line
(`TwoParameters`), so the reader cuts where the server joined. The bounds `MaxLine` and
`MaxArg` occur in the guards of typing only and in no proof.

Only model-checked: liveness (`poll_live`, `poll_replies`, `StopEndsRun`, and the fairness in
`ImplementsLineReader`), which is outside the prover's reach. Every invariant and every
action property that a passing run checks is proved.

## 6. Not modelled, and the plan

Not modelled, because it changes no table and tells nobody anything about a channel
it is in: to whom PRIVMSG and NOTICE go (a broadcast to members but the sender, as
for JOIN; what they say is in `Parsing`), LIST, PING, WHO for a nickname, the bot, the
welcome lines, numeric errors and the log. `trim`, `replaceAll`, `startsWith`,
`parser::parseModeString` and the prefix helpers are called by nobody (the second to
last serves as the reader of MODE lines in `ChannelViews`). Memory exhaustion is not
modelled: no code handles it.

What remains is a composition of `PollLoop` and `IrcServer` in which a read runs a handler,
for what depends on both: a client that was removed while others still had its messages.
