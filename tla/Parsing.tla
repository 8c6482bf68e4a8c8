------------------------------- MODULE Parsing -------------------------------
(***************************************************************************)
(* Text: how a line becomes a command with parameters, a list of channels, *)
(* keys and names, how a message is relayed as a line again, and how the   *)
(* port is read from the command line.  A character is a string of one; a  *)
(* string of the program is a sequence of them.  `a` stands for every      *)
(* character that is a letter to isValidNickname, digits for themselves.   *)
(*                                                                         *)
(* The state is text that somebody is typing, so that each property is     *)
(* checked for every text up to a bound.                                   *)
(***************************************************************************)
EXTENDS Integers, Sequences, FiniteSets, FiniteSetsExt

CONSTANTS
    Char,        \* characters of a line
    MaxLine,     \* bound on the length of a line
    MaxArg,      \* bound on the length of the first argument of main()
    MaxNick, MaxChannel,            \* MAX_NICK_LENGTH, MAX_CHANNEL_LENGTH
    PortSize, IntSize, LongSize     \* values of a port, an int and a long, scaled
                                    \* down: 2^16, 2^32 and 2^64

Space == " "
Comma == ","

Numeral == <<"0", "1", "2", "3", "4", "5", "6", "7", "8", "9">>
Digit == {Numeral[n] : n \in 1 .. 10}
DigitValue == [d \in Digit |-> CHOOSE v \in 0 .. 9 : Numeral[v + 1] = d]

ASSUME ParsingAssumption ==
    /\ {Space, Comma, ":", "#", "a"} \subseteq Char
    /\ {MaxLine, MaxArg, MaxNick, MaxChannel} \subseteq Nat \ {0}
    /\ {PortSize, IntSize, LongSize} \subseteq Nat
    /\ 1 < PortSize /\ 2 * PortSize <= IntSize /\ 2 * IntSize <= LongSize

VARIABLES
    line,    \* what a client writes after a command and a space
    arg      \* what somebody writes as the port

vars == <<line, arg>>

-----------------------------------------------------------------------------
(* Strings.                                                                *)

\* string::find: the first place of pat in s, 0 if there is none.
Find(s, pat) ==
    LET at == {k \in 1 .. Len(s) - Len(pat) + 1 : SubSeq(s, k, k + Len(pat) - 1) = pat}
    IN  IF at = {} THEN 0 ELSE Min(at)

From(s, k) == SubSeq(s, k, Len(s))

\* push_back() unless there is nothing to push.
AppendNonEmpty(ss, s) == IF s = <<>> THEN ss ELSE Append(ss, s)

NonEmpty(ss) ==
    LET kept[n \in 0 .. Len(ss)] ==
            IF n = 0 THEN <<>> ELSE AppendNonEmpty(kept[n - 1], ss[n])
    IN  kept[Len(ss)]

\* A delimiter ends the token, any other character is added to it.
ReadChar(read, c, d) ==
    IF c = d THEN [tokens |-> Append(read.tokens, read.token), token |-> <<>>]
    ELSE [read EXCEPT !.token = Append(@, c)]

\* getline() until it fails: it finds nothing behind a delimiter at the end.
split(s, d) ==
    LET read[n \in 0 .. Len(s)] ==
            IF n = 0 THEN [tokens |-> <<>>, token |-> <<>>] ELSE ReadChar(read[n - 1], s[n], d)
        end == read[Len(s)]
    IN  AppendNonEmpty(end.tokens, end.token)

\* atol() of digits saturates; atoi() keeps the low bits of that.
Saturate(v) == IF v < LongSize \div 2 THEN v ELSE LongSize \div 2 - 1

atol(s) ==
    LET value[n \in 0 .. Len(s)] ==
            IF n = 0 THEN 0 ELSE Saturate(10 * value[n - 1] + DigitValue[s[n]])
    IN  value[Len(s)]

atoi(s) == LET low == atol(s) % IntSize
           IN  IF low < IntSize \div 2 THEN low ELSE low - IntSize

-----------------------------------------------------------------------------
(* Commands.                                                               *)

\* The line behind its prefix.
stripPrefix(raw) ==
    LET space == Find(raw, <<Space>>)
    IN  IF raw = <<>> \/ raw[1] # ":" THEN raw
        ELSE IF space = 0 THEN <<>> ELSE From(raw, space + 1)

\* Two spaces between parameters make an empty one.
parseCommand_KeepsEmpty(raw) ==
    LET rest == stripPrefix(raw)
        colon == Find(rest, <<Space, ":">>)
        parts == split(IF colon = 0 THEN rest ELSE SubSeq(rest, 1, colon - 1), Space)
        trailing == IF colon = 0 THEN <<>> ELSE From(rest, colon + 2)
    IN  [command |-> IF parts = <<>> THEN <<>> ELSE Head(parts),
         params |-> AppendNonEmpty(IF parts = <<>> THEN <<>> ELSE Tail(parts), trailing)]

parseCommand(raw) ==
    LET rest == stripPrefix(raw)
        colon == Find(rest, <<Space, ":">>)
        parts == split(IF colon = 0 THEN rest ELSE SubSeq(rest, 1, colon - 1), Space)
        trailing == IF colon = 0 THEN <<>> ELSE From(rest, colon + 2)
    IN  [command |-> IF parts = <<>> THEN <<>> ELSE Head(parts),
         params |-> AppendNonEmpty(NonEmpty(IF parts = <<>> THEN <<>> ELSE Tail(parts)), trailing)]

\* A key left out in the middle of the list is left out of the result.
parseKeyList_SkipsEmpty(keyList) == NonEmpty(split(keyList, Comma))

parseKeyList(keyList) == split(keyList, Comma)

parseChannelList(channelList) == split(channelList, Comma)

\* The channels that handleJoin asks joinSingleChannel for, each with its key.
handleJoin(params) ==
    LET channels == parseChannelList(params[1])
        keys == IF Len(params) > 1 THEN parseKeyList(params[2]) ELSE <<>>
    IN  [k \in DOMAIN channels |->
            <<channels[k], IF k \in DOMAIN keys THEN keys[k] ELSE <<>> >>]

\* A comma may be part of a name.
isValidChannelName_AllowsComma(name) ==
    /\ Len(name) \in 1 .. MaxChannel
    /\ name[1] \in {"#", "&", "+", "!"}
    /\ \A k \in 2 .. Len(name) : name[k] # Space

isValidChannelName(name) ==
    /\ Len(name) \in 1 .. MaxChannel
    /\ name[1] \in {"#", "&", "+", "!"}
    /\ \A k \in 2 .. Len(name) : name[k] \notin {Space, Comma}

isValidNickname(nickname) ==
    /\ Len(nickname) \in 1 .. MaxNick
    /\ nickname[1] = "a"
    /\ \A k \in 2 .. Len(nickname) : nickname[k] \in {"a", "-"} \cup Digit

\* handlePrivmsg takes the target for a channel.
IsChannelTarget(target) == target[1] \in {"#", "&", "+", "!"}

Prefix == <<":", "a", "!", "a", "@", "a", Space>>

\* The text is relayed as it is, as TOPIC relays a topic.
handlePrivmsg_NoColon(params) ==
    Prefix \o <<"a", Space>> \o params[1] \o <<Space>> \o params[2]

\* The line that handlePrivmsg and handleNotice send to a target.
handlePrivmsg(params) ==
    Prefix \o <<"a", Space>> \o params[1] \o <<Space, ":">> \o params[2]

-----------------------------------------------------------------------------
(* The port.                                                               *)

\* The same conversion for the test as for the use.
validateArguments_Atoi(s) ==
    /\ \A k \in DOMAIN s : s[k] \in Digit
    /\ atoi(s) >= 1 /\ atoi(s) < PortSize

validateArguments(s) ==
    /\ \A k \in DOMAIN s : s[k] \in Digit
    /\ atol(s) >= 1 /\ atol(s) < PortSize

\* The port that bind() is given: htons() of the int that main() passes on.
BoundPort(s) == atoi(s) % PortSize

-----------------------------------------------------------------------------
TypeLine ==
    /\ arg = <<>>
    /\ Len(line) < MaxLine
    /\ \E c \in Char : line' = Append(line, c)
    /\ UNCHANGED arg

TypeArg ==
    /\ line = <<>>
    /\ Len(arg) < MaxArg
    /\ \E c \in Digit \cup {"a"} : arg' = Append(arg, c)
    /\ UNCHANGED line

Init == line = <<>> /\ arg = <<>>

Next == TypeLine \/ TypeArg

Spec == Init /\ [][Next]_vars

-----------------------------------------------------------------------------
(* Properties.                                                             *)

Places(s, c) == {k \in DOMAIN s : s[k] = c}

\* The words of s: its longest parts without a space, in order.
WordStarts(s) == {k \in DOMAIN s : s[k] # Space /\ (k = 1 \/ s[k - 1] = Space)}
WordAt(s, k) ==
    SubSeq(s, k, Min({j \in k .. Len(s) + 1 : j = Len(s) + 1 \/ s[j] = Space}) - 1)
Rank(S, k) == Cardinality({j \in S : j <= k})

Words(s) ==
    LET starts == WordStarts(s)
    IN  [n \in 1 .. Cardinality(starts) |->
            WordAt(s, CHOOSE k \in starts : Rank(starts, k) = n)]

\* The n-th field of a list: what stands between two commas or its ends, hence
\* behind n - 1 commas and no more.
Field(s, n) ==
    LET behind == {k \in 1 .. Len(s) + 1 : Rank(Places(s, Comma), k - 1) = n - 1}
    IN  SubSeq(s, Min(behind), Max(behind) - 1)

Fields(s) == Cardinality(Places(s, Comma)) + 1

\* Where a colon follows a space.
Colons(s) == {k \in 2 .. Len(s) : s[k - 1] = Space /\ s[k] = ":"}

\* What the grammar of the protocol makes of s: words, and behind the first " :"
\* one parameter with all it contains.  (An empty one is dropped.)
Grammar(s) ==
    LET colon == Min(Colons(s))
    IN  IF Colons(s) = {} THEN Words(s)
        ELSE AppendNonEmpty(Words(SubSeq(s, 1, colon - 2)), From(s, colon + 1))

Command(text) == <<"a", Space>> \o text
Said == parseCommand(Command(line))

\* A line is read by the grammar of the protocol, whatever the number of spaces:
\* its words are the command and the parameters, and what follows the first " :"
\* is one parameter.  With a prefix before it, it is read in the same way.
ParseFollowsGrammar ==
    /\ <<Said.command>> \o Said.params = Grammar(Command(line))
    /\ parseCommand(Prefix \o Command(line)) = Said

\* Each channel of a JOIN gets the key in the same place of the other list,
\* with fields left out on either side: no key is tried on a channel it was not
\* given for (Join.cpp:33 pairs two lists that are split apart from each other).
KeysStayWithChannels ==
    LET p == Said.params
        requests == handleJoin(p)
        key(n) == IF Len(p) > 1 /\ n <= Fields(p[2]) THEN Field(p[2], n) ELSE <<>>
    IN  p # <<>> =>
            /\ Len(requests) = Fields(p[1]) - (IF p[1][Len(p[1])] = Comma THEN 1 ELSE 0)
            /\ \A n \in DOMAIN requests : requests[n] = <<Field(p[1], n), key(n)>>

\* A name that is accepted can be used: given as a parameter, in a list, behind
\* a prefix, it is read as itself; a nickname is never taken for a channel, nor
\* the other way round; and a key without a comma opens what it locks.
NamesSurvive ==
    /\ isValidChannelName(line) \/ isValidNickname(line) =>
          /\ Said.params = <<line>>
          /\ parseChannelList(line \o <<Comma>> \o line) = <<line, line>>
          /\ IsChannelTarget(line) <=> isValidChannelName(line)
    /\ line # <<>> /\ Places(line, Comma) = {} =>
          handleJoin(parseCommand(Command(<<"#", Space, ":">> \o line)).params) = <<<<<<"#">>, line>>>>

\* A message is read by its receiver as its sender meant it: the relayed line,
\* parsed again, has the same target and the same text, spaces, colons and all.
RelayedIntact ==
    Len(Said.params) >= 2 =>
        parseCommand(handlePrivmsg(Said.params)).params = SubSeq(Said.params, 1, 2)

\* The number that the digits of the argument say.
Number(s) ==
    LET number[n \in 0 .. Len(s)] == IF n = 0 THEN 0 ELSE 10 * number[n - 1] + DigitValue[s[n]]
    IN  number[Len(s)]

\* A port that is accepted is the port the server listens on: the test converts
\* with atol(), main() with atoi() and bind() takes the low bits, and no number
\* passes the test and changes on the way.
PortIsTheNumber ==
    validateArguments(arg) => Number(arg) > 0 /\ BoundPort(arg) = Number(arg)

=============================================================================
