---------------------------- MODULE MCIrcServer ----------------------------
(* Instances of IrcServer for TLC: the words, their lower-case forms and    *)
(* the requests that the clients of each run send.                          *)
EXTENDS IrcServer, TLC

CONSTANTS c1, c2, c3

Clients3 == Permutations({c1, c2, c3})
Clients2 == Permutations({c1, c2})

\* tolower and atoi on the words of the runs.
MCLower == [w \in {"", "al", "bo", "cy", "#x", "#y", "k1", "k2", "hi", "yo", "1", "-1"} |-> w]
           @@ ("AL" :> "al") @@ ("BO" :> "bo") @@ ("#X" :> "#x") @@ ("#Y" :> "#y")
MCWord == DOMAIN MCLower \ {""}
MCAtoI == [w \in MCWord |-> IF w = "1" THEN 1 ELSE IF w = "-1" THEN -1 ELSE 0]

\* Run tables: channels in two spellings, alone and in lists, entered and left;
\* operators that promote others and themselves step down.
TablesJoin == {{<<"#x", "">>}, {<<"#X", "">>, <<"#y", "">>}}
TablesPart == {{"#X"}, {"#x", "#y"}}
TablesMode == {<<<<"o">>, <<"al">>>>, <<<<"-", "o">>, <<"BO">>>>}

\* Run modes: keys, limits, invitations and topics, several to a string, with
\* parameters that are missing or are left over by the mode before.
ModesJoin == {{<<"#x", "">>}, {<<"#x", "k2">>, <<"#X", "k1">>}}
ModesPart == {{"#x"}}
ModesMode == {<<<<"i">>, <<>>>>, <<<<"t", "-", "i">>, <<>>>>,
              <<<<"k">>, <<"k1">>>>, <<<<"-", "k">>, <<>>>>,
              <<<<"l", "k">>, <<"1">>>>, <<<<"l">>, <<"-1">>>>, <<<<"i", "-", "l", "k">>, <<>>>>,
              <<<<"-", "o", "t", "x", "i">>, <<"AL">>>>, <<<<"o">>, <<"bo">>>>, <<<<"l", "o">>, <<>>>>}

=============================================================================
