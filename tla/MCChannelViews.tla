--------------------------- MODULE MCChannelViews ---------------------------
(* Instances of ChannelViews for TLC.                                      *)
EXTENDS ChannelViews, MCIrcServer

ViewLower == MCLower @@ ("so long" :> "so long") @@ ("so" :> "so")
ViewWord == DOMAIN ViewLower \ {""}
ViewAtoI == [w \in ViewWord |-> IF w \in MCWord THEN MCAtoI[w] ELSE 0]

\* A topic of two words is announced without a colon.
ViewTold == [t \in TopicWord |-> IF t = "so long" THEN "so" ELSE t]

ViewsJoin == {{<<"#x", "">>}}
ViewsPart == {{"#x"}}

\* Ranks given and taken alone, with other modes before and behind them, before
\* a limit, and before a mode that fails.
ViewsMode == {<<<<"o">>, <<"bo">>>>, <<<<"-", "t", "o">>, <<"al">>>>,
              <<<<"+", "k", "o", "-", "k">>, <<"k1", "bo">>>>,
              <<<<"o", "l", "-", "l">>, <<"bo", "1">>>>, <<<<"o", "x", "k">>, <<"bo">>>>}

\* Bounds on what goes on at once.  Nothing is sent to, or of, a client that is
\* not registered, so one that has connected completes PASS and USER before any
\* other acts (run members has them in every order); a client that has quit sends
\* nothing more, but stays until its connection breaks; and after a change of rank
\* that nobody could know connections only break, until the channel is empty.
Settled(f) ==
    \A g \in live \ {f} : clients[g].passwordProvided /\ clients[g].username

MCViewNext ==
    \/ \E f \in Fd : Settled(f) /\ (Session(f) \/ (~HasQuit(f) /\ untold = {} /\ Command(f)))
    \/ \E w \in running : ModeStep(w) \/ CutMode(w)

MCViewSpec == ViewInit /\ [][MCViewNext]_viewVars

=============================================================================
