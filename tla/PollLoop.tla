------------------------------ MODULE PollLoop ------------------------------
(***************************************************************************)
(* The main loop of the server (Server::run) and what it does to the table *)
(* that poll() reads, _pollFds: connections are accepted, read, written to *)
(* and removed while the loop walks over that very table by index.         *)
(*                                                                         *)
(* The server is one thread, the process.  The rest of the world, clients  *)
(* and kernel, acts between any two of its steps, so what poll() reported  *)
(* may be out of date when the loop gets to an entry.                      *)
(*                                                                         *)
(* A command is a unit of data: what it does to nicknames and channels is  *)
(* the subject of IrcServer; here it appends a message to the buffers of   *)
(* some clients and may mark its sender (QUIT, a wrong PASS).              *)
(***************************************************************************)
EXTENDS Integers, FiniteSets, Sequences, SequencesExt

CONSTANTS
    Fd,          \* descriptors accept() may return
    Listen,      \* the descriptor of the server socket
    Quitter,     \* descriptors whose clients send commands that mark them
    HalfCloser,  \* descriptors whose clients shut down their sending side
    Breaker,     \* descriptors whose connections may break
    MaxBacklog,  \* bound on connections that wait to be accepted
    MaxRx,       \* bound on commands that wait in a socket to be read
    MaxTx,       \* messages a socket takes before its peer reads them
    MaxOut       \* bound on messages in an output buffer

ASSUME PollAssumption ==
    /\ Listen \notin Fd
    /\ IsFiniteSet(Fd)
    /\ Quitter \subseteq Fd
    /\ HalfCloser \subseteq Fd
    /\ Breaker \subseteq Fd
    /\ {MaxBacklog, MaxRx, MaxTx, MaxOut} \subseteq Nat \ {0}

VARIABLES
    live,               \* the keys of _clients
    shouldDisconnect,   \* clients that markForDisconnection was called on
    marked,             \* clients with _markedForDisconnection
    outbuf,             \* messages in each client's _outputBuffer
    pollFds,            \* _pollFds
    pc,                 \* where the loop is: in poll(), at entry i, before its flush
    i,                  \* the index of the loop over _pollFds (from 1)
    backlog, rx, tx,    \* the kernel's queues of connections and of data
    eof, broken         \* connections shut down by the peer; broken ones

server == <<live, shouldDisconnect, marked, outbuf, pollFds, pc, i>>
kernel == <<backlog, rx, tx, eof, broken>>
vars == <<server, kernel>>

Event == {"in", "out", "err"}
Entry == [fd : Fd \cup {Listen}, pollout : BOOLEAN, revents : SUBSET Event]

NewEntry(f) == [fd |-> f, pollout |-> FALSE, revents |-> {}]

\* What poll() reports for an entry.  A broken connection is readable, too.
Ready(e) ==
    IF e.fd = Listen THEN {x \in {"in"} : backlog > 0}
    ELSE {x \in Event :
             \/ x = "in" /\ (rx[e.fd] > 0 \/ e.fd \in eof \cup broken)
             \/ x = "out" /\ e.pollout /\ tx[e.fd] < MaxTx
             \/ x = "err" /\ e.fd \in broken}

\* The entry of the loop, its descriptor and its events.
Here == pollFds[i]
AtEntry == pc = "entry" /\ i <= Len(pollFds)
AtClient == AtEntry /\ Here.fd # Listen

-----------------------------------------------------------------------------
(* The functions that run() calls.                                         *)

\* poll(), when something is ready.  With nothing ready it returns 0 after a
\* second, or fails with EINTR, and the loop calls it again.
poll_KeepsRevents ==
    /\ pc = "poll"
    /\ \E k \in DOMAIN pollFds : Ready(pollFds[k]) # {}
    /\ pollFds' = [k \in DOMAIN pollFds |->
                      [pollFds[k] EXCEPT !.revents = @ \cup Ready(pollFds[k])]]
    /\ pc' = "entry"
    /\ i' = 1
    /\ UNCHANGED <<live, shouldDisconnect, marked, outbuf, kernel>>

poll ==
    /\ pc = "poll"
    /\ \E k \in DOMAIN pollFds : Ready(pollFds[k]) # {}
    /\ pollFds' = [k \in DOMAIN pollFds |->
                      [pollFds[k] EXCEPT !.revents = Ready(pollFds[k])]]
    /\ pc' = "entry"
    /\ i' = 1
    /\ UNCHANGED <<live, shouldDisconnect, marked, outbuf, kernel>>

\* The objects, buffers and sockets of these clients are gone.
Forget(fs) ==
    /\ live' = live \ fs
    /\ shouldDisconnect' = shouldDisconnect \ fs
    /\ marked' = marked \ fs
    /\ outbuf' = [f \in Fd |-> IF f \in fs THEN 0 ELSE outbuf[f]]
    /\ rx' = [f \in Fd |-> IF f \in fs THEN 0 ELSE rx[f]]
    /\ tx' = [f \in Fd |-> IF f \in fs THEN 0 ELSE tx[f]]
    /\ eof' = eof \ fs
    /\ broken' = broken \ fs

\* A buffer is filled and POLLOUT is not asked for.
sendToClients_NoPollout(to) ==
    /\ outbuf' = [f \in Fd |-> IF f \in to THEN outbuf[f] + 1 ELSE outbuf[f]]
    /\ UNCHANGED pollFds

\* sendToClient for each of these clients.
sendToClients(to) ==
    /\ outbuf' = [f \in Fd |-> IF f \in to THEN outbuf[f] + 1 ELSE outbuf[f]]
    /\ pollFds' = [k \in DOMAIN pollFds |->
                      [pollFds[k] EXCEPT !.pollout = @ \/ pollFds[k].fd \in to]]

\* One recv().  It reads a command, or finds the connection shut down, broken
\* or (EAGAIN) empty, which are all the same to it.
handleClientData(f) ==
    \/ /\ rx[f] > 0
       /\ rx' = [rx EXCEPT ![f] = @ - 1]
       /\ \E to \in SUBSET {g \in live : outbuf[g] < MaxOut} : sendToClients(to)
       /\ \/ UNCHANGED shouldDisconnect
          \/ f \in Quitter /\ shouldDisconnect' = shouldDisconnect \cup {f}
       /\ UNCHANGED tx
    \/ /\ rx[f] = 0 \/ f \in broken
       /\ shouldDisconnect' = shouldDisconnect \cup {f}
       /\ UNCHANGED <<outbuf, pollFds, rx, tx>>

\* The flush that takes a partial send() for a whole one.
flushClientBuffer_DropsPollout(f) ==
    \/ /\ f \notin broken
       /\ \E sent \in 0 .. outbuf[f] :
             /\ sent <= MaxTx - tx[f]
             /\ outbuf[f] > 0 => sent > 0
             /\ outbuf' = [outbuf EXCEPT ![f] = @ - sent]
             /\ tx' = [tx EXCEPT ![f] = @ + sent]
       /\ pollFds' = [pollFds EXCEPT ![i].pollout = FALSE]
       /\ UNCHANGED <<shouldDisconnect, rx>>
    \/ /\ outbuf[f] > 0
       /\ f \notin broken
       /\ UNCHANGED <<shouldDisconnect, outbuf, pollFds, rx, tx>>
    \/ /\ f \in broken
       /\ shouldDisconnect' = shouldDisconnect \cup {f}
       /\ UNCHANGED <<outbuf, pollFds, rx, tx>>

\* The flush that never stops asking for POLLOUT.
flushClientBuffer_KeepsPollout(f) ==
    /\ \E sent \in 0 .. outbuf[f] :
          /\ sent <= MaxTx - tx[f]
          /\ outbuf' = [outbuf EXCEPT ![f] = @ - sent]
          /\ tx' = [tx EXCEPT ![f] = @ + sent]
    /\ UNCHANGED <<shouldDisconnect, rx, pollFds>>

\* One send() of the buffer, which may take only part of it, or (EAGAIN) nothing
\* for once, although poll() reported room: buffer and POLLOUT stay for the next
\* round.  With nothing to send, POLLOUT is no longer asked for.
flushClientBuffer(f) ==
    \/ /\ outbuf[f] = 0
       /\ pollFds' = [pollFds EXCEPT ![i].pollout = FALSE]
       /\ UNCHANGED <<shouldDisconnect, outbuf, rx, tx>>
    \/ /\ outbuf[f] > 0
       /\ f \notin broken
       /\ \E sent \in 1 .. outbuf[f] :
             /\ sent <= MaxTx - tx[f]
             /\ outbuf' = [outbuf EXCEPT ![f] = @ - sent]
             /\ tx' = [tx EXCEPT ![f] = @ + sent]
       /\ UNCHANGED <<shouldDisconnect, pollFds, rx>>
    \/ /\ outbuf[f] > 0
       /\ f \notin broken
       /\ UNCHANGED <<shouldDisconnect, outbuf, pollFds, rx, tx>>
    \/ /\ outbuf[f] > 0
       /\ f \in broken
       /\ shouldDisconnect' = shouldDisconnect \cup {f}
       /\ UNCHANGED <<outbuf, pollFds, rx, tx>>

-----------------------------------------------------------------------------
(* The body of the loop over _pollFds, and what follows it.                *)

NextEntry == i' = i + 1 /\ pc' = "entry"

SkipEntry ==
    /\ AtEntry
    /\ Here.revents = {}
    /\ NextEntry
    /\ UNCHANGED <<live, shouldDisconnect, marked, outbuf, pollFds, kernel>>

\* A connection is all that a round of the loop handles.
AcceptEntry_EndsRound ==
    /\ AtEntry
    /\ Here.fd = Listen
    /\ Here.revents # {}
    /\ \/ \E f \in Fd \ live :
             /\ live' = live \cup {f}
             /\ pollFds' = Append(pollFds, NewEntry(f))
             /\ backlog' = backlog - 1
       \/ /\ ~(Fd \subseteq live)
          /\ backlog' = backlog - 1
          /\ UNCHANGED <<live, pollFds>>
       \/ Fd \subseteq live /\ UNCHANGED <<live, pollFds, backlog>>
    /\ i' = Len(pollFds') + 1
    /\ UNCHANGED <<pc, shouldDisconnect, marked, outbuf, rx, tx, eof, broken>>

\* acceptNewClient.  The client's descriptor is closed again when it cannot be
\* made non-blocking; accept() fails when no descriptor is left, and the
\* connection waits on.
AcceptEntry ==
    /\ AtEntry
    /\ Here.fd = Listen
    /\ Here.revents # {}
    /\ \/ \E f \in Fd \ live :
             /\ live' = live \cup {f}
             /\ pollFds' = Append(pollFds, NewEntry(f))
             /\ backlog' = backlog - 1
       \/ /\ ~(Fd \subseteq live)
          /\ backlog' = backlog - 1
          /\ UNCHANGED <<live, pollFds>>
       \/ Fd \subseteq live /\ UNCHANGED <<live, pollFds, backlog>>
    /\ NextEntry
    /\ UNCHANGED <<shouldDisconnect, marked, outbuf, rx, tx, eof, broken>>

\* The entry of a client that is gone stays in _pollFds.
ErrorEntry_KeepsPollFd ==
    /\ AtClient
    /\ "err" \in Here.revents
    /\ Forget({Here.fd})
    /\ NextEntry
    /\ UNCHANGED <<pollFds, backlog>>

\* The client is marked, as for an end of file, and not removed.
ErrorEntry_Marks ==
    /\ AtClient
    /\ "err" \in Here.revents
    /\ shouldDisconnect' = shouldDisconnect \cup {Here.fd}
    /\ NextEntry
    /\ UNCHANGED <<live, marked, outbuf, pollFds, kernel>>

\* disconnectClient: the erase moves the entries behind one place forward, and
\* the loop goes on with the next index, past the first of them.
ErrorEntry ==
    /\ AtClient
    /\ "err" \in Here.revents
    /\ Forget({Here.fd})
    /\ pollFds' = RemoveAt(pollFds, i)
    /\ NextEntry
    /\ UNCHANGED backlog

ReadEntry ==
    /\ AtClient
    /\ "err" \notin Here.revents
    /\ "in" \in Here.revents
    /\ handleClientData(Here.fd)
    /\ IF "out" \in Here.revents THEN pc' = "flush" /\ UNCHANGED i ELSE NextEntry
    /\ UNCHANGED <<live, marked, backlog, eof, broken>>

WriteEntry ==
    /\ \/ pc = "flush"
       \/ AtClient /\ Here.revents = {"out"}
    /\ flushClientBuffer(Here.fd)
    /\ NextEntry
    /\ UNCHANGED <<live, marked, backlog, eof, broken>>

\* The table without the entries of these clients.
Without(fs) ==
    IF fs = {} THEN pollFds ELSE SelectSeq(pollFds, LAMBDA e : e.fd \notin fs)

\* cleanupDisconnectedClients.
EndOfRound ==
    /\ pc = "entry"
    /\ i > Len(pollFds)
    /\ Forget(live \cap marked)
    /\ pollFds' = Without(live \cap marked)
    /\ pc' = "poll"
    /\ i' = 1
    /\ UNCHANGED backlog

Loop ==
    \/ poll
    \/ SkipEntry
    \/ AcceptEntry
    \/ ErrorEntry
    \/ ReadEntry
    \/ WriteEntry
    \/ EndOfRound

-----------------------------------------------------------------------------
(* Clients and kernel.                                                     *)

Connect ==
    /\ backlog < MaxBacklog
    /\ backlog' = backlog + 1
    /\ UNCHANGED <<server, rx, tx, eof, broken>>

SendCommand(f) ==
    /\ f \in live \ (eof \cup broken)
    /\ rx[f] < MaxRx
    /\ rx' = [rx EXCEPT ![f] = @ + 1]
    /\ UNCHANGED <<server, backlog, tx, eof, broken>>

ReadReplies(f) ==
    /\ tx[f] > 0
    /\ tx' = [tx EXCEPT ![f] = 0]
    /\ UNCHANGED <<server, backlog, rx, eof, broken>>

HalfClose(f) ==
    /\ f \in live \ (eof \cup broken)
    /\ eof' = eof \cup {f}
    /\ UNCHANGED <<server, backlog, rx, tx, broken>>

Break(f) ==
    /\ f \in live \ broken
    /\ broken' = broken \cup {f}
    /\ UNCHANGED <<server, backlog, rx, tx, eof>>

World ==
    \/ Connect
    \/ \E f \in Fd : SendCommand(f) \/ ReadReplies(f)
    \/ \E f \in HalfCloser : HalfClose(f)
    \/ \E f \in Breaker : Break(f)

Init ==
    /\ live = {} /\ shouldDisconnect = {} /\ marked = {}
    /\ outbuf = [f \in Fd |-> 0]
    /\ pollFds = <<NewEntry(Listen)>>
    /\ pc = "poll" /\ i = 1
    /\ backlog = 0
    /\ rx = [f \in Fd |-> 0] /\ tx = [f \in Fd |-> 0]
    /\ eof = {} /\ broken = {}

Next == Loop \/ World

Spec == Init /\ [][Next]_vars

\* The process is scheduled, and poll() returns, with what is ready, when
\* anything is.  Nothing is assumed of clients.
FairSpec == Spec /\ WF_vars(Loop)

\* A send() to this client that takes something.
Transmit(f) == WriteEntry /\ tx'[f] > tx[f]

\* The kernel does not answer EAGAIN to every send() on a socket with room.
FairKernelSpec == FairSpec /\ \A f \in Fd : SF_vars(Transmit(f))

-----------------------------------------------------------------------------
(* Properties.                                                             *)

\* Types, and the server socket at the head of the table, where no erase can
\* reach it and where no client can be skipped for it.
TypeOK ==
    /\ live \subseteq Fd
    /\ shouldDisconnect \subseteq live
    /\ marked \subseteq live
    /\ outbuf \in [Fd -> 0 .. MaxOut]
    /\ pollFds \in Seq(Entry) /\ Len(pollFds) > 0 /\ pollFds[1].fd = Listen
    /\ pc \in {"poll", "entry", "flush"}
    /\ i \in 1 .. Cardinality(Fd) + 2
    /\ backlog \in 0 .. MaxBacklog
    /\ rx \in [Fd -> 0 .. MaxRx] /\ tx \in [Fd -> 0 .. MaxTx]
    /\ eof \subseteq live /\ broken \subseteq live

\* _pollFds lists the server socket and each client once, at every step of the
\* walk that adds entries to it and erases them: no descriptor is polled after
\* it was closed (and perhaps given to another client), and no client is lost.
PollTableMatchesClients ==
    /\ {pollFds[k].fd : k \in DOMAIN pollFds} = live \cup {Listen}
    /\ Len(pollFds) = Cardinality(live) + 1

\* A client with data in its output buffer is polled for POLLOUT: no reply is
\* left in the buffer with nothing to wake the loop up for it.
PolloutWhenPending ==
    \A k \in DOMAIN pollFds :
        pollFds[k].fd # Listen /\ outbuf[pollFds[k].fd] > 0 => pollFds[k].pollout

\* What poll() reported is still so when the loop gets there.  handleClientData
\* takes any recv() that fails for the end of the connection, EAGAIN included,
\* so a read without data would mark a client that is well.
OnlyGoneAreMarked ==
    shouldDisconnect \subseteq Quitter \cup eof \cup broken

\* A command that has arrived is read, although a disconnection in the same
\* round makes the loop skip an entry, and although other clients keep sending,
\* connecting and breaking off.
CommandsAreRead ==
    \A f \in Fd : rx[f] = MaxRx ~> rx[f] < MaxRx

\* A reply in an output buffer gets to the client's socket, or that is not empty,
\* however often a send() takes a part of the buffer or nothing.
RepliesAreSent ==
    \A f \in Fd : outbuf[f] > 0 ~> (tx[f] > 0 \/ outbuf[f] = 0)

\* A client whose connection is broken is removed.
BrokenAreRemoved ==
    \A f \in Fd : f \in broken ~> f \notin live

\* POLLOUT is not asked for for ever with nothing to send: poll() would return
\* at once, every time.
PolloutIsDropped ==
    \A f \in Fd :
        (f \in live /\ outbuf[f] = 0)
        ~> \/ f \notin live \/ outbuf[f] > 0 \/ tx[f] = MaxTx
           \/ \A k \in DOMAIN pollFds : pollFds[k].fd = f => ~pollFds[k].pollout

\* "5. Clean up clients marked for disconnection" (Server.cpp:119): a client
\* that has quit, or closed its end, is disconnected.
MarkedAreRemoved ==
    \A f \in Fd : f \in shouldDisconnect ~> f \notin live

=============================================================================
