------------------------------- MODULE Framing -------------------------------
(***************************************************************************)
(* One connection as two streams of bytes.  Server::handleClientData       *)
(* appends what one recv() returns to the input buffer of the client and   *)
(* takes the lines out that are complete; Server::flushClientBuffer hands  *)
(* the output buffer to send(), which may take a part of it.               *)
(*                                                                         *)
(* The loop that takes lines out is one step per line: `extracting` says   *)
(* that handleClientData has not returned.  The client may write meanwhile.*)
(* A command is answered by its own bytes, as PING is with its token.      *)
(***************************************************************************)
EXTENDS Integers, Sequences

CONSTANTS
    Byte, CR, LF,
    ChunkSize,      \* BUFFER_SIZE - 1: what one recv() takes at most
    MaxBytes        \* bound on the bytes a client writes

ASSUME FramingAssumption ==
    /\ CR \in Byte /\ LF \in Byte /\ CR # LF
    /\ ChunkSize \in Nat \ {0}
    /\ MaxBytes \in Nat

VARIABLES
    sent,               \* all bytes the client has written to its socket
    closed,             \* it has shut down its sending side
    got,                \* how many of them recv() has returned
    inputBuffer,        \* Client::_inputBuffer
    extracting,         \* handleClientData is in its loop
    taken,              \* how many bytes the loop has erased from the buffer
    handled,            \* the commands given to processCommand
    shouldDisconnect,
    outputBuffer,       \* Client::_outputBuffer
    written,            \* all bytes appended to it
    delivered           \* all bytes that send() has accepted

input == <<sent, closed, got, inputBuffer, extracting, taken, handled, shouldDisconnect>>
output == <<outputBuffer, written, delivered>>
vars == <<input, output>>

CRLF == <<CR, LF>>

\* string::find(CRLF) is p: the first place where CR LF stands.
Finds(s, p) ==
    /\ p \in 1 .. Len(s) - 1
    /\ SubSeq(s, p, p + 1) = CRLF
    /\ \A k \in 1 .. p - 1 : SubSeq(s, k, k + 1) # CRLF

HasLine(s) == \E p \in 1 .. Len(s) : Finds(s, p)

-----------------------------------------------------------------------------
(* handleClientData.                                                       *)

\* The new chunk replaces what was left of the one before.
appendToInputBuffer_Replaces(data) == inputBuffer' = data

appendToInputBuffer(data) == inputBuffer' = inputBuffer \o data

\* poll() reports data, or the end of the stream, which recv() returns last.
recv ==
    /\ ~extracting
    /\ \/ /\ got < Len(sent)
          /\ LET n == IF Len(sent) - got < ChunkSize THEN Len(sent) - got ELSE ChunkSize
             IN  /\ appendToInputBuffer(SubSeq(sent, got + 1, got + n))
                 /\ got' = got + n
          /\ extracting' = TRUE
          /\ UNCHANGED shouldDisconnect
       \/ /\ got = Len(sent) /\ closed
          /\ shouldDisconnect' = TRUE
          /\ UNCHANGED <<got, inputBuffer, extracting>>
    /\ UNCHANGED <<sent, closed, taken, handled, output>>

\* sendToClient adds the end of the line.
sendToClient(message) ==
    LET data == message \o CRLF
    IN  /\ outputBuffer' = outputBuffer \o data
        /\ written' = written \o data
        /\ UNCHANGED delivered

\* The command is answered by its own bytes.
processCommand(command) ==
    /\ handled' = Append(handled, command)
    /\ sendToClient(command)

\* One line is all that is taken from a chunk.
extractLine_Once ==
    /\ extracting
    /\ \E pos \in 1 .. Len(inputBuffer) :
          /\ Finds(inputBuffer, pos)
          /\ inputBuffer' = SubSeq(inputBuffer, pos + 2, Len(inputBuffer))
          /\ taken' = taken + pos + 1
          /\ IF pos = 1 THEN UNCHANGED <<handled, output>>
                        ELSE processCommand(SubSeq(inputBuffer, 1, pos - 1))
    /\ extracting' = FALSE
    /\ UNCHANGED <<sent, closed, got, shouldDisconnect>>

\* The body of the loop; empty lines are ignored.
extractLine ==
    /\ extracting
    /\ \E pos \in 1 .. Len(inputBuffer) :
          /\ Finds(inputBuffer, pos)
          /\ inputBuffer' = SubSeq(inputBuffer, pos + 2, Len(inputBuffer))
          /\ taken' = taken + pos + 1
          /\ IF pos = 1 THEN UNCHANGED <<handled, output>>
                        ELSE processCommand(SubSeq(inputBuffer, 1, pos - 1))
    /\ UNCHANGED <<sent, closed, got, extracting, shouldDisconnect>>

\* No CRLF is left: the loop ends and handleClientData returns.
endExtract ==
    /\ extracting
    /\ ~HasLine(inputBuffer)
    /\ extracting' = FALSE
    /\ UNCHANGED <<sent, closed, got, inputBuffer, taken, handled, shouldDisconnect, output>>

-----------------------------------------------------------------------------
(* flushClientBuffer.                                                      *)

\* The buffer is cleared, whatever part of it was sent.
trimOutputBuffer_Clears(bytes) == outputBuffer' = <<>>

trimOutputBuffer(bytes) ==
    outputBuffer' = SubSeq(outputBuffer, bytes + 1, Len(outputBuffer))

flushClientBuffer ==
    /\ ~extracting
    /\ \E bytes \in 1 .. Len(outputBuffer) :
          /\ delivered' = delivered \o SubSeq(outputBuffer, 1, bytes)
          /\ trimOutputBuffer(bytes)
    /\ UNCHANGED <<input, written>>

-----------------------------------------------------------------------------
(* The client.                                                             *)

Write ==
    /\ ~closed
    /\ Len(sent) < MaxBytes
    /\ \E b \in Byte : sent' = Append(sent, b)
    /\ UNCHANGED <<closed, got, inputBuffer, extracting, taken, handled, shouldDisconnect, output>>

Close ==
    /\ ~closed
    /\ closed' = TRUE
    /\ UNCHANGED <<sent, got, inputBuffer, extracting, taken, handled, shouldDisconnect, output>>

Init ==
    /\ sent = <<>> /\ closed = FALSE /\ got = 0
    /\ inputBuffer = <<>> /\ extracting = FALSE /\ taken = 0 /\ handled = <<>>
    /\ shouldDisconnect = FALSE
    /\ outputBuffer = <<>> /\ written = <<>> /\ delivered = <<>>

handleClientData == recv \/ extractLine \/ endExtract

Next == handleClientData \/ flushClientBuffer \/ Write \/ Close

Spec == Init /\ [][Next]_vars

\* The loop of the server comes to a client that has sent something, and its
\* handler ends (PollLoop!CommandsAreRead).  Clients need not write or read.
FairSpec == Spec /\ WF_vars(handleClientData)

-----------------------------------------------------------------------------
(* Properties.                                                             *)

\* However a client's bytes are cut into chunks, the input buffer is the part
\* of its stream after the last line taken, nothing lost, repeated or out of
\* order; and when handleClientData has returned no complete line is left in it,
\* which the next command would have to wait for.
BufferIsRest ==
    /\ inputBuffer = SubSeq(sent, taken + 1, got)
    /\ ~extracting => ~HasLine(inputBuffer)

\* What the client has been sent, followed by what waits in the output buffer,
\* is what was written to it, whatever parts send() took.
OutputIntact == delivered \o outputBuffer = written

\* The server handles the lines of the stream, each complete one in the end,
\* although it sees chunks: a CR at the end of one and LF at the head of the
\* next, several lines in one, lines longer than one, an end of file behind a line.
Lines == INSTANCE LineReader WITH stream <- sent
ImplementsLineReader == Lines!Spec

=============================================================================
