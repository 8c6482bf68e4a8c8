---------------------------- MODULE FramingProofs ----------------------------
(***************************************************************************)
(* For every alphabet, every size of chunk and streams of every length:    *)
(* the buffers of Framing are what is left of the streams, and what the    *)
(* server handles is what LineReader handles.                              *)
(***************************************************************************)
EXTENDS Framing, SequenceTheorems, TLAPS

Types ==
    /\ sent \in Seq(Byte) /\ got \in 0 .. Len(sent) /\ taken \in 0 .. got
    /\ extracting \in BOOLEAN
    /\ outputBuffer \in Seq(Byte) /\ written \in Seq(Byte) /\ delivered \in Seq(Byte)

\* The inductive invariant: the buffer's place in the stream is known only as
\* long as taken and got lie in it in this order.
FramingInvariant == Types /\ BufferIsRest /\ OutputIntact

-----------------------------------------------------------------------------
(* Sequences.                                                              *)

\* A part of a part of a stream is a part of the stream.
LEMMA PartOfPart ==
    ASSUME NEW s \in Seq(Byte), NEW g \in 0 .. Len(s), NEW t \in 0 .. g,
           NEW m \in Int, NEW n \in Int, 1 <= m, n <= g - t
    PROVE  SubSeq(SubSeq(s, t + 1, g), m, n) = SubSeq(s, t + m, t + n)
<1> DEFINE part == SubSeq(s, t + 1, g)
<1>1. /\ part \in Seq(Byte)
      /\ Len(part) = g - t
      /\ \A k \in 1 .. g - t : part[k] = s[t + k]
  <2>1. \A k \in t + 1 .. g : s[k] \in Byte
    BY ElementOfSeq
  <2> QED BY <2>1, SubSeqProperties
<1>2. /\ SubSeq(part, m, n) \in Seq(Byte)
      /\ Len(SubSeq(part, m, n)) = IF m <= n THEN n - m + 1 ELSE 0
      /\ \A k \in 1 .. n - m + 1 : SubSeq(part, m, n)[k] = part[m + k - 1]
  <2>1. \A k \in m .. n : part[k] \in Byte
    BY <1>1, ElementOfSeq
  <2> HIDE DEF part
  <2> QED BY <2>1, SubSeqProperties
<1>3. /\ SubSeq(s, t + m, t + n) \in Seq(Byte)
      /\ Len(SubSeq(s, t + m, t + n)) = IF m <= n THEN n - m + 1 ELSE 0
      /\ \A k \in 1 .. n - m + 1 : SubSeq(s, t + m, t + n)[k] = s[t + m + k - 1]
  <2>1. \A k \in t + m .. t + n : s[k] \in Byte
    BY ElementOfSeq
  <2>2. /\ SubSeq(s, t + m, t + n) \in Seq(Byte)
        /\ Len(SubSeq(s, t + m, t + n)) = IF t + m <= t + n THEN t + n - (t + m) + 1 ELSE 0
        /\ \A k \in 1 .. t + n - (t + m) + 1 : SubSeq(s, t + m, t + n)[k] = s[t + m + k - 1]
    BY <2>1, SubSeqProperties
  <2> QED BY <2>2
<1>4. \A k \in 1 .. n - m + 1 : SubSeq(part, m, n)[k] = SubSeq(s, t + m, t + n)[k]
  <2> HIDE DEF part
  <2> QED BY <1>1, <1>2, <1>3
<1> HIDE DEF part
<1>5. Len(SubSeq(part, m, n)) = Len(SubSeq(s, t + m, t + n))
  BY <1>2, <1>3
<1>6. \A k \in 1 .. Len(SubSeq(part, m, n)) : SubSeq(part, m, n)[k] = SubSeq(s, t + m, t + n)[k]
  BY <1>2, <1>4
<1>7. SubSeq(part, m, n) = SubSeq(s, t + m, t + n)
  BY <1>2, <1>3, <1>5, <1>6, SeqEqual
<1> QED BY <1>7 DEF part

\* Streams that agree up to g have the same parts up to g.
LEMMA SamePart ==
    ASSUME NEW s \in Seq(Byte), NEW t \in Seq(Byte), NEW g \in 0 .. Len(s), g <= Len(t),
           NEW m \in Int, 1 <= m, \A k \in 1 .. g : t[k] = s[k]
    PROVE  SubSeq(t, m, g) = SubSeq(s, m, g)
<1> DEFINE p == SubSeq(s, m, g)
           q == SubSeq(t, m, g)
<1>1. /\ p \in Seq(Byte)
      /\ Len(p) = IF m <= g THEN g - m + 1 ELSE 0
      /\ \A k \in 1 .. g - m + 1 : p[k] = s[m + k - 1]
  <2>1. \A k \in m .. g : s[k] \in Byte
    BY ElementOfSeq
  <2> QED BY <2>1, SubSeqProperties
<1>2. /\ q \in Seq(Byte)
      /\ Len(q) = IF m <= g THEN g - m + 1 ELSE 0
      /\ \A k \in 1 .. g - m + 1 : q[k] = t[m + k - 1]
  <2>1. \A k \in m .. g : t[k] \in Byte
    BY ElementOfSeq
  <2> QED BY <2>1, SubSeqProperties
<1> HIDE DEF p, q
<1>3. Len(p) = Len(q) /\ \A k \in 1 .. Len(p) : p[k] = q[k]
  BY <1>1, <1>2
<1>4. p = q
  BY <1>1, <1>2, <1>3, SeqEqual
<1> QED BY <1>4 DEF p, q

\* What is found at k is CR and LF.
LEMMA AtCRLF ==
    ASSUME NEW s \in Seq(Byte), NEW k \in 1 .. Len(s) - 1
    PROVE  SubSeq(s, k, k + 1) = CRLF <=> s[k] = CR /\ s[k + 1] = LF
<1>1. \A j \in k .. k + 1 : s[j] \in Byte
  BY ElementOfSeq
<1>2. /\ SubSeq(s, k, k + 1) \in Seq(Byte)
      /\ Len(SubSeq(s, k, k + 1)) = 2
      /\ SubSeq(s, k, k + 1)[1] = s[k]
      /\ SubSeq(s, k, k + 1)[2] = s[k + 1]
  BY <1>1, SubSeqProperties
<1>3. ASSUME s[k] = CR, s[k + 1] = LF PROVE SubSeq(s, k, k + 1) = CRLF
  <2>1. CRLF \in Seq(Byte)
    BY <1>1, <1>3 DEF CRLF
  <2>2. /\ Len(SubSeq(s, k, k + 1)) = Len(CRLF)
        /\ \A j \in 1 .. Len(SubSeq(s, k, k + 1)) : SubSeq(s, k, k + 1)[j] = CRLF[j]
    BY <1>2, <1>3 DEF CRLF
  <2> QED BY <1>2, <2>1, <2>2, SeqEqual
<1>4. ASSUME SubSeq(s, k, k + 1) = CRLF PROVE s[k] = CR /\ s[k + 1] = LF
  <2>1. CRLF[1] = CR /\ CRLF[2] = LF
    BY DEF CRLF
  <2> QED BY <1>2, <1>4, <2>1
<1> QED BY <1>3, <1>4

-----------------------------------------------------------------------------
(* The invariant.                                                          *)

LEMMA CRLFType == CRLF \in Seq(Byte)
BY FramingAssumption DEF CRLF

LEMMA Associative ==
    ASSUME NEW r \in Seq(Byte), NEW s \in Seq(Byte), NEW t \in Seq(Byte)
    PROVE  r \o (s \o t) = (r \o s) \o t
BY ConcatAssociative

LEMMA ConcatType ==
    ASSUME NEW r \in Seq(Byte), NEW s \in Seq(Byte)
    PROVE  r \o s \in Seq(Byte)
BY ConcatProperties

\* What is sent to a client is added to both records of it at the same end.
LEMMA OutputGrows ==
    ASSUME Types, OutputIntact, NEW message \in Seq(Byte), sendToClient(message)
    PROVE  /\ outputBuffer' \in Seq(Byte) /\ written' \in Seq(Byte) /\ delivered' \in Seq(Byte)
           /\ OutputIntact'
<1> DEFINE data == message \o CRLF
<1>1. data \in Seq(Byte)
  BY CRLFType, ConcatType
<1>2. /\ outputBuffer' = outputBuffer \o data
      /\ written' = written \o data
      /\ delivered' = delivered
  BY DEF sendToClient
<1> HIDE DEF data
<1>3. delivered \o (outputBuffer \o data) = (delivered \o outputBuffer) \o data
  BY <1>1, Associative DEF Types
<1>4. outputBuffer \o data \in Seq(Byte) /\ written \o data \in Seq(Byte)
  BY <1>1, ConcatType DEF Types
<1> QED BY <1>2, <1>3, <1>4 DEF Types, OutputIntact

LEMMA InitInvariant == Init => FramingInvariant
<1> SUFFICES ASSUME Init PROVE FramingInvariant
  OBVIOUS
<1>1. Types
  <2>1. <<>> \in Seq(Byte) /\ Len(<<>>) = 0
    BY EmptySeq
  <2>2. 0 \in 0 .. Len(sent)
    BY <2>1 DEF Init
  <2> QED BY <2>1, <2>2 DEF Init, Types
<1>2. SubSeq(sent, taken + 1, got) = <<>>
  BY SubSeqEmpty DEF Init
<1>3. ~HasLine(inputBuffer)
  BY DEF Init, HasLine
<1>4. OutputIntact
  BY EmptySeq, ConcatEmptySeq DEF Init, OutputIntact
<1> QED BY <1>1, <1>2, <1>3, <1>4 DEF Init, FramingInvariant, BufferIsRest

\* recv() appends the part of the stream that follows the buffer.
LEMMA recvInvariant == FramingInvariant /\ recv => FramingInvariant'
<1> SUFFICES ASSUME FramingInvariant, recv PROVE FramingInvariant'
  OBVIOUS
<1> USE DEF FramingInvariant
<1>1. OutputIntact'
  BY DEF recv, output, OutputIntact
<1>2. ASSUME got < Len(sent),
             LET n == IF Len(sent) - got < ChunkSize THEN Len(sent) - got ELSE ChunkSize
             IN  /\ appendToInputBuffer(SubSeq(sent, got + 1, got + n))
                 /\ got' = got + n,
             extracting' = TRUE
      PROVE  FramingInvariant'
  <2> DEFINE n == IF Len(sent) - got < ChunkSize THEN Len(sent) - got ELSE ChunkSize
  <2>1. /\ inputBuffer' = inputBuffer \o SubSeq(sent, got + 1, got + n)
        /\ got' = got + n
        /\ UNCHANGED <<sent, taken, output>>
    BY <1>2 DEF recv, appendToInputBuffer
  <2>2. n \in Nat /\ got + n \in got .. Len(sent)
    BY <1>2, FramingAssumption, LenProperties DEF Types
  <2> HIDE DEF n
  <2>3. SubSeq(sent, taken + 1, got) \o SubSeq(sent, got + 1, got + n)
            = SubSeq(sent, taken + 1, got + n)
    <3>1. /\ taken + 1 \in 1 .. Len(sent) + 1
          /\ got \in taken + 1 - 1 .. Len(sent)
      BY LenProperties DEF Types
    <3> QED BY <2>2, <3>1, ConcatAdjacentSubSeq DEF Types
  <2>4. Types'
    BY <1>2, <2>1, <2>2, LenProperties DEF Types, output
  <2>5. BufferIsRest'
    BY <1>2, <2>1, <2>3 DEF BufferIsRest
  <2> QED BY <1>1, <2>4, <2>5
<1>3. CASE UNCHANGED <<sent, got, inputBuffer, extracting, taken, output>>
  BY <1>1, <1>3 DEF Types, BufferIsRest, output
<1> QED BY <1>2, <1>3 DEF recv

\* The line that extractLine takes is the next one of the stream, and what it
\* leaves is the rest.
LEMMA LineTaken ==
    ASSUME FramingInvariant, NEW pos \in 1 .. Len(inputBuffer), Finds(inputBuffer, pos)
    PROVE  /\ taken + pos \in taken + 1 .. got - 1
           /\ SubSeq(inputBuffer, 1, pos - 1) = SubSeq(sent, taken + 1, taken + pos - 1)
           /\ SubSeq(inputBuffer, pos + 2, Len(inputBuffer)) = SubSeq(sent, taken + pos + 2, got)
           /\ Lines!LineEnd(sent, taken + pos)
           /\ \A j \in taken + 1 .. taken + pos - 1 : ~Lines!LineEnd(sent, j)
<1> USE DEF FramingInvariant
<1>1. /\ sent \in Seq(Byte) /\ Len(sent) \in Nat
      /\ got \in 0 .. Len(sent) /\ taken \in 0 .. got
      /\ inputBuffer = SubSeq(sent, taken + 1, got)
  BY LenProperties DEF Types, BufferIsRest
<1>2. /\ inputBuffer \in Seq(Byte)
      /\ Len(inputBuffer) = got - taken
      /\ \A k \in 1 .. got - taken : inputBuffer[k] = sent[taken + k]
  <2>1. \A k \in taken + 1 .. got : sent[k] \in Byte
    BY <1>1, ElementOfSeq
  <2>2. /\ SubSeq(sent, taken + 1, got) \in Seq(Byte)
        /\ Len(SubSeq(sent, taken + 1, got)) = IF taken + 1 <= got THEN got - (taken + 1) + 1 ELSE 0
        /\ \A k \in 1 .. got - (taken + 1) + 1 :
              SubSeq(sent, taken + 1, got)[k] = sent[taken + 1 + k - 1]
    BY <1>1, <2>1, SubSeqProperties
  <2> QED BY <1>1, <2>2
<1>3. pos \in 1 .. got - taken - 1
  BY <1>1, <1>2 DEF Finds
<1>4. SubSeq(inputBuffer, 1, pos - 1) = SubSeq(sent, taken + 1, taken + pos - 1)
  <2>1. SubSeq(SubSeq(sent, taken + 1, got), 1, pos - 1) = SubSeq(sent, taken + 1, taken + (pos - 1))
    BY <1>1, <1>3, PartOfPart
  <2> QED BY <1>1, <1>3, <2>1
<1>5. SubSeq(inputBuffer, pos + 2, Len(inputBuffer)) = SubSeq(sent, taken + pos + 2, got)
  <2>1. SubSeq(SubSeq(sent, taken + 1, got), pos + 2, got - taken)
            = SubSeq(sent, taken + (pos + 2), taken + (got - taken))
    BY <1>1, <1>3, PartOfPart
  <2> QED BY <1>1, <1>2, <1>3, <2>1
<1>6. \A k \in 1 .. Len(inputBuffer) - 1 :
          SubSeq(inputBuffer, k, k + 1) = CRLF <=> Lines!LineEnd(sent, taken + k)
  <2> SUFFICES ASSUME NEW k \in 1 .. Len(inputBuffer) - 1
               PROVE  SubSeq(inputBuffer, k, k + 1) = CRLF <=> Lines!LineEnd(sent, taken + k)
    OBVIOUS
  <2>1. SubSeq(inputBuffer, k, k + 1) = CRLF <=> inputBuffer[k] = CR /\ inputBuffer[k + 1] = LF
    BY <1>2, AtCRLF
  <2>2. inputBuffer[k] = sent[taken + k] /\ inputBuffer[k + 1] = sent[taken + k + 1]
    BY <1>1, <1>2
  <2> QED BY <2>1, <2>2 DEF Lines!LineEnd
<1>7. Lines!LineEnd(sent, taken + pos)
  BY <1>1, <1>2, <1>3, <1>6 DEF Finds
<1>8. ASSUME NEW j \in taken + 1 .. taken + pos - 1
      PROVE  ~Lines!LineEnd(sent, j)
  <2>1. j - taken \in 1 .. pos - 1 /\ j - taken \in 1 .. Len(inputBuffer) - 1
    BY <1>1, <1>2, <1>3
  <2>2. SubSeq(inputBuffer, j - taken, j - taken + 1) # CRLF
    BY <2>1 DEF Finds
  <2>3. ~Lines!LineEnd(sent, taken + (j - taken))
    BY <1>6, <2>1, <2>2
  <2> QED BY <1>1, <2>3
<1> QED BY <1>1, <1>3, <1>4, <1>5, <1>7, <1>8

LEMMA extractLineInvariant == FramingInvariant /\ extractLine => FramingInvariant'
<1> SUFFICES ASSUME FramingInvariant, extractLine PROVE FramingInvariant'
  OBVIOUS
<1>1. PICK pos \in 1 .. Len(inputBuffer) :
          /\ Finds(inputBuffer, pos)
          /\ inputBuffer' = SubSeq(inputBuffer, pos + 2, Len(inputBuffer))
          /\ taken' = taken + pos + 1
          /\ IF pos = 1 THEN UNCHANGED <<handled, output>>
                        ELSE processCommand(SubSeq(inputBuffer, 1, pos - 1))
  BY DEF extractLine
<1>2. UNCHANGED <<sent, got, extracting>> /\ extracting
  BY DEF extractLine
<1>3. /\ taken + pos \in taken + 1 .. got - 1
      /\ SubSeq(inputBuffer, 1, pos - 1) = SubSeq(sent, taken + 1, taken + pos - 1)
      /\ inputBuffer' = SubSeq(sent, taken + pos + 2, got)
  BY <1>1, LineTaken
<1>4. Len(sent) \in Nat /\ got \in 0 .. Len(sent) /\ taken \in 0 .. got /\ sent \in Seq(Byte)
  BY LenProperties DEF FramingInvariant, Types
<1>5. BufferIsRest'
  <2>1. taken' + 1 = taken + pos + 2
    BY <1>1, <1>4
  <2> QED BY <1>2, <1>3, <2>1 DEF BufferIsRest
<1>6. /\ outputBuffer' \in Seq(Byte) /\ written' \in Seq(Byte) /\ delivered' \in Seq(Byte)
      /\ OutputIntact'
  <2>1. CASE pos = 1
    BY <1>1, <2>1 DEF FramingInvariant, Types, OutputIntact, output
  <2>2. CASE pos # 1
    <3>1. sendToClient(SubSeq(inputBuffer, 1, pos - 1))
      BY <1>1, <2>2 DEF processCommand
    <3>2. SubSeq(sent, taken + 1, taken + pos - 1) \in Seq(Byte)
      <4>1. \A k \in taken + 1 .. taken + pos - 1 : sent[k] \in Byte
        BY <1>3, <1>4, ElementOfSeq
      <4>2. taken + 1 \in Int /\ taken + pos - 1 \in Int
        BY <1>3, <1>4
      <4> QED BY <4>1, <4>2, SubSeqProperties
    <3> QED BY <1>3, <3>1, <3>2, OutputGrows DEF FramingInvariant
  <2> QED BY <2>1, <2>2
<1>7. Types'
  BY <1>1, <1>2, <1>3, <1>4, <1>6 DEF FramingInvariant, Types
<1> QED BY <1>5, <1>6, <1>7 DEF FramingInvariant

\* send() takes the front of the buffer, which goes to the end of what is delivered.
LEMMA flushInvariant == FramingInvariant /\ flushClientBuffer => FramingInvariant'
<1> SUFFICES ASSUME FramingInvariant, flushClientBuffer PROVE FramingInvariant'
  OBVIOUS
<1>1. PICK bytes \in 1 .. Len(outputBuffer) :
          /\ delivered' = delivered \o SubSeq(outputBuffer, 1, bytes)
          /\ outputBuffer' = SubSeq(outputBuffer, bytes + 1, Len(outputBuffer))
  BY DEF flushClientBuffer, trimOutputBuffer
<1>2. /\ outputBuffer \in Seq(Byte) /\ delivered \in Seq(Byte) /\ written \in Seq(Byte)
      /\ Len(outputBuffer) \in Nat
  BY LenProperties DEF FramingInvariant, Types
<1> DEFINE front == SubSeq(outputBuffer, 1, bytes)
           rest == SubSeq(outputBuffer, bytes + 1, Len(outputBuffer))
<1>3. front \in Seq(Byte) /\ rest \in Seq(Byte)
  <2>1. \A k \in 1 .. Len(outputBuffer) : outputBuffer[k] \in Byte
    BY <1>2, ElementOfSeq
  <2>2. front \in Seq(Byte)
    BY <1>2, <2>1, SubSeqProperties
  <2>3. rest \in Seq(Byte)
    BY <1>2, <2>1, SubSeqProperties
  <2> QED BY <2>2, <2>3
<1>4. front \o rest = outputBuffer
  <2>1. front \o rest = SubSeq(outputBuffer, 1, Len(outputBuffer))
    BY <1>2, ConcatAdjacentSubSeq
  <2> QED BY <1>2, <2>1, SubSeqFull
<1> HIDE DEF front, rest
<1>5. /\ delivered \o (front \o rest) = (delivered \o front) \o rest
      /\ delivered \o front \in Seq(Byte)
  BY <1>2, <1>3, Associative, ConcatType
<1>6. delivered' = delivered \o front /\ outputBuffer' = rest
  BY <1>1 DEF front, rest
<1>7. UNCHANGED <<input, written>>
  BY DEF flushClientBuffer
<1>8. OutputIntact'
  BY <1>4, <1>5, <1>6, <1>7 DEF FramingInvariant, OutputIntact
<1>9. Types' /\ BufferIsRest'
  BY <1>2, <1>3, <1>5, <1>6, <1>7 DEF FramingInvariant, Types, BufferIsRest, input
<1> QED BY <1>8, <1>9 DEF FramingInvariant

LEMMA WriteInvariant == FramingInvariant /\ Write => FramingInvariant'
<1> SUFFICES ASSUME FramingInvariant, Write PROVE FramingInvariant'
  OBVIOUS
<1>1. PICK b \in Byte : sent' = Append(sent, b)
  BY DEF Write
<1>2. UNCHANGED <<got, inputBuffer, extracting, taken, output>>
  BY DEF Write
<1>3. sent \in Seq(Byte) /\ Len(sent) \in Nat /\ got \in 0 .. Len(sent) /\ taken \in 0 .. got
  BY LenProperties DEF FramingInvariant, Types
<1>4. /\ sent' \in Seq(Byte) /\ Len(sent') = Len(sent) + 1
      /\ \A k \in 1 .. Len(sent) : sent'[k] = sent[k]
  BY <1>1, <1>3, AppendProperties
<1>5. SubSeq(sent', taken + 1, got) = SubSeq(sent, taken + 1, got)
  <2>1. /\ got \in 0 .. Len(sent) /\ got <= Len(sent') /\ taken + 1 \in Int /\ 1 <= taken + 1
        /\ \A k \in 1 .. got : sent'[k] = sent[k]
    BY <1>3, <1>4
  <2> QED BY <1>3, <1>4, <2>1, SamePart
<1>6. BufferIsRest'
  BY <1>2, <1>5 DEF FramingInvariant, BufferIsRest
<1>7. Types' /\ OutputIntact'
  BY <1>2, <1>3, <1>4 DEF FramingInvariant, Types, OutputIntact, output
<1> QED BY <1>6, <1>7 DEF FramingInvariant

LEMMA FramingStep == FramingInvariant /\ [Next]_vars => FramingInvariant'
<1> SUFFICES ASSUME FramingInvariant, [Next]_vars PROVE FramingInvariant'
  OBVIOUS
<1>1. CASE recv
  BY <1>1, recvInvariant
<1>2. CASE extractLine
  BY <1>2, extractLineInvariant
<1>3. CASE endExtract
  BY <1>3 DEF endExtract, output, FramingInvariant, Types, BufferIsRest, OutputIntact
<1>4. CASE flushClientBuffer
  BY <1>4, flushInvariant
<1>5. CASE Write
  BY <1>5, WriteInvariant
<1>6. CASE Close
  BY <1>6 DEF Close, output, FramingInvariant, Types, BufferIsRest, OutputIntact
<1>7. CASE UNCHANGED vars
  BY <1>7 DEF vars, input, output, FramingInvariant, Types, BufferIsRest, OutputIntact
<1> QED BY <1>1, <1>2, <1>3, <1>4, <1>5, <1>6, <1>7 DEF Next, handleClientData

LEMMA FramingInvariance == Spec => []FramingInvariant
BY InitInvariant, FramingStep, PTL DEF Spec

-----------------------------------------------------------------------------
(* The theorems.                                                           *)

\* For chunks of any size and streams of any length: the input buffer is the
\* part of the stream behind the last line taken, and no complete line waits in
\* it once handleClientData has returned.
THEOREM BufferHoldsRest == Spec => []BufferIsRest
<1>1. FramingInvariant => BufferIsRest
  BY DEF FramingInvariant
<1> QED BY <1>1, FramingInvariance, PTL

\* Whatever parts send() takes, nothing of what was written to a client is lost
\* or repeated.
THEOREM OutputStaysIntact == Spec => []OutputIntact
<1>1. FramingInvariant => OutputIntact
  BY DEF FramingInvariant
<1> QED BY <1>1, FramingInvariance, PTL

\* A line taken from the buffer is the next line of the stream.
LEMMA ExtractTakesLine == FramingInvariant /\ extractLine => Lines!TakeLine
<1> SUFFICES ASSUME FramingInvariant, extractLine PROVE Lines!TakeLine
  OBVIOUS
<1>1. PICK pos \in 1 .. Len(inputBuffer) :
          /\ Finds(inputBuffer, pos)
          /\ taken' = taken + pos + 1
          /\ IF pos = 1 THEN UNCHANGED <<handled, output>>
                        ELSE processCommand(SubSeq(inputBuffer, 1, pos - 1))
  BY DEF extractLine
<1>2. /\ taken + pos \in taken + 1 .. got - 1
      /\ SubSeq(inputBuffer, 1, pos - 1) = SubSeq(sent, taken + 1, taken + pos - 1)
      /\ Lines!LineEnd(sent, taken + pos)
      /\ \A j \in taken + 1 .. taken + pos - 1 : ~Lines!LineEnd(sent, j)
  BY <1>1, LineTaken
<1>3. Len(sent) \in Nat /\ got \in 0 .. Len(sent) /\ taken \in 0 .. got
  BY LenProperties DEF FramingInvariant, Types
<1> DEFINE k == taken + pos
<1>4. k \in taken + 1 .. Len(sent) - 1
  BY <1>2, <1>3
<1>5. taken' = k + 1 /\ taken + pos - 1 = k - 1
  BY <1>1, <1>3
<1>6. handled' = IF k = taken + 1 THEN handled ELSE Append(handled, SubSeq(sent, taken + 1, k - 1))
  <2>1. pos = 1 <=> k = taken + 1
    BY <1>3
  <2>2. CASE pos = 1
    BY <1>1, <2>1, <2>2
  <2>3. CASE pos # 1
    <3>1. handled' = Append(handled, SubSeq(inputBuffer, 1, pos - 1))
      BY <1>1, <2>3 DEF processCommand
    <3> QED BY <1>2, <1>5, <2>1, <2>3, <3>1
  <2> QED BY <2>2, <2>3
<1>7. UNCHANGED sent
  BY DEF extractLine
<1>8. Lines!LineEnd(sent, k) /\ \A j \in taken + 1 .. k - 1 : ~Lines!LineEnd(sent, j)
  BY <1>2, <1>5
<1> HIDE DEF k
<1> QED BY <1>4, <1>5, <1>6, <1>7, <1>8 DEF Lines!TakeLine

\* But for liveness, Framing implements LineReader: each step of the server is
\* the handling of the next line of the stream or cannot be seen, for every way
\* to cut the stream into chunks.
THEOREM FramingReadsLines == Spec => Lines!Init /\ [][Lines!Next]_(Lines!streamVars)
<1>1. Init => Lines!Init
  BY DEF Init, Lines!Init
<1>2. FramingInvariant /\ [Next]_vars => [Lines!Next]_(Lines!streamVars)
  <2> SUFFICES ASSUME FramingInvariant, [Next]_vars
               PROVE  Lines!Next \/ UNCHANGED <<sent, taken, handled>>
    BY DEF Lines!streamVars
  <2>1. CASE recv
    BY <2>1 DEF recv
  <2>2. CASE extractLine
    BY <2>2, ExtractTakesLine DEF Lines!Next
  <2>3. CASE endExtract
    BY <2>3 DEF endExtract
  <2>4. CASE flushClientBuffer
    BY <2>4 DEF flushClientBuffer, input
  <2>5. CASE Write
    BY <2>5 DEF Write, Lines!Next, Lines!Write
  <2>6. CASE Close
    BY <2>6 DEF Close
  <2>7. CASE UNCHANGED vars
    BY <2>7 DEF vars, input
  <2> QED BY <2>1, <2>2, <2>3, <2>4, <2>5, <2>6, <2>7 DEF Next, handleClientData
<1> QED BY <1>1, <1>2, FramingInvariance, PTL DEF Spec

=============================================================================
