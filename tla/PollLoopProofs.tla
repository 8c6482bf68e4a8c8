--------------------------- MODULE PollLoopProofs ---------------------------
(***************************************************************************)
(* For any number of clients and queues of any bounds: what the table that *)
(* poll() reads, the buffers and the marks have to do with each other at   *)
(* every step of the walk over that table.                                 *)
(***************************************************************************)
EXTENDS PollLoop, SequenceTheorems, FiniteSetTheorems, TLAPS

\* No descriptor has two entries.
EntriesDistinct ==
    \A j, k \in DOMAIN pollFds : pollFds[j].fd = pollFds[k].fd => j = k

\* A descriptor that accept() may return again has left nothing behind.
GoneLeaveNothing == \A f \in Fd \ live : outbuf[f] = 0 /\ rx[f] = 0 /\ tx[f] = 0

\* A second event of an entry is handled for the client of the first.
FlushIsOfClient ==
    pc = "flush" => i \in DOMAIN pollFds /\ pollFds[i].fd # Listen

\* The entries that the round has still to handle.
Ahead(k) == (pc = "entry" /\ k >= i) \/ (pc = "flush" /\ k > i)

\* What poll() reported is still so.
StillReady(e) ==
    IF e.fd = Listen THEN e.revents # {} => backlog > 0
    ELSE "in" \in e.revents => rx[e.fd] > 0 \/ e.fd \in eof \cup broken

ReportsHold == \A k \in DOMAIN pollFds : Ahead(k) => StillReady(pollFds[k])

\* Nothing sets _markedForDisconnection.
NobodyMarked == marked = {}

LoopInvariant ==
    /\ TypeOK
    /\ PollTableMatchesClients
    /\ EntriesDistinct
    /\ GoneLeaveNothing
    /\ PolloutWhenPending
    /\ FlushIsOfClient
    /\ ReportsHold
    /\ NobodyMarked
    /\ OnlyGoneAreMarked

-----------------------------------------------------------------------------
(* Sequences.                                                              *)

\* A function on the first n numbers is a sequence.
LEMMA FunctionIsSeq ==
    ASSUME NEW S, NEW n \in Nat, NEW s \in [1 .. n -> S]
    PROVE  s \in Seq(S) /\ Len(s) = n /\ DOMAIN s = 1 .. n
<1>1. s \in Seq(S)
  BY SeqDef
<1>2. Len(s) \in Nat /\ 1 .. Len(s) = 1 .. n
  BY <1>1, LenProperties
<1> QED BY <1>1, <1>2

\* What an erase leaves: the elements before it where they were, those behind it
\* one place forward.
LEMMA Erased ==
    ASSUME NEW S, NEW s \in Seq(S), NEW n \in 1 .. Len(s)
    PROVE  /\ RemoveAt(s, n) \in Seq(S)
           /\ Len(RemoveAt(s, n)) = Len(s) - 1
           /\ \A k \in 1 .. Len(s) - 1 :
                  RemoveAt(s, n)[k] = IF k < n THEN s[k] ELSE s[k + 1]
<1> DEFINE before == SubSeq(s, 1, n - 1)
           behind == SubSeq(s, n + 1, Len(s))
<1>1. Len(s) \in Nat /\ \A k \in 1 .. Len(s) : s[k] \in S
  BY LenProperties, ElementOfSeq
<1>2. /\ before \in Seq(S) /\ Len(before) = n - 1
      /\ \A k \in 1 .. n - 1 : before[k] = s[k]
  <2>1. \A k \in 1 .. n - 1 : s[k] \in S
    BY <1>1
  <2>2. /\ before \in Seq(S)
        /\ Len(before) = IF 1 <= n - 1 THEN n - 1 - 1 + 1 ELSE 0
        /\ \A k \in 1 .. n - 1 - 1 + 1 : before[k] = s[1 + k - 1]
    BY <1>1, <2>1, SubSeqProperties
  <2> QED BY <1>1, <2>2
<1>3. /\ behind \in Seq(S) /\ Len(behind) = Len(s) - n
      /\ \A k \in 1 .. Len(s) - n : behind[k] = s[n + k]
  <2>1. \A k \in n + 1 .. Len(s) : s[k] \in S
    BY <1>1
  <2>2. /\ behind \in Seq(S)
        /\ Len(behind) = IF n + 1 <= Len(s) THEN Len(s) - (n + 1) + 1 ELSE 0
        /\ \A k \in 1 .. Len(s) - (n + 1) + 1 : behind[k] = s[n + 1 + k - 1]
    BY <1>1, <2>1, SubSeqProperties
  <2> QED BY <1>1, <2>2
<1>4. RemoveAt(s, n) = before \o behind
  BY DEF RemoveAt
<1> HIDE DEF before, behind
<1>5. /\ before \o behind \in Seq(S)
      /\ Len(before \o behind) = Len(before) + Len(behind)
      /\ \A k \in 1 .. Len(before) + Len(behind) :
             (before \o behind)[k] = IF k <= Len(before) THEN before[k]
                                     ELSE behind[k - Len(before)]
  <2>1. before \in Seq(S) /\ behind \in Seq(S)
    BY <1>2, <1>3
  <2> QED BY <2>1, ConcatProperties
<1> QED BY <1>1, <1>2, <1>3, <1>4, <1>5

-----------------------------------------------------------------------------
(* The table.                                                              *)

LEMMA Bounds == /\ MaxBacklog \in Nat /\ MaxRx \in Nat /\ MaxTx \in Nat /\ MaxOut \in Nat
                /\ MaxBacklog > 0 /\ MaxRx > 0 /\ MaxTx > 0 /\ MaxOut > 0
BY PollAssumption

\* What the invariant says of an entry.
LEMMA Table ==
    ASSUME LoopInvariant
    PROVE  /\ DOMAIN pollFds = 1 .. Len(pollFds) /\ Len(pollFds) \in Nat
           /\ \A k \in DOMAIN pollFds : /\ pollFds[k] \in Entry
                                        /\ pollFds[k].fd # Listen => pollFds[k].fd \in live
           /\ \A f \in live : \E k \in DOMAIN pollFds : pollFds[k].fd = f
           /\ IsFiniteSet(live) /\ Cardinality(live) \in Nat
           /\ Cardinality(Fd) \in Nat /\ Len(pollFds) <= Cardinality(Fd) + 1
           /\ i \in Nat /\ i >= 1
<1>1. /\ pollFds \in Seq(Entry) /\ live \subseteq Fd
      /\ {pollFds[k].fd : k \in DOMAIN pollFds} = live \cup {Listen}
      /\ i \in 1 .. Cardinality(Fd) + 2
  BY DEF LoopInvariant, TypeOK, PollTableMatchesClients
<1>2. /\ IsFiniteSet(live) /\ Cardinality(live) \in Nat
      /\ Cardinality(Fd) \in Nat /\ Cardinality(live) <= Cardinality(Fd)
  BY <1>1, PollAssumption, FS_Subset, FS_CardinalityType
<1>3. /\ DOMAIN pollFds = 1 .. Len(pollFds) /\ Len(pollFds) \in Nat
      /\ \A k \in DOMAIN pollFds : pollFds[k] \in Entry
  BY <1>1, LenProperties, ElementOfSeq
<1>4. \A k \in DOMAIN pollFds : pollFds[k].fd \in live \cup {Listen}
  BY <1>1
<1>5. \A f \in live : \E k \in DOMAIN pollFds : pollFds[k].fd = f
  BY <1>1
<1>6. Len(pollFds) = Cardinality(live) + 1
  BY DEF LoopInvariant, PollTableMatchesClients
<1> QED BY <1>1, <1>2, <1>3, <1>4, <1>5, <1>6

\* Steps that change no descriptor of the table.
LEMMA SameDescriptors ==
    ASSUME LoopInvariant, live' = live,
           NEW new \in [DOMAIN pollFds -> Entry], pollFds' = new,
           \A k \in DOMAIN pollFds : new[k].fd = pollFds[k].fd
    PROVE  /\ pollFds' \in Seq(Entry) /\ Len(pollFds') = Len(pollFds)
           /\ DOMAIN pollFds' = DOMAIN pollFds
           /\ pollFds'[1].fd = Listen /\ Len(pollFds') > 0
           /\ PollTableMatchesClients' /\ EntriesDistinct'
<1>1. DOMAIN pollFds = 1 .. Len(pollFds) /\ Len(pollFds) \in Nat
  BY Table
<1>2. pollFds' \in Seq(Entry) /\ Len(pollFds') = Len(pollFds) /\ DOMAIN pollFds' = DOMAIN pollFds
  BY <1>1, FunctionIsSeq
<1>3. /\ Len(pollFds) > 0 /\ pollFds[1].fd = Listen
      /\ PollTableMatchesClients /\ EntriesDistinct
  BY DEF LoopInvariant, TypeOK
<1>4. {pollFds'[k].fd : k \in DOMAIN pollFds'} = {pollFds[k].fd : k \in DOMAIN pollFds}
  BY <1>2
<1> QED BY <1>1, <1>2, <1>3, <1>4 DEF PollTableMatchesClients, EntriesDistinct

LEMMA InitInvariant == Init => LoopInvariant
<1> SUFFICES ASSUME Init PROVE LoopInvariant
  OBVIOUS
<1>1. /\ pollFds = <<NewEntry(Listen)>> /\ pollFds \in Seq(Entry)
      /\ Len(pollFds) = 1 /\ DOMAIN pollFds = {1} /\ pollFds[1] = NewEntry(Listen)
  BY DEF Init, NewEntry, Entry, Event
<1>2. Cardinality(live) = 0 /\ Cardinality(Fd) \in Nat
  BY FS_EmptySet, FS_CardinalityType, PollAssumption DEF Init
<1>3. TypeOK
  BY <1>1, <1>2, PollAssumption DEF Init, TypeOK, NewEntry
<1>4. PollTableMatchesClients
  BY <1>1, <1>2 DEF Init, PollTableMatchesClients, NewEntry
<1> QED
  BY <1>1, <1>3, <1>4
     DEF Init, LoopInvariant, EntriesDistinct, GoneLeaveNothing, PolloutWhenPending,
         FlushIsOfClient, ReportsHold, Ahead, NobodyMarked, OnlyGoneAreMarked, NewEntry

-----------------------------------------------------------------------------
(* The steps of the loop.                                                  *)

LEMMA PollStep == LoopInvariant /\ poll => LoopInvariant'
<1> SUFFICES ASSUME LoopInvariant, poll PROVE LoopInvariant'
  OBVIOUS
<1> DEFINE new == [k \in DOMAIN pollFds |->
                      [pollFds[k] EXCEPT !.revents = Ready(pollFds[k])]]
<1>1. /\ pollFds' = new /\ pc' = "entry" /\ i' = 1
      /\ UNCHANGED <<live, shouldDisconnect, marked, outbuf, kernel>>
  BY DEF poll
<1>2. \A k \in DOMAIN pollFds :
          /\ new[k] \in Entry
          /\ new[k].fd = pollFds[k].fd /\ new[k].pollout = pollFds[k].pollout
          /\ new[k].revents = Ready(pollFds[k])
  BY Table DEF Entry, Ready, Event
<1>3. new \in [DOMAIN pollFds -> Entry]
  BY <1>2
<1>4. /\ pollFds' \in Seq(Entry) /\ Len(pollFds') = Len(pollFds)
      /\ DOMAIN pollFds' = DOMAIN pollFds
      /\ pollFds'[1].fd = Listen /\ Len(pollFds') > 0
      /\ PollTableMatchesClients' /\ EntriesDistinct'
  <2> HIDE DEF new
  <2> QED BY <1>1, <1>2, <1>3, SameDescriptors
<1>5. /\ i' \in 1 .. Cardinality(Fd) + 2
      /\ backlog' = backlog /\ rx' = rx /\ eof' = eof /\ broken' = broken
  BY <1>1, Table DEF kernel
<1>6. TypeOK'
  BY <1>1, <1>4, <1>5 DEF LoopInvariant, TypeOK, kernel
<1>7. PolloutWhenPending'
  BY <1>1, <1>2, <1>4 DEF LoopInvariant, PolloutWhenPending
<1>8. ReportsHold'
  <2> SUFFICES ASSUME NEW k \in DOMAIN pollFds' PROVE StillReady(pollFds[k])'
    BY DEF ReportsHold
  <2>1. pollFds'[k].fd = pollFds[k].fd /\ pollFds'[k].revents = Ready(pollFds[k])
    BY <1>1, <1>2, <1>4
  <2> QED BY <1>5, <2>1 DEF StillReady, Ready
<1> QED
  BY <1>1, <1>4, <1>5, <1>6, <1>7, <1>8
     DEF LoopInvariant, GoneLeaveNothing, FlushIsOfClient, NobodyMarked, OnlyGoneAreMarked, kernel

LEMMA SkipStep == LoopInvariant /\ SkipEntry => LoopInvariant'
<1> SUFFICES ASSUME LoopInvariant, SkipEntry PROVE LoopInvariant'
  OBVIOUS
<1>1. /\ pc = "entry" /\ pc' = "entry" /\ i <= Len(pollFds) /\ i' = i + 1
      /\ UNCHANGED <<live, shouldDisconnect, marked, outbuf, pollFds>>
      /\ UNCHANGED <<backlog, rx, tx, eof, broken>>
  BY DEF SkipEntry, AtEntry, NextEntry, kernel
<1>2. i' \in 1 .. Cardinality(Fd) + 2
  BY <1>1, Table DEF LoopInvariant, PollTableMatchesClients
<1>3. TypeOK'
  BY <1>1, <1>2 DEF LoopInvariant, TypeOK
<1>4. ReportsHold'
  BY <1>1, Table DEF LoopInvariant, ReportsHold, Ahead, StillReady
<1> QED
  BY <1>1, <1>3, <1>4
     DEF LoopInvariant, PollTableMatchesClients, EntriesDistinct, GoneLeaveNothing,
         PolloutWhenPending, FlushIsOfClient, NobodyMarked, OnlyGoneAreMarked

\* A connection is reported at the head of the table only, and the backlog has
\* not shrunk since.
LEMMA AcceptStep == LoopInvariant /\ AcceptEntry => LoopInvariant'
<1> SUFFICES ASSUME LoopInvariant, AcceptEntry PROVE LoopInvariant'
  OBVIOUS
<1>1. /\ pc = "entry" /\ pc' = "entry" /\ i <= Len(pollFds) /\ i' = i + 1
      /\ pollFds[i].fd = Listen /\ pollFds[i].revents # {}
      /\ UNCHANGED <<shouldDisconnect, marked, outbuf, rx, tx, eof, broken>>
  BY DEF AcceptEntry, AtEntry, NextEntry, Here
<1>2. i \in DOMAIN pollFds /\ i' \in 1 .. Cardinality(Fd) + 2
  BY <1>1, Table DEF LoopInvariant, PollTableMatchesClients
<1>3. backlog - 1 \in 0 .. MaxBacklog
  <2>1. backlog > 0
    BY <1>1, <1>2, Table DEF LoopInvariant, ReportsHold, Ahead, StillReady
  <2> QED BY <2>1, Bounds DEF LoopInvariant, TypeOK
<1>4. CASE UNCHANGED <<live, pollFds, backlog>>
  <2>1. TypeOK'
    BY <1>1, <1>2, <1>4 DEF LoopInvariant, TypeOK
  <2>2. ReportsHold'
    BY <1>1, <1>4, Table DEF LoopInvariant, ReportsHold, Ahead, StillReady
  <2> QED
    BY <1>1, <1>4, <2>1, <2>2
       DEF LoopInvariant, PollTableMatchesClients, EntriesDistinct, GoneLeaveNothing,
           PolloutWhenPending, FlushIsOfClient, NobodyMarked, OnlyGoneAreMarked
<1>5. CASE backlog' = backlog - 1 /\ UNCHANGED <<live, pollFds>>
  <2>1. TypeOK'
    BY <1>1, <1>2, <1>3, <1>5 DEF LoopInvariant, TypeOK
  <2>2. ReportsHold'
    <3> SUFFICES ASSUME NEW k \in DOMAIN pollFds, k > i PROVE StillReady(pollFds[k])'
      BY <1>1, <1>2, <1>5, Table DEF ReportsHold, Ahead
    <3>1. pollFds[k].fd # Listen /\ StillReady(pollFds[k])
      BY <1>1, <1>2, Table DEF LoopInvariant, EntriesDistinct, ReportsHold, Ahead
    <3> QED BY <1>1, <1>5, <3>1 DEF StillReady
  <2> QED
    BY <1>1, <1>5, <2>1, <2>2
       DEF LoopInvariant, PollTableMatchesClients, EntriesDistinct, GoneLeaveNothing,
           PolloutWhenPending, FlushIsOfClient, NobodyMarked, OnlyGoneAreMarked
<1>6. CASE \E f \in Fd \ live : /\ live' = live \cup {f}
                                /\ pollFds' = Append(pollFds, NewEntry(f))
                                /\ backlog' = backlog - 1
  <2>1. PICK f \in Fd \ live : /\ live' = live \cup {f}
                               /\ pollFds' = Append(pollFds, NewEntry(f))
                               /\ backlog' = backlog - 1
    BY <1>6
  <2>2. NewEntry(f) \in Entry /\ pollFds \in Seq(Entry) /\ Len(pollFds) \in Nat
    BY Table DEF NewEntry, Entry, Event, LoopInvariant, TypeOK
  <2>3. /\ pollFds' \in Seq(Entry) /\ Len(pollFds') = Len(pollFds) + 1
        /\ DOMAIN pollFds' = 1 .. Len(pollFds) + 1
        /\ \A k \in 1 .. Len(pollFds) : pollFds'[k] = pollFds[k]
        /\ pollFds'[Len(pollFds) + 1] = NewEntry(f)
    BY <2>1, <2>2, AppendProperties, LenProperties
  <2>4. /\ NewEntry(f).fd = f /\ NewEntry(f).revents = {} /\ f # Listen
        /\ outbuf[f] = 0
    BY PollAssumption DEF NewEntry, LoopInvariant, GoneLeaveNothing
  <2>5. Cardinality(live') = Cardinality(live) + 1
    BY <2>1, Table, FS_AddElement
  <2>6. PollTableMatchesClients'
    <3>1. {pollFds'[k].fd : k \in DOMAIN pollFds'}
              = {pollFds[k].fd : k \in DOMAIN pollFds} \cup {f}
      BY <2>3, <2>4, Table
    <3> QED
      BY <2>1, <2>3, <2>5, <3>1, Table DEF LoopInvariant, PollTableMatchesClients
  <2>7. EntriesDistinct'
    <3>1. \A k \in DOMAIN pollFds : pollFds[k].fd # f
      BY <2>4, Table
    <3> QED
      BY <2>3, <2>4, <3>1, Table DEF LoopInvariant, EntriesDistinct
  <2>8. TypeOK'
    <3>1. /\ live' \subseteq Fd
          /\ shouldDisconnect' \subseteq live' /\ marked' \subseteq live'
          /\ eof' \subseteq live' /\ broken' \subseteq live'
      BY <1>1, <2>1 DEF LoopInvariant, TypeOK
    <3>2. Len(pollFds') > 0 /\ pollFds'[1].fd = Listen
      <4>1. 1 \in 1 .. Len(pollFds) /\ pollFds[1].fd = Listen
        BY <2>2 DEF LoopInvariant, TypeOK
      <4> QED BY <2>2, <2>3, <4>1
    <3> QED BY <1>1, <1>2, <1>3, <2>1, <2>3, <3>1, <3>2 DEF LoopInvariant, TypeOK
  <2>9. PolloutWhenPending'
    BY <1>1, <2>3, <2>4, Table DEF LoopInvariant, PolloutWhenPending
  <2>10. ReportsHold'
    <3> SUFFICES ASSUME NEW k \in DOMAIN pollFds', k > i PROVE StillReady(pollFds[k])'
      BY <1>1, <1>2, <2>3 DEF ReportsHold, Ahead
    <3>1. CASE k = Len(pollFds) + 1
      BY <2>3, <2>4, <3>1 DEF StillReady
    <3>2. CASE k \in DOMAIN pollFds
      <4>1. pollFds[k].fd # Listen /\ StillReady(pollFds[k]) /\ pollFds'[k] = pollFds[k]
        BY <1>1, <1>2, <2>3, <3>2, Table
           DEF LoopInvariant, EntriesDistinct, ReportsHold, Ahead
      <4> QED BY <1>1, <4>1 DEF StillReady
    <3> QED BY <2>3, <3>1, <3>2, Table
  <2> QED
    BY <1>1, <2>1, <2>6, <2>7, <2>8, <2>9, <2>10
       DEF LoopInvariant, GoneLeaveNothing, FlushIsOfClient, NobodyMarked, OnlyGoneAreMarked
<1> QED BY <1>4, <1>5, <1>6 DEF AcceptEntry

\* disconnectClient, in the middle of the walk.
LEMMA ErrorStep == LoopInvariant /\ ErrorEntry => LoopInvariant'
<1> SUFFICES ASSUME LoopInvariant, ErrorEntry PROVE LoopInvariant'
  OBVIOUS
<1> DEFINE f == pollFds[i].fd
<1>1. /\ pc = "entry" /\ pc' = "entry" /\ i <= Len(pollFds) /\ i' = i + 1
      /\ f # Listen
      /\ pollFds' = RemoveAt(pollFds, i) /\ backlog' = backlog
      /\ live' = live \ {f} /\ shouldDisconnect' = shouldDisconnect \ {f}
      /\ marked' = marked \ {f} /\ eof' = eof \ {f} /\ broken' = broken \ {f}
      /\ outbuf' = [g \in Fd |-> IF g \in {f} THEN 0 ELSE outbuf[g]]
      /\ rx' = [g \in Fd |-> IF g \in {f} THEN 0 ELSE rx[g]]
      /\ tx' = [g \in Fd |-> IF g \in {f} THEN 0 ELSE tx[g]]
  BY DEF ErrorEntry, AtClient, AtEntry, NextEntry, Here, Forget
<1>2. /\ i \in 1 .. Len(pollFds) /\ DOMAIN pollFds = 1 .. Len(pollFds) /\ Len(pollFds) \in Nat
      /\ i' \in 1 .. Cardinality(Fd) + 2
      /\ pollFds \in Seq(Entry)
  BY <1>1, Table DEF LoopInvariant, PollTableMatchesClients, TypeOK
<1>3. f \in live /\ f \in Fd
  BY <1>1, <1>2, Table DEF LoopInvariant, TypeOK
<1> HIDE DEF f
<1>4. /\ pollFds' \in Seq(Entry) /\ Len(pollFds') = Len(pollFds) - 1
      /\ DOMAIN pollFds' = 1 .. Len(pollFds) - 1
      /\ \A k \in 1 .. Len(pollFds) - 1 :
             pollFds'[k] = IF k < i THEN pollFds[k] ELSE pollFds[k + 1]
  BY <1>1, <1>2, Erased, LenProperties
<1>5. i > 1 /\ Len(pollFds) > 1 /\ pollFds'[1].fd = Listen
  <2>1. pollFds[1].fd = Listen
    BY DEF LoopInvariant, TypeOK
  <2>2. i > 1
    BY <1>1, <1>2, <2>1 DEF f
  <2>3. 1 \in 1 .. Len(pollFds) - 1
    BY <1>2, <2>2
  <2> QED BY <1>2, <1>4, <2>1, <2>2, <2>3
<1>6. \A k \in DOMAIN pollFds : k # i => pollFds[k].fd # f
  BY <1>2 DEF f, LoopInvariant, EntriesDistinct
<1>7. \A k \in DOMAIN pollFds' : \E j \in DOMAIN pollFds : j # i /\ pollFds'[k] = pollFds[j]
  <2> SUFFICES ASSUME NEW k \in DOMAIN pollFds'
               PROVE  \E j \in DOMAIN pollFds : j # i /\ pollFds'[k] = pollFds[j]
    OBVIOUS
  <2>1. CASE k < i
    BY <1>2, <1>4, <2>1
  <2>2. CASE ~(k < i)
    <3>1. k + 1 \in DOMAIN pollFds /\ k + 1 # i /\ pollFds'[k] = pollFds[k + 1]
      BY <1>2, <1>4, <2>2
    <3> QED BY <3>1
  <2> QED BY <2>1, <2>2
<1>8. Cardinality(live') = Cardinality(live) - 1
  BY <1>1, <1>3, Table, FS_RemoveElement
<1>9. PollTableMatchesClients'
  <2>1. \A k \in DOMAIN pollFds' : pollFds'[k].fd \in live' \cup {Listen}
    <3> SUFFICES ASSUME NEW k \in DOMAIN pollFds'
                 PROVE  pollFds'[k].fd \in live' \cup {Listen}
      OBVIOUS
    <3>1. PICK j \in DOMAIN pollFds : j # i /\ pollFds'[k] = pollFds[j]
      BY <1>7
    <3>2. pollFds[j].fd \in live \cup {Listen} /\ pollFds[j].fd # f
      BY <1>6, <3>1, Table
    <3> QED BY <1>1, <3>1, <3>2
  <2>2. \A g \in live' \cup {Listen} : \E k \in DOMAIN pollFds' : pollFds'[k].fd = g
    <3> SUFFICES ASSUME NEW g \in live' \cup {Listen}
                 PROVE  \E k \in DOMAIN pollFds' : pollFds'[k].fd = g
      OBVIOUS
    <3>1. g \in live \cup {Listen} /\ g # f
      BY <1>1
    <3>2. PICK k \in DOMAIN pollFds : pollFds[k].fd = g
      BY <3>1 DEF LoopInvariant, PollTableMatchesClients
    <3>3. CASE k < i
      BY <1>2, <1>4, <3>2, <3>3
    <3>4. CASE k > i
      <4>1. k - 1 \in 1 .. Len(pollFds) - 1 /\ ~(k - 1 < i) /\ k - 1 + 1 = k
        BY <1>2, <3>4
      <4> QED BY <1>4, <3>2, <4>1
    <3> QED BY <1>2, <3>1, <3>2, <3>3, <3>4 DEF f
  <2>3. {pollFds'[k].fd : k \in DOMAIN pollFds'} = live' \cup {Listen}
    BY <2>1, <2>2
  <2> QED
    <3>1. Len(pollFds) = Cardinality(live) + 1 /\ Cardinality(live) \in Nat
      BY Table DEF LoopInvariant, PollTableMatchesClients
    <3> QED BY <1>4, <1>8, <2>3, <3>1 DEF PollTableMatchesClients
<1>10. EntriesDistinct'
  BY <1>2, <1>4 DEF LoopInvariant, EntriesDistinct
<1>11. TypeOK'
  <2>1. /\ outbuf' \in [Fd -> 0 .. MaxOut] /\ rx' \in [Fd -> 0 .. MaxRx]
        /\ tx' \in [Fd -> 0 .. MaxTx]
    BY <1>1, Bounds DEF LoopInvariant, TypeOK
  <2>2. /\ live' \subseteq Fd
        /\ shouldDisconnect' \subseteq live' /\ marked' \subseteq live'
        /\ eof' \subseteq live' /\ broken' \subseteq live' /\ backlog' \in 0 .. MaxBacklog
    BY <1>1 DEF LoopInvariant, TypeOK
  <2>3. Len(pollFds') > 0
    BY <1>2, <1>4, <1>5
  <2> QED BY <1>1, <1>2, <1>4, <1>5, <2>1, <2>2, <2>3 DEF TypeOK
<1>12. GoneLeaveNothing'
  BY <1>1 DEF LoopInvariant, GoneLeaveNothing
<1>13. PolloutWhenPending'
  <2> SUFFICES ASSUME NEW k \in DOMAIN pollFds', pollFds'[k].fd # Listen,
                      outbuf'[pollFds'[k].fd] > 0
               PROVE  pollFds'[k].pollout
    BY DEF PolloutWhenPending
  <2>1. PICK j \in DOMAIN pollFds : j # i /\ pollFds'[k] = pollFds[j]
    BY <1>7
  <2>2. pollFds[j].fd \in Fd /\ pollFds[j].fd # f
    BY <1>6, <2>1, Table DEF LoopInvariant, TypeOK
  <2> QED BY <1>1, <2>1, <2>2 DEF LoopInvariant, PolloutWhenPending
<1>14. ReportsHold'
  <2> SUFFICES ASSUME NEW k \in DOMAIN pollFds', k > i PROVE StillReady(pollFds[k])'
    BY <1>1, <1>2, <1>4 DEF ReportsHold, Ahead
  <2>1. k + 1 \in DOMAIN pollFds /\ k + 1 > i /\ pollFds'[k] = pollFds[k + 1]
    BY <1>2, <1>4
  <2>2. StillReady(pollFds[k + 1])
    BY <1>1, <1>2, <2>1 DEF LoopInvariant, ReportsHold, Ahead
  <2>3. pollFds[k + 1].fd # f /\ (pollFds[k + 1].fd # Listen => pollFds[k + 1].fd \in Fd)
    BY <1>2, <1>6, <2>1, Table DEF LoopInvariant, TypeOK
  <2> QED BY <1>1, <2>1, <2>2, <2>3 DEF StillReady
<1>15. OnlyGoneAreMarked'
  BY <1>1 DEF LoopInvariant, OnlyGoneAreMarked
<1> QED
  BY <1>1, <1>9, <1>10, <1>11, <1>12, <1>13, <1>14, <1>15
     DEF LoopInvariant, FlushIsOfClient, NobodyMarked

\* What one recv() does, whatever it finds.
LEMMA ReadEffect ==
    ASSUME LoopInvariant, NEW f \in live, handleClientData(f)
    PROVE  /\ pollFds' \in [DOMAIN pollFds -> Entry]
           /\ \A k \in DOMAIN pollFds : /\ pollFds'[k].fd = pollFds[k].fd
                                        /\ pollFds'[k].revents = pollFds[k].revents
           /\ outbuf' \in [Fd -> 0 .. MaxOut]
           /\ \A g \in Fd \ live : outbuf'[g] = outbuf[g]
           /\ PolloutWhenPending'
           /\ rx' \in [Fd -> 0 .. MaxRx]
           /\ \A g \in Fd \ {f} : rx'[g] = rx[g]
           /\ tx' = tx
           /\ shouldDisconnect' \subseteq shouldDisconnect \cup {f}
           /\ f \in shouldDisconnect' \ shouldDisconnect => f \in Quitter \/ rx[f] = 0 \/ f \in broken
<1>1. /\ pollFds \in [DOMAIN pollFds -> Entry] /\ f \in Fd /\ live \subseteq Fd
      /\ outbuf \in [Fd -> 0 .. MaxOut] /\ rx \in [Fd -> 0 .. MaxRx]
      /\ PolloutWhenPending
      /\ \A k \in DOMAIN pollFds : pollFds[k] \in Entry
  BY Table, LenProperties DEF LoopInvariant, TypeOK
<1>2. CASE /\ rx[f] > 0
           /\ rx' = [rx EXCEPT ![f] = @ - 1]
           /\ \E to \in SUBSET {g \in live : outbuf[g] < MaxOut} : sendToClients(to)
           /\ \/ UNCHANGED shouldDisconnect
              \/ f \in Quitter /\ shouldDisconnect' = shouldDisconnect \cup {f}
           /\ UNCHANGED tx
  <2>1. PICK to \in SUBSET {g \in live : outbuf[g] < MaxOut} : sendToClients(to)
    BY <1>2
  <2>2. /\ outbuf' = [g \in Fd |-> IF g \in to THEN outbuf[g] + 1 ELSE outbuf[g]]
        /\ pollFds' = [k \in DOMAIN pollFds |->
                          [pollFds[k] EXCEPT !.pollout = @ \/ pollFds[k].fd \in to]]
    BY <2>1 DEF sendToClients
  <2>3. \A k \in DOMAIN pollFds :
            /\ pollFds'[k] \in Entry
            /\ pollFds'[k].fd = pollFds[k].fd /\ pollFds'[k].revents = pollFds[k].revents
            /\ pollFds'[k].pollout <=> pollFds[k].pollout \/ pollFds[k].fd \in to
    BY <1>1, <2>2 DEF Entry
  <2>4. pollFds' \in [DOMAIN pollFds -> Entry] /\ DOMAIN pollFds' = DOMAIN pollFds
    BY <2>2, <2>3
  <2>5. outbuf' \in [Fd -> 0 .. MaxOut] /\ \A g \in Fd : g \notin to => outbuf'[g] = outbuf[g]
    BY <1>1, <2>2, Bounds
  <2>6. rx' \in [Fd -> 0 .. MaxRx] /\ \A g \in Fd \ {f} : rx'[g] = rx[g]
    BY <1>1, <1>2, Bounds
  <2>7. PolloutWhenPending'
    <3> SUFFICES ASSUME NEW k \in DOMAIN pollFds, pollFds[k].fd # Listen,
                        outbuf'[pollFds[k].fd] > 0, pollFds[k].fd \notin to
                 PROVE  pollFds[k].pollout
      BY <2>3, <2>4 DEF PolloutWhenPending
    <3>1. pollFds[k].fd \in Fd
      BY <1>1, Table
    <3> QED BY <1>1, <2>5, <3>1 DEF PolloutWhenPending
  <2> QED BY <1>2, <2>3, <2>4, <2>5, <2>6, <2>7
<1>3. CASE /\ rx[f] = 0 \/ f \in broken
           /\ shouldDisconnect' = shouldDisconnect \cup {f}
           /\ UNCHANGED <<outbuf, pollFds, rx, tx>>
  BY <1>1, <1>3 DEF PolloutWhenPending
<1> QED BY <1>2, <1>3 DEF handleClientData

\* What one flush does at the entry of its client.
LEMMA WriteEffect ==
    ASSUME LoopInvariant, i \in DOMAIN pollFds, NEW f \in live, f = pollFds[i].fd,
           flushClientBuffer(f)
    PROVE  /\ pollFds' \in [DOMAIN pollFds -> Entry]
           /\ \A k \in DOMAIN pollFds : /\ pollFds'[k].fd = pollFds[k].fd
                                        /\ pollFds'[k].revents = pollFds[k].revents
           /\ outbuf' \in [Fd -> 0 .. MaxOut] /\ tx' \in [Fd -> 0 .. MaxTx]
           /\ \A g \in Fd \ live : outbuf'[g] = outbuf[g] /\ tx'[g] = tx[g]
           /\ PolloutWhenPending'
           /\ rx' = rx
           /\ shouldDisconnect' \subseteq shouldDisconnect \cup {f}
           /\ f \in shouldDisconnect' \ shouldDisconnect => f \in broken
<1>1. /\ pollFds \in [DOMAIN pollFds -> Entry] /\ f \in Fd /\ live \subseteq Fd
      /\ outbuf \in [Fd -> 0 .. MaxOut] /\ tx \in [Fd -> 0 .. MaxTx]
      /\ PolloutWhenPending
      /\ \A k \in DOMAIN pollFds : /\ pollFds[k] \in Entry
                                   /\ pollFds[k].fd # Listen => pollFds[k].fd \in Fd
  BY Table, LenProperties DEF LoopInvariant, TypeOK
<1>2. CASE /\ outbuf[f] = 0
           /\ pollFds' = [pollFds EXCEPT ![i].pollout = FALSE]
           /\ UNCHANGED <<shouldDisconnect, outbuf, rx, tx>>
  <2>1. \A k \in DOMAIN pollFds :
            /\ pollFds'[k] \in Entry
            /\ pollFds'[k].fd = pollFds[k].fd /\ pollFds'[k].revents = pollFds[k].revents
            /\ k # i => pollFds'[k].pollout = pollFds[k].pollout
    BY <1>1, <1>2 DEF Entry
  <2>2. pollFds' \in [DOMAIN pollFds -> Entry] /\ DOMAIN pollFds' = DOMAIN pollFds
    BY <1>1, <1>2, <2>1
  <2>3. PolloutWhenPending'
    BY <1>1, <1>2, <2>1, <2>2 DEF PolloutWhenPending
  <2> QED BY <1>1, <1>2, <2>1, <2>2, <2>3
<1>3. CASE /\ outbuf[f] > 0
           /\ f \notin broken
           /\ \E sent \in 1 .. outbuf[f] :
                 /\ sent <= MaxTx - tx[f]
                 /\ outbuf' = [outbuf EXCEPT ![f] = @ - sent]
                 /\ tx' = [tx EXCEPT ![f] = @ + sent]
           /\ UNCHANGED <<shouldDisconnect, pollFds, rx>>
  <2>1. PICK sent \in 1 .. outbuf[f] :
             /\ sent <= MaxTx - tx[f]
             /\ outbuf' = [outbuf EXCEPT ![f] = @ - sent]
             /\ tx' = [tx EXCEPT ![f] = @ + sent]
    BY <1>3
  <2>2. /\ outbuf' \in [Fd -> 0 .. MaxOut] /\ tx' \in [Fd -> 0 .. MaxTx]
        /\ \A g \in Fd : /\ outbuf'[g] <= outbuf[g]
                         /\ g # f => outbuf'[g] = outbuf[g] /\ tx'[g] = tx[g]
    BY <1>1, <2>1, Bounds
  <2>3. PolloutWhenPending'
    BY <1>1, <1>3, <2>2 DEF PolloutWhenPending
  <2> QED BY <1>1, <1>3, <2>2, <2>3
<1>4. CASE UNCHANGED <<shouldDisconnect, outbuf, pollFds, rx, tx>>
  BY <1>1, <1>4 DEF PolloutWhenPending
<1>5. CASE /\ outbuf[f] > 0
           /\ f \in broken
           /\ shouldDisconnect' = shouldDisconnect \cup {f}
           /\ UNCHANGED <<outbuf, pollFds, rx, tx>>
  BY <1>1, <1>5 DEF PolloutWhenPending
<1> QED BY <1>2, <1>3, <1>4, <1>5 DEF flushClientBuffer

\* A step that has handled the client of entry i, and goes on behind it.
LEMMA HandledStep ==
    ASSUME LoopInvariant, i \in DOMAIN pollFds, NEW f \in live, f = pollFds[i].fd,
           pc \in {"entry", "flush"},
           \/ pc' = "entry" /\ i' = i + 1
           \/ pc' = "flush" /\ i' = i,
           UNCHANGED <<live, marked, backlog, eof, broken>>,
           /\ pollFds' \in [DOMAIN pollFds -> Entry]
           /\ \A k \in DOMAIN pollFds : /\ pollFds'[k].fd = pollFds[k].fd
                                        /\ pollFds'[k].revents = pollFds[k].revents
           /\ outbuf' \in [Fd -> 0 .. MaxOut] /\ tx' \in [Fd -> 0 .. MaxTx]
           /\ \A g \in Fd \ live : outbuf'[g] = outbuf[g] /\ tx'[g] = tx[g]
           /\ PolloutWhenPending'
           /\ rx' \in [Fd -> 0 .. MaxRx]
           /\ \A g \in Fd \ {f} : rx'[g] = rx[g]
           /\ shouldDisconnect' \subseteq shouldDisconnect \cup {f}
           /\ f \in shouldDisconnect' \ shouldDisconnect => f \in Quitter \cup eof \cup broken
    PROVE  LoopInvariant'
<1>1. /\ i \in 1 .. Len(pollFds) /\ Len(pollFds) \in Nat /\ DOMAIN pollFds = 1 .. Len(pollFds)
      /\ i' \in 1 .. Cardinality(Fd) + 2
  <2>1. /\ DOMAIN pollFds = 1 .. Len(pollFds) /\ Len(pollFds) \in Nat
        /\ Len(pollFds) <= Cardinality(Fd) + 1 /\ Cardinality(Fd) \in Nat
    BY Table
  <2> QED BY <2>1
<1>2. /\ pollFds' \in Seq(Entry) /\ Len(pollFds') = Len(pollFds)
      /\ DOMAIN pollFds' = DOMAIN pollFds
      /\ pollFds'[1].fd = Listen /\ Len(pollFds') > 0
      /\ PollTableMatchesClients' /\ EntriesDistinct'
  <2>1. PICK new \in [DOMAIN pollFds -> Entry] : pollFds' = new
    OBVIOUS
  <2> QED BY <2>1, SameDescriptors
<1>3. f \in Fd /\ f # Listen /\ live \subseteq Fd
  BY PollAssumption DEF LoopInvariant, TypeOK
<1>4. TypeOK'
  <2>1. /\ live' \subseteq Fd
        /\ shouldDisconnect' \subseteq live' /\ marked' \subseteq live'
        /\ eof' \subseteq live' /\ broken' \subseteq live' /\ backlog' \in 0 .. MaxBacklog
    BY <1>3 DEF LoopInvariant, TypeOK
  <2> QED BY <1>1, <1>2, <2>1 DEF TypeOK
<1>5. GoneLeaveNothing'
  BY <1>3 DEF LoopInvariant, GoneLeaveNothing
<1>6. FlushIsOfClient'
  BY <1>1, <1>2, <1>3 DEF FlushIsOfClient
<1>7. ReportsHold'
  <2> SUFFICES ASSUME NEW k \in DOMAIN pollFds', k > i PROVE StillReady(pollFds[k])'
    BY <1>1, <1>2 DEF ReportsHold, Ahead
  <2>1. /\ k \in DOMAIN pollFds /\ pollFds'[k].fd = pollFds[k].fd
        /\ pollFds'[k].revents = pollFds[k].revents
    BY <1>2
  <2>2. StillReady(pollFds[k])
    BY <1>1, <2>1 DEF LoopInvariant, ReportsHold, Ahead
  <2>3. pollFds[k].fd # f
    <3>1. k # i
      BY <1>1, <1>2
    <3> QED BY <2>1, <3>1 DEF LoopInvariant, EntriesDistinct
  <2>4. pollFds[k].fd # Listen => pollFds[k].fd \in Fd
    BY <1>3, <2>1, Table
  <2> QED BY <2>1, <2>2, <2>3, <2>4 DEF StillReady
<1>8. OnlyGoneAreMarked'
  BY DEF LoopInvariant, OnlyGoneAreMarked
<1> QED
  BY <1>2, <1>4, <1>5, <1>6, <1>7, <1>8 DEF LoopInvariant, NobodyMarked

LEMMA ReadStep == LoopInvariant /\ ReadEntry => LoopInvariant'
<1> SUFFICES ASSUME LoopInvariant, ReadEntry PROVE LoopInvariant'
  OBVIOUS
<1> DEFINE f == pollFds[i].fd
<1>1. /\ pc = "entry" /\ i <= Len(pollFds) /\ f # Listen
      /\ "in" \in pollFds[i].revents
      /\ handleClientData(f)
      /\ \/ pc' = "entry" /\ i' = i + 1
         \/ pc' = "flush" /\ i' = i
      /\ UNCHANGED <<live, marked, backlog, eof, broken>>
  BY DEF ReadEntry, AtClient, AtEntry, Here, NextEntry
<1>2. i \in DOMAIN pollFds /\ f \in live
  BY <1>1, Table
<1>3. rx[f] > 0 \/ f \in eof \cup broken
  BY <1>1, <1>2, Table DEF LoopInvariant, ReportsHold, Ahead, StillReady
<1> HIDE DEF f
<1>4. /\ tx' \in [Fd -> 0 .. MaxTx] /\ \A g \in Fd \ live : tx'[g] = tx[g]
  BY <1>1, <1>2, ReadEffect DEF LoopInvariant, TypeOK
<1>5. f \in shouldDisconnect' \ shouldDisconnect => f \in Quitter \cup eof \cup broken
  BY <1>1, <1>2, <1>3, ReadEffect
<1> QED BY <1>1, <1>2, <1>4, <1>5, ReadEffect, HandledStep DEF f

LEMMA WriteStep == LoopInvariant /\ WriteEntry => LoopInvariant'
<1> SUFFICES ASSUME LoopInvariant, WriteEntry PROVE LoopInvariant'
  OBVIOUS
<1> DEFINE f == pollFds[i].fd
<1>1. /\ pc \in {"entry", "flush"} /\ i \in DOMAIN pollFds /\ f # Listen
      /\ flushClientBuffer(f)
      /\ pc' = "entry" /\ i' = i + 1
      /\ UNCHANGED <<live, marked, backlog, eof, broken>>
  BY Table DEF WriteEntry, AtClient, AtEntry, Here, NextEntry, LoopInvariant, FlushIsOfClient
<1>2. f \in live
  BY <1>1, Table
<1> HIDE DEF f
<1>3. rx' \in [Fd -> 0 .. MaxRx] /\ \A g \in Fd \ {f} : rx'[g] = rx[g]
  BY <1>1, <1>2, WriteEffect DEF LoopInvariant, TypeOK, f
<1> QED BY <1>1, <1>2, <1>3, WriteEffect, HandledStep DEF f

\* cleanupDisconnectedClients finds nobody.
LEMMA EndStep == LoopInvariant /\ EndOfRound => LoopInvariant'
<1> SUFFICES ASSUME LoopInvariant, EndOfRound PROVE LoopInvariant'
  OBVIOUS
<1>1. live \cap marked = {}
  BY DEF LoopInvariant, NobodyMarked
<1>2. /\ pc' = "poll" /\ i' = 1 /\ backlog' = backlog /\ pollFds' = pollFds
      /\ live' = live /\ shouldDisconnect' = shouldDisconnect /\ marked' = marked
      /\ eof' = eof /\ broken' = broken
      /\ outbuf' = [f \in Fd |-> outbuf[f]]
      /\ rx' = [f \in Fd |-> rx[f]] /\ tx' = [f \in Fd |-> tx[f]]
  BY <1>1 DEF EndOfRound, Forget, Without
<1>3. outbuf' = outbuf /\ rx' = rx /\ tx' = tx
  BY <1>2 DEF LoopInvariant, TypeOK
<1>4. i' \in 1 .. Cardinality(Fd) + 2
  BY <1>2, Table
<1>5. TypeOK'
  BY <1>2, <1>3, <1>4 DEF LoopInvariant, TypeOK
<1> QED
  BY <1>2, <1>3, <1>5
     DEF LoopInvariant, PollTableMatchesClients, EntriesDistinct, GoneLeaveNothing,
         PolloutWhenPending, FlushIsOfClient, ReportsHold, Ahead, NobodyMarked, OnlyGoneAreMarked

-----------------------------------------------------------------------------
(* Clients and kernel: what has been reported of them stays so.             *)

LEMMA WorldStep == LoopInvariant /\ World => LoopInvariant'
<1> SUFFICES ASSUME LoopInvariant, World PROVE LoopInvariant'
  OBVIOUS
<1>1. UNCHANGED <<live, shouldDisconnect, marked, outbuf, pollFds, pc, i>>
  BY DEF World, Connect, SendCommand, ReadReplies, HalfClose, Break, server
<1>2. /\ backlog \in 0 .. MaxBacklog /\ rx \in [Fd -> 0 .. MaxRx] /\ tx \in [Fd -> 0 .. MaxTx]
      /\ eof \subseteq live /\ broken \subseteq live /\ live \subseteq Fd
      /\ \A f \in Fd \ live : rx[f] = 0 /\ tx[f] = 0
  BY DEF LoopInvariant, TypeOK, GoneLeaveNothing
<1>3. /\ backlog' \in 0 .. MaxBacklog /\ backlog' >= backlog
      /\ rx' \in [Fd -> 0 .. MaxRx] /\ \A f \in Fd : rx'[f] >= rx[f]
      /\ tx' \in [Fd -> 0 .. MaxTx]
      /\ eof \subseteq eof' /\ eof' \subseteq live
      /\ broken \subseteq broken' /\ broken' \subseteq live
      /\ \A f \in Fd \ live : rx'[f] = 0 /\ tx'[f] = 0
  <2>1. CASE Connect
    BY <1>2, <2>1, Bounds DEF Connect
  <2>2. CASE \E f \in Fd : SendCommand(f)
    <3>1. PICK f \in Fd : SendCommand(f)
      BY <2>2
    <3>2. /\ rx' = [rx EXCEPT ![f] = @ + 1] /\ rx[f] < MaxRx /\ f \in live
          /\ UNCHANGED <<backlog, tx, eof, broken>>
      BY <3>1 DEF SendCommand
    <3>3. rx' \in [Fd -> 0 .. MaxRx] /\ \A g \in Fd : rx'[g] >= rx[g] /\ (g # f => rx'[g] = rx[g])
      BY <1>2, <3>2, Bounds
    <3> QED BY <1>2, <3>2, <3>3
  <2>3. CASE \E f \in Fd : ReadReplies(f)
    <3>1. PICK f \in Fd : ReadReplies(f)
      BY <2>3
    <3>2. tx' = [tx EXCEPT ![f] = 0] /\ UNCHANGED <<backlog, rx, eof, broken>>
      BY <3>1 DEF ReadReplies
    <3> QED BY <1>2, <3>2, Bounds
  <2>4. CASE \E f \in HalfCloser : HalfClose(f)
    BY <1>2, <2>4 DEF HalfClose
  <2>5. CASE \E f \in Breaker : Break(f)
    BY <1>2, <2>5 DEF Break
  <2> QED BY <2>1, <2>2, <2>3, <2>4, <2>5 DEF World
<1>4. TypeOK'
  BY <1>1, <1>3 DEF LoopInvariant, TypeOK
<1>5. ReportsHold'
  <2> SUFFICES ASSUME NEW k \in DOMAIN pollFds, Ahead(k) PROVE StillReady(pollFds[k])'
    BY <1>1 DEF ReportsHold, Ahead
  <2>1. StillReady(pollFds[k]) /\ (pollFds[k].fd # Listen => pollFds[k].fd \in Fd)
    BY <1>2, Table DEF LoopInvariant, ReportsHold
  <2> QED BY <1>1, <1>2, <1>3, <2>1 DEF StillReady
<1>6. GoneLeaveNothing' /\ OnlyGoneAreMarked'
  BY <1>1, <1>3 DEF LoopInvariant, GoneLeaveNothing, OnlyGoneAreMarked
<1> QED
  BY <1>1, <1>4, <1>5, <1>6
     DEF LoopInvariant, PollTableMatchesClients, EntriesDistinct, PolloutWhenPending,
         FlushIsOfClient, NobodyMarked

-----------------------------------------------------------------------------
(* The theorems.                                                           *)

LEMMA LoopInvariantHolds == Spec => []LoopInvariant
<1>1. LoopInvariant /\ [Next]_vars => LoopInvariant'
  <2> SUFFICES ASSUME LoopInvariant, [Next]_vars PROVE LoopInvariant'
    OBVIOUS
  <2>1. CASE Loop
    BY <2>1, PollStep, SkipStep, AcceptStep, ErrorStep, ReadStep, WriteStep, EndStep DEF Loop
  <2>2. CASE World
    BY <2>2, WorldStep
  <2>3. CASE UNCHANGED vars
    BY <2>3
       DEF vars, server, kernel, LoopInvariant, TypeOK, PollTableMatchesClients,
           EntriesDistinct, GoneLeaveNothing, PolloutWhenPending, FlushIsOfClient,
           ReportsHold, Ahead, StillReady, NobodyMarked, OnlyGoneAreMarked
  <2> QED BY <2>1, <2>2, <2>3 DEF Next
<1> QED BY InitInvariant, <1>1, PTL DEF Spec

\* The queues keep their bounds, in particular acceptNewClient never takes from
\* an empty backlog, and the server socket stays at the head of _pollFds.
THEOREM LoopTypes == Spec => []TypeOK
<1>1. LoopInvariant => TypeOK
  BY DEF LoopInvariant
<1> QED BY <1>1, LoopInvariantHolds, PTL

\* _pollFds has one entry for the server socket and one for each client, in the
\* middle of a round too, whatever was accepted and erased in it.
THEOREM PollTableIsExact == Spec => []PollTableMatchesClients
<1>1. LoopInvariant => PollTableMatchesClients
  BY DEF LoopInvariant
<1> QED BY <1>1, LoopInvariantHolds, PTL

\* Nobody waits for a reply that no POLLOUT will send: sendToClient asks for it
\* and flushClientBuffer takes it back only with the buffer empty.
THEOREM PendingIsPolled == Spec => []PolloutWhenPending
<1>1. LoopInvariant => PolloutWhenPending
  BY DEF LoopInvariant
<1> QED BY <1>1, LoopInvariantHolds, PTL

\* handleClientData never mistakes a socket that is only empty for one that was
\* closed: what poll() reported is still so when the walk gets to the entry.
THEOREM HealthyAreNotMarked == Spec => []OnlyGoneAreMarked
<1>1. LoopInvariant => OnlyGoneAreMarked
  BY DEF LoopInvariant
<1> QED BY <1>1, LoopInvariantHolds, PTL

=============================================================================
