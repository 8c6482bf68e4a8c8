----------------------------- MODULE LineReader -----------------------------
(***************************************************************************)
(* What a client may expect of its commands: the bytes it writes are cut   *)
(* at each CR LF, and the lines between, but for empty ones, are handled   *)
(* one by one, in order, each one in the end.  There are no chunks and no  *)
(* buffer here.                                                            *)
(***************************************************************************)
EXTENDS Integers, Sequences

CONSTANTS Byte, CR, LF

VARIABLES
    stream,     \* the bytes written so far
    taken,      \* how many of them belong to lines that are done with
    handled     \* the lines handled

streamVars == <<stream, taken, handled>>

\* CR LF stands at k and k + 1.
LineEnd(s, k) == s[k] = CR /\ s[k + 1] = LF

Write ==
    /\ \E b \in Byte : stream' = Append(stream, b)
    /\ UNCHANGED <<taken, handled>>

TakeLine ==
    \E k \in taken + 1 .. Len(stream) - 1 :
        /\ LineEnd(stream, k)
        /\ \A j \in taken + 1 .. k - 1 : ~LineEnd(stream, j)
        /\ taken' = k + 1
        /\ handled' = IF k = taken + 1 THEN handled
                      ELSE Append(handled, SubSeq(stream, taken + 1, k - 1))
        /\ UNCHANGED stream

Init == stream = <<>> /\ taken = 0 /\ handled = <<>>

Next == Write \/ TakeLine

Spec == Init /\ [][Next]_streamVars /\ WF_streamVars(TakeLine)

=============================================================================
