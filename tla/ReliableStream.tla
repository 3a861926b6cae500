--------------------------- MODULE ReliableStream ---------------------------
(***************************************************************************)
(* What a pair of UDX streams promises its two applications: each          *)
(* direction is a byte stream (libudx/src/native/stream.rs:780-784), of    *)
(* which the reader has a growing prefix, the writer knows a prefix of     *)
(* that to be delivered, and end of stream comes after the last byte.      *)
(* Nothing is promised about progress: a stream may stop at any time.      *)
(***************************************************************************)
EXTENDS Naturals

CONSTANT Endpoint

VARIABLES written,    \* bytes accepted from an end's application
          ended,      \* an end's application has finished writing
          delivered,  \* bytes handed to an end's reader
          eof,        \* an end's reader was told of a clean end of stream
          acked       \* bytes an end's application was told are delivered

rsVars == <<written, ended, delivered, eof, acked>>

Peer(e) == CHOOSE x \in Endpoint : x # e

Init ==
    /\ written = [e \in Endpoint |-> 0]
    /\ ended = [e \in Endpoint |-> FALSE]
    /\ delivered = [e \in Endpoint |-> 0]
    /\ eof = [e \in Endpoint |-> FALSE]
    /\ acked = [e \in Endpoint |-> 0]

\* Only e's count moves, and it does not fall.
Grows(e, old, new) == new = [old EXCEPT ![e] = new[e]] /\ old[e] <= new[e]

\* The application writes more bytes.
Write(e) ==
    /\ ~ended[e]
    /\ Grows(e, written, written')
    /\ UNCHANGED <<ended, delivered, eof, acked>>

\* The application ends its direction.
End(e) ==
    /\ ~ended[e]
    /\ ended' = [ended EXCEPT ![e] = TRUE]
    /\ UNCHANGED <<written, delivered, eof, acked>>

\* The stream hands e's reader the next bytes, or the end of the peer's direction, and
\* tells e's writer that more of its bytes were delivered.
Progress(e) ==
    /\ Grows(e, delivered, delivered')
    /\ delivered'[e] <= written[Peer(e)]
    /\ eof' = [eof EXCEPT ![e] = eof'[e]]
    /\ eof[e] => eof'[e] /\ delivered'[e] = delivered[e]
    /\ eof'[e] => ended[Peer(e)] /\ delivered'[e] = written[Peer(e)]
    /\ Grows(e, acked, acked')
    /\ acked'[e] <= delivered[Peer(e)]
    /\ UNCHANGED <<written, ended>>

Next == \E e \in Endpoint : Write(e) \/ End(e) \/ Progress(e)

Spec == Init /\ [][Next]_rsVars
====
