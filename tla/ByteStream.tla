----------------------------- MODULE ByteStream -----------------------------
(***************************************************************************)
(* What a pipe promises: a bounded first-in first-out queue of bytes with  *)
(* two ends that close once.  Bytes are accepted only while the read end   *)
(* is open and there is room; a byte leaves the queue at its head, either  *)
(* delivered to a reader or, when the reader's buffer turns out to be bad, *)
(* lost.                                                                   *)
(***************************************************************************)
EXTENDS Naturals, Sequences

CONSTANTS Bytes, Capacity, NoByte

VARIABLES queue, delivered, rend, wend

svars == <<queue, delivered, rend, wend>>

StreamInit ==
    /\ queue = << >>
    /\ delivered = NoByte
    /\ rend = TRUE /\ wend = TRUE

Put(b) ==
    /\ rend /\ wend
    /\ Len(queue) < Capacity
    /\ queue' = Append(queue, b)
    /\ UNCHANGED <<delivered, rend, wend>>

Take ==
    /\ queue # << >> /\ rend
    /\ queue' = Tail(queue)
    /\ delivered' \in {Head(queue), NoByte}
    /\ UNCHANGED <<rend, wend>>

CloseRead == rend /\ rend' = FALSE /\ UNCHANGED <<queue, delivered, wend>>

CloseWrite == wend /\ wend' = FALSE /\ UNCHANGED <<queue, delivered, rend>>

StreamNext == (\E b \in Bytes : Put(b)) \/ Take \/ CloseRead \/ CloseWrite

StreamSpec == StreamInit /\ [][StreamNext]_svars
=============================================================================
