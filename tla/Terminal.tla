------------------------------ MODULE Terminal ------------------------------
(***************************************************************************)
(* What the console promises: what is typed is edited line by line and     *)
(* read in its order, a whole line or what fills the buffer at a time;     *)
(* what is written comes out in the order it was accepted.                 *)
(***************************************************************************)
EXTENDS Naturals, Sequences

CONSTANTS MaxIn, MaxOut, Chars, Writers

VARIABLES
    line,   \* typed, can still be edited
    ready,  \* can be read
    out     \* accepted from write(), not yet handed to the device

tvars == <<line, ready, out>>

Init == line = <<>> /\ ready = <<>> /\ out = <<>>

Erase == line # <<>> /\ line' = SubSeq(line, 1, Len(line) - 1) /\ UNCHANGED <<ready, out>>

Kill == line' = <<>> /\ UNCHANGED <<ready, out>>

(* A character ends its line, or is the last the buffer has room for, or   *)
(* is added to the line.                                                   *)
Type(c) ==
    LET all == Append(line, c) IN
    /\ Len(ready) + Len(line) < MaxIn
    /\ IF c \in {"nl", "D"} \/ Len(ready) + Len(all) = MaxIn
       THEN line' = <<>> /\ ready' = ready \o all
       ELSE line' = all /\ UNCHANGED ready
    /\ UNCHANGED out

Read == ready # <<>> /\ ready' = Tail(ready) /\ UNCHANGED <<line, out>>

Put(p) == Len(out) < MaxOut /\ out' = Append(out, p) /\ UNCHANGED <<line, ready>>

Send == out # <<>> /\ out' = Tail(out) /\ UNCHANGED <<line, ready>>

Next ==
    \/ Erase \/ Kill \/ Read \/ Send
    \/ \E c \in Chars : Type(c)
    \/ \E p \in Writers : Put(p)

Spec == Init /\ [][Next]_tvars
=============================================================================
