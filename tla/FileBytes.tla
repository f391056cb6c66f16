----------------------------- MODULE FileBytes ------------------------------
(***************************************************************************)
(* What open files promise to their users: a file is a sequence of bytes,  *)
(* an open file is an offset into one, and a write() of several processes  *)
(* through a shared open file loses nothing.  A write() that fails halfway *)
(* may leave a few more of its bytes than it reports; these can be read,   *)
(* but are not kept for sure.                                              *)
(***************************************************************************)
EXTENDS Naturals, Sequences

CONSTANTS Files, Inodes, MaxLen,
          Writers, Datum(_, _),  \* what each writes at each offset
          MaxRest                \* bytes that a failed write() may leave

VARIABLES
    content,  \* the bytes of every inode, as read() finds them
    kept,     \* the bytes it finds in the long run, unless overwritten
    off,      \* the offset of every open file
    ip        \* the inode it is open on, or 0

bvars == <<ip, off, content, kept>>

Init ==
    /\ content = [i \in Inodes |-> <<>>] /\ kept = content
    /\ off = [f \in Files |-> 0] /\ ip = [f \in Files |-> 0]

(* Bytes b overwrite s from offset o on, which is at most its length.      *)
Overwrite(s, o, b) ==
    SubSeq(s, 1, o) \o b \o SubSeq(s, o + Len(b) + 1, Len(s))

(* Every byte of s is the byte of t or of u in its place.                  *)
Mix(s, t, u) == Len(s) = Len(t) /\ \A x \in DOMAIN s : s[x] \in {t[x], u[x]}

(* k bytes of w go to the offset, which moves behind them, and are kept.   *)
(* If that is not all that was asked for, a rest may follow them in the    *)
(* file; it, and the rest of an earlier write(), may or may not be kept.   *)
Write(f, k) ==
    LET i == ip[f]
        old == content[i]
        new == content'[i]
        bytes(w, n) == [x \in 1 .. n |-> Datum(w, off[f] + x - 1)]
    IN /\ i # 0
       /\ off' = [off EXCEPT ![f] = @ + k]
       /\ UNCHANGED ip
       /\ off[f] + k <= MaxLen /\ off[f] <= Len(old)
       /\ \A j \in Inodes \ {i} : content'[j] = content[j] /\ kept'[j] = kept[j]
       /\ \E w \in Writers, rest \in 0 .. MaxRest :
            /\ rest > 0 => off[f] + k + rest <= Len(old)
            /\ new = Overwrite(old, off[f], bytes(w, k + rest))
            /\ Mix(kept'[i], Overwrite(kept[i], off[f], bytes(w, k)), new)

(* What is not kept goes.                                                  *)
Vanish(i) ==
    /\ UNCHANGED <<ip, off, kept>>
    /\ \A j \in Inodes \ {i} : content'[j] = content[j]
    /\ Mix(content'[i], content[i], kept[i])

Read(f, k) ==
    /\ ip[f] # 0
    /\ off' = [off EXCEPT ![f] = @ + k]
    /\ off[f] + k <= Len(content[ip[f]])
    /\ UNCHANGED <<ip, content, kept>>

(* Opening may truncate; a file that is closed may be the last to name its *)
(* inode, which then loses its contents.                                   *)
Open(f, i) ==
    /\ ip[f] = 0
    /\ ip' = [ip EXCEPT ![f] = i]
    /\ off' = [off EXCEPT ![f] = 0]
    /\ \/ UNCHANGED <<content, kept>>
       \/ content' = [content EXCEPT ![i] = <<>>] /\ kept' = [kept EXCEPT ![i] = <<>>]

Discard(i) ==
    /\ \A f \in Files : ip[f] # i
    /\ UNCHANGED <<off, ip>>
    /\ content' = [content EXCEPT ![i] = <<>>]
    /\ kept' = [kept EXCEPT ![i] = <<>>]

Close(f) ==
    /\ ip[f] # 0
    /\ ip' = [ip EXCEPT ![f] = 0]
    /\ off' = [off EXCEPT ![f] = 0]
    /\ UNCHANGED <<content, kept>>

Next ==
    \/ \E i \in Inodes : Vanish(i) \/ Discard(i)
    \/ \E f \in Files, i \in Inodes : Open(f, i)
    \/ \E f \in Files : Close(f)
    \/ \E f \in Files : \E k \in 0 .. off'[f] - off[f] : Read(f, k) \/ Write(f, k)

Spec == Init /\ [][Next]_bvars
=============================================================================
