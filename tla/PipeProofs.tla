----------------------------- MODULE PipeProofs -----------------------------
(***************************************************************************)
(* Proofs about the pipe, for any PIPESIZE, counter width and number of    *)
(* readers and writers.                                                    *)
(*                                                                         *)
(* SleepersJustified speaks of the moments when pi->lock is free and is    *)
(* not inductive: IInv says what holds meanwhile.  A reader in its loop    *)
(* has taken bytes and not yet woken the writers, a writer has stored      *)
(* bytes and not yet woken the readers; and a sleeper's own end is open    *)
(* because its process still holds it.                                     *)
(***************************************************************************)
EXTENDS Pipe, Rings, TLAPS

-----------------------------------------------------------------------------
(* The ring: nread and nwrite run freely modulo 2^32 and index data[]      *)
(* modulo PIPESIZE.                                                        *)
Used(r, w) == Dist(r, w, Modulus)

Counter == Index(Modulus)

Held(d, r, w) == Segment(d, r, w, PIPESIZE, Modulus)

(* The sizes, and counters in range are their own remainder.               *)
LEMMA Sizes == /\ PIPESIZE \in Nat \ {0} /\ Modulus \in Nat \ {0} /\ Modulus > PIPESIZE
               /\ Ring(PIPESIZE, Modulus) /\ Counter = 0 .. Modulus - 1
               /\ \A x \in Counter : x % Modulus = x
<1>1. /\ PIPESIZE \in Nat \ {0} /\ Modulus \in Nat \ {0} /\ Modulus > PIPESIZE
      /\ Ring(PIPESIZE, Modulus) /\ Counter = 0 .. Modulus - 1
  BY SizeAssumption DEF Ring, Counter, Index
<1> QED
  BY <1>1, IndexMod, Zenon DEF Counter

(* nread == nwrite means empty, and no other difference does; the distance *)
(* leads from one counter to the other.                                    *)
LEMMA UsedFacts ==
    ASSUME NEW r \in Counter, NEW w \in Counter
    PROVE  /\ Used(r, w) \in Counter
           /\ r = w <=> Used(r, w) = 0
           /\ Used(r, w) = PIPESIZE => w = (r + PIPESIZE) % Modulus
<1>1. /\ Used(r, w) \in Nat /\ Used(r, w) < Modulus /\ (Used(r, w) + r) % Modulus = w
      /\ r = w <=> Used(r, w) = 0
  BY Sizes, DistFacts, Zenon DEF Used, Counter
<1> HIDE DEF Used
<1>2. Used(r, w) \in Counter
  <2>1. \A x \in Nat : x < Modulus => x \in Counter
    BY Sizes
  <2> QED  BY <1>1, <2>1, Zenon
<1>3. PIPESIZE + r = r + PIPESIZE
  BY Sizes
<1> QED
  BY <1>1, <1>2, <1>3, Zenon

(* nwrite++ adds one, even as it wraps, while the ring is not full.        *)
LEMMA UsedWrite ==
    ASSUME NEW r \in Counter, NEW w \in Counter, Used(r, w) < PIPESIZE
    PROVE  (w + 1) % Modulus \in Counter /\ Used(r, (w + 1) % Modulus) = Used(r, w) + 1
<1>1. Used(r, w) + 1 < Modulus
  <2>1. Used(r, w) \in Counter
    BY UsedFacts, Zenon
  <2> HIDE DEF Used
  <2> QED  BY <2>1, Sizes
<1> QED
  BY <1>1, Sizes, DistWrite, Zenon DEF Used, Counter

(* nread++ takes one, even as it wraps, while the ring is not empty.       *)
LEMMA UsedRead ==
    ASSUME NEW r \in Counter, NEW w \in Counter, r # w
    PROVE  (r + 1) % Modulus \in Counter /\ Used((r + 1) % Modulus, w) = Used(r, w) - 1
BY Sizes, DistRead, Zenon DEF Used, Counter

(* Storing at w appends, as it touches none of the bytes in the ring.      *)
LEMMA HeldWrite ==
    ASSUME NEW r \in Counter, NEW w \in Counter, Used(r, w) < PIPESIZE, NEW b \in Bytes,
           NEW d \in [0 .. PIPESIZE - 1 -> Bytes \cup {None}]
    PROVE  Held([d EXCEPT ![w % PIPESIZE] = b], r, (w + 1) % Modulus) = Append(Held(d, r, w), b)
<1>1. Used(r, w) + 1 < Modulus
  <2>1. Used(r, w) \in Counter
    BY UsedFacts, Zenon
  <2> HIDE DEF Used
  <2> QED  BY <2>1, Sizes
<1> DEFINE S == Bytes \cup {None}
           e == [d EXCEPT ![w % PIPESIZE] = b]
<1>2. /\ d \in [0 .. PIPESIZE - 1 -> S] /\ e \in [0 .. PIPESIZE - 1 -> S]
      /\ Agree(d, e, w % PIPESIZE, PIPESIZE)
  BY Zenon DEF Agree
<1>3. e[w % PIPESIZE] = b
  <2>1. w % PIPESIZE \in 0 .. PIPESIZE - 1
    BY Sizes, PlaceWrite, Zenon DEF Counter
  <2> QED  BY <2>1, Zenon
<1>4. PIPESIZE \in Nat /\ Modulus \in Nat /\ Ring(PIPESIZE, Modulus)
  BY Sizes, Zenon
<1> HIDE DEF S, e
<1>5. Appended(Held(e, r, (w + 1) % Modulus), Held(d, r, w), e[w % PIPESIZE])
  BY <1>1, <1>2, <1>4, SegmentWrite, Zenon DEF Used, Counter, Held
<1> QED
  BY <1>3, <1>5, Zenon DEF e, Appended

(* Reading at r takes the first byte away.                                 *)
LEMMA HeldRead ==
    ASSUME NEW r \in Counter, NEW w \in Counter, r # w,
           NEW d \in [0 .. PIPESIZE - 1 -> Bytes \cup {None}]
    PROVE  /\ Held(d, r, w) # << >>
           /\ Head(Held(d, r, w)) = d[r % PIPESIZE]
           /\ Held(d, (r + 1) % Modulus, w) = Tail(Held(d, r, w))
<1> DEFINE S == Bytes \cup {None}
<1>1. /\ d \in [0 .. PIPESIZE - 1 -> S] /\ PIPESIZE \in Nat /\ Modulus \in Nat
      /\ Ring(PIPESIZE, Modulus)
  BY Sizes, Zenon
<1> HIDE DEF S
<1>2. Behead(Held(d, (r + 1) % Modulus, w), Held(d, r, w), d[r % PIPESIZE])
  BY <1>1, SegmentRead, Zenon DEF Counter, Held
<1> QED
  BY <1>2, Zenon DEF Behead

(* As many bytes as Used says.                                             *)
LEMMA HeldLen ==
    ASSUME NEW r \in Counter, NEW w \in Counter, NEW d PROVE Len(Held(d, r, w)) = Used(r, w)
<1>1. Modulus \in Nat \ {0}
  BY Sizes, Zenon
<1> QED
  BY <1>1, SegmentLen, Zenon DEF Used, Counter, Held

-----------------------------------------------------------------------------
Writing == {"w_lock", "w_loop", "w_sleep", "w_asleep"}
Reading == {"r_lock", "r_wait", "r_copy", "r_sleep", "r_asleep"}

(* A call is made through an end that is open, and so is its side.         *)
Ends ==
    /\ fds \cap Writers # {} => writeopen
    /\ fds \cap Readers # {} => readopen
    /\ \A p \in Procs : /\ pc[p] \in Writing => p \in fds \cap Writers
                        /\ pc[p] \in Reading => p \in fds \cap Readers

(* A sleeper has its reason, or is about to be woken: by the reader that   *)
(* made room, or by the writer that stored bytes, which has pi->lock.      *)
Asleep ==
    \A p \in Procs :
        /\ pc[p] = "w_sleep" => Full /\ readopen
        /\ pc[p] = "r_sleep" => Empty /\ writeopen
        /\ pc[p] = "w_asleep" => readopen /\ (Full \/ \E q \in Procs : pc[q] = "r_copy")
        /\ pc[p] = "r_asleep" =>
              writeopen /\ (Empty \/ abandoned \/ \E q \in Procs : pc[q] = "w_loop" /\ moved[q])

(* A reader that has nothing yet came past the wait.                       *)
NotYet ==
    \A p \in Procs :
        /\ pc[p] = "idle" => ~moved[p]
        /\ pc[p] \in Reading \ {"r_copy"} => ~moved[p] /\ n[p] > 0
        /\ pc[p] = "r_copy" /\ ~moved[p] => n[p] > 0 /\ ~MustWait

(* The counters are never more than PIPESIZE apart.                        *)
Fits == Used(nread, nwrite) <= PIPESIZE

(* The inductive invariant.                                                *)
IInv == TypeOK /\ Ends /\ Asleep /\ NotYet /\ Fits

(* TypeOK in three parts: Booleans, control, and the rest.                 *)
Flags ==
    /\ readopen \in BOOLEAN /\ writeopen \in BOOLEAN
    /\ moved \in [Procs -> BOOLEAN] /\ killed \in [Procs -> BOOLEAN]
    /\ abandoned \in BOOLEAN

Control ==
    /\ fds \subseteq Procs
    /\ pc \in [Procs -> {"idle"} \cup Writing \cup Reading]
    /\ lock \in Procs \cup {None}
    /\ \A p \in Procs : lock = p <=> pc[p] \in {"w_loop", "w_sleep", "r_wait", "r_copy", "r_sleep"}

Counts ==
    /\ data \in [0 .. PIPESIZE - 1 -> Bytes \cup {None}]
    /\ nread \in Counter /\ nwrite \in Counter
    /\ n \in [Procs -> 0 .. MaxCount]
    /\ out \in Bytes \cup {None}

(* TypeOK is these three.                                                  *)
LEMMA TypeParts == TypeOK <=> Flags /\ Control /\ Counts
BY Zenon DEF TypeOK, Flags, Control, Counts, Counter, Index, Writing, Reading

(* The steps of the pipe, one by one.                                      *)
LEMMA Actions ==
    ASSUME Next
    PROVE  \/ \E p \in Procs :
                \/ \E k \in 1 .. MaxCount : call(p, k)
                \/ acquire(p) \/ sleep(p)
                \/ (\E b \in Bytes : write_byte(p, b)) \/ write_full(p) \/ write_abort(p) \/ write_return(p)
                \/ read_wait(p) \/ read_byte(p) \/ read_byte_lost(p) \/ read_return(p)
                \/ pipeclose(p) \/ kill(p)
           \/ UNCHANGED vars
BY Zenon DEF Next, InCall, pipewrite, piperead, Freed

(* The invariant holds of a new pipe.                                      *)
LEMMA Start == Init => IInv
<1> SUFFICES ASSUME Init PROVE IInv
  BY Zenon
<1>1. TypeOK
  <2>1. Control /\ Counts
    BY SizeAssumption, NamesAssumption DEF Init, Control, Counts, Counter, Index
  <2>2. Flags
    BY Zenon DEF Init, Flags
  <2> QED
    BY <2>1, <2>2, TypeParts, Zenon
<1>2. Fits
  <2>1. 0 \in Counter /\ nread = 0 /\ nwrite = 0
    BY Sizes DEF Counter, Init
  <2> QED
    BY <2>1, UsedFacts, Sizes DEF Fits
<1> QED
  BY <1>1, <1>2, Zenon DEF Init, IInv, Ends, Asleep, NotYet, Writing, Reading, Procs

(* Every step keeps the types, and pi->lock with the call that is in its   *)
(* loop.                                                                   *)
LEMMA TypeStep == TypeOK /\ [Next]_vars => TypeOK'
<1> SUFFICES ASSUME TypeOK, [Next]_vars PROVE TypeOK'
  BY Zenon
<1> USE DEF ring, ends, Goto
<1>0. /\ PIPESIZE \in Nat \ {0} /\ Modulus \in Nat \ {0}
      /\ (nread + 1) % Modulus \in Counter
      /\ (nwrite + 1) % Modulus \in Counter
      /\ nread % PIPESIZE \in 0 .. PIPESIZE - 1
  <2>1. PIPESIZE \in Nat \ {0} /\ Modulus \in Nat \ {0} /\ nread + 1 \in Int /\ nwrite + 1 \in Int /\ nread \in Int
    BY SizeAssumption DEF TypeOK
  <2> QED
    BY <2>1, ModDef, Zenon DEF Counter, Index
<1>t. Flags /\ Control /\ Counts
  BY TypeParts, Zenon
<1>1. ASSUME NEW p \in Procs, NEW k \in 1 .. MaxCount, call(p, k) PROVE TypeOK'
  <2>1. Flags'
    BY <1>1, <1>t, Zenon DEF Flags, call
  <2>2. Control'
    BY <1>1, <1>t, NamesAssumption, Zenon DEF Control, Writing, Reading, call
  <2>3. Counts'
    BY <1>1, <1>t, <1>0, SizeAssumption DEF Counts, call
  <2> QED
    BY <2>1, <2>2, <2>3, TypeParts, PTL
<1>2. ASSUME NEW p \in Procs, acquire(p) PROVE TypeOK'
  <2>1. Flags'
    BY <1>2, <1>t, Zenon DEF Flags, acquire
  <2>2. Control'
    BY <1>2, <1>t, NamesAssumption, Zenon DEF Control, Writing, Reading, acquire
  <2>3. Counts'
    BY <1>2, <1>t, <1>0, SizeAssumption, Zenon DEF Counts, acquire
  <2> QED
    BY <2>1, <2>2, <2>3, TypeParts, PTL
<1>3. ASSUME NEW p \in Procs, sleep(p) PROVE TypeOK'
  <2>1. Flags'
    BY <1>3, <1>t, Zenon DEF Flags, sleep
  <2>2. Control'
    BY <1>3, <1>t, NamesAssumption, Zenon DEF Control, Writing, Reading, sleep
  <2>3. Counts'
    BY <1>3, <1>t, <1>0, SizeAssumption, Zenon DEF Counts, sleep
  <2> QED
    BY <2>1, <2>2, <2>3, TypeParts, PTL
<1>4. ASSUME NEW p \in Procs, NEW b \in Bytes, write_byte(p, b) PROVE TypeOK'
  <2>1. Flags'
    BY <1>4, <1>t, Zenon DEF Flags, write_byte, CanWrite
  <2>2. Control'
    BY <1>4, <1>t, NamesAssumption, Zenon DEF Control, Writing, Reading, write_byte, CanWrite
  <2>3. Counts'
    <3>1. data' \in [0 .. PIPESIZE - 1 -> Bytes \cup {None}]
      <4> DEFINE w == nwrite % PIPESIZE
      <4>1. data' = [data EXCEPT ![w] = b]
        BY <1>4, Zenon DEF write_byte
      <4> HIDE DEF w
      <4> QED
        BY <4>1, <1>t, Zenon DEF Counts
    <3>2. n' \in [Procs -> 0 .. MaxCount]
      BY <1>4, <1>t, SizeAssumption DEF Counts, write_byte, CanWrite
    <3> QED
      BY <1>4, <1>t, <1>0, <3>1, <3>2, Zenon DEF Counts, write_byte
  <2> QED
    BY <2>1, <2>2, <2>3, TypeParts, PTL
<1>5. ASSUME NEW p \in Procs, write_full(p) PROVE TypeOK'
  <2>1. Flags'
    BY <1>5, <1>t, Zenon DEF Flags, write_full, CanWrite, WakeReaders, Woken
  <2>2. Control'
    BY <1>5, <1>t, NamesAssumption, Zenon DEF Control, Writing, Reading, write_full, CanWrite,
       WakeReaders, Woken
  <2>3. Counts'
    BY <1>5, <1>t, <1>0, SizeAssumption, Zenon DEF Counts, write_full, CanWrite, WakeReaders,
       Woken
  <2> QED
    BY <2>1, <2>2, <2>3, TypeParts, PTL
<1>6. ASSUME NEW p \in Procs, write_abort(p) PROVE TypeOK'
  <2>1. Flags'
    BY <1>6, <1>t, Zenon DEF Flags, write_abort, Return
  <2>2. Control'
    BY <1>6, <1>t, NamesAssumption, Zenon DEF Control, Writing, Reading, write_abort, Return
  <2>3. Counts'
    BY <1>6, <1>t, <1>0, SizeAssumption DEF Counts, write_abort, Return
  <2> QED
    BY <2>1, <2>2, <2>3, TypeParts, PTL
<1>7. ASSUME NEW p \in Procs, write_return(p) PROVE TypeOK'
  <2>1. Flags'
    BY <1>7, <1>t, Zenon DEF Flags, write_return, CanWrite, Return, WakeReaders, Woken
  <2>2. Control'
    BY <1>7, <1>t, NamesAssumption, Zenon DEF Control, Writing, Reading, write_return,
       CanWrite, Return, WakeReaders, Woken
  <2>3. Counts'
    BY <1>7, <1>t, <1>0, SizeAssumption DEF Counts, write_return, CanWrite, Return,
       WakeReaders, Woken
  <2> QED
    BY <2>1, <2>2, <2>3, TypeParts, PTL
<1>8. ASSUME NEW p \in Procs, read_wait(p) PROVE TypeOK'
  <2>1. Flags'
    BY <1>8, <1>t, Zenon DEF Flags, read_wait, Return
  <2>2. Control'
    BY <1>8, <1>t, NamesAssumption DEF Control, Writing, Reading, read_wait, Return
  <2>3. Counts'
    <3>1. n' = n \/ n' = [n EXCEPT ![p] = 0]
      BY <1>8, Zenon DEF read_wait, Return
    <3>2. UNCHANGED <<ring, out>>
      BY <1>8, Zenon DEF read_wait
    <3> QED
      BY <1>t, <3>1, <3>2, SizeAssumption DEF Counts
  <2> QED
    BY <2>1, <2>2, <2>3, TypeParts, PTL
<1>9. ASSUME NEW p \in Procs, read_byte(p) PROVE TypeOK'
  <2>1. Flags'
    BY <1>9, <1>t, Zenon DEF Flags, read_byte
  <2>2. Control'
    BY <1>9, <1>t, NamesAssumption, Zenon DEF Control, Writing, Reading, read_byte
  <2>3. Counts'
    BY <1>9, <1>t, <1>0, SizeAssumption DEF Counts, read_byte
  <2> QED
    BY <2>1, <2>2, <2>3, TypeParts, PTL
<1>10. ASSUME NEW p \in Procs, read_byte_lost(p) PROVE TypeOK'
  <2>1. Flags'
    BY <1>10, <1>t, Zenon DEF Flags, read_byte_lost, Return, WakeWriters, Woken
  <2>2. Control'
    BY <1>10, <1>t, NamesAssumption, Zenon DEF Control, Writing, Reading, read_byte_lost,
       Return, WakeWriters, Woken
  <2>3. Counts'
    BY <1>10, <1>t, <1>0, SizeAssumption DEF Counts, read_byte_lost, Return, WakeWriters, Woken
  <2> QED
    BY <2>1, <2>2, <2>3, TypeParts, PTL
<1>11. ASSUME NEW p \in Procs, read_return(p) PROVE TypeOK'
  <2>1. Flags'
    BY <1>11, <1>t, Zenon DEF Flags, read_return, Return, WakeWriters, Woken
  <2>2. Control'
    BY <1>11, <1>t, NamesAssumption, Zenon DEF Control, Writing, Reading, read_return, Return,
       WakeWriters, Woken
  <2>3. Counts'
    BY <1>11, <1>t, <1>0, SizeAssumption DEF Counts, read_return, Return, WakeWriters, Woken
  <2> QED
    BY <2>1, <2>2, <2>3, TypeParts, PTL
<1>12. ASSUME NEW p \in Procs, pipeclose(p) PROVE TypeOK'
  <2>1. Flags'
    BY <1>12, <1>t, Zenon DEF Flags, pipeclose, WakeReaders, WakeWriters, Woken
  <2>2. Control'
    BY <1>12, <1>t, NamesAssumption DEF Control, Writing, Reading, pipeclose, WakeReaders,
       WakeWriters, Woken
  <2>3. Counts'
    BY <1>12, <1>t, <1>0, SizeAssumption, Zenon DEF Counts, pipeclose, WakeReaders,
       WakeWriters, Woken
  <2> QED
    BY <2>1, <2>2, <2>3, TypeParts, PTL
<1>13. ASSUME NEW p \in Procs, kill(p) PROVE TypeOK'
  <2>1. Flags'
    BY <1>13, <1>t, Zenon DEF Flags, kill
  <2>2. Control'
    BY <1>13, <1>t, NamesAssumption, Zenon DEF Control, Writing, Reading, kill
  <2>3. Counts'
    BY <1>13, <1>t, <1>0, SizeAssumption, Zenon DEF Counts, kill
  <2> QED
    BY <2>1, <2>2, <2>3, TypeParts, PTL
<1>14. CASE UNCHANGED vars
  BY <1>14, Zenon DEF vars, calls, TypeOK
<1> QED
  BY <1>1, <1>2, <1>3, <1>4, <1>5, <1>6, <1>7, <1>8, <1>9, <1>10, <1>11, <1>12, <1>13, <1>14,
     Actions, Zenon

(* What depends on the ring only.                                          *)
LEMMA RingSame == ASSUME UNCHANGED ring PROVE Full' = Full /\ Empty' = Empty /\ Fits' = Fits
BY Zenon DEF ring, Full, Empty, Fits, Used

(* Every step keeps Ends.                                                  *)
LEMMA EndsStep ==
    ASSUME TypeOK, Ends, Next PROVE Ends'
<1> USE DEF ring, ends, Goto
<1>t. Flags /\ Control /\ Counts
  BY TypeParts, Zenon
<1>1. ASSUME NEW p \in Procs, NEW k \in 1 .. MaxCount, call(p, k) PROVE Ends'
  <2>1. Full' = Full /\ Empty' = Empty
    BY <1>1, RingSame, Zenon DEF call
  <2> QED
    BY <1>1, <1>t, <2>1, Zenon DEF Control, Ends, Writing, Reading, Procs, call
<1>2. ASSUME NEW p \in Procs, acquire(p) PROVE Ends'
  <2>1. Full' = Full /\ Empty' = Empty
    BY <1>2, RingSame, Zenon DEF acquire
  <2> QED
    BY <1>2, <1>t, <2>1, Zenon DEF Control, Ends, Writing, Reading, Procs, acquire
<1>3. ASSUME NEW p \in Procs, sleep(p) PROVE Ends'
  <2>1. Full' = Full /\ Empty' = Empty
    BY <1>3, RingSame, Zenon DEF sleep
  <2> QED
    BY <1>3, <1>t, <2>1, Zenon DEF Control, Ends, Writing, Reading, Procs, sleep
<1>4. ASSUME NEW p \in Procs, NEW b \in Bytes, write_byte(p, b) PROVE Ends'
  BY <1>4, <1>t, Zenon DEF Control, Ends, Writing, Reading, Procs, write_byte, CanWrite
<1>5. ASSUME NEW p \in Procs, write_full(p) PROVE Ends'
  <2>1. Full' = Full /\ Empty' = Empty
    BY <1>5, RingSame, Zenon DEF write_full
  <2> QED
    BY <1>5, <1>t, <2>1, Zenon DEF Control, Ends, Writing, Reading, Procs, write_full,
       CanWrite, WakeReaders, Woken
<1>6. ASSUME NEW p \in Procs, write_abort(p) PROVE Ends'
  <2>1. Full' = Full /\ Empty' = Empty
    BY <1>6, RingSame, Zenon DEF write_abort
  <2> QED
    BY <1>6, <1>t, <2>1, Zenon DEF Control, Ends, Writing, Reading, Procs, write_abort, Return
<1>7. ASSUME NEW p \in Procs, write_return(p) PROVE Ends'
  <2>1. Full' = Full /\ Empty' = Empty
    BY <1>7, RingSame, Zenon DEF write_return
  <2> QED
    BY <1>7, <1>t, <2>1, Zenon DEF Control, Ends, Writing, Reading, Procs, write_return,
       CanWrite, Return, WakeReaders, Woken
<1>8. ASSUME NEW p \in Procs, read_wait(p) PROVE Ends'
  <2>1. Full' = Full /\ Empty' = Empty
    BY <1>8, RingSame, Zenon DEF read_wait
  <2> QED
    BY <1>8, <1>t, <2>1 DEF Control, Ends, Writing, Reading, Procs, read_wait, Return
<1>9. ASSUME NEW p \in Procs, read_byte(p) PROVE Ends'
  BY <1>9, <1>t, Zenon DEF Control, Ends, Writing, Reading, Procs, read_byte
<1>10. ASSUME NEW p \in Procs, read_byte_lost(p) PROVE Ends'
  BY <1>10, <1>t, Zenon DEF Control, Ends, Writing, Reading, Procs, read_byte_lost, Return,
     WakeWriters, Woken
<1>11. ASSUME NEW p \in Procs, read_return(p) PROVE Ends'
  <2>1. Full' = Full /\ Empty' = Empty
    BY <1>11, RingSame, Zenon DEF read_return
  <2> QED
    BY <1>11, <1>t, <2>1, Zenon DEF Control, Ends, Writing, Reading, Procs, read_return,
       Return, WakeWriters, Woken
<1>12. ASSUME NEW p \in Procs, pipeclose(p) PROVE Ends'
  <2>1. Full' = Full /\ Empty' = Empty
    BY <1>12, RingSame, Zenon DEF pipeclose
  <2> QED
    BY <1>12, <1>t, <2>1 DEF Control, Ends, Writing, Reading, Procs, pipeclose, WakeReaders,
       WakeWriters, Woken
<1>13. ASSUME NEW p \in Procs, kill(p) PROVE Ends'
  <2>1. Full' = Full /\ Empty' = Empty
    BY <1>13, RingSame, Zenon DEF kill
  <2> QED
    BY <1>13, <1>t, <2>1, Zenon DEF Control, Ends, Writing, Reading, Procs, kill
<1>14. CASE UNCHANGED vars
  <2>1. Full' = Full /\ Empty' = Empty
    BY <1>14, RingSame, Zenon DEF vars
  <2> QED
    BY <1>14, <2>1, Zenon DEF vars, calls, Ends, Writing, Reading, Procs
<1> QED
  BY <1>1, <1>2, <1>3, <1>4, <1>5, <1>6, <1>7, <1>8, <1>9, <1>10, <1>11, <1>12, <1>13, <1>14,
     Actions, Zenon

(* Every step keeps Asleep: whoever makes room or stores bytes wakes the   *)
(* other side before it gives up pi->lock, or is on the way to do so.      *)
LEMMA AsleepStep ==
    ASSUME TypeOK, Ends, Asleep, Next PROVE Asleep'
<1> USE DEF ring, ends, Goto
<1>t. Flags /\ Control /\ Counts
  BY TypeParts, Zenon
<1>1. ASSUME NEW p \in Procs, NEW k \in 1 .. MaxCount, call(p, k) PROVE Asleep'
  <2>1. Full' = Full /\ Empty' = Empty
    BY <1>1, RingSame, Zenon DEF call
  <2> QED
    BY <1>1, <1>t, <2>1, Zenon DEF Control, Asleep, MustWait, Flags, call
<1>2. ASSUME NEW p \in Procs, acquire(p) PROVE Asleep'
  <2>1. Full' = Full /\ Empty' = Empty
    BY <1>2, RingSame, Zenon DEF acquire
  <2> QED
    BY <1>2, <1>t, <2>1, Zenon DEF Control, Asleep, MustWait, Flags, acquire
<1>3. ASSUME NEW p \in Procs, sleep(p) PROVE Asleep'
  <2>1. Full' = Full /\ Empty' = Empty
    BY <1>3, RingSame, Zenon DEF sleep
  <2> QED
    BY <1>3, <1>t, <2>1, Zenon DEF Control, Asleep, MustWait, Flags, sleep
<1>4. ASSUME NEW p \in Procs, NEW b \in Bytes, write_byte(p, b) PROVE Asleep'
  BY <1>4, <1>t, Zenon DEF Control, Asleep, MustWait, Flags, write_byte, CanWrite
<1>5. ASSUME NEW p \in Procs, write_full(p) PROVE Asleep'
  <2>1. Full' = Full /\ Empty' = Empty
    BY <1>5, RingSame, Zenon DEF write_full
  <2> QED
    BY <1>5, <1>t, <2>1, Zenon DEF Control, Asleep, MustWait, Flags, write_full, CanWrite,
       WakeReaders, Woken
<1>6. ASSUME NEW p \in Procs, write_abort(p) PROVE Asleep'
  <2>1. Full' = Full /\ Empty' = Empty
    BY <1>6, RingSame, Zenon DEF write_abort
  <2> QED
    BY <1>6, <1>t, <2>1, Zenon DEF Control, Asleep, MustWait, Flags, write_abort, Return
<1>7. ASSUME NEW p \in Procs, write_return(p) PROVE Asleep'
  <2>1. Full' = Full /\ Empty' = Empty
    BY <1>7, RingSame, Zenon DEF write_return
  <2> QED
    BY <1>7, <1>t, <2>1, Zenon DEF Control, Asleep, MustWait, Flags, write_return, CanWrite,
       Return, WakeReaders, Woken
<1>8. ASSUME NEW p \in Procs, read_wait(p) PROVE Asleep'
  <2>1. Full' = Full /\ Empty' = Empty
    BY <1>8, RingSame, Zenon DEF read_wait
  <2> QED
    BY <1>8, <1>t, <2>1 DEF Control, Asleep, MustWait, Flags, read_wait, Return
<1>9. ASSUME NEW p \in Procs, read_byte(p) PROVE Asleep'
  BY <1>9, <1>t, Zenon DEF Control, Asleep, MustWait, Flags, read_byte
<1>10. ASSUME NEW p \in Procs, read_byte_lost(p) PROVE Asleep'
  BY <1>10, <1>t, Zenon DEF Control, Asleep, MustWait, Flags, read_byte_lost, Return,
     WakeWriters, Woken
<1>11. ASSUME NEW p \in Procs, read_return(p) PROVE Asleep'
  <2>1. Full' = Full /\ Empty' = Empty
    BY <1>11, RingSame, Zenon DEF read_return
  <2> QED
    BY <1>11, <1>t, <2>1, Zenon DEF Control, Asleep, MustWait, Flags, read_return, Return,
       WakeWriters, Woken
<1>12. ASSUME NEW p \in Procs, pipeclose(p) PROVE Asleep'
  <2>1. Full' = Full /\ Empty' = Empty
    BY <1>12, RingSame, Zenon DEF pipeclose
  <2>2. CASE fds' \cap Writers = {} /\ writeopen
    BY <1>12, <1>t, <2>1, <2>2, NamesAssumption, Zenon DEF Control, Asleep, pipeclose,
       WakeReaders, Woken
  <2>3. CASE ~(fds' \cap Writers = {} /\ writeopen) /\ fds' \cap Readers = {} /\ readopen
    BY <1>12, <1>t, <2>1, <2>3, NamesAssumption, Zenon DEF Control, Asleep, pipeclose,
       WakeWriters, Woken
  <2>4. CASE UNCHANGED <<readopen, writeopen, pc, abandoned>>
    BY <1>12, <2>1, <2>4, Zenon DEF Asleep, pipeclose
  <2> QED
    BY <1>12, <2>2, <2>3, <2>4, Zenon DEF pipeclose
<1>13. ASSUME NEW p \in Procs, kill(p) PROVE Asleep'
  <2>1. Full' = Full /\ Empty' = Empty
    BY <1>13, RingSame, Zenon DEF kill
  <2> QED
    BY <1>13, <1>t, <2>1, Zenon DEF Control, Asleep, MustWait, Flags, kill
<1>14. CASE UNCHANGED vars
  <2>1. Full' = Full /\ Empty' = Empty
    BY <1>14, RingSame, Zenon DEF vars
  <2> QED
    BY <1>14, <2>1, Zenon DEF vars, calls, Asleep, MustWait, Flags
<1> QED
  BY <1>1, <1>2, <1>3, <1>4, <1>5, <1>6, <1>7, <1>8, <1>9, <1>10, <1>11, <1>12, <1>13, <1>14,
     Actions, Zenon

(* Every step keeps NotYet.                                                *)
LEMMA NotYetStep ==
    ASSUME TypeOK, Ends, NotYet, Next PROVE NotYet'
<1> USE DEF ring, ends, Goto
<1>t. Flags /\ Control /\ Counts
  BY TypeParts, Zenon
<1>1. ASSUME NEW p \in Procs, NEW k \in 1 .. MaxCount, call(p, k) PROVE NotYet'
  <2>1. Full' = Full /\ Empty' = Empty
    BY <1>1, RingSame, Zenon DEF call
  <2> QED
    BY <1>1, <1>t, <2>1 DEF Control, NotYet, Reading, MustWait, Counts, Flags, call
<1>2. ASSUME NEW p \in Procs, acquire(p) PROVE NotYet'
  <2>1. Full' = Full /\ Empty' = Empty
    BY <1>2, RingSame, Zenon DEF acquire
  <2> QED
    BY <1>2, <1>t, <2>1, Zenon DEF Control, NotYet, Reading, MustWait, Counts, Flags, acquire
<1>3. ASSUME NEW p \in Procs, sleep(p) PROVE NotYet'
  <2>1. Full' = Full /\ Empty' = Empty
    BY <1>3, RingSame, Zenon DEF sleep
  <2> QED
    BY <1>3, <1>t, <2>1, Zenon DEF Control, NotYet, Reading, MustWait, Counts, Flags, sleep
<1>4. ASSUME NEW p \in Procs, NEW b \in Bytes, write_byte(p, b) PROVE NotYet'
  BY <1>4, <1>t, Zenon DEF Control, NotYet, Reading, MustWait, Counts, Flags, write_byte, CanWrite
<1>5. ASSUME NEW p \in Procs, write_full(p) PROVE NotYet'
  <2>1. Full' = Full /\ Empty' = Empty
    BY <1>5, RingSame, Zenon DEF write_full
  <2> QED
    BY <1>5, <1>t, <2>1, Zenon DEF Control, NotYet, Reading, MustWait, Counts, Flags,
       write_full, CanWrite, WakeReaders, Woken
<1>6. ASSUME NEW p \in Procs, write_abort(p) PROVE NotYet'
  <2>1. Full' = Full /\ Empty' = Empty
    BY <1>6, RingSame, Zenon DEF write_abort
  <2> QED
    BY <1>6, <1>t, <2>1, Zenon DEF Control, NotYet, Reading, MustWait, Counts, Flags,
       write_abort, Return
<1>7. ASSUME NEW p \in Procs, write_return(p) PROVE NotYet'
  <2>1. Full' = Full /\ Empty' = Empty
    BY <1>7, RingSame, Zenon DEF write_return
  <2> QED
    BY <1>7, <1>t, <2>1, Zenon DEF Control, NotYet, Reading, MustWait, Counts, Flags,
       write_return, CanWrite, Return, WakeReaders, Woken
<1>8. ASSUME NEW p \in Procs, read_wait(p) PROVE NotYet'
  <2>1. Full' = Full /\ Empty' = Empty
    BY <1>8, RingSame, Zenon DEF read_wait
  <2> QED
    BY <1>8, <1>t, <2>1 DEF Control, NotYet, Reading, MustWait, Counts, Flags, read_wait, Return
<1>9. ASSUME NEW p \in Procs, read_byte(p) PROVE NotYet'
  BY <1>9, <1>t, Zenon DEF Control, NotYet, Reading, MustWait, Counts, Flags, read_byte
<1>10. ASSUME NEW p \in Procs, read_byte_lost(p) PROVE NotYet'
  BY <1>10, <1>t, Zenon DEF Control, NotYet, Reading, MustWait, Counts, Flags, read_byte_lost,
     Return, WakeWriters, Woken
<1>11. ASSUME NEW p \in Procs, read_return(p) PROVE NotYet'
  <2>1. Full' = Full /\ Empty' = Empty
    BY <1>11, RingSame, Zenon DEF read_return
  <2> QED
    BY <1>11, <1>t, <2>1, Zenon DEF Control, NotYet, Reading, MustWait, Counts, Flags,
       read_return, Return, WakeWriters, Woken
<1>12. ASSUME NEW p \in Procs, pipeclose(p) PROVE NotYet'
  <2>1. Full' = Full /\ Empty' = Empty
    BY <1>12, RingSame, Zenon DEF pipeclose
  <2> QED
    BY <1>12, <1>t, <2>1 DEF Control, NotYet, Reading, MustWait, Counts, Flags, pipeclose,
       WakeReaders, WakeWriters, Woken
<1>13. ASSUME NEW p \in Procs, kill(p) PROVE NotYet'
  <2>1. Full' = Full /\ Empty' = Empty
    BY <1>13, RingSame, Zenon DEF kill
  <2> QED
    BY <1>13, <1>t, <2>1, Zenon DEF Control, NotYet, Reading, MustWait, Counts, Flags, kill
<1>14. CASE UNCHANGED vars
  <2>1. Full' = Full /\ Empty' = Empty
    BY <1>14, RingSame, Zenon DEF vars
  <2> QED
    BY <1>14, <2>1, Zenon DEF vars, calls, NotYet, Reading, MustWait, Counts, Flags
<1> QED
  BY <1>1, <1>2, <1>3, <1>4, <1>5, <1>6, <1>7, <1>8, <1>9, <1>10, <1>11, <1>12, <1>13, <1>14,
     Actions, Zenon

(* A pipe that is not Full has room: it cannot be beyond full.             *)
LEMMA Room == ASSUME Counts, Fits, ~Full PROVE Used(nread, nwrite) < PIPESIZE
<1>1. nread \in Counter /\ nwrite \in Counter
  BY Zenon DEF Counts
<1>2. Used(nread, nwrite) \in Counter /\ Used(nread, nwrite) # PIPESIZE
  BY <1>1, UsedFacts, Zenon DEF Full
<1> DEFINE L == Used(nread, nwrite)
<1>3. L <= PIPESIZE /\ L \in Counter /\ L # PIPESIZE
  BY <1>2, Zenon DEF Fits
<1> HIDE DEF L
<1>4. L < PIPESIZE
  BY <1>3, Sizes DEF Counter
<1> QED
  BY <1>4, Zenon DEF L

(* Every step keeps Fits.                                                  *)
LEMMA FitsStep ==
    ASSUME TypeOK, Fits, Next PROVE Fits'
<1>t. Counts /\ nread \in Counter /\ nwrite \in Counter
  BY TypeParts, Zenon DEF Counts
<1>1. ASSUME NEW p \in Procs, NEW b \in Bytes, write_byte(p, b) PROVE Fits'
  <2>1. Used(nread, nwrite) < PIPESIZE
    BY <1>1, <1>t, Room, Zenon DEF write_byte
  <2>2. Used(nread, nwrite)' = Used(nread, nwrite) + 1
    BY <1>1, <1>t, <2>1, UsedWrite, Zenon DEF write_byte
  <2>3. Used(nread, nwrite) \in Counter
    BY <1>t, UsedFacts, Zenon
  <2> DEFINE L == Used(nread, nwrite)
  <2>4. L < PIPESIZE /\ L \in Counter
    BY <2>1, <2>3, Zenon
  <2> HIDE DEF L
  <2>5. L + 1 <= PIPESIZE
    BY <2>4, Sizes DEF Counter
  <2> QED
    BY <2>2, <2>5, Zenon DEF L, Fits
<1>2. ASSUME NEW p \in Procs, read_byte(p) \/ read_byte_lost(p) PROVE Fits'
  <2>1. nread' = (nread + 1) % Modulus /\ nwrite' = nwrite /\ nread # nwrite
    BY <1>2, Zenon DEF read_byte, read_byte_lost, Empty
  <2>2. Used(nread, nwrite)' = Used(nread, nwrite) - 1
    BY <1>t, <2>1, UsedRead, Zenon
  <2>3. Used(nread, nwrite) \in Counter
    BY <1>t, UsedFacts, Zenon
  <2> DEFINE L == Used(nread, nwrite)
  <2>4. L <= PIPESIZE /\ L \in Counter
    BY <2>3, Zenon DEF Fits
  <2> HIDE DEF L
  <2>5. L - 1 <= PIPESIZE
    BY <2>4, Sizes DEF Counter
  <2> QED
    BY <2>2, <2>5, Zenon DEF L, Fits
<1>3. CASE UNCHANGED ring
  BY <1>3, RingSame, Zenon
<1> QED
  BY <1>1, <1>2, <1>3, Actions, Zenon DEF vars, call, acquire, sleep, write_full, write_abort,
     write_return,
     read_wait, read_return, pipeclose, kill

(* The invariant holds in every reachable state.                           *)
LEMMA Invariance == Spec => []IInv
<1>1. IInv /\ [Next]_vars => IInv'
  <2> SUFFICES ASSUME IInv, [Next]_vars PROVE IInv'
    BY Zenon
  <2>1. TypeOK'
    BY TypeStep, Zenon DEF IInv
  <2>2. CASE Next
    BY <2>1, <2>2, EndsStep, AsleepStep, NotYetStep, FitsStep, Zenon DEF IInv
  <2>3. CASE UNCHANGED vars
    <3>1. Full' = Full /\ Empty' = Empty /\ Fits' = Fits
      BY <2>3, RingSame, Zenon DEF vars
    <3> QED
      BY <2>1, <2>3, <3>1, Zenon DEF IInv, vars, calls, ends, Ends, Asleep, NotYet, MustWait
  <2> QED
    BY <2>2, <2>3, Zenon
<1> QED
  BY <1>1, Start, PTL DEF Spec

(* While pi->lock is free, a writer is asleep only in a full pipe that can *)
(* still be read, and a reader only in an empty one that can still be      *)
(* written, or with the bytes of a pipewrite() that was killed.            *)
THEOREM NoLostWakeup == Spec => []SleepersJustified
<1>1. IInv => SleepersJustified
  <2> SUFFICES ASSUME IInv, lock = None, NEW p \in Procs
               PROVE  /\ pc[p] = "w_asleep" => Full /\ readopen
                      /\ pc[p] = "r_asleep" => (Empty \/ abandoned) /\ writeopen
    BY Zenon DEF SleepersJustified
  <2>1. \A q \in Procs : pc[q] # "r_copy" /\ pc[q] # "w_loop"
    BY NamesAssumption, TypeParts, Zenon DEF IInv, Control
  <2> QED
    BY <2>1, Zenon DEF IInv, Asleep
<1> QED
  BY <1>1, Invariance, PTL

(* piperead() returns 0 without a failed copyout() only when the pipe is   *)
(* empty and writeopen is 0.                                               *)
THEOREM EndOfFile == Spec => EofOnlyAtEnd
<1>1. IInv /\ [Next]_vars =>
        [\A p \in Procs : pc[p] = "r_copy" /\ pc'[p] = "idle" /\ ~moved[p]
            => (Empty /\ ~writeopen) \/ nread' # nread]_vars
  <2> SUFFICES ASSUME IInv, Next, NEW p \in Procs, pc[p] = "r_copy", pc'[p] = "idle", ~moved[p], nread' = nread
               PROVE  Empty /\ ~writeopen
    BY Zenon
  <2>t. Flags /\ Control /\ Counts
    BY TypeParts, Zenon DEF IInv
  <2>1. read_return(p) \/ read_byte_lost(p)
    <3> USE <2>t DEF Control, Goto
    <3>1. ASSUME NEW q \in Procs, NEW k \in 1 .. MaxCount, call(q, k) PROVE FALSE
      BY <3>1, Zenon DEF call
    <3>2. ASSUME NEW q \in Procs, acquire(q) PROVE FALSE
      BY <3>2, Zenon DEF acquire
    <3>3. ASSUME NEW q \in Procs, sleep(q) PROVE FALSE
      BY <3>3, Zenon DEF sleep
    <3>4. ASSUME NEW q \in Procs, NEW b \in Bytes, write_byte(q, b) PROVE FALSE
      BY <3>4, Zenon DEF write_byte, CanWrite
    <3>5. ASSUME NEW q \in Procs, write_full(q) PROVE FALSE
      BY <3>5, Zenon DEF write_full, CanWrite, WakeReaders, Woken
    <3>6. ASSUME NEW q \in Procs, write_abort(q) PROVE FALSE
      BY <3>6, Zenon DEF write_abort
    <3>7. ASSUME NEW q \in Procs, write_return(q) PROVE FALSE
      BY <3>7, Zenon DEF write_return, WakeReaders, Woken
    <3>8. ASSUME NEW q \in Procs, read_wait(q) PROVE FALSE
      BY <3>8, Zenon DEF read_wait
    <3>9. ASSUME NEW q \in Procs, read_byte(q) PROVE FALSE
      BY <3>9, Zenon DEF read_byte
    <3>10. ASSUME NEW q \in Procs, read_byte_lost(q) PROVE q = p
      BY <3>10, Zenon DEF read_byte_lost, WakeWriters, Woken
    <3>11. ASSUME NEW q \in Procs, read_return(q) PROVE q = p
      BY <3>11, Zenon DEF read_return, WakeWriters, Woken
    <3>12. ASSUME NEW q \in Procs, pipeclose(q) PROVE FALSE
      BY <3>12, Zenon DEF pipeclose, WakeReaders, WakeWriters, Woken
    <3>13. ASSUME NEW q \in Procs, kill(q) PROVE FALSE
      BY <3>13, Zenon DEF kill
    <3>14. CASE UNCHANGED vars
      BY <3>14, Zenon DEF vars, calls
    <3> QED
      BY <3>1, <3>2, <3>3, <3>4, <3>5, <3>6, <3>7, <3>8, <3>9, <3>10, <3>11, <3>12, <3>13,
         <3>14, Actions, Zenon
  <2>2. ~read_byte_lost(p)
    <3> SUFFICES ASSUME read_byte_lost(p) PROVE FALSE
      BY Zenon
    <3>1. nread \in Counter /\ nwrite \in Counter /\ nread # nwrite /\ nread = (nread + 1) % Modulus
      BY <2>t, Zenon DEF Counts, read_byte_lost, Empty
    <3>2. Used(nread, nwrite) = Used(nread, nwrite) - 1
      BY <3>1, UsedRead, Zenon
    <3>3. Used(nread, nwrite) \in Counter
      BY <3>1, UsedFacts, Zenon
    <3> DEFINE L == Used(nread, nwrite)
    <3>4. L = L - 1 /\ L \in Counter
      BY <3>2, <3>3, Zenon
    <3> HIDE DEF L
    <3> QED
      BY <3>4, Sizes DEF Counter
  <2> QED
    BY <2>1, <2>2 DEF read_return, IInv, NotYet, MustWait
<1> QED
  BY <1>1, Invariance, PTL DEF Spec, EofOnlyAtEnd

(* The bytes in the pipe, before and after a step.                         *)
LEMMA ContentsHeld ==
    /\ Contents = Held(data, nread, nwrite)
    /\ Contents' = Held(data', nread', nwrite')
BY Zenon DEF Contents, Held, Segment, Dist

(* A pipe is a bounded first-in first-out stream of bytes: pipewrite() puts *)
(* at the end and never overwrites, piperead() takes from the front, for any *)
(* PIPESIZE that divides 2^32, any number of readers and writers, and      *)
(* wherever the two counters have wrapped.                                 *)
THEOREM Refinement == Spec => ImplementsStream
<1>1. Init => Stream!StreamInit
  <2> SUFFICES ASSUME Init PROVE Stream!StreamInit
    BY Zenon
  <2>1. nread \in Counter /\ nwrite \in Counter /\ nread = nwrite
    BY Sizes DEF Init, Counter
  <2>2. Used(nread, nwrite) = 0
    BY <2>1, UsedFacts, Zenon
  <2>3. Contents = << >>
    BY <2>2 DEF Contents, Used, Dist
  <2> QED
    BY <2>3, Zenon DEF Init, Stream!StreamInit
<1>2. IInv /\ [Next]_vars => [Stream!StreamNext]_(Stream!svars)
  <2> SUFFICES ASSUME IInv, [Next]_vars PROVE Stream!StreamNext \/ UNCHANGED Stream!svars
    BY Zenon
  <2>t. Flags /\ Control /\ Counts /\ nread \in Counter /\ nwrite \in Counter
    BY TypeParts, Zenon DEF IInv, Counts
  <2>s. ASSUME UNCHANGED <<ring, readopen, writeopen, out>> PROVE UNCHANGED Stream!svars
    BY <2>s, Zenon DEF ring, Contents, Stream!svars
  <2>1. ASSUME NEW p \in Procs, NEW b \in Bytes, write_byte(p, b) PROVE Stream!Put(b)
    <3>1. Used(nread, nwrite) < PIPESIZE
      BY <2>1, <2>t, Room, Zenon DEF write_byte, IInv
    <3>2. Contents' = Append(Contents, b)
      BY <2>1, <2>t, <3>1, HeldWrite, ContentsHeld, Zenon DEF write_byte, Counts
    <3>3. Len(Contents) < PIPESIZE
      BY <2>t, <3>1, HeldLen, ContentsHeld, Zenon
    <3>4. readopen /\ writeopen
      BY <2>1, Zenon DEF write_byte, CanWrite, IInv, Ends, Writing
    <3> QED
      BY <2>1, <3>2, <3>3, <3>4, Zenon DEF write_byte, ends, Stream!Put
  <2>2. ASSUME NEW p \in Procs, read_byte(p) \/ read_byte_lost(p) PROVE Stream!Take
    <3>1. /\ nread' = (nread + 1) % Modulus /\ nwrite' = nwrite /\ data' = data /\ nread # nwrite
          /\ UNCHANGED <<readopen, writeopen>> /\ out' \in {data[nread % PIPESIZE], None}
      BY <2>2, Zenon DEF read_byte, read_byte_lost, Empty, ends
    <3>2. Contents # << >> /\ Contents' = Tail(Contents) /\ Head(Contents) = data[nread % PIPESIZE]
      BY <2>t, <3>1, HeldRead, ContentsHeld, Zenon DEF IInv, Fits, Counts
    <3>3. readopen
      BY <2>2, Zenon DEF read_byte, read_byte_lost, IInv, Ends, Reading
    <3> QED
      BY <3>1, <3>2, <3>3, Zenon DEF Stream!Take
  <2>3. ASSUME NEW p \in Procs, pipeclose(p) PROVE Stream!CloseRead \/ Stream!CloseWrite \/ UNCHANGED Stream!svars
    <3>1. Contents' = Contents /\ out' = out
      BY <2>3, Zenon DEF pipeclose, ring, Contents
    <3>2. \/ writeopen /\ writeopen' = FALSE /\ readopen' = readopen
          \/ readopen /\ readopen' = FALSE /\ writeopen' = writeopen
          \/ UNCHANGED <<readopen, writeopen>>
      BY <2>3, Zenon DEF pipeclose
    <3> QED
      BY <3>1, <3>2, Zenon DEF Stream!CloseRead, Stream!CloseWrite, Stream!svars
  <2>4. CASE UNCHANGED vars
    BY <2>4, <2>s, Zenon DEF vars, ends
  <2>5. CASE Next
    <3>1. ASSUME NEW p \in Procs, NEW k \in 1 .. MaxCount, call(p, k) PROVE UNCHANGED Stream!svars
      BY <3>1, <2>s, Zenon DEF call, ends
    <3>2. ASSUME NEW p \in Procs, acquire(p) \/ sleep(p) \/ kill(p) PROVE UNCHANGED Stream!svars
      BY <3>2, <2>s, Zenon DEF acquire, sleep, kill, ends
    <3>3. ASSUME NEW p \in Procs, write_full(p) \/ write_abort(p) \/ write_return(p) PROVE UNCHANGED Stream!svars
      BY <3>3, <2>s, Zenon DEF write_full, write_abort, write_return, ends
    <3>4. ASSUME NEW p \in Procs, read_wait(p) \/ read_return(p) PROVE UNCHANGED Stream!svars
      BY <3>4, <2>s, Zenon DEF read_wait, read_return, ends
    <3> QED
      BY <2>1, <2>2, <2>3, <2>4, <2>5, <3>1, <3>2, <3>3, <3>4, Actions, Zenon
         DEF Stream!StreamNext
  <2> QED
    BY <2>4, <2>5, Zenon
<1> QED
  BY <1>1, <1>2, Invariance, PTL DEF Spec, ImplementsStream, Stream!StreamSpec
=============================================================================
