-------------------------------- MODULE Rings -------------------------------
(***************************************************************************)
(* Ring buffers with free-running indices, as the pipe, the console, the   *)
(* UART driver and the virtio queues have them: the indices are unsigned   *)
(* and wrap at M (2^16, 2^32 or 2^64), and an index i stands for the place *)
(* i % N of a buffer of N places, where N divides M.                       *)
(***************************************************************************)
EXTENDS Integers, Sequences, TLAPS

Ring(N, M) == N \in Nat \ {0} /\ M \in Nat \ {0} /\ M >= N /\ M % N = 0

Index(M) == 0 .. M - 1

(* How many entries lie from index r up to index w.                        *)
Dist(r, w, M) == (w - r) % M

(* The entries from r up to w.                                             *)
Segment(d, r, w, N, M) == [k \in 1 .. Dist(r, w, M) |-> d[(r + k - 1) % N]]

(* The same as a set, and that no two of them are equal.                   *)
Window(d, r, w, N, M) == {d[(r + k) % N] : k \in 0 .. Dist(r, w, M) - 1}
Apart(d, r, w, N, M) ==
    \A i, j \in 0 .. Dist(r, w, M) - 1 : i # j => d[(r + i) % N] # d[(r + j) % N]

(* d and e agree on all places but x.                                      *)
Agree(d, e, x, N) == \A i \in 0 .. N - 1 : i # x => e[i] = d[i]

(* t is s with one more entry, and s without its first one.                *)
Appended(t, s, b) == t = Append(s, b)
Behead(t, s, b) == s # << >> /\ b = Head(s) /\ t = Tail(s)

(* u is s and then t.                                                      *)
Joins(u, s, t) == u = s \o t

-----------------------------------------------------------------------------
(* Remainders.                                                             *)

(* Division with remainder.                                                *)
LEMMA ModDef ==
    ASSUME NEW x \in Int, NEW m \in Nat \ {0}
    PROVE  x % m \in 0 .. m - 1 /\ \E d \in Int : x = m * d + (x % m)
<1>1. x \div m \in Int /\ x % m \in 0 .. m - 1 /\ x = m * (x \div m) + (x % m)
  BY SMT
<1> QED
  BY <1>1, Zenon

(* The only multiple of m between -m and m is 0.                           *)
LEMMA Multiple ==
    ASSUME NEW m \in Nat \ {0}, NEW e \in Int, m * e > -m, m * e < m
    PROVE  e = 0
<1>1. CASE e >= 1
  <2>1. m * e >= m * 1
    BY <1>1, SMT
  <2> QED
    BY <2>1
<1>2. CASE e <= -1
  <2>1. m * e <= m * (-1)
    BY <1>2, SMT
  <2> QED
    BY <2>1
<1> QED
  BY <1>1, <1>2

(* A remainder in range is the remainder.                                  *)
LEMMA ModUnique ==
    ASSUME NEW x \in Int, NEW m \in Nat \ {0}, NEW d \in Int, NEW r \in 0 .. m - 1, x = m * d + r
    PROVE  x % m = r
<1>1. PICK e \in Int : x = m * e + (x % m)
  BY ModDef, Zenon
<1>2. x % m \in 0 .. m - 1
  BY ModDef, Zenon
<1>3. m * (d - e) = m * d - m * e
  BY SMT
<1>4. m * d \in Int /\ m * e \in Int
  BY SMT
<1>5. m * (d - e) = (x % m) - r
  BY <1>1, <1>3, <1>4, <1>2
<1>6. d - e = 0
  BY <1>5, <1>2, Multiple
<1> QED
  BY <1>6, <1>1, <1>4, <1>2

(* Multiples of m do not change the remainder.                             *)
LEMMA ModShift ==
    ASSUME NEW x \in Int, NEW c \in Int, NEW m \in Nat \ {0}
    PROVE  (x + m * c) % m = x % m
<1>1. PICK d \in Int : x = m * d + (x % m)
  BY ModDef, Zenon
<1>2. x % m \in 0 .. m - 1
  BY ModDef, Zenon
<1>3. m * (d + c) = m * d + m * c /\ m * d \in Int /\ m * c \in Int /\ d + c \in Int
  BY SMT
<1>4. x + m * c = m * (d + c) + (x % m)
  BY <1>1, <1>2, <1>3
<1>5. x + m * c \in Int
  BY <1>3
<1> QED
  BY <1>2, <1>3, <1>4, <1>5, ModUnique, Zenon

(* A sum may be reduced on the way, as uint arithmetic does.               *)
LEMMA ModSum ==
    ASSUME NEW x \in Int, NEW y \in Int, NEW m \in Nat \ {0}
    PROVE  ((x % m) + y) % m = (x + y) % m
<1>1. PICK d \in Int : x = m * d + (x % m)
  BY ModDef, Zenon
<1>2. x % m \in Int /\ (x % m) + y \in Int /\ m * d \in Int
  BY ModDef, SMT
<1>3. x + y = ((x % m) + y) + m * d
  BY <1>1, <1>2
<1>4. (((x % m) + y) + m * d) % m = ((x % m) + y) % m
  BY <1>2, ModShift, Zenon
<1> QED
  BY <1>3, <1>4, Zenon

(* So may a difference.                                                    *)
LEMMA ModNegSum ==
    ASSUME NEW x \in Int, NEW y \in Int, NEW m \in Nat \ {0}
    PROVE  (y - (x % m)) % m = (y - x) % m
<1>1. PICK d \in Int : x = m * d + (x % m)
  BY ModDef, Zenon
<1>2. y - x \in Int /\ m * d \in Int /\ x % m \in Int
  BY ModDef, SMT
<1>3. y - (x % m) = (y - x) + m * d
  BY <1>1, <1>2
<1>4. ((y - x) + m * d) % m = (y - x) % m
  BY <1>2, ModShift, Zenon
<1> QED
  BY <1>3, <1>4, Zenon

(* An index names the same place of the buffer whether it has wrapped or   *)
(* not, because N divides M.                                               *)
LEMMA ModWrap ==
    ASSUME NEW N \in Nat, NEW M \in Nat, Ring(N, M), NEW x \in Int, NEW y \in Int
    PROVE  ((x % M) + y) % N = (x + y) % N
<1>0. N \in Nat \ {0} /\ M \in Nat \ {0} /\ M % N = 0
  BY Zenon DEF Ring
<1>1. PICK c \in Int : M = N * c
  <2>1. PICK c \in Int : M = N * c + (M % N)
    <3>1. M \in Int
      BY <1>0
    <3> QED
      BY <1>0, <3>1, ModDef, Zenon
  <2>2. N * c \in Int
    BY <1>0, SMT
  <2> QED
    BY <1>0, <2>1, <2>2
<1>2. PICK d \in Int : x = M * d + (x % M)
  BY <1>0, ModDef, Zenon
<1>3. x % M \in Int
  BY <1>0, ModDef
<1>4. M * d = N * (c * d) /\ c * d \in Int /\ N * (c * d) \in Int
  BY <1>0, <1>1, SMT
<1>5. x + y = ((x % M) + y) + N * (c * d)
  <2> DEFINE z == M * d
  <2>1. x = z + (x % M) /\ z \in Int /\ z = N * (c * d)
    BY <1>2, <1>4, Zenon
  <2> HIDE DEF z
  <2>2. x + y = ((x % M) + y) + z
    BY <1>3, <2>1
  <2> QED
    BY <2>1, <2>2, Zenon
<1>6. (x % M) + y \in Int
  BY <1>3
<1>7. (((x % M) + y) + N * (c * d)) % N = ((x % M) + y) % N
  BY <1>0, <1>4, <1>6, ModShift, ZenonT(40)
<1> QED
  BY <1>5, <1>7, Zenon

(* Indices less than N apart have different places.                        *)
LEMMA ModApart ==
    ASSUME NEW N \in Nat \ {0}, NEW x \in Int, NEW k \in 1 .. N - 1
    PROVE  x % N # (x + k) % N
<1> SUFFICES ASSUME x % N = (x + k) % N PROVE FALSE
  BY Zenon
<1>1. PICK d \in Int : x = N * d + (x % N)
  BY ModDef, Zenon
<1>2. PICK e \in Int : x + k = N * e + ((x + k) % N)
  <2>1. x + k \in Int
    OBVIOUS
  <2> QED
    BY <2>1, ModDef, Zenon
<1>3. N * (e - d) = N * e - N * d /\ N * e \in Int /\ N * d \in Int
  BY SMT
<1>4. x % N \in Int
  BY ModDef
<1>5. N * (e - d) = k
  BY <1>1, <1>2, <1>3, <1>4
<1>6. e - d = 0
  BY <1>5, Multiple
<1> QED
  BY <1>5, <1>6

-----------------------------------------------------------------------------
(* How many entries there are.                                             *)

(* An index is its own remainder.                                          *)
LEMMA IndexMod ==
    ASSUME NEW M \in Nat \ {0}, NEW x \in Index(M)
    PROVE  x \in Nat /\ x < M /\ x % M = x
<1>1. x \in Int /\ 0 \in Int /\ x = M * 0 + x /\ x \in 0 .. M - 1
  BY DEF Index
<1>2. x % M = x
  BY <1>1, ModUnique, Zenon
<1> QED
  BY <1>1, <1>2

(* r = w means empty, and no other difference does; the distance leads     *)
(* from one index to the other.                                            *)
LEMMA DistFacts ==
    ASSUME NEW M \in Nat \ {0}, NEW r \in Index(M), NEW w \in Index(M)
    PROVE  /\ Dist(r, w, M) \in Nat /\ Dist(r, w, M) < M
           /\ (Dist(r, w, M) + r) % M = w
           /\ r = w <=> Dist(r, w, M) = 0
<1>0. r \in Int /\ w \in Int /\ w - r \in Int /\ r \in Nat
  BY DEF Index
<1>1. Dist(r, w, M) \in 0 .. M - 1
  BY <1>0, ModDef, Zenon DEF Dist
<1>2. (Dist(r, w, M) + r) % M = w
  <2>1. (((w - r) % M) + r) % M = ((w - r) + r) % M
    BY <1>0, ModSum, Zenon
  <2>2. (w - r) + r = w
    BY <1>0
  <2> QED
    BY <2>1, <2>2, IndexMod, Zenon DEF Dist
<1>3. r = w => Dist(r, w, M) = 0
  <2>1. w - w = 0 /\ 0 \in Index(M)
    BY <1>0 DEF Index
  <2> QED
    BY <2>1, IndexMod, Zenon DEF Dist
<1>4. Dist(r, w, M) = 0 => r = w
  <2>1. 0 + r = r
    BY <1>0
  <2> QED
    BY <1>2, <2>1, IndexMod, Zenon
<1> QED
  BY <1>1, <1>2, <1>3, <1>4

(* Moving w forward adds one, even as it wraps, while the ring is not full. *)
LEMMA DistWrite ==
    ASSUME NEW M \in Nat \ {0}, NEW r \in Index(M), NEW w \in Index(M), Dist(r, w, M) + 1 < M
    PROVE  (w + 1) % M \in Index(M) /\ Dist(r, (w + 1) % M, M) = Dist(r, w, M) + 1
<1>0. /\ r \in Int /\ w \in Int /\ w - r \in Int
      /\ -r \in Int /\ w + 1 \in Int /\ 1 \in Int /\ Dist(r, w, M) \in Nat
  BY DistFacts DEF Index
<1>1. (w + 1) % M \in Index(M)
  BY <1>0, ModDef, Zenon DEF Index
<1>2. (((w + 1) % M) + (-r)) % M = ((w + 1) + (-r)) % M
  BY <1>0, ModSum, Zenon
<1>3. ((w + 1) % M) + (-r) = ((w + 1) % M) - r /\ (w + 1) + (-r) = (w - r) + 1
  BY <1>0, <1>1 DEF Index
<1>4. (((w - r) % M) + 1) % M = ((w - r) + 1) % M
  BY <1>0, ModSum, Zenon
<1>5. Dist(r, w, M) + 1 \in Index(M)
  BY <1>0 DEF Index
<1>6. (Dist(r, w, M) + 1) % M = Dist(r, w, M) + 1
  BY <1>5, IndexMod, Zenon
<1>7. Dist(r, (w + 1) % M, M) = Dist(r, w, M) + 1
  BY <1>2, <1>3, <1>4, <1>6, Zenon DEF Dist
<1> QED
  BY <1>1, <1>7, Zenon

(* Moving r forward takes one, even as it wraps, while the ring is not     *)
(* empty.                                                                  *)
LEMMA DistRead ==
    ASSUME NEW M \in Nat \ {0}, NEW r \in Index(M), NEW w \in Index(M), r # w
    PROVE  (r + 1) % M \in Index(M) /\ Dist((r + 1) % M, w, M) = Dist(r, w, M) - 1
<1>0. /\ r \in Int /\ w \in Int /\ w - r \in Int /\ r + 1 \in Int /\ -1 \in Int
      /\ Dist(r, w, M) \in Nat /\ Dist(r, w, M) < M /\ Dist(r, w, M) # 0
  BY DistFacts DEF Index
<1>1. (r + 1) % M \in Index(M)
  BY <1>0, ModDef, Zenon DEF Index
<1>2. (w - ((r + 1) % M)) % M = (w - (r + 1)) % M
  BY <1>0, ModNegSum, Zenon
<1>3. w - (r + 1) = (w - r) + (-1)
  BY <1>0
<1>4. (((w - r) % M) + (-1)) % M = ((w - r) + (-1)) % M
  BY <1>0, ModSum, Zenon
<1>5. Dist(r, w, M) + (-1) \in Index(M) /\ Dist(r, w, M) + (-1) = Dist(r, w, M) - 1
  BY <1>0 DEF Index
<1>6. (Dist(r, w, M) + (-1)) % M = Dist(r, w, M) - 1
  BY <1>5, IndexMod, Zenon
<1>7. Dist((r + 1) % M, w, M) = Dist(r, w, M) - 1
  BY <1>2, <1>3, <1>4, <1>6, Zenon DEF Dist
<1> QED
  BY <1>1, <1>7, Zenon

-----------------------------------------------------------------------------
(* Where the entries are.                                                  *)

(* The next place to write is Dist places after r.                         *)
LEMMA PlaceWrite ==
    ASSUME NEW N \in Nat, NEW M \in Nat, Ring(N, M), NEW r \in Index(M), NEW w \in Index(M)
    PROVE  /\ w % N = (r + Dist(r, w, M)) % N /\ w % N \in 0 .. N - 1
           /\ \A k \in Nat : (r + k) % N \in 0 .. N - 1
<1> DEFINE L == Dist(r, w, M)
<1>0. N \in Nat \ {0} /\ M \in Nat \ {0}
  BY Zenon DEF Ring
<1>1. r \in Nat /\ w \in Nat /\ L \in Nat /\ (L + r) % M = w
  BY <1>0, DistFacts, IndexMod
<1> HIDE DEF L
<1>2. w % N = (r + L) % N
  <2>1. L + r \in Int /\ 0 \in Int /\ w + 0 = w /\ (L + r) + 0 = r + L
    BY <1>1
  <2>2. (((L + r) % M) + 0) % N = ((L + r) + 0) % N
    BY <2>1, ModWrap, ZenonT(40)
  <2> QED
    BY <1>1, <2>1, <2>2, Zenon
<1>3. \A k \in Nat : (r + k) % N \in 0 .. N - 1
  <2> TAKE k \in Nat
  <2>1. r + k \in Int
    BY <1>1
  <2> QED
    BY <1>0, <2>1, ModDef, Zenon
<1>4. w % N \in 0 .. N - 1
  BY <1>1, <1>2, <1>3, Zenon
<1> QED
  BY <1>2, <1>3, <1>4, Zenon DEF L

(* Entries of a ring that holds no more than N have different places.      *)
LEMMA PlacesApart ==
    ASSUME NEW N \in Nat \ {0}, NEW r \in Nat, NEW i \in Nat, NEW k \in Nat, i < k, k < N
    PROVE  (r + i) % N # (r + k) % N
<1>1. r + i \in Int /\ k - i \in 1 .. N - 1 /\ (r + i) + (k - i) = r + k
  OBVIOUS
<1>2. (r + i) % N # ((r + i) + (k - i)) % N
  BY <1>1, ModApart, Zenon
<1> QED
  BY <1>1, <1>2, Zenon

(* Once r has moved, an entry is one place nearer.                         *)
LEMMA PlaceRead ==
    ASSUME NEW N \in Nat, NEW M \in Nat, Ring(N, M), NEW r \in Index(M), NEW k \in Nat
    PROVE  (((r + 1) % M) + k) % N = (r + (k + 1)) % N
<1>1. r \in Nat /\ r + 1 \in Int /\ k \in Int /\ (r + 1) + k = r + (k + 1)
  BY IndexMod DEF Ring
<1>2. (((r + 1) % M) + k) % N = ((r + 1) + k) % N
  BY <1>1, ModWrap, ZenonT(40)
<1> QED
  BY <1>1, <1>2, Zenon

-----------------------------------------------------------------------------
(* The entries.                                                            *)

(* As many as Dist says.                                                   *)
LEMMA SegmentLen ==
    ASSUME NEW N, NEW M \in Nat \ {0}, NEW r \in Index(M), NEW w \in Index(M), NEW d
    PROVE  Len(Segment(d, r, w, N, M)) = Dist(r, w, M)
<1> DEFINE L == Dist(r, w, M)
<1>1. L \in Nat
  BY DistFacts, Zenon
<1> HIDE DEF L
<1>2. Len([k \in 1 .. L |-> d[(r + k - 1) % N]]) = L
  BY <1>1
<1> QED
  BY <1>2, Zenon DEF L, Segment

(* Storing at w appends, as it touches no entry of the ring.               *)
LEMMA SegmentWrite ==
    ASSUME NEW N \in Nat, NEW M \in Nat, Ring(N, M), NEW S, NEW d \in [0 .. N - 1 -> S], NEW e \in [0 .. N - 1 -> S],
           NEW r \in Index(M), NEW w \in Index(M), Dist(r, w, M) < N, Dist(r, w, M) + 1 < M,
           Agree(d, e, w % N, N)
    PROVE  Appended(Segment(e, r, (w + 1) % M, N, M), Segment(d, r, w, N, M), e[w % N])
<1> DEFINE b == e[w % N]
           L == Dist(r, w, M)
           At(k) == (r + k - 1) % N
<1> N \in Nat \ {0} /\ M \in Nat \ {0}
  BY Zenon DEF Ring
<1>0. /\ L \in Nat /\ Dist(r, (w + 1) % M, M) = L + 1 /\ r \in Nat
  BY DistFacts, DistWrite, IndexMod, Zenon
<1>1. \A k \in 1 .. L + 1 : k - 1 \in Nat /\ r + (k - 1) = r + k - 1
  <2> HIDE DEF L
  <2> QED  BY <1>0
<1>2. \A k \in 1 .. L + 1 : At(k) \in 0 .. N - 1
  <2> TAKE k \in 1 .. L + 1
  <2>1. (r + (k - 1)) % N \in 0 .. N - 1
    BY <1>1, PlaceWrite, ZenonT(40)
  <2> QED
    BY <1>1, <2>1, Zenon
<1>3. \A k \in 1 .. L : At(k) # w % N
  <2> TAKE k \in 1 .. L
  <2>1. k \in 1 .. L + 1 /\ k - 1 \in Nat /\ k - 1 < L
    <3> HIDE DEF L
    <3> QED  BY <1>0
  <2>2. (r + (k - 1)) % N # (r + L) % N
    BY <1>0, <2>1, PlacesApart, Zenon
  <2>3. w % N = (r + L) % N
    BY PlaceWrite, ZenonT(40)
  <2> QED
    BY <1>1, <2>1, <2>2, <2>3, Zenon
<1>4. At(L + 1) = w % N
  <2>1. r + (L + 1) - 1 = r + L
    <3> HIDE DEF L
    <3> QED  BY <1>0
  <2>2. w % N = (r + L) % N
    BY PlaceWrite, ZenonT(40)
  <2> QED
    BY <2>1, <2>2, Zenon
<1>5. \A k \in 1 .. L + 1 : e[At(k)] = IF k = L + 1 THEN b ELSE d[At(k)]
  <2> HIDE DEF At, L
  <2> QED
    BY <1>0, <1>2, <1>3, <1>4 DEF Agree
<1>6. b \in S /\ \A k \in 1 .. L : d[At(k)] \in S
  <2>1. w % N \in 0 .. N - 1
    BY PlaceWrite, ZenonT(40)
  <2> HIDE DEF At, L
  <2> QED
    BY <1>0, <1>2, <2>1
<1> HIDE DEF b, L, At
<1>7. Segment(d, r, w, N, M) = [k \in 1 .. L |-> d[At(k)]]
  BY Zenon DEF Segment, L, At
<1>8. Segment(e, r, (w + 1) % M, N, M) = [k \in 1 .. L + 1 |-> e[At(k)]]
  BY <1>0, Zenon DEF Segment, L, At
<1>9. [k \in 1 .. L + 1 |-> e[At(k)]] = Append([k \in 1 .. L |-> d[At(k)]], b)
  BY <1>0, <1>5, <1>6
<1> QED
  BY <1>7, <1>8, <1>9, Zenon DEF b, Appended

(* Reading at r takes the first entry away.                                *)
LEMMA SegmentRead ==
    ASSUME NEW N \in Nat, NEW M \in Nat, Ring(N, M), NEW S, NEW d \in [0 .. N - 1 -> S],
           NEW r \in Index(M), NEW w \in Index(M), r # w
    PROVE  Behead(Segment(d, (r + 1) % M, w, N, M), Segment(d, r, w, N, M), d[r % N])
<1> DEFINE L == Dist(r, w, M)
           At(k) == (r + k - 1) % N
           s == (r + 1) % M
<1> N \in Nat \ {0} /\ M \in Nat \ {0}
  BY Zenon DEF Ring
<1>0. L \in Nat /\ L # 0 /\ Dist(s, w, M) = L - 1 /\ s \in Index(M) /\ r \in Nat
  <2>1. L \in Nat /\ L # 0 /\ r \in Nat
    BY DistFacts, IndexMod
  <2> QED
    BY <2>1, DistRead, Zenon
<1>1. At(1) = r % N
  <2>1. r + 1 - 1 = r
    BY <1>0
  <2> QED
    BY <2>1, Zenon
<1>2. \A k \in 1 .. L : At(k) \in 0 .. N - 1
  <2> TAKE k \in 1 .. L
  <2>1. r + k - 1 \in Int
    <3> HIDE DEF L
    <3> QED  BY <1>0
  <2> QED
    BY <1>0, <2>1, ModDef, Zenon
<1>3. \A k \in 1 .. L - 1 : (s + k - 1) % N = At(k + 1)
  <2> TAKE k \in 1 .. L - 1
  <2>1. k - 1 \in Nat /\ r + ((k - 1) + 1) = r + (k + 1) - 1 /\ s + (k - 1) = s + k - 1
    <3>1. s \in Nat
      BY <1>0, IndexMod, Zenon
    <3> HIDE DEF L, s
    <3> QED  BY <1>0, <3>1
  <2>2. (s + (k - 1)) % N = (r + ((k - 1) + 1)) % N
    BY <2>1, PlaceRead, ZenonT(40)
  <2> QED
    BY <2>1, <2>2, Zenon
<1>4. \A k \in 1 .. L : d[At(k)] \in S
  <2> HIDE DEF At, L
  <2> QED
    BY <1>0, <1>2, Zenon
<1> DEFINE q == [k \in 1 .. L |-> d[At(k)]]
           t == [k \in 1 .. L - 1 |-> d[At(k + 1)]]
<1>5. Segment(d, r, w, N, M) = q
  BY Zenon DEF Segment
<1>6. Segment(d, s, w, N, M) = t
  <2>1. Segment(d, s, w, N, M) = [k \in 1 .. L - 1 |-> d[(s + k - 1) % N]]
    BY <1>0, Zenon DEF Segment
  <2> HIDE DEF At, L, s
  <2> QED
    BY <1>3, <2>1, Zenon
<1> HIDE DEF At, L
<1>7. q \in Seq(S) /\ Len(q) = L
  BY <1>0, <1>4
<1>8. q # << >> /\ Head(q) = d[At(1)]
  BY <1>0, <1>7, SMTT(30)
<1>9. Tail(q) = t
  <2>1. \A k \in 1 .. L - 1 : k + 1 \in 1 .. L /\ q[k + 1] = d[At(k + 1)]
    BY <1>0
  <2>2. L - 1 \in Nat /\ \A k \in 1 .. L - 1 : d[At(k + 1)] \in S
    <3>1. L - 1 \in Nat
      BY <1>0
    <3> HIDE DEF q, t
    <3> QED
      BY <1>4, <2>1, <3>1, Zenon
  <2>3. t \in Seq(S) /\ Len(t) = L - 1
    BY <2>2
  <2>4. \A k \in 1 .. L - 1 : t[k] = d[At(k + 1)]
    BY Zenon
  <2> HIDE DEF q, t
  <2>5. \A k \in 1 .. L - 1 : t[k] = q[k + 1]
    BY <2>1, <2>4, Zenon
  <2>6. Len(Tail(q)) = Len(q) - 1 /\ \A k \in 1 .. Len(q) - 1 : Tail(q)[k] = q[k + 1]
    BY <1>7, <1>8
  <2>7. Tail(q) \in Seq(S)
    BY <1>7, <1>8
  <2> QED
    BY <1>7, <2>3, <2>5, <2>6, <2>7
<1> HIDE DEF q, t
<1> QED
  BY <1>1, <1>5, <1>6, <1>8, <1>9, Zenon DEF Behead

-----------------------------------------------------------------------------
(* The entries as a set.                                                   *)

(* Only what is stored between the indices matters.                        *)
LEMMA WindowSame ==
    ASSUME NEW N, NEW M, NEW r, NEW w, NEW d, NEW e,
           \A k \in 0 .. Dist(r, w, M) - 1 : e[(r + k) % N] = d[(r + k) % N]
    PROVE  /\ Window(e, r, w, N, M) = Window(d, r, w, N, M)
           /\ Apart(e, r, w, N, M) <=> Apart(d, r, w, N, M)
<1> DEFINE D == 0 .. Dist(r, w, M) - 1
           At(k) == (r + k) % N
<1>1. \A k \in D : e[At(k)] = d[At(k)]
  BY Zenon
<1>2. /\ Window(e, r, w, N, M) = {e[At(k)] : k \in D}
      /\ Window(d, r, w, N, M) = {d[At(k)] : k \in D}
      /\ Apart(e, r, w, N, M) <=> \A i, j \in D : i # j => e[At(i)] # e[At(j)]
      /\ Apart(d, r, w, N, M) <=> \A i, j \in D : i # j => d[At(i)] # d[At(j)]
  BY Zenon DEF Window, Apart
<1> HIDE DEF D, At
<1> QED
  BY <1>1, <1>2

(* A store at w, while there is room, is outside.                          *)
LEMMA WindowStore ==
    ASSUME NEW N \in Nat, NEW M \in Nat, Ring(N, M), NEW r \in Index(M), NEW w \in Index(M),
           Dist(r, w, M) < N, NEW d, NEW e, Agree(d, e, w % N, N)
    PROVE  /\ Window(e, r, w, N, M) = Window(d, r, w, N, M)
           /\ Apart(e, r, w, N, M) <=> Apart(d, r, w, N, M)
<1> N \in Nat \ {0} /\ M \in Nat \ {0}
  BY Zenon DEF Ring
<1> DEFINE L == Dist(r, w, M)
<1>1. L \in Nat /\ r \in Nat
  BY DistFacts, IndexMod, Zenon
<1>2. w % N = (r + L) % N /\ \A k \in Nat : (r + k) % N \in 0 .. N - 1
  BY PlaceWrite, ZenonT(40)
<1>3. ASSUME NEW k \in 0 .. L - 1 PROVE e[(r + k) % N] = d[(r + k) % N]
  <2>1. k \in Nat /\ k < L
    <3> HIDE DEF L
    <3> QED  BY <1>1
  <2>2. (r + k) % N # (r + L) % N
    BY <1>1, <2>1, PlacesApart, Zenon
  <2> QED
    BY <1>2, <2>1, <2>2, Zenon DEF Agree
<1> QED
  BY <1>3, WindowSame, Zenon

(* Moving w forward adds the entry at w.                                   *)
LEMMA WindowWrite ==
    ASSUME NEW N \in Nat, NEW M \in Nat, Ring(N, M), NEW r \in Index(M), NEW w \in Index(M),
           Dist(r, w, M) + 1 < M, NEW d
    PROVE  /\ \A h : h \in Window(d, r, (w + 1) % M, N, M) <=>
                      h \in Window(d, r, w, N, M) \/ h = d[w % N]
           /\ Apart(d, r, w, N, M) /\ d[w % N] \notin Window(d, r, w, N, M) =>
                 Apart(d, r, (w + 1) % M, N, M)
<1> N \in Nat \ {0} /\ M \in Nat \ {0}
  BY Zenon DEF Ring
<1> DEFINE L == Dist(r, w, M)
           At(k) == d[(r + k) % N]
<1>1. L \in Nat
  BY DistFacts, Zenon
<1>2. d[w % N] = At(L)
  BY PlaceWrite, ZenonT(40)
<1>3. Dist(r, (w + 1) % M, M) = L + 1
  BY DistWrite, Zenon
<1>4. /\ Window(d, r, w, N, M) = {At(k) : k \in 0 .. L - 1}
      /\ Apart(d, r, w, N, M) <=> \A i, j \in 0 .. L - 1 : i # j => At(i) # At(j)
  BY Zenon DEF Window, Apart
<1>5. /\ Window(d, r, (w + 1) % M, N, M) = {At(k) : k \in 0 .. (L + 1) - 1}
      /\ Apart(d, r, (w + 1) % M, N, M) <=> \A i, j \in 0 .. (L + 1) - 1 : i # j => At(i) # At(j)
  BY <1>3, Zenon DEF Window, Apart
<1> HIDE DEF L, At
<1>6. \A k : k \in 0 .. (L + 1) - 1 <=> k \in 0 .. L - 1 \/ k = L
  BY <1>1
<1> QED
  BY <1>2, <1>4, <1>5, <1>6, Zenon

(* Moving r forward takes the entry at r.                                  *)
LEMMA WindowRead ==
    ASSUME NEW N \in Nat, NEW M \in Nat, Ring(N, M), NEW r \in Index(M), NEW w \in Index(M),
           r # w, NEW d, Apart(d, r, w, N, M)
    PROVE  /\ d[r % N] \in Window(d, r, w, N, M)
           /\ \A h : h \in Window(d, (r + 1) % M, w, N, M) <=>
                      h \in Window(d, r, w, N, M) /\ h # d[r % N]
           /\ Apart(d, (r + 1) % M, w, N, M)
<1> N \in Nat \ {0} /\ M \in Nat \ {0}
  BY Zenon DEF Ring
<1> DEFINE L == Dist(r, w, M)
           At(k) == d[(r + k) % N]
<1>1. L \in Nat /\ L # 0 /\ r \in Nat
  BY DistFacts, IndexMod
<1>2. d[r % N] = At(0)
  <2>1. r + 0 = r
    BY <1>1
  <2> QED  BY <2>1, Zenon
<1>3. Dist((r + 1) % M, w, M) = L - 1
  BY DistRead, Zenon
<1>4. \A k \in Nat : d[(((r + 1) % M) + k) % N] = At(k + 1)
  BY PlaceRead, ZenonT(40)
<1>5. /\ Window(d, r, w, N, M) = {At(k) : k \in 0 .. L - 1}
      /\ \A i, j \in 0 .. L - 1 : i # j => At(i) # At(j)
  BY Zenon DEF Window, Apart
<1> DEFINE B(k) == d[(((r + 1) % M) + k) % N]
<1>6. /\ Window(d, (r + 1) % M, w, N, M) = {B(k) : k \in 0 .. (L - 1) - 1}
      /\ Apart(d, (r + 1) % M, w, N, M) <=> \A i, j \in 0 .. (L - 1) - 1 : i # j => B(i) # B(j)
  BY <1>3, Zenon DEF Window, Apart
<1>7. \A k \in Nat : B(k) = At(k + 1)
  BY <1>4, Zenon
<1> HIDE DEF L, At, B
<1>8. /\ \A k \in 0 .. (L - 1) - 1 : k \in Nat /\ k + 1 \in 0 .. L - 1 /\ k + 1 # 0
      /\ \A k \in 0 .. L - 1 : k # 0 => k - 1 \in 0 .. (L - 1) - 1 /\ (k - 1) + 1 = k
      /\ \A i, j \in 0 .. (L - 1) - 1 : i # j => i + 1 # j + 1
      /\ 0 \in 0 .. L - 1
  BY <1>1
<1>9. d[r % N] \in Window(d, r, w, N, M)
  BY <1>2, <1>5, <1>8
<1>10. ASSUME NEW h
       PROVE  h \in Window(d, (r + 1) % M, w, N, M) <=>
                 h \in Window(d, r, w, N, M) /\ h # d[r % N]
  <2>1. ASSUME h \in Window(d, (r + 1) % M, w, N, M)
        PROVE  h \in Window(d, r, w, N, M) /\ h # d[r % N]
    <3>1. PICK k \in 0 .. (L - 1) - 1 : h = B(k)
      BY <2>1, <1>6, Zenon
    <3>2. h = At(k + 1) /\ k + 1 \in 0 .. L - 1 /\ k + 1 # 0
      BY <3>1, <1>7, <1>8, Zenon
    <3>3. h \in Window(d, r, w, N, M)
      BY <3>2, <1>5, Zenon
    <3>4. h # At(0)
      BY <3>2, <1>5, <1>8, Zenon
    <3> QED  BY <3>3, <3>4, <1>2, Zenon
  <2>2. ASSUME h \in Window(d, r, w, N, M), h # d[r % N]
        PROVE  h \in Window(d, (r + 1) % M, w, N, M)
    <3>1. PICK k \in 0 .. L - 1 : h = At(k)
      BY <2>2, <1>5, Zenon
    <3>2. k # 0
      BY <2>2, <3>1, <1>2, Zenon
    <3>3. k - 1 \in 0 .. (L - 1) - 1 /\ k - 1 \in Nat /\ (k - 1) + 1 = k
      BY <3>2, <1>8, Zenon
    <3>4. h = B(k - 1)
      BY <3>1, <3>3, <1>7, Zenon
    <3> QED  BY <3>3, <3>4, <1>6, Zenon
  <2> QED  BY <2>1, <2>2, Zenon
<1>11. Apart(d, (r + 1) % M, w, N, M)
  BY <1>5, <1>6, <1>7, <1>8, Zenon
<1> QED
  BY <1>9, <1>10, <1>11, Zenon

(* A store at r, once r has moved on, is outside.                          *)
LEMMA WindowClear ==
    ASSUME NEW N \in Nat, NEW M \in Nat, Ring(N, M), NEW r \in Index(M), NEW w \in Index(M),
           r # w, Dist(r, w, M) < N, NEW d, NEW e, Agree(d, e, r % N, N)
    PROVE  /\ \A h : h \in Window(e, (r + 1) % M, w, N, M) <=> h \in Window(d, (r + 1) % M, w, N, M)
           /\ Apart(e, (r + 1) % M, w, N, M) <=> Apart(d, (r + 1) % M, w, N, M)
           /\ e[w % N] = d[w % N]
<1> N \in Nat \ {0} /\ M \in Nat \ {0}
  BY Zenon DEF Ring
<1> DEFINE L == Dist(r, w, M)
<1>1. L \in Nat /\ L # 0 /\ r \in Nat
  BY DistFacts, IndexMod
<1>2. w % N = (r + L) % N /\ \A k \in Nat : (r + k) % N \in 0 .. N - 1
  BY PlaceWrite, ZenonT(40)
<1>3. Dist((r + 1) % M, w, M) = L - 1
  BY DistRead, Zenon
<1>4. ASSUME NEW k \in Nat, k # 0, k < N PROVE e[(r + k) % N] = d[(r + k) % N]
  <2>1. 0 \in Nat /\ 0 < k /\ r + 0 = r
    BY <1>1, <1>4
  <2>2. (r + 0) % N # (r + k) % N
    BY <1>1, <1>4, <2>1, PlacesApart, Zenon
  <2>3. (r + k) % N \in 0 .. N - 1 /\ (r + k) % N # r % N
    BY <1>2, <2>1, <2>2, Zenon
  <2> QED
    BY <2>3, Zenon DEF Agree
<1>5. ASSUME NEW k \in 0 .. (L - 1) - 1
      PROVE  e[(((r + 1) % M) + k) % N] = d[(((r + 1) % M) + k) % N]
  <2>1. k \in Nat /\ k + 1 \in Nat /\ k + 1 # 0 /\ k + 1 < N
    <3>1. L < N
      BY Zenon
    <3> HIDE DEF L
    <3> QED  BY <1>1, <3>1
  <2>2. (((r + 1) % M) + k) % N = (r + (k + 1)) % N
    BY <2>1, PlaceRead, ZenonT(40)
  <2> QED
    BY <1>4, <2>1, <2>2, Zenon
<1>6. e[w % N] = d[w % N]
  BY <1>1, <1>2, <1>4, Zenon
<1>7. /\ Window(e, (r + 1) % M, w, N, M) = Window(d, (r + 1) % M, w, N, M)
      /\ Apart(e, (r + 1) % M, w, N, M) <=> Apart(d, (r + 1) % M, w, N, M)
  BY <1>3, <1>5, WindowSame, Zenon
<1> QED
  BY <1>6, <1>7, Zenon

-----------------------------------------------------------------------------
(* A ring with three indices in order, r, w and e, as the input buffer has. *)

(* Distances add up.                                                       *)
LEMMA DistChain ==
    ASSUME NEW M \in Nat \ {0}, NEW r \in Index(M), NEW w \in Index(M), NEW e \in Index(M),
           Dist(r, w, M) + Dist(w, e, M) < M
    PROVE  Dist(r, e, M) = Dist(r, w, M) + Dist(w, e, M)
<1> DEFINE A == Dist(r, w, M)
           B == Dist(w, e, M)
<1>1. A \in Nat /\ B \in Nat /\ A + B < M
  BY DistFacts, Zenon
<1>2. /\ r \in Int /\ w \in Int /\ e \in Int /\ w - r \in Int /\ e - w \in Int
      /\ (w - r) + (e - w) = e - r
  BY DEF Index
<1>3. (((w - r) % M) + (e - w)) % M = ((w - r) + (e - w)) % M
  BY <1>2, ModSum, Zenon
<1>4. A \in Int /\ (((e - w) % M) + A) % M = ((e - w) + A) % M
  <2>1. A \in Int
    <3> HIDE DEF A
    <3> QED  BY <1>1
  <2> QED  BY <1>2, <2>1, ModSum, Zenon
<1>5. (e - w) + A = A + (e - w) /\ B + A = A + B /\ A + B \in Index(M)
  <2> HIDE DEF A, B
  <2> QED  BY <1>1, <1>2 DEF Index
<1>6. (A + B) % M = A + B
  BY <1>5, IndexMod, Zenon
<1>7. Dist(r, e, M) = (A + (e - w)) % M
  BY <1>2, <1>3, Zenon DEF Dist
<1>8. (B + A) % M = ((e - w) + A) % M
  BY <1>4, Zenon DEF Dist
<1> QED
  BY <1>5, <1>6, <1>7, <1>8, Zenon

(* Moving w back takes one.                                                *)
LEMMA DistBack ==
    ASSUME NEW M \in Nat \ {0}, NEW r \in Index(M), NEW w \in Index(M), r # w
    PROVE  (w - 1) % M \in Index(M) /\ Dist(r, (w - 1) % M, M) = Dist(r, w, M) - 1
<1>0. /\ r \in Int /\ w \in Int /\ w - r \in Int /\ w - 1 \in Int /\ -1 \in Int /\ -r \in Int
      /\ Dist(r, w, M) \in Nat /\ Dist(r, w, M) < M /\ Dist(r, w, M) # 0
  BY DistFacts DEF Index
<1>1. (w - 1) % M \in Index(M)
  BY <1>0, ModDef, Zenon DEF Index
<1>2. (((w - 1) % M) + (-r)) % M = ((w - 1) + (-r)) % M
  BY <1>0, ModSum, Zenon
<1>3. ((w - 1) % M) + (-r) = ((w - 1) % M) - r /\ (w - 1) + (-r) = (w - r) + (-1)
  BY <1>0, <1>1 DEF Index
<1>4. (((w - r) % M) + (-1)) % M = ((w - r) + (-1)) % M
  BY <1>0, ModSum, Zenon
<1>5. Dist(r, w, M) + (-1) \in Index(M) /\ Dist(r, w, M) + (-1) = Dist(r, w, M) - 1
  BY <1>0 DEF Index
<1>6. (Dist(r, w, M) + (-1)) % M = Dist(r, w, M) - 1
  BY <1>5, IndexMod, Zenon
<1> QED
  BY <1>1, <1>2, <1>3, <1>4, <1>6, Zenon DEF Dist

(* Moving w back by all there is leads to r.                               *)
LEMMA DistAll ==
    ASSUME NEW M \in Nat \ {0}, NEW r \in Index(M), NEW w \in Index(M)
    PROVE  (w - Dist(r, w, M)) % M = r
<1>1. r \in Int /\ w \in Int /\ w - r \in Int /\ w - (w - r) = r
  BY DEF Index
<1>2. (w - ((w - r) % M)) % M = (w - (w - r)) % M
  BY <1>1, ModNegSum, Zenon
<1> QED
  BY <1>1, <1>2, IndexMod, Zenon DEF Dist

(* Where the entry j before w is.                                          *)
LEMMA PlaceBack ==
    ASSUME NEW N \in Nat, NEW M \in Nat, Ring(N, M), NEW r \in Index(M), NEW w \in Index(M),
           NEW j \in 1 .. Dist(r, w, M)
    PROVE  ((w - j) % M) % N = (r + (Dist(r, w, M) - j)) % N
<1> DEFINE L == Dist(r, w, M)
<1>0. M \in Nat \ {0}
  BY Zenon DEF Ring
<1>1. L \in Nat /\ (L + r) % M = w /\ r \in Nat /\ w \in Nat
  BY <1>0, DistFacts, IndexMod
<1>2. j \in 1 .. L
  BY Zenon
<1> HIDE DEF L
<1>3. /\ L + r \in Int /\ -j \in Int /\ w - j \in Int /\ 0 \in Int /\ (L + r) + (-j) = r + (L - j)
      /\ w + (-j) = w - j /\ (w - j) + 0 = w - j
  BY <1>1, <1>2
<1>4. (((L + r) % M) + (-j)) % N = ((L + r) + (-j)) % N
  BY <1>3, ModWrap, ZenonT(40)
<1>5. (((w - j) % M) + 0) % N = ((w - j) + 0) % N
  BY <1>3, ModWrap, ZenonT(40)
<1>6. ((w - j) % M) + 0 = (w - j) % M
  <2>1. (w - j) % M \in Int
    BY <1>0, <1>3, ModDef
  <2> QED  BY <2>1
<1> QED
  BY <1>1, <1>3, <1>4, <1>5, <1>6, Zenon DEF L

(* Where the entries after w are, counted from r.                          *)
LEMMA PlaceChain ==
    ASSUME NEW N \in Nat, NEW M \in Nat, Ring(N, M), NEW r \in Index(M), NEW w \in Index(M),
           NEW k \in Nat
    PROVE  (w + k) % N = (r + (Dist(r, w, M) + k)) % N
<1> DEFINE L == Dist(r, w, M)
<1>0. M \in Nat \ {0}
  BY Zenon DEF Ring
<1>1. L \in Nat /\ (L + r) % M = w /\ r \in Nat
  BY <1>0, DistFacts, IndexMod
<1> HIDE DEF L
<1>2. L + r \in Int /\ k \in Int /\ (L + r) + k = r + (L + k)
  BY <1>1
<1>3. (((L + r) % M) + k) % N = ((L + r) + k) % N
  BY <1>2, ModWrap, ZenonT(40)
<1> QED
  BY <1>1, <1>2, <1>3, Zenon DEF L

(* The place at w is outside of what lies before it.                       *)
LEMMA Outside ==
    ASSUME NEW N \in Nat, NEW M \in Nat, Ring(N, M), NEW r \in Index(M), NEW w \in Index(M),
           Dist(r, w, M) < N, NEW k \in Nat, k < Dist(r, w, M)
    PROVE  (r + k) % N \in 0 .. N - 1 /\ (r + k) % N # w % N
<1>1. N \in Nat \ {0} /\ M \in Nat \ {0}
  BY Zenon DEF Ring
<1>2. Dist(r, w, M) \in Nat /\ r \in Nat
  BY <1>1, DistFacts, IndexMod, Zenon
<1>3. (r + k) % N # (r + Dist(r, w, M)) % N
  BY <1>1, <1>2, PlacesApart, Zenon
<1>4. w % N = (r + Dist(r, w, M)) % N /\ (r + k) % N \in 0 .. N - 1
  BY PlaceWrite, ZenonT(40)
<1> QED
  BY <1>3, <1>4, Zenon

(* Only what is stored between the indices matters.                        *)
LEMMA SegmentSame ==
    ASSUME NEW N, NEW M \in Nat \ {0}, NEW r \in Index(M), NEW w \in Index(M), NEW d, NEW e,
           \A k \in Nat : k < Dist(r, w, M) => e[(r + k) % N] = d[(r + k) % N]
    PROVE  Segment(e, r, w, N, M) = Segment(d, r, w, N, M)
<1> DEFINE L == Dist(r, w, M)
<1>1. L \in Nat /\ r \in Nat
  BY DistFacts, IndexMod, Zenon
<1>2. \A k \in Nat : k < L => e[(r + k) % N] = d[(r + k) % N]
  BY Zenon
<1>3. \A k \in 1 .. L : k - 1 \in Nat /\ k - 1 < L /\ r + (k - 1) = r + k - 1
  <2> HIDE DEF L
  <2> QED  BY <1>1
<1>4. \A k \in 1 .. L : e[(r + k - 1) % N] = d[(r + k - 1) % N]
  <2> HIDE DEF L
  <2> QED  BY <1>2, <1>3, Zenon
<1> QED
  BY <1>4, Zenon DEF Segment

(* One sequence after another.                                             *)
LEMMA Joined ==
    ASSUME NEW S, NEW s \in Seq(S), NEW t \in Seq(S), NEW u \in Seq(S), Len(u) = Len(s) + Len(t),
           \A k \in 1 .. Len(s) : u[k] = s[k], \A k \in 1 .. Len(t) : u[Len(s) + k] = t[k]
    PROVE  u = s \o t
<1>1. Len(s) \in Nat /\ Len(t) \in Nat /\ Len(u) \in Nat
  OBVIOUS
<1>2. s \o t \in Seq(S)
  OBVIOUS
<1>3. Len(s \o t) = Len(u)
  OBVIOUS
<1>4. ASSUME NEW k \in 1 .. Len(u) PROVE u[k] = (s \o t)[k]
  <2>1. CASE k <= Len(s)
    <3>1. k \in 1 .. Len(s)
      BY <1>1, <2>1
    <3>2. (s \o t)[k] = s[k]
      BY <3>1
    <3> QED
      BY <3>1, <3>2, Zenon
  <2>2. CASE k > Len(s)
    <3>1. k - Len(s) \in 1 .. Len(t) /\ Len(s) + (k - Len(s)) = k
      BY <1>1, <2>2
    <3>2. (s \o t)[k] = t[k - Len(s)]
      BY <1>1, <2>2
    <3> QED
      BY <3>1, <3>2, Zenon
  <2> QED
    BY <1>1, <2>1, <2>2
<1> DEFINE v == s \o t
<1>5. v \in Seq(S) /\ Len(v) = Len(u) /\ \A k \in 1 .. Len(u) : u[k] = v[k]
  BY <1>2, <1>3, <1>4, Zenon
<1> HIDE DEF v
<1>6. u = v
  BY <1>5
<1> QED
  BY <1>6, Zenon DEF v

(* What lies from r to e is what lies from r to w and then from w to e.    *)
LEMMA SegmentJoin ==
    ASSUME NEW N \in Nat, NEW M \in Nat, Ring(N, M), NEW S, NEW d \in [0 .. N - 1 -> S],
           NEW r \in Index(M), NEW w \in Index(M), NEW e \in Index(M),
           Dist(r, w, M) + Dist(w, e, M) < M
    PROVE  Joins(Segment(d, r, e, N, M), Segment(d, r, w, N, M), Segment(d, w, e, N, M))
<1> DEFINE A == Dist(r, w, M)
           B == Dist(w, e, M)
           f(k) == d[(r + k - 1) % N]
           g(k) == d[(w + k - 1) % N]
<1>0. N \in Nat \ {0} /\ M \in Nat \ {0}
  BY Zenon DEF Ring
<1>1. A \in Nat /\ B \in Nat /\ r \in Nat /\ w \in Nat
  BY <1>0, DistFacts, IndexMod, Zenon
<1>2. Dist(r, e, M) = A + B
  BY <1>0, DistChain, Zenon
<1>3. \A k \in 1 .. B : g(k) = f(A + k)
  <2> TAKE k \in 1 .. B
  <2>1. k - 1 \in Nat /\ w + (k - 1) = w + k - 1 /\ r + (A + (k - 1)) = r + (A + k) - 1
    <3> HIDE DEF A, B
    <3> QED  BY <1>1
  <2>2. (w + (k - 1)) % N = (r + (A + (k - 1))) % N
    BY <2>1, PlaceChain, ZenonT(40)
  <2> QED
    BY <2>1, <2>2, Zenon
<1>4. \A k \in 1 .. A + B : f(k) \in S
  <2> TAKE k \in 1 .. A + B
  <2>1. k - 1 \in Nat /\ r + (k - 1) = r + k - 1
    <3> HIDE DEF A, B
    <3> QED  BY <1>1
  <2>2. (r + (k - 1)) % N \in 0 .. N - 1
    BY <2>1, PlaceWrite, ZenonT(40)
  <2> QED
    BY <2>1, <2>2, Zenon
<1>5. /\ Segment(d, r, e, N, M) = [k \in 1 .. A + B |-> f(k)]
      /\ Segment(d, r, w, N, M) = [k \in 1 .. A |-> f(k)]
      /\ Segment(d, w, e, N, M) = [k \in 1 .. B |-> g(k)]
  BY <1>2, Zenon DEF Segment
<1> HIDE DEF A, B, f, g
<1> DEFINE s == [k \in 1 .. A |-> f(k)]
           t == [k \in 1 .. B |-> g(k)]
           u == [k \in 1 .. A + B |-> f(k)]
<1>6. \A k \in 1 .. A : k \in 1 .. A + B
  BY <1>1
<1>7. \A k \in 1 .. B : A + k \in 1 .. A + B
  BY <1>1
<1>8. s \in Seq(S) /\ Len(s) = A /\ u \in Seq(S) /\ Len(u) = A + B
  BY <1>1, <1>4, <1>6
<1>9. t \in Seq(S) /\ Len(t) = B
  BY <1>1, <1>3, <1>4, <1>7
<1>10. /\ \A k \in 1 .. A : u[k] = s[k]
       /\ \A k \in 1 .. B : u[A + k] = t[k]
  BY <1>3, <1>6, <1>7, Zenon
<1> HIDE DEF s, t, u
<1>13. u = s \o t
  <2>1. /\ Len(u) = Len(s) + Len(t)
        /\ \A k \in 1 .. Len(s) : u[k] = s[k]
        /\ \A k \in 1 .. Len(t) : u[Len(s) + k] = t[k]
    BY <1>8, <1>9, <1>10, Zenon
  <2> QED
    BY <1>8, <1>9, <2>1, Joined, Zenon
<1> QED
  BY <1>5, <1>13, Zenon DEF s, t, u, Joins

(* Moving w back drops the last entry.                                     *)
LEMMA SegmentBack ==
    ASSUME NEW N \in Nat, NEW M \in Nat, Ring(N, M), NEW S, NEW d \in [0 .. N - 1 -> S],
           NEW r \in Index(M), NEW w \in Index(M), r # w
    PROVE  LET s == Segment(d, r, w, N, M) IN
           s # << >> /\ Segment(d, r, (w - 1) % M, N, M) = SubSeq(s, 1, Len(s) - 1)
<1> DEFINE L == Dist(r, w, M)
           f(k) == d[(r + k - 1) % N]
<1>0. N \in Nat \ {0} /\ M \in Nat \ {0}
  BY Zenon DEF Ring
<1>1. L \in Nat /\ L # 0 /\ r \in Nat
  BY <1>0, DistFacts, IndexMod
<1>2. Dist(r, (w - 1) % M, M) = L - 1
  BY <1>0, DistBack, Zenon
<1>3. \A k \in 1 .. L : f(k) \in S
  <2> TAKE k \in 1 .. L
  <2>1. k - 1 \in Nat /\ r + (k - 1) = r + k - 1
    <3> HIDE DEF L
    <3> QED  BY <1>1
  <2>2. (r + (k - 1)) % N \in 0 .. N - 1
    BY <2>1, PlaceWrite, ZenonT(40)
  <2> QED
    BY <2>1, <2>2, Zenon
<1>4. /\ Segment(d, r, w, N, M) = [k \in 1 .. L |-> f(k)]
      /\ Segment(d, r, (w - 1) % M, N, M) = [k \in 1 .. L - 1 |-> f(k)]
  BY <1>2, Zenon DEF Segment
<1> HIDE DEF L, f
<1> DEFINE s == [k \in 1 .. L |-> f(k)]
           t == [k \in 1 .. L - 1 |-> f(k)]
<1>5. s \in Seq(S) /\ Len(s) = L /\ t \in Seq(S) /\ Len(t) = L - 1
  BY <1>1, <1>3
<1>6. \A k \in 1 .. L - 1 : t[k] = s[k]
  BY <1>1
<1> HIDE DEF s, t
<1>7. s # << >> /\ t = SubSeq(s, 1, Len(s) - 1)
  BY <1>1, <1>5, <1>6
<1> QED
  BY <1>4, <1>7, Zenon DEF s, t
=============================================================================
