----------------------------- MODULE KeysProofs -----------------------------
(***************************************************************************)
(* Proofs about Keys.  The bytes of every key, mouse event and paste are a *)
(* sequence of units: bytes that the remote reads as one event whatever    *)
(* comes behind them.  So at any time the bytes under way fall into units, *)
(* one for each event that was sent and not yet read (StreamInv), whatever *)
(* the modes were when they were sent.  That numbers are read as they were *)
(* written is an induction over the digits, in set form: CountUp.          *)
(***************************************************************************)
EXTENDS Keys, SequenceTheorems, WellFoundedInduction, TLAPS

Byte == 0..255

(* What the remote reads for a key or an event of the mouse.                *)
Meaning(e) ==
    IF e.code = "Char"
    THEN Key("Char", IF "CONTROL" \in e.mods THEN Lower(e.n) ELSE e.n,
             e.mods \ {"SHIFT"})
    ELSE IF e.code = "MouseUp"
         THEN Button("MouseUp", "any", e.col, e.row, e.mods)
    ELSE IF e.code \in MouseCodes THEN e
    ELSE Key(e.code, e.n, {})

(* Bytes that are read as one event, whatever comes behind them.            *)
Unit(bs, ev) ==
    /\ bs \in Seq(Byte) /\ bs # <<>>
    /\ \A rest \in Seq(Byte) : ReadOne(bs \o rest) = [ev |-> ev, n |-> Len(bs)]

(* Bytes that fall into units, one for each of some events; the i-th unit   *)
(* ends at cut[i].                                                          *)
Cuts(bs, evs, cut) ==
    /\ cut \in [0..Len(evs) -> Nat]
    /\ cut[0] = 0 /\ cut[Len(evs)] = Len(bs)
    /\ \A i \in 1..Len(evs) :
          /\ cut[i - 1] < cut[i] /\ cut[i] <= Len(bs)
          /\ Unit(SubSeq(bs, cut[i - 1] + 1, cut[i]), evs[i])

Carries(bs, evs) == bs \in Seq(Byte) /\ \E cut : Cuts(bs, evs, cut)

-----------------------------------------------------------------------------
(* Induction up to n, for a set of numbers.                                 *)
LEMMA CountUp ==
    ASSUME NEW n \in Nat, NEW S, 0 \in S,
           \A i \in 0..(n - 1) : i \in S => i + 1 \in S
    PROVE  \A i \in 0..n : i \in S
<1> DEFINE T == {i \in 0..n : i \notin S}
<1> SUFFICES ASSUME T # {} PROVE FALSE
  OBVIOUS
<1>1. T \subseteq Nat
  OBVIOUS
<1>2. PICK t \in T : \A y \in T : ~(<<y, t>> \in OpToRel(<, Nat))
  BY <1>1, NatLessThanWellFounded, WFMin
<1>3. \A y \in T : ~(y < t)
  BY <1>1, <1>2 DEF OpToRel
<1>4. t # 0 /\ t \in 0..n
  OBVIOUS
<1>5. t - 1 \in 0..(n - 1) /\ t - 1 < t
  BY <1>4
<1>6. t - 1 \in S
  BY <1>3, <1>4, <1>5
<1>7. (t - 1) + 1 = t
  BY <1>4
<1> QED BY <1>4, <1>5, <1>6, <1>7

(* Sequences of bytes. *)

LEMMA Joins ==
    ASSUME NEW X, NEW a \in Seq(X), NEW b \in Seq(X)
    PROVE  /\ a \o b \in Seq(X) /\ Len(a \o b) = Len(a) + Len(b)
           /\ Len(a) \in Nat /\ Len(b) \in Nat
           /\ \A i \in 1..Len(a) : (a \o b)[i] = a[i]
           /\ \A i \in 1..Len(b) : (a \o b)[Len(a) + i] = b[i]
<1>1. /\ a \o b \in Seq(X) /\ Len(a \o b) = Len(a) + Len(b)
      /\ \A i \in 1..(Len(a) + Len(b)) : (a \o b)[i] =
            IF i <= Len(a) THEN a[i] ELSE b[i - Len(a)]
  BY ConcatProperties
<1>2. Len(a) \in Nat /\ Len(b) \in Nat
  BY LenProperties
<1>3. \A i \in 1..Len(a) : i \in 1..(Len(a) + Len(b)) /\ i <= Len(a)
  BY <1>2
<1>4. \A i \in 1..Len(b) : /\ Len(a) + i \in 1..(Len(a) + Len(b))
                           /\ ~(Len(a) + i <= Len(a)) /\ (Len(a) + i) - Len(a) = i
  BY <1>2
<1> QED BY <1>1, <1>2, <1>3, <1>4

LEMMA Piece ==
    ASSUME NEW X, NEW s \in Seq(X), NEW i \in Nat, NEW j \in Nat, i <= j, j <= Len(s)
    PROVE  /\ SubSeq(s, i + 1, j) \in Seq(X) /\ Len(SubSeq(s, i + 1, j)) = j - i
           /\ \A k \in 1..(j - i) : SubSeq(s, i + 1, j)[k] = s[i + k]
<1>1. Len(s) \in Nat
  BY LenProperties
<1>2. CASE i = j
  <2>1. SubSeq(s, i + 1, j) = <<>>
    BY <1>1, <1>2
  <2> QED BY <1>2, <2>1
<1>3. CASE i < j
  <2>1. /\ SubSeq(s, i + 1, j) \in Seq(X)
        /\ Len(SubSeq(s, i + 1, j)) = j - i
    BY <1>1, <1>3
  <2> QED BY <1>1, <1>3, <2>1
<1> QED BY <1>2, <1>3

(* Sequences are equal when their elements are.                             *)
LEMMA Same ==
    ASSUME NEW X, NEW a \in Seq(X), NEW b \in Seq(X), Len(a) = Len(b),
           \A i \in 1..Len(a) : a[i] = b[i]
    PROVE  a = b
BY SeqEqual

(* A piece of a piece of the front, and a piece behind it.                  *)
LEMMA PieceOfFront ==
    ASSUME NEW X, NEW a \in Seq(X), NEW b \in Seq(X),
           NEW i \in Nat, NEW j \in Nat, i <= j, j <= Len(a)
    PROVE  SubSeq(a \o b, i + 1, j) = SubSeq(a, i + 1, j)
<1>1. /\ a \o b \in Seq(X) /\ Len(a \o b) = Len(a) + Len(b)
      /\ Len(a) \in Nat /\ Len(b) \in Nat
      /\ \A k \in 1..Len(a) : (a \o b)[k] = a[k]
  BY Joins
<1> DEFINE w == a \o b
           x == SubSeq(w, i + 1, j)
           y == SubSeq(a, i + 1, j)
<1> HIDE DEF w, x, y
<1>2. x \in Seq(X) /\ Len(x) = j - i /\ \A k \in 1..(j - i) : x[k] = w[i + k]
  <2>1. w \in Seq(X) /\ j <= Len(w)
    BY <1>1 DEF w
  <2> QED BY <2>1, Piece DEF x
<1>3. y \in Seq(X) /\ Len(y) = j - i /\ \A k \in 1..(j - i) : y[k] = a[i + k]
  BY Piece DEF y
<1>4. ASSUME NEW k \in 1..(j - i) PROVE x[k] = y[k]
  <2>1. i + k \in 1..Len(a)
    BY <1>1
  <2> QED BY <1>1, <1>2, <1>3, <2>1 DEF w
<1>5. x = y
  BY <1>2, <1>3, <1>4, Same
<1> QED BY <1>5 DEF x, y, w

LEMMA PieceBehind ==
    ASSUME NEW X, NEW a \in Seq(X), NEW b \in Seq(X),
           NEW i \in Nat, NEW j \in Nat, i <= j, j <= Len(b)
    PROVE  SubSeq(a \o b, Len(a) + i + 1, Len(a) + j) = SubSeq(b, i + 1, j)
<1>1. /\ a \o b \in Seq(X) /\ Len(a \o b) = Len(a) + Len(b)
      /\ Len(a) \in Nat /\ Len(b) \in Nat
      /\ \A k \in 1..Len(b) : (a \o b)[Len(a) + k] = b[k]
  BY Joins
<1> DEFINE w == a \o b
           L == Len(a)
           x == SubSeq(w, L + i + 1, L + j)
           y == SubSeq(b, i + 1, j)
<1> HIDE DEF w, x, y, L
<1>2. /\ L \in Nat /\ w \in Seq(X) /\ Len(w) = L + Len(b)
      /\ \A k \in 1..Len(b) : w[L + k] = b[k]
  BY <1>1 DEF w, L
<1>3. x \in Seq(X) /\ Len(x) = j - i /\ \A k \in 1..(j - i) : x[k] = w[L + i + k]
  <2>1. /\ L + i \in Nat /\ L + j \in Nat /\ L + i <= L + j /\ L + j <= Len(w)
        /\ (L + j) - (L + i) = j - i
    BY <1>1, <1>2
  <2> DEFINE p == L + i
             q == L + j
  <2> HIDE DEF p, q
  <2>2. /\ SubSeq(w, p + 1, q) \in Seq(X) /\ Len(SubSeq(w, p + 1, q)) = q - p
        /\ \A k \in 1..(q - p) : SubSeq(w, p + 1, q)[k] = w[p + k]
    <3>1. p \in Nat /\ q \in Nat /\ p <= q /\ q <= Len(w)
      BY <2>1 DEF p, q
    <3> QED BY <1>2, <3>1, Piece
  <2>3. q - p = j - i
    BY <2>1 DEF p, q
  <2> QED BY <2>2, <2>3 DEF x, p, q
<1>4. y \in Seq(X) /\ Len(y) = j - i /\ \A k \in 1..(j - i) : y[k] = b[i + k]
  BY Piece DEF y
<1>5. ASSUME NEW k \in 1..(j - i) PROVE x[k] = y[k]
  <2>1. i + k \in 1..Len(b) /\ L + i + k = L + (i + k)
    BY <1>1, <1>2
  <2>2. w[L + (i + k)] = b[i + k]
    BY <1>2, <2>1
  <2> QED BY <1>3, <1>4, <2>1, <2>2
<1>6. x = y
  BY <1>3, <1>4, <1>5, Same
<1> QED BY <1>6 DEF x, y, w, L

-----------------------------------------------------------------------------
(* Streams of units. *)

LEMMA NothingCarried == Carries(<<>>, <<>>)
<1> DEFINE cut == [i \in 0..0 |-> 0]
<1>1. Len(<<>>) = 0 /\ <<>> \in Seq(Byte) /\ \A i \in 1..0 : FALSE
  OBVIOUS
<1>2. cut \in [0..0 -> Nat] /\ cut[0] = 0
  OBVIOUS
<1> HIDE DEF cut
<1>3. Cuts(<<>>, <<>>, cut)
  BY <1>1, <1>2 DEF Cuts
<1> QED BY <1>1, <1>3 DEF Carries

LEMMA UnitCarried ==
    ASSUME NEW X, NEW bs, NEW ev \in X, Unit(bs, ev)
    PROVE  Carries(bs, <<ev>>)
<1> DEFINE cut == [i \in 0..1 |-> IF i = 0 THEN 0 ELSE Len(bs)]
           evs == <<ev>>
<1>1. bs \in Seq(Byte) /\ bs # <<>>
  BY DEF Unit
<1>2. Len(bs) \in Nat /\ 0 < Len(bs) /\ SubSeq(bs, 0 + 1, Len(bs)) = bs
  <2>1. Len(bs) \in Nat /\ Len(bs) # 0
    BY <1>1, LenProperties, EmptySeq
  <2> QED BY <1>1, <2>1
<1>3. Len(evs) = 1 /\ evs[1] = ev
  OBVIOUS
<1>4. cut \in [0..1 -> Nat] /\ cut[0] = 0 /\ cut[1] = Len(bs)
  BY <1>2
<1>5. \A i \in 1..1 : i = 1 /\ i - 1 = 0
  OBVIOUS
<1> HIDE DEF cut, evs
<1>6. Cuts(bs, evs, cut)
  <2>1. /\ cut \in [0..Len(evs) -> Nat] /\ cut[0] = 0 /\ cut[Len(evs)] = Len(bs)
    BY <1>3, <1>4
  <2>2. ASSUME NEW i \in 1..Len(evs)
        PROVE  /\ cut[i - 1] < cut[i] /\ cut[i] <= Len(bs)
               /\ Unit(SubSeq(bs, cut[i - 1] + 1, cut[i]), evs[i])
    <3>1. cut[i] = Len(bs) /\ cut[i - 1] = 0 /\ evs[i] = ev
      BY <1>3, <1>4, <1>5
    <3>2. SubSeq(bs, cut[i - 1] + 1, cut[i]) = bs
      BY <1>2, <3>1
    <3>3. cut[i - 1] < cut[i] /\ cut[i] <= Len(bs)
      BY <1>2, <3>1
    <3>4. Unit(bs, ev)
      OBVIOUS
    <3> QED BY <3>1, <3>2, <3>3, <3>4, Zenon
  <2> QED BY <2>1, <2>2 DEF Cuts
<1>7. \E c : Cuts(bs, evs, c)
  BY <1>6
<1> QED BY <1>1, <1>7 DEF Carries, evs

(* One stream behind another. *)
LEMMA StreamsJoin ==
    ASSUME NEW X, NEW a, NEW b, NEW p \in Seq(X), NEW q \in Seq(X),
           Carries(a, p), Carries(b, q)
    PROVE  Carries(a \o b, p \o q)
<1>1. PICK c : a \in Seq(Byte) /\ Cuts(a, p, c)
  BY DEF Carries
<1>2. PICK d : b \in Seq(Byte) /\ Cuts(b, q, d)
  BY DEF Carries
<1> DEFINE A == Len(a)  B == Len(b)  P == Len(p)  Q == Len(q)
           w == a \o b
           r == p \o q
           cut == [i \in 0..(P + Q) |-> IF i <= P THEN c[i] ELSE A + d[i - P]]
<1>3. /\ w \in Seq(Byte) /\ Len(w) = A + B /\ A \in Nat /\ B \in Nat
  BY <1>1, <1>2, Joins
<1>4. /\ r \in Seq(X) /\ Len(r) = P + Q /\ P \in Nat /\ Q \in Nat
      /\ \A i \in 1..P : r[i] = p[i]
      /\ \A i \in 1..Q : r[P + i] = q[i]
  BY Joins
<1>5. /\ c \in [0..P -> Nat] /\ c[0] = 0 /\ c[P] = A
      /\ \A i \in 1..P : /\ c[i - 1] < c[i] /\ c[i] <= A
                         /\ Unit(SubSeq(a, c[i - 1] + 1, c[i]), p[i])
  BY <1>1 DEF Cuts
<1>6. /\ d \in [0..Q -> Nat] /\ d[0] = 0 /\ d[Q] = B
      /\ \A i \in 1..Q : /\ d[i - 1] < d[i] /\ d[i] <= B
                         /\ Unit(SubSeq(b, d[i - 1] + 1, d[i]), q[i])
  BY <1>2 DEF Cuts
<1> HIDE DEF A, B, P, Q, w, r
<1>7. ASSUME NEW i \in 0..P PROVE i \in 0..(P + Q) /\ cut[i] = c[i]
  <2>1. i \in 0..(P + Q) /\ i <= P
    BY <1>4
  <2> QED BY <2>1
<1>8. ASSUME NEW i \in 0..Q PROVE P + i \in 0..(P + Q) /\ cut[P + i] = A + d[i]
  <2>1. P + i \in 0..(P + Q) /\ (P + i <= P <=> i = 0) /\ (P + i) - P = i
    BY <1>4
  <2>2. CASE i = 0
    <3>1. cut[P + i] = c[P + i] /\ P + i = P
      BY <1>4, <2>1, <2>2
    <3>2. cut[P + i] = A
      BY <1>5, <3>1
    <3>3. A + d[i] = A
      BY <1>3, <1>6, <2>2
    <3> QED BY <2>1, <3>2, <3>3
  <2>3. CASE i # 0
    BY <2>1, <2>3
  <2> QED BY <2>2, <2>3
<1>9. cut \in [0..(P + Q) -> Nat]
  <2>1. ASSUME NEW i \in 0..(P + Q) PROVE cut[i] \in Nat
    <3>1. i <= P \/ i > P
      BY <1>4
    <3>2. CASE i <= P
      <4>1. i \in 0..P
        BY <1>4, <3>2
      <4>2. c[i] \in Nat
        BY <1>5, <4>1
      <4> QED BY <1>7, <4>1, <4>2
    <3>3. CASE i > P
      <4>1. i - P \in 0..Q /\ P + (i - P) = i
        BY <1>4, <3>3
      <4>2. d[i - P] \in Nat
        BY <1>6, <4>1
      <4>3. A + d[i - P] \in Nat
        BY <1>3, <4>2
      <4>4. cut[P + (i - P)] = A + d[i - P]
        BY <1>8, <4>1
      <4> QED BY <4>1, <4>3, <4>4
    <3> QED BY <3>1, <3>2, <3>3
  <2> QED BY <2>1
<1> HIDE DEF cut
<1>10. cut[0] = 0 /\ cut[P + Q] = Len(w)
  <2>1. 0 \in 0..P /\ Q \in 0..Q
    BY <1>4
  <2> QED BY <1>3, <1>5, <1>6, <1>7, <1>8, <2>1
<1>11. ASSUME NEW i \in 1..P
       PROVE  /\ cut[i - 1] < cut[i] /\ cut[i] <= Len(w)
              /\ Unit(SubSeq(w, cut[i - 1] + 1, cut[i]), r[i])
  <2>1. i \in 0..P /\ i - 1 \in 0..P
    BY <1>4
  <2>2. cut[i] = c[i] /\ cut[i - 1] = c[i - 1] /\ r[i] = p[i]
    BY <1>4, <1>7, <2>1
  <2>3. /\ c[i - 1] < c[i] /\ c[i] <= A /\ c[i] \in Nat /\ c[i - 1] \in Nat
        /\ Unit(SubSeq(a, c[i - 1] + 1, c[i]), p[i])
    BY <1>5, <2>1
  <2>4. c[i] <= Len(w) /\ c[i - 1] <= c[i]
    BY <1>3, <2>3
  <2>5. SubSeq(w, c[i - 1] + 1, c[i]) = SubSeq(a, c[i - 1] + 1, c[i])
    <3> DEFINE x == c[i - 1]
               y == c[i]
    <3> HIDE DEF x, y
    <3>1. x \in Nat /\ y \in Nat /\ x <= y /\ y <= Len(a)
      BY <2>3, <2>4 DEF x, y, A
    <3>2. SubSeq(a \o b, x + 1, y) = SubSeq(a, x + 1, y)
      BY <1>1, <1>2, <3>1, PieceOfFront
    <3> QED BY <3>2 DEF x, y, w
  <2> QED BY <2>2, <2>3, <2>4, <2>5
<1>12. ASSUME NEW i \in 1..Q
       PROVE  /\ cut[P + i - 1] < cut[P + i] /\ cut[P + i] <= Len(w)
              /\ Unit(SubSeq(w, cut[P + i - 1] + 1, cut[P + i]), r[P + i])
  <2>1. i \in 0..Q /\ i - 1 \in 0..Q /\ P + (i - 1) = P + i - 1
    BY <1>4
  <2>2. cut[P + i] = A + d[i] /\ cut[P + (i - 1)] = A + d[i - 1] /\ r[P + i] = q[i]
    BY <1>4, <1>8, <2>1
  <2>3. /\ d[i - 1] < d[i] /\ d[i] <= B /\ d[i] \in Nat /\ d[i - 1] \in Nat
        /\ Unit(SubSeq(b, d[i - 1] + 1, d[i]), q[i])
    BY <1>6, <2>1
  <2>4. A + d[i] <= Len(w) /\ A + d[i - 1] < A + d[i]
    BY <1>3, <2>3
  <2>5. SubSeq(w, A + d[i - 1] + 1, A + d[i]) = SubSeq(b, d[i - 1] + 1, d[i])
    <3> DEFINE x == d[i - 1]
               y == d[i]
    <3> HIDE DEF x, y
    <3>1. x \in Nat /\ y \in Nat /\ x <= y /\ y <= Len(b)
      BY <2>3 DEF x, y, B
    <3>2. SubSeq(a \o b, Len(a) + x + 1, Len(a) + y) = SubSeq(b, x + 1, y)
      BY <1>1, <1>2, <3>1, PieceBehind
    <3> QED BY <3>2 DEF x, y, w, A
  <2>6. cut[P + i - 1] = A + d[i - 1]
    BY <2>1, <2>2
  <2> QED BY <2>2, <2>3, <2>4, <2>5, <2>6
<1>13. ASSUME NEW i \in 1..(P + Q)
       PROVE  /\ cut[i - 1] < cut[i] /\ cut[i] <= Len(w)
              /\ Unit(SubSeq(w, cut[i - 1] + 1, cut[i]), r[i])
  <2>1. i <= P \/ i > P
    BY <1>4
  <2>2. CASE i <= P
    <3>1. i \in 1..P
      BY <1>4, <2>2
    <3> QED BY <1>11, <3>1
  <2>3. CASE i > P
    <3>1. i - P \in 1..Q /\ P + (i - P) = i /\ P + (i - P) - 1 = i - 1
      BY <1>4, <2>3
    <3> DEFINE k == i - P
    <3>2. /\ cut[P + k - 1] < cut[P + k] /\ cut[P + k] <= Len(w)
          /\ Unit(SubSeq(w, cut[P + k - 1] + 1, cut[P + k]), r[P + k])
      BY <1>12, <3>1
    <3>3. P + k = i /\ P + k - 1 = i - 1
      BY <3>1
    <3> HIDE DEF k
    <3> QED BY <3>2, <3>3
  <2> QED BY <2>1, <2>2, <2>3
<1>14. Cuts(w, r, cut)
  BY <1>4, <1>9, <1>10, <1>13 DEF Cuts
<1>15. \E f : Cuts(w, r, f)
  BY <1>14
<1> QED BY <1>3, <1>15 DEF Carries, w, r

(* The first unit of a stream is read as the first event.                   *)
LEMMA StreamReads ==
    ASSUME NEW X, NEW bs, NEW evs \in Seq(X), Carries(bs, evs), bs # <<>>
    PROVE  /\ evs # <<>>
           /\ ReadOne(bs).ev = Head(evs)
           /\ Carries(SubSeq(bs, ReadOne(bs).n + 1, Len(bs)), Tail(evs))
<1>1. PICK cut : bs \in Seq(Byte) /\ Cuts(bs, evs, cut)
  BY DEF Carries
<1> DEFINE L == Len(bs)  N == Len(evs)
<1>2. L \in Nat /\ L # 0 /\ N \in Nat
  BY <1>1, LenProperties, EmptySeq
<1>3. /\ cut \in [0..N -> Nat] /\ cut[0] = 0 /\ cut[N] = L
      /\ \A i \in 1..N : /\ cut[i - 1] < cut[i] /\ cut[i] <= L
                         /\ Unit(SubSeq(bs, cut[i - 1] + 1, cut[i]), evs[i])
  BY <1>1 DEF Cuts
<1> HIDE DEF L, N
<1>4. N # 0 /\ 1 \in 1..N /\ 1 \in 0..N
  BY <1>2, <1>3
<1> DEFINE k == cut[1]
           u == SubSeq(bs, 1, k)
           v == SubSeq(bs, k + 1, L)
<1>5. k \in Nat /\ 0 < k /\ k <= L /\ Unit(u, evs[1])
  <2>1. cut[1 - 1] = 0
    BY <1>3
  <2>2. k \in Nat
    BY <1>3, <1>4
  <2>3. cut[1 - 1] < k /\ k <= L /\ Unit(SubSeq(bs, cut[1 - 1] + 1, k), evs[1])
    BY <1>3, <1>4
  <2> QED BY <2>1, <2>2, <2>3
<1> HIDE DEF k
<1>6. /\ u \in Seq(Byte) /\ Len(u) = k /\ v \in Seq(Byte) /\ Len(v) = L - k
      /\ \A i \in 1..k : u[i] = bs[i]
      /\ \A i \in 1..(L - k) : v[i] = bs[k + i]
  <2>1. /\ SubSeq(bs, 0 + 1, k) \in Seq(Byte) /\ Len(SubSeq(bs, 0 + 1, k)) = k - 0
        /\ \A i \in 1..(k - 0) : SubSeq(bs, 0 + 1, k)[i] = bs[0 + i]
    <3>1. 0 \in Nat /\ 0 <= k /\ k <= Len(bs)
      BY <1>5 DEF L
    <3> QED BY <1>1, <1>5, <3>1, Piece
  <2>2. /\ v \in Seq(Byte) /\ Len(v) = L - k
        /\ \A i \in 1..(L - k) : v[i] = bs[k + i]
    <3>1. L \in Nat /\ k <= L /\ L <= Len(bs)
      BY <1>2, <1>5 DEF L
    <3> QED BY <1>1, <1>5, <3>1, Piece
  <2>3. 0 + 1 = 1 /\ k - 0 = k /\ \A i \in 1..k : 0 + i = i
    BY <1>5
  <2> QED BY <2>1, <2>2, <2>3
<1> HIDE DEF u, v
<1>7. bs = u \o v
  <2> DEFINE w == u \o v
  <2>1. /\ w \in Seq(Byte) /\ Len(w) = k + (L - k)
        /\ \A i \in 1..k : w[i] = u[i]
        /\ \A i \in 1..(L - k) : w[k + i] = v[i]
    <3> HIDE DEF w
    <3>1. u \in Seq(Byte) /\ v \in Seq(Byte)
      BY <1>6
    <3>2. /\ w \in Seq(Byte) /\ Len(w) = Len(u) + Len(v)
          /\ \A i \in 1..Len(u) : w[i] = u[i]
          /\ \A i \in 1..Len(v) : w[Len(u) + i] = v[i]
      BY <3>1, Joins DEF w
    <3>3. Len(u) = k /\ Len(v) = L - k
      BY <1>6
    <3> QED BY <3>2, <3>3
  <2> HIDE DEF w
  <2>2. Len(w) = Len(bs)
    BY <1>2, <1>5, <2>1 DEF L
  <2>3. ASSUME NEW i \in 1..Len(w) PROVE w[i] = bs[i]
    <3>1. i <= k \/ i > k
      BY <1>5
    <3>2. CASE i <= k
      <4>1. i \in 1..k
        BY <1>5, <3>2
      <4> QED BY <1>6, <2>1, <4>1
    <3>3. CASE i > k
      <4> DEFINE j == i - k
      <4>1. j \in 1..(L - k) /\ k + j = i
        BY <1>2, <1>5, <2>1, <3>3
      <4> HIDE DEF j
      <4>2. w[k + j] = v[j] /\ v[j] = bs[k + j]
        BY <1>6, <2>1, <4>1
      <4> QED BY <4>1, <4>2
    <3> QED BY <3>1, <3>2, <3>3
  <2>4. w = bs
    BY <1>1, <2>1, <2>2, <2>3, Same
  <2> QED BY <2>4 DEF w
<1>8. ReadOne(bs) = [ev |-> evs[1], n |-> k]
  BY <1>5, <1>6, <1>7 DEF Unit
<1>9. evs # <<>> /\ Head(evs) = evs[1] /\ Tail(evs) \in Seq(X) /\ Len(Tail(evs)) = N - 1
      /\ \A i \in 1..(N - 1) : Tail(evs)[i] = evs[i + 1]
  <2>1. evs # <<>>
    BY <1>2, <1>4 DEF N
  <2> QED BY <1>2, <1>4, <2>1, HeadTailProperties DEF N
<1> DEFINE t == Tail(evs)
           d == [i \in 0..(N - 1) |-> cut[i + 1] - k]
<1>10. \A i \in 0..N : cut[i] \in Nat /\ (1 <= i => k <= cut[i]) /\ cut[i] <= L
  <2>1. \A i \in 0..N : cut[i] \in Nat /\ cut[i] <= L
    <3>1. \A i \in 0..N : cut[i] \in Nat
      BY <1>3
    <3>2. ASSUME NEW i \in 0..N PROVE cut[i] <= L
      <4>1. i = 0 \/ i \in 1..N
        BY <1>2
      <4> QED BY <1>2, <1>3, <4>1
    <3> QED BY <3>1, <3>2
  <2> DEFINE S == {i \in 0..(N - 1) : k <= cut[i + 1]}
  <2>2. 0 \in S
    <3>1. 0 \in 0..(N - 1) /\ 0 + 1 = 1
      BY <1>2, <1>4
    <3> QED BY <1>5, <3>1 DEF k
  <2>3. ASSUME NEW i \in 0..((N - 1) - 1), i \in S PROVE i + 1 \in S
    <3>1. i + 1 \in 0..(N - 1) /\ (i + 1) + 1 \in 1..N /\ ((i + 1) + 1) - 1 = i + 1
          /\ i + 1 \in 0..N /\ (i + 1) + 1 \in 0..N
      BY <1>2
    <3>2. cut[i + 1] < cut[(i + 1) + 1] /\ k <= cut[i + 1]
      BY <1>3, <2>3, <3>1
    <3>3. cut[i + 1] \in Nat /\ cut[(i + 1) + 1] \in Nat
      BY <2>1, <3>1
    <3>4. k <= cut[(i + 1) + 1]
      BY <1>5, <3>2, <3>3
    <3> QED BY <3>1, <3>4
  <2> HIDE DEF S
  <2>4. \A i \in 0..(N - 1) : i \in S
    <3>1. N - 1 \in Nat
      BY <1>2, <1>4
    <3> QED BY <2>2, <2>3, <3>1, CountUp, Zenon
  <2>5. ASSUME NEW i \in 0..N, 1 <= i PROVE k <= cut[i]
    <3>1. i - 1 \in 0..(N - 1) /\ (i - 1) + 1 = i
      BY <1>2, <2>5
    <3>2. k <= cut[(i - 1) + 1]
      BY <2>4, <3>1 DEF S
    <3> QED BY <3>1, <3>2
  <2> QED BY <2>1, <2>5
<1>11. /\ d \in [0..Len(t) -> Nat] /\ d[0] = 0 /\ d[Len(t)] = Len(v)
  <2>1. \A i \in 0..(N - 1) : i + 1 \in 0..N /\ 1 <= i + 1
    BY <1>2
  <2>2. \A i \in 0..(N - 1) : cut[i + 1] - k \in Nat
    BY <1>5, <1>10, <2>1
  <2>3. d \in [0..(N - 1) -> Nat]
    BY <2>2
  <2>4. 0 \in 0..(N - 1) /\ N - 1 \in 0..(N - 1) /\ (N - 1) + 1 = N /\ 0 + 1 = 1
    BY <1>2, <1>4
  <2>5. d[0] = 0
    BY <1>5, <2>4 DEF k
  <2>6. d[N - 1] = L - k
    BY <1>3, <2>4
  <2> QED BY <1>6, <1>9, <2>3, <2>5, <2>6
<1>12. ASSUME NEW i \in 1..(N - 1)
       PROVE  /\ d[i - 1] < d[i] /\ d[i] <= Len(v)
              /\ Unit(SubSeq(v, d[i - 1] + 1, d[i]), t[i])
  <2> DEFINE x == cut[i]
             y == cut[i + 1]
  <2>1. i + 1 \in 1..N /\ (i + 1) - 1 = i /\ i \in 0..N /\ 1 <= i /\ i + 1 \in 0..N
        /\ i \in 0..(N - 1) /\ i - 1 \in 0..(N - 1) /\ (i - 1) + 1 = i
    BY <1>2
  <2>2. d[i - 1] = x - k /\ d[i] = y - k /\ t[i] = evs[i + 1]
    BY <1>9, <2>1
  <2>3. x < y /\ y <= L /\ Unit(SubSeq(bs, x + 1, y), evs[i + 1])
    BY <1>3, <2>1
  <2>4. x \in Nat /\ y \in Nat /\ k <= x
    BY <1>10, <2>1
  <2> HIDE DEF x, y, d, t
  <2>5. /\ x - k \in Nat /\ y - k \in Nat /\ x - k < y - k /\ y - k <= Len(v)
        /\ k + (x - k) = x /\ k + (y - k) = y /\ Len(u) = k /\ x - k <= y - k
    BY <1>2, <1>5, <1>6, <2>3, <2>4
  <2> DEFINE e == x - k
             f == y - k
  <2> HIDE DEF e, f
  <2>6. SubSeq(u \o v, Len(u) + e + 1, Len(u) + f) = SubSeq(v, e + 1, f)
    <3>1. e \in Nat /\ f \in Nat /\ e <= f /\ f <= Len(v)
      BY <2>5 DEF e, f
    <3> QED BY <1>6, <3>1, PieceBehind
  <2>7. Len(u) + e = x /\ Len(u) + f = y
    BY <2>5 DEF e, f
  <2>8. SubSeq(bs, x + 1, y) = SubSeq(v, e + 1, f)
    BY <1>7, <2>6, <2>7
  <2> QED BY <2>2, <2>3, <2>5, <2>8 DEF e, f
<1> HIDE DEF d, t
<1>13. Cuts(v, t, d)
  <2>1. Len(t) = N - 1
    BY <1>9 DEF t
  <2> QED BY <1>11, <1>12, <2>1 DEF Cuts
<1>14. Carries(v, t)
  BY <1>6, <1>13 DEF Carries
<1>15. ReadOne(bs).n = k /\ ReadOne(bs).ev = evs[1]
  BY <1>8
<1> QED BY <1>9, <1>14, <1>15 DEF v, t, L

(* A stream without bytes carries no events.                                *)
LEMMA NothingLeft ==
    ASSUME NEW X, NEW evs \in Seq(X), Carries(<<>>, evs)
    PROVE  evs = <<>>
<1>1. PICK cut : Cuts(<<>>, evs, cut)
  BY DEF Carries
<1>2. Len(evs) \in Nat
  BY LenProperties
<1> SUFFICES ASSUME Len(evs) # 0 PROVE FALSE
  BY EmptySeq, <1>2
<1>3. 1 \in 1..Len(evs) /\ 1 - 1 = 0 /\ 1 \in 0..Len(evs)
  BY <1>2
<1>4. cut[1 - 1] < cut[1] /\ cut[1] <= Len(<<>>)
  BY <1>1, <1>3 DEF Cuts
<1>5. cut[0] = 0 /\ cut[1] \in Nat /\ Len(<<>>) = 0
  BY <1>1, <1>3 DEF Cuts
<1> QED BY <1>3, <1>4, <1>5

-----------------------------------------------------------------------------
(* Characters and control bytes. *)

PlainUnit(bs, ev) ==
    /\ bs \in Seq(Byte) /\ bs # <<>> /\ bs[1] # ESC
    /\ \A rest \in Seq(Byte) : ReadPlain(bs \o rest) = [ev |-> ev, n |-> Len(bs)]

LEMMA PlainIsUnit ==
    ASSUME NEW bs, NEW ev, PlainUnit(bs, ev)
    PROVE  Unit(bs, ev)
<1>1. ASSUME NEW rest \in Seq(Byte)
      PROVE  ReadOne(bs \o rest) = [ev |-> ev, n |-> Len(bs)]
  <2>1. bs \in Seq(Byte) /\ 1 \in 1..Len(bs)
    BY LenProperties, EmptySeq DEF PlainUnit
  <2>2. (bs \o rest)[1] = bs[1]
    BY <2>1, Joins
  <2>3. ReadOne(bs \o rest) = ReadPlain(bs \o rest)
    BY <2>2 DEF ReadOne, PlainUnit
  <2> QED BY <2>3 DEF PlainUnit
<1> QED BY <1>1 DEF Unit, PlainUnit

(* With Alt, the same bytes behind an ESC. *)
LEMMA AltIsUnit ==
    ASSUME NEW bs, NEW code, NEW n, NEW mods,
           PlainUnit(bs, Key(code, n, mods)), bs[1] \notin {91, 79}
    PROVE  Unit(<<ESC>> \o bs, Key(code, n, mods \cup {"ALT"}))
<1> DEFINE e == <<ESC>>
           w == e \o bs
<1>1. bs \in Seq(Byte) /\ 1 \in 1..Len(bs) /\ Len(bs) \in Nat
  BY LenProperties, EmptySeq DEF PlainUnit
<1>2. e \in Seq(Byte) /\ Len(e) = 1 /\ e[1] = ESC
  BY DEF ESC, Byte
<1> HIDE DEF e
<1>3. /\ w \in Seq(Byte) /\ Len(w) = 1 + Len(bs) /\ w[1] = ESC
      /\ \A i \in 1..Len(bs) : w[1 + i] = bs[i]
  <2>1. /\ w \in Seq(Byte) /\ Len(w) = Len(e) + Len(bs)
        /\ \A i \in 1..Len(e) : w[i] = e[i]
        /\ \A i \in 1..Len(bs) : w[Len(e) + i] = bs[i]
    <3> HIDE DEF w
    <3>1. e \in Seq(Byte) /\ bs \in Seq(Byte)
      BY <1>1, <1>2
    <3> QED BY <3>1, Joins DEF w
  <2>2. 1 \in 1..Len(e)
    BY <1>2
  <2> HIDE DEF w
  <2> QED BY <1>2, <2>1, <2>2
<1>4. ASSUME NEW rest \in Seq(Byte)
      PROVE  ReadOne(w \o rest) = [ev |-> Key(code, n, mods \cup {"ALT"}), n |-> Len(w)]
  <2> DEFINE v == bs \o rest
             x == w \o rest
  <2>1. v \in Seq(Byte) /\ Len(v) = Len(bs) + Len(rest) /\ v[1] = bs[1]
    BY <1>1, Joins
  <2>2. x = e \o v
    <3> HIDE DEF x
    <3>1. x = (e \o bs) \o rest
      BY DEF x
    <3>2. (e \o bs) \o rest = e \o (bs \o rest)
      <4>1. e \in Seq(Byte) /\ bs \in Seq(Byte) /\ rest \in Seq(Byte)
        BY <1>1, <1>2
      <4> QED BY <4>1, ConcatAssociative
    <3> QED BY <3>1, <3>2 DEF v
  <2> HIDE DEF v, x, w
  <2>3. x \in Seq(Byte) /\ x[1] = ESC /\ x[1 + 1] = bs[1] /\ Tail(x) = v
    <3>1. /\ x \in Seq(Byte) /\ Len(x) = 1 + Len(v)
          /\ x[1] = e[1]
          /\ \A i \in 1..Len(v) : x[1 + i] = v[i]
      <4>1. /\ x \in Seq(Byte) /\ Len(x) = Len(e) + Len(v)
            /\ \A i \in 1..Len(e) : x[i] = e[i]
            /\ \A i \in 1..Len(v) : x[Len(e) + i] = v[i]
        <5>1. /\ e \o v \in Seq(Byte) /\ Len(e \o v) = Len(e) + Len(v)
              /\ \A i \in 1..Len(e) : (e \o v)[i] = e[i]
              /\ \A i \in 1..Len(v) : (e \o v)[Len(e) + i] = v[i]
          <6>1. e \in Seq(Byte) /\ v \in Seq(Byte)
            BY <1>2, <2>1
          <6> QED BY <6>1, Joins
        <5> QED BY <2>2, <5>1
      <4>2. 1 \in 1..Len(e)
        BY <1>2
      <4> QED BY <1>2, <4>1, <4>2
    <3>2. 1 \in 1..Len(v) /\ Len(v) \in Nat
      BY <1>1, <2>1, LenProperties
    <3>3. Tail(x) = v
      <4>1. x # <<>>
        BY <3>1, <3>2
      <4>2. Tail(x) \in Seq(Byte) /\ Len(Tail(x)) = Len(v)
        BY <3>1, <3>2, <4>1, HeadTailProperties
      <4>3. ASSUME NEW i \in 1..Len(v) PROVE Tail(x)[i] = v[i]
        <5>1. Tail(x)[i] = x[i + 1] /\ i + 1 = 1 + i
          BY <3>1, <3>2, <4>1, <4>2, HeadTailProperties
        <5> QED BY <3>1, <5>1
      <4> HIDE DEF x
      <4> QED BY <2>1, <4>2, <4>3, Same
    <3> QED BY <1>2, <2>1, <3>1, <3>2, <3>3
  <2>4. ReadPlain(v) = [ev |-> Key(code, n, mods), n |-> Len(bs)]
    BY DEF PlainUnit, v
  <2>5. ReadOne(x) = [ev |-> Key(code, n, mods \cup {"ALT"}), n |-> Len(bs) + 1]
    <3>1. x[1] = ESC /\ x[2] # 91 /\ x[2] # 79
      BY <2>3
    <3> DEFINE r == ReadPlain(Tail(x))
    <3>2. r.ev = [code |-> code, n |-> n, mods |-> mods] /\ r.n = Len(bs)
      <4>1. r = [ev |-> Key(code, n, mods), n |-> Len(bs)]
        BY <2>3, <2>4
      <4> HIDE DEF r
      <4> QED BY <4>1 DEF Key
    <3>3. ReadOne(x) = [ev |-> Key(r.ev.code, r.ev.n, r.ev.mods \cup {"ALT"}),
                        n |-> r.n + 1]
      BY <3>1 DEF ReadOne
    <3> HIDE DEF r
    <3>4. r.ev.code = code /\ r.ev.n = n /\ r.ev.mods = mods
      BY <3>2
    <3> QED BY <3>2, <3>3, <3>4
  <2>7. Len(bs) + 1 = Len(w)
    BY <1>1, <1>3
  <2> QED BY <2>5, <2>7 DEF x
<1>5. w # <<>>
  BY <1>1, <1>3
<1> QED BY <1>3, <1>4, <1>5 DEF Unit, e, w

LEMMA ControlUnit ==
    ASSUME NEW b \in Byte, b # ESC, b < 32 \/ b = 127
    PROVE  PlainUnit(<<b>>, Control(b))
<1> DEFINE s == <<b>>
<1>1. s \in Seq(Byte) /\ s # <<>> /\ Len(s) = 1 /\ s[1] = b
  OBVIOUS
<1> HIDE DEF s
<1>2. ASSUME NEW rest \in Seq(Byte)
      PROVE  ReadPlain(s \o rest) = [ev |-> Control(b), n |-> Len(s)]
  <2>1. (s \o rest)[1] = b
    BY <1>1, Joins
  <2> QED BY <1>1, <2>1 DEF ReadPlain
<1> QED BY <1>1, <1>2 DEF PlainUnit, s

LEMMA CharUnit ==
    ASSUME NEW c \in Printable
    PROVE  PlainUnit(Utf8(c), Key("Char", c, {}))
           /\ (Utf8(c)[1] \in {79, 91} => c \in {79, 91})
<1> DEFINE s == Utf8(c)
<1>1. c \in Nat /\ c < 65536 /\ c # 127 /\ c >= 32
  BY DEF Printable
<1>2. CASE c < 128
  <2>1. s = <<c>>
    BY <1>2 DEF Utf8
  <2>2. s \in Seq(Byte) /\ s # <<>> /\ Len(s) = 1 /\ s[1] = c
    BY <1>1, <1>2, <2>1 DEF Byte
  <2> HIDE DEF s
  <2>3. ASSUME NEW rest \in Seq(Byte)
        PROVE  ReadPlain(s \o rest) = [ev |-> Key("Char", c, {}), n |-> Len(s)]
    <3>1. (s \o rest)[1] = c
      BY <2>2, Joins
    <3> QED BY <1>1, <1>2, <2>2, <3>1 DEF ReadPlain
  <2> QED BY <1>1, <2>2, <2>3 DEF PlainUnit, s, ESC
<1>3. CASE ~(c < 128) /\ c < 2048
  <2> DEFINE x == 192 + c \div 64
             y == 128 + (c % 64)
  <2>1. s = <<x, y>>
    BY <1>3 DEF Utf8
  <2>2. /\ x \in Byte /\ y \in Byte /\ x >= 194 /\ x < 224
        /\ (x - 192) * 64 + y - 128 = c
    BY <1>1, <1>3 DEF Byte
  <2> HIDE DEF x, y
  <2>3. s \in Seq(Byte) /\ s # <<>> /\ Len(s) = 2 /\ s[1] = x /\ s[2] = y
    BY <2>1, <2>2
  <2> HIDE DEF s
  <2>4. ASSUME NEW rest \in Seq(Byte)
        PROVE  ReadPlain(s \o rest) = [ev |-> Key("Char", c, {}), n |-> Len(s)]
    <3>1. (s \o rest)[1] = x /\ (s \o rest)[2] = y
      <4>1. 1 \in 1..Len(s) /\ 2 \in 1..Len(s)
        BY <2>3
      <4>2. \A i \in 1..Len(s) : (s \o rest)[i] = s[i]
        BY <2>3, Joins
      <4> QED BY <2>3, <4>1, <4>2
    <3>2. ~(x < 32 \/ x = 127) /\ ~(x < 128)
      BY <2>2 DEF Byte
    <3> QED BY <2>2, <2>3, <3>1, <3>2 DEF ReadPlain
  <2>5. x # 27 /\ x \notin {79, 91}
    BY <2>2
  <2> QED BY <2>3, <2>4, <2>5 DEF PlainUnit, s, ESC
<1>4. CASE ~(c < 2048)
  <2> DEFINE x == 224 + c \div 4096
             y == 128 + ((c \div 64) % 64)
             z == 128 + (c % 64)
  <2>1. s = <<x, y, z>>
    BY <1>1, <1>4 DEF Utf8
  <2>2. /\ x \in Byte /\ y \in Byte /\ z \in Byte /\ x >= 224
        /\ (x - 224) * 4096 + (y - 128) * 64 + z - 128 = c
    BY <1>1, <1>4 DEF Byte
  <2> HIDE DEF x, y, z
  <2>3. s \in Seq(Byte) /\ s # <<>> /\ Len(s) = 3 /\ s[1] = x /\ s[2] = y /\ s[3] = z
    BY <2>1, <2>2
  <2> HIDE DEF s
  <2>4. ASSUME NEW rest \in Seq(Byte)
        PROVE  ReadPlain(s \o rest) = [ev |-> Key("Char", c, {}), n |-> Len(s)]
    <3>1. (s \o rest)[1] = x /\ (s \o rest)[2] = y /\ (s \o rest)[3] = z
      <4>1. 1 \in 1..Len(s) /\ 2 \in 1..Len(s) /\ 3 \in 1..Len(s)
        BY <2>3
      <4>2. \A i \in 1..Len(s) : (s \o rest)[i] = s[i]
        BY <2>3, Joins
      <4> QED BY <2>3, <4>1, <4>2
    <3>2. ~(x < 32 \/ x = 127) /\ ~(x < 128) /\ ~(x < 224)
      BY <2>2 DEF Byte
    <3> QED BY <2>2, <2>3, <3>1, <3>2 DEF ReadPlain
  <2>5. x # 27 /\ x \notin {79, 91}
    BY <2>2
  <2> QED BY <2>3, <2>4, <2>5 DEF PlainUnit, s, ESC
<1> QED BY <1>2, <1>3, <1>4

-----------------------------------------------------------------------------
(* Escape sequences. *)

(* A literal behind a literal. *)
LEMMA Ss3Unit ==
    ASSUME NEW f \in Byte
    PROVE  Unit(<<ESC, 79, f>>, Ss3(f))
<1> DEFINE s == <<ESC, 79, f>>
<1>1. s \in Seq(Byte) /\ s # <<>> /\ Len(s) = 3 /\ s[1] = ESC /\ s[2] = 79 /\ s[3] = f
  BY DEF ESC, Byte
<1> HIDE DEF s
<1>2. ASSUME NEW rest \in Seq(Byte)
      PROVE  ReadOne(s \o rest) = [ev |-> Ss3(f), n |-> Len(s)]
  <2>1. (s \o rest)[1] = ESC /\ (s \o rest)[2] = 79 /\ (s \o rest)[3] = f
    <3>1. 1 \in 1..Len(s) /\ 2 \in 1..Len(s) /\ 3 \in 1..Len(s)
      BY <1>1
    <3>2. \A i \in 1..Len(s) : (s \o rest)[i] = s[i]
      <4>1. s \in Seq(Byte)
        BY <1>1
      <4> QED BY <4>1, Joins
    <3> QED BY <1>1, <3>1, <3>2
  <2> QED BY <1>1, <2>1 DEF ReadOne
<1> QED BY <1>1, <1>2 DEF Unit, s

(* Parameter bytes of control sequences, and the byte that ends one.        *)
Param == 32..63
Final == 64..126

LEMMA NeverBoth == \A b : b \in Param => b \notin Final
BY DEF Param, Final

CsiBytes(params, f) == <<ESC, 91>> \o params \o <<f>>

LEMMA CsiShape ==
    ASSUME NEW params \in Seq(Param), NEW f \in Final
    PROVE  LET s == CsiBytes(params, f)  k == Len(params)
           IN  /\ s \in Seq(Byte) /\ Len(s) = k + 3 /\ k \in Nat
               /\ s[1] = ESC /\ s[2] = 91 /\ s[k + 3] = f
               /\ \A i \in 3..(k + 2) : s[i] \in Param
               /\ \A i \in 1..k : s[2 + i] = params[i]
               /\ SubSeq(s, 3, k + 2) = params
<1> DEFINE e == <<ESC, 91>>
           g == <<f>>
           k == Len(params)
<1>1. e \in Seq(Byte) /\ Len(e) = 2 /\ e[1] = ESC /\ e[2] = 91
  BY DEF ESC, Byte
<1>2. g \in Seq(Byte) /\ Len(g) = 1 /\ g[1] = f
  BY DEF Final, Byte
<1>3. params \in Seq(Byte) /\ k \in Nat /\ \A i \in 1..k : params[i] \in Param
  <2>1. Seq(Param) \subseteq Seq(Byte)
    BY DEF Param, Byte
  <2> QED BY <2>1, LenProperties, ElementOfSeq
<1> HIDE DEF e, g
<1> DEFINE a == e \o params
           s == a \o g
<1>4. /\ a \in Seq(Byte) /\ Len(a) = 2 + k
      /\ a[1] = ESC /\ a[2] = 91 /\ \A i \in 1..k : a[2 + i] = params[i]
  <2> HIDE DEF a
  <2>1. e \in Seq(Byte) /\ params \in Seq(Byte)
    BY <1>1, <1>3
  <2>2. /\ a \in Seq(Byte) /\ Len(a) = Len(e) + Len(params)
        /\ \A i \in 1..Len(e) : a[i] = e[i]
        /\ \A i \in 1..Len(params) : a[Len(e) + i] = params[i]
    BY <2>1, Joins DEF a
  <2>3. 1 \in 1..Len(e) /\ 2 \in 1..Len(e)
    BY <1>1
  <2> QED BY <1>1, <2>2, <2>3
<1> HIDE DEF a
<1>5. /\ s \in Seq(Byte) /\ Len(s) = k + 3
      /\ \A i \in 1..(2 + k) : s[i] = a[i]
      /\ s[k + 3] = f
  <2> HIDE DEF s
  <2>1. a \in Seq(Byte) /\ g \in Seq(Byte)
    BY <1>2, <1>4
  <2>2. /\ s \in Seq(Byte) /\ Len(s) = Len(a) + Len(g)
        /\ \A i \in 1..Len(a) : s[i] = a[i]
        /\ \A i \in 1..Len(g) : s[Len(a) + i] = g[i]
    BY <2>1, Joins DEF s
  <2>3. 1 \in 1..Len(g) /\ Len(a) + 1 = k + 3 /\ Len(a) + Len(g) = k + 3
    BY <1>2, <1>3, <1>4
  <2> QED BY <1>2, <1>4, <2>2, <2>3
<1> HIDE DEF s
<1>6. s[1] = ESC /\ s[2] = 91
  <2>1. 1 \in 1..(2 + k) /\ 2 \in 1..(2 + k)
    BY <1>3
  <2> QED BY <1>4, <1>5, <2>1
<1>7. \A i \in 1..k : s[2 + i] = params[i]
  <2>1. \A i \in 1..k : 2 + i \in 1..(2 + k)
    BY <1>3
  <2> QED BY <1>4, <1>5, <2>1
<1>8. \A i \in 3..(k + 2) : s[i] \in Param
  <2>1. \A i \in 3..(k + 2) : i - 2 \in 1..k /\ 2 + (i - 2) = i
    BY <1>3
  <2> QED BY <1>3, <1>7, <2>1
<1>9. SubSeq(s, 3, k + 2) = params
  <2> DEFINE x == SubSeq(s, 2 + 1, k + 2)
  <2>1. 2 \in Nat /\ k + 2 \in Nat /\ 2 <= k + 2 /\ k + 2 <= Len(s) /\ (k + 2) - 2 = k
    BY <1>3, <1>5
  <2>2. /\ x \in Seq(Byte) /\ Len(x) = (k + 2) - 2
        /\ \A i \in 1..((k + 2) - 2) : x[i] = s[2 + i]
    BY <1>5, <2>1, Piece
  <2>3. 2 + 1 = 3
    OBVIOUS
  <2> HIDE DEF x
  <2>4. x = params
    <3>1. Len(x) = Len(params) /\ \A i \in 1..Len(x) : x[i] = params[i]
      BY <1>7, <2>1, <2>2
    <3> QED BY <1>3, <2>2, <3>1, Same
  <2> QED BY <2>3, <2>4 DEF x
<1>10. CsiBytes(params, f) = s
  BY DEF CsiBytes, s, a, e, g
<1> QED BY <1>3, <1>5, <1>6, <1>7, <1>8, <1>9, <1>10

LEMMA CsiUnit ==
    ASSUME NEW params \in Seq(Param), NEW f \in Final
    PROVE  Unit(CsiBytes(params, f), Csi(params, f))
<1> DEFINE s == CsiBytes(params, f)
           k == Len(params)
<1>1. /\ s \in Seq(Byte) /\ Len(s) = k + 3 /\ k \in Nat
      /\ s[1] = ESC /\ s[2] = 91 /\ s[k + 3] = f
      /\ \A i \in 3..(k + 2) : s[i] \in Param
      /\ SubSeq(s, 3, k + 2) = params
  BY CsiShape
<1> HIDE DEF s, k
<1>2. ASSUME NEW rest \in Seq(Byte)
      PROVE  ReadOne(s \o rest) = [ev |-> Csi(params, f), n |-> Len(s)]
  <2> DEFINE w == s \o rest
             I == {i \in 3..Len(w) : w[i] \in 64..126}
             n == SelectInSubSeq(w, 3, Len(w), LAMBDA b : b \in 64..126)
  <2>1. /\ w \in Seq(Byte) /\ Len(w) = Len(s) + Len(rest) /\ Len(rest) \in Nat
        /\ \A i \in 1..Len(s) : w[i] = s[i]
    <3> HIDE DEF w
    <3>1. s \in Seq(Byte)
      BY <1>1
    <3> QED BY <3>1, Joins DEF w
  <2>2. SubSeq(w, 2 + 1, k + 2) = SubSeq(s, 2 + 1, k + 2)
    <3>1. 2 \in Nat /\ k + 2 \in Nat /\ 2 <= k + 2 /\ k + 2 <= Len(s)
      BY <1>1
    <3> QED BY <1>1, <3>1, PieceOfFront
  <2> HIDE DEF w
  <2>3. 1 \in 1..Len(s) /\ 2 \in 1..Len(s) /\ k + 3 \in 1..Len(s) /\ k + 3 \in 3..Len(w)
    BY <1>1, <2>1
  <2>4. w[1] = ESC /\ w[2] = 91 /\ w[k + 3] = f
    BY <1>1, <2>1, <2>3
  <2>5. k + 3 \in I
    BY <2>3, <2>4 DEF Final
  <2>6. ASSUME NEW i \in I PROVE k + 3 <= i
    <3> SUFFICES ASSUME ~(k + 3 <= i) PROVE FALSE
      OBVIOUS
    <3>1. i \in 3..(k + 2) /\ i \in 1..Len(s)
      BY <1>1
    <3>2. w[i] \in Param
      BY <1>1, <2>1, <3>1
    <3>3. w[i] \in 64..126
      OBVIOUS
    <3> QED BY <3>2, <3>3, NeverBoth, Zenon DEF Final
  <2>7. n = IF I # {} THEN Min(I) ELSE 0
    BY DEF SelectInSubSeq
  <2>8. Min(I) = CHOOSE x \in I : \A y \in I : x <= y
    BY DEF Min
  <2>9. \A x \in I : x \in Nat
    OBVIOUS
  <2> HIDE DEF I, n
  <2>10. n = k + 3
    <3>1. \A x \in I : (\A y \in I : x <= y) => x = k + 3
      BY <1>1, <2>5, <2>6, <2>9
    <3>2. Min(I) \in I /\ \A y \in I : Min(I) <= y
      BY <2>5, <2>6, <2>8
    <3> QED BY <2>5, <2>7, <3>1, <3>2
  <2>11. ReadOne(w) = [ev |-> Csi(SubSeq(w, 3, n - 1), w[n]), n |-> n]
    <3>1. w[1] = ESC /\ w[2] = 91
      BY <2>4
    <3> QED BY <3>1 DEF ReadOne, n
  <2>12. n - 1 = k + 2 /\ 2 + 1 = 3 /\ n = Len(s)
    BY <1>1, <2>10
  <2>13. SubSeq(w, 3, n - 1) = params
    BY <1>1, <2>2, <2>12
  <2> QED BY <2>4, <2>10, <2>11, <2>12, <2>13 DEF w
<1>3. s # <<>>
  BY <1>1
<1> QED BY <1>1, <1>2, <1>3 DEF Unit, s

-----------------------------------------------------------------------------
(* Numbers. *)

(* A function defined by recursion on the numbers up to n.                  *)
Stepwise(n, X, base, step) ==
    \E f \in [0..n -> X] :
        f[0] = base /\ \A i \in 1..n : f[i] = step[i][f[i - 1]]

LEMMA StepByStep ==
    ASSUME NEW n \in Nat, NEW X, NEW base \in X, NEW step \in [1..n -> [X -> X]]
    PROVE  Stepwise(n, X, base, step)
<1> DEFINE Is(f, k) == /\ f \in [0..k -> X] /\ f[0] = base
                       /\ \A i \in 1..k : f[i] = step[i][f[i - 1]]
           S == {k \in 0..n : \E f : Is(f, k)}
<1>1. 0 \in S
  <2> DEFINE f == [i \in 0..0 |-> base]
  <2>1. f \in [0..0 -> X] /\ f[0] = base /\ \A i \in 1..0 : FALSE
    OBVIOUS
  <2> HIDE DEF f
  <2>2. Is(f, 0)
    BY <2>1
  <2>3. 0 \in 0..n
    OBVIOUS
  <2> HIDE DEF Is
  <2> QED BY <2>2, <2>3
<1>2. ASSUME NEW k \in 0..(n - 1), k \in S PROVE k + 1 \in S
  <2>1. PICK f : Is(f, k)
    BY <1>2
  <2>2. /\ k \in 0..k /\ k + 1 \in 1..n /\ k + 1 \in 0..(k + 1)
        /\ \A i \in 0..(k + 1) : i = k + 1 \/ (i \in 0..k /\ i # k + 1)
    OBVIOUS
  <2> DEFINE v == step[k + 1][f[k]]
             g == [i \in 0..(k + 1) |-> IF i = k + 1 THEN v ELSE f[i]]
  <2>3. v \in X /\ f[k] \in X
    BY <2>1, <2>2
  <2>4. g \in [0..(k + 1) -> X]
    <3>1. ASSUME NEW i \in 0..(k + 1) PROVE (IF i = k + 1 THEN v ELSE f[i]) \in X
      <4> HIDE DEF v
      <4> QED BY <2>1, <2>2, <2>3
    <3> HIDE DEF v
    <3> QED BY <3>1
  <2>5. g[k + 1] = v /\ \A i \in 0..k : g[i] = f[i]
    <3>1. \A i \in 0..k : i \in 0..(k + 1) /\ i # k + 1
      OBVIOUS
    <3> HIDE DEF v
    <3> QED BY <2>2, <3>1
  <2> HIDE DEF g
  <2>6. g[0] = base
    BY <2>1, <2>5
  <2>7. ASSUME NEW i \in 1..(k + 1) PROVE g[i] = step[i][g[i - 1]]
    <3>1. CASE i = k + 1
      <4>1. i - 1 = k /\ k \in 0..k
        BY <3>1
      <4> QED BY <2>5, <3>1, <4>1
    <3>2. CASE i # k + 1
      <4>1. i \in 1..k /\ i \in 0..k /\ i - 1 \in 0..k
        BY <3>2
      <4> QED BY <2>1, <2>5, <4>1
    <3> QED BY <3>1, <3>2
  <2>8. Is(g, k + 1)
    BY <2>4, <2>6, <2>7
  <2> HIDE DEF Is
  <2> QED BY <2>2, <2>8
<1> HIDE DEF S
<1>3. \A i \in 0..n : i \in S
  BY <1>1, <1>2, CountUp, Zenon
<1>4. n \in 0..n
  OBVIOUS
<1>5. n \in S
  BY <1>3, <1>4
<1> QED BY <1>5 DEF S, Stepwise

NumberSeq == Seq(Nat) \ {<<>>}

LEMMA OneMoreType ==
    ASSUME NEW ns \in NumberSeq, NEW b \in 48..57 \cup {59}
    PROVE  OneMore(ns, b) \in NumberSeq
<1>1. Len(ns) \in Nat /\ Len(ns) # 0 /\ Len(ns) \in 1..Len(ns)
  BY LenProperties, EmptySeq DEF NumberSeq
<1>2. CASE b = 59
  BY <1>2 DEF OneMore, NumberSeq
<1>3. CASE b # 59
  <2> DEFINE v == 10 * ns[Len(ns)] + (b - 48)
  <2>1. ns[Len(ns)] \in Nat
    BY <1>1, ElementOfSeq DEF NumberSeq
  <2>2. v \in Nat
    BY <1>3, <2>1
  <2>3. OneMore(ns, b) = [ns EXCEPT ![Len(ns)] = v]
    BY <1>3 DEF OneMore
  <2> HIDE DEF v
  <2>4. [ns EXCEPT ![Len(ns)] = v] \in Seq(Nat)
    BY <1>1, <2>2, ExceptSeq DEF NumberSeq
  <2>5. Len([ns EXCEPT ![Len(ns)] = v]) = Len(ns)
    BY <1>1, <2>2, ExceptSeq DEF NumberSeq
  <2> QED BY <1>1, <2>3, <2>4, <2>5 DEF NumberSeq
<1> QED BY <1>2, <1>3

LEMMA AnotherDigit ==
    ASSUME NEW q \in Seq(Nat), NEW v \in Nat, NEW b \in 48..57
    PROVE  OneMore(Append(q, v), b) = Append(q, 10 * v + (b - 48))
<1> DEFINE a == Append(q, v)
           x == 10 * v + (b - 48)
           r == OneMore(a, b)
           s == Append(q, x)
<1>1. Len(q) \in Nat /\ x \in Nat
  BY LenProperties
<1>2. /\ a \in Seq(Nat) /\ Len(a) = Len(q) + 1 /\ a[Len(q) + 1] = v
      /\ \A i \in 1..Len(q) : a[i] = q[i]
  BY AppendProperties
<1>3. r = [a EXCEPT ![Len(q) + 1] = x]
  <2>1. r = [a EXCEPT ![Len(a)] = 10 * a[Len(a)] + (b - 48)]
    BY DEF OneMore
  <2> HIDE DEF a, r
  <2> QED BY <1>2, <2>1
<1> HIDE DEF x
<1>4. /\ s \in Seq(Nat) /\ Len(s) = Len(q) + 1 /\ s[Len(q) + 1] = x
      /\ \A i \in 1..Len(q) : s[i] = q[i]
  BY <1>1, AppendProperties
<1> HIDE DEF a, r, s
<1>5. /\ r \in Seq(Nat) /\ Len(r) = Len(q) + 1
      /\ \A i \in 1..(Len(q) + 1) : r[i] = IF i = Len(q) + 1 THEN x ELSE a[i]
  <2>1. Len(q) + 1 \in 1..Len(a)
    BY <1>1, <1>2
  <2> QED BY <1>1, <1>2, <1>3, <2>1, ExceptSeq
<1>6. ASSUME NEW i \in 1..Len(r) PROVE r[i] = s[i]
  <2>1. i = Len(q) + 1 \/ (i # Len(q) + 1 /\ i \in 1..Len(q))
    BY <1>1, <1>5
  <2> QED BY <1>2, <1>4, <1>5, <2>1
<1>7. r = s
  BY <1>4, <1>5, <1>6, Same
<1> QED BY <1>7 DEF r, s, a, x

(* The recursive function of Numbers. *)
Numeric == (48..57) \cup {59}

LEMMA NumbersIs ==
    ASSUME NEW b \in Seq(Numeric)
    PROVE  \E f \in [0..Len(b) -> NumberSeq] :
              /\ f[0] = <<0>>
              /\ \A i \in 1..Len(b) : f[i] = OneMore(f[i - 1], b[i])
              /\ Numbers(b) = f[Len(b)]
<1> DEFINE n == Len(b)
           Is(f) == f = [i \in 0..n |-> IF i = 0 THEN <<0>> ELSE OneMore(f[i - 1], b[i])]
           step == [i \in 1..n |-> [x \in NumberSeq |-> OneMore(x, b[i])]]
           out == CHOOSE f : Is(f)
<1>1. n \in Nat /\ \A i \in 1..n : b[i] \in Numeric
  BY LenProperties, ElementOfSeq
<1>2. <<0>> \in NumberSeq
  BY DEF NumberSeq
<1>3. step \in [1..n -> [NumberSeq -> NumberSeq]]
  <2>1. \A i \in 1..n : \A x \in NumberSeq : OneMore(x, b[i]) \in NumberSeq
    BY <1>1, OneMoreType DEF Numeric
  <2> HIDE DEF n
  <2> QED BY <2>1
<1>4. \A i \in 1..n : \A x \in NumberSeq : step[i][x] = OneMore(x, b[i])
  OBVIOUS
<1>5. Numbers(b) = out[n]
  BY DEF Numbers
<1> HIDE DEF n, step
<1> DEFINE base == <<0>>
<1> HIDE DEF base
<1>6. PICK g \in [0..n -> NumberSeq] :
         g[0] = base /\ \A i \in 1..n : g[i] = step[i][g[i - 1]]
  <2>1. base \in NumberSeq
    BY <1>2 DEF base
  <2>2. n \in Nat
    BY <1>1
  <2>3. Stepwise(n, NumberSeq, base, step)
    BY <1>3, <2>1, <2>2, StepByStep
  <2> QED BY <2>3 DEF Stepwise
<1>7. ASSUME NEW i \in 1..n PROVE g[i] = OneMore(g[i - 1], b[i])
  <2>1. i - 1 \in 0..n
    BY <1>1
  <2>2. g[i - 1] \in NumberSeq
    BY <2>1
  <2> QED BY <1>4, <1>6, <2>2
<1>8. \A i \in 0..n : i = 0 \/ (i # 0 /\ i \in 1..n)
  BY <1>1
<1>9. Is(g)
  <2> DEFINE h == [i \in 0..n |-> IF i = 0 THEN <<0>> ELSE OneMore(g[i - 1], b[i])]
  <2>1. ASSUME NEW i \in 0..n PROVE g[i] = h[i]
    BY <1>6, <1>7, <1>8 DEF base
  <2>2. g = h
    BY <2>1
  <2> QED BY <2>2
<1>10. Is(out)
  <2>1. \E f : Is(f)
    BY <1>9
  <2> HIDE DEF Is
  <2> QED BY <2>1
<1> HIDE DEF out
<1>11. \A i \in 0..n : out[i] = IF i = 0 THEN <<0>> ELSE OneMore(out[i - 1], b[i])
  BY <1>10
<1>12. out = g
  <2> DEFINE S == {i \in 0..n : out[i] = g[i]}
  <2>1. 0 \in S
    <3>1. 0 \in 0..n
      BY <1>1
    <3> QED BY <1>6, <1>11, <3>1 DEF base
  <2>2. ASSUME NEW i \in 0..(n - 1), i \in S PROVE i + 1 \in S
    <3>1. i + 1 \in 0..n /\ i + 1 \in 1..n /\ i + 1 # 0 /\ (i + 1) - 1 = i
      BY <1>1
    <3>2. out[i] = g[i]
      BY <2>2
    <3>3. out[i + 1] = OneMore(out[i], b[i + 1]) /\ g[i + 1] = OneMore(g[i], b[i + 1])
      BY <1>7, <1>11, <3>1
    <3> QED BY <3>1, <3>2, <3>3
  <2> HIDE DEF S
  <2>3. \A i \in 0..n : i \in S
    BY <1>1, <2>1, <2>2, CountUp, Zenon
  <2>4. \A i \in 0..n : out[i] = g[i]
    BY <2>3 DEF S
  <2>5. out = [i \in 0..n |-> out[i]]
    BY <1>10
  <2> QED BY <2>4, <2>5
<1>13. Numbers(b) = g[n]
  BY <1>5, <1>12
<1> QED BY <1>6, <1>7, <1>13 DEF n, base

LEMMA NoNumber == Numbers(<<>>) = <<0>>
<1>1. <<>> \in Seq(Numeric) /\ Len(<<>>) = 0
  OBVIOUS
<1> QED BY <1>1, NumbersIs

LEMMA NumbersAppend ==
    ASSUME NEW b \in Seq(Numeric), NEW c \in Numeric
    PROVE  /\ Append(b, c) \in Seq(Numeric)
           /\ Numbers(Append(b, c)) = OneMore(Numbers(b), c)
<1> DEFINE n == Len(b)
           d == Append(b, c)
<1>1. n \in Nat
  BY LenProperties
<1>2. /\ d \in Seq(Numeric) /\ Len(d) = n + 1 /\ d[n + 1] = c
      /\ \A i \in 1..n : d[i] = b[i]
  BY AppendProperties
<1> HIDE DEF n, d
<1>3. PICK f \in [0..n -> NumberSeq] :
         /\ f[0] = <<0>> /\ Numbers(b) = f[n]
         /\ \A i \in 1..n : f[i] = OneMore(f[i - 1], b[i])
  BY NumbersIs DEF n
<1>4. PICK g \in [0..(n + 1) -> NumberSeq] :
         /\ g[0] = <<0>> /\ Numbers(d) = g[n + 1]
         /\ \A i \in 1..(n + 1) : g[i] = OneMore(g[i - 1], d[i])
  <2>1. \E g \in [0..Len(d) -> NumberSeq] :
           /\ g[0] = <<0>>
           /\ \A i \in 1..Len(d) : g[i] = OneMore(g[i - 1], d[i])
           /\ Numbers(d) = g[Len(d)]
    BY <1>2, NumbersIs
  <2> QED BY <1>2, <2>1
<1> DEFINE S == {i \in 0..n : f[i] = g[i]}
<1>5. 0 \in S
  <2>1. 0 \in 0..n /\ f[0] = g[0]
    BY <1>1, <1>3, <1>4
  <2> QED BY <2>1
<1>6. ASSUME NEW i \in 0..(n - 1), i \in S PROVE i + 1 \in S
  <2>1. i + 1 \in 0..n /\ i + 1 \in 1..n /\ i + 1 \in 1..(n + 1) /\ (i + 1) - 1 = i
    BY <1>1
  <2>2. f[i + 1] = OneMore(f[i], b[i + 1])
    BY <1>3, <2>1
  <2>3. g[i + 1] = OneMore(g[i], d[i + 1])
    BY <1>4, <2>1
  <2>4. d[i + 1] = b[i + 1]
    BY <1>2, <2>1
  <2> QED BY <1>6, <2>1, <2>2, <2>3, <2>4
<1> HIDE DEF S
<1>7. \A i \in 0..n : i \in S
  BY <1>1, <1>5, <1>6, CountUp, Zenon
<1>8. f[n] = g[n]
  <2>1. n \in 0..n
    BY <1>1
  <2> QED BY <1>7, <2>1 DEF S
<1>9. g[n + 1] = OneMore(g[n], d[n + 1])
  <2>1. n + 1 \in 1..(n + 1) /\ (n + 1) - 1 = n
    BY <1>1
  <2> QED BY <1>4, <2>1
<1> QED BY <1>2, <1>3, <1>4, <1>8, <1>9 DEF d

(* Decimal digits. *)
Digit == 48..57

LEMMA U16Range == \E m \in Nat : U16 = 0..m
<1> DEFINE m == 65535
<1>1. m \in Nat /\ U16 = 0..m
  BY DEF U16
<1> HIDE DEF m
<1> QED BY <1>1

LEMMA Tenth ==
    ASSUME NEW x \in U16, ~(x < 10)
    PROVE  /\ x \div 10 \in U16 /\ x \div 10 < x /\ x % 10 \in 0..9
           /\ 10 * (x \div 10) + (x % 10) = x
<1> DEFINE m == 65535
<1>1. U16 = 0..m /\ m \in Nat
  BY DEF U16
<1> HIDE DEF m
<1>2. x \div 10 \in Nat /\ x \div 10 < x
  BY <1>1
<1>3. x % 10 \in 0..9 /\ 10 * (x \div 10) + (x % 10) = x
  BY <1>1
<1>4. x \div 10 \in U16
  <2> DEFINE y == x \div 10
  <2> HIDE DEF y
  <2>1. y \in Nat /\ y < x
    BY <1>2 DEF y
  <2>2. y \in U16
    BY <1>1, <2>1
  <2> QED BY <2>2 DEF y
<1> QED BY <1>2, <1>3, <1>4

LEMMA DecimalIs ==
    ASSUME NEW x \in U16
    PROVE  Decimal[x] = IF x < 10 THEN <<48 + x>>
                        ELSE Append(Decimal[x \div 10], 48 + (x % 10))
<1> DEFINE m == 65535
<1>91. m \in Nat /\ 0 \in 0..m /\ m \in 0..m /\ U16 = 0..m
  BY DEF U16
<1>92. Decimal = CHOOSE f : f = [i \in 0..m |-> IF i < 10 THEN <<48 + i>>
                               ELSE Append(f[i \div 10], 48 + (i % 10))]
  BY DEF Decimal, U16
<1> HIDE DEF m
<1>93. \A k \in 0..(m - 1) : k + 1 \in 0..m /\ k \in 0..m
  BY <1>91
<1> DEFINE R(f, i) == IF i < 10 THEN <<48 + i>> ELSE Append(f[i \div 10], 48 + (i % 10))
           Is(f, k) == f = [i \in 0..k |-> R(f, i)]
           S == {k \in 0..m : \E f : Is(f, k)}
<1>1. 0 \in S
  <2> DEFINE f == [i \in 0..0 |-> <<48 + i>>]
             g == [i \in 0..0 |-> R(f, i)]
  <2>1. ASSUME NEW i \in 0..0 PROVE f[i] = g[i]
    <3>1. i < 10
      OBVIOUS
    <3> QED BY <3>1
  <2>2. Is(f, 0)
    BY <2>1
  <2> HIDE DEF Is
  <2> QED BY <1>91, <2>2
<1>2. ASSUME NEW k \in 0..(m - 1), k \in S PROVE k + 1 \in S
  <2>1. PICK f : Is(f, k)
    BY <1>2
  <2> DEFINE g == [i \in 0..(k + 1) |-> IF i = k + 1 THEN R(f, k + 1) ELSE f[i]]
             h == [i \in 0..(k + 1) |-> R(g, i)]
  <2>2. \A i \in 0..k : f[i] = R(f, i)
    <3> HIDE DEF S
    <3> QED BY <2>1
  <2>3. \A i \in 0..k : g[i] = f[i]
    <3>1. \A i \in 0..k : i \in 0..(k + 1) /\ i # k + 1
      OBVIOUS
    <3> QED BY <3>1
  <2>4. g[k + 1] = R(f, k + 1)
    OBVIOUS
  <2>5. \A i \in 0..(k + 1) : h[i] = R(g, i)
    OBVIOUS
  <2>6. ASSUME NEW i \in 0..(k + 1) PROVE R(g, i) = R(f, i)
    <3> HIDE DEF g, h, S, Is
    <3>1. CASE i < 10
      BY <3>1
    <3>2. CASE ~(i < 10)
      <4>1. i \in U16 /\ i \in 0..m
        BY <1>91, <1>93
      <4>2. i \div 10 \in 0..k
        BY <1>91, <3>2, <4>1, Tenth
      <4> QED BY <2>3, <3>2, <4>2
    <3> QED BY <3>1, <3>2
  <2>7. ASSUME NEW i \in 0..(k + 1) PROVE g[i] = h[i]
    <3>1. i = k + 1 \/ i \in 0..k
      OBVIOUS
    <3> HIDE DEF g, h, S, Is, R
    <3> QED BY <2>2, <2>3, <2>4, <2>5, <2>6, <3>1
  <2>8. g = h
    <3> HIDE DEF S, R
    <3> QED BY <2>7
  <2>9. Is(g, k + 1)
    BY <2>8
  <2>10. k + 1 \in 0..m
    BY <1>93
  <2> HIDE DEF Is
  <2> QED BY <2>9, <2>10
<1>3. \A i \in 0..m : i \in S
  <2> HIDE DEF S
  <2> QED BY <1>1, <1>2, <1>91, CountUp, Zenon
<1>4. m \in S
  <2> HIDE DEF S
  <2> QED BY <1>3, <1>91
<1>5. \E f : Is(f, m)
  BY <1>4
<1>6. Decimal = CHOOSE f : Is(f, m)
  BY <1>92
<1>7. Is(Decimal, m)
  <2> HIDE DEF Is
  <2> QED BY <1>5, <1>6
<1>8. \A i \in 0..m : Decimal[i] = R(Decimal, i)
  <2> HIDE DEF S
  <2> QED BY <1>7
<1> QED BY <1>8, <1>91

LEMMA DecimalDigits ==
    ASSUME NEW x \in U16
    PROVE  Decimal[x] \in Seq(Digit)
<1>91. PICK m \in Nat : U16 = 0..m
  BY U16Range, Zenon
<1> DEFINE S == {k \in 0..m : \A i \in 0..k : Decimal[i] \in Seq(Digit)}
<1>1. 0 \in S
  <2>1. 0 \in U16 /\ 0 < 10 /\ 0 \in 0..m /\ \A i \in 0..0 : i = 0
    BY <1>91
  <2>2. Decimal[0] = <<48 + 0>>
    BY <2>1, DecimalIs
  <2>3. <<48 + 0>> \in Seq(Digit)
    BY DEF Digit
  <2> QED BY <2>1, <2>2, <2>3
<1>2. ASSUME NEW k \in 0..(m - 1), k \in S PROVE k + 1 \in S
  <2> DEFINE x1 == k + 1
  <2>1. x1 \in U16 /\ x1 \in 0..m /\ k \in 0..m
    BY <1>91
  <2>2. \A i \in 0..k : Decimal[i] \in Seq(Digit)
    BY <1>2
  <2> HIDE DEF S
  <2>3. Decimal[x1] \in Seq(Digit)
    <3>1. CASE x1 < 10
      <4>1. Decimal[x1] = <<48 + x1>>
        BY <2>1, <3>1, DecimalIs
      <4>2. 48 + x1 \in Digit
        BY <3>1 DEF Digit
      <4> QED BY <4>1, <4>2
    <3>2. CASE ~(x1 < 10)
      <4>1. x1 \div 10 \in 0..k /\ x1 % 10 \in 0..9
        BY <1>91, <2>1, <3>2, Tenth
      <4>2. Decimal[x1] = Append(Decimal[x1 \div 10], 48 + (x1 % 10))
        BY <2>1, <3>2, DecimalIs
      <4> DEFINE c == 48 + (x1 % 10)
                 d == Decimal[x1 \div 10]
      <4>3. c \in Digit /\ d \in Seq(Digit)
        BY <2>2, <4>1 DEF Digit
      <4> HIDE DEF c, d, x1
      <4> QED BY <4>2, <4>3, AppendProperties DEF c, d
    <3> QED BY <3>1, <3>2
  <2>4. \A i \in 0..x1 : i \in 0..k \/ i = x1
    OBVIOUS
  <2>5. \A i \in 0..x1 : Decimal[i] \in Seq(Digit)
    BY <2>2, <2>3, <2>4
  <2> QED BY <2>1, <2>5 DEF S
<1>3. \A i \in 0..m : i \in S
  <2> HIDE DEF S
  <2> QED BY <1>1, <1>2, <1>91, CountUp, Zenon
<1>4. x \in 0..m /\ x \in 0..x
  BY <1>91
<1> QED BY <1>3, <1>4

(* Digits behind other bytes are read as the number they stand for.         *)
LEMMA ReadsDecimal ==
    ASSUME NEW b \in Seq(Numeric), NEW q \in Seq(Nat), Numbers(b) = Append(q, 0),
           NEW x \in U16
    PROVE  /\ b \o Decimal[x] \in Seq(Numeric)
           /\ Numbers(b \o Decimal[x]) = Append(q, x)
<1>91. PICK m \in Nat : U16 = 0..m
  BY U16Range, Zenon
<1> DEFINE P(i) == /\ b \o Decimal[i] \in Seq(Numeric)
                   /\ Numbers(b \o Decimal[i]) = Append(q, i)
           S == {k \in 0..m : \A i \in 0..k : P(i)}
<1>1. ASSUME NEW i \in U16, i < 10 PROVE P(i)
  <2>1. Decimal[i] = <<48 + i>>
    BY <1>1, DecimalIs
  <2> DEFINE c == 48 + i
  <2>2. c \in Digit /\ c \in Numeric /\ 10 * 0 + (c - 48) = i
    BY <1>91, <1>1 DEF Digit, Numeric
  <2> HIDE DEF c
  <2>3. b \o <<c>> = Append(b, c)
    BY <2>2, AppendIsConcat
  <2>4. Append(b, c) \in Seq(Numeric) /\ Numbers(Append(b, c)) = OneMore(Append(q, 0), c)
    BY <2>2, NumbersAppend
  <2>5. OneMore(Append(q, 0), c) = Append(q, 10 * 0 + (c - 48))
    BY <2>2, AnotherDigit DEF Digit
  <2> QED BY <2>1, <2>2, <2>3, <2>4, <2>5 DEF c
<1>2. ASSUME NEW i \in U16, ~(i < 10), P(i \div 10) PROVE P(i)
  <2> DEFINE c == 48 + (i % 10)
             v == i \div 10
             d == Decimal[v]
  <2>1. v \in U16 /\ c \in Digit /\ c \in Numeric /\ 10 * v + (c - 48) = i /\ v \in Nat
    BY <1>91, <1>2, Tenth DEF Digit, Numeric
  <2>2. Decimal[i] = Append(d, c)
    BY <1>2, DecimalIs
  <2>3. b \o d \in Seq(Numeric) /\ Numbers(b \o d) = Append(q, v)
    BY <1>2
  <2>4. d \in Seq(Numeric)
    <3>1. d \in Seq(Digit)
      BY <2>1, DecimalDigits
    <3>2. Digit \subseteq Numeric
      BY DEF Digit, Numeric
    <3> QED BY <3>1, <3>2, SeqMonotonic
  <2> HIDE DEF c, v, d
  <2>5. b \o Append(d, c) = Append(b \o d, c)
    <3>1. Append(d, c) = d \o <<c>> /\ Append(b \o d, c) = (b \o d) \o <<c>>
      BY <2>1, <2>3, <2>4, AppendIsConcat
    <3>2. <<c>> \in Seq(Numeric)
      BY <2>1
    <3>3. (b \o d) \o <<c>> = b \o (d \o <<c>>)
      BY <2>4, <3>2, ConcatAssociative
    <3> QED BY <3>1, <3>3
  <2>6. /\ Append(b \o d, c) \in Seq(Numeric)
        /\ Numbers(Append(b \o d, c)) = OneMore(Append(q, v), c)
    BY <2>1, <2>3, NumbersAppend
  <2>7. OneMore(Append(q, v), c) = Append(q, 10 * v + (c - 48))
    BY <2>1, AnotherDigit DEF Digit
  <2> QED BY <2>1, <2>2, <2>5, <2>6, <2>7
<1> HIDE DEF P
<1>3. 0 \in S
  <2>1. 0 \in U16 /\ 0 < 10 /\ 0 \in 0..m /\ \A i \in 0..0 : i = 0
    BY <1>91
  <2>2. P(0)
    BY <1>1, <2>1
  <2> QED BY <2>1, <2>2
<1>4. ASSUME NEW k \in 0..(m - 1), k \in S PROVE k + 1 \in S
  <2> DEFINE y == k + 1
  <2>1. y \in U16 /\ y \in 0..m /\ k \in 0..m /\ \A i \in 0..y : i \in 0..k \/ i = y
    BY <1>91
  <2>2. \A i \in 0..k : P(i)
    BY <1>4
  <2>3. P(y)
    <3>1. CASE y < 10
      BY <1>1, <2>1, <3>1
    <3>2. CASE ~(y < 10)
      <4>1. y \div 10 \in 0..k
        BY <1>91, <2>1, <3>2, Tenth
      <4>2. P(y \div 10)
        BY <2>2, <4>1
      <4> QED BY <1>2, <2>1, <3>2, <4>2
    <3> QED BY <3>1, <3>2
  <2> QED BY <2>1, <2>2, <2>3
<1>5. \A i \in 0..m : i \in S
  <2> HIDE DEF S
  <2> QED BY <1>3, <1>4, <1>91, CountUp, Zenon
<1>6. x \in 0..m /\ x \in 0..x
  BY <1>91
<1>7. P(x)
  BY <1>5, <1>6
<1> QED BY <1>7 DEF P

LEMMA U16Type == U16 \subseteq Nat
<1> DEFINE m == 65535
<1>1. U16 = 0..m /\ m \in Nat
  BY DEF U16
<1> HIDE DEF m
<1> QED BY <1>1

LEMMA Tuples ==
    ASSUME NEW a \in Nat, NEW b \in Nat, NEW c \in Nat
    PROVE  /\ Append(<<>>, a) = <<a>>
           /\ Append(<<a>>, b) = <<a, b>>
           /\ Append(<<a, b>>, c) = <<a, b, c>>
<1> DEFINE s == <<a>>
           t == <<a, b>>
           u == <<a, b, c>>
           v == Append(s, b)
           w == Append(t, c)
<1>1. Append(<<>>, a) = <<a>>
  OBVIOUS
<1>2. /\ s \in Seq(Nat) /\ Len(s) = 1 /\ s[1] = a
      /\ t \in Seq(Nat) /\ Len(t) = 2 /\ t[1] = a /\ t[2] = b
      /\ u \in Seq(Nat) /\ Len(u) = 3 /\ u[1] = a /\ u[2] = b /\ u[3] = c
  OBVIOUS
<1> HIDE DEF s, t, u
<1>3. v \in Seq(Nat) /\ Len(v) = 1 + 1 /\ v[1] = a /\ v[1 + 1] = b
  <2>1. /\ v \in Seq(Nat) /\ Len(v) = Len(s) + 1 /\ v[Len(s) + 1] = b
        /\ \A i \in 1..Len(s) : v[i] = s[i]
    <3>1. s \in Seq(Nat)
      BY <1>2
    <3> HIDE DEF v
    <3> QED BY <3>1, AppendProperties DEF v
  <2> HIDE DEF v
  <2>2. 1 \in 1..Len(s)
    BY <1>2
  <2> QED BY <1>2, <2>1, <2>2
<1>4. w \in Seq(Nat) /\ Len(w) = 2 + 1 /\ w[1] = a /\ w[2] = b /\ w[2 + 1] = c
  <2>1. /\ w \in Seq(Nat) /\ Len(w) = Len(t) + 1 /\ w[Len(t) + 1] = c
        /\ \A i \in 1..Len(t) : w[i] = t[i]
    <3>1. t \in Seq(Nat)
      BY <1>2
    <3> HIDE DEF w
    <3> QED BY <3>1, AppendProperties DEF w
  <2> HIDE DEF w
  <2>2. 1 \in 1..Len(t) /\ 2 \in 1..Len(t)
    BY <1>2
  <2> QED BY <1>2, <2>1, <2>2
<1> HIDE DEF v, w
<1>5. v = t
  <2>1. \A i \in 1..2 : i = 1 \/ i = 2
    OBVIOUS
  <2>2. Len(v) = Len(t) /\ \A i \in 1..Len(v) : v[i] = t[i]
    BY <1>2, <1>3, <2>1
  <2> QED BY <1>2, <1>3, <2>2, Same
<1>6. w = u
  <2>1. \A i \in 1..3 : i = 1 \/ i = 2 \/ i = 3
    OBVIOUS
  <2>2. Len(w) = Len(u) /\ \A i \in 1..Len(w) : w[i] = u[i]
    BY <1>2, <1>4, <2>1
  <2> QED BY <1>2, <1>4, <2>2, Same
<1> QED BY <1>1, <1>5, <1>6 DEF s, t, u, v, w

LEMMA OneDigit ==
    ASSUME NEW x \in 0..9
    PROVE  x \in U16 /\ Decimal[x] = <<48 + x>>
<1> DEFINE m == 65535
<1>1. U16 = 0..m /\ m \in Nat /\ 9 < m
  BY DEF U16
<1> HIDE DEF m
<1>2. x \in U16 /\ x < 10
  BY <1>1
<1> QED BY <1>2, DecimalIs

(* A number on its own. *)
LEMMA ReadsNumber ==
    ASSUME NEW x \in U16
    PROVE  Decimal[x] \in Seq(Numeric) /\ Numbers(Decimal[x]) = <<x>>
<1> DEFINE d == Decimal[x]
           q == <<>>
<1>1. <<>> \in Seq(Numeric) /\ q \in Seq(Nat) /\ Numbers(<<>>) = Append(q, 0)
  BY NoNumber
<1>2. <<>> \o d \in Seq(Numeric) /\ Numbers(<<>> \o d) = Append(q, x)
  BY <1>1, ReadsDecimal
<1>3. d \in Seq(Digit)
  BY DecimalDigits
<1>4. <<>> \o d = d
  <2> HIDE DEF d
  <2> QED BY <1>3, ConcatEmptySeq
<1> QED BY <1>2, <1>4

(* The numbers that start and end a bracketed paste. *)
LEMMA ReadsPaste ==
    ASSUME NEW x \in 0..9
    PROVE  /\ <<50, 48, 48 + x>> \in Seq(Numeric)
           /\ Numbers(<<50, 48, 48 + x>>) = <<200 + x>>
<1> DEFINE c == 48 + x
           q == <<>>
<1>1. q \in Seq(Nat) /\ q \in Seq(Numeric) /\ Numbers(q) = Append(q, 0)
  BY NoNumber
<1>2. /\ 50 \in Numeric /\ 48 \in Numeric /\ c \in Numeric
      /\ 50 \in 48..57 /\ 48 \in 48..57 /\ c \in 48..57
      /\ 10 * 0 + (50 - 48) = 2 /\ 10 * 2 + (48 - 48) = 20 /\ 10 * 20 + (c - 48) = 200 + x
  BY DEF Numeric
<1> DEFINE s == <<50>>
           r == <<50, 48>>
<1>3. Append(q, 50) = s /\ Append(s, 48) = r /\ Append(r, c) = <<50, 48, c>>
  <2>1. 50 \in Nat /\ 48 \in Nat /\ c \in Nat
    OBVIOUS
  <2> HIDE DEF c
  <2> QED BY <2>1, Tuples
<1>4. s \in Seq(Numeric) /\ r \in Seq(Numeric)
  BY <1>2
<1> HIDE DEF c, s, r
<1>5. Numbers(s) = Append(q, 2)
  <2>1. Numbers(Append(q, 50)) = OneMore(Append(q, 0), 50)
    BY <1>1, <1>2, NumbersAppend
  <2>2. OneMore(Append(q, 0), 50) = Append(q, 10 * 0 + (50 - 48))
    BY <1>1, <1>2, AnotherDigit
  <2> QED BY <1>2, <1>3, <2>1, <2>2
<1>6. Numbers(r) = Append(q, 20)
  <2>1. Numbers(Append(s, 48)) = OneMore(Append(q, 2), 48)
    BY <1>2, <1>4, <1>5, NumbersAppend
  <2>2. OneMore(Append(q, 2), 48) = Append(q, 10 * 2 + (48 - 48))
    BY <1>1, <1>2, AnotherDigit
  <2> QED BY <1>2, <1>3, <2>1, <2>2
<1>7. Numbers(<<50, 48, c>>) = Append(q, 200 + x)
  <2>1. /\ Append(r, c) \in Seq(Numeric)
        /\ Numbers(Append(r, c)) = OneMore(Append(q, 20), c)
    BY <1>2, <1>4, <1>6, NumbersAppend
  <2>2. OneMore(Append(q, 20), c) = Append(q, 10 * 20 + (c - 48))
    BY <1>1, <1>2, AnotherDigit
  <2> QED BY <1>2, <1>3, <2>1, <2>2
<1>8. <<50, 48, c>> \in Seq(Numeric)
  BY <1>2
<1> QED BY <1>7, <1>8 DEF c

(* Three numbers between semicolons, as in a mouse report.                  *)
LEMMA ReadsThree ==
    ASSUME NEW a \in U16, NEW b \in U16, NEW c \in U16
    PROVE  LET p == Decimal[a] \o <<59>> \o Decimal[b] \o <<59>> \o Decimal[c]
           IN  p \in Seq(Numeric) /\ Numbers(p) = <<a, b, c>>
<1> DEFINE p1 == Decimal[a]
           p2 == p1 \o <<59>>
           p3 == p2 \o Decimal[b]
           p4 == p3 \o <<59>>
           p5 == p4 \o Decimal[c]
<1>1. 59 \in Numeric /\ a \in Nat /\ b \in Nat /\ c \in Nat
  <2>1. U16 \subseteq Nat
    BY U16Type
  <2> QED BY <2>1 DEF Numeric
<1>2. p1 \in Seq(Numeric) /\ Numbers(p1) = <<a>>
  BY ReadsNumber
<1>3. \A ns : OneMore(ns, 59) = Append(ns, 0)
  BY DEF OneMore
<1> HIDE DEF p1
<1>4. p2 \in Seq(Numeric) /\ Numbers(p2) = Append(<<a>>, 0)
  <2>1. Append(p1, 59) = p2
    BY <1>1, <1>2, AppendIsConcat
  <2>2. /\ Append(p1, 59) \in Seq(Numeric)
        /\ Numbers(Append(p1, 59)) = OneMore(Numbers(p1), 59)
    BY <1>1, <1>2, NumbersAppend
  <2> QED BY <1>2, <1>3, <2>1, <2>2
<1> HIDE DEF p2
<1>5. p3 \in Seq(Numeric) /\ Numbers(p3) = Append(<<a>>, b)
  <2>1. <<a>> \in Seq(Nat)
    BY <1>1
  <2> QED BY <1>4, <2>1, ReadsDecimal
<1> HIDE DEF p3
<1>6. p4 \in Seq(Numeric) /\ Numbers(p4) = Append(<<a, b>>, 0)
  <2>1. Append(p3, 59) = p4
    BY <1>1, <1>5, AppendIsConcat
  <2>2. /\ Append(p3, 59) \in Seq(Numeric)
        /\ Numbers(Append(p3, 59)) = OneMore(Numbers(p3), 59)
    BY <1>1, <1>5, NumbersAppend
  <2>3. Append(<<a>>, b) = <<a, b>>
    BY <1>1, Tuples
  <2> QED BY <1>3, <1>5, <2>1, <2>2, <2>3
<1> HIDE DEF p4
<1>7. p5 \in Seq(Numeric) /\ Numbers(p5) = Append(<<a, b>>, c)
  <2>1. <<a, b>> \in Seq(Nat)
    BY <1>1
  <2> QED BY <1>6, <2>1, ReadsDecimal
<1>8. Append(<<a, b>>, c) = <<a, b, c>>
  BY <1>1, Tuples
<1> QED BY <1>7, <1>8 DEF p4, p3, p2, p1

-----------------------------------------------------------------------------
(* Keys. *)

LEMMA CodeOfIs ==
    ASSUME NEW f, NEW code \in DOMAIN f, \A d \in DOMAIN f : f[d] = f[code] => d = code
    PROVE  CodeOf(f, f[code]) = Plain(code)
<1> DEFINE d == CHOOSE x \in DOMAIN f : f[x] = f[code]
<1>1. d \in DOMAIN f /\ f[d] = f[code]
  OBVIOUS
<1>2. d = code
  BY <1>1
<1> QED BY <1>2 DEF CodeOf

CursorKeys == {"Up", "Down", "Right", "Left", "Home", "End"}

LEMMA CursorCodes ==
    /\ DOMAIN CursorLetter = CursorKeys
    /\ \A code \in CursorKeys :
          /\ CursorLetter[code] \in 65..72
          /\ CodeOf(CursorLetter, CursorLetter[code]) = Plain(code)
<1>1. DOMAIN CursorLetter = CursorKeys
  BY DEF CursorLetter, CursorKeys
<1>2. \A code \in CursorKeys : CursorLetter[code] \in 65..72
  BY DEF CursorLetter, CursorKeys
<1>3. ASSUME NEW code \in CursorKeys
      PROVE  CodeOf(CursorLetter, CursorLetter[code]) = Plain(code)
  <2>1. \A d \in CursorKeys : CursorLetter[d] = CursorLetter[code] => d = code
    BY DEF CursorLetter, CursorKeys
  <2> DEFINE f == CursorLetter
  <2> HIDE DEF f
  <2>2. code \in DOMAIN f /\ \A d \in DOMAIN f : f[d] = f[code] => d = code
    BY <1>1, <2>1 DEF f
  <2>3. CodeOf(f, f[code]) = Plain(code)
    BY <2>2, CodeOfIs
  <2> QED BY <2>3 DEF f
<1> QED BY <1>1, <1>2, <1>3

(* The bytes of the sequences that are written out. *)
LEMMA CsiElements ==
    ASSUME NEW p \in Seq(Param), NEW f \in Final, NEW s, s = CsiBytes(p, f)
    PROVE  /\ s \in Seq(Byte) /\ Len(s) = Len(p) + 3
           /\ s[1] = ESC /\ s[2] = 91 /\ s[Len(p) + 3] = f
           /\ \A i \in 1..Len(p) : s[2 + i] = p[i]
BY CsiShape

LEMMA CsiLiteral ==
    ASSUME NEW f \in Final
    PROVE  /\ CsiBytes(<<>>, f) = <<ESC, 91, f>>
           /\ \A x \in Param : CsiBytes(<<x>>, f) = <<ESC, 91, x, f>>
           /\ \A x, y, z \in Param :
                 CsiBytes(<<x, y, z>>, f) = <<ESC, 91, x, y, z, f>>
<1>1. CsiBytes(<<>>, f) = <<ESC, 91, f>>
  <2> DEFINE p == <<>>
             s == CsiBytes(p, f)
             t == <<ESC, 91, f>>
  <2>1. p \in Seq(Param) /\ Len(p) = 0
    OBVIOUS
  <2>2. t \in Seq(Byte) /\ Len(t) = 3 /\ t[1] = ESC /\ t[2] = 91 /\ t[3] = f
    BY DEF Byte, ESC, Final
  <2> HIDE DEF p, t
  <2>3. s \in Seq(Byte) /\ Len(s) = 0 + 3 /\ s[1] = ESC /\ s[2] = 91 /\ s[0 + 3] = f
    <3>1. p \in Seq(Param)
      BY <2>1
    <3>2. /\ s \in Seq(Byte) /\ Len(s) = Len(p) + 3
          /\ s[1] = ESC /\ s[2] = 91 /\ s[Len(p) + 3] = f
          /\ \A i \in 1..Len(p) : s[2 + i] = p[i]
      BY <3>1, CsiElements
    <3> HIDE DEF s
    <3> QED BY <2>1, <3>2
  <2> HIDE DEF s
  <2>4. \A i \in 1..3 : i = 1 \/ i = 2 \/ i = 3
    OBVIOUS
  <2>5. Len(s) = Len(t) /\ \A i \in 1..Len(s) : s[i] = t[i]
    BY <2>2, <2>3, <2>4
  <2>6. s = t
    BY <2>2, <2>3, <2>5, Same
  <2> QED BY <2>6 DEF p, s, t
<1>2. ASSUME NEW x \in Param PROVE CsiBytes(<<x>>, f) = <<ESC, 91, x, f>>
  <2> DEFINE p == <<x>>
             s == CsiBytes(p, f)
             t == <<ESC, 91, x, f>>
  <2>1. p \in Seq(Param) /\ Len(p) = 1 /\ p[1] = x
    OBVIOUS
  <2>2. /\ t \in Seq(Byte) /\ Len(t) = 4
        /\ t[1] = ESC /\ t[2] = 91 /\ t[3] = x /\ t[4] = f
    BY DEF Byte, ESC, Final, Param
  <2> HIDE DEF p, t
  <2>3. /\ s \in Seq(Byte) /\ Len(s) = 1 + 3 /\ s[1] = ESC /\ s[2] = 91 /\ s[1 + 3] = f
        /\ \A i \in 1..1 : s[2 + i] = p[i]
    <3>1. p \in Seq(Param)
      BY <2>1
    <3>2. /\ s \in Seq(Byte) /\ Len(s) = Len(p) + 3
          /\ s[1] = ESC /\ s[2] = 91 /\ s[Len(p) + 3] = f
          /\ \A i \in 1..Len(p) : s[2 + i] = p[i]
      BY <3>1, CsiElements
    <3> HIDE DEF s
    <3> QED BY <2>1, <3>2
  <2> HIDE DEF s
  <2>4. s[2 + 1] = x
    BY <2>1, <2>3
  <2>5. \A i \in 1..4 : i = 1 \/ i = 2 \/ i = 3 \/ i = 4
    OBVIOUS
  <2>6. Len(s) = Len(t) /\ \A i \in 1..Len(s) : s[i] = t[i]
    BY <2>2, <2>3, <2>4, <2>5
  <2>7. s = t
    BY <2>2, <2>3, <2>6, Same
  <2> QED BY <2>7 DEF p, s, t
<1>3. ASSUME NEW x \in Param, NEW y \in Param, NEW z \in Param
      PROVE  CsiBytes(<<x, y, z>>, f) = <<ESC, 91, x, y, z, f>>
  <2> DEFINE p == <<x, y, z>>
             s == CsiBytes(p, f)
             t == <<ESC, 91, x, y, z, f>>
  <2>1. p \in Seq(Param) /\ Len(p) = 3 /\ p[1] = x /\ p[2] = y /\ p[3] = z
    OBVIOUS
  <2>2. /\ t \in Seq(Byte) /\ Len(t) = 6
        /\ t[1] = ESC /\ t[2] = 91 /\ t[3] = x /\ t[4] = y /\ t[5] = z /\ t[6] = f
    BY DEF Byte, ESC, Final, Param
  <2> HIDE DEF p, t
  <2>3. /\ s \in Seq(Byte) /\ Len(s) = 3 + 3 /\ s[1] = ESC /\ s[2] = 91 /\ s[3 + 3] = f
        /\ \A i \in 1..3 : s[2 + i] = p[i]
    <3>1. p \in Seq(Param)
      BY <2>1
    <3>2. /\ s \in Seq(Byte) /\ Len(s) = Len(p) + 3
          /\ s[1] = ESC /\ s[2] = 91 /\ s[Len(p) + 3] = f
          /\ \A i \in 1..Len(p) : s[2 + i] = p[i]
      BY <3>1, CsiElements
    <3> HIDE DEF s
    <3> QED BY <2>1, <3>2
  <2> HIDE DEF s
  <2>4. s[2 + 1] = x /\ s[2 + 2] = y /\ s[2 + 3] = z
    <3>1. 1 \in 1..3 /\ 2 \in 1..3 /\ 3 \in 1..3
      OBVIOUS
    <3> QED BY <2>1, <2>3, <3>1
  <2>5. \A i \in 1..6 : i = 1 \/ i = 2 \/ i = 3 \/ i = 4 \/ i = 5 \/ i = 6
    OBVIOUS
  <2>6. Len(s) = Len(t) /\ \A i \in 1..Len(s) : s[i] = t[i]
    BY <2>2, <2>3, <2>4, <2>5
  <2>7. s = t
    BY <2>2, <2>3, <2>6, Same
  <2> QED BY <2>7 DEF p, s, t
<1> QED BY <1>1, <1>2, <1>3

LEMMA CursorUnit ==
    ASSUME NEW code \in CursorKeys, NEW app \in BOOLEAN
    PROVE  Unit(Arrow(CursorLetter[code], app), Plain(code))
<1> DEFINE l == CursorLetter[code]
<1>1. l \in 65..72 /\ CodeOf(CursorLetter, l) = Plain(code)
  BY CursorCodes
<1> HIDE DEF l
<1>2. CASE app
  <2>1. l \in Byte /\ l \notin 80..83
    BY <1>1 DEF Byte
  <2>2. Ss3(l) = Plain(code)
    BY <1>1, <2>1 DEF Ss3
  <2>3. Arrow(l, app) = <<ESC, 79, l>>
    BY <1>2 DEF Arrow
  <2> QED BY <2>1, <2>2, <2>3, Ss3Unit DEF l
<1>3. CASE ~app
  <2>1. l \in Final /\ l # 126 /\ l # 90
    BY <1>1 DEF Final
  <2> DEFINE p == <<>>
  <2>2. Csi(p, l) = Plain(code)
    BY <1>1, <2>1 DEF Csi
  <2>3. p \in Seq(Param) /\ CsiBytes(p, l) = <<ESC, 91, l>>
    BY <2>1, CsiLiteral
  <2>4. Arrow(l, app) = <<ESC, 91, l>>
    BY <1>3 DEF Arrow
  <2> HIDE DEF p
  <2>5. Unit(CsiBytes(p, l), Csi(p, l))
    BY <2>1, <2>3, CsiUnit
  <2> QED BY <2>2, <2>3, <2>4, <2>5 DEF l
<1> QED BY <1>2, <1>3

(* ESC [ number ~ *)
LEMMA TildeUnit ==
    ASSUME NEW p \in Seq(Numeric), NEW x \in Nat, Numbers(p) = <<x>>, x < 200,
           x \in 1..24
    PROVE  Unit(CsiBytes(p, 126), Keypad[x])
<1>1. p \in Seq(Param) /\ 126 \in Final
  <2>1. Numeric \subseteq Param
    BY DEF Numeric, Param
  <2> QED BY <2>1, SeqMonotonic DEF Final
<1>2. p = <<>> \/ p[1] # 60
  <2>1. p # <<>> => 1 \in 1..Len(p)
    BY LenProperties, EmptySeq
  <2>2. p # <<>> => p[1] \in Numeric
    BY <2>1, ElementOfSeq
  <2>3. 60 \notin Numeric
    BY DEF Numeric
  <2> QED BY <2>2, <2>3
<1>3. Numbers(p)[1] = x
  OBVIOUS
<1>4. DOMAIN Keypad = 1..24
  BY DEF Keypad
<1>5. Csi(p, 126) = Keypad[x]
  <2>1. x \notin {200, 201}
    OBVIOUS
  <2> DEFINE k == Keypad
  <2> HIDE DEF k
  <2>2. Csi(p, 126) = LET n == Numbers(p)[1]
                      IN  IF n \in {200, 201} THEN Key("Paste", n, {})
                          ELSE IF n \in DOMAIN k THEN k[n]
                          ELSE Plain("unknown")
    BY <1>2 DEF Csi, k
  <2> QED BY <1>3, <1>4, <2>1, <2>2 DEF k
<1>6. Unit(CsiBytes(p, 126), Csi(p, 126))
  BY <1>1, CsiUnit
<1> QED BY <1>5, <1>6

LEMMA PasteUnit ==
    ASSUME NEW x \in 0..1
    PROVE  Unit(<<ESC, 91, 50, 48, 48 + x, 126>>, Key("Paste", 200 + x, {}))
<1> DEFINE p == <<50, 48, 48 + x>>
<1>1. p \in Seq(Numeric) /\ Numbers(p) = <<200 + x>>
  <2>1. x \in 0..9
    OBVIOUS
  <2> QED BY <2>1, ReadsPaste
<1>2. p[1] # 60 /\ p # <<>>
  OBVIOUS
<1>3. CsiBytes(p, 126) = <<ESC, 91, 50, 48, 48 + x, 126>>
  <2>1. 50 \in Param /\ 48 \in Param /\ 48 + x \in Param /\ 126 \in Final
    BY DEF Param, Final
  <2> QED BY <2>1, CsiLiteral
<1> HIDE DEF p
<1>4. p \in Seq(Param) /\ 126 \in Final
  <2>1. Numeric \subseteq Param
    BY DEF Numeric, Param
  <2> QED BY <1>1, <2>1, SeqMonotonic DEF Final
<1>5. Csi(p, 126) = Key("Paste", 200 + x, {})
  <2>1. Numbers(p)[1] = 200 + x /\ 200 + x \in {200, 201}
    BY <1>1
  <2> QED BY <1>2, <2>1 DEF Csi
<1>6. Unit(CsiBytes(p, 126), Csi(p, 126))
  BY <1>4, CsiUnit
<1> QED BY <1>3, <1>5, <1>6

FixedKeys == {"Enter", "Tab", "BackTab", "Backspace", "Insert", "Delete",
              "PageUp", "PageDown"}

KeypadCode == [Insert |-> 2, Delete |-> 3, PageUp |-> 5, PageDown |-> 6]

LEMMA KeypadKeys ==
    ASSUME NEW code \in {"Insert", "Delete", "PageUp", "PageDown"}
    PROVE  /\ KeypadCode[code] \in {2, 3, 5, 6}
           /\ Keypad[KeypadCode[code]] = Plain(code)
<1> DEFINE f == KeypadCode
           x == f[code]
<1>1. /\ x \in {2, 3, 5, 6} /\ DOMAIN f = {"Insert", "Delete", "PageUp", "PageDown"}
      /\ \A d \in DOMAIN f : f[d] = f[code] => d = code
  BY DEF KeypadCode
<1> HIDE DEF f
<1>2. CodeOf(f, x) = Plain(code)
  BY <1>1, CodeOfIs
<1> HIDE DEF x
<1>3. Keypad[x] = CodeOf(f, x)
  <2>1. x \in 1..24 /\ x \notin {15, 17, 18, 19, 20, 21, 23, 24}
    BY <1>1
  <2> QED BY <2>1 DEF Keypad, f, KeypadCode
<1> QED BY <1>1, <1>2, <1>3 DEF x, f

LEMMA KeypadUnit ==
    ASSUME NEW code \in {"Insert", "Delete", "PageUp", "PageDown"}
    PROVE  Unit(<<ESC, 91, 48 + KeypadCode[code], 126>>, Plain(code))
<1> DEFINE x == KeypadCode[code]
           p == <<48 + x>>
<1>1. x \in {2, 3, 5, 6} /\ Keypad[x] = Plain(code)
  BY KeypadKeys
<1> HIDE DEF x
<1>2. x \in 0..9 /\ x \in 1..24 /\ x \in Nat /\ x < 200 /\ 48 + x \in Param /\ 126 \in Final
  BY <1>1 DEF Param, Final
<1>3. p \in Seq(Numeric) /\ Numbers(p) = <<x>>
  <2>1. x \in U16 /\ Decimal[x] = p
    BY <1>2, OneDigit
  <2> QED BY <2>1, ReadsNumber
<1>4. CsiBytes(p, 126) = <<ESC, 91, 48 + x, 126>>
  BY <1>2, CsiLiteral
<1> HIDE DEF p
<1>5. Unit(CsiBytes(p, 126), Keypad[x])
  BY <1>2, <1>3, TildeUnit
<1> QED BY <1>1, <1>4, <1>5 DEF x

LEMMA FixedUnit ==
    ASSUME NEW code \in FixedKeys
    PROVE  code \in DOMAIN Fixed /\ Unit(Fixed[code], Plain(code))
<1>1. code \in DOMAIN Fixed
  BY DEF Fixed, FixedKeys
<1>2. CASE code = "Enter"
  <2>1. Fixed[code] = <<13>> /\ Control(13) = Plain(code) /\ 13 \in Byte /\ 13 # ESC
    BY <1>2 DEF Fixed, Control, Byte, ESC
  <2> QED BY <1>1, <2>1, ControlUnit, PlainIsUnit
<1>3. CASE code = "Tab"
  <2>1. Fixed[code] = <<9>> /\ Control(9) = Plain(code) /\ 9 \in Byte /\ 9 # ESC
    BY <1>3 DEF Fixed, Control, Byte, ESC
  <2> QED BY <1>1, <2>1, ControlUnit, PlainIsUnit
<1>4. CASE code = "Backspace"
  <2>1. Fixed[code] = <<127>> /\ Control(127) = Plain(code) /\ 127 \in Byte /\ 127 # ESC
    BY <1>4 DEF Fixed, Control, Byte, ESC
  <2> QED BY <1>1, <2>1, ControlUnit, PlainIsUnit
<1>5. CASE code = "BackTab"
  <2> DEFINE p == <<>>
  <2>1. Fixed[code] = <<ESC, 91, 90>> /\ 90 \in Final /\ p \in Seq(Param)
    BY <1>5 DEF Fixed, Final
  <2>2. CsiBytes(p, 90) = <<ESC, 91, 90>>
    BY <2>1, CsiLiteral
  <2>3. Csi(p, 90) = Plain("BackTab")
    BY DEF Csi
  <2> HIDE DEF p
  <2>4. Unit(CsiBytes(p, 90), Csi(p, 90))
    BY <2>1, CsiUnit
  <2> QED BY <1>1, <1>5, <2>1, <2>2, <2>3, <2>4
<1>6. CASE code \in {"Insert", "Delete", "PageUp", "PageDown"}
  <2>1. Fixed[code] = <<ESC, 91, 48 + KeypadCode[code], 126>>
    BY <1>6 DEF Fixed, KeypadCode
  <2> QED BY <1>1, <1>6, <2>1, KeypadUnit
<1> QED BY <1>2, <1>3, <1>4, <1>5, <1>6 DEF FixedKeys

LEMMA FunctionUnit ==
    ASSUME NEW n \in 1..12
    PROVE  Unit(FKey(n), Key("F", n, {}))
<1>1. CASE n \in 1..4
  <2>1. FKey(n) = <<ESC, 79, 79 + n>>
    BY <1>1 DEF FKey
  <2>2. 79 + n \in Byte /\ 79 + n \in 80..83 /\ (79 + n) - 79 = n
    BY <1>1 DEF Byte
  <2>3. Ss3(79 + n) = Key("F", n, {})
    BY <2>2 DEF Ss3
  <2> QED BY <2>1, <2>2, <2>3, Ss3Unit
<1>2. ASSUME NEW v \in 15..24, Keypad[v] = Key("F", n, {}),
             FKey(n) = <<ESC, 91>> \o Decimal[v] \o << 126 >>
      PROVE  Unit(FKey(n), Key("F", n, {}))
  <2>1. v \in U16
    <3> DEFINE m == 65535
    <3>1. U16 = 0..m /\ m \in Nat /\ 24 < m
      BY DEF U16
    <3> HIDE DEF m
    <3> QED BY <3>1
  <2> DEFINE p == Decimal[v]
  <2>2. p \in Seq(Numeric) /\ Numbers(p) = <<v>>
    BY <2>1, ReadsNumber
  <2>3. FKey(n) = CsiBytes(p, 126)
    BY <1>2 DEF CsiBytes
  <2>4. v \in Nat /\ v < 200 /\ v \in 1..24
    OBVIOUS
  <2> HIDE DEF p
  <2>5. Unit(CsiBytes(p, 126), Keypad[v])
    BY <2>2, <2>4, TildeUnit
  <2> QED BY <1>2, <2>3, <2>5
<1>3. CASE n = 5
  <2>1. 15 \in 15..24 /\ Keypad[15] = Key("F", 5, {})
    BY DEF Keypad
  <2>2. FKey(n) = <<ESC, 91>> \o Decimal[15] \o <<126>>
    BY <1>3 DEF FKey
  <2> QED BY <1>2, <1>3, <2>1, <2>2
<1>4. CASE n \in 6..10
  <2>1. /\ n + 11 \in 15..24 /\ n + 11 \in 1..24 /\ n + 11 \in {17, 18, 19, 20, 21}
        /\ ~(n + 11 > 22) /\ n + 11 > 16 /\ (n + 11) - 10 - 1 = n
    BY <1>4
  <2> DEFINE v == n + 11
  <2>2. FKey(n) = <<ESC, 91>> \o Decimal[v] \o <<126>>
    <3>1. n \notin 1..4 /\ n # 5 /\ n \in 6..10
      BY <1>4
    <3> QED BY <3>1, Zenon DEF FKey
  <2>3. Keypad[v] = Key("F", v - 10 - 1, {})
    <3>1. v \in 1..24 /\ v \in {15, 17, 18, 19, 20, 21, 23, 24} /\ ~(v > 22) /\ v > 16
      BY <2>1
    <3> HIDE DEF v
    <3> QED BY <3>1 DEF Keypad
  <2> QED BY <1>2, <2>1, <2>2, <2>3
<1>5. CASE n \in 11..12
  <2>1. /\ n + 12 \in 15..24 /\ n + 12 \in 1..24 /\ n + 12 \in {23, 24}
        /\ n + 12 > 22 /\ (n + 12) - 10 - 2 = n
    BY <1>5
  <2> DEFINE v == n + 12
  <2>2. FKey(n) = <<ESC, 91>> \o Decimal[v] \o <<126>>
    <3>1. n \notin 1..4 /\ n # 5 /\ n \notin 6..10 /\ n \in 11..12
      BY <1>5
    <3> QED BY <3>1, Zenon DEF FKey
  <2>3. Keypad[v] = Key("F", v - 10 - 2, {})
    <3>1. v \in 1..24 /\ v \in {15, 17, 18, 19, 20, 21, 23, 24} /\ v > 22
      BY <2>1
    <3> HIDE DEF v
    <3> QED BY <3>1 DEF Keypad
  <2> QED BY <1>2, <2>1, <2>2, <2>3
<1> QED BY <1>1, <1>3, <1>4, <1>5

(* A control character. *)
LEMMA CtrlUnit ==
    ASSUME NEW c, Lower(c) \in Controllable
    PROVE  /\ PlainUnit(CtrlByte(c), Key("Char", Lower(c), {"CONTROL"}))
           /\ CtrlByte(c) # <<>> /\ CtrlByte(c)[1] \notin {91, 79}
<1> DEFINE l == Lower(c)
<1>1. ASSUME NEW b \in 0..31, b \notin {9, 13, 27}, CtrlByte(c) = <<b>>,
             l = IF b = 0 THEN 32 ELSE IF b > 27 THEN b + 24 ELSE b + 96
      PROVE  /\ PlainUnit(CtrlByte(c), Key("Char", l, {"CONTROL"}))
             /\ CtrlByte(c) # <<>> /\ CtrlByte(c)[1] \notin {91, 79}
  <2>1. b \in Byte /\ b # ESC /\ b < 32 /\ b # 127
    BY <1>1 DEF Byte, ESC
  <2>2. Control(b) = Key("Char", l, {"CONTROL"})
    BY <1>1, <2>1 DEF Control
  <2>3. PlainUnit(<<b>>, Control(b))
    BY <2>1, ControlUnit
  <2>4. <<b>> # <<>> /\ <<b>>[1] \notin {91, 79}
    BY <1>1
  <2> QED BY <1>1, <2>2, <2>3, <2>4, Zenon
<1>2. CASE l \in 97..122 /\ l \notin {105, 109}
  <2> DEFINE b == l - 96
  <2>1. /\ b \in 0..31 /\ b \notin {9, 13, 27}
        /\ l = IF b = 0 THEN 32 ELSE IF b > 27 THEN b + 24 ELSE b + 96
    BY <1>2
  <2>2. CtrlByte(c) = <<b>>
    BY <1>2 DEF CtrlByte
  <2> QED BY <1>1, <2>1, <2>2
<1>3. CASE l = 32
  <2>1. /\ 0 \in 0..31 /\ 0 \notin {9, 13, 27}
        /\ l = IF 0 = 0 THEN 32 ELSE IF 0 > 27 THEN 0 + 24 ELSE 0 + 96
    BY <1>3
  <2>2. CtrlByte(c) = <<0>>
    <3>1. l \notin 97..122 /\ l \in {64, 50, 32}
      BY <1>3
    <3> QED BY <3>1, Zenon DEF CtrlByte
  <2> QED BY <1>1, <2>1, <2>2
<1>4. CASE l \in 52..55
  <2> DEFINE b == l - 24
  <2>1. /\ b \in 0..31 /\ b \notin {9, 13, 27}
        /\ l = IF b = 0 THEN 32 ELSE IF b > 27 THEN b + 24 ELSE b + 96
    BY <1>4
  <2>2. CtrlByte(c) = <<b>>
    <3>1. /\ l \notin 97..122 /\ l \notin {64, 50, 32} /\ l \notin {91, 92, 93, 94, 95}
          /\ l \in 51..55
      BY <1>4
    <3> QED BY <3>1, Zenon DEF CtrlByte
  <2> QED BY <1>1, <2>1, <2>2
<1> QED BY <1>2, <1>3, <1>4 DEF Controllable

LEMMA CharacterUnit ==
    ASSUME NEW e, ReadableKey(e), e.code = "Char"
    PROVE  Unit(EncodeChar(e.n, e.mods), Meaning(e))
<1> DEFINE c == e.n
           M == e.mods
           bs == IF "CONTROL" \in M THEN CtrlByte(c) ELSE Utf8(c)
           k == IF "CONTROL" \in M THEN Lower(c) ELSE c
           B == IF "CONTROL" \in M THEN {"CONTROL"} ELSE {}
           A == IF "ALT" \in M THEN {"ALT"} ELSE {}
<1>1. M \subseteq {"SHIFT", "ALT", "CONTROL"}
  BY DEF ReadableKey
<1>2. Meaning(e) = Key("Char", k, B \cup A)
  <2>1. Meaning(e) = Key("Char", k, M \ {"SHIFT"})
    BY DEF Meaning
  <2>2. M \ {"SHIFT"} = B \cup A
    <3> HIDE DEF M
    <3> QED BY <1>1
  <2> HIDE DEF k, A, B
  <2> QED BY <2>1, <2>2
<1>3. PlainUnit(bs, Key("Char", k, B)) /\ ("ALT" \in M => bs[1] \notin {91, 79})
  <2>1. CASE "CONTROL" \in M
    <3>1. Lower(c) \in Controllable
      BY <2>1 DEF ReadableKey
    <3>2. /\ PlainUnit(CtrlByte(c), Key("Char", Lower(c), {"CONTROL"}))
          /\ CtrlByte(c)[1] \notin {91, 79}
      BY <3>1, CtrlUnit
    <3> QED BY <2>1, <3>2
  <2>2. CASE "CONTROL" \notin M
    <3>1. c \in Printable /\ ("ALT" \in M => c \notin {79, 91})
      BY <2>2 DEF ReadableKey
    <3> HIDE DEF c, M
    <3>2. PlainUnit(Utf8(c), Key("Char", c, {})) /\ (Utf8(c)[1] \in {79, 91} => c \in {79, 91})
      BY <3>1, CharUnit
    <3> QED BY <2>2, <3>1, <3>2, Zenon
  <2> QED BY <2>1, <2>2
<1>4. EncodeChar(c, M) = (IF "ALT" \in M THEN <<ESC>> ELSE <<>>) \o bs
  <2>1. CASE "CONTROL" \in M
    <3>1. CtrlByte(c) # <<>>
      BY <2>1, CtrlUnit DEF ReadableKey
    <3> HIDE DEF c, M
    <3> QED BY <2>1, <3>1 DEF EncodeChar
  <2>2. CASE "CONTROL" \notin M
    <3> HIDE DEF c, M
    <3> QED BY <2>2 DEF EncodeChar
  <2> QED BY <2>1, <2>2
<1> HIDE DEF bs, k, B, M
<1>5. CASE "ALT" \in M
  <2>1. Unit(<<ESC>> \o bs, Key("Char", k, B \cup {"ALT"}))
    BY <1>3, <1>5, AltIsUnit
  <2> QED BY <1>2, <1>4, <1>5, <2>1 DEF M
<1>6. CASE "ALT" \notin M
  <2>1. Unit(bs, Key("Char", k, B))
    BY <1>3, PlainIsUnit
  <2>2. <<>> \o bs = bs
    <3>1. bs \in Seq(Byte)
      BY <1>3 DEF PlainUnit
    <3> QED BY <3>1, ConcatEmptySeq
  <2>3. B \cup {} = B
    OBVIOUS
  <2> QED BY <1>2, <1>4, <1>6, <2>1, <2>2, <2>3 DEF M
<1> QED BY <1>5, <1>6

(* The keys that have bytes.                                                *)
LEMMA KeyCodes ==
    ASSUME NEW e, ReadableKey(e), Encode(e) # <<>>
    PROVE  e.code \in {"Char", "F"} \cup CursorKeys \cup FixedKeys
<1> SUFFICES ASSUME e.code \notin {"Char", "F"} \cup CursorKeys \cup FixedKeys
             PROVE  Encode(e) = <<>>
  OBVIOUS
<1>1. e.code # "Esc"
  BY DEF ReadableKey
<1>2. DOMAIN Fixed = FixedKeys \cup {"Esc"}
  BY DEF Fixed, FixedKeys
<1>3. e.code \notin DOMAIN CursorLetter /\ e.code \notin DOMAIN Fixed
  BY <1>1, <1>2, CursorCodes
<1> QED BY <1>3 DEF Encode

(* Every key that has bytes is a unit, whatever the mode was.               *)
LEMMA KeyUnit ==
    ASSUME NEW e, ReadableKey(e), Encode(e) # <<>>
    PROVE  Unit(Encode(e), Meaning(e))
<1>1. CASE e.code = "Char"
  <2>1. Encode(e) = EncodeChar(e.n, e.mods)
    BY <1>1 DEF Encode
  <2> QED BY <1>1, <2>1, CharacterUnit
<1>2. CASE e.code = "F"
  <2>1. Encode(e) = FKey(e.n) /\ Meaning(e) = Key("F", e.n, {})
    BY <1>2 DEF Encode, Meaning, MouseCodes
  <2>2. e.n \in 1..12
    <3> SUFFICES ASSUME e.n \notin 1..12 PROVE FKey(e.n) = <<>>
      BY <2>1
    <3>1. e.n \notin 1..4 /\ e.n # 5 /\ e.n \notin 6..10 /\ e.n \notin 11..12
      OBVIOUS
    <3> QED BY <3>1, Zenon DEF FKey
  <2> QED BY <2>1, <2>2, FunctionUnit
<1>3. CASE e.code \in CursorKeys
  <2>1. e.code # "Char" /\ e.code # "F" /\ e.code \notin MouseCodes /\ e.code # "MouseUp"
    BY <1>3 DEF CursorKeys, MouseCodes
  <2>2. Meaning(e) = Plain(e.code)
    BY <2>1 DEF Meaning, Plain, ReadableKey
  <2> DEFINE app == "APP_CURSOR" \in mode
  <2>3. Encode(e) = Arrow(CursorLetter[e.code], app)
    BY <1>3, <2>1, CursorCodes DEF Encode
  <2>4. app \in BOOLEAN
    OBVIOUS
  <2> HIDE DEF app
  <2>5. Unit(Arrow(CursorLetter[e.code], app), Plain(e.code))
    BY <1>3, <2>4, CursorUnit
  <2> QED BY <2>2, <2>3, <2>5
<1>4. CASE e.code \in FixedKeys
  <2>1. /\ e.code # "Char" /\ e.code # "F" /\ e.code \notin MouseCodes
        /\ e.code # "MouseUp" /\ e.code \notin CursorKeys
    BY <1>4 DEF CursorKeys, MouseCodes, FixedKeys
  <2>2. Meaning(e) = Plain(e.code)
    BY <2>1 DEF Meaning, Plain, ReadableKey
  <2>3. Encode(e) = Fixed[e.code]
    BY <1>4, <2>1, CursorCodes, FixedUnit DEF Encode
  <2> QED BY <1>4, <2>2, <2>3, FixedUnit
<1>5. e.code \in {"Char", "F"} \cup CursorKeys \cup FixedKeys
  BY KeyCodes
<1> QED BY <1>1, <1>2, <1>3, <1>4, <1>5

-----------------------------------------------------------------------------
(* Mouse events. *)

MouseBases == {0, 1, 2, 3, 32, 33, 34, 64, 65}
Flag(n) == {0, n}

(* The parts of the number of a report can be told apart.                   *)
Parts(v, base, s, a, c) ==
    /\ v \in U16
    /\ (v \div 4) % 2 = 1 <=> s = 4
    /\ (v \div 8) % 2 = 1 <=> a = 8
    /\ (v \div 16) % 2 = 1 <=> c = 16
    /\ (v \div 32) % 2 = 1 <=> base \in {32, 33, 34}
    /\ (v \div 64) % 2 = 1 <=> base \in {64, 65}
    /\ v % 4 = base % 4

LEMMA Bits ==
    ASSUME NEW base \in MouseBases,
           NEW s \in Flag(4), NEW a \in Flag(8), NEW c \in Flag(16)
    PROVE  Parts(base + s + a + c, base, s, a, c)
<1> USE DEF MouseBases, Flag
<1> DEFINE v == base + s + a + c
<1>1. v \in Nat /\ v < 100
  OBVIOUS
<1>2. v \in U16
  <2> DEFINE m == 65535
  <2> HIDE DEF v
  <2>1. U16 = 0..m /\ m \in Nat /\ 100 < m
    BY DEF U16
  <2> HIDE DEF m
  <2> QED BY <1>1, <2>1
<1>3. (v \div 4) % 2 = 1 <=> s = 4
  OBVIOUS
<1>4. (v \div 8) % 2 = 1 <=> a = 8
  OBVIOUS
<1>5. (v \div 16) % 2 = 1 <=> c = 16
  OBVIOUS
<1>6. (v \div 32) % 2 = 1 <=> base \in {32, 33, 34}
  OBVIOUS
<1>7. (v \div 64) % 2 = 1 <=> base \in {64, 65}
  OBVIOUS
<1>8. v % 4 = base % 4
  OBVIOUS
<1> HIDE DEF v
<1> QED BY <1>2, <1>3, <1>4, <1>5, <1>6, <1>7, <1>8 DEF Parts, v

(* The event a report with these numbers stands for. *)
ReportKind(v, f) ==
    IF f = 109 THEN "MouseUp"
    ELSE IF (v \div 64) % 2 = 1 THEN <<"ScrollUp", "ScrollDown">>[1 + (v % 4)]
    ELSE IF (v \div 32) % 2 = 1 THEN "MouseDrag" ELSE "MouseDown"

ReportOf(v, x, y, f) ==
    Button(ReportKind(v, f),
           IF (v \div 64) % 2 = 1 THEN "none"
           ELSE <<"Left", "Middle", "Right", "any">>[1 + (v % 4)],
           x - 1, y - 1,
           (IF (v \div 4) % 2 = 1 THEN {"SHIFT"} ELSE {})
           \cup (IF (v \div 8) % 2 = 1 THEN {"ALT"} ELSE {})
           \cup (IF (v \div 16) % 2 = 1 THEN {"CONTROL"} ELSE {}))

LEMMA ReportIs ==
    ASSUME NEW p, NEW f, NEW v, NEW x, NEW y, Numbers(p) = <<v, x, y>>
    PROVE  MouseReport(p, f) = ReportOf(v, x, y, f)
<1> DEFINE ns == Numbers(p)
<1>1. ns[1] = v /\ ns[2] = x /\ ns[3] = y
  OBVIOUS
<1> HIDE DEF ns
<1> QED BY <1>1 DEF MouseReport, ReportOf, ReportKind, ns

(* ESC [ < three numbers, and M or m. *)
LEMMA ReportUnit ==
    ASSUME NEW v \in U16, NEW x \in U16, NEW y \in U16, NEW f \in {77, 109}
    PROVE  Unit(<<ESC, 91, 60>> \o Decimal[v] \o <<59>> \o Decimal[x]
                \o <<59>> \o Decimal[y] \o <<f>>, ReportOf(v, x, y, f))
<1> DEFINE e == <<ESC, 91>>  l == <<60>>  s == <<59>>  g == <<f>>
           a == Decimal[v]  b == Decimal[x]  c == Decimal[y]
           q == a \o s \o b \o s \o c
           p == l \o q
<1>1. q \in Seq(Numeric) /\ Numbers(q) = <<v, x, y>>
  BY ReadsThree
<1>2. a \in Seq(Byte) /\ b \in Seq(Byte) /\ c \in Seq(Byte)
  <2>1. Digit \subseteq Byte
    BY DEF Digit, Byte
  <2>2. Decimal[v] \in Seq(Digit) /\ Decimal[x] \in Seq(Digit) /\ Decimal[y] \in Seq(Digit)
    BY DecimalDigits
  <2> QED BY <2>1, <2>2, SeqMonotonic
<1>3. e \in Seq(Byte) /\ l \in Seq(Byte) /\ s \in Seq(Byte) /\ l \in Seq(Param)
      /\ l[1] = 60 /\ Len(l) = 1
  BY DEF ESC, Byte, Param
<1>4. <<ESC, 91, 60>> = e \o l
  <2> DEFINE k == ESC  m == 91  n == 60
  <2>1. k \in Nat /\ m \in Nat /\ n \in Nat
    BY DEF ESC
  <2> HIDE DEF k, m, n
  <2>2. <<k, m>> \in Seq(Nat)
    BY <2>1
  <2>3. Append(<<k, m>>, n) = <<k, m, n>>
    BY <2>1, Tuples
  <2>4. Append(<<k, m>>, n) = <<k, m>> \o <<n>>
    BY <2>1, <2>2, AppendIsConcat
  <2>5. <<k, m, n>> = <<k, m>> \o <<n>>
    BY <2>3, <2>4
  <2> QED BY <2>5 DEF k, m, n
<1> HIDE DEF a, b, c, e, l, s
<1>5. ASSUME NEW t \in Seq(Byte), NEW u \in Seq(Byte), NEW w \in Seq(Byte)
      PROVE  (t \o u) \o w = t \o (u \o w) /\ t \o u \in Seq(Byte)
  BY ConcatAssociative, ConcatProperties
<1> DEFINE h == e \o l
           a1 == a \o s
           a2 == a1 \o b
           a3 == a2 \o s
<1>6. h \o a \o s \o b \o s \o c = h \o q
  <2>1. h \in Seq(Byte) /\ a1 \in Seq(Byte)
    BY <1>2, <1>3, <1>5
  <2>2. a2 \in Seq(Byte)
    <3> HIDE DEF a1
    <3> QED BY <1>2, <2>1, <1>5
  <2>3. a3 \in Seq(Byte)
    <3> HIDE DEF a2
    <3> QED BY <1>3, <2>2, <1>5
  <2> HIDE DEF h
  <2>11. /\ h \in Seq(Byte) /\ a \in Seq(Byte) /\ b \in Seq(Byte)
         /\ c \in Seq(Byte) /\ s \in Seq(Byte)
    BY <1>2, <1>3, <2>1
  <2>12. a1 \in Seq(Byte)
    BY <2>1
  <2>4. h \o a \o s = h \o a1
    BY <2>11, ConcatAssociative
  <2>5. h \o a1 \o b = h \o a2
    <3> HIDE DEF a1
    <3>1. h \in Seq(Byte) /\ a1 \in Seq(Byte) /\ b \in Seq(Byte)
      BY <2>11, <2>12
    <3> QED BY <3>1, ConcatAssociative DEF a2
  <2>6. h \o a2 \o s = h \o a3
    <3> HIDE DEF a2
    <3>1. h \in Seq(Byte) /\ a2 \in Seq(Byte) /\ s \in Seq(Byte)
      BY <2>11, <2>2
    <3> QED BY <3>1, ConcatAssociative DEF a3
  <2>7. h \o a3 \o c = h \o q
    <3>1. q = a3 \o c
      OBVIOUS
    <3> HIDE DEF a3, q
    <3>2. (h \o a3) \o c = h \o (a3 \o c)
      <4>1. h \in Seq(Byte) /\ a3 \in Seq(Byte) /\ c \in Seq(Byte)
        BY <2>11, <2>3
      <4> QED BY <4>1, ConcatAssociative
    <3> QED BY <3>1, <3>2, Zenon
  <2> QED BY <2>4, <2>5, <2>6, <2>7, Zenon
<1> HIDE DEF q
<1>7. h \o q = e \o p
  <2>1. Numeric \subseteq Byte
    BY DEF Numeric, Byte
  <2>2. q \in Seq(Byte)
    BY <1>1, <2>1, SeqMonotonic
  <2> QED BY <1>3, <1>5, <2>2
<1>8. p \in Seq(Param) /\ p # <<>> /\ p[1] = 60 /\ Tail(p) = q
  <2>1. Numeric \subseteq Param
    BY DEF Numeric, Param
  <2>2. q \in Seq(Param)
    BY <1>1, <2>1, SeqMonotonic
  <2>3. /\ p \in Seq(Param) /\ Len(p) = Len(l) + Len(q) /\ Len(q) \in Nat
        /\ \A i \in 1..Len(l) : p[i] = l[i]
        /\ \A i \in 1..Len(q) : p[Len(l) + i] = q[i]
    <3>1. l \in Seq(Param)
      BY <1>3
    <3> HIDE DEF p
    <3> QED BY <2>2, <3>1, Joins DEF p
  <2> HIDE DEF p
  <2>4. 1 \in 1..Len(l)
    BY <1>3
  <2>5. p # <<>>
    BY <1>3, <2>3
  <2>6. /\ Tail(p) \in Seq(Param) /\ Len(Tail(p)) = Len(p) - 1
        /\ \A i \in 1..Len(Tail(p)) : Tail(p)[i] = p[i + 1]
    BY <2>3, <2>5, HeadTailProperties
  <2> DEFINE r == Tail(p)
  <2> HIDE DEF r
  <2>7. /\ r \in Seq(Param) /\ Len(r) = Len(q)
        /\ \A i \in 1..Len(r) : r[i] = q[i]
    <3>1. /\ r \in Seq(Param) /\ Len(r) = Len(p) - 1
          /\ \A i \in 1..Len(r) : r[i] = p[i + 1]
      BY <2>6 DEF r
    <3>2. Len(r) = Len(q)
      BY <1>3, <2>3, <3>1
    <3>3. ASSUME NEW i \in 1..Len(r) PROVE r[i] = q[i]
      <4>1. i \in 1..Len(q) /\ i + 1 = 1 + i
        BY <2>3, <3>2
      <4>2. p[1 + i] = q[i]
        BY <1>3, <2>3, <4>1
      <4> QED BY <3>1, <4>1, <4>2
    <3> QED BY <3>1, <3>2, <3>3
  <2>8. r = q
    BY <2>2, <2>7, Same
  <2> QED BY <1>3, <2>3, <2>4, <2>5, <2>8 DEF r
<1> HIDE DEF p
<1>9. f \in Final
  BY DEF Final
<1>10. Csi(p, f) = MouseReport(q, f)
  BY <1>8 DEF Csi
<1>11. Unit(CsiBytes(p, f), Csi(p, f))
  BY <1>8, <1>9, CsiUnit
<1>12. CsiBytes(p, f) = h \o a \o s \o b \o s \o c \o g
  <2>1. CsiBytes(p, f) = (e \o p) \o g
    BY DEF CsiBytes, e
  <2> QED BY <1>6, <1>7, <2>1
<1>13. Unit(h \o a \o s \o b \o s \o c \o g, ReportOf(v, x, y, f))
  BY <1>1, <1>10, <1>11, <1>12, ReportIs
<1> QED BY <1>4, <1>13 DEF a, b, c, s, g

FinalOf(e) == IF e.code = "MouseUp" THEN 109 ELSE 77
ButtonOf(v) ==
    IF (v \div 64) % 2 = 1 THEN "none"
    ELSE <<"Left", "Middle", "Right", "any">>[1 + (v % 4)]

LEMMA ButtonCodes ==
    /\ DOMAIN ButtonCode = {"Left", "Middle", "Right"}
    /\ \A b \in {"Left", "Middle", "Right"} :
          /\ ButtonCode[b] \in 0..2
          /\ <<"Left", "Middle", "Right", "any">>[1 + ButtonCode[b]] = b
BY DEF ButtonCode

LEMMA MouseKind ==
    ASSUME NEW e, ReadableMouse(e), MouseBase(e) # <<>>
    PROVE  LET base == MouseBase(e)[1]
           IN  /\ base \in MouseBases
               /\ \A v : /\ (v \div 32) % 2 = 1 <=> base \in {32, 33, 34}
                         /\ (v \div 64) % 2 = 1 <=> base \in {64, 65}
                         /\ v % 4 = base % 4
                         => /\ ReportKind(v, FinalOf(e)) = e.code
                            /\ ButtonOf(v) =
                                  IF e.code = "MouseUp" THEN "any" ELSE e.button
<1> DEFINE base == MouseBase(e)[1]
           f == FinalOf(e)
           Fits(v) == /\ (v \div 32) % 2 = 1 <=> base \in {32, 33, 34}
                      /\ (v \div 64) % 2 = 1 <=> base \in {64, 65}
                      /\ v % 4 = base % 4
           Reads(v) == /\ ReportKind(v, f) = e.code
                       /\ ButtonOf(v) = IF e.code = "MouseUp" THEN "any" ELSE e.button
<1>1. e.code \in {"MouseDown", "MouseUp", "MouseDrag", "ScrollUp", "ScrollDown"}
  BY DEF MouseBase
<1>2. e.button \in IF e.code \in {"MouseDown", "MouseUp", "MouseDrag"}
                   THEN {"Left", "Middle", "Right"} ELSE {"none"}
  BY ButtonCodes DEF ReadableMouse
<1> DEFINE k == ButtonCode[e.button]
<1>3. CASE e.code = "MouseDown"
  <2>1. k \in 0..2 /\ <<"Left", "Middle", "Right", "any">>[1 + k] = e.button
    BY <1>2, <1>3, ButtonCodes
  <2>2. base = k /\ f = 77
    BY <1>3 DEF MouseBase, FinalOf
  <2> HIDE DEF base, f, k
  <2>3. base \in MouseBases /\ base \notin {32, 33, 34} /\ base \notin {64, 65} /\ base % 4 = k
    BY <2>1, <2>2 DEF MouseBases
  <2>4. ASSUME NEW v, Fits(v) PROVE Reads(v)
    <3>1. ~((v \div 32) % 2 = 1) /\ ~((v \div 64) % 2 = 1) /\ v % 4 = k
      BY <2>3, <2>4
    <3>2. ReportKind(v, f) = "MouseDown"
      BY <2>2, <3>1 DEF ReportKind
    <3>3. ButtonOf(v) = <<"Left", "Middle", "Right", "any">>[1 + (v % 4)]
      BY <3>1 DEF ButtonOf
    <3> QED BY <1>3, <2>1, <3>1, <3>2, <3>3
  <2> QED BY <2>3, <2>4 DEF base, f
<1>4. CASE e.code = "MouseUp"
  <2>1. base = 3 /\ f = 109
    BY <1>4 DEF MouseBase, FinalOf
  <2> HIDE DEF base, f, k
  <2>2. ASSUME NEW v, Fits(v) PROVE Reads(v)
    <3>1. ReportKind(v, f) = "MouseUp"
      BY <2>1 DEF ReportKind
    <3>2. ~((v \div 64) % 2 = 1) /\ v % 4 = 3
      BY <2>1, <2>2
    <3>3. ButtonOf(v) = "any"
      BY <3>2 DEF ButtonOf
    <3> QED BY <1>4, <3>1, <3>3
  <2> QED BY <2>1, <2>2 DEF base, f, MouseBases
<1>5. CASE e.code = "MouseDrag"
  <2>1. k \in 0..2 /\ <<"Left", "Middle", "Right", "any">>[1 + k] = e.button
    BY <1>2, <1>5, ButtonCodes
  <2>2. base = 32 + k /\ f = 77
    BY <1>5 DEF MouseBase, FinalOf
  <2> HIDE DEF base, f, k
  <2>3. base \in MouseBases /\ base \in {32, 33, 34} /\ base \notin {64, 65} /\ base % 4 = k
    BY <2>1, <2>2 DEF MouseBases
  <2>4. ASSUME NEW v, Fits(v) PROVE Reads(v)
    <3>1. (v \div 32) % 2 = 1 /\ ~((v \div 64) % 2 = 1) /\ v % 4 = k
      BY <2>3, <2>4
    <3>2. ReportKind(v, f) = "MouseDrag"
      BY <2>2, <3>1 DEF ReportKind
    <3>3. ButtonOf(v) = <<"Left", "Middle", "Right", "any">>[1 + (v % 4)]
      BY <3>1 DEF ButtonOf
    <3> QED BY <1>5, <2>1, <3>1, <3>2, <3>3
  <2> QED BY <2>3, <2>4 DEF base, f
<1>6. CASE e.code \in {"ScrollUp", "ScrollDown"}
  <2>1. base = (IF e.code = "ScrollUp" THEN 64 ELSE 65) /\ f = 77 /\ e.button = "none"
    BY <1>2, <1>6 DEF MouseBase, FinalOf
  <2> HIDE DEF base, f, k
  <2>2. base \in MouseBases /\ base \in {64, 65}
    BY <2>1 DEF MouseBases
  <2>3. ASSUME NEW v, Fits(v) PROVE Reads(v)
    <3>1. (v \div 64) % 2 = 1 /\ v % 4 = base % 4
      BY <2>2, <2>3
    <3>2. v % 4 = IF e.code = "ScrollUp" THEN 0 ELSE 1
      BY <2>1, <3>1
    <3>3. ReportKind(v, f) = <<"ScrollUp", "ScrollDown">>[1 + (v % 4)]
      BY <2>1, <3>1 DEF ReportKind
    <3>4. ReportKind(v, f) = e.code
      BY <1>6, <3>2, <3>3
    <3> QED BY <1>6, <2>1, <3>1, <3>4 DEF ButtonOf
  <2> QED BY <2>2, <2>3 DEF base, f
<1> QED BY <1>1, <1>3, <1>4, <1>5, <1>6

LEMMA MouseUnit ==
    ASSUME NEW e, ReadableMouse(e), EncodeMouse(e) # <<>>
    PROVE  Unit(EncodeMouse(e), Meaning(e))
<1> DEFINE base == MouseBase(e)[1]
           s == IF "SHIFT" \in e.mods THEN 4 ELSE 0
           a == IF "ALT" \in e.mods THEN 8 ELSE 0
           c == IF "CONTROL" \in e.mods THEN 16 ELSE 0
           v == base + s + a + c
           x == e.col + 1
           y == e.row + 1
           f == FinalOf(e)
<1>1. "SGR_MOUSE" \in mode /\ MouseBase(e) # <<>>
  BY DEF EncodeMouse
<1>2. /\ base \in MouseBases
      /\ \A u : /\ (u \div 32) % 2 = 1 <=> base \in {32, 33, 34}
                /\ (u \div 64) % 2 = 1 <=> base \in {64, 65}
                /\ u % 4 = base % 4
                => /\ ReportKind(u, f) = e.code
                   /\ ButtonOf(u) = IF e.code = "MouseUp" THEN "any" ELSE e.button
  BY <1>1, MouseKind
<1>3. s \in Flag(4) /\ a \in Flag(8) /\ c \in Flag(16)
  BY DEF Flag
<1>4. f \in {77, 109}
  BY DEF FinalOf
<1>5. /\ x \in U16 /\ y \in U16 /\ e.col \in Nat /\ e.row \in Nat
      /\ e.mods \subseteq {"SHIFT", "ALT", "CONTROL"}
  BY DEF ReadableMouse
<1>6. \A u \in U16 : u % 65536 = u
  <2> DEFINE m == 65535
  <2>1. U16 = 0..m /\ m \in Nat /\ m < 65536
    BY DEF U16
  <2> HIDE DEF m
  <2>2. ASSUME NEW u \in U16 PROVE u % 65536 = u
    <3>1. u \in Nat /\ u < 65536
      BY <2>1
    <3> QED BY <3>1
  <2> QED BY <2>2
<1>7. EncodeMouse(e) = <<ESC, 91, 60>> \o Decimal[v] \o <<59>> \o Decimal[x]
                       \o <<59>> \o Decimal[y] \o <<f>>
  <2>1. OneBased(e.col) = x /\ OneBased(e.row) = y
    BY <1>5, <1>6 DEF OneBased
  <2>2. EncodeMouse(e) = <<ESC, 91, 60>> \o Decimal[v] \o <<59>>
                         \o Decimal[OneBased(e.col)] \o <<59>>
                         \o Decimal[OneBased(e.row)] \o <<f>>
    BY <1>1, Zenon DEF EncodeMouse, FinalOf
  <2> HIDE DEF x, y, v, f
  <2> QED BY <2>1, <2>2, Zenon
<1> HIDE DEF base, s, a, c, f
<1>8. /\ v \in U16
      /\ (v \div 4) % 2 = 1 <=> s = 4
      /\ (v \div 8) % 2 = 1 <=> a = 8
      /\ (v \div 16) % 2 = 1 <=> c = 16
      /\ (v \div 32) % 2 = 1 <=> base \in {32, 33, 34}
      /\ (v \div 64) % 2 = 1 <=> base \in {64, 65}
      /\ v % 4 = base % 4
  <2>1. base \in MouseBases
    BY <1>2
  <2>2. Parts(v, base, s, a, c)
    BY <1>3, <2>1, Bits
  <2> HIDE DEF v
  <2> QED BY <2>2 DEF Parts
<1> HIDE DEF v
<1>9. ReportKind(v, f) = e.code
      /\ ButtonOf(v) = IF e.code = "MouseUp" THEN "any" ELSE e.button
  BY <1>2, <1>8
<1> DEFINE M == (IF (v \div 4) % 2 = 1 THEN {"SHIFT"} ELSE {})
                \cup (IF (v \div 8) % 2 = 1 THEN {"ALT"} ELSE {})
                \cup (IF (v \div 16) % 2 = 1 THEN {"CONTROL"} ELSE {})
<1>10. M = e.mods
  <2>1. /\ (v \div 4) % 2 = 1 <=> "SHIFT" \in e.mods
        /\ (v \div 8) % 2 = 1 <=> "ALT" \in e.mods
        /\ (v \div 16) % 2 = 1 <=> "CONTROL" \in e.mods
    BY <1>8 DEF s, a, c
  <2> QED BY <1>5, <2>1
<1>11. ReportOf(v, x, y, f) = Button(ReportKind(v, f), ButtonOf(v), x - 1, y - 1, M)
  BY DEF ReportOf, ButtonOf
<1>12. x - 1 = e.col /\ y - 1 = e.row
  BY <1>5
<1> HIDE DEF M, x, y
<1>13. ReportOf(v, x, y, f) =
          Button(e.code, IF e.code = "MouseUp" THEN "any" ELSE e.button,
                 e.col, e.row, e.mods)
  BY <1>9, <1>10, <1>11, <1>12
<1>14. Meaning(e) = Button(e.code, IF e.code = "MouseUp" THEN "any" ELSE e.button,
                           e.col, e.row, e.mods)
  <2>1. e.code # "Char" /\ e.code \in MouseCodes
    BY DEF ReadableMouse, MouseCodes
  <2>2. CASE e.code = "MouseUp"
    BY <2>1, <2>2 DEF Meaning
  <2>3. CASE e.code # "MouseUp"
    <3>1. Meaning(e) = e
      BY <2>1, <2>3 DEF Meaning
    <3>2. e = Button(e.code, e.button, e.col, e.row, e.mods)
      BY DEF ReadableMouse
    <3> QED BY <2>3, <3>1, <3>2, Zenon
  <2> QED BY <2>2, <2>3
<1>15. Unit(<<ESC, 91, 60>> \o Decimal[v] \o <<59>> \o Decimal[x]
            \o <<59>> \o Decimal[y] \o <<f>>, ReportOf(v, x, y, f))
  BY <1>4, <1>5, <1>8, ReportUnit DEF x, y
<1> QED BY <1>7, <1>13, <1>14, <1>15

-----------------------------------------------------------------------------
(* Pastes. *)

CharKeys(text) == [i \in DOMAIN text |-> Key("Char", text[i], {})]
CharEvents == {Key("Char", c, {}) : c \in Printable}

LEMMA TextCarried ==
    ASSUME NEW text \in Seq(Printable)
    PROVE  CharKeys(text) \in Seq(CharEvents) /\ Carries(Utf8All(text), CharKeys(text))
<1> DEFINE n == Len(text)
           keys == CharKeys(text)
           Bytes == Seq(Byte)
           Is(f) == f = [i \in 0..n |-> IF i = 0 THEN <<>> ELSE f[i - 1] \o Utf8(text[i])]
           step == [i \in 1..n |-> [x \in Bytes |-> x \o Utf8(text[i])]]
           out == CHOOSE f : Is(f)
<1>1. n \in Nat /\ DOMAIN text = 1..n /\ \A i \in 1..n : text[i] \in Printable
  BY LenProperties, ElementOfSeq
<1>2. \A i \in 1..n : Unit(Utf8(text[i]), Key("Char", text[i], {}))
  BY <1>1, CharUnit, PlainIsUnit
<1>3. \A i \in 1..n : Utf8(text[i]) \in Bytes
  BY <1>2 DEF Unit
<1>4. /\ keys \in Seq(CharEvents) /\ Len(keys) = n
      /\ \A i \in 1..n : keys[i] = Key("Char", text[i], {})
  <2>1. keys = [i \in 1..n |-> Key("Char", text[i], {})]
    BY <1>1 DEF CharKeys
  <2>2. \A i \in 1..n : Key("Char", text[i], {}) \in CharEvents
    BY <1>1 DEF CharEvents
  <2> HIDE DEF keys, n
  <2>3. keys \in [1..n -> CharEvents]
    BY <2>1, <2>2
  <2> QED BY <1>1, <2>1, <2>3
<1>5. Utf8All(text) = out[n]
  BY DEF Utf8All
<1>6. step \in [1..n -> [Bytes -> Bytes]]
  <2>1. ASSUME NEW i \in 1..n, NEW x \in Bytes PROVE x \o Utf8(text[i]) \in Bytes
    <3>1. Utf8(text[i]) \in Seq(Byte) /\ x \in Seq(Byte)
      BY <1>3
    <3> QED BY <3>1, ConcatProperties
  <2> HIDE DEF n, Bytes
  <2> QED BY <2>1
<1>7. \A i \in 1..n : \A x \in Bytes : step[i][x] = x \o Utf8(text[i])
  OBVIOUS
<1>8. <<>> \in Bytes
  OBVIOUS
<1> HIDE DEF n, step, Bytes, keys
<1>9. PICK g \in [0..n -> Bytes] :
         g[0] = <<>> /\ \A i \in 1..n : g[i] = step[i][g[i - 1]]
  <2> DEFINE base == <<>>
  <2>1. n \in Nat
    BY <1>1
  <2>2. base \in Bytes
    BY <1>8
  <2> HIDE DEF base
  <2>3. Stepwise(n, Bytes, base, step)
    BY <1>6, <2>1, <2>2, StepByStep
  <2> QED BY <2>3 DEF Stepwise, base
<1>10. ASSUME NEW i \in 1..n PROVE g[i] = g[i - 1] \o Utf8(text[i])
  <2>1. i - 1 \in 0..n
    BY <1>1
  <2>2. g[i - 1] \in Bytes
    BY <2>1
  <2> QED BY <1>7, <1>9, <2>2
<1>11. \A i \in 0..n : i = 0 \/ (i # 0 /\ i \in 1..n)
  BY <1>1
<1>12. Is(g)
  <2> DEFINE h == [i \in 0..n |-> IF i = 0 THEN <<>> ELSE g[i - 1] \o Utf8(text[i])]
  <2>1. ASSUME NEW i \in 0..n PROVE g[i] = h[i]
    BY <1>9, <1>10, <1>11
  <2>2. g = h
    BY <2>1
  <2> QED BY <2>2
<1>13. Is(out)
  <2>1. \E f : Is(f)
    BY <1>12
  <2> HIDE DEF Is
  <2> QED BY <2>1
<1> HIDE DEF out
<1>14. \A i \in 0..n : out[i] = IF i = 0 THEN <<>> ELSE out[i - 1] \o Utf8(text[i])
  BY <1>13
<1> HIDE DEF Is
<1> DEFINE S == {i \in 0..n : Carries(out[i], SubSeq(keys, 1, i))}
<1>15. 0 \in S
  <2>1. 0 \in 0..n /\ SubSeq(keys, 1, 0) = <<>>
    BY <1>1, <1>4
  <2>2. out[0] = <<>>
    BY <1>14, <2>1
  <2> QED BY <2>1, <2>2, NothingCarried
<1>16. ASSUME NEW i \in 0..(n - 1), i \in S PROVE i + 1 \in S
  <2>1. /\ i \in Nat /\ i \in 0..n /\ i + 1 \in 1..n /\ i + 1 \in 0..n /\ i + 1 # 0
        /\ (i + 1) - 1 = i /\ i <= Len(keys) /\ i + 1 <= Len(keys)
    BY <1>1, <1>4
  <2> DEFINE b == Utf8(text[i + 1])
             k == Key("Char", text[i + 1], {})
             p == SubSeq(keys, 1, i)
  <2>2. out[i + 1] = out[i] \o b
    BY <1>14, <2>1
  <2>3. Unit(b, k) /\ k = keys[i + 1]
    BY <1>2, <1>4, <2>1
  <2>4. k \in CharEvents
    BY <1>4, <2>1, <2>3, ElementOfSeq
  <2>5. Carries(out[i], p)
    BY <1>16
  <2>6. SubSeq(keys, 1, i + 1) = p \o <<k>>
    <3>1. 1 \in 1..Len(keys) /\ i + 1 \in 1..Len(keys)
      BY <1>4, <2>1
    <3>2. SubSeq(keys, 1, i + 1) = SubSeq(keys, 1, (i + 1) - 1) \o <<keys[i + 1]>>
      BY <1>4, <3>1, SubSeqRecursiveSecond
    <3> QED BY <2>1, <2>3, <3>2
  <2>7. p \in Seq(CharEvents)
    <3>1. 0 \in Nat /\ 0 <= i /\ 0 + 1 = 1
      BY <2>1
    <3>2. SubSeq(keys, 0 + 1, i) \in Seq(CharEvents)
      BY <1>4, <2>1, <3>1, Piece
    <3> QED BY <3>1, <3>2
  <2> HIDE DEF b, k, p, S
  <2>8. Carries(b, <<k>>) /\ <<k>> \in Seq(CharEvents)
    BY <2>3, <2>4, UnitCarried
  <2>9. Carries(out[i] \o b, p \o <<k>>)
    BY <2>5, <2>7, <2>8, StreamsJoin
  <2> QED BY <2>1, <2>2, <2>6, <2>9 DEF S
<1> HIDE DEF S
<1>17. \A i \in 0..n : i \in S
  BY <1>1, <1>15, <1>16, CountUp, Zenon
<1>18. Carries(out[n], SubSeq(keys, 1, n))
  <2>1. n \in 0..n
    BY <1>1
  <2> QED BY <1>17, <2>1 DEF S
<1>19. SubSeq(keys, 1, n) = keys
  BY <1>4, SubSeqFull
<1> QED BY <1>4, <1>5, <1>18, <1>19 DEF keys

PasteEvents == CharEvents \cup {PasteStart, PasteEnd}

LEMMA BracketedCarried ==
    ASSUME NEW text \in Seq(Printable)
    PROVE  /\ <<PasteStart>> \o CharKeys(text) \o <<PasteEnd>> \in Seq(PasteEvents)
           /\ Carries(<<ESC, 91, 50, 48, 48, 126>> \o Utf8All(text)
                         \o <<ESC, 91, 50, 48, 49, 126>>,
                      <<PasteStart>> \o CharKeys(text) \o <<PasteEnd>>)
<1> DEFINE a == <<ESC, 91, 50, 48, 48, 126>>
           z == <<ESC, 91, 50, 48, 49, 126>>
           u == Utf8All(text)
           k == CharKeys(text)
           s == <<PasteStart>>
           e == <<PasteEnd>>
<1>1. k \in Seq(PasteEvents) /\ Carries(u, k)
  <2>1. CharEvents \subseteq PasteEvents
    BY DEF PasteEvents
  <2>2. k \in Seq(CharEvents) /\ Carries(u, k)
    BY TextCarried
  <2> HIDE DEF k, u
  <2> QED BY <2>1, <2>2, SeqMonotonic
<1>2. PasteStart \in PasteEvents /\ PasteEnd \in PasteEvents
  BY DEF PasteEvents
<1>3. s \in Seq(PasteEvents) /\ e \in Seq(PasteEvents)
  BY <1>2
<1>4. Carries(a, s)
  <2>1. 0 \in 0..1 /\ 48 + 0 = 48 /\ 200 + 0 = 200
    OBVIOUS
  <2>2. Unit(<<ESC, 91, 50, 48, 48 + 0, 126>>, Key("Paste", 200 + 0, {}))
    BY <2>1, PasteUnit
  <2>3. Unit(a, PasteStart)
    BY <2>1, <2>2 DEF PasteStart
  <2> HIDE DEF a
  <2> QED BY <1>2, <2>3, UnitCarried
<1>5. Carries(z, e)
  <2>1. 1 \in 0..1 /\ 48 + 1 = 49 /\ 200 + 1 = 201
    OBVIOUS
  <2>2. Unit(<<ESC, 91, 50, 48, 48 + 1, 126>>, Key("Paste", 200 + 1, {}))
    BY <2>1, PasteUnit
  <2>3. Unit(z, PasteEnd)
    BY <2>1, <2>2 DEF PasteEnd
  <2> HIDE DEF z
  <2> QED BY <1>2, <2>3, UnitCarried
<1> HIDE DEF a, z, u, k, s, e
<1> DEFINE w == a \o u
           q == s \o k
<1>6. Carries(w, q)
  BY <1>1, <1>3, <1>4, StreamsJoin
<1>7. q \in Seq(PasteEvents)
  BY <1>1, <1>3, ConcatProperties
<1> HIDE DEF w, q
<1>8. Carries(w \o z, q \o e)
  BY <1>3, <1>5, <1>6, <1>7, StreamsJoin
<1>9. q \o e \in Seq(PasteEvents)
  BY <1>3, <1>7, ConcatProperties
<1> QED BY <1>8, <1>9 DEF a, z, u, k, s, e, w, q

-----------------------------------------------------------------------------
(* The invariant: the bytes under way fall into units, one for what is left *)
(* of each event that was sent and not yet read, and for every event App    *)
(* and readline agree unless it is an exception.                            *)

PastedKeys(text) == [i \in DOMAIN text |-> Key("Pasted", text[i], {})]

Event == {AsXterm(e) : e \in KeyEvents \cup MouseEvents}
         \cup {Key("Pasted", c, {}) : c \in Printable} \cup {PasteStart, PasteEnd}
Delivery == {Delivered(e) : e \in Event}
Command == {Assumed(e) : e \in KeyEvents} \cup {Edit("none")}

(* What is to be read for some events. *)
Due(evs) == [i \in DOMAIN evs |-> Delivered(evs[i])]

Agrees(e, c) == Performed(Delivered(e)) = c <=> ~Drifting(e)

TypeInv ==
    /\ mode \in Modes \cup {{}}
    /\ meant \in Seq(Event) /\ got \in Seq(Delivery)
    /\ assumed \in Seq(Command) /\ Len(assumed) = Len(meant)

StreamInv ==
    \E under \in Seq(Delivery) : Due(meant) = got \o under /\ Carries(wire, under)

AgreeInv == \A i \in 1..Len(meant) : Agrees(meant[i], assumed[i])

KeysInv == TypeInv /\ StreamInv /\ AgreeInv

LEMMA DueSeq ==
    ASSUME NEW s \in Seq(Event)
    PROVE  /\ Due(s) \in Seq(Delivery) /\ Len(Due(s)) = Len(s)
           /\ \A i \in 1..Len(s) : Due(s)[i] = Delivered(s[i])
<1> DEFINE n == Len(s)
<1>1. n \in Nat /\ DOMAIN s = 1..n /\ \A i \in 1..n : s[i] \in Event
  BY LenProperties, ElementOfSeq
<1> HIDE DEF n
<1>2. Due(s) \in [1..n -> Delivery]
  BY <1>1 DEF Due, Delivery
<1>3. Due(s) \in Seq(Delivery)
  BY <1>1, <1>2
<1>4. Len(Due(s)) = n
  BY <1>1, <1>2, <1>3, LenProperties
<1>5. \A i \in 1..n : Due(s)[i] = Delivered(s[i])
  BY <1>1 DEF Due
<1> QED BY <1>3, <1>4, <1>5 DEF n

LEMMA DueConcat ==
    ASSUME NEW s \in Seq(Event), NEW t \in Seq(Event)
    PROVE  Due(s \o t) = Due(s) \o Due(t)
<1> DEFINE w == s \o t
           u == Due(w)
           a == Due(s)
           b == Due(t)
           v == a \o b
<1>1. /\ w \in Seq(Event) /\ Len(w) = Len(s) + Len(t)
      /\ Len(s) \in Nat /\ Len(t) \in Nat
      /\ \A i \in 1..Len(s) : w[i] = s[i]
      /\ \A i \in 1..Len(t) : w[Len(s) + i] = t[i]
  BY Joins
<1>2. /\ a \in Seq(Delivery) /\ Len(a) = Len(s)
      /\ \A i \in 1..Len(s) : a[i] = Delivered(s[i])
      /\ b \in Seq(Delivery) /\ Len(b) = Len(t)
      /\ \A i \in 1..Len(t) : b[i] = Delivered(t[i])
  BY DueSeq
<1> HIDE DEF w, a, b
<1>3. /\ u \in Seq(Delivery) /\ Len(u) = Len(w)
      /\ \A i \in 1..Len(w) : u[i] = Delivered(w[i])
  BY <1>1, DueSeq
<1>4. /\ v \in Seq(Delivery) /\ Len(v) = Len(a) + Len(b)
      /\ \A i \in 1..Len(a) : v[i] = a[i]
      /\ \A i \in 1..Len(b) : v[Len(a) + i] = b[i]
  <2>1. a \in Seq(Delivery) /\ b \in Seq(Delivery)
    BY <1>2
  <2>2. /\ a \o b \in Seq(Delivery) /\ Len(a \o b) = Len(a) + Len(b)
        /\ \A i \in 1..Len(a) : (a \o b)[i] = a[i]
        /\ \A i \in 1..Len(b) : (a \o b)[Len(a) + i] = b[i]
    BY <2>1, Joins
  <2> QED BY <2>2
<1> HIDE DEF u, v
<1>5. ASSUME NEW i \in 1..Len(u) PROVE u[i] = v[i]
  <2>1. CASE i <= Len(s)
    <3>1. i \in 1..Len(s) /\ i \in 1..Len(w)
      BY <1>1, <1>3, <2>1
    <3> QED BY <1>1, <1>2, <1>3, <1>4, <3>1
  <2>2. CASE ~(i <= Len(s))
    <3> DEFINE k == i - Len(s)
    <3>1. k \in 1..Len(t) /\ Len(s) + k = i /\ i \in 1..Len(w)
      BY <1>1, <1>3, <2>2
    <3> HIDE DEF k
    <3>2. w[i] = t[k] /\ u[i] = Delivered(w[i])
      BY <1>1, <1>3, <3>1
    <3>3. v[i] = b[k] /\ b[k] = Delivered(t[k])
      BY <1>2, <1>4, <3>1
    <3> QED BY <3>2, <3>3
  <2> QED BY <2>1, <2>2
<1>6. Len(u) = Len(v)
  BY <1>1, <1>2, <1>3, <1>4
<1>7. u = v
  BY <1>3, <1>4, <1>5, <1>6, Same
<1> QED BY <1>7 DEF u, v, w, a, b

LEMMA DueOne ==
    ASSUME NEW e \in Event
    PROVE  /\ <<e>> \in Seq(Event) /\ Due(<<e>>) = <<Delivered(e)>>
           /\ Delivered(e) \in Delivery
<1> DEFINE s == <<e>>
           d == Delivered(e)
           u == Due(s)
           v == <<d>>
<1>1. s \in Seq(Event) /\ Len(s) = 1 /\ s[1] = e
  OBVIOUS
<1>2. d \in Delivery
  BY DEF Delivery
<1> HIDE DEF s, d
<1>3. v \in Seq(Delivery) /\ Len(v) = 1 /\ v[1] = d
  BY <1>2
<1>4. u \in Seq(Delivery) /\ Len(u) = 1 /\ u[1] = d
  <2>1. 1 \in 1..Len(s)
    BY <1>1
  <2> QED BY <1>1, <2>1, DueSeq DEF d
<1> HIDE DEF u, v
<1>5. \A i \in 1..Len(u) : u[i] = v[i]
  <2>1. \A i \in 1..Len(u) : i = 1
    BY <1>4
  <2> QED BY <1>3, <1>4, <2>1
<1>6. u = v
  BY <1>3, <1>4, <1>5, Same
<1> QED BY <1>1, <1>2, <1>6 DEF u, v, s, d

LEMMA SendKeeps ==
    ASSUME NEW bytes, NEW evs \in Seq(Event), NEW cmds \in Seq(Command),
           Len(cmds) = Len(evs), Carries(bytes, Due(evs)),
           \A i \in 1..Len(evs) : Agrees(evs[i], cmds[i]),
           KeysInv, SendAs(bytes, evs, cmds)
    PROVE  KeysInv'
<1>1. /\ wire' = wire \o bytes /\ meant' = meant \o evs /\ assumed' = assumed \o cmds
      /\ mode' = mode /\ got' = got
  BY DEF SendAs
<1>2. /\ meant \in Seq(Event) /\ assumed \in Seq(Command) /\ Len(assumed) = Len(meant)
      /\ got \in Seq(Delivery) /\ mode \in Modes \cup {{}}
  BY DEF KeysInv, TypeInv
<1> DEFINE m == meant \o evs
           a == assumed \o cmds
           L == Len(meant)
           K == Len(evs)
<1>3. /\ m \in Seq(Event) /\ Len(m) = L + K /\ L \in Nat /\ K \in Nat
      /\ \A i \in 1..L : m[i] = meant[i]
      /\ \A i \in 1..K : m[L + i] = evs[i]
  BY <1>2, Joins
<1>4. /\ a \in Seq(Command) /\ Len(a) = L + K
      /\ \A i \in 1..L : a[i] = assumed[i]
      /\ \A i \in 1..K : a[L + i] = cmds[i]
  <2>1. /\ a \in Seq(Command) /\ Len(a) = Len(assumed) + Len(cmds)
        /\ \A i \in 1..Len(assumed) : a[i] = assumed[i]
        /\ \A i \in 1..Len(cmds) : a[Len(assumed) + i] = cmds[i]
    <3> DEFINE p == assumed
               q == cmds
    <3>1. p \in Seq(Command) /\ q \in Seq(Command)
      BY <1>2
    <3> HIDE DEF p, q
    <3>2. /\ p \o q \in Seq(Command) /\ Len(p \o q) = Len(p) + Len(q)
          /\ \A i \in 1..Len(p) : (p \o q)[i] = p[i]
          /\ \A i \in 1..Len(q) : (p \o q)[Len(p) + i] = q[i]
      BY <3>1, Joins
    <3> QED BY <3>2 DEF p, q
  <2>2. Len(assumed) = L /\ Len(cmds) = K
    BY <1>2
  <2> HIDE DEF a, L, K
  <2> QED BY <2>1, <2>2
<1>5. TypeInv'
  <2> HIDE DEF m, a
  <2> QED BY <1>1, <1>2, <1>3, <1>4 DEF TypeInv, m, a
<1>6. StreamInv'
  <2>1. PICK under \in Seq(Delivery) :
           Due(meant) = got \o under /\ Carries(wire, under)
    BY DEF KeysInv, StreamInv
  <2> DEFINE d == Due(evs)
             u == under \o d
  <2>2. d \in Seq(Delivery)
    BY DueSeq
  <2>3. Due(m) = Due(meant) \o d
    BY <1>2, DueConcat
  <2>4. Carries(bytes, d)
    OBVIOUS
  <2> HIDE DEF d, m
  <2>5. u \in Seq(Delivery)
    BY <2>2, ConcatProperties
  <2>6. Carries(wire \o bytes, u)
    BY <2>1, <2>2, <2>4, StreamsJoin
  <2>7. Due(m) = got \o u
    <3>1. got \in Seq(Delivery) /\ under \in Seq(Delivery) /\ d \in Seq(Delivery)
      BY <1>2, <2>2
    <3>2. (got \o under) \o d = got \o (under \o d)
      BY <3>1, ConcatAssociative
    <3> QED BY <2>1, <2>3, <3>2
  <2> HIDE DEF u
  <2>8. Due(meant') = got' \o u /\ Carries(wire', u)
    BY <1>1, <2>6, <2>7 DEF m
  <2>9. \E x \in Seq(Delivery) : Due(meant') = got' \o x /\ Carries(wire', x)
    BY <2>5, <2>8
  <2> QED BY <2>9 DEF StreamInv, Due, Delivered
<1>7. AgreeInv'
  <2> HIDE DEF m, a, L, K
  <2>1. ASSUME NEW i \in 1..(L + K) PROVE Agrees(m[i], a[i])
    <3>1. i <= L \/ i > L
      BY <1>3
    <3>2. CASE i <= L
      <4>1. i \in 1..L
        BY <1>3, <3>2
      <4>2. Agrees(meant[i], assumed[i])
        BY <4>1 DEF KeysInv, AgreeInv, L
      <4> QED BY <1>3, <1>4, <4>1, <4>2
    <3>3. CASE i > L
      <4> DEFINE k == i - L
      <4>1. k \in 1..K /\ L + k = i
        BY <1>3, <3>3
      <4> HIDE DEF k
      <4>2. Agrees(evs[k], cmds[k])
        BY <4>1 DEF K
      <4>3. m[L + k] = evs[k] /\ a[L + k] = cmds[k]
        BY <1>3, <1>4, <4>1
      <4> QED BY <4>1, <4>2, <4>3
    <3> QED BY <3>1, <3>2, <3>3
  <2>2. meant' = m /\ assumed' = a /\ Len(m) = L + K
    BY <1>1, <1>3 DEF m, a
  <2>3. \A i \in 1..Len(meant') : Agrees(meant'[i], assumed'[i])
    BY <2>1, <2>2
  <2> QED BY <2>3 DEF AgreeInv
<1> QED BY <1>5, <1>6, <1>7 DEF KeysInv

-----------------------------------------------------------------------------
(* What is kept of an event, and what App and readline make of it.          *)

(* An event of the client's terminal arrives as the remote is to read it.   *)
LEMMA Arrives ==
    ASSUME NEW e, e.code # "Pasted"
    PROVE  Delivered(AsXterm(e)) = Meaning(e)
<1>1. CASE e.code = "Char"
  BY <1>1 DEF AsXterm, Delivered, Meaning, Key
<1>2. CASE e.code = "BackTab"
  BY <1>2 DEF AsXterm, Delivered, Meaning, Key, MouseCodes
<1>3. CASE e.code \notin {"Char", "BackTab"}
  <2>1. AsXterm(e) = e
    BY <1>3 DEF AsXterm
  <2> QED BY <1>3, <2>1 DEF Delivered, Meaning
<1> QED BY <1>1, <1>2, <1>3

LEMMA EditsDiffer ==
    /\ \A a, b : Edit(a) = Edit(b) <=> a = b
    /\ \A a, n : a # "insert" => <<"insert", n>> # Edit(a)
BY DEF Edit

(* A character with Ctrl and nothing else.                                  *)
LEMMA CtrlAgrees ==
    ASSUME NEW c \in Nat
    PROVE  LET shadow == IF c \in DOMAIN ShadowCtrl THEN ShadowCtrl[c] ELSE "none"
               line == IF c \in DOMAIN CtrlMap THEN CtrlMap[c]
                       ELSE IF c \in CtrlIdle THEN "none" ELSE "unbound"
           IN  /\ line = shadow <=> c \in {97, 99, 101, 107, 119} \cup CtrlIdle
               /\ shadow \notin {"unbound", "insert"}
<1> DEFINE shadow == IF c \in DOMAIN ShadowCtrl THEN ShadowCtrl[c] ELSE "none"
           line == IF c \in DOMAIN CtrlMap THEN CtrlMap[c]
                   ELSE IF c \in CtrlIdle THEN "none" ELSE "unbound"
           Both == {97, 99, 100, 101, 107, 117, 119}
<1>1. shadow = IF c = 97 THEN "line start" ELSE IF c = 101 THEN "line end"
               ELSE IF c = 117 THEN "kill line" ELSE IF c = 107 THEN "kill to end"
               ELSE IF c = 119 THEN "kill word" ELSE IF c \in {99, 100} THEN "new line"
               ELSE "none"
  <2>1. CASE c \in Both
    <3>1. shadow = IF c = 97 THEN "line start" ELSE IF c = 101 THEN "line end"
               ELSE IF c = 117 THEN "kill line" ELSE IF c = 107 THEN "kill to end"
               ELSE IF c = 119 THEN "kill word" ELSE "new line"
      BY <2>1 DEF ShadowCtrl
    <3> HIDE DEF shadow
    <3> QED BY <2>1, <3>1
  <2>2. CASE c \notin Both
    <3>1. shadow = "none"
      BY <2>2 DEF ShadowCtrl
    <3> HIDE DEF shadow
    <3> QED BY <2>2, <3>1
  <2> QED BY <2>1, <2>2
<1> DEFINE Bound == {97, 98, 99, 100, 101, 102, 104, 106, 107, 117, 119}
<1>2. line = IF c = 97 THEN "line start" ELSE IF c = 98 THEN "back"
             ELSE IF c = 99 THEN "new line" ELSE IF c = 100 THEN "delete"
             ELSE IF c = 101 THEN "line end" ELSE IF c = 102 THEN "forward"
             ELSE IF c = 104 THEN "rub out" ELSE IF c = 106 THEN "accept"
             ELSE IF c = 107 THEN "kill to end" ELSE IF c = 117 THEN "kill to start"
             ELSE IF c = 119 THEN "kill word"
             ELSE IF c \in {103, 108, 122, 32, 52, 54} THEN "none" ELSE "unbound"
  <2>1. CASE c \in Bound
    <3>1. line = IF c = 97 THEN "line start" ELSE IF c = 98 THEN "back"
             ELSE IF c = 99 THEN "new line" ELSE IF c = 100 THEN "delete"
             ELSE IF c = 101 THEN "line end" ELSE IF c = 102 THEN "forward"
             ELSE IF c = 104 THEN "rub out" ELSE IF c = 106 THEN "accept"
             ELSE IF c = 107 THEN "kill to end" ELSE IF c = 117 THEN "kill to start"
             ELSE "kill word"
      BY <2>1 DEF CtrlMap
    <3> HIDE DEF line
    <3> QED BY <2>1, <3>1
  <2>2. CASE c \notin Bound
    <3>1. line = IF c \in CtrlIdle THEN "none" ELSE "unbound"
      BY <2>2 DEF CtrlMap
    <3> HIDE DEF line
    <3> QED BY <2>2, <3>1 DEF CtrlIdle
  <2> QED BY <2>1, <2>2
<1> HIDE DEF shadow, line
<1>3. line = shadow <=> c \in {97, 99, 101, 107, 119} \cup CtrlIdle
  <2> DEFINE Shared == {97, 99, 101, 107, 119}
             Idle == {103, 108, 122, 32, 52, 54}
  <2>1. CtrlIdle = Idle
    BY DEF CtrlIdle
  <2>2. CASE c = 97
    <3>1. c # 101 /\ c # 117 /\ c # 107 /\ c # 119 /\ c # 98
          /\ c # 99 /\ c # 100 /\ c # 102 /\ c # 104 /\ c # 106
          /\ c \notin {99, 100}
      BY <2>2
    <3>2. shadow = "line start"
      BY <1>1, <2>2, <3>1, Zenon
    <3>3. line = "line start"
      BY <1>2, <2>2, <3>1, Zenon
    <3>4. c \in Shared \cup Idle
      BY <2>2
    <3> QED BY <2>1, <3>2, <3>3, <3>4
  <2>3. CASE c = 99
    <3>1. c # 97 /\ c # 101 /\ c # 117 /\ c # 107 /\ c # 119 /\ c # 98
          /\ c # 100 /\ c # 102 /\ c # 104 /\ c # 106
          /\ c \in {99, 100}
      BY <2>3
    <3>2. shadow = "new line"
      BY <1>1, <2>3, <3>1, Zenon
    <3>3. line = "new line"
      BY <1>2, <2>3, <3>1, Zenon
    <3>4. c \in Shared \cup Idle
      BY <2>3
    <3> QED BY <2>1, <3>2, <3>3, <3>4
  <2>4. CASE c = 101
    <3>1. c # 97 /\ c # 117 /\ c # 107 /\ c # 119 /\ c # 98
          /\ c # 99 /\ c # 100 /\ c # 102 /\ c # 104 /\ c # 106
          /\ c \notin {99, 100}
      BY <2>4
    <3>2. shadow = "line end"
      BY <1>1, <2>4, <3>1, Zenon
    <3>3. line = "line end"
      BY <1>2, <2>4, <3>1, Zenon
    <3>4. c \in Shared \cup Idle
      BY <2>4
    <3> QED BY <2>1, <3>2, <3>3, <3>4
  <2>5. CASE c = 107
    <3>1. c # 97 /\ c # 101 /\ c # 117 /\ c # 119 /\ c # 98
          /\ c # 99 /\ c # 100 /\ c # 102 /\ c # 104 /\ c # 106
          /\ c \notin {99, 100}
      BY <2>5
    <3>2. shadow = "kill to end"
      BY <1>1, <2>5, <3>1, Zenon
    <3>3. line = "kill to end"
      BY <1>2, <2>5, <3>1, Zenon
    <3>4. c \in Shared \cup Idle
      BY <2>5
    <3> QED BY <2>1, <3>2, <3>3, <3>4
  <2>6. CASE c = 119
    <3>1. c # 97 /\ c # 101 /\ c # 117 /\ c # 107 /\ c # 98
          /\ c # 99 /\ c # 100 /\ c # 102 /\ c # 104 /\ c # 106
          /\ c \notin {99, 100}
      BY <2>6
    <3>2. shadow = "kill word"
      BY <1>1, <2>6, <3>1, Zenon
    <3>3. line = "kill word"
      BY <1>2, <2>6, <3>1, Zenon
    <3>4. c \in Shared \cup Idle
      BY <2>6
    <3> QED BY <2>1, <3>2, <3>3, <3>4
  <2>7. CASE c = 98
    <3>1. c # 97 /\ c # 101 /\ c # 117 /\ c # 107 /\ c # 119
          /\ c # 99 /\ c # 100 /\ c # 102 /\ c # 104 /\ c # 106
          /\ c \notin {99, 100}
      BY <2>7
    <3>2. shadow = "none"
      BY <1>1, <2>7, <3>1, Zenon
    <3>3. line = "back"
      BY <1>2, <2>7, <3>1, Zenon
    <3>4. c \notin Shared \cup Idle
      BY <2>7
    <3> QED BY <2>1, <3>2, <3>3, <3>4
  <2>8. CASE c = 102
    <3>1. c # 97 /\ c # 101 /\ c # 117 /\ c # 107 /\ c # 119 /\ c # 98
          /\ c # 99 /\ c # 100 /\ c # 104 /\ c # 106
          /\ c \notin {99, 100}
      BY <2>8
    <3>2. shadow = "none"
      BY <1>1, <2>8, <3>1, Zenon
    <3>3. line = "forward"
      BY <1>2, <2>8, <3>1, Zenon
    <3>4. c \notin Shared \cup Idle
      BY <2>8
    <3> QED BY <2>1, <3>2, <3>3, <3>4
  <2>9. CASE c = 104
    <3>1. c # 97 /\ c # 101 /\ c # 117 /\ c # 107 /\ c # 119 /\ c # 98
          /\ c # 99 /\ c # 100 /\ c # 102 /\ c # 106
          /\ c \notin {99, 100}
      BY <2>9
    <3>2. shadow = "none"
      BY <1>1, <2>9, <3>1, Zenon
    <3>3. line = "rub out"
      BY <1>2, <2>9, <3>1, Zenon
    <3>4. c \notin Shared \cup Idle
      BY <2>9
    <3> QED BY <2>1, <3>2, <3>3, <3>4
  <2>10. CASE c = 106
    <3>1. c # 97 /\ c # 101 /\ c # 117 /\ c # 107 /\ c # 119 /\ c # 98
          /\ c # 99 /\ c # 100 /\ c # 102 /\ c # 104
          /\ c \notin {99, 100}
      BY <2>10
    <3>2. shadow = "none"
      BY <1>1, <2>10, <3>1, Zenon
    <3>3. line = "accept"
      BY <1>2, <2>10, <3>1, Zenon
    <3>4. c \notin Shared \cup Idle
      BY <2>10
    <3> QED BY <2>1, <3>2, <3>3, <3>4
  <2>11. CASE c = 100
    <3>1. c # 97 /\ c # 101 /\ c # 117 /\ c # 107 /\ c # 119 /\ c # 98
          /\ c # 99 /\ c # 102 /\ c # 104 /\ c # 106
          /\ c \in {99, 100}
      BY <2>11
    <3>2. shadow = "new line"
      BY <1>1, <2>11, <3>1, Zenon
    <3>3. line = "delete"
      BY <1>2, <2>11, <3>1, Zenon
    <3>4. c \notin Shared \cup Idle
      BY <2>11
    <3> QED BY <2>1, <3>2, <3>3, <3>4
  <2>12. CASE c = 117
    <3>1. c # 97 /\ c # 101 /\ c # 107 /\ c # 119 /\ c # 98
          /\ c # 99 /\ c # 100 /\ c # 102 /\ c # 104 /\ c # 106
          /\ c \notin {99, 100}
      BY <2>12
    <3>2. shadow = "kill line"
      BY <1>1, <2>12, <3>1, Zenon
    <3>3. line = "kill to start"
      BY <1>2, <2>12, <3>1, Zenon
    <3>4. c \notin Shared \cup Idle
      BY <2>12
    <3> QED BY <2>1, <3>2, <3>3, <3>4
  <2>13. CASE c \in Idle
    <3>1. c # 97 /\ c # 101 /\ c # 117 /\ c # 107 /\ c # 119 /\ c # 98
          /\ c # 99 /\ c # 100 /\ c # 102 /\ c # 104 /\ c # 106
          /\ c \notin {99, 100} /\ c \in {103, 108, 122, 32, 52, 54}
      BY <2>13
    <3>2. shadow = "none"
      BY <1>1, <3>1, Zenon
    <3>3. line = "none"
      BY <1>2, <3>1, Zenon
    <3> QED BY <2>1, <2>13, <3>2, <3>3
  <2>14. CASE c \notin Shared \cup Idle \cup {98, 102, 104, 106, 100, 117}
    <3>1. shadow = "none" /\ line = "unbound"
      BY <1>1, <1>2, <2>14
    <3>2. c \notin Shared \cup Idle
      BY <2>14
    <3> QED BY <2>1, <3>1, <3>2
  <2> QED BY <2>2, <2>3, <2>4, <2>5, <2>6, <2>7, <2>8, <2>9, <2>10, <2>11,
         <2>12, <2>13, <2>14
<1>4. shadow \notin {"unbound", "insert"}
  BY <1>1
<1> QED BY <1>3, <1>4 DEF shadow, line

(* A key without a character.                                               *)
Codes == {"F"} \cup CursorKeys \cup FixedKeys

LEMMA Tables ==
    /\ DOMAIN ShadowKeys = {"Backspace", "Enter", "Left", "Right", "Home", "End",
                            "Up", "Down", "PageUp", "PageDown"}
    /\ DOMAIN KeyMap = {"Backspace", "Enter", "Left", "Right", "Home", "End",
                        "Up", "Down", "Delete", "Insert", "Tab", "Paste"}
    /\ \A x \in {"Backspace", "Enter", "Left", "Right", "Home", "End"} :
          ShadowKeys[x] = KeyMap[x]
    /\ \A x \in {"Up", "Down", "PageUp", "PageDown"} : ShadowKeys[x] = "forget"
    /\ \A x \in {"Up", "Down"} : KeyMap[x] = "history"
    /\ \A x \in {"Delete", "Insert", "Tab"} : KeyMap[x] # "none"
<1>1. DOMAIN ShadowKeys = {"Backspace", "Enter", "Left", "Right", "Home", "End",
                           "Up", "Down", "PageUp", "PageDown"}
  BY DEF ShadowKeys
<1>2. DOMAIN KeyMap = {"Backspace", "Enter", "Left", "Right", "Home", "End",
                       "Up", "Down", "Delete", "Insert", "Tab", "Paste"}
  BY DEF KeyMap
<1>3. /\ ShadowKeys["Backspace"] = "rub out" /\ ShadowKeys["Enter"] = "accept"
      /\ ShadowKeys["Left"] = "back" /\ ShadowKeys["Right"] = "forward"
      /\ ShadowKeys["Home"] = "line start" /\ ShadowKeys["End"] = "line end"
  BY DEF ShadowKeys
<1>4. /\ ShadowKeys["Up"] = "forget" /\ ShadowKeys["Down"] = "forget"
      /\ ShadowKeys["PageUp"] = "forget" /\ ShadowKeys["PageDown"] = "forget"
  BY DEF ShadowKeys
<1>5. /\ KeyMap["Backspace"] = "rub out" /\ KeyMap["Enter"] = "accept"
      /\ KeyMap["Left"] = "back" /\ KeyMap["Right"] = "forward"
      /\ KeyMap["Home"] = "line start" /\ KeyMap["End"] = "line end"
  BY DEF KeyMap
<1>6. /\ KeyMap["Up"] = "history" /\ KeyMap["Down"] = "history"
      /\ KeyMap["Delete"] = "delete" /\ KeyMap["Insert"] = "overwrite"
      /\ KeyMap["Tab"] = "complete"
  BY DEF KeyMap
<1>7. \A x \in {"Backspace", "Enter", "Left", "Right", "Home", "End"} :
         ShadowKeys[x] = KeyMap[x]
  BY <1>3, <1>5
<1>8. \A x \in {"Up", "Down", "PageUp", "PageDown"} : ShadowKeys[x] = "forget"
  BY <1>4
<1>9. \A x \in {"Up", "Down"} : KeyMap[x] = "history"
  BY <1>6
<1>10. \A x \in {"Delete", "Insert", "Tab"} : KeyMap[x] # "none"
  BY <1>6
<1> QED BY <1>1, <1>2, <1>7, <1>8, <1>9, <1>10

LEMMA CodeAgrees ==
    ASSUME NEW x \in Codes
    PROVE  LET shadow == IF x \in DOMAIN ShadowKeys THEN ShadowKeys[x] ELSE "none"
               line == IF x \in DOMAIN KeyMap THEN KeyMap[x] ELSE "unbound"
           IN  line = shadow
                 <=> x \in {"Backspace", "Enter", "Left", "Right", "Home", "End"}
<1> DEFINE shadow == IF x \in DOMAIN ShadowKeys THEN ShadowKeys[x] ELSE "none"
           line == IF x \in DOMAIN KeyMap THEN KeyMap[x] ELSE "unbound"
           Good == {"Backspace", "Enter", "Left", "Right", "Home", "End"}
<1>1. CASE x \in Good
  <2>1. x \in DOMAIN ShadowKeys /\ x \in DOMAIN KeyMap /\ ShadowKeys[x] = KeyMap[x]
    BY <1>1, Tables
  <2> QED BY <1>1, <2>1
<1>2. CASE x \in {"Up", "Down"}
  <2>1. x \in DOMAIN ShadowKeys /\ x \in DOMAIN KeyMap
        /\ ShadowKeys[x] = "forget" /\ KeyMap[x] = "history"
    BY <1>2, Tables
  <2> QED BY <1>2, <2>1
<1>3. CASE x \in {"PageUp", "PageDown"}
  <2>1. x \in DOMAIN ShadowKeys /\ x \notin DOMAIN KeyMap /\ ShadowKeys[x] = "forget"
    BY <1>3, Tables
  <2> QED BY <1>3, <2>1
<1>4. CASE x \in {"Delete", "Insert", "Tab"}
  <2>1. x \notin DOMAIN ShadowKeys /\ x \in DOMAIN KeyMap /\ KeyMap[x] # "none"
    BY <1>4, Tables
  <2> QED BY <1>4, <2>1
<1>5. CASE x \in {"BackTab", "F"}
  <2>1. x \notin DOMAIN ShadowKeys /\ x \notin DOMAIN KeyMap
    BY <1>5, Tables
  <2> QED BY <1>5, <2>1
<1>6. x \in Good \cup {"Up", "Down", "PageUp", "PageDown", "Delete", "Insert", "Tab",
                       "BackTab", "F"}
  BY DEF Codes, CursorKeys, FixedKeys
<1> QED BY <1>1, <1>2, <1>3, <1>4, <1>5, <1>6

(* App and readline take every key alike but for the exceptions.            *)
LEMMA KeyAgrees ==
    ASSUME NEW e, ReadableKey(e), Encode(e) # <<>>
    PROVE  Agrees(AsXterm(e), Assumed(e))
<1> DEFINE x == AsXterm(e)
           z == Delivered(x)
<1>1. ASSUME e.code = "Char" PROVE Agrees(x, Assumed(e))
  <2> DEFINE c == IF "CONTROL" \in e.mods THEN Lower(e.n) ELSE e.n
             M == e.mods \ {"SHIFT"}
  <2>1. /\ x = Key("Char", c, M) /\ z = x
        /\ x.code = "Char" /\ x.n = c /\ x.mods = M
    BY <1>1 DEF AsXterm, Delivered, Key
  <2>2. e.mods \subseteq {"SHIFT", "ALT", "CONTROL"}
    BY <1>1 DEF ReadableKey
  <2>3. "Char" \notin DOMAIN KeyMap
    BY DEF KeyMap
  <2>4. Drifting(x) <=> \/ "ALT" \in M
                        \/ /\ "CONTROL" \in M
                           /\ c \notin {97, 99, 101, 107, 119} \cup CtrlIdle
    <3> HIDE DEF x, c, M
    <3> QED BY <2>1 DEF Drifting, MouseCodes
  <2>5. CASE "CONTROL" \in e.mods
    <3>1. c = Lower(e.n) /\ c \in Nat
      <4>1. Lower(e.n) \in Controllable
        BY <1>1, <2>5 DEF ReadableKey
      <4>2. Controllable \subseteq Nat
        BY DEF Controllable
      <4>3. c = Lower(e.n)
        BY <2>5
      <4> QED BY <4>1, <4>2, <4>3
    <3> DEFINE shadow == IF c \in DOMAIN ShadowCtrl THEN ShadowCtrl[c] ELSE "none"
               line == IF c \in DOMAIN CtrlMap THEN CtrlMap[c]
                       ELSE IF c \in CtrlIdle THEN "none" ELSE "unbound"
    <3>2. Assumed(e) = Edit(shadow)
      <4>1. AssumedBy(Lower(e.n), e) =
              Edit(IF Lower(e.n) \in DOMAIN ShadowCtrl THEN ShadowCtrl[Lower(e.n)]
                   ELSE "none")
        BY <1>1, <2>5, Zenon DEF AssumedBy
      <4> HIDE DEF c
      <4> QED BY <3>1, <4>1 DEF Assumed
    <3> HIDE DEF c
    <3>3. /\ line = shadow <=> c \in {97, 99, 101, 107, 119} \cup CtrlIdle
          /\ shadow # "unbound"
      BY <3>1, CtrlAgrees
    <3>4. CASE "ALT" \in e.mods
      <4>1. M # {} /\ M # {"CONTROL"} /\ "ALT" \in M
        BY <3>4
      <4> HIDE DEF x, M, shadow
      <4>2. Performed(x) = Edit("unbound")
        BY <2>1, <2>3, <4>1 DEF Performed
      <4>3. Performed(x) # Assumed(e)
        BY <3>2, <3>3, <4>2, EditsDiffer
      <4> QED BY <2>1, <2>4, <4>1, <4>3 DEF Agrees
    <3>5. CASE "ALT" \notin e.mods
      <4>1. M = {"CONTROL"} /\ "ALT" \notin M /\ "CONTROL" \in M /\ M # {}
        BY <2>2, <2>5, <3>5
      <4> HIDE DEF x, M
      <4>2. Performed(x) = Edit(line)
        <5>1. x.code = "Char" /\ x.mods # {} /\ x.mods = {"CONTROL"} /\ x.n = c
          BY <2>1, <4>1
        <5> QED BY <5>1, Zenon DEF Performed
      <4> HIDE DEF shadow, line
      <4>3. Performed(x) = Assumed(e) <=> line = shadow
        BY <3>2, <4>2, EditsDiffer
      <4> QED BY <2>1, <2>4, <3>3, <4>1, <4>3 DEF Agrees
    <3> QED BY <3>4, <3>5
  <2>6. CASE "CONTROL" \notin e.mods
    <3>1. Assumed(e) = <<"insert", e.n>> /\ c = e.n
      BY <1>1, <2>6 DEF Assumed, AssumedBy
    <3>2. CASE "ALT" \in e.mods
      <4>1. M # {} /\ M # {"CONTROL"} /\ "ALT" \in M
        BY <3>2
      <4> HIDE DEF x, M
      <4>2. Performed(x) = Edit("unbound")
        BY <2>1, <2>3, <4>1 DEF Performed
      <4>3. Performed(x) # Assumed(e)
        BY <3>1, <4>2, EditsDiffer
      <4> QED BY <2>1, <2>4, <4>1, <4>3 DEF Agrees
    <3>3. CASE "ALT" \notin e.mods
      <4>1. M = {}
        BY <2>2, <2>6, <3>3
      <4> HIDE DEF x, M
      <4>2. Performed(x) = <<"insert", c>>
        <5> HIDE DEF c
        <5> QED BY <2>1, <4>1 DEF Performed
      <4> QED BY <2>1, <2>4, <3>1, <4>1, <4>2 DEF Agrees
    <3> QED BY <3>2, <3>3
  <2> QED BY <2>5, <2>6
<1>2. ASSUME e.code \in Codes PROVE Agrees(x, Assumed(e))
  <2> DEFINE k == e.code
             shadow == IF k \in DOMAIN ShadowKeys THEN ShadowKeys[k] ELSE "none"
             line == IF k \in DOMAIN KeyMap THEN KeyMap[k] ELSE "unbound"
             Good == {"Backspace", "Enter", "Left", "Right", "Home", "End"}
  <2>1. k \notin {"Char", "Pasted"} \cup MouseCodes
    BY <1>2 DEF Codes, CursorKeys, FixedKeys, MouseCodes
  <2>2. z = Key(k, e.n, {}) /\ x.code = k
    <3>1. z = Meaning(e) /\ Meaning(e) = Key(k, e.n, {})
      BY <2>1, Arrives DEF Meaning, MouseCodes
    <3>2. x.code = k
      BY <2>1 DEF AsXterm, Key
    <3> QED BY <3>1, <3>2
  <2>3. z.code = k
    BY <2>2 DEF Key
  <2>4. Performed(z) = Edit(line)
    <3> HIDE DEF z, k
    <3> QED BY <2>1, <2>3 DEF Performed
  <2>5. Assumed(e) = Edit(shadow)
    BY <2>1 DEF Assumed, AssumedBy
  <2>6. line = shadow <=> k \in Good
    BY <1>2, CodeAgrees
  <2>7. Drifting(x) <=> k \notin Good
    <3> HIDE DEF x
    <3>1. x.code \in Codes /\ x.code # "Char"
      BY <1>2, <2>1, <2>2
    <3>2. Drifting(x) <=> x.code \notin Good
      BY <3>1 DEF Drifting, Codes, CursorKeys, FixedKeys, MouseCodes
    <3> QED BY <2>2, <3>2
  <2> HIDE DEF line, shadow, x, Good
  <2>8. Performed(z) = Assumed(e) <=> line = shadow
    BY <2>4, <2>5, EditsDiffer
  <2> QED BY <2>6, <2>7, <2>8 DEF Agrees
<1>3. e.code = "Char" \/ e.code \in Codes
  BY KeyCodes DEF Codes
<1> QED BY <1>1, <1>2, <1>3

LEMMA Rejoin ==
    ASSUME NEW X, NEW g \in Seq(X), NEW u \in Seq(X), u # <<>>
    PROVE  /\ Append(g, Head(u)) \in Seq(X) /\ Tail(u) \in Seq(X)
           /\ g \o u = Append(g, Head(u)) \o Tail(u)
<1> DEFINE h == <<Head(u)>>
           t == Tail(u)
<1>1. /\ Head(u) \in X /\ t \in Seq(X) /\ Len(t) = Len(u) - 1 /\ Head(u) = u[1]
      /\ \A i \in 1..Len(t) : t[i] = u[i + 1]
  BY HeadTailProperties
<1>2. h \in Seq(X) /\ Len(h) = 1 /\ h[1] = u[1]
  BY <1>1
<1>3. Len(u) \in Nat
  BY LenProperties
<1> HIDE DEF h, t
<1>4. h \o t = u
  <2> DEFINE w == h \o t
  <2> HIDE DEF w
  <2>1. /\ w \in Seq(X) /\ Len(w) = Len(h) + Len(t)
        /\ \A i \in 1..Len(h) : w[i] = h[i]
        /\ \A i \in 1..Len(t) : w[Len(h) + i] = t[i]
    <3>1. h \in Seq(X) /\ t \in Seq(X)
      BY <1>1, <1>2
    <3> QED BY <3>1, Joins DEF w
  <2>2. Len(w) = Len(u)
    BY <1>1, <1>2, <1>3, <2>1
  <2>3. ASSUME NEW i \in 1..Len(w) PROVE w[i] = u[i]
    <3>1. CASE i = 1
      <4>1. 1 \in 1..Len(h)
        BY <1>2
      <4> QED BY <1>2, <2>1, <3>1, <4>1
    <3>2. CASE i # 1
      <4> DEFINE k == i - 1
      <4>1. k \in 1..Len(t) /\ 1 + k = i /\ k + 1 = i
        BY <1>1, <1>3, <2>2, <3>2
      <4> HIDE DEF k
      <4>2. w[1 + k] = t[k] /\ t[k] = u[k + 1]
        BY <1>1, <1>2, <2>1, <4>1
      <4> QED BY <4>1, <4>2
    <3> QED BY <3>1, <3>2
  <2>4. w = u
    BY <2>1, <2>2, <2>3, Same
  <2> QED BY <2>4 DEF w
<1>5. (g \o h) \o t = g \o (h \o t)
  <2>1. g \in Seq(X) /\ h \in Seq(X) /\ t \in Seq(X)
    BY <1>1, <1>2
  <2> QED BY <2>1, ConcatAssociative
<1>6. Append(g, Head(u)) = g \o h
  BY <1>1, AppendIsConcat DEF h
<1>7. Append(g, Head(u)) \in Seq(X)
  BY <1>1, AppendProperties
<1> QED BY <1>1, <1>4, <1>5, <1>6, <1>7 DEF t

LEMMA ReadKeeps ==
    ASSUME KeysInv, Read
    PROVE  KeysInv'
<1>1. /\ wire # <<>> /\ got' = Append(got, ReadOne(wire).ev)
      /\ wire' = SubSeq(wire, ReadOne(wire).n + 1, Len(wire))
      /\ mode' = mode /\ meant' = meant /\ assumed' = assumed
  BY DEF Read
<1>2. /\ meant \in Seq(Event) /\ assumed \in Seq(Command) /\ Len(assumed) = Len(meant)
      /\ got \in Seq(Delivery) /\ mode \in Modes \cup {{}}
  BY DEF KeysInv, TypeInv
<1>3. PICK under \in Seq(Delivery) :
         Due(meant) = got \o under /\ Carries(wire, under)
  BY DEF KeysInv, StreamInv
<1>4. /\ under # <<>> /\ ReadOne(wire).ev = Head(under)
      /\ Carries(SubSeq(wire, ReadOne(wire).n + 1, Len(wire)), Tail(under))
  BY <1>1, <1>3, StreamReads
<1> DEFINE g == Append(got, Head(under))
           t == Tail(under)
<1>5. g \in Seq(Delivery) /\ t \in Seq(Delivery) /\ got \o under = g \o t
  BY <1>2, <1>4, Rejoin
<1> HIDE DEF g, t
<1>6. got' = g /\ Carries(wire', t) /\ Due(meant) = got' \o t
  BY <1>1, <1>3, <1>4, <1>5 DEF g, t
<1>7. TypeInv'
  BY <1>1, <1>2, <1>5, <1>6 DEF TypeInv
<1>8. StreamInv'
  <2>1. Due(meant') = Due(meant)
    BY <1>1
  <2>2. \E u \in Seq(Delivery) : Due(meant') = got' \o u /\ Carries(wire', u)
    BY <1>5, <1>6, <2>1
  <2> QED BY <2>2 DEF StreamInv
<1>9. AgreeInv'
  <2>1. meant' = meant /\ assumed' = assumed /\ AgreeInv
    BY <1>1 DEF KeysInv
  <2> QED BY <2>1 DEF AgreeInv
<1> QED BY <1>7, <1>8, <1>9 DEF KeysInv

(* One event with its bytes and its command.                                *)
LEMMA OneKeeps ==
    ASSUME KeysInv, NEW b, NEW m \in Event, NEW c \in Command,
           Unit(b, Delivered(m)), Agrees(m, c), SendAs(b, <<m>>, <<c>>)
    PROVE  KeysInv'
<1> DEFINE evs == <<m>>
           cmds == <<c>>
<1>1. /\ evs \in Seq(Event) /\ Due(evs) = <<Delivered(m)>> /\ Delivered(m) \in Delivery
  BY DueOne
<1>2. Carries(b, Due(evs))
  BY <1>1, UnitCarried
<1>3. /\ cmds \in Seq(Command) /\ Len(cmds) = 1 /\ Len(evs) = 1
      /\ evs[1] = m /\ cmds[1] = c
  OBVIOUS
<1>4. SendAs(b, evs, cmds)
  OBVIOUS
<1> HIDE DEF evs, cmds
<1>5. \A i \in 1..Len(evs) : Agrees(evs[i], cmds[i])
  <2>1. \A i \in 1..Len(evs) : i = 1
    BY <1>3
  <2> QED BY <1>3, <2>1
<1> QED BY <1>1, <1>2, <1>3, <1>4, <1>5, SendKeeps

LEMMA PressKeeps ==
    ASSUME KeysInv, NEW e \in KeyEvents, Press(e)
    PROVE  KeysInv'
<1> DEFINE b == Encode(e)
           m == AsXterm(e)
           c == Assumed(e)
<1>1. ReadableKey(e) /\ b # <<>> /\ SendAs(b, <<m>>, <<c>>)
  BY ReadableAssumption DEF Press
<1>2. m \in Event /\ c \in Command
  BY DEF Event, Command
<1>3. e.code # "Pasted"
  BY <1>1, KeyCodes DEF CursorKeys, FixedKeys
<1>4. Unit(b, Meaning(e)) /\ Agrees(m, c)
  BY <1>1, KeyUnit, KeyAgrees
<1>5. Unit(b, Delivered(m))
  BY <1>3, <1>4, Arrives
<1> HIDE DEF b, m, c
<1> QED BY <1>1, <1>2, <1>4, <1>5, OneKeeps

LEMMA MouseKeeps ==
    ASSUME KeysInv, NEW e \in MouseEvents, Mouse(e)
    PROVE  KeysInv'
<1> DEFINE b == EncodeMouse(e)
           m == AsXterm(e)
           c == Edit("none")
<1>1. ReadableMouse(e) /\ b # <<>> /\ SendAs(b, <<m>>, <<c>>)
  BY ReadableAssumption DEF Mouse
<1>2. m \in Event /\ c \in Command
  BY DEF Event, Command
<1>3. e.code \in MouseCodes /\ e.code # "Pasted" /\ m = e
  BY <1>1 DEF ReadableMouse, MouseCodes, AsXterm
<1>4. Unit(b, Meaning(e))
  BY <1>1, MouseUnit
<1>5. Unit(b, Delivered(m))
  BY <1>3, <1>4, Arrives
<1>6. Agrees(m, c)
  <2>1. Delivered(e).code = e.code
    BY <1>3 DEF Delivered, MouseCodes, Button
  <2>2. e.code # "Char" /\ e.code \notin DOMAIN KeyMap
    BY <1>3 DEF MouseCodes, KeyMap
  <2>3. Performed(Delivered(e)) = Edit("unbound")
    BY <2>1, <2>2 DEF Performed
  <2>4. Drifting(e)
    BY <1>3 DEF Drifting
  <2> QED BY <1>3, <2>3, <2>4, EditsDiffer DEF Agrees
<1> HIDE DEF b, m, c
<1> QED BY <1>1, <1>2, <1>5, <1>6, OneKeeps

(* The events of a paste, and what is to be read for them.                  *)
LEMMA PastedDue ==
    ASSUME NEW text \in Seq(Printable)
    PROVE  /\ PastedKeys(text) \in Seq(Event)
           /\ Due(PastedKeys(text)) = CharKeys(text)
           /\ \A i \in 1..Len(PastedKeys(text)) :
                 Agrees(PastedKeys(text)[i], Edit("none"))
<1> DEFINE n == Len(text)
           k == PastedKeys(text)
<1>1. n \in Nat /\ DOMAIN text = 1..n /\ \A i \in 1..n : text[i] \in Printable
  BY LenProperties, ElementOfSeq
<1> HIDE DEF n
<1>2. DOMAIN k = 1..n /\ \A i \in 1..n : k[i] = Key("Pasted", text[i], {})
  BY <1>1 DEF PastedKeys
<1>3. k \in Seq(Event) /\ Len(k) = n
  <2>1. k \in [1..n -> Event]
    BY <1>1 DEF PastedKeys, Event
  <2> HIDE DEF k
  <2>2. k \in Seq(Event)
    BY <1>1, <2>1
  <2> QED BY <1>1, <1>2, <2>2, LenProperties
<1>4. \A c : Delivered(Key("Pasted", c, {})) = Key("Char", c, {})
  BY DEF Delivered, Key
<1>5. Due(k) = CharKeys(text)
  <2>1. Due(k) = [i \in 1..n |-> Delivered(k[i])]
    BY <1>2 DEF Due
  <2>2. \A i \in 1..n : Delivered(k[i]) = Key("Char", text[i], {})
    BY <1>2, <1>4
  <2>3. CharKeys(text) = [i \in 1..n |-> Key("Char", text[i], {})]
    BY <1>1 DEF CharKeys
  <2> HIDE DEF k
  <2> QED BY <2>1, <2>2, <2>3
<1>6. ASSUME NEW c PROVE Agrees(Key("Pasted", c, {}), Edit("none"))
  <2>1. Performed(Key("Char", c, {})) = <<"insert", c>>
    BY DEF Performed, Key
  <2>2. Drifting(Key("Pasted", c, {}))
    BY DEF Drifting, Key
  <2> QED BY <1>4, <2>1, <2>2, EditsDiffer DEF Agrees
<1> HIDE DEF k
<1>7. \A i \in 1..Len(k) : Agrees(k[i], Edit("none"))
  BY <1>2, <1>3, <1>6
<1> QED BY <1>3, <1>5, <1>7 DEF k

LEMMA FrameDue ==
    ASSUME NEW e \in {PasteStart, PasteEnd}
    PROVE  e \in Event /\ Delivered(e) = e /\ Agrees(e, Edit("none"))
<1>1. e \in Event
  BY DEF Event
<1>2. e.code = "Paste" /\ e = Key("Paste", e.n, {})
  BY DEF PasteStart, PasteEnd, Key
<1>3. Delivered(e) = e
  BY <1>2 DEF Delivered, MouseCodes
<1>4. "Paste" \in DOMAIN KeyMap /\ KeyMap["Paste"] = "none"
  BY DEF KeyMap
<1>5. Performed(e) = Edit("none")
  BY <1>2, <1>4 DEF Performed
<1>6. ~Drifting(e)
  BY <1>2 DEF Drifting, MouseCodes
<1> QED BY <1>1, <1>3, <1>5, <1>6 DEF Agrees

(* Events sent with no command. *)
LEMMA PlainSendKeeps ==
    ASSUME KeysInv, NEW b, NEW evs \in Seq(Event), Carries(b, Due(evs)),
           \A i \in 1..Len(evs) : Agrees(evs[i], Edit("none")),
           SendAs(b, evs, [i \in DOMAIN evs |-> Edit("none")])
    PROVE  KeysInv'
<1> DEFINE cmds == [i \in DOMAIN evs |-> Edit("none")]
<1>1. /\ cmds \in Seq(Command) /\ Len(cmds) = Len(evs)
      /\ \A i \in 1..Len(evs) : cmds[i] = Edit("none")
  <2>1. Len(evs) \in Nat /\ DOMAIN evs = 1..Len(evs)
    BY LenProperties
  <2>2. Edit("none") \in Command
    BY DEF Command
  <2> QED BY <2>1, <2>2
<1>2. SendAs(b, evs, cmds)
  OBVIOUS
<1> HIDE DEF cmds
<1>3. \A i \in 1..Len(evs) : Agrees(evs[i], cmds[i])
  BY <1>1
<1> QED BY <1>1, <1>2, <1>3, SendKeeps

LEMMA PasteKeeps ==
    ASSUME KeysInv, NEW text \in Pastes, Paste(text)
    PROVE  KeysInv'
<1>1. text \in Seq(Printable)
  BY ReadableAssumption
<1> DEFINE k == PastedKeys(text)
           d == CharKeys(text)
           s == <<PasteStart>>
           e == <<PasteEnd>>
           q == s \o k
           r == q \o e
           u == Utf8All(text)
           w == <<ESC, 91, 50, 48, 48, 126>> \o u \o <<ESC, 91, 50, 48, 49, 126>>
<1>2. /\ k \in Seq(Event) /\ Due(k) = d
      /\ \A i \in 1..Len(k) : Agrees(k[i], Edit("none"))
  BY <1>1, PastedDue
<1>3. CASE "BRACKETED_PASTE" \in mode
  <2>1. SendAs(w, r, [i \in DOMAIN r |-> Edit("none")])
    BY <1>3 DEF Paste, PastedKeys
  <2>2. Carries(w, <<PasteStart>> \o d \o <<PasteEnd>>)
    BY <1>1, BracketedCarried
  <2>3. /\ s \in Seq(Event) /\ Due(s) = <<PasteStart>> /\ Len(s) = 1
        /\ e \in Seq(Event) /\ Due(e) = <<PasteEnd>> /\ Len(e) = 1
        /\ s[1] = PasteStart /\ e[1] = PasteEnd
    BY FrameDue, DueOne
  <2>4. Agrees(s[1], Edit("none")) /\ Agrees(e[1], Edit("none"))
    BY <2>3, FrameDue
  <2> HIDE DEF w, k, d, s, e
  <2>5. /\ q \in Seq(Event) /\ Len(q) = 1 + Len(k) /\ Len(k) \in Nat
        /\ \A i \in 1..1 : q[i] = s[i]
        /\ \A i \in 1..Len(k) : q[1 + i] = k[i]
    BY <1>2, <2>3, Joins
  <2>6. Due(q) = <<PasteStart>> \o d
    BY <1>2, <2>3, DueConcat
  <2> HIDE DEF q
  <2>7. /\ r \in Seq(Event) /\ Len(r) = Len(q) + 1
        /\ \A i \in 1..Len(q) : r[i] = q[i]
        /\ \A i \in 1..1 : r[Len(q) + i] = e[i]
    BY <2>3, <2>5, Joins
  <2>8. Due(r) = <<PasteStart>> \o d \o <<PasteEnd>>
    BY <2>3, <2>5, <2>6, DueConcat
  <2> HIDE DEF r
  <2>9. ASSUME NEW i \in 1..Len(r) PROVE Agrees(r[i], Edit("none"))
    <3>1. CASE i = 1
      <4>1. r[i] = s[1]
        <5>1. 1 \in 1..Len(q) /\ 1 \in 1..1
          BY <2>5
        <5> QED BY <2>5, <2>7, <3>1, <5>1
      <4> QED BY <2>4, <4>1
    <3>2. CASE i = Len(r)
      <4>1. r[i] = e[1]
        <5>1. 1 \in 1..1 /\ i = Len(q) + 1
          BY <2>7, <3>2
        <5> QED BY <2>7, <5>1
      <4> QED BY <2>4, <4>1
    <3>3. CASE i # 1 /\ i # Len(r)
      <4> DEFINE j == i - 1
      <4>1. j \in 1..Len(k) /\ 1 + j = i /\ i \in 1..Len(q)
        BY <2>5, <2>7, <3>3
      <4> HIDE DEF j
      <4>2. r[i] = q[i] /\ q[1 + j] = k[j]
        BY <2>5, <2>7, <4>1
      <4> QED BY <1>2, <4>1, <4>2
    <3> QED BY <3>1, <3>2, <3>3
  <2>10. Carries(w, Due(r))
    BY <2>2, <2>8
  <2> QED BY <2>1, <2>7, <2>9, <2>10, PlainSendKeeps
<1>4. CASE "BRACKETED_PASTE" \notin mode
  <2>1. SendAs(u, k, [i \in DOMAIN k |-> Edit("none")])
    BY <1>4 DEF Paste, PastedKeys
  <2>2. Carries(u, Due(k))
    BY <1>1, <1>2, TextCarried
  <2> HIDE DEF u, k
  <2> QED BY <1>2, <2>1, <2>2, PlainSendKeeps
<1> QED BY <1>3, <1>4

LEMMA KeysInvInit == Init => KeysInv
<1> SUFFICES ASSUME Init PROVE KeysInv
  OBVIOUS
<1> DEFINE s == <<>>
<1>1. mode = {} /\ wire = s /\ got = s /\ meant = s /\ assumed = s
  BY DEF Init
<1>2. /\ s \in Seq(Event) /\ s \in Seq(Command) /\ s \in Seq(Delivery)
      /\ Len(s) = 0 /\ s = s \o s
      /\ \A i \in 1..0 : FALSE
  OBVIOUS
<1>3. Carries(s, s)
  BY NothingCarried
<1>4. Due(s) = s
  <2>1. Due(s) \in Seq(Delivery) /\ Len(Due(s)) = 0
    BY <1>2, DueSeq
  <2> QED BY <2>1, EmptySeq
<1> HIDE DEF s
<1>5. TypeInv
  BY <1>1, <1>2 DEF TypeInv
<1>6. StreamInv
  BY <1>1, <1>2, <1>3, <1>4 DEF StreamInv
<1>7. AgreeInv
  BY <1>1, <1>2 DEF AgreeInv
<1> QED BY <1>5, <1>6, <1>7 DEF KeysInv

LEMMA KeysInvNext == KeysInv /\ [Next]_vars => KeysInv'
<1> SUFFICES ASSUME KeysInv, [Next]_vars PROVE KeysInv'
  OBVIOUS
<1>1. ASSUME NEW e \in KeyEvents, Press(e) PROVE KeysInv'
  BY <1>1, PressKeeps
<1>2. ASSUME NEW e \in MouseEvents, Mouse(e) PROVE KeysInv'
  BY <1>2, MouseKeeps
<1>3. ASSUME NEW text \in Pastes, Paste(text) PROVE KeysInv'
  BY <1>3, PasteKeeps
<1>4. CASE SetMode
  <2>1. mode' \in Modes /\ UNCHANGED <<wire, got, meant, assumed>>
    BY <1>4 DEF SetMode
  <2>2. TypeInv'
    BY <2>1 DEF KeysInv, TypeInv
  <2>3. StreamInv' /\ AgreeInv'
    BY <2>1 DEF KeysInv, StreamInv, AgreeInv
  <2> QED BY <2>2, <2>3 DEF KeysInv
<1>5. CASE Read
  BY <1>5, ReadKeeps
<1>6. CASE UNCHANGED vars
  <2>1. UNCHANGED <<mode, wire, got, meant, assumed>>
    BY <1>6 DEF vars
  <2>2. TypeInv'
    BY <2>1 DEF KeysInv, TypeInv
  <2>3. StreamInv' /\ AgreeInv'
    BY <2>1 DEF KeysInv, StreamInv, AgreeInv
  <2> QED BY <2>2, <2>3 DEF KeysInv
<1> QED BY <1>1, <1>2, <1>3, <1>4, <1>5, <1>6 DEF Next

LEMMA KeysInvAlways == Spec => []KeysInv
BY KeysInvInit, KeysInvNext, PTL DEF Spec

-----------------------------------------------------------------------------
(* The properties. *)

LEMMA ReadAsDue ==
    ASSUME KeysInv
    PROVE  /\ Len(got) \in Nat /\ Len(meant) \in Nat /\ Len(got) <= Len(meant)
           /\ DOMAIN got = 1..Len(got)
           /\ \A i \in 1..Len(got) : got[i] = Delivered(meant[i])
           /\ wire = <<>> => Len(got) = Len(meant)
<1>1. PICK under \in Seq(Delivery) :
         Due(meant) = got \o under /\ Carries(wire, under)
  BY DEF KeysInv, StreamInv
<1>2. got \in Seq(Delivery) /\ meant \in Seq(Event)
  BY DEF KeysInv, TypeInv
<1>3. /\ Len(Due(meant)) = Len(meant) /\ Len(meant) \in Nat
      /\ \A i \in 1..Len(meant) : Due(meant)[i] = Delivered(meant[i])
  BY <1>2, DueSeq, LenProperties
<1>4. /\ Len(Due(meant)) = Len(got) + Len(under)
      /\ Len(got) \in Nat /\ Len(under) \in Nat
      /\ \A i \in 1..Len(got) : Due(meant)[i] = got[i]
  BY <1>1, <1>2, Joins
<1>5. Len(got) <= Len(meant) /\ DOMAIN got = 1..Len(got)
  BY <1>2, <1>3, <1>4, LenProperties
<1>6. \A i \in 1..Len(got) : i \in 1..Len(meant)
  BY <1>3, <1>4, <1>5
<1>7. \A i \in 1..Len(got) : got[i] = Delivered(meant[i])
  BY <1>3, <1>4, <1>6
<1>8. ASSUME wire = <<>> PROVE Len(got) = Len(meant)
  <2>1. under = <<>>
    BY <1>1, <1>8, NothingLeft
  <2>2. Len(under) = 0
    BY <2>1
  <2> QED BY <1>3, <1>4, <2>2
<1> QED BY <1>3, <1>4, <1>5, <1>7, <1>8

LEMMA UnderstoodFollows == KeysInv => Understood
<1> SUFFICES ASSUME KeysInv PROVE Understood
  OBVIOUS
<1> QED BY ReadAsDue DEF Understood

LEMMA LockstepFollows == KeysInv => Lockstep
<1> SUFFICES ASSUME KeysInv, NEW i \in DOMAIN got
             PROVE  Performed(got[i]) = assumed[i] <=> ~Drifting(meant[i])
  BY DEF Lockstep
<1>1. i \in 1..Len(got) /\ i \in 1..Len(meant) /\ got[i] = Delivered(meant[i])
  BY ReadAsDue
<1>2. Agrees(meant[i], assumed[i])
  BY <1>1 DEF KeysInv, AgreeInv
<1> QED BY <1>1, <1>2 DEF Agrees

(* The remote takes the bytes apart into the events they were sent for, but *)
(* for the modifiers and the button Delivered drops, whatever keys, reports *)
(* and pastes are mixed and whenever the modes change (keys.rs:25-157).     *)
THEOREM StreamUnderstood == Spec => []Understood
BY KeysInvAlways, UnderstoodFollows, PTL

(* For every key, report and paste the bytes do to readline's line what App *)
(* does to its shadow, nothing included, exactly unless they are one of the *)
(* exceptions Drifting lists (app.rs:277-382).                              *)
THEOREM ShadowInLockstep == Spec => []Lockstep
BY KeysInvAlways, LockstepFollows, PTL
=============================================================================
