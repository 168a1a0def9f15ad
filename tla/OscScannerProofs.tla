-------------------------- MODULE OscScannerProofs --------------------------
(***************************************************************************)
(* Proofs about the OSC scanner: for every cap, every set of payloads and  *)
(* streams of any length it finds what was sent, and never makes a step    *)
(* that OscMarkers forbids.  A directory is reported exactly if the URL    *)
(* names it, under the name char::from makes of it: an induction over the  *)
(* bytes of the URL, in set form (CountUp), in each direction.             *)
(***************************************************************************)
EXTENDS OscScanner, SequenceTheorems, WellFoundedInduction, TLAPS

Ends == {<<Bel>>, <<Esc, "\\">>}

(* What App is to be told of what has been received.                        *)
Told == Reported(expected)

(* Where the scanner can be in a unit, and what the rest of the unit is     *)
(* going to add to the events found.                                        *)
InText == \E b \in Bytes \ {Esc} : stream = <<b>>
InEscape == \E b \in Bytes \ {"]", Esc} : stream = <<Esc, b>>
AfterEsc == \E b \in Bytes \ {"]"} : stream = <<b>>

InUnit(opening, have) ==
    \E p \in Seq(PayloadByte), end \in Ends :
        /\ stream = opening \o (p \o end)
        /\ Told = out \o Dispatched(Kept(have \o p))

(* An OSC that is missed, behind a bare ESC.                                *)
InMissed(opening) ==
    \E p \in Seq(PayloadByte), end \in Ends : stream = opening \o (p \o end)

Between ==
    /\ stream = <<>> /\ Told = out
    /\ state = IF bare = "odd" THEN "Esc" ELSE "Plain"

InBare ==
    /\ stream = <<Esc>> /\ Told = out
    /\ \/ state = "Plain" /\ bare = "odd"
       \/ state = "Esc" /\ bare = "even"

InSilence ==
    /\ bare = "none" /\ Told = out
    /\ \/ state = "Plain" /\ (InText \/ InEscape \/ InMissed(<<>>))
       \/ state = "Esc" /\ (AfterEsc \/ InEscape \/ InMissed(<<Esc, "]">>))

InOsc ==
    /\ bare = "none"
    /\ \/ state = "Plain" /\ InUnit(<<Esc, "]">>, <<>>)
       \/ state = "Esc" /\ InUnit(<<"]">>, <<>>)
       \/ state = "InOsc" /\ InUnit(<<>>, payload)
       \/ /\ state = "OscMaybeSt" /\ stream = <<"\\">>
          /\ Told = out \o Dispatched(payload)

Place == Between \/ InBare \/ InSilence \/ InOsc

OutTyped == out \in Seq(Events) /\ expected \in Seq(SentEvents)

OscInv == TypeOK /\ OutTyped /\ Place

-----------------------------------------------------------------------------
(* Payloads. *)

LEMMA KeptShort ==
  ASSUME NEW p \in Seq(PayloadByte), Len(p) <= OSC_PAYLOAD_CAP
  PROVE  Kept(p) = p
BY DEF Kept

(* A byte over the cap changes nothing, a byte below it is kept.            *)
LEMMA KeptStep ==
  ASSUME NEW have \in Seq(PayloadByte), Len(have) <= OSC_PAYLOAD_CAP,
         NEW p \in Seq(PayloadByte), p # <<>>
  PROVE  LET more == IF Len(have) < OSC_PAYLOAD_CAP THEN Append(have, Head(p))
                                                    ELSE have
         IN  /\ more \in Seq(PayloadByte) /\ Len(more) <= OSC_PAYLOAD_CAP
             /\ Kept(more \o Tail(p)) = Kept(have \o p)
<1> USE CapAssumption
<1>1. Head(p) \in PayloadByte /\ Tail(p) \in Seq(PayloadByte) /\ Len(Tail(p)) = Len(p) - 1
      /\ Len(p) \in Nat \ {0} /\ Len(have) \in Nat
  BY HeadTailProperties, LenProperties, EmptySeq
<1>2. CASE Len(have) < OSC_PAYLOAD_CAP
  <2>1. Append(have, Head(p)) = have \o <<Head(p)>>
    BY <1>1, AppendIsConcat
  <2>2. (have \o <<Head(p)>>) \o Tail(p) = have \o (<<Head(p)>> \o Tail(p))
    BY <1>1, ConcatAssociative
  <2>3. <<Head(p)>> \o Tail(p) = p
    BY <1>1
  <2>4. /\ Append(have, Head(p)) \in Seq(PayloadByte)
        /\ Len(Append(have, Head(p))) <= OSC_PAYLOAD_CAP
    BY <1>1, <1>2, AppendProperties
  <2> QED BY <1>2, <2>1, <2>2, <2>3, <2>4
<1>3. CASE Len(have) = OSC_PAYLOAD_CAP
  <2>1. ASSUME NEW q \in Seq(PayloadByte) PROVE Kept(have \o q) = have
    <3>1. have \o q \in Seq(PayloadByte) /\ Len(have \o q) = Len(have) + Len(q)
          /\ Len(q) \in Nat
      BY ConcatProperties, LenProperties
    <3>2. CASE Len(q) = 0
      BY <1>3, <3>1, <3>2, ConcatEmptySeq, EmptySeq DEF Kept
    <3>3. CASE Len(q) > 0
      <4>1. Kept(have \o q) = SubSeq(have \o q, 1, Len(have))
        BY <1>1, <1>3, <3>1, <3>3 DEF Kept
      <4>2. SubSeq(have \o q, 1, Len(have)) = SubSeq(have, 1, Len(have))
        BY <1>1, <1>3, SubSeqOfConcat1
      <4> QED BY <4>1, <4>2, SubSeqFull
    <3> QED BY <3>1, <3>2, <3>3
  <2>2. Kept(have \o Tail(p)) = have BY <1>1, <2>1
  <2>3. Kept(have \o p) = have BY <2>1
  <2> QED BY <1>3, <2>2, <2>3
<1> QED BY <1>1, <1>2, <1>3

(* The cap spares the letter of a marker.                                   *)
LEMMA MarkerKept ==
  ASSUME NEW l \in DOMAIN Marker, NEW rest \in Seq(PayloadByte)
  PROVE  /\ <<Prompt, l>> \o rest \in Seq(PayloadByte)
         /\ Dispatched(Kept(<<Prompt, l>> \o rest)) = <<Marker[l]>>
<1> USE CapAssumption
<1> DEFINE p == <<Prompt, l>> \o rest
<1>1. l \in PayloadByte /\ Prompt \in PayloadByte /\ Prompt # CwdPrefix
  <2>1. DOMAIN Marker = {"A", "B", "C", "D"}
    BY DEF Marker
  <2> QED BY <2>1, BytesAssumption DEF PayloadByte, Esc, Bel, Prompt, CwdPrefix
<1>2. <<Prompt, l>> \in Seq(PayloadByte) /\ Len(<<Prompt, l>>) = 2
  BY <1>1
<1>3. /\ p \in Seq(PayloadByte) /\ Len(p) = 2 + Len(rest) /\ Len(rest) \in Nat
      /\ p[1] = Prompt /\ p[2] = l
  BY <1>2, ConcatProperties, LenProperties
<1> HIDE DEF p
<1>4. /\ Len(Kept(p)) > 1 /\ Kept(p)[1] = Prompt /\ Kept(p)[2] = l
      /\ Kept(p) # <<>>
  BY <1>3 DEF Kept
<1>5. Dispatched(Kept(p)) = <<Marker[l]>>
  BY <1>1, <1>4 DEF Dispatched
<1> QED BY <1>3, <1>5 DEF p

(* A payload reports at most one event.                                     *)
LEMMA OneEvent ==
  ASSUME NEW p
  PROVE  Dispatched(p) = <<>> \/ \E e : Dispatched(p) = <<e>>
BY DEF Dispatched, Directory

LEMMA HeadOfConcat ==
  ASSUME NEW S, NEW s \in Seq(S), s # <<>>, NEW t \in Seq(S)
  PROVE  /\ s \o t \in Seq(S) /\ s \o t # <<>>
         /\ Head(s \o t) = Head(s) /\ Tail(s \o t) = Tail(s) \o t
<1>1. Head(s) \in S /\ Tail(s) \in Seq(S) /\ Len(Tail(s)) = Len(s) - 1
      /\ Len(s) \in Nat \ {0}
  BY HeadTailProperties, EmptySeq
<1>2. s = <<Head(s)>> \o Tail(s) /\ <<Head(s)>> \in Seq(S)
  BY <1>1
<1>3. s \o t = <<Head(s)>> \o (Tail(s) \o t)
  BY <1>1, <1>2, ConcatAssociative
<1>4. Tail(s) \o t \in Seq(S)
  BY <1>1, ConcatProperties
<1> QED BY <1>1, <1>3, <1>4

-----------------------------------------------------------------------------
(* Decoding. *)

(* Induction up to n, for a set of numbers.                                 *)
LEMMA CountUp ==
    ASSUME NEW n \in Nat, NEW S, 0 \in S,
           \A i \in 0..(n - 1) : i \in S => i + 1 \in S
    PROVE  \A i \in 0..n : i \in S
<1> DEFINE T == {i \in 0..n : i \notin S}
<1> SUFFICES ASSUME T # {} PROVE FALSE
  OBVIOUS
<1>1. T \subseteq Nat
  OBVIOUS
<1>2. PICK t \in T : \A y \in T : ~(<<y, t>> \in OpToRel(<, Nat))
  BY <1>1, NatLessThanWellFounded, WFMin
<1>3. \A y \in T : ~(y < t)
  BY <1>1, <1>2 DEF OpToRel
<1>4. t # 0 /\ t \in 0..n
  OBVIOUS
<1>5. t - 1 \in 0..(n - 1) /\ t - 1 < t
  BY <1>4
<1>6. t - 1 \in S
  BY <1>3, <1>4, <1>5
<1>7. (t - 1) + 1 = t
  BY <1>4
<1> QED BY <1>4, <1>5, <1>6, <1>7

(* A function defined by recursion on the numbers up to n.                  *)
Stepwise(n, X, base, step) ==
    \E f \in [0..n -> X] :
        f[0] = base /\ \A i \in 1..n : f[i] = step[i][f[i - 1]]

LEMMA StepByStep ==
    ASSUME NEW n \in Nat, NEW X, NEW base \in X, NEW step \in [1..n -> [X -> X]]
    PROVE  Stepwise(n, X, base, step)
<1> DEFINE Is(f, k) == /\ f \in [0..k -> X] /\ f[0] = base
                       /\ \A i \in 1..k : f[i] = step[i][f[i - 1]]
           S == {k \in 0..n : \E f : Is(f, k)}
<1>1. 0 \in S
  <2> DEFINE f == [i \in 0..0 |-> base]
  <2>1. f \in [0..0 -> X] /\ f[0] = base /\ \A i \in 1..0 : FALSE
    OBVIOUS
  <2> HIDE DEF f
  <2>2. Is(f, 0)
    BY <2>1
  <2>3. 0 \in 0..n
    OBVIOUS
  <2> HIDE DEF Is
  <2> QED BY <2>2, <2>3
<1>2. ASSUME NEW k \in 0..(n - 1), k \in S PROVE k + 1 \in S
  <2>1. PICK f : Is(f, k)
    BY <1>2
  <2>2. /\ k \in 0..k /\ k + 1 \in 1..n /\ k + 1 \in 0..(k + 1)
        /\ \A i \in 0..(k + 1) : i = k + 1 \/ (i \in 0..k /\ i # k + 1)
    OBVIOUS
  <2> DEFINE v == step[k + 1][f[k]]
             g == [i \in 0..(k + 1) |-> IF i = k + 1 THEN v ELSE f[i]]
  <2>3. v \in X /\ f[k] \in X
    BY <2>1, <2>2
  <2>4. g \in [0..(k + 1) -> X]
    <3>1. ASSUME NEW i \in 0..(k + 1) PROVE (IF i = k + 1 THEN v ELSE f[i]) \in X
      <4> HIDE DEF v
      <4> QED BY <2>1, <2>2, <2>3
    <3> HIDE DEF v
    <3> QED BY <3>1
  <2>5. g[k + 1] = v /\ \A i \in 0..k : g[i] = f[i]
    <3>1. \A i \in 0..k : i \in 0..(k + 1) /\ i # k + 1
      OBVIOUS
    <3> HIDE DEF v
    <3> QED BY <2>2, <3>1
  <2> HIDE DEF g
  <2>6. g[0] = base
    BY <2>1, <2>5
  <2>7. ASSUME NEW i \in 1..(k + 1) PROVE g[i] = step[i][g[i - 1]]
    <3>1. CASE i = k + 1
      <4>1. i - 1 = k /\ k \in 0..k
        BY <3>1
      <4> QED BY <2>5, <3>1, <4>1
    <3>2. CASE i # k + 1
      <4>1. i \in 1..k /\ i \in 0..k /\ i - 1 \in 0..k
        BY <3>2
      <4> QED BY <2>1, <2>5, <4>1
    <3> QED BY <3>1, <3>2
  <2>8. Is(g, k + 1)
    BY <2>4, <2>6, <2>7
  <2> HIDE DEF Is
  <2> QED BY <2>2, <2>8
<1> HIDE DEF S
<1>3. \A i \in 0..n : i \in S
  BY <1>1, <1>2, CountUp, Zenon
<1>4. n \in 0..n
  OBVIOUS
<1>5. n \in S
  BY <1>3, <1>4
<1> QED BY <1>5 DEF S, Stepwise

(* What a path is made of once it has been read.                            *)
Char == {CharFrom(b) : b \in PathByte}

(* Reading goes byte by byte.                                               *)
LEMMA ReadSeq ==
  ASSUME NEW p \in Seq(PathByte)
  PROVE  Read(p) \in Seq(Char) /\ Len(Read(p)) = Len(p)
<1> DEFINE n == Len(p)
<1>1. n \in Nat /\ DOMAIN p = 1..n /\ \A i \in 1..n : p[i] \in PathByte
  BY LenProperties, ElementOfSeq
<1> HIDE DEF n
<1>2. Read(p) \in [1..n -> Char]
  BY <1>1 DEF Read, Char
<1>3. Read(p) \in Seq(Char)
  BY <1>1, <1>2
<1>4. Len(Read(p)) = n
  BY <1>1, <1>2, LenProperties, <1>3
<1> QED BY <1>3, <1>4 DEF n

LEMMA ReadAppend ==
  ASSUME NEW p \in Seq(PathByte), NEW c \in PathByte
  PROVE  Append(Read(p), CharFrom(c)) = Read(Append(p, c))
<1> DEFINE u == Append(Read(p), CharFrom(c))
           q == Append(p, c)
           v == Read(q)
<1>1. Read(p) \in Seq(Char) /\ Len(Read(p)) = Len(p) /\ Len(p) \in Nat
  BY ReadSeq, LenProperties
<1>2. CharFrom(c) \in Char
  BY DEF Char
<1>3. /\ u \in Seq(Char) /\ Len(u) = Len(p) + 1 /\ u[Len(p) + 1] = CharFrom(c)
      /\ \A i \in 1..Len(p) : u[i] = Read(p)[i]
  BY <1>1, <1>2, AppendProperties
<1>4. /\ q \in Seq(PathByte) /\ Len(q) = Len(p) + 1 /\ q[Len(p) + 1] = c
      /\ \A i \in 1..Len(p) : q[i] = p[i]
  BY <1>1, AppendProperties
<1> HIDE DEF u, q
<1>5. v \in Seq(Char) /\ Len(v) = Len(p) + 1
  BY <1>4, ReadSeq
<1>6. \A i \in 1..(Len(p) + 1) : v[i] = CharFrom(q[i])
  BY <1>4, LenProperties DEF Read
<1>7. \A i \in 1..Len(p) : Read(p)[i] = CharFrom(p[i])
  BY LenProperties DEF Read
<1> HIDE DEF v
<1>8. \A i \in 1..Len(u) : u[i] = v[i]
  <2>1. \A i \in 1..Len(u) : i = Len(p) + 1 \/ i \in 1..Len(p)
    BY <1>1, <1>3
  <2> QED BY <1>1, <1>3, <1>4, <1>6, <1>7, <2>1
<1>9. u = v
  BY <1>3, <1>5, <1>8, SeqEqual
<1> QED BY <1>9 DEF u, v, q

(* A reading stands for one path only.                                      *)
LEMMA ReadInjective ==
  ASSUME NEW p \in Seq(PathByte), NEW q \in Seq(PathByte), Read(p) = Read(q)
  PROVE  p = q
<1>1. Len(p) = Len(q) /\ Len(p) \in Nat
  <2>1. Len(Read(p)) = Len(p) /\ Len(Read(q)) = Len(q)
    BY ReadSeq
  <2> QED BY <2>1, LenProperties
<1>2. ASSUME NEW i \in 1..Len(p) PROVE p[i] = q[i]
  <2>1. p[i] \in PathByte /\ q[i] \in PathByte
    BY <1>1, ElementOfSeq
  <2>2. Read(p)[i] = CharFrom(p[i]) /\ Read(q)[i] = CharFrom(q[i])
    BY <1>1, LenProperties DEF Read
  <2> QED BY <2>1, <2>2, LatinAssumption
<1> QED BY <1>1, <1>2, SeqEqual

Decoding == [path : Seq(Char), esc : Seq(PayloadByte \cup {"%"})]
Fresh == [path |-> <<>>, esc |-> <<>>]

(* The decoding of p, and of what has been seen of an escape behind it.     *)
At(p, esc) == [path |-> Read(p), esc |-> esc]

LEMMA FreshAt == Fresh = At(<<>>, <<>>)
<1>1. Read(<<>>) = <<>>
  <2>1. <<>> \in Seq(PathByte) /\ Len(<<>>) = 0
    OBVIOUS
  <2>2. Read(<<>>) \in Seq(Char) /\ Len(Read(<<>>)) = 0
    BY <2>1, ReadSeq
  <2> QED BY <2>2, EmptySeq
<1> QED BY <1>1 DEF Fresh, At

LEMMA DecodePlain ==
  ASSUME NEW p \in Seq(PathByte), NEW b \in PayloadByte
  PROVE  DecodeStep(At(p, <<>>), b) =
            IF b = "%" THEN At(p, <<"%">>) ELSE At(Append(p, b), <<>>)
<1> DEFINE r == Read(p)
           st == [path |-> r, esc |-> <<>>]
           q == Append(r, CharFrom(b))
           e == <<b>>
<1>1. st.esc = <<>> /\ st.path = r
  OBVIOUS
<1>2. [st EXCEPT !.esc = e] = [path |-> r, esc |-> e]
  OBVIOUS
<1>3. [st EXCEPT !.path = q] = [path |-> q, esc |-> <<>>]
  <2> HIDE DEF q
  <2> QED OBVIOUS
<1>4. DecodeStep(st, b) = IF b = "%" THEN [st EXCEPT !.esc = e]
                          ELSE [st EXCEPT !.path = q]
  BY <1>1 DEF DecodeStep
<1>5. q = Read(Append(p, b))
  BY ReadAppend DEF PathByte
<1> HIDE DEF st, q
<1>6. DecodeStep(st, b) = IF b = "%" THEN [path |-> r, esc |-> e]
                          ELSE [path |-> q, esc |-> <<>>]
  BY <1>2, <1>3, <1>4
<1> QED BY <1>5, <1>6 DEF st, At

LEMMA DecodeSecond ==
  ASSUME NEW p, NEW b \in PayloadByte, NEW c
  PROVE  DecodeStep(At(p, <<c>>), b) = At(p, <<c, b>>)
<1> DEFINE r == Read(p)
<1>1. <<c>> # <<>> /\ Len(<<c>>) = 1 /\ Append(<<c>>, b) = <<c, b>>
  <2> DEFINE X == {c, b}
  <2>1. c \in X /\ b \in X /\ <<c>> \in Seq(X)
    OBVIOUS
  <2>2. <<c>> # <<>> /\ Len(<<c>>) = 1
    OBVIOUS
  <2>3. /\ Append(<<c>>, b) \in Seq(X) /\ Len(Append(<<c>>, b)) = 2
        /\ Append(<<c>>, b)[1] = c /\ Append(<<c>>, b)[2] = b
    <3> DEFINE w == <<c>>
    <3>1. w \in Seq(X) /\ Len(w) = 1 /\ w[1] = c
      OBVIOUS
    <3> HIDE DEF w, X
    <3> QED BY <2>1, <3>1, AppendProperties DEF w
  <2> DEFINE u == Append(<<c>>, b)
             v == <<c, b>>
  <2>4. v \in Seq(X) /\ Len(v) = 2 /\ v[1] = c /\ v[2] = b
    OBVIOUS
  <2>5. u \in Seq(X) /\ Len(u) = 2 /\ u[1] = c /\ u[2] = b
    BY <2>3
  <2> HIDE DEF X, u, v
  <2>6. u = v
    <3>1. \A i \in 1..2 : i = 1 \/ i = 2
      OBVIOUS
    <3>2. \A i \in 1..Len(u) : u[i] = v[i]
      BY <2>4, <2>5, <3>1
    <3> QED BY <2>4, <2>5, <3>2, SeqEqual
  <2> QED BY <2>2, <2>6 DEF u, v
<1> HIDE DEF r
<1>2. DecodeStep([path |-> r, esc |-> <<c>>], b) = [path |-> r, esc |-> <<c, b>>]
  BY <1>1 DEF DecodeStep
<1> QED BY <1>2 DEF At, r

LEMMA DecodeDigits ==
  ASSUME NEW p \in Seq(PathByte), NEW b \in PayloadByte, NEW c, NEW d,
         <<d, b>> \in DOMAIN HexValue
  PROVE  DecodeStep(At(p, <<c, d>>), b) = At(Append(p, HexValue[<<d, b>>]), <<>>)
<1> DEFINE r == Read(p)
           v == HexValue[<<d, b>>]
<1>1. <<c, d>> # <<>> /\ Len(<<c, d>>) # 1 /\ <<c, d>>[2] = d
  OBVIOUS
<1>2. Append(r, CharFrom(v)) = Read(Append(p, v))
  BY ReadAppend DEF PathByte
<1>3. DecodeStep([path |-> r, esc |-> <<c, d>>], b) =
         [esc |-> <<>>, path |-> Append(r, CharFrom(v))]
  <2> HIDE DEF r
  <2> QED BY <1>1 DEF DecodeStep
<1> HIDE DEF v
<1> QED BY <1>2, <1>3 DEF At, v

LEMMA DecodeStuck ==
  ASSUME NEW p, NEW b \in PayloadByte, NEW c, NEW d,
         <<d, b>> \notin DOMAIN HexValue
  PROVE  DecodeStep(At(p, <<c, d>>), b) = At(p, <<"%", "%">>)
<1> DEFINE r == Read(p)
<1>1. <<c, d>> # <<>> /\ Len(<<c, d>>) # 1 /\ <<c, d>>[2] = d
  OBVIOUS
<1> HIDE DEF r
<1>2. DecodeStep([path |-> r, esc |-> <<c, d>>], b) = [path |-> r, esc |-> <<"%", "%">>]
  BY <1>1 DEF DecodeStep
<1> QED BY <1>2 DEF At, r

LEMMA DecodeType ==
  ASSUME NEW st \in Decoding, NEW b \in PayloadByte
  PROVE  DecodeStep(st, b) \in Decoding
<1> DEFINE p == st.path
           e == st.esc
           M == PayloadByte \cup {"%"}
           c == CharFrom(b)
<1>1. p \in Seq(Char) /\ e \in Seq(M) /\ st = [path |-> p, esc |-> e]
  BY DEF Decoding
<1>2. c \in Char
  BY DEF Char, PathByte
<1>3. /\ Append(p, c) \in Seq(Char) /\ Append(e, b) \in Seq(M)
      /\ <<b>> \in Seq(M) /\ <<>> \in Seq(M) /\ <<"%", "%">> \in Seq(M)
  BY <1>1, <1>2
<1>4. ASSUME NEW h \in DOMAIN HexValue
      PROVE  Append(p, CharFrom(HexValue[h])) \in Seq(Char)
  <2>1. CharFrom(HexValue[h]) \in Char
    BY DEF Char, PathByte
  <2> QED BY <1>1, <2>1
<1> HIDE DEF M
<1> QED BY <1>1, <1>3, <1>4 DEF DecodeStep, Decoding, M

(* The recursive function of Decoded, step by step.                         *)
Steps(part, st) ==
    /\ st \in [0..Len(part) -> Decoding] /\ st[0] = Fresh
    /\ \A i \in 1..Len(part) : st[i] = DecodeStep(st[i - 1], part[i])

LEMMA DecodedIs ==
  ASSUME NEW part \in Seq(PayloadByte)
  PROVE  \E st : Steps(part, st) /\ Decoded(part) = st[Len(part)]
<1> DEFINE n == Len(part)
           Is(f) == f = [i \in 0..n |-> IF i = 0 THEN Fresh
                                              ELSE DecodeStep(f[i - 1], part[i])]
           step == [i \in 1..n |-> [x \in Decoding |-> DecodeStep(x, part[i])]]
           whole == CHOOSE f : Is(f)
<1>1. n \in Nat /\ \A i \in 1..n : part[i] \in PayloadByte
  BY LenProperties, ElementOfSeq
<1>2. Fresh \in Decoding
  BY DEF Fresh, Decoding
<1>3. step \in [1..n -> [Decoding -> Decoding]]
  <2>1. \A i \in 1..n : \A x \in Decoding : DecodeStep(x, part[i]) \in Decoding
    BY <1>1, DecodeType
  <2> HIDE DEF n
  <2> QED BY <2>1
<1>4. \A i \in 1..n : \A x \in Decoding : step[i][x] = DecodeStep(x, part[i])
  OBVIOUS
<1>5. Decoded(part) = whole[n]
  BY DEF Decoded, Fresh
<1> HIDE DEF n, step
<1>6. PICK g \in [0..n -> Decoding] :
         g[0] = Fresh /\ \A i \in 1..n : g[i] = step[i][g[i - 1]]
  <2> DEFINE base == Fresh
  <2>1. base \in Decoding
    BY <1>2
  <2> HIDE DEF base
  <2>2. n \in Nat
    BY <1>1
  <2>3. Stepwise(n, Decoding, base, step)
    BY <1>3, <2>1, <2>2, StepByStep
  <2> QED BY <2>3 DEF Stepwise, base
<1>7. ASSUME NEW i \in 1..n PROVE g[i] = DecodeStep(g[i - 1], part[i])
  <2>1. i - 1 \in 0..n
    BY <1>1
  <2>2. g[i - 1] \in Decoding
    BY <1>6, <2>1
  <2> QED BY <1>4, <1>6, <2>2
<1>8. Is(g)
  <2> DEFINE h == [i \in 0..n |-> IF i = 0 THEN Fresh ELSE DecodeStep(g[i - 1], part[i])]
  <2>1. ASSUME NEW i \in 0..n PROVE g[i] = h[i]
    <3>1. i = 0 \/ i \in 1..n
      BY <1>1
    <3>2. h[i] = IF i = 0 THEN Fresh ELSE DecodeStep(g[i - 1], part[i])
      OBVIOUS
    <3> HIDE DEF h
    <3> QED BY <1>1, <1>6, <1>7, <3>1, <3>2
  <2>2. g = h
    BY <1>6, <2>1
  <2> QED BY <2>2
<1>9. Is(whole)
  <2> HIDE DEF Is
  <2> QED BY <1>8
<1> HIDE DEF whole
<1>10. /\ whole[0] = Fresh
       /\ \A i \in 1..n : whole[i] = DecodeStep(whole[i - 1], part[i])
       /\ DOMAIN whole = 0..n
  <2>1. \A i \in 0..n : whole[i] = IF i = 0 THEN Fresh ELSE DecodeStep(whole[i - 1], part[i])
    BY <1>9
  <2>2. 0 \in 0..n /\ \A i \in 1..n : i \in 0..n /\ i # 0
    BY <1>1
  <2> QED BY <1>9, <2>1, <2>2
<1> DEFINE S == {i \in 0..n : whole[i] \in Decoding}
<1>11. \A i \in 0..n : i \in S
  <2>1. 0 \in S
    BY <1>1, <1>2, <1>10
  <2>2. ASSUME NEW i \in 0..(n - 1), i \in S PROVE i + 1 \in S
    <3>1. i + 1 \in 1..n /\ i + 1 \in 0..n /\ (i + 1) - 1 = i
      BY <1>1
    <3>2. whole[i + 1] = DecodeStep(whole[i], part[i + 1])
      BY <1>10, <3>1
    <3> QED BY <1>1, <2>2, <3>1, <3>2, DecodeType
  <2> HIDE DEF S
  <2> QED BY <1>1, <2>1, <2>2, CountUp, Zenon
<1>12. whole \in [0..n -> Decoding]
  BY <1>9, <1>11
<1> QED BY <1>5, <1>10, <1>12 DEF Steps, n

(* What is spelt decodes to its reading.                                    *)
LEMMA DecodesSpelt ==
  ASSUME NEW part \in Seq(PayloadByte), NEW path \in Seq(PathByte),
         Spells(part, Len(part), path)
  PROVE  Decoded(part) = At(path, <<>>)
<1> DEFINE n == Len(part)
           m == Len(path)
<1>1. PICK st : Steps(part, st) /\ Decoded(part) = st[n]
  BY DecodedIs
<1>2. PICK cut \in [0..m -> 0..n] :
        /\ cut[0] = 0 /\ cut[m] = n
        /\ \A i \in 1..m : Piece(part, cut[i - 1], cut[i], path[i])
  BY DEF Spells
<1>3. /\ n \in Nat /\ m \in Nat
      /\ \A i \in 1..n : part[i] \in PayloadByte
      /\ \A i \in 1..m : path[i] \in PathByte
  BY LenProperties, ElementOfSeq
<1> HIDE DEF n, m
<1> DEFINE Initial(i) == SubSeq(path, 1, i)
           S == {i \in 0..m : st[cut[i]] = At(Initial(i), <<>>)}
<1>4. 0 \in S
  <2>1. Initial(0) = <<>>
    OBVIOUS
  <2>2. st[0] = At(<<>>, <<>>) /\ cut[0] = 0
    BY <1>1, <1>2, FreshAt DEF Steps
  <2> HIDE DEF Initial
  <2>3. st[cut[0]] = At(Initial(0), <<>>)
    BY <2>1, <2>2
  <2> QED BY <1>3, <2>3
<1>5. ASSUME NEW i \in 0..(m - 1), i \in S PROVE i + 1 \in S
  <2> DEFINE a == cut[i]
             b == cut[i + 1]
             c == path[i + 1]
             p == Initial(i)
  <2>1. /\ i + 1 \in 1..m /\ i + 1 \in 0..m /\ i \in 0..m /\ (i + 1) - 1 = i
    BY <1>3
  <2>2. a \in 0..n /\ b \in 0..n /\ c \in PathByte /\ Piece(part, a, b, c)
    <3>1. Piece(part, cut[(i + 1) - 1], cut[i + 1], path[i + 1])
      BY <1>2, <2>1
    <3> QED BY <1>2, <1>3, <2>1, <3>1
  <2>3. p \in Seq(PathByte) /\ Append(p, c) = Initial(i + 1)
    <3>1. i <= Len(path) /\ i + 1 <= Len(path) /\ i \in Nat
      BY <1>3 DEF m
    <3> QED BY <3>1
  <2>4. st[a] = At(p, <<>>)
    BY <1>5
  <2> HIDE DEF a, b, c, p, Initial, S
  <2>5. \A j \in 1..n : st[j] = DecodeStep(st[j - 1], part[j])
    BY <1>1 DEF Steps, n
  <2>6. st[b] = At(Append(p, c), <<>>)
    <3>1. CASE b = a + 1 /\ part[b] = c /\ c # "%"
      <4>1. b \in 1..n /\ b - 1 = a /\ c \in PayloadByte
        BY <1>3, <2>2, <3>1
      <4>2. st[b] = DecodeStep(At(p, <<>>), c)
        BY <2>4, <2>5, <3>1, <4>1
      <4> QED BY <2>3, <3>1, <4>1, <4>2, DecodePlain
    <3>2. CASE /\ b = a + 3 /\ part[a + 1] = "%"
               /\ <<part[a + 2], part[b]>> \in DOMAIN HexValue
               /\ c = HexValue[<<part[a + 2], part[b]>>]
      <4>1. /\ a + 1 \in 1..n /\ a + 2 \in 1..n /\ b \in 1..n
            /\ (a + 1) - 1 = a /\ (a + 2) - 1 = a + 1 /\ b - 1 = a + 2
        BY <1>3, <2>2, <3>2
      <4> DEFINE h == part[a + 2]
                 l == part[b]
      <4>2. "%" \in PayloadByte /\ h \in PayloadByte /\ l \in PayloadByte
        BY <1>3, <3>2, <4>1
      <4>3. st[a + 1] = At(p, <<"%">>)
        <5>1. st[a + 1] = DecodeStep(At(p, <<>>), "%")
          BY <2>4, <2>5, <3>2, <4>1
        <5> QED BY <2>3, <4>2, <5>1, DecodePlain
      <4> HIDE DEF h, l
      <4>4. st[a + 2] = At(p, <<"%", h>>)
        <5>1. st[a + 2] = DecodeStep(At(p, <<"%">>), h)
          BY <2>5, <4>1, <4>3 DEF h
        <5> QED BY <4>2, <5>1, DecodeSecond
      <4>5. st[b] = DecodeStep(At(p, <<"%", h>>), l)
        BY <2>5, <4>1, <4>4 DEF l
      <4>6. <<h, l>> \in DOMAIN HexValue /\ c = HexValue[<<h, l>>]
        BY <3>2 DEF h, l
      <4>7. DecodeStep(At(p, <<"%", h>>), l) = At(Append(p, HexValue[<<h, l>>]), <<>>)
        BY <2>3, <4>2, <4>6, DecodeDigits
      <4> QED BY <4>5, <4>6, <4>7
    <3> QED BY <2>2, <3>1, <3>2 DEF Piece
  <2> QED BY <2>1, <2>3, <2>6 DEF S, b
<1> HIDE DEF S
<1>6. \A i \in 0..m : i \in S
  BY <1>3, <1>4, <1>5, CountUp, Zenon
<1>7. st[cut[m]] = At(Initial(m), <<>>)
  BY <1>3, <1>6 DEF S
<1>8. Initial(m) = path
  BY SubSeqFull DEF m
<1> HIDE DEF Initial
<1> QED BY <1>1, <1>2, <1>7, <1>8

LEMMA SpellsNothing == ASSUME NEW part PROVE Spells(part, 0, <<>>)
<1> DEFINE cut == [i \in 0..0 |-> 0]
<1>1. cut \in [0..0 -> 0..0] /\ cut[0] = 0 /\ Len(<<>>) = 0
  OBVIOUS
<1> HIDE DEF cut
<1> QED BY <1>1 DEF Spells

LEMMA SpellsMore ==
  ASSUME NEW part, NEW k \in Nat, NEW m \in Nat, NEW path \in Seq(PathByte),
         NEW c \in PathByte, Spells(part, k, path), Piece(part, k, m, c)
  PROVE  Spells(part, m, Append(path, c))
<1> DEFINE n == Len(path)
           q == Append(path, c)
<1>1. PICK cut \in [0..n -> 0..k] :
        /\ cut[0] = 0 /\ cut[n] = k
        /\ \A i \in 1..n : Piece(part, cut[i - 1], cut[i], path[i])
  BY DEF Spells
<1>2. /\ n \in Nat /\ Len(q) = n + 1 /\ q[n + 1] = c
      /\ \A i \in 1..n : q[i] = path[i]
  BY LenProperties, AppendProperties
<1>3. k < m
  BY DEF Piece
<1> HIDE DEF n, q
<1> DEFINE g == [i \in 0..(n + 1) |-> IF i = n + 1 THEN m ELSE cut[i]]
<1>4. g \in [0..(n + 1) -> 0..m]
  <2>1. ASSUME NEW i \in 0..(n + 1) PROVE (IF i = n + 1 THEN m ELSE cut[i]) \in 0..m
    <3>1. i = n + 1 \/ (i # n + 1 /\ i \in 0..n)
      BY <1>2
    <3> QED BY <1>1, <1>3, <3>1
  <2> QED BY <2>1
<1>5. g[n + 1] = m /\ \A i \in 0..n : g[i] = cut[i]
  <2>1. n + 1 \in 0..(n + 1) /\ \A i \in 0..n : i \in 0..(n + 1) /\ i # n + 1
    BY <1>2
  <2> QED BY <2>1
<1> HIDE DEF g
<1>6. g[0] = 0
  BY <1>1, <1>2, <1>5
<1>7. ASSUME NEW i \in 1..(n + 1) PROVE Piece(part, g[i - 1], g[i], q[i])
  <2>1. CASE i = n + 1
    <3>1. i - 1 = n /\ n \in 0..n
      BY <1>2, <2>1
    <3>2. g[i - 1] = k /\ g[i] = m /\ q[i] = c
      BY <1>1, <1>2, <1>5, <2>1, <3>1
    <3> QED BY <3>2
  <2>2. CASE i # n + 1
    <3>1. i \in 1..n /\ i \in 0..n /\ i - 1 \in 0..n
      BY <1>2, <2>2
    <3>2. g[i - 1] = cut[i - 1] /\ g[i] = cut[i] /\ q[i] = path[i]
      BY <1>2, <1>5, <3>1
    <3>3. Piece(part, cut[i - 1], cut[i], path[i])
      BY <1>1, <3>1
    <3> QED BY <3>2, <3>3
  <2> QED BY <2>1, <2>2
<1>8. /\ g \in [0..Len(q) -> 0..m] /\ g[0] = 0 /\ g[Len(q)] = m
      /\ \A i \in 1..Len(q) : Piece(part, g[i - 1], g[i], q[i])
  BY <1>2, <1>4, <1>5, <1>6, <1>7
<1>9. Spells(part, m, q)
  BY <1>8 DEF Spells
<1> QED BY <1>9 DEF q

(* How far the decoding of k bytes has come: between two bytes of a path,   *)
(* behind the % of an escape, behind its first digit, or stuck.             *)
ProgressAt(part, p, e, k) ==
    \/ e = <<>> /\ Spells(part, k, p)
    \/ e = <<"%">> /\ k >= 1 /\ part[k] = "%" /\ Spells(part, k - 1, p)
    \/ /\ e = <<"%", part[k]>> /\ k >= 2 /\ part[k - 1] = "%"
       /\ Spells(part, k - 2, p)
    \/ e = <<"%", "%">>

Progress(part, s, k) ==
    \E p \in Seq(PathByte) : \E e :
        s = At(p, e) /\ Len(p) <= k /\ ProgressAt(part, p, e, k)

LEMMA ProgressStep ==
  ASSUME NEW part \in Seq(PayloadByte), NEW k \in Nat, k + 1 <= Len(part),
         NEW s, Progress(part, s, k)
  PROVE  Progress(part, DecodeStep(s, part[k + 1]), k + 1)
<1> DEFINE b == part[k + 1]
           t == DecodeStep(s, b)
<1>0. PICK p \in Seq(PathByte) :
         \E e : s = At(p, e) /\ Len(p) <= k /\ ProgressAt(part, p, e, k)
  BY DEF Progress
<1>1. PICK e : s = At(p, e) /\ Len(p) <= k /\ ProgressAt(part, p, e, k)
  BY <1>0
<1>2. b \in PayloadByte /\ b \in PathByte
  <2>1. k + 1 \in 1..Len(part)
    BY LenProperties
  <2> QED BY <2>1, ElementOfSeq DEF PathByte
<1>3. Len(p) \in Nat /\ Len(p) <= k + 1
  BY <1>1, LenProperties
<1>4. ASSUME NEW c \in PathByte
      PROVE  Append(p, c) \in Seq(PathByte) /\ Len(Append(p, c)) <= k + 1
  BY <1>1, <1>3, AppendProperties
<1>5. ASSUME NEW q \in Seq(PathByte), NEW f, t = At(q, f), Len(q) <= k + 1,
             ProgressAt(part, q, f, k + 1)
      PROVE  Progress(part, t, k + 1)
  <2> HIDE DEF t
  <2> QED BY <1>5 DEF Progress
<1> HIDE DEF b
<1>6. ASSUME e = <<>> /\ Spells(part, k, p)
      PROVE  Progress(part, t, k + 1)
  <2>1. t = IF b = "%" THEN At(p, <<"%">>) ELSE At(Append(p, b), <<>>)
    BY <1>1, <1>2, <1>6, DecodePlain
  <2> HIDE DEF t
  <2>2. ASSUME b = "%" PROVE Progress(part, t, k + 1)
    <3>1. ProgressAt(part, p, <<"%">>, k + 1)
      BY <1>6, <2>2 DEF ProgressAt, b
    <3> QED BY <1>3, <1>5, <2>1, <2>2, <3>1
  <2>3. ASSUME b # "%" PROVE Progress(part, t, k + 1)
    <3>1. Piece(part, k, k + 1, b)
      BY <2>3 DEF Piece, b
    <3>2. Spells(part, k + 1, Append(p, b))
      BY <1>1, <1>2, <1>6, <3>1, SpellsMore
    <3>3. ProgressAt(part, Append(p, b), <<>>, k + 1)
      BY <3>2 DEF ProgressAt
    <3> QED BY <1>2, <1>4, <1>5, <2>1, <2>3, <3>3
  <2> QED BY <2>2, <2>3
<1>7. ASSUME e = <<"%">> /\ k >= 1 /\ part[k] = "%" /\ Spells(part, k - 1, p)
      PROVE  Progress(part, t, k + 1)
  <2>1. t = At(p, <<"%", b>>)
    BY <1>1, <1>2, <1>7, DecodeSecond
  <2> HIDE DEF t
  <2>2. ProgressAt(part, p, <<"%", b>>, k + 1)
    <3>1. k + 1 >= 2 /\ (k + 1) - 1 = k /\ (k + 1) - 2 = k - 1
      BY <1>7
    <3> QED BY <1>7, <3>1 DEF ProgressAt, b
  <2> QED BY <1>3, <1>5, <2>1, <2>2
<1>8. ASSUME NEW d, e = <<"%", d>>,
             \/ d = part[k] /\ k >= 2 /\ part[k - 1] = "%" /\ Spells(part, k - 2, p)
             \/ d = "%"
      PROVE  Progress(part, t, k + 1)
  <2> DEFINE v == HexValue[<<d, b>>]
  <2>1. ASSUME <<d, b>> \in DOMAIN HexValue PROVE Progress(part, t, k + 1)
    <3>1. v \in PathByte
      BY <2>1 DEF PathByte
    <3>2. t = At(Append(p, v), <<>>)
      BY <1>1, <1>2, <1>8, <2>1, DecodeDigits
    <3>3. d # "%"
      <4>1. <<d, b>>[1] # "%"
        BY <2>1, HexAssumption
      <4> QED BY <4>1
    <3>4. Piece(part, k - 2, k + 1, v) /\ k - 2 \in Nat /\ k + 1 \in Nat
      <4>1. /\ k + 1 = (k - 2) + 3 /\ (k - 2) + 1 = k - 1 /\ (k - 2) + 2 = k
            /\ k - 2 \in Nat
        BY <1>8, <3>3
      <4> QED BY <1>8, <2>1, <3>3, <4>1 DEF Piece, b
    <3> HIDE DEF t, v
    <3>5. Spells(part, k + 1, Append(p, v))
      BY <1>1, <1>8, <3>1, <3>3, <3>4, SpellsMore
    <3>6. ProgressAt(part, Append(p, v), <<>>, k + 1)
      BY <3>5 DEF ProgressAt
    <3> QED BY <1>4, <1>5, <3>1, <3>2, <3>6
  <2>2. ASSUME <<d, b>> \notin DOMAIN HexValue PROVE Progress(part, t, k + 1)
    <3>1. t = At(p, <<"%", "%">>)
      BY <1>1, <1>2, <1>8, <2>2, DecodeStuck
    <3> HIDE DEF t
    <3>2. ProgressAt(part, p, <<"%", "%">>, k + 1)
      BY DEF ProgressAt
    <3> QED BY <1>3, <1>5, <3>1, <3>2
  <2> QED BY <2>1, <2>2
<1>9. Progress(part, t, k + 1)
  <2> HIDE DEF t
  <2> QED BY <1>1, <1>6, <1>7, <1>8 DEF ProgressAt
<1> QED BY <1>9 DEF b

(* What decodes is the reading of what is spelt.                            *)
LEMMA SpeltDecodes ==
  ASSUME NEW part \in Seq(PayloadByte), Decoded(part).esc = <<>>
  PROVE  \E path \in Seq(PathByte) :
            /\ Decoded(part).path = Read(path) /\ Len(path) <= Len(part)
            /\ Spells(part, Len(part), path)
<1> DEFINE n == Len(part)
<1>1. PICK st : Steps(part, st) /\ Decoded(part) = st[n]
  BY DecodedIs
<1>2. n \in Nat
  BY LenProperties
<1> DEFINE S == {k \in 0..n : Progress(part, st[k], k)}
<1>3. 0 \in S
  <2>1. <<>> \in Seq(PathByte) /\ Len(<<>>) <= 0
    OBVIOUS
  <2>2. st[0] = At(<<>>, <<>>) /\ ProgressAt(part, <<>>, <<>>, 0)
    BY <1>1, FreshAt, SpellsNothing DEF Steps, ProgressAt
  <2>3. Progress(part, st[0], 0)
    BY <2>1, <2>2 DEF Progress
  <2> QED BY <1>2, <2>3
<1>4. ASSUME NEW k \in 0..(n - 1), k \in S PROVE k + 1 \in S
  <2>1. k \in Nat /\ k + 1 <= n /\ k + 1 \in 1..n /\ k + 1 \in 0..n /\ (k + 1) - 1 = k
    BY <1>2
  <2>2. st[k + 1] = DecodeStep(st[k], part[k + 1])
    BY <1>1, <2>1 DEF Steps
  <2>3. Progress(part, st[k], k)
    BY <1>4
  <2>4. Progress(part, DecodeStep(st[k], part[k + 1]), k + 1)
    BY <2>1, <2>3, ProgressStep
  <2> QED BY <2>1, <2>2, <2>4
<1> HIDE DEF S
<1>5. \A k \in 0..n : k \in S
  BY <1>2, <1>3, <1>4, CountUp, Zenon
<1>6. PICK p \in Seq(PathByte) :
         \E e : st[n] = At(p, e) /\ Len(p) <= n /\ ProgressAt(part, p, e, n)
  BY <1>2, <1>5 DEF S, Progress
<1>7. PICK e : st[n] = At(p, e) /\ Len(p) <= n /\ ProgressAt(part, p, e, n)
  BY <1>6
<1>8. (\A c : <<"%", c>> # <<>>) /\ <<"%">> # <<>>
  OBVIOUS
<1>9. Decoded(part).path = Read(p) /\ e = <<>>
  BY <1>1, <1>7 DEF At
<1>10. Spells(part, n, p)
  BY <1>7, <1>8, <1>9 DEF ProgressAt
<1> QED BY <1>7, <1>9, <1>10

(* The first slash of a URL.                                                *)
LEMMA FirstSlash ==
  ASSUME NEW url \in Seq(PayloadByte)
  PROVE  LET I == {i \in 1..Len(url) : url[i] = "/"}
             slash == SelectInSeq(url, LAMBDA b : b = "/")
         IN  \/ I = {} /\ slash = 0
             \/ slash \in I /\ \A i \in I : slash <= i
<1> DEFINE I == {i \in 1..Len(url) : url[i] = "/"}
           slash == SelectInSeq(url, LAMBDA b : b = "/")
<1>1. slash = IF I # {} THEN Min(I) ELSE 0
  BY DEF SelectInSeq
<1>2. Min(I) = CHOOSE x \in I : \A y \in I : x <= y
  BY DEF Min
<1>3. I \subseteq Nat
  BY LenProperties
<1> HIDE DEF I, slash
<1>4. ASSUME I # {} PROVE \E x \in I : \A y \in I : x <= y
  <2>1. PICK x \in I : \A y \in I : ~(<<y, x>> \in OpToRel(<, Nat))
    BY <1>3, <1>4, NatLessThanWellFounded, WFMin
  <2>2. \A y \in I : ~(y < x)
    BY <1>3, <2>1 DEF OpToRel
  <2>3. \A y \in I : x <= y
    BY <1>3, <2>2
  <2> QED BY <2>3
<1>5. (I = {} /\ slash = 0) \/ (slash \in I /\ \A i \in I : slash <= i)
  BY <1>1, <1>2, <1>4
<1> QED BY <1>5 DEF I, slash

(* The path of a URL begins where its host ends.                            *)
LEMMA BehindHost ==
  ASSUME NEW url \in Seq(PayloadByte), NEW n \in 0..Len(url), Host(url, n)
  PROVE  PathPart(url) = SubSeq(url, n + 1, Len(url))
<1>1. Len(url) \in Nat
  BY LenProperties
<1>2. CASE url # <<>> /\ url[1] = FilePrefix
  <2> DEFINE slash == SelectInSeq(url, LAMBDA b : b = "/")
  <2>1. /\ n \in 1..(Len(url) - 1) /\ url[n + 1] = "/"
        /\ \A i \in 1..n : url[i] # "/"
    BY <1>2 DEF Host
  <2>2. PathPart(url) = IF slash = 0 THEN <<>> ELSE SubSeq(url, slash, Len(url))
    BY <1>2 DEF PathPart
  <2>3. \/ /\ {i \in 1..Len(url) : url[i] = "/"} = {}
           /\ slash = 0
        \/ /\ slash \in 1..Len(url) /\ url[slash] = "/"
           /\ \A i \in 1..Len(url) : url[i] = "/" => slash <= i
    <3> HIDE DEF slash
    <3> QED BY FirstSlash DEF slash
  <2> HIDE DEF slash
  <2>4. n + 1 \in 1..Len(url)
    BY <1>1, <2>1
  <2>5. slash \in 1..Len(url) /\ url[slash] = "/" /\ slash <= n + 1
    BY <2>1, <2>3, <2>4
  <2>6. ~(slash <= n)
    BY <2>1, <2>5
  <2>7. slash = n + 1
    BY <1>1, <2>1, <2>5, <2>6
  <2> QED BY <2>2, <2>4, <2>7
<1>3. CASE ~(url # <<>> /\ url[1] = FilePrefix)
  <2>1. n = 0 /\ PathPart(url) = url
    BY <1>3 DEF Host, PathPart
  <2>2. SubSeq(url, 1, Len(url)) = url
    BY SubSeqFull
  <2> QED BY <2>1, <2>2
<1> QED BY <1>2, <1>3

LEMMA HostFound ==
  ASSUME NEW url \in Seq(PayloadByte), PathPart(url) # <<>>
  PROVE  \E n \in 0..Len(url) : Host(url, n)
<1>1. Len(url) \in Nat
  BY LenProperties
<1>2. CASE url # <<>> /\ url[1] = FilePrefix
  <2> DEFINE slash == SelectInSeq(url, LAMBDA b : b = "/")
  <2>1. slash # 0
    BY <1>2 DEF PathPart
  <2>2. \/ slash = 0
        \/ /\ slash \in 1..Len(url) /\ url[slash] = "/"
           /\ \A i \in 1..Len(url) : url[i] = "/" => slash <= i
    <3> HIDE DEF slash
    <3> QED BY FirstSlash DEF slash
  <2> HIDE DEF slash
  <2> DEFINE n == slash - 1
  <2>3. slash # 1
    BY <1>2, <2>1, <2>2 DEF FilePrefix
  <2>4. n \in 1..(Len(url) - 1) /\ n + 1 = slash /\ n \in 0..Len(url)
    BY <1>1, <2>1, <2>2, <2>3
  <2> HIDE DEF n
  <2>5. \A i \in 1..n : i \in 1..Len(url) /\ ~(slash <= i)
    BY <1>1, <2>4
  <2>6. Host(url, n)
    BY <1>2, <2>1, <2>2, <2>4, <2>5 DEF Host
  <2> QED BY <2>4, <2>6
<1>3. CASE ~(url # <<>> /\ url[1] = FilePrefix)
  <2>1. Host(url, 0) /\ 0 \in 0..Len(url)
    BY <1>1, <1>3 DEF Host
  <2> QED BY <2>1
<1> QED BY <1>2, <1>3

LEMMA PartIs ==
  ASSUME NEW url \in Seq(PayloadByte), NEW n \in 0..Len(url), Host(url, n)
  PROVE  /\ PathPart(url) = SubSeq(url, n + 1, Len(url))
         /\ PathPart(url) \in Seq(PayloadByte) /\ Len(PathPart(url)) = Len(url) - n
<1> DEFINE part == SubSeq(url, n + 1, Len(url))
<1>1. Len(url) \in Nat
  BY LenProperties
<1>2. CASE n = Len(url)
  <2>1. part = <<>>
    BY <1>1, <1>2
  <2> QED BY <1>1, <1>2, <2>1, BehindHost
<1>3. CASE n < Len(url)
  <2>1. part \in Seq(PayloadByte) /\ Len(part) = Len(url) - n
    BY <1>1, <1>3
  <2> QED BY <2>1, BehindHost
<1> QED BY <1>1, <1>2, <1>3

(* A URL that names a path is decoded to its reading.                       *)
LEMMA NamesDirectory ==
  ASSUME NEW url \in Seq(PayloadByte), NEW path \in Seq(PathByte), Names(url, path)
  PROVE  Directory(url) = <<Read(path)>>
<1>1. PICK n \in 0..Len(url) :
        Host(url, n) /\ Spells(SubSeq(url, n + 1, Len(url)), Len(url) - n, path)
  BY DEF Names
<1> DEFINE part == PathPart(url)
<1>2. part \in Seq(PayloadByte) /\ Spells(part, Len(part), path)
  BY <1>1, PartIs
<1> HIDE DEF part
<1>3. Decoded(part) = At(path, <<>>)
  BY <1>2, DecodesSpelt
<1>4. IsText(url) /\ path # <<>>
  BY DEF Names
<1>5. Read(path) # <<>>
  BY <1>4, ReadSeq, EmptySeq
<1>6. Decoded(PathPart(url)).path = Read(path) /\ Decoded(PathPart(url)).esc = <<>>
  BY <1>3 DEF part, At
<1> QED BY <1>4, <1>5, <1>6 DEF Directory

(* What a URL is decoded to is the reading of a path it names.              *)
LEMMA DirectoryNames ==
  ASSUME NEW url \in Seq(PayloadByte), Directory(url) # <<>>
  PROVE  \E path \in Seq(PathByte) :
            /\ Directory(url) = <<Read(path)>> /\ Names(url, path)
            /\ Len(path) <= Len(url)
<1> DEFINE part == PathPart(url)
           read == Decoded(part).path
<1>1. /\ IsText(url) /\ Decoded(part).esc = <<>> /\ read # <<>>
      /\ Directory(url) = <<read>>
  BY DEF Directory
<1>2. ASSUME NEW path \in Seq(PathByte), read = Read(path)
      PROVE  path # <<>> /\ Len(path) \in Nat \ {0}
  <2>1. path # <<>>
    <3>1. ASSUME path = <<>> PROVE FALSE
      <4>1. Read(path) \in Seq(Char) /\ Len(Read(path)) = 0
        BY <3>1, ReadSeq
      <4>2. Read(path) = <<>>
        BY <4>1, EmptySeq
      <4> QED BY <1>1, <1>2, <4>2
    <3> QED BY <3>1
  <2> QED BY <2>1, LenProperties, EmptySeq
<1>3. part # <<>>
  <2>1. ASSUME part = <<>> PROVE FALSE
    <3>1. <<>> \in Seq(PayloadByte) /\ Len(<<>>) = 0
      OBVIOUS
    <3> HIDE DEF part
    <3>2. PICK path \in Seq(PathByte) : read = Read(path) /\ Len(path) <= 0
      BY <1>1, <2>1, <3>1, SpeltDecodes
    <3> HIDE DEF read
    <3> QED BY <1>2, <3>2
  <2> QED BY <2>1
<1>4. PICK n \in 0..Len(url) : Host(url, n)
  BY <1>3, HostFound
<1>5. /\ part = SubSeq(url, n + 1, Len(url))
      /\ part \in Seq(PayloadByte) /\ Len(part) = Len(url) - n
  BY <1>4, PartIs
<1> HIDE DEF part
<1>6. PICK path \in Seq(PathByte) :
         /\ read = Read(path) /\ Len(path) <= Len(part)
         /\ Spells(part, Len(part), path)
  BY <1>1, <1>5, SpeltDecodes
<1> HIDE DEF read
<1>7. Names(url, path)
  BY <1>1, <1>2, <1>4, <1>5, <1>6 DEF Names
<1>8. Len(path) \in Nat /\ Len(url) \in Nat
  BY <1>6, LenProperties
<1>9. Len(path) <= Len(url)
  BY <1>4, <1>5, <1>6, <1>8
<1> QED BY <1>1, <1>6, <1>7, <1>9

(* Every URL is decoded to the path it names, if it names one, read one     *)
(* character for each byte, and to nothing otherwise: without a path, not   *)
(* text, or with an escape that is cut short or no pair of hex digits       *)
(* (term.rs:213-241).                                                       *)
THEOREM DecodesExactly ==
  ASSUME NEW url \in Seq(PayloadByte)
  PROVE  /\ \A path \in Seq(PathByte) :
                Directory(url) = <<Read(path)>> <=> Names(url, path)
         /\ Directory(url) = <<>> <=> \A path \in Seq(PathByte) : ~Names(url, path)
<1>1. ASSUME NEW path \in Seq(PathByte), Directory(url) = <<Read(path)>>
      PROVE  Names(url, path)
  <2>1. <<Read(path)>> # <<>> /\ \A q : <<Read(path)>> = <<q>> => Read(path) = q
    OBVIOUS
  <2>2. PICK q \in Seq(PathByte) : Directory(url) = <<Read(q)>> /\ Names(url, q)
    BY <1>1, <2>1, DirectoryNames
  <2>3. Read(path) = Read(q)
    BY <1>1, <2>1, <2>2
  <2> QED BY <2>2, <2>3, ReadInjective
<1>2. ASSUME NEW path \in Seq(PathByte), Names(url, path)
      PROVE  Directory(url) = <<Read(path)>> /\ Directory(url) # <<>>
  <2>1. <<Read(path)>> # <<>>
    OBVIOUS
  <2>2. Directory(url) = <<Read(path)>>
    BY <1>2, NamesDirectory
  <2> QED BY <2>1, <2>2
<1>3. ASSUME Directory(url) # <<>> PROVE \E path \in Seq(PathByte) : Names(url, path)
  BY <1>3, DirectoryNames
<1> QED BY <1>1, <1>2, <1>3

(* The name reported is the directory's own exactly if all of it is ASCII:  *)
(* char::from makes another character of each byte of any other one         *)
(* (term.rs:231, 233).                                                      *)
THEOREM AsciiOnly ==
  ASSUME NEW url \in Seq(PayloadByte), NEW path \in Seq(PathByte),
         Names(url, path)
  PROVE  Directory(url) = <<path>> <=>
            \A i \in 1..Len(path) : path[i] \notin DOMAIN Latin1
<1>1. Directory(url) = <<Read(path)>>
  BY NamesDirectory
<1>2. DOMAIN path = 1..Len(path) /\ DOMAIN Read(path) = 1..Len(path)
  BY LenProperties DEF Read
<1>3. \A i \in 1..Len(path) : Read(path)[i] = CharFrom(path[i])
  BY <1>2 DEF Read
<1>4. ASSUME \A i \in 1..Len(path) : path[i] \notin DOMAIN Latin1
      PROVE  Read(path) = path
  <2>1. \A i \in DOMAIN path : CharFrom(path[i]) = path[i]
    BY <1>2, <1>4 DEF CharFrom
  <2>2. path = [i \in DOMAIN path |-> path[i]]
    OBVIOUS
  <2> QED BY <2>1, <2>2 DEF Read
<1>5. ASSUME Read(path) = path, NEW i \in 1..Len(path) PROVE path[i] \notin DOMAIN Latin1
  BY <1>3, <1>5, LatinAssumption DEF CharFrom
<1>6. <<Read(path)>> = <<path>> <=> Read(path) = path
  OBVIOUS
<1> QED BY <1>1, <1>4, <1>5, <1>6

(* The payloads of the constants, as far as they are kept, report what they *)
(* are sent for.                                                            *)
LEMMA DirectoryKept ==
  ASSUME NEW d \in Directories
  PROVE  Dispatched(Kept(<<CwdPrefix>> \o d.url)) = <<Read(d.path)>>
<1> DEFINE p == <<CwdPrefix>> \o d.url
<1>1. /\ d.url \in Seq(PayloadByte) /\ d.path \in Seq(PathByte)
      /\ Names(d.url, d.path) /\ Len(d.url) < OSC_PAYLOAD_CAP
  BY StreamAssumption, PayloadsAssumption
<1>2. CwdPrefix \in PayloadByte
  BY BytesAssumption DEF PayloadByte, CwdPrefix, Esc, Bel
<1>3. /\ p \in Seq(PayloadByte) /\ Len(p) = 1 + Len(d.url) /\ p # <<>>
      /\ p[1] = CwdPrefix /\ Tail(p) = d.url
  <2> DEFINE s == <<CwdPrefix>>
  <2>1. s \in Seq(PayloadByte) /\ s # <<>> /\ Len(s) = 1 /\ Head(s) = CwdPrefix
        /\ Tail(s) = <<>>
    BY <1>2
  <2> HIDE DEF s
  <2>2. /\ s \o d.url \in Seq(PayloadByte) /\ s \o d.url # <<>>
        /\ Head(s \o d.url) = CwdPrefix /\ Tail(s \o d.url) = <<>> \o d.url
        /\ Len(s \o d.url) = 1 + Len(d.url)
    BY <1>1, <2>1, HeadOfConcat, ConcatProperties
  <2>3. <<>> \o d.url = d.url
    BY <1>1, ConcatEmptySeq
  <2>4. Head(s \o d.url) = (s \o d.url)[1]
    BY <2>2
  <2> QED BY <2>2, <2>3, <2>4 DEF s
<1> HIDE DEF p
<1>4. Kept(p) = p
  BY <1>1, <1>3, CapAssumption, LenProperties DEF Kept
<1>5. Directory(d.url) = <<Read(d.path)>>
  BY <1>1, NamesDirectory
<1>6. Dispatched(p) = Directory(Tail(p))
  BY <1>3 DEF Dispatched
<1>7. Dispatched(Kept(p)) = <<Read(d.path)>>
  BY <1>3, <1>4, <1>5, <1>6
<1> QED BY <1>7 DEF p

LEMMA NoiseKept ==
  ASSUME NEW p \in Noise
  PROVE  Dispatched(Kept(p)) = <<>>
<1> DEFINE k == Kept(p)
<1>1. p \in Seq(PayloadByte) /\ Silent(k)
  BY StreamAssumption, PayloadsAssumption
<1>2. k \in Seq(PayloadByte)
  <2>1. Len(p) \in Nat
    BY LenProperties, <1>1
  <2> QED BY <1>1, <2>1, CapAssumption DEF Kept
<1> HIDE DEF k
<1>3. CASE k = <<>>
  BY <1>3 DEF Dispatched, k
<1>4. CASE k # <<>> /\ k[1] = CwdPrefix
  <2>1. \A n \in 0..(Len(k) - 1) : \A path \in [1..n -> PathByte] : ~Names(Tail(k), path)
    BY <1>1, <1>4 DEF Silent
  <2>2. Tail(k) \in Seq(PayloadByte) /\ Len(Tail(k)) = Len(k) - 1
    BY <1>2, <1>4, HeadTailProperties
  <2> DEFINE url == Tail(k)
  <2>3. ASSUME Directory(url) # <<>> PROVE FALSE
    <3> HIDE DEF url
    <3>1. url \in Seq(PayloadByte) /\ Len(url) = Len(k) - 1
      BY <2>2 DEF url
    <3>2. PICK path \in Seq(PathByte) : Names(url, path) /\ Len(path) <= Len(url)
      BY <2>3, <3>1, DirectoryNames
    <3> DEFINE n == Len(path)
    <3>3. n \in 0..(Len(k) - 1) /\ path \in [1..n -> PathByte]
      BY <3>1, <3>2, LenProperties
    <3> HIDE DEF n
    <3> QED BY <2>1, <3>2, <3>3 DEF url
  <2> QED BY <1>4, <2>3 DEF Dispatched, k
<1>5. CASE k # <<>> /\ k[1] # CwdPrefix
  <2>1. Len(k) \in Nat
    BY <1>2, LenProperties
  <2>2. ~(k[1] = Prompt /\ Len(k) > 1 /\ k[2] \in DOMAIN Marker)
    BY <1>1, <1>5, <2>1 DEF Silent
  <2> QED BY <1>5, <2>2 DEF Dispatched, k
<1> QED BY <1>3, <1>4, <1>5

-----------------------------------------------------------------------------
(* Steps. *)

(* What is reported of a sequence, piece by piece.                          *)
LEMMA ReportedSeq ==
  ASSUME NEW s \in Seq(SentEvents)
  PROVE  /\ Reported(s) \in Seq(Events) /\ Len(Reported(s)) = Len(s)
         /\ \A i \in 1..Len(s) : Reported(s)[i] = Read(s[i])
<1> DEFINE n == Len(s)
<1>1. n \in Nat /\ DOMAIN s = 1..n /\ \A i \in 1..n : s[i] \in SentEvents
  BY LenProperties, ElementOfSeq
<1> HIDE DEF n
<1>2. Reported(s) \in [1..n -> Events]
  BY <1>1 DEF Reported, Events
<1>3. Reported(s) \in Seq(Events)
  BY <1>1, <1>2
<1>4. Len(Reported(s)) = n
  BY <1>1, <1>2, LenProperties, <1>3
<1>5. \A i \in 1..n : Reported(s)[i] = Read(s[i])
  BY <1>1 DEF Reported
<1> QED BY <1>3, <1>4, <1>5 DEF n

LEMMA ReportedConcat ==
  ASSUME NEW s \in Seq(SentEvents), NEW t \in Seq(SentEvents)
  PROVE  Reported(s \o t) = Reported(s) \o Reported(t)
<1> DEFINE w == s \o t
           u == Reported(w)
           a == Reported(s)
           b == Reported(t)
           v == a \o b
<1>1. /\ w \in Seq(SentEvents) /\ Len(w) = Len(s) + Len(t)
      /\ Len(s) \in Nat /\ Len(t) \in Nat
      /\ \A i \in 1..Len(w) : w[i] = IF i <= Len(s) THEN s[i] ELSE t[i - Len(s)]
  BY ConcatProperties, LenProperties
<1>2. /\ a \in Seq(Events) /\ Len(a) = Len(s)
      /\ \A i \in 1..Len(s) : a[i] = Read(s[i])
      /\ b \in Seq(Events) /\ Len(b) = Len(t)
      /\ \A i \in 1..Len(t) : b[i] = Read(t[i])
  BY ReportedSeq
<1> HIDE DEF w, a, b
<1>3. /\ u \in Seq(Events) /\ Len(u) = Len(w)
      /\ \A i \in 1..Len(w) : u[i] = Read(w[i])
  BY <1>1, ReportedSeq
<1>4. /\ v \in Seq(Events) /\ Len(v) = Len(a) + Len(b)
      /\ \A i \in 1..Len(v) : v[i] = IF i <= Len(a) THEN a[i] ELSE b[i - Len(a)]
  <2>1. a \in Seq(Events) /\ b \in Seq(Events)
    BY <1>2
  <2>2. /\ a \o b \in Seq(Events) /\ Len(a \o b) = Len(a) + Len(b)
        /\ \A i \in 1..(Len(a) + Len(b)) :
              (a \o b)[i] = IF i <= Len(a) THEN a[i] ELSE b[i - Len(a)]
    BY <2>1, ConcatProperties, Zenon
  <2> QED BY <2>2
<1> HIDE DEF u, v
<1>5. \A i \in 1..Len(u) : u[i] = v[i]
  <2>1. ASSUME NEW i \in 1..Len(u) PROVE u[i] = v[i]
    <3>1. i \in 1..Len(w) /\ i \in 1..Len(v)
      BY <1>1, <1>2, <1>3, <1>4
    <3>2. CASE i <= Len(s)
      <4>1. i \in 1..Len(s)
        BY <3>2
      <4> QED BY <1>1, <1>2, <1>3, <1>4, <3>1, <3>2, <4>1
    <3>3. CASE ~(i <= Len(s))
      <4>1. i - Len(s) \in 1..Len(t)
        BY <1>1, <3>1, <3>3
      <4> QED BY <1>1, <1>2, <1>3, <1>4, <3>1, <3>3, <4>1
    <3> QED BY <3>2, <3>3
  <2> QED BY <2>1
<1>6. u = v
  BY <1>1, <1>2, <1>3, <1>4, <1>5, SeqEqual
<1> QED BY <1>6 DEF u, v, w, a, b

LEMMA ReportedNone == Reported(<<>>) = <<>>
<1>1. <<>> \in Seq(SentEvents) /\ Len(<<>>) = 0
  OBVIOUS
<1>2. Reported(<<>>) \in Seq(Events) /\ Len(Reported(<<>>)) = 0
  BY <1>1, ReportedSeq
<1> QED BY <1>2, EmptySeq

LEMMA ReportedOne ==
  ASSUME NEW e \in SentEvents
  PROVE  Reported(<<e>>) = <<Read(e)>> /\ <<e>> \in Seq(SentEvents)
<1> DEFINE s == <<e>>
           u == Reported(s)
           r == Read(e)
           v == <<r>>
<1>1. s \in Seq(SentEvents) /\ Len(s) = 1 /\ s[1] = e
  OBVIOUS
<1>2. r \in Events
  BY DEF Events
<1> HIDE DEF s, r
<1>3. v \in Seq(Events) /\ Len(v) = 1 /\ v[1] = r
  BY <1>2
<1>4. u \in Seq(Events) /\ Len(u) = 1 /\ u[1] = r
  <2>1. 1 \in 1..Len(s)
    BY <1>1
  <2> QED BY <1>1, <2>1, ReportedSeq DEF r
<1> HIDE DEF u, v
<1>5. u = v
  <2>1. \A i \in 1..Len(u) : i = 1
    BY <1>4
  <2> QED BY <1>3, <1>4, <2>1, SeqEqual
<1> QED BY <1>1, <1>5 DEF u, v, s, r

(* A marker reads as itself.                                                *)
LEMMA MarkerRead ==
  ASSUME NEW l \in DOMAIN Marker
  PROVE  Read(Marker[l]) = Marker[l] /\ Marker[l] \in SentEvents
<1>1. DOMAIN Marker[l] = {1}
  BY DEF Marker
<1>2. CharFrom(Marker[l][1]) = Marker[l][1]
  BY LatinAssumption DEF CharFrom
<1>3. Marker[l] = [i \in {1} |-> Marker[l][i]]
  BY <1>1 DEF Marker
<1>4. Read(Marker[l]) = Marker[l]
  BY <1>1, <1>2, <1>3 DEF Read
<1> QED BY <1>4 DEF SentEvents

LEMMA OscInit == Init => OscInv
<1> SUFFICES ASSUME Init PROVE OscInv
  OBVIOUS
<1>1. <<>> \in Seq(PayloadByte) /\ <<>> \in Seq(Bytes) /\ <<>> \in Seq(Events)
      /\ <<>> \in Seq(SentEvents) /\ Len(<<>>) = 0
  OBVIOUS
<1>2. TypeOK
  BY <1>1, CapAssumption, UnitsAssumption DEF Init, TypeOK
<1> QED BY <1>1, <1>2, ReportedNone DEF Init, OscInv, OutTyped, Place,
       Between, Told

(* Between two units nothing is owed.                                       *)
LEMMA Idle == OscInv /\ stream = <<>> => Between
<1> SUFFICES ASSUME OscInv, stream = <<>> PROVE Between
  OBVIOUS
<1>1. ASSUME NEW opening \in {<<Esc, "]">>, <<"]">>, <<>>},
             NEW p \in Seq(PayloadByte), NEW end \in Ends
      PROVE  opening \o (p \o end) # <<>>
  BY DEF Ends
<1>2. /\ \A have : ~InUnit(<<Esc, "]">>, have) /\ ~InUnit(<<"]">>, have)
                   /\ ~InUnit(<<>>, have)
      /\ ~InMissed(<<>>) /\ ~InMissed(<<Esc, "]">>)
  BY <1>1 DEF InUnit, InMissed
<1>3. ~InText /\ ~InEscape /\ ~AfterEsc
  BY DEF InText, InEscape, AfterEsc
<1> QED BY <1>2, <1>3 DEF OscInv, Place, InBare, InSilence, InOsc

LEMMA Terminators ==
  /\ \A end \in Ends : end \in Seq(Bytes) /\ end # <<>>
  /\ Seq(PayloadByte) \subseteq Seq(Bytes)
  /\ <<Esc, "]">> \in Seq(Bytes) /\ <<"]">> \in Seq(Bytes)
<1>1. Esc \in Bytes /\ Bel \in Bytes /\ "]" \in Bytes /\ "\\" \in Bytes
  BY BytesAssumption
<1>2. <<Bel>> \in Seq(Bytes) /\ <<Esc, "\\">> \in Seq(Bytes)
      /\ <<Esc, "]">> \in Seq(Bytes) /\ <<"]">> \in Seq(Bytes)
  BY <1>1
<1>3. Seq(PayloadByte) \subseteq Seq(Bytes)
  BY SeqMonotonic DEF PayloadByte
<1> QED BY <1>2, <1>3 DEF Ends

(* A unit begins: what it reports is what the rest of it will add.          *)
LEMMA ReceiveTyped ==
  ASSUME OscInv, NEW bytes \in Seq(Bytes), NEW events \in Seq(SentEvents),
         NEW escs \in {"none", "odd", "even"}, Receive(bytes, events, escs)
  PROVE  /\ TypeOK' /\ OutTyped' /\ Between
         /\ Told' = out' \o Reported(events)
         /\ state' = state /\ stream' = bytes /\ bare' = escs
<1>1. TypeOK' /\ OutTyped'
  BY UnitsAssumption, ConcatProperties DEF OscInv, TypeOK, OutTyped, Receive
<1>2. Between
  BY Idle DEF Receive
<1>3. Told' = Reported(expected \o events)
  BY DEF Told, Receive
<1>4. Reported(expected \o events) = Told \o Reported(events)
  BY ReportedConcat DEF OscInv, OutTyped, Told
<1> QED BY <1>1, <1>2, <1>3, <1>4 DEF Between, Receive

LEMMA OscReceive ==
  ASSUME OscInv, NEW p \in Seq(PayloadByte), NEW events \in Seq(SentEvents),
         Dispatched(Kept(p)) = Reported(events), Osc(p, events)
  PROVE  OscInv'
<1> DEFINE opening == <<Esc, "]">>
<1>1. PICK end \in Ends : Receive(opening \o p \o end, Heard(events), "none")
  BY DEF Osc, Ends
<1>2. opening \in Seq(Bytes) /\ end \in Seq(Bytes) /\ p \in Seq(Bytes)
  BY Terminators
<1>3. /\ opening \o p \o end = opening \o (p \o end)
      /\ opening \o p \o end \in Seq(Bytes)
  BY <1>2, ConcatAssociative, ConcatProperties
<1>4. Heard(events) \in Seq(SentEvents)
  BY DEF Heard
<1>5. /\ TypeOK' /\ OutTyped' /\ Between
      /\ Told' = out' \o Reported(Heard(events))
      /\ state' = state /\ stream' = opening \o (p \o end) /\ bare' = "none"
  BY <1>1, <1>3, <1>4, ReceiveTyped
<1> HIDE DEF opening
<1>6. CASE bare = "odd"
  <2>1. Reported(Heard(events)) = <<>> /\ state' = "Esc"
    BY <1>5, <1>6, ReportedNone DEF Heard, Between
  <2>2. Told' = out'
    BY <1>5, <2>1, ConcatEmptySeq DEF OutTyped
  <2>3. Place'
    BY <1>5, <2>1, <2>2 DEF Place, InSilence, InMissed, opening
  <2> QED BY <1>5, <2>3 DEF OscInv
<1>7. CASE bare # "odd"
  <2>1. Heard(events) = events /\ state' = "Plain"
    BY <1>5, <1>7 DEF Heard, Between
  <2>2. <<>> \o p = p
    BY ConcatEmptySeq
  <2>3. Told' = out' \o Dispatched(Kept(<<>> \o p))
    BY <1>5, <2>1, <2>2
  <2>4. Place'
    BY <1>5, <2>1, <2>3 DEF Place, InOsc, InUnit, opening
  <2> QED BY <1>5, <2>4 DEF OscInv
<1> QED BY <1>6, <1>7

LEMMA OtherReceive ==
  ASSUME OscInv, Text \/ Escape \/ BareEscape
  PROVE  OscInv'
<1>1. ASSUME NEW bytes \in Seq(Bytes), NEW escs \in {"none", "odd", "even"},
             Receive(bytes, <<>>, escs)
      PROVE  /\ TypeOK' /\ OutTyped' /\ Told' = out' /\ Between
             /\ state' = state /\ stream' = bytes /\ bare' = escs
  <2>1. <<>> \in Seq(SentEvents)
    OBVIOUS
  <2>2. /\ TypeOK' /\ OutTyped' /\ Between /\ Told' = out' \o Reported(<<>>)
        /\ state' = state /\ stream' = bytes /\ bare' = escs
    BY <1>1, <2>1, ReceiveTyped
  <2> QED BY <2>2, ReportedNone, ConcatEmptySeq DEF OutTyped
<1>2. CASE Text
  <2>1. PICK b \in {Bel, "]", "\\", "x"} :
          bare = "none" /\ Receive(<<b>>, <<>>, "none")
    BY <1>2 DEF Text
  <2>2. b \in Bytes \ {Esc} /\ <<b>> \in Seq(Bytes)
    BY BytesAssumption DEF Esc, Bel
  <2>3. /\ TypeOK' /\ OutTyped' /\ Told' = out' /\ bare' = "none"
        /\ state' = "Plain" /\ stream' = <<b>>
    BY <1>1, <2>1, <2>2 DEF Between
  <2>4. Place'
    BY <2>2, <2>3 DEF Place, InSilence, InText
  <2> QED BY <2>3, <2>4 DEF OscInv
<1>3. CASE Escape
  <2>1. PICK u \in LoneEscapes : Receive(u, <<>>, "none")
    BY <1>3 DEF Escape
  <2>2. PICK b \in Bytes \ {"]", Esc} : u = <<Esc, b>>
    BY StreamAssumption
  <2>3. u \in Seq(Bytes)
    BY <2>2, BytesAssumption
  <2>4. /\ TypeOK' /\ OutTyped' /\ Told' = out' /\ bare' = "none"
        /\ state' \in {"Plain", "Esc"} /\ stream' = <<Esc, b>>
    BY <1>1, <2>1, <2>2, <2>3 DEF Between
  <2>5. Place'
    BY <2>2, <2>4 DEF Place, InSilence, InEscape
  <2> QED BY <2>4, <2>5 DEF OscInv
<1>4. CASE BareEscape
  <2> DEFINE escs == IF bare = "odd" THEN "even" ELSE "odd"
  <2>1. <<Esc>> \in Seq(Bytes) /\ escs \in {"none", "odd", "even"}
    BY BytesAssumption
  <2>2. Receive(<<Esc>>, <<>>, escs)
    BY <1>4 DEF BareEscape
  <2>3. /\ TypeOK' /\ OutTyped' /\ Told' = out' /\ Between
        /\ state' = state /\ stream' = <<Esc>> /\ bare' = escs
    <3> HIDE DEF escs
    <3> QED BY <1>1, <2>1, <2>2
  <2>4. Place'
    BY <2>3 DEF Place, InBare, Between
  <2> QED BY <2>3, <2>4 DEF OscInv
<1> QED BY <1>2, <1>3, <1>4

(* What a scan leaves alone, and the types it keeps.                        *)
LEMMA ScanTypes ==
  ASSUME OscInv, ScanByte
  PROVE  /\ UNCHANGED <<expected, bare, nUnits>> /\ Told' = Told
         /\ stream # <<>> /\ stream' = Tail(stream) /\ stream' \in Seq(Bytes)
<1>1. /\ stream # <<>> /\ stream' = Tail(stream)
      /\ UNCHANGED <<expected, bare, nUnits>>
  BY DEF ScanByte, ScanPlain, ScanEsc, ScanInOsc, ScanMaybeSt, Scan
<1>2. Told' = Told
  BY <1>1 DEF Told
<1> QED BY <1>1, <1>2, HeadTailProperties DEF OscInv, TypeOK

(* A byte of an OSC that is heard: what is found is what was owed.          *)
LEMMA ScanInUnit ==
  ASSUME OscInv, ScanByte, InOsc
  PROVE  /\ state' \in {"Plain", "Esc", "InOsc", "OscMaybeSt"}
         /\ payload' \in Seq(PayloadByte) /\ Len(payload') <= OSC_PAYLOAD_CAP
         /\ out' \in {out, Told} /\ Place'
<1> USE ScanTypes
<1> DEFINE b == Head(stream)
           Goal == /\ state' \in {"Plain", "Esc", "InOsc", "OscMaybeSt"}
                   /\ payload' \in Seq(PayloadByte)
                   /\ Len(payload') <= OSC_PAYLOAD_CAP
                   /\ out' \in {out, Told} /\ Place'
<1>0. /\ ScanPlain(b) \/ ScanEsc(b) \/ ScanInOsc(b) \/ ScanMaybeSt(b)
      /\ TypeOK /\ OutTyped /\ <<>> \in Seq(PayloadByte)
      /\ out \o <<>> = out /\ bare = "none" /\ bare' = "none"
  BY ConcatEmptySeq DEF ScanByte, OscInv, OutTyped, InOsc
<1> HIDE DEF b
<1>5. CASE state = "Plain" /\ InUnit(<<Esc, "]">>, <<>>)
  <2>1. PICK p \in Seq(PayloadByte), end \in Ends :
          /\ stream = <<Esc, "]">> \o (p \o end)
          /\ Told = out \o Dispatched(Kept(<<>> \o p))
    BY <1>5 DEF InUnit
  <2>2. p \o end \in Seq(Bytes)
    BY Terminators, ConcatProperties
  <2>3. b = Esc /\ Tail(stream) = <<"]">> \o (p \o end)
    BY <2>1, <2>2, Terminators, HeadOfConcat DEF b
  <2>4. ScanPlain(b)
    BY <1>0, <1>5 DEF ScanEsc, ScanInOsc, ScanMaybeSt, Scan
  <2>5. state' = "Esc" /\ payload' = payload /\ out' = out
    BY <1>0, <2>3, <2>4 DEF ScanPlain, Scan
  <2>6. Place'
    BY <1>0, <2>1, <2>3, <2>5
       DEF Place, Between, InOsc, InUnit
  <2> QED BY <1>0, <2>5, <2>6 DEF TypeOK
<1>6. CASE state = "Esc" /\ InUnit(<<"]">>, <<>>)
  <2>1. PICK p \in Seq(PayloadByte), end \in Ends :
          /\ stream = <<"]">> \o (p \o end)
          /\ Told = out \o Dispatched(Kept(<<>> \o p))
    BY <1>6 DEF InUnit
  <2>2. p \o end \in Seq(Bytes)
    BY Terminators, ConcatProperties
  <2>3. b = "]" /\ Tail(stream) = <<>> \o (p \o end)
    <3>1. /\ Head(stream) = Head(<<"]">>)
          /\ Tail(stream) = Tail(<<"]">>) \o (p \o end)
      BY <2>1, <2>2, Terminators, HeadOfConcat
    <3>2. Head(<<"]">>) = "]" /\ Tail(<<"]">>) = <<>>
      OBVIOUS
    <3> QED BY <3>1, <3>2 DEF b
  <2>4. ScanEsc(b)
    BY <1>0, <1>6 DEF ScanPlain, ScanInOsc, ScanMaybeSt, Scan
  <2>5. state' = "InOsc" /\ payload' = <<>> /\ out' = out
    BY <1>0, <2>3, <2>4 DEF ScanEsc, Scan
  <2>6. Place'
    BY <1>0, <2>1, <2>3, <2>5
       DEF Place, Between, InOsc, InUnit
  <2> QED BY <1>0, <2>5, <2>6, CapAssumption DEF TypeOK
<1>7. CASE state = "InOsc" /\ InUnit(<<>>, payload)
  <2>1. PICK p \in Seq(PayloadByte), end \in Ends :
          /\ stream = <<>> \o (p \o end)
          /\ Told = out \o Dispatched(Kept(payload \o p))
    BY <1>7 DEF InUnit
  <2>2. stream = p \o end /\ p \in Seq(Bytes) /\ end \in Seq(Bytes)
    BY <2>1, Terminators, ConcatProperties, ConcatEmptySeq
  <2>3. payload \in Seq(PayloadByte) /\ Len(payload) <= OSC_PAYLOAD_CAP
    BY <1>0 DEF TypeOK
  <2>4. ScanInOsc(b)
    BY <1>0, <1>7 DEF ScanPlain, ScanEsc, ScanMaybeSt, Scan
  <2>5. CASE p = <<>>
    <3>1. stream = end /\ Told = out \o Dispatched(payload)
      BY <2>1, <2>2, <2>3, <2>5, ConcatEmptySeq, KeptShort
    <3>2. CASE end = <<Bel>>
      <4>1. b = Bel /\ Tail(stream) = <<>>
        BY <3>1, <3>2 DEF b
      <4>2. state' = "Plain" /\ payload' = <<>> /\ out' = Told
        BY <2>4, <3>1, <4>1 DEF ScanInOsc, Scan, Esc, Bel
      <4>3. Place'
        BY <1>0, <4>1, <4>2
           DEF Place, Between, InOsc
      <4> QED BY <1>0, <4>2, <4>3, CapAssumption
    <3>3. CASE end = <<Esc, "\\">>
      <4>1. b = Esc /\ Tail(stream) = <<"\\">>
        BY <3>1, <3>3 DEF b
      <4>2. state' = "OscMaybeSt" /\ payload' = payload /\ out' = out
        BY <1>0, <2>4, <4>1 DEF ScanInOsc, Scan, Esc, Bel
      <4>3. Place'
        BY <1>0, <3>1, <4>1, <4>2
           DEF Place, Between, InOsc
      <4> QED BY <1>0, <2>3, <4>2, <4>3
    <3> QED BY <3>2, <3>3 DEF Ends
  <2>6. CASE p # <<>>
    <3>1. /\ b = Head(p) /\ Tail(stream) = Tail(p) \o end
          /\ Head(p) \in PayloadByte /\ Tail(p) \in Seq(PayloadByte)
      BY <2>2, <2>6, HeadOfConcat, HeadTailProperties DEF b
    <3> DEFINE more == IF Len(payload) < OSC_PAYLOAD_CAP
                       THEN Append(payload, Head(p)) ELSE payload
    <3>2. state' = "InOsc" /\ payload' = more /\ out' = out
      BY <1>0, <2>4, <3>1 DEF ScanInOsc, Scan, PayloadByte
    <3>3. /\ more \in Seq(PayloadByte) /\ Len(more) <= OSC_PAYLOAD_CAP
          /\ Kept(more \o Tail(p)) = Kept(payload \o p)
      BY <2>3, <2>6, KeptStep
    <3> HIDE DEF more
    <3>4. Tail(stream) = <<>> \o (Tail(p) \o end)
      BY <2>2, <3>1, Terminators, ConcatProperties, ConcatEmptySeq
    <3>5. Place'
      BY <1>0, <2>1, <3>1, <3>2, <3>3, <3>4
         DEF Place, Between, InOsc, InUnit
    <3> QED BY <1>0, <3>2, <3>3, <3>5
  <2> QED BY <2>5, <2>6
<1>8. CASE /\ state = "OscMaybeSt" /\ stream = <<"\\">>
           /\ Told = out \o Dispatched(payload)
  <2>1. b = "\\" /\ Tail(stream) = <<>>
    BY <1>8 DEF b
  <2>2. ScanMaybeSt(b)
    BY <1>0, <1>8 DEF ScanPlain, ScanEsc, ScanInOsc, Scan
  <2>3. state' = "Plain" /\ payload' = <<>> /\ out' = Told
    BY <1>8, <2>1, <2>2 DEF ScanMaybeSt, Scan
  <2>4. Place'
    BY <1>0, <2>1, <2>3
       DEF Place, Between, InOsc
  <2> QED BY <1>0, <2>3, <2>4, CapAssumption
<1> QED BY <1>5, <1>6, <1>7, <1>8 DEF InOsc

(* A byte of anything else: nothing is owed and nothing is found.           *)
LEMMA ScanInSilence ==
  ASSUME OscInv, ScanByte, InBare \/ InSilence
  PROVE  /\ state' \in {"Plain", "Esc"} /\ payload' = payload /\ out' = out
         /\ Place'
<1> USE ScanTypes
<1> DEFINE b == Head(stream)
<1>0. /\ ScanPlain(b) \/ ScanEsc(b) \/ ScanInOsc(b) \/ ScanMaybeSt(b)
      /\ out \o <<>> = out
  BY ConcatEmptySeq DEF ScanByte, OscInv, OutTyped
<1> HIDE DEF b
<1>1. ASSUME state = "Plain"
      PROVE  /\ state' = IF b = Esc THEN "Esc" ELSE "Plain"
             /\ payload' = payload /\ out' = out
  BY <1>0, <1>1 DEF ScanPlain, ScanEsc, ScanInOsc, ScanMaybeSt, Scan
<1>2. ASSUME state = "Esc", b # "]"
      PROVE  state' = "Plain" /\ payload' = payload /\ out' = out
  BY <1>0, <1>2 DEF ScanPlain, ScanEsc, ScanInOsc, ScanMaybeSt, Scan
<1>3. CASE InBare
  <2>1. b = Esc /\ Tail(stream) = <<>> /\ Esc # "]"
    BY <1>3 DEF InBare, b, Esc
  <2>2. CASE state = "Plain" /\ bare = "odd"
    <3>1. state' = "Esc" /\ payload' = payload /\ out' = out
      BY <1>1, <2>1, <2>2
    <3>2. Place'
      BY <1>3, <2>1, <2>2, <3>1 DEF Place, Between, InBare
    <3> QED BY <3>1, <3>2
  <2>3. CASE state = "Esc" /\ bare = "even"
    <3>1. state' = "Plain" /\ payload' = payload /\ out' = out
      BY <1>2, <2>1, <2>3
    <3>2. Place'
      BY <1>3, <2>1, <2>3, <3>1 DEF Place, Between, InBare
    <3> QED BY <3>1, <3>2
  <2> QED BY <1>3, <2>2, <2>3 DEF InBare
<1> DEFINE Quiet == bare = "none" /\ Told = out
<1>4. CASE Quiet /\ state = "Plain" /\ InText
  <2>1. b # Esc /\ Tail(stream) = <<>>
    BY <1>4 DEF InText, b
  <2>2. state' = "Plain" /\ payload' = payload /\ out' = out
    BY <1>1, <1>4, <2>1
  <2>3. Place'
    BY <1>4, <2>1, <2>2 DEF Place, Between
  <2> QED BY <2>2, <2>3
<1>5. CASE Quiet /\ state \in {"Plain", "Esc"} /\ InEscape
  <2>1. PICK c \in Bytes \ {"]", Esc} : stream = <<Esc, c>>
    BY <1>5 DEF InEscape
  <2>2. b = Esc /\ Tail(stream) = <<c>> /\ Esc # "]"
    BY <2>1 DEF b, Esc
  <2>3. CASE state = "Plain"
    <3>1. state' = "Esc" /\ payload' = payload /\ out' = out
      BY <1>1, <2>2, <2>3
    <3>2. Place'
      BY <1>5, <2>2, <3>1 DEF Place, InSilence, AfterEsc
    <3> QED BY <3>1, <3>2
  <2>4. CASE state = "Esc"
    <3>1. state' = "Plain" /\ payload' = payload /\ out' = out
      BY <1>2, <2>2, <2>4
    <3>2. Place'
      BY <1>5, <2>2, <3>1 DEF Place, InSilence, InText
    <3> QED BY <3>1, <3>2
  <2> QED BY <1>5, <2>3, <2>4
<1>6. CASE Quiet /\ state = "Esc" /\ AfterEsc
  <2>1. b # "]" /\ Tail(stream) = <<>>
    BY <1>6 DEF AfterEsc, b
  <2>2. state' = "Plain" /\ payload' = payload /\ out' = out
    BY <1>2, <1>6, <2>1
  <2>3. Place'
    BY <1>6, <2>1, <2>2 DEF Place, Between
  <2> QED BY <2>2, <2>3
<1>7. CASE Quiet /\ state = "Esc" /\ InMissed(<<Esc, "]">>)
  <2>1. PICK p \in Seq(PayloadByte), end \in Ends :
          stream = <<Esc, "]">> \o (p \o end)
    BY <1>7 DEF InMissed
  <2> DEFINE q == <<"]">> \o p
  <2>2. /\ p \in Seq(Bytes) /\ end \in Seq(Bytes) /\ p \o end \in Seq(Bytes)
        /\ "]" \in PayloadByte
    BY Terminators, ConcatProperties, BytesAssumption DEF PayloadByte, Esc, Bel
  <2>3. b = Esc /\ Tail(stream) = <<"]">> \o (p \o end) /\ Esc # "]"
    BY <2>1, <2>2, Terminators, HeadOfConcat DEF b, Esc
  <2>4. <<"]">> \o (p \o end) = q \o end
    BY <2>2, Terminators, ConcatAssociative
  <2>5. q \in Seq(PayloadByte) /\ q \o end \in Seq(Bytes)
    <3>1. <<"]">> \in Seq(PayloadByte)
      BY <2>2
    <3>2. q \in Seq(PayloadByte)
      BY <3>1, ConcatProperties
    <3> QED BY <2>2, <3>2, Terminators, ConcatProperties
  <2> HIDE DEF q
  <2>6. q \o end = <<>> \o (q \o end)
    BY <2>5, ConcatEmptySeq
  <2>7. state' = "Plain" /\ payload' = payload /\ out' = out
    BY <1>2, <1>7, <2>3
  <2>8. Place'
    BY <1>7, <2>3, <2>4, <2>5, <2>6, <2>7 DEF Place, InSilence, InMissed
  <2> QED BY <2>7, <2>8
<1>8. CASE Quiet /\ state = "Plain" /\ InMissed(<<>>)
  <2>1. PICK p \in Seq(PayloadByte), end \in Ends : stream = <<>> \o (p \o end)
    BY <1>8 DEF InMissed
  <2>2. stream = p \o end /\ p \in Seq(Bytes) /\ end \in Seq(Bytes)
    BY <2>1, Terminators, ConcatProperties, ConcatEmptySeq
  <2>3. CASE p = <<>>
    <3>1. stream = end
      BY <2>2, <2>3, ConcatEmptySeq
    <3>2. CASE end = <<Bel>>
      <4>1. b # Esc /\ Tail(stream) = <<>>
        BY <3>1, <3>2 DEF b, Esc, Bel
      <4>2. state' = "Plain" /\ payload' = payload /\ out' = out
        BY <1>1, <1>8, <4>1
      <4>3. Place'
        BY <1>8, <4>1, <4>2 DEF Place, Between
      <4> QED BY <4>2, <4>3
    <3>3. CASE end = <<Esc, "\\">>
      <4>1. b = Esc /\ Tail(stream) = <<"\\">> /\ "\\" \in Bytes \ {"]"}
        BY <3>1, <3>3, BytesAssumption DEF b
      <4>2. state' = "Esc" /\ payload' = payload /\ out' = out
        BY <1>1, <1>8, <4>1
      <4>3. Place'
        BY <1>8, <4>1, <4>2 DEF Place, InSilence, AfterEsc
      <4> QED BY <4>2, <4>3
    <3> QED BY <3>2, <3>3 DEF Ends
  <2>4. CASE p # <<>>
    <3>1. /\ b = Head(p) /\ Tail(stream) = Tail(p) \o end
          /\ Head(p) \in PayloadByte /\ Tail(p) \in Seq(PayloadByte)
      BY <2>2, <2>4, HeadOfConcat, HeadTailProperties DEF b
    <3>2. state' = "Plain" /\ payload' = payload /\ out' = out
      BY <1>1, <1>8, <3>1 DEF PayloadByte
    <3>3. Tail(stream) = <<>> \o (Tail(p) \o end)
      BY <2>2, <3>1, Terminators, ConcatProperties, ConcatEmptySeq
    <3>4. Place'
      BY <1>8, <3>1, <3>2, <3>3 DEF Place, InSilence, InMissed
    <3> QED BY <3>2, <3>4
  <2> QED BY <2>3, <2>4
<1> QED BY <1>3, <1>4, <1>5, <1>6, <1>7, <1>8 DEF InSilence

LEMMA OscScan == ASSUME OscInv, ScanByte PROVE OscInv'
<1>1. /\ TypeOK /\ OutTyped /\ Told \in Seq(Events)
      /\ UNCHANGED <<expected, bare, nUnits>> /\ stream' \in Seq(Bytes)
      /\ stream # <<>>
  BY ScanTypes, ReportedSeq DEF OscInv, OutTyped, Told
<1>2. ASSUME state' \in {"Plain", "Esc", "InOsc", "OscMaybeSt"},
             payload' \in Seq(PayloadByte), Len(payload') <= OSC_PAYLOAD_CAP,
             out' \in {out, Told}, Place'
      PROVE  OscInv'
  BY <1>1, <1>2 DEF OscInv, TypeOK, OutTyped
<1>3. CASE InOsc
  BY <1>2, <1>3, ScanInUnit
<1>4. CASE InBare \/ InSilence
  BY <1>1, <1>2, <1>4, ScanInSilence DEF TypeOK
<1> QED BY <1>1, <1>3, <1>4 DEF OscInv, Place, Between

LEMMA OscStep == OscInv /\ [Next]_vars => OscInv'
<1> SUFFICES ASSUME OscInv, [Next]_vars PROVE OscInv'
  OBVIOUS
<1>1. CASE Text \/ Escape \/ BareEscape
  BY <1>1, OtherReceive
<1>2. CASE OscMarker
  <2>1. PICK l \in DOMAIN Marker, rest \in Params :
          Osc(<<Prompt, l>> \o rest, <<Marker[l]>>)
    BY <1>2 DEF OscMarker
  <2>2. rest \in Seq(PayloadByte)
    BY StreamAssumption
  <2>3. /\ <<Marker[l]>> \in Seq(SentEvents)
        /\ Reported(<<Marker[l]>>) = <<Marker[l]>>
    BY MarkerRead, ReportedOne
  <2> QED BY <2>1, <2>2, <2>3, MarkerKept, OscReceive
<1>3. CASE OscDirectory
  <2>1. PICK d \in Directories : Osc(<<CwdPrefix>> \o d.url, <<d.path>>)
    BY <1>3 DEF OscDirectory
  <2>2. CwdPrefix \in PayloadByte
    BY BytesAssumption DEF PayloadByte, CwdPrefix, Esc, Bel
  <2>3. <<CwdPrefix>> \o d.url \in Seq(PayloadByte)
    BY <2>2, StreamAssumption, ConcatProperties
  <2>4. <<d.path>> \in Seq(SentEvents) /\ Reported(<<d.path>>) = <<Read(d.path)>>
    BY ReportedOne DEF SentEvents
  <2> QED BY <2>1, <2>3, <2>4, OscReceive, DirectoryKept
<1>4. CASE OscNoise
  <2>1. PICK p \in Noise : Osc(p, <<>>)
    BY <1>4 DEF OscNoise
  <2>2. p \in Seq(PayloadByte) /\ <<>> \in Seq(SentEvents)
    BY StreamAssumption
  <2>3. Dispatched(Kept(p)) = Reported(<<>>)
    BY NoiseKept, ReportedNone
  <2> QED BY <2>1, <2>2, <2>3, OscReceive
<1>5. CASE ScanByte
  BY <1>5, OscScan
<1>6. CASE UNCHANGED vars
  BY <1>6 DEF vars, OscInv, TypeOK, OutTyped, Place, Between, InBare,
     InSilence, InOsc, InText, InEscape, AfterEsc, InUnit, InMissed, Told
<1> QED BY <1>1, <1>2, <1>3, <1>4, <1>5, <1>6 DEF Next

LEMMA OscInductive == Spec => []OscInv
BY OscInit, OscStep, PTL DEF Spec

(* Types, and the bound of the payload (term.rs:150, 179).                  *)
THEOREM OscTypeCorrect == Spec => []TypeOK
<1>1. OscInv => TypeOK BY DEF OscInv
<1> QED BY <1>1, OscInductive, PTL

(* Between two units everything sent has been found, and nothing else, with *)
(* the two exceptions that Recognised names: an OSC behind a bare ESC is    *)
(* missed, and directories have the names char::from gives them             *)
(* (term.rs:133-241).                                                       *)
THEOREM FindsEvents == Spec => []Recognised
<1>1. OscInv => Recognised BY Idle DEF Recognised, Between, Told
<1> QED BY <1>1, OscInductive, PTL

-----------------------------------------------------------------------------
(* The scanner implements OscMarkers, as far as safety goes.                *)

LEMMA ReceiveRefines ==
  ASSUME NEW bytes, NEW e \in SentEvents, NEW escs,
         Receive(bytes, <<e>>, escs) \/ Receive(bytes, <<>>, escs), OutTyped
  PROVE  [Markers!Next]_(Markers!vars)
<1>1. CASE Receive(bytes, <<e>>, escs)
  <2>1. expected' = expected \o <<e>> /\ out' = out
    BY <1>1 DEF Receive
  <2>2. Told' = Told \o <<Read(e)>>
    BY <2>1, ReportedConcat, ReportedOne DEF OutTyped, Told
  <2>3. Told \in Seq(Events) /\ Read(e) \in Events
    BY ReportedSeq DEF OutTyped, Told, Events
  <2>4. Told' = Append(Told, Read(e))
    BY <2>2, <2>3, AppendIsConcat
  <2> QED BY <2>1, <2>3, <2>4 DEF Markers!Next, Markers!Send, Told
<1>2. CASE Receive(bytes, <<>>, escs)
  BY <1>2, ConcatEmptySeq DEF Receive, OutTyped, Markers!vars
<1> QED BY <1>1, <1>2

LEMMA OscRefines ==
  ASSUME NEW p, NEW e \in SentEvents, Osc(p, <<e>>), OutTyped
  PROVE  [Markers!Next]_(Markers!vars)
<1>1. PICK bytes : Receive(bytes, Heard(<<e>>), "none")
  BY DEF Osc
<1>2. Heard(<<e>>) = <<e>> \/ Heard(<<e>>) = <<>>
  BY DEF Heard
<1> QED BY <1>1, <1>2, ReceiveRefines

(* At most one event is owed.                                               *)
Owing == Told = out \/ \E e : Told = out \o <<e>>

LEMMA Owed == OscInv => Owing
<1>1. ASSUME OscInv, NEW q, Told = out \o Dispatched(q)
      PROVE  Owing
  BY <1>1, OneEvent, ConcatEmptySeq DEF OscInv, OutTyped, Owing
<1> QED BY <1>1 DEF OscInv, Place, Between, InBare, InSilence, InOsc, InUnit,
       Owing

LEMMA OwedNext == OscInv' => Owing'
BY Owed, PTL

(* A byte finds at most one event.                                          *)
LEMMA FindsOne ==
  ASSUME OscInv, ScanByte
  PROVE  out' = out \/ \E e : out' = out \o <<e>>
<1>1. out' = out \o <<>> \/ \E q : out' = out \o Dispatched(q)
  BY DEF ScanByte, ScanPlain, ScanEsc, ScanInOsc, ScanMaybeSt, Scan
<1> QED BY <1>1, OneEvent, ConcatEmptySeq DEF OscInv, OutTyped

(* An event found is the next of those sent.                                *)
LEMMA ScanRefines ==
  ASSUME OscInv, ScanByte
  PROVE  [Markers!Next]_(Markers!vars)
<1>1. OscInv'
  BY OscScan
<1>2. /\ Told' = Told /\ out \in Seq(Events) /\ out' \in Seq(Events)
      /\ Told \in Seq(Events)
  BY <1>1, ScanTypes, ReportedSeq DEF OscInv, OutTyped, Told
<1>3. CASE out' = out
  BY <1>2, <1>3 DEF Markers!vars, Told
<1>4. ASSUME NEW e, out' = out \o <<e>> PROVE Markers!Find
  <2>1. /\ Len(out') = Len(out) + 1 /\ out'[Len(out) + 1] = e
        /\ e \in Events /\ Len(out) \in Nat
    BY <1>2, <1>4
  <2>2. Told = out' \/ \E f : Told = out' \o <<f>>
    BY <1>1, <1>2, OwedNext DEF Owing
  <2>3. Len(out) < Len(Told) /\ Told[Len(out) + 1] = e
    <3>1. CASE Told = out'
      BY <2>1, <3>1
    <3>2. ASSUME NEW f, Told = out' \o <<f>>
          PROVE  Len(out) < Len(Told) /\ Told[Len(out) + 1] = e
      <4>1. /\ Len(Told) = Len(out') + 1
            /\ \A i \in 1..Len(out') : Told[i] = out'[i]
        BY <1>2, <3>2
      <4> QED BY <2>1, <4>1
    <3> QED BY <1>2, <2>2, <3>1, <3>2
  <2>4. out' = Append(out, e)
    BY <1>2, <1>4, <2>1, AppendIsConcat
  <2> QED BY <1>2, <2>3, <2>4 DEF Markers!Find, Told
<1> QED BY <1>3, <1>4, FindsOne DEF Markers!Next

LEMMA StepRefines ==
  ASSUME OscInv, [Next]_vars PROVE [Markers!Next]_(Markers!vars)
<1>1. OutTyped
  BY DEF OscInv
<1>2. CASE Text \/ Escape \/ BareEscape \/ OscNoise
  <2>1. PICK bytes, escs : Receive(bytes, <<>>, escs)
    BY <1>2 DEF Text, Escape, BareEscape, OscNoise, Osc, Heard
  <2>2. UNCHANGED Markers!vars
    BY <1>1, <2>1, ConcatEmptySeq DEF Receive, OutTyped, Markers!vars
  <2> QED BY <2>2
<1>3. CASE OscMarker
  BY <1>1, <1>3, OscRefines, MarkerRead DEF OscMarker
<1>4. CASE OscDirectory
  BY <1>1, <1>4, OscRefines DEF OscDirectory, SentEvents
<1>5. CASE ScanByte
  BY <1>5, ScanRefines
<1>6. CASE UNCHANGED vars
  BY <1>6 DEF vars, Markers!vars
<1> QED BY <1>2, <1>3, <1>4, <1>5, <1>6 DEF Next

(* No event is found before it is sent, out of turn or twice: the safety    *)
(* part of MarkersSpec (term.rs:133-210).                                   *)
THEOREM ImplementsMarkers ==
  Spec => Markers!Init /\ [][Markers!Next]_(Markers!vars)
<1>1. Init => Markers!Init
  BY ReportedNone DEF Init, Markers!Init
<1>2. OscInv /\ [Next]_vars => [Markers!Next]_(Markers!vars)
  BY StepRefines
<1> QED BY <1>1, <1>2, OscInductive, PTL DEF Spec
=============================================================================
