-------------------------- MODULE AppFollowedProofs --------------------------
(***************************************************************************)
(* Proofs about the client's shadow of the remote command line, for a user *)
(* who presses keys that App follows exactly and waits for the prompt, and *)
(* a shell with OSC 133 markers: the keys under way turn the shell's line  *)
(* into the shadow, so that ghost text and records are about the line the  *)
(* shell really has.  For every alphabet, width, delay and queue bound.    *)
(***************************************************************************)
EXTENDS AppProofs

LineNames == {"Char", "Backspace", "Left", "Right", "Home", "End", "Ctrl-A",
              "Ctrl-E", "Ctrl-K", "Ctrl-W"}
LeaveNames == {"Enter", "Ctrl-C"}

(* The user and the shell these results are about.                          *)
Followed ==
    /\ TypeAhead = FALSE
    /\ Markers = {TRUE}
    /\ \A k \in UserKeys : k.key \in LineNames \cup LeaveNames

(* A line and its cursor, as the halves before and after it.                *)
Split(line, i) == <<SubSeq(line, 1, i), SubSeq(line, i + 1, Len(line))>>

(* Key k takes the halves x to the halves y, at either end.                 *)
Reads(k, x, y) ==
    LET l == x[1]  r == x[2]
    IN  \/ k.key = "Char" /\ y = <<Append(l, k.char), r>>
        \/ k.key = "Backspace" /\ y = <<SubSeq(l, 1, Len(l) - 1), r>>
        \/ k.key = "Left" /\ l = <<>> /\ y = <<l, r>>
        \/ /\ k.key = "Left" /\ l # <<>>
           /\ y = <<SubSeq(l, 1, Len(l) - 1), <<Last(l)>> \o r>>
        \/ k.key = "Right" /\ r = <<>> /\ y = <<l, r>>
        \/ k.key = "Right" /\ r # <<>> /\ y = <<Append(l, Head(r)), Tail(r)>>
        \/ k.key \in {"Home", "Ctrl-A"} /\ y = <<<<>>, l \o r>>
        \/ k.key \in {"End", "Ctrl-E"} /\ y = <<l \o r, <<>>>>
        \/ k.key = "Ctrl-K" /\ y = <<l, <<>>>>
        \/ k.key = "Ctrl-W" /\ y = <<SubSeq(l, 1, WordStart(l, Len(l))), r>>

(* The keys of q, one after the other, take x to y.                         *)
Leads(q, x, y) ==
    \E s : /\ s[1] = x
           /\ \A i \in 1..Len(q) : Reads(q[i], s[i], s[i + 1])
           /\ s[Len(q) + 1] = y

-----------------------------------------------------------------------------
(* The invariant. *)

(* The screen once all output is applied.                                   *)
Latest == IF down = <<>> THEN screen ELSE down[Len(down)].scr

ScreenInv ==
    /\ mode # "fullscreen" => Latest = Screen(pos, FALSE)
    /\ mode = "fullscreen" => Latest.alt = TRUE

(* A command runs: no line, no prompt under way, and nothing to read but    *)
(* one key for a full-screen program.                                       *)
Away ==
    /\ mode \in {"command", "fullscreen"} /\ waiting = TRUE
    /\ entered = <<>> /\ left = <<>> /\ right = <<>>
    /\ \A i \in 1..Len(down) : down[i].prompt = FALSE
    /\ \/ up = <<>>
       \/ mode = "fullscreen" /\ Len(up) = 1 /\ Head(up).key # "Enter"

(* The prompt is printed, and the chunk that shows it is still under way.   *)
Prompting ==
    /\ mode = "prompt" /\ waiting = TRUE
    /\ entered = <<>> /\ left = <<>> /\ right = <<>> /\ up = <<>>
    /\ down # <<>>
    /\ \A i \in 1..(Len(down) - 1) : down[i].prompt = FALSE
    /\ LET c == down[Len(down)]
       IN  /\ c.prompt = TRUE
           /\ c.osc # <<>> /\ c.osc[Len(c.osc)] = "prompt_end"
    /\ pos[1] = base

(* The user edits a line: the keys under way take the shell's line to the   *)
(* shadow, or to the line entered if the last of them leaves the line.      *)
Editing ==
    /\ mode = "prompt"
    /\ \A i \in 1..Len(down) :
           down[i].osc = <<>> /\ down[i].nl = FALSE /\ down[i].prompt = FALSE
    /\ promptPos = <<base, pos[2]>>
    /\ pos[1] = base + Cols(left)
    /\ \/ /\ waiting = FALSE /\ entered = <<>>
          /\ Leads(up, <<left, right>>, Split(shadow, cursor))
       \/ /\ waiting = TRUE
          /\ \E q \in Seq(KeySet), k \in KeySet : \E x :
                /\ up = Append(q, k)
                /\ Leads(q, <<left, right>>, x)
                /\ \/ k.key = "Enter" /\ entered = <<x[1] \o x[2]>>
                   \/ k.key = "Ctrl-C" /\ entered = <<>>

FollowInv == ScreenInv /\ (Away \/ Prompting \/ Editing)

-----------------------------------------------------------------------------
(* Keys under way. *)

LEMMA LeadsNowhere == ASSUME NEW x PROVE Leads(<<>>, x, x)
<1> DEFINE s == [i \in 1..1 |-> x]
<1>1. s[1] = x /\ Len(<<>>) = 0
  OBVIOUS
<1> HIDE DEF s
<1>2. s[Len(<<>>) + 1] = x /\ \A i \in 1..Len(<<>>) : FALSE
  BY <1>1
<1> QED BY <1>1, <1>2 DEF Leads

LEMMA LeadsOn ==
  ASSUME NEW q \in Seq(KeySet), NEW k \in KeySet, NEW x, NEW y, NEW z,
         Leads(q, x, y), Reads(k, y, z)
  PROVE  Leads(Append(q, k), x, z)
<1>1. PICK s : /\ s[1] = x
               /\ \A i \in 1..Len(q) : Reads(q[i], s[i], s[i + 1])
               /\ s[Len(q) + 1] = y
  BY DEF Leads
<1> DEFINE n == Len(q)
           p == Append(q, k)
           t == [i \in 1..(n + 2) |-> IF i = n + 2 THEN z ELSE s[i]]
<1>2. /\ n \in Nat /\ Len(p) = n + 1 /\ p[n + 1] = k
      /\ \A i \in 1..n : p[i] = q[i]
  BY AppendProperties
<1>3. t[1] = x /\ t[n + 1] = y /\ t[n + 2] = z
  BY <1>1, <1>2
<1>4. \A i \in 1..n : t[i] = s[i] /\ t[i + 1] = s[i + 1]
  BY <1>2
<1> HIDE DEF n, p, t
<1>5. \A i \in 1..(n + 1) : Reads(p[i], t[i], t[i + 1])
  <2>1. ASSUME NEW i \in 1..n PROVE Reads(p[i], t[i], t[i + 1])
    BY <1>1, <1>2, <1>4 DEF n
  <2>2. Reads(p[n + 1], t[n + 1], t[(n + 1) + 1])
    <3>1. (n + 1) + 1 = n + 2
      BY <1>2
    <3> QED BY <1>2, <1>3, <3>1
  <2>3. \A i \in 1..(n + 1) : i \in 1..n \/ i = n + 1
    BY <1>2
  <2> QED BY <2>1, <2>2, <2>3
<1>6. t[Len(p) + 1] = z
  <2>1. Len(p) + 1 = n + 2
    BY <1>2
  <2> QED BY <1>3, <2>1
<1>7. Leads(p, x, z)
  BY <1>2, <1>3, <1>5, <1>6 DEF Leads
<1> QED BY <1>7 DEF p

LEMMA LeadsFirst ==
  ASSUME NEW q \in Seq(KeySet), q # <<>>, NEW x, NEW z, Leads(q, x, z)
  PROVE  \E y : Reads(Head(q), x, y) /\ Leads(Tail(q), y, z)
<1>1. PICK s : /\ s[1] = x
               /\ \A i \in 1..Len(q) : Reads(q[i], s[i], s[i + 1])
               /\ s[Len(q) + 1] = z
  BY DEF Leads
<1> DEFINE n == Len(q)
           p == Tail(q)
           t == [i \in 1..n |-> s[i + 1]]
<1>2. /\ n \in Nat \ {0} /\ Len(p) = n - 1 /\ Head(q) = q[1]
      /\ \A i \in 1..(n - 1) : p[i] = q[i + 1]
  BY HeadTailProperties, EmptySeq
<1>3. t[1] = s[2] /\ t[n] = z
  BY <1>1, <1>2
<1>4. \A i \in 1..(n - 1) : t[i] = s[i + 1] /\ t[i + 1] = s[(i + 1) + 1]
  BY <1>2
<1> HIDE DEF p, t
<1>5. \A i \in 1..(n - 1) : Reads(p[i], t[i], t[i + 1])
  <2>1. \A i \in 1..(n - 1) : i + 1 \in 1..n
    BY <1>2
  <2> QED BY <1>1, <1>2, <1>4, <2>1
<1>6. t[Len(p) + 1] = z
  <2>1. Len(p) + 1 = n
    BY <1>2
  <2> QED BY <1>3, <2>1
<1>7. Leads(p, s[2], z)
  BY <1>2, <1>3, <1>5, <1>6 DEF Leads
<1>8. Reads(q[1], x, s[2])
  <2>1. 1 \in 1..n /\ 1 + 1 = 2
    BY <1>2
  <2>2. Reads(q[1], s[1], s[1 + 1])
    BY <1>1, <2>1
  <2> QED BY <1>1, <2>1, <2>2
<1> QED BY <1>2, <1>7, <1>8 DEF p

(* Typing the characters of t at the end of a line.                         *)
LEMMA LeadsTyping ==
  ASSUME NEW q \in Seq(KeySet), NEW x, NEW l \in Seq(Chars), NEW r \in Seq(Chars),
         Leads(q, x, <<l, <<>>>>)
  PROVE  Leads(q \o [i \in DOMAIN r |-> Char(r[i])], x, <<l \o r, <<>>>>)
<1>1. PICK s : /\ s[1] = x
               /\ \A i \in 1..Len(q) : Reads(q[i], s[i], s[i + 1])
               /\ s[Len(q) + 1] = <<l, <<>>>>
  BY DEF Leads
<1> DEFINE n == Len(q)
           m == Len(r)
           typed == [i \in DOMAIN r |-> Char(r[i])]
           p == q \o typed
           part(j) == l \o SubSeq(r, 1, j)
           t == [i \in 1..(n + m + 1) |->
                    IF i <= n THEN s[i] ELSE <<part(i - (n + 1)), <<>>>>]
<1>2. n \in Nat /\ m \in Nat /\ DOMAIN r = 1..m
  OBVIOUS
<1>3. typed \in Seq(KeySet) /\ Len(typed) = m /\ \A i \in 1..m : typed[i] = Char(r[i])
  <2>1. \A i \in 1..m : Char(r[i]) \in KeySet
    BY <1>2 DEF KeySet
  <2> QED BY <1>2, <2>1
<1> HIDE DEF n, m, typed
<1>4. /\ Len(p) = n + m
      /\ \A i \in 1..(n + m) : p[i] = IF i <= n THEN q[i] ELSE typed[i - n]
  BY <1>3, ConcatProperties DEF n
<1>5. part(0) = l /\ part(m) = l \o r
  <2>1. SubSeq(r, 1, 0) = <<>> /\ SubSeq(r, 1, m) = r
    BY SubSeqFull DEF m
  <2> QED BY <2>1, ConcatEmptySeq
<1>6. ASSUME NEW j \in 1..m PROVE part(j) = Append(part(j - 1), r[j])
  <2> DEFINE a == SubSeq(r, 1, j - 1)
             b == <<r[j]>>
  <2>1. 1 \in 1..m /\ j \in 1..m /\ r[j] \in Chars
    BY <1>2, <1>6 DEF m
  <2>2. SubSeq(r, 1, j) = a \o b
    BY <1>2, <2>1, SubSeqRecursiveSecond DEF m
  <2>3. a \in Seq(Chars) /\ b \in Seq(Chars)
    BY <1>2, <2>1 DEF m
  <2>4. part(j) = l \o (a \o b) /\ part(j - 1) = l \o a
    BY <2>2
  <2> HIDE DEF a, part
  <2>5. part(j) = part(j - 1) \o b
    <3> HIDE DEF b
    <3>1. (l \o a) \o b = l \o (a \o b)
      BY <2>3, ConcatAssociative
    <3> QED BY <2>4, <3>1
  <2>6. part(j - 1) \in Seq(Chars)
    BY <2>3, <2>4, ConcatProperties
  <2> QED BY <2>1, <2>5, <2>6, AppendIsConcat
<1> HIDE DEF p, part
<1>7. \A i \in 1..n : t[i] = s[i] /\ t[i + 1] = s[i + 1]
  <2>1. ASSUME NEW i \in 1..n PROVE t[i] = s[i] /\ t[i + 1] = s[i + 1]
    <3>1. CASE i < n
      BY <1>2, <3>1
    <3>2. CASE i = n
      <4>1. t[i + 1] = <<part(0), <<>>>> /\ t[i] = s[i]
        BY <1>2, <3>2
      <4> QED BY <1>1, <1>5, <3>2, <4>1 DEF n
    <3> QED BY <1>2, <3>1, <3>2
  <2> QED BY <2>1
<1>8. \A j \in 0..m : t[n + j + 1] = <<part(j), <<>>>>
  BY <1>2
<1>9. t[1] = x
  <2>1. CASE n = 0
    <3>1. t[n + 0 + 1] = <<part(0), <<>>>>
      BY <1>2, <1>8
    <3> QED BY <1>1, <1>5, <2>1, <3>1 DEF n
  <2>2. CASE n > 0
    BY <1>1, <1>2, <2>2
  <2> QED BY <1>2, <2>1, <2>2
<1> HIDE DEF t
<1>10. \A i \in 1..(n + m) : Reads(p[i], t[i], t[i + 1])
  <2>1. ASSUME NEW i \in 1..n PROVE Reads(p[i], t[i], t[i + 1])
    <3>1. p[i] = q[i]
      BY <1>2, <1>4
    <3> QED BY <1>1, <1>7, <3>1 DEF n
  <2>2. ASSUME NEW j \in 1..m PROVE Reads(p[n + j], t[n + j], t[(n + j) + 1])
    <3>1. p[n + j] = Char(r[j])
      <4>1. n + j \in 1..(n + m) /\ ~(n + j <= n) /\ (n + j) - n = j
        BY <1>2
      <4>2. p[n + j] = typed[j]
        BY <1>4, <4>1
      <4> QED BY <1>3, <4>2
    <3>2. t[n + j] = <<part(j - 1), <<>>>> /\ t[(n + j) + 1] = <<part(j), <<>>>>
      <4>1. /\ j - 1 \in 0..m /\ j \in 0..m
            /\ n + (j - 1) + 1 = n + j /\ n + j + 1 = (n + j) + 1
        BY <1>2
      <4> QED BY <1>8, <4>1
    <3>3. part(j) = Append(part(j - 1), r[j])
      BY <1>6
    <3> QED BY <3>1, <3>2, <3>3 DEF Reads, Char
  <2>3. ASSUME NEW i \in 1..(n + m), i \notin 1..n PROVE i - n \in 1..m /\ n + (i - n) = i
    BY <1>2, <2>3
  <2> QED BY <2>1, <2>2, <2>3
<1>11. t[Len(p) + 1] = <<l \o r, <<>>>>
  <2>1. Len(p) + 1 = n + m + 1 /\ m \in 0..m
    BY <1>2, <1>4
  <2> QED BY <1>5, <1>8, <2>1
<1>12. Leads(p, x, <<l \o r, <<>>>>)
  BY <1>4, <1>9, <1>10, <1>11 DEF Leads
<1> QED BY <1>12 DEF p, typed
-----------------------------------------------------------------------------
(* A line and its halves. *)

LEMMA Halves ==
  ASSUME NEW line \in Seq(Chars), NEW i \in 0..Len(line)
  PROVE  \E a \in Seq(Chars), b \in Seq(Chars) :
            /\ a = SubSeq(line, 1, i) /\ b = SubSeq(line, i + 1, Len(line))
            /\ Split(line, i) = <<a, b>> /\ line = a \o b /\ Len(a) = i
<1> DEFINE a == SubSeq(line, 1, i)
           b == SubSeq(line, i + 1, Len(line))
<1>1. a \in Seq(Chars) /\ b \in Seq(Chars) /\ Len(a) = i
  OBVIOUS
<1>2. a \o b = line
  <2>1. Cut(line, i, i) = line
    BY CutType
  <2> QED BY <2>1 DEF Cut
<1>3. Split(line, i) = <<a, b>>
  BY DEF Split
<1> QED BY <1>1, <1>2, <1>3

LEMMA SplitJoin ==
  ASSUME NEW a \in Seq(Chars), NEW b \in Seq(Chars)
  PROVE  Split(a \o b, Len(a)) = <<a, b>>
<1> DEFINE line == a \o b
           i == Len(a)
<1>1. /\ line \in Seq(Chars) /\ Len(line) = i + Len(b) /\ i \in Nat /\ Len(b) \in Nat
      /\ \A k \in 1..(i + Len(b)) : line[k] = IF k <= i THEN a[k] ELSE b[k - i]
  BY Joined
<1> HIDE DEF line
<1>2. SubSeq(line, 1, i) = a
  <2> DEFINE c == SubSeq(line, 1, i)
  <2>1. c \in Seq(Chars) /\ Len(c) = i /\ \A k \in 1..i : c[k] = line[k]
    BY <1>1
  <2>2. \A k \in 1..i : c[k] = a[k]
    BY <1>1, <2>1
  <2> HIDE DEF c
  <2>3. c = a
    BY <2>1, <2>2, SeqEqual
  <2> QED BY <2>3 DEF c
<1>3. SubSeq(line, i + 1, Len(line)) = b
  <2> DEFINE d == SubSeq(line, i + 1, Len(line))
  <2>1. /\ d \in Seq(Chars) /\ Len(d) = Len(b)
        /\ \A k \in 1..Len(b) : d[k] = line[k + i]
    BY <1>1
  <2>2. ASSUME NEW k \in 1..Len(b) PROVE d[k] = b[k]
    <3>1. k + i \in 1..(i + Len(b)) /\ ~(k + i <= i) /\ (k + i) - i = k
      BY <1>1
    <3>2. line[k + i] = b[k]
      BY <1>1, <3>1
    <3> QED BY <2>1, <3>2
  <2> HIDE DEF d
  <2>3. d = b
    BY <2>1, <2>2, SeqEqual
  <2> QED BY <2>3 DEF d
<1>4. Split(line, i) = <<a, b>>
  BY <1>2, <1>3 DEF Split
<1> QED BY <1>4 DEF line

LEMMA Shorter ==
  ASSUME NEW line \in Seq(Chars), NEW i \in 0..Len(line), NEW j \in 0..i
  PROVE  /\ SubSeq(line, 1, j) \in Seq(Chars) /\ Len(SubSeq(line, 1, j)) = j
         /\ SubSeq(SubSeq(line, 1, i), 1, j) = SubSeq(line, 1, j)
<1> DEFINE a == SubSeq(line, 1, i)
           s == SubSeq(line, 1, j)
           t == SubSeq(a, 1, j)
<1>1. /\ a \in Seq(Chars) /\ Len(a) = i /\ i \in Nat /\ j \in Nat /\ j <= i
      /\ \A k \in 1..i : a[k] = line[k]
      /\ s \in Seq(Chars) /\ Len(s) = j /\ \A k \in 1..j : s[k] = line[k]
  OBVIOUS
<1> HIDE DEF a
<1>2. t \in Seq(Chars) /\ Len(t) = j /\ \A k \in 1..j : t[k] = a[k]
  BY <1>1
<1> HIDE DEF s, t
<1>3. s = t
  BY <1>1, <1>2, SeqEqual
<1> QED BY <1>1, <1>3 DEF a, s, t

(* A position with nothing of S behind it is the last.                      *)
LEMMA LastAtIs ==
  ASSUME NEW n \in Nat, NEW S, S \subseteq 1..n, NEW m \in 0..n,
         m > 0 => m \in S, \A k \in S : k <= m
  PROVE  LastAt(S) = m
<1>1. CASE m = 0
  <2>1. S = {}
    <3>1. \A k \in S : k \in 1..n /\ k <= 0
      BY <1>1
    <3>2. \A k \in S : FALSE
      BY <3>1
    <3> QED BY <3>2
  <2> QED BY <1>1, <2>1 DEF LastAt
<1>2. CASE m > 0
  <2>1. m \in S /\ m \in Int /\ \A k \in S : k \in Int /\ m >= k
    BY <1>2
  <2>2. \A x \in S : (\A y \in S : x >= y) => x = m
    BY <2>1
  <2>3. Max(S) = m
    BY <2>1, <2>2 DEF Max
  <2> QED BY <2>1, <2>3 DEF LastAt
<1> QED BY <1>1, <1>2

(* The word before the cursor is found in what is before the cursor.        *)
LEMMA WordBefore ==
  ASSUME NEW line \in Seq(Chars), NEW i \in 0..Len(line)
  PROVE  WordStart(line, i) = WordStart(SubSeq(line, 1, i), i)
<1> DEFINE a == SubSeq(line, 1, i)
           end == LastAt({k \in 1..i : line[k] # Blank})
<1>1. i \in Nat /\ \A k \in 1..i : a[k] = line[k]
  OBVIOUS
<1> HIDE DEF a
<1>2. {k \in 1..i : line[k] # Blank} = {k \in 1..i : a[k] # Blank}
  BY <1>1
<1>3. end \in 0..i
  <2>1. CASE {k \in 1..i : line[k] # Blank} = {}
    BY <1>1, <2>1 DEF LastAt
  <2>2. CASE {k \in 1..i : line[k] # Blank} # {}
    <3>1. {k \in 1..i : line[k] # Blank} \subseteq 0..i
      BY <1>1
    <3>2. Max({k \in 1..i : line[k] # Blank}) \in {k \in 1..i : line[k] # Blank}
      BY <1>1, <2>2, <3>1, MaxIn
    <3> QED BY <2>2, <3>1, <3>2 DEF LastAt
  <2> QED BY <2>1, <2>2
<1>4. WordStart(line, i) = LastAt({k \in 1..end : line[k] = Blank})
  BY DEF WordStart
<1>5. WordStart(a, i) = LastAt({k \in 1..end : a[k] = Blank})
  BY <1>2 DEF WordStart
<1> HIDE DEF end
<1>6. {k \in 1..end : line[k] = Blank} = {k \in 1..end : a[k] = Blank}
  <2>1. \A k \in 1..end : k \in 1..i
    BY <1>1, <1>3
  <2> QED BY <1>1, <2>1
<1> QED BY <1>4, <1>5, <1>6 DEF a

(* Readline's word: n characters, the last of them blanks.                  *)
LEMMA WordIs ==
  ASSUME NEW l \in Seq(Chars), NEW n \in 0..Len(l), NEW blanks \in 0..Len(l),
         blanks <= n,
         \A j \in (Len(l) - blanks + 1)..Len(l) : l[j] = Blank,
         blanks < Len(l) => l[Len(l) - blanks] # Blank,
         \A j \in (Len(l) - n + 1)..(Len(l) - blanks) : l[j] # Blank,
         n < Len(l) => l[Len(l) - n] = Blank
  PROVE  WordStart(l, Len(l)) = Len(l) - n
<1> DEFINE L == Len(l)
           S == {k \in 1..L : l[k] # Blank}
           end == L - blanks
           T == {k \in 1..end : l[k] = Blank}
<1>1. L \in Nat /\ end \in 0..L /\ L - n \in 0..end
  OBVIOUS
<1>2. LastAt(S) = end
  <2>1. end > 0 => end \in S
    BY <1>1
  <2>2. ASSUME NEW k \in S PROVE k <= end
    <3>1. CASE k > end
      <4>1. k \in (L - blanks + 1)..L
        BY <1>1, <3>1
      <4> QED BY <4>1
    <3>2. k > end \/ k <= end
      BY <1>1
    <3> QED BY <3>1, <3>2
  <2>3. S \subseteq 1..L
    OBVIOUS
  <2> HIDE DEF L, S, end
  <2> QED BY <1>1, <2>1, <2>2, <2>3, LastAtIs
<1>3. LastAt(T) = L - n
  <2>1. L - n > 0 => L - n \in T
    BY <1>1
  <2>2. ASSUME NEW k \in T PROVE k <= L - n
    <3>1. CASE k > L - n
      <4>1. k \in (L - n + 1)..(L - blanks)
        BY <1>1, <3>1
      <4> QED BY <4>1
    <3>2. k > L - n \/ k <= L - n
      BY <1>1
    <3> QED BY <3>1, <3>2
  <2>3. T \subseteq 1..end /\ end \in Nat
    BY <1>1
  <2> HIDE DEF L, T, end
  <2> QED BY <1>1, <2>1, <2>2, <2>3, LastAtIs
<1> QED BY <1>2, <1>3 DEF WordStart

-----------------------------------------------------------------------------
(* A key at the shell, and at the shadow. *)

(* Readline does what Reads says, and leaves it no choice.                  *)
LEMMA ReadlineReads ==
  ASSUME RemoteInv, NEW k \in KeySet, Readline(k),
         NEW y, Reads(k, <<left, right>>, y)
  PROVE  y = <<left', right'>>
<1>1. left \in Seq(Chars) /\ right \in Seq(Chars) /\ Len(left) \in Nat
  BY DEF RemoteInv
<1>2. CASE k.key = "Ctrl-W"
  <2>1. PICK n \in 0..Len(left), blanks \in 0..Len(left) :
          /\ blanks <= n
          /\ \A j \in (Len(left) - blanks + 1)..Len(left) : left[j] = Blank
          /\ blanks < Len(left) => left[Len(left) - blanks] # Blank
          /\ \A j \in (Len(left) - n + 1)..(Len(left) - blanks) : left[j] # Blank
          /\ n < Len(left) => left[Len(left) - n] = Blank
          /\ left' = SubSeq(left, 1, Len(left) - n) /\ right' = right
    BY <1>2 DEF Readline
  <2>2. WordStart(left, Len(left)) = Len(left) - n
    BY <1>1, <2>1, WordIs
  <2>3. y = <<SubSeq(left, 1, WordStart(left, Len(left))), right>>
    BY <1>2 DEF Reads
  <2> QED BY <2>1, <2>2, <2>3
<1>3. CASE k.key = "Char"
  BY <1>3 DEF Readline, Reads
<1>4. CASE k.key = "Backspace"
  BY <1>4 DEF Readline, Reads
<1>5. CASE k.key = "Left"
  <2>1. IF left = <<>> THEN left' = left /\ right' = right
        ELSE left' = SubSeq(left, 1, Len(left) - 1) /\ right' = <<Last(left)>> \o right
    BY <1>5 DEF Readline
  <2>2. IF left = <<>> THEN y = <<left, right>>
        ELSE y = <<SubSeq(left, 1, Len(left) - 1), <<Last(left)>> \o right>>
    BY <1>5 DEF Reads
  <2>3. CASE left = <<>>
    BY <2>1, <2>2, <2>3
  <2>4. CASE left # <<>>
    <3> DEFINE front == SubSeq(left, 1, Len(left) - 1)
               back == <<Last(left)>> \o right
    <3>1. left' = front /\ right' = back /\ y = <<front, back>>
      BY <2>1, <2>2, <2>4
    <3> HIDE DEF front, back
    <3> QED BY <3>1
  <2> QED BY <2>3, <2>4
<1>6. CASE k.key = "Right"
  BY <1>6 DEF Readline, Reads
<1>7. CASE k.key \in {"Home", "Ctrl-A"}
  BY <1>7 DEF Readline, Reads
<1>8. CASE k.key \in {"End", "Ctrl-E"}
  BY <1>8 DEF Readline, Reads
<1>9. CASE k.key = "Ctrl-K"
  BY <1>9 DEF Readline, Reads
<1> QED BY <1>2, <1>3, <1>4, <1>5, <1>6, <1>7, <1>8, <1>9 DEF Reads

(* What an editing key does to the shadow, it does to the shell's line.     *)
LEMMA EditReads ==
  ASSUME LineInv, NEW k \in UserKeys, Edit(k), k.key \in LineNames
  PROVE  Reads(k, Split(shadow, cursor), Split(shadow', cursor'))
<1>1. shadow \in Seq(Chars) /\ cursor \in 0..Len(shadow) /\ Len(shadow) \in Nat
  BY DEF LineInv
<1>2. PICK a \in Seq(Chars), b \in Seq(Chars) :
        /\ a = SubSeq(shadow, 1, cursor) /\ b = SubSeq(shadow, cursor + 1, Len(shadow))
        /\ Split(shadow, cursor) = <<a, b>> /\ shadow = a \o b /\ Len(a) = cursor
  BY <1>1, Halves
<1>3. <<>> \in Seq(Chars) /\ a \o b \in Seq(Chars) /\ <<>> \o (a \o b) = a \o b
      /\ (a \o b) \o <<>> = a \o b /\ a \o <<>> = a /\ Len(<<>>) = 0
  BY ConcatProperties, ConcatEmptySeq
<1>4. ASSUME NEW c \in Seq(Chars), NEW d \in Seq(Chars),
             shadow' = c \o d, cursor' = Len(c), Reads(k, <<a, b>>, <<c, d>>)
      PROVE  Reads(k, Split(shadow, cursor), Split(shadow', cursor'))
  BY <1>2, <1>4, SplitJoin
<1>5. CASE Insert(k)
  <2>1. k.key = "Char" /\ k.char \in Chars /\ cursor' = cursor + 1
        /\ shadow' = InsertAt(shadow, cursor + 1, k.char)
    BY <1>5, KeysAssumption DEF Insert, Becomes
  <2>2. (cursor + 1) - 1 = cursor
    BY <1>1
  <2>3. shadow' = (a \o <<k.char>>) \o b
    BY <1>2, <2>1, <2>2, Zenon DEF InsertAt
  <2>4. Append(a, k.char) = a \o <<k.char>> /\ Append(a, k.char) \in Seq(Chars)
        /\ Len(Append(a, k.char)) = Len(a) + 1
    BY <2>1, AppendIsConcat, AppendProperties
  <2>5. Reads(k, <<a, b>>, <<Append(a, k.char), b>>)
    BY <2>1 DEF Reads
  <2> QED BY <1>2, <1>4, <2>1, <2>3, <2>4, <2>5
<1>6. CASE Backspace(k)
  <2>1. CASE cursor > 0
    <3>1. k.key = "Backspace" /\ shadow' = Cut(shadow, cursor - 1, cursor)
          /\ cursor' = cursor - 1
      BY <1>1, <1>6, <2>1 DEF Backspace, Becomes
    <3>2. cursor - 1 \in 0..cursor
      BY <1>1, <2>1
    <3>3. /\ SubSeq(a, 1, cursor - 1) = SubSeq(shadow, 1, cursor - 1)
          /\ SubSeq(a, 1, cursor - 1) \in Seq(Chars)
          /\ Len(SubSeq(a, 1, cursor - 1)) = cursor - 1
      BY <1>1, <1>2, <3>2, Shorter
    <3>4. shadow' = SubSeq(a, 1, cursor - 1) \o b
      BY <1>2, <3>1, <3>3 DEF Cut
    <3>5. Reads(k, <<a, b>>, <<SubSeq(a, 1, cursor - 1), b>>)
      BY <1>2, <3>1 DEF Reads
    <3> QED BY <1>4, <3>1, <3>3, <3>4, <3>5
  <2>2. CASE cursor = 0
    <3>1. k.key = "Backspace" /\ shadow' = a \o b /\ cursor' = Len(a)
      BY <1>2, <1>6, <2>2 DEF Backspace, Becomes
    <3>2. SubSeq(a, 1, Len(a) - 1) = a
      BY <1>2, <2>2
    <3>3. Reads(k, <<a, b>>, <<a, b>>)
      BY <3>1, <3>2 DEF Reads
    <3> QED BY <1>4, <3>1, <3>3
  <2> QED BY <1>1, <2>1, <2>2
<1>7. CASE KillWord(k)
  <2> DEFINE word == WordStart(shadow, cursor)
  <2>1. k.key = "Ctrl-W" /\ shadow' = Cut(shadow, word, cursor) /\ cursor' = word
    BY <1>7 DEF KillWord, Becomes
  <2>2. word = WordStart(a, Len(a)) /\ word \in 0..cursor
    BY <1>1, <1>2, WordBefore, WordStartType
  <2> HIDE DEF word
  <2>3. SubSeq(a, 1, word) \in Seq(Chars) /\ Len(SubSeq(a, 1, word)) = word
        /\ SubSeq(shadow, 1, word) = SubSeq(a, 1, word)
    <3>1. /\ SubSeq(shadow, 1, word) \in Seq(Chars) /\ Len(SubSeq(shadow, 1, word)) = word
          /\ SubSeq(SubSeq(shadow, 1, cursor), 1, word) = SubSeq(shadow, 1, word)
      BY <1>1, <2>2, Shorter
    <3> QED BY <1>2, <3>1, Zenon
  <2>5. shadow' = SubSeq(a, 1, word) \o b
    BY <1>2, <2>1, <2>3 DEF Cut
  <2>6. Reads(k, <<a, b>>, <<SubSeq(a, 1, word), b>>)
    BY <2>1, <2>2 DEF Reads
  <2> QED BY <1>4, <2>1, <2>3, <2>5, <2>6
<1>8. CASE k.key = "Ctrl-A" /\ Becomes(shadow, 0)
  <2>1. Reads(k, <<a, b>>, <<<<>>, a \o b>>)
    BY <1>8 DEF Reads
  <2>2. shadow' = <<>> \o (a \o b) /\ cursor' = Len(<<>>)
    BY <1>2, <1>3, <1>8 DEF Becomes
  <2> QED BY <1>3, <1>4, <2>1, <2>2
<1>9. CASE k.key = "Ctrl-E" /\ Becomes(shadow, Len(shadow))
  <2>1. Reads(k, <<a, b>>, <<a \o b, <<>>>>)
    BY <1>9 DEF Reads
  <2>2. shadow' = (a \o b) \o <<>> /\ cursor' = Len(a \o b)
    BY <1>2, <1>3, <1>9 DEF Becomes
  <2> QED BY <1>3, <1>4, <2>1, <2>2
<1>10. CASE k.key = "Ctrl-K" /\ Becomes(SubSeq(shadow, 1, cursor), cursor)
  <2>1. Reads(k, <<a, b>>, <<a, <<>>>>)
    BY <1>10 DEF Reads
  <2>2. shadow' = a \o <<>> /\ cursor' = Len(a)
    BY <1>2, <1>3, <1>10 DEF Becomes
  <2> QED BY <1>3, <1>4, <2>1, <2>2
<1>11. k.key \notin {"Ctrl-L", "Ctrl-U", "Ctrl-C", "Ctrl-D"}
  BY DEF LineNames
<1> QED BY <1>5, <1>6, <1>7, <1>8, <1>9, <1>10, <1>11 DEF Edit

LEMMA MoveReads ==
  ASSUME LineInv, NEW k \in UserKeys, Move(k), k.key \in LineNames
  PROVE  Reads(k, Split(shadow, cursor), Split(shadow', cursor'))
<1>1. /\ shadow \in Seq(Chars) /\ cursor \in 0..Len(shadow) /\ Len(shadow) \in Nat
      /\ shadow' = shadow
  BY DEF LineInv, Move
<1>2. PICK a \in Seq(Chars), b \in Seq(Chars) :
        /\ a = SubSeq(shadow, 1, cursor) /\ b = SubSeq(shadow, cursor + 1, Len(shadow))
        /\ Split(shadow, cursor) = <<a, b>> /\ shadow = a \o b /\ Len(a) = cursor
  BY <1>1, Halves
<1>3. /\ <<>> \in Seq(Chars) /\ a \o b \in Seq(Chars) /\ <<>> \o (a \o b) = a \o b
      /\ (a \o b) \o <<>> = a \o b /\ Len(<<>>) = 0
      /\ Len(a \o b) = Len(a) + Len(b) /\ Len(a) \in Nat /\ Len(b) \in Nat
  BY ConcatProperties, ConcatEmptySeq
<1>4. ASSUME NEW c \in Seq(Chars), NEW d \in Seq(Chars),
             shadow' = c \o d, cursor' = Len(c), Reads(k, <<a, b>>, <<c, d>>)
      PROVE  Reads(k, Split(shadow, cursor), Split(shadow', cursor'))
  BY <1>2, <1>4, SplitJoin
<1>11. Len(shadow) = cursor + Len(b)
  BY <1>2, <1>3, Zenon
<1>5. CASE k.key = "Left" /\ cursor > 0
  <2> DEFINE c == SubSeq(a, 1, Len(a) - 1)
             e == <<Last(a)>>
  <2>0. cursor = Len(a) /\ Len(a) \in Nat \ {0}
    BY <1>2, <1>3, <1>5
  <2>1. a # <<>> /\ cursor' = cursor - 1
    BY <1>5, <2>0 DEF Move
  <2>2. c \in Seq(Chars) /\ Len(c) = Len(a) - 1 /\ e \in Seq(Chars)
    BY <2>0 DEF Last
  <2>3. a = c \o e
    <3>1. 1 \in 1..Len(a) /\ Len(a) \in 1..Len(a)
      BY <2>0
    <3>2. SubSeq(a, 1, Len(a)) = c \o <<a[Len(a)]>>
      BY <3>1, SubSeqRecursiveSecond
    <3> QED BY <3>2, SubSeqFull DEF Last
  <2>4. Reads(k, <<a, b>>, <<c, e \o b>>)
    BY <1>5, <2>1 DEF Reads
  <2> HIDE DEF c, e
  <2>5. shadow' = c \o (e \o b) /\ e \o b \in Seq(Chars)
    <3>1. (c \o e) \o b = c \o (e \o b)
      BY <2>2, ConcatAssociative
    <3> QED BY <1>1, <1>2, <2>2, <2>3, <3>1, ConcatProperties
  <2> QED BY <1>4, <2>0, <2>1, <2>2, <2>4, <2>5
<1>6. CASE k.key = "Left" /\ ~(cursor > 0)
  <2>1. cursor' = cursor /\ a = <<>>
    BY <1>1, <1>2, <1>6 DEF Move
  <2>2. Reads(k, <<a, b>>, <<a, b>>)
    BY <1>6, <2>1 DEF Reads
  <2> QED BY <1>1, <1>2, <1>4, <2>1, <2>2
<1>7. CASE k.key = "Right" /\ cursor < Len(shadow)
  <2> DEFINE c == Append(a, Head(b))
             d == Tail(b)
             e == <<Head(b)>>
  <2>1. b # <<>> /\ cursor' = cursor + 1
    BY <1>1, <1>3, <1>7, <1>11 DEF Move
  <2>2. Head(b) \in Chars /\ d \in Seq(Chars) /\ e \in Seq(Chars)
    BY <2>1, HeadTailProperties
  <2>3. c \in Seq(Chars) /\ Len(c) = Len(a) + 1 /\ c = a \o e
    BY <2>2, AppendProperties, AppendIsConcat
  <2>4. b = e \o d
    <3>1. 1 \in 1..Len(b) /\ Len(b) \in 1..Len(b) /\ 1 + 1 = 2 /\ Head(b) = b[1]
      BY <1>3, <2>1
    <3>2. SubSeq(b, 1, Len(b)) = <<b[1]>> \o SubSeq(b, 1 + 1, Len(b))
      BY <3>1, SubSeqRecursiveFirst
    <3>3. Tail(b) = SubSeq(b, 2, Len(b))
      BY <2>1, TailIsSubSeq
    <3> QED BY <3>1, <3>2, <3>3, SubSeqFull
  <2>5. Reads(k, <<a, b>>, <<c, d>>)
    BY <1>7, <2>1 DEF Reads
  <2> HIDE DEF c, d, e
  <2>6. shadow' = c \o d
    <3>1. (a \o e) \o d = a \o (e \o d)
      BY <2>2, ConcatAssociative
    <3> QED BY <1>1, <1>2, <2>3, <2>4, <3>1
  <2> QED BY <1>2, <1>4, <2>1, <2>2, <2>3, <2>5, <2>6
<1>8. CASE k.key = "Right" /\ ~(cursor < Len(shadow))
  <2>1. cursor' = cursor /\ b = <<>>
    <3>1. cursor' = cursor /\ ~(Len(b) > 0)
      BY <1>1, <1>3, <1>8, <1>11 DEF Move
    <3> QED BY <1>3, <3>1, EmptySeq
  <2>2. Reads(k, <<a, b>>, <<a, b>>)
    BY <1>8, <2>1 DEF Reads
  <2> QED BY <1>1, <1>2, <1>4, <2>1, <2>2
<1>9. CASE k.key = "Home"
  <2>1. Reads(k, <<a, b>>, <<<<>>, a \o b>>)
    BY <1>9 DEF Reads
  <2>2. shadow' = <<>> \o (a \o b) /\ cursor' = Len(<<>>)
    BY <1>1, <1>2, <1>3, <1>9 DEF Move
  <2> QED BY <1>3, <1>4, <2>1, <2>2
<1>10. CASE k.key = "End"
  <2>1. Reads(k, <<a, b>>, <<a \o b, <<>>>>)
    BY <1>10 DEF Reads
  <2>2. shadow' = (a \o b) \o <<>> /\ cursor' = Len(a \o b)
    BY <1>1, <1>2, <1>3, <1>10 DEF Move
  <2> QED BY <1>3, <1>4, <2>1, <2>2
<1> QED BY <1>5, <1>6, <1>7, <1>8, <1>9, <1>10 DEF Move, LineNames

-----------------------------------------------------------------------------
(* Output under way. *)

LEMMA LatestPrinted ==
  ASSUME WireInv, NEW c \in ChunkSet, down' = Append(down, c)
  PROVE  /\ Latest' = c.scr
         /\ Len(down') = Len(down) + 1 /\ Len(down) \in Nat
         /\ down' # <<>> /\ down'[Len(down) + 1] = c
         /\ \A i \in 1..Len(down) : down'[i] = down[i]
<1>1. down \in Seq(ChunkSet)
  BY DEF WireInv
<1>2. /\ Len(down') = Len(down) + 1 /\ Len(down) \in Nat
      /\ down' # <<>> /\ down'[Len(down) + 1] = c
      /\ \A i \in 1..Len(down) : down'[i] = down[i]
  BY <1>1, AppendProperties
<1> QED BY <1>2 DEF Latest

(* A chunk of the shell or a command shows the cursor where it now is.      *)
LEMMA ScreenPrinted ==
  ASSUME AppInv, RemoteInv', NEW osc \in Seq(OscSet), NEW nl \in BOOLEAN,
         NEW prompt \in BOOLEAN, Prints(osc, nl, FALSE, prompt), mode' # "fullscreen"
  PROVE  /\ ScreenInv'
         /\ Len(down') = Len(down) + 1 /\ Len(down) \in Nat /\ down' # <<>>
         /\ down'[Len(down) + 1].osc = osc /\ down'[Len(down) + 1].nl = nl
         /\ down'[Len(down) + 1].prompt = prompt
         /\ \A i \in 1..Len(down) : down'[i] = down[i]
<1> DEFINE c == Chunk(osc, nl, Screen(pos', FALSE), prompt)
<1>1. c \in ChunkSet
  <2>1. pos'[1] \in Nat /\ pos'[2] \in 0..Bottom
    BY DEF RemoteInv
  <2>2. Screen(pos', FALSE) \in ScreenSet
    BY <2>1 DEF Screen, ScreenSet
  <2> QED BY <2>2 DEF Chunk, ChunkSet
<1>2. /\ down' = Append(down, c)
      /\ c.osc = osc /\ c.nl = nl /\ c.prompt = prompt /\ c.scr = Screen(pos', FALSE)
  BY DEF Prints, Chunk
<1> HIDE DEF c
<1>3. WireInv
  BY DEF AppInv
<1>4. /\ Latest' = c.scr /\ Len(down') = Len(down) + 1 /\ Len(down) \in Nat
      /\ down' # <<>> /\ down'[Len(down) + 1] = c
      /\ \A i \in 1..Len(down) : down'[i] = down[i]
  BY <1>1, <1>2, <1>3, LatestPrinted
<1>5. ScreenInv'
  BY <1>2, <1>4 DEF ScreenInv
<1> QED BY <1>2, <1>4, <1>5

LEMMA PrintedSets ==
  /\ <<>> \in Seq(OscSet) /\ <<"command_start">> \in Seq(OscSet)
  /\ TRUE \in BOOLEAN /\ FALSE \in BOOLEAN
BY DEF OscSet

LEMMA FollowFrame ==
  ASSUME FollowInv, UNCHANGED <<appVars, up, down, remoteVars, waiting, entered>>
  PROVE  FollowInv'
<1>1. UNCHANGED <<shadow, cursor, promptPos, screen, up, down, mode, left, right,
                  base, pos, waiting, entered>>
  BY DEF appVars, remoteVars
<1>2. ScreenInv'
  BY <1>1 DEF FollowInv, ScreenInv, Latest
<1>3. CASE Away
  BY <1>1, <1>2, <1>3 DEF FollowInv, Away
<1>4. CASE Prompting
  BY <1>1, <1>2, <1>4 DEF FollowInv, Prompting
<1>5. CASE Editing
  BY <1>1, <1>2, <1>5 DEF FollowInv, Editing
<1> QED BY <1>3, <1>4, <1>5 DEF FollowInv

(* The first key under way, while a line is edited.                         *)
LEMMA FirstKey ==
  ASSUME AppInv, Editing, up # <<>>
  PROVE  /\ Head(up) \in KeySet /\ Tail(up) \in Seq(KeySet)
         /\ \/ /\ Head(up).key \in LineNames
               /\ \E y : /\ Reads(Head(up), <<left, right>>, y)
                         /\ \/ /\ waiting = FALSE /\ entered = <<>>
                               /\ Leads(Tail(up), y, Split(shadow, cursor))
                            \/ /\ waiting = TRUE
                               /\ \E q \in Seq(KeySet), k \in KeySet : \E x :
                                     /\ Tail(up) = Append(q, k)
                                     /\ Leads(q, y, x)
                                     /\ \/ k.key = "Enter" /\ entered = <<x[1] \o x[2]>>
                                        \/ k.key = "Ctrl-C" /\ entered = <<>>
            \/ /\ waiting = TRUE /\ Tail(up) = <<>>
               /\ \/ Head(up).key = "Enter" /\ entered = <<left \o right>>
                  \/ Head(up).key = "Ctrl-C" /\ entered = <<>>
<1>1. up \in Seq(KeySet) /\ Head(up) \in KeySet /\ Tail(up) \in Seq(KeySet)
  BY HeadTailProperties DEF AppInv, WireInv
<1>2. ASSUME NEW y, Reads(Head(up), <<left, right>>, y)
      PROVE  Head(up).key \in LineNames
  BY <1>2 DEF Reads, LineNames
<1>3. CASE waiting = FALSE /\ entered = <<>>
           /\ Leads(up, <<left, right>>, Split(shadow, cursor))
  <2>1. PICK y : /\ Reads(Head(up), <<left, right>>, y)
                 /\ Leads(Tail(up), y, Split(shadow, cursor))
    BY <1>1, <1>3, LeadsFirst
  <2> QED BY <1>1, <1>2, <1>3, <2>1
<1>4. CASE waiting = TRUE
  <2>0. PICK q \in Seq(KeySet), k \in KeySet :
          \E x : /\ up = Append(q, k)
                 /\ Leads(q, <<left, right>>, x)
                 /\ \/ k.key = "Enter" /\ entered = <<x[1] \o x[2]>>
                    \/ k.key = "Ctrl-C" /\ entered = <<>>
    BY <1>4 DEF Editing
  <2>1. PICK x :
          /\ up = Append(q, k)
          /\ Leads(q, <<left, right>>, x)
          /\ \/ k.key = "Enter" /\ entered = <<x[1] \o x[2]>>
             \/ k.key = "Ctrl-C" /\ entered = <<>>
    BY <2>0
  <2>2. /\ Head(up) = IF q = <<>> THEN k ELSE Head(q)
        /\ Tail(up) = IF q = <<>> THEN <<>> ELSE Append(Tail(q), k)
    BY <2>1, HeadTailAppend
  <2>3. CASE q = <<>>
    <3>1. x = <<left, right>>
      <4>1. Len(q) = 0 /\ 0 + 1 = 1
        BY <2>3
      <4> QED BY <2>1, <4>1 DEF Leads
    <3> QED BY <1>1, <1>4, <2>1, <2>2, <2>3, <3>1
  <2>4. CASE q # <<>>
    <3>1. PICK y : Reads(Head(q), <<left, right>>, y) /\ Leads(Tail(q), y, x)
      BY <2>1, <2>4, LeadsFirst
    <3>2. Head(up) = Head(q) /\ Tail(up) = Append(Tail(q), k) /\ Tail(q) \in Seq(KeySet)
      BY <2>2, <2>4, HeadTailProperties
    <3>3. \E q2 \in Seq(KeySet), k2 \in KeySet : \E x2 :
             /\ Tail(up) = Append(q2, k2)
             /\ Leads(q2, y, x2)
             /\ \/ k2.key = "Enter" /\ entered = <<x2[1] \o x2[2]>>
                \/ k2.key = "Ctrl-C" /\ entered = <<>>
      <4> Tail(q) \in Seq(KeySet)
        BY <3>2
      <4> WITNESS Tail(q) \in Seq(KeySet), k \in KeySet
      <4> WITNESS x
      <4> QED BY <2>1, <3>1, <3>2
    <3>4. Reads(Head(up), <<left, right>>, y)
      BY <3>1, <3>2
    <3> QED BY <1>1, <1>2, <1>4, <3>3, <3>4
  <2> QED BY <2>3, <2>4
<1> QED BY <1>3, <1>4 DEF Editing

-----------------------------------------------------------------------------
(* Every step keeps the invariant. *)

(* At the prompt, the first key under way edits the shell's line.           *)
LEMMA EditFollow ==
  ASSUME AppInv, AppInv', FollowInv, ShellEdits
  PROVE  FollowInv'
<1>1. /\ mode = "prompt" /\ up # <<>> /\ Head(up).key \in LineKeys
      /\ Readline(Head(up)) /\ pos' = <<base + Cols(left'), pos[2]>>
      /\ up' = Tail(up) /\ Prints(<<>>, FALSE, FALSE, FALSE)
      /\ UNCHANGED <<appVars, mode, base, waiting, entered>>
  BY DEF ShellEdits
<1>2. UNCHANGED <<shadow, cursor, promptPos>>
  BY <1>1 DEF appVars
<1>3. Editing /\ RemoteInv /\ RemoteInv'
  BY <1>1 DEF FollowInv, Away, Prompting, AppInv
<1>4. /\ ScreenInv'
      /\ Len(down') = Len(down) + 1 /\ Len(down) \in Nat
      /\ down'[Len(down) + 1].osc = <<>> /\ down'[Len(down) + 1].nl = FALSE
      /\ down'[Len(down) + 1].prompt = FALSE
      /\ \A i \in 1..Len(down) : down'[i] = down[i]
  <2>1. mode' # "fullscreen"
    BY <1>1
  <2> QED BY <1>1, <1>3, <2>1, PrintedSets, ScreenPrinted
<1>5. \A i \in 1..Len(down') :
          down'[i].osc = <<>> /\ down'[i].nl = FALSE /\ down'[i].prompt = FALSE
  <2>1. \A i \in 1..Len(down') : i \in 1..Len(down) \/ i = Len(down) + 1
    BY <1>4
  <2> QED BY <1>3, <1>4, <2>1 DEF Editing
<1>6. Head(up) \in KeySet /\ Head(up).key \notin LeaveNames
  BY <1>1, <1>3, FirstKey DEF LineKeys, LeaveNames
<1>7. ASSUME NEW y, Reads(Head(up), <<left, right>>, y) PROVE y = <<left', right'>>
  BY <1>1, <1>3, <1>6, <1>7, ReadlineReads
<1>8. \/ /\ waiting' = FALSE /\ entered' = <<>>
         /\ Leads(up', <<left', right'>>, Split(shadow', cursor'))
      \/ /\ waiting' = TRUE
         /\ \E q \in Seq(KeySet), k \in KeySet : \E x :
               /\ up' = Append(q, k)
               /\ Leads(q, <<left', right'>>, x)
               /\ \/ k.key = "Enter" /\ entered' = <<x[1] \o x[2]>>
                  \/ k.key = "Ctrl-C" /\ entered' = <<>>
  <2>1. PICK y : /\ Reads(Head(up), <<left, right>>, y)
                 /\ \/ /\ waiting = FALSE /\ entered = <<>>
                       /\ Leads(Tail(up), y, Split(shadow, cursor))
                    \/ /\ waiting = TRUE
                       /\ \E q \in Seq(KeySet), k \in KeySet : \E x :
                             /\ Tail(up) = Append(q, k)
                             /\ Leads(q, y, x)
                             /\ \/ k.key = "Enter" /\ entered = <<x[1] \o x[2]>>
                                \/ k.key = "Ctrl-C" /\ entered = <<>>
    BY <1>1, <1>3, <1>6, FirstKey DEF LeaveNames
  <2>2. y = <<left', right'>>
    BY <1>7, <2>1
  <2> QED BY <1>1, <1>2, <2>1, <2>2
<1>9. promptPos' = <<base', pos'[2]>> /\ pos'[1] = base' + Cols(left')
  BY <1>1, <1>2, <1>3 DEF Editing
<1>10. Editing'
  BY <1>1, <1>5, <1>8, <1>9 DEF Editing
<1> QED BY <1>4, <1>10 DEF FollowInv

(* No followed key makes the shell replace or redraw its line.              *)
LEMMA NoReplace ==
  ASSUME AppInv, FollowInv
  PROVE  ~ShellReplaces /\ ~ShellRedraws
<1>1. ASSUME mode = "prompt", up # <<>> PROVE Head(up).key \in LineNames \cup LeaveNames
  <2>1. Editing
    BY <1>1 DEF FollowInv, Away, Prompting
  <2> QED BY <1>1, <2>1, FirstKey DEF LeaveNames
<1> QED BY <1>1 DEF ShellReplaces, ShellRedraws, LineNames, LeaveNames

LEMMA LeaveFollow ==
  ASSUME AppInv, AppInv', FollowInv, ShellLeavesLine
  PROVE  FollowInv'
<1>1. /\ mode = "prompt" /\ up # <<>> /\ Head(up).key \in {"Enter", "Ctrl-C"}
      /\ entered' = IF Head(up).key = "Enter" THEN Tail(entered) ELSE entered
      /\ mode' = "command" /\ left' = <<>> /\ right' = <<>>
      /\ up' = Tail(up) /\ UNCHANGED waiting
      /\ \E osc \in {<<"command_start">>, <<>>} : Prints(osc, TRUE, FALSE, FALSE)
  BY DEF ShellLeavesLine
<1>2. Editing /\ RemoteInv'
  BY <1>1 DEF FollowInv, Away, Prompting, AppInv
<1>3. /\ waiting = TRUE /\ Tail(up) = <<>>
      /\ \/ Head(up).key = "Enter" /\ entered = <<left \o right>>
         \/ Head(up).key = "Ctrl-C" /\ entered = <<>>
  BY <1>1, <1>2, FirstKey DEF LineNames
<1>4. entered' = <<>>
  <2>1. ASSUME NEW z PROVE Tail(<<z>>) = <<>>
    OBVIOUS
  <2>2. CASE Head(up).key = "Enter" /\ entered = <<left \o right>>
    BY <1>1, <2>1, <2>2
  <2>3. CASE Head(up).key = "Ctrl-C" /\ entered = <<>>
    BY <1>1, <2>3
  <2> QED BY <1>3, <2>2, <2>3
<1>5. PICK osc \in {<<"command_start">>, <<>>} : Prints(osc, TRUE, FALSE, FALSE)
  BY <1>1
<1>6. /\ ScreenInv'
      /\ Len(down') = Len(down) + 1 /\ Len(down) \in Nat
      /\ down'[Len(down) + 1].prompt = FALSE
      /\ \A i \in 1..Len(down) : down'[i] = down[i]
  <2>1. mode' # "fullscreen" /\ osc \in Seq(OscSet)
    BY <1>1, PrintedSets
  <2> QED BY <1>2, <1>5, <2>1, PrintedSets, ScreenPrinted
<1>7. \A i \in 1..Len(down') : down'[i].prompt = FALSE
  <2>1. \A i \in 1..Len(down') : i \in 1..Len(down) \/ i = Len(down) + 1
    BY <1>6
  <2> QED BY <1>2, <1>6, <2>1 DEF Editing
<1>8. Away'
  BY <1>1, <1>3, <1>4, <1>7 DEF Away
<1> QED BY <1>6, <1>8 DEF FollowInv

LEMMA CommandFollow ==
  ASSUME AppInv, AppInv', FollowInv, CommandPrints
  PROVE  FollowInv'
<1>1. PICK nl \in BOOLEAN : Prints(<<>>, nl, FALSE, FALSE)
  BY DEF CommandPrints
<1>2. /\ mode = "command"
      /\ UNCHANGED <<up, mode, left, right, waiting, entered>>
  BY DEF CommandPrints
<1>3. Away /\ RemoteInv'
  BY <1>2 DEF FollowInv, Prompting, Editing, AppInv
<1>4. /\ ScreenInv'
      /\ Len(down') = Len(down) + 1 /\ Len(down) \in Nat
      /\ down'[Len(down) + 1].prompt = FALSE
      /\ \A i \in 1..Len(down) : down'[i] = down[i]
  <2>1. mode' # "fullscreen"
    BY <1>2
  <2> QED BY <1>1, <1>3, <2>1, PrintedSets, ScreenPrinted
<1>5. \A i \in 1..Len(down') : down'[i].prompt = FALSE
  <2>1. \A i \in 1..Len(down') : i \in 1..Len(down) \/ i = Len(down) + 1
    BY <1>4
  <2> QED BY <1>3, <1>4, <2>1 DEF Away
<1>6. Away'
  BY <1>2, <1>3, <1>5 DEF Away
<1> QED BY <1>4, <1>6 DEF FollowInv

(* The prompt and its markers go under way, behind output without prompt.   *)
LEMMA PromptFollow ==
  ASSUME Followed, AppInv, AppInv', FollowInv, ShellPrompts
  PROVE  FollowInv'
<1>1. /\ mode = "command" /\ mode' = "prompt"
      /\ pos' = <<pos[1] + 2, pos[2]>> /\ base' = pos'[1]
      /\ UNCHANGED <<up, left, right, waiting, entered>>
  BY DEF ShellPrompts
<1>2. PICK dir \in IF Cwds = {} THEN {<<>>} ELSE {<<d>> : d \in Cwds} :
        Prints(dir \o PromptMarks(TRUE), FALSE, FALSE, TRUE)
  BY DEF ShellPrompts, Followed
<1> DEFINE marks == PromptMarks(TRUE)
           osc == dir \o marks
<1>3. Away /\ RemoteInv'
  BY <1>1 DEF FollowInv, Prompting, Editing, AppInv
<1>4. dir \in Seq(OscSet)
  <2>1. CASE dir = <<>>
    BY <2>1
  <2>2. ASSUME NEW d \in Cwds, dir = <<d>> PROVE dir \in Seq(OscSet)
    <3>1. d \in OscSet
      BY DEF OscSet
    <3>2. <<d>> \in Seq(OscSet)
      BY <3>1
    <3> QED BY <2>2, <3>2
  <2>3. dir = <<>> \/ \E d \in Cwds : dir = <<d>>
    BY <1>2
  <2> QED BY <2>1, <2>2, <2>3
<1>5. marks \in Seq(OscSet) /\ Len(marks) = 2 /\ marks[2] = "prompt_end"
  BY MarksType DEF PromptMarks
<1> HIDE DEF marks
<1>6. osc \in Seq(OscSet) /\ osc # <<>> /\ osc[Len(osc)] = "prompt_end"
  <2>1. /\ osc \in Seq(OscSet) /\ Len(osc) = Len(dir) + 2 /\ Len(dir) \in Nat
        /\ \A i \in 1..(Len(dir) + 2) :
               osc[i] = IF i <= Len(dir) THEN dir[i] ELSE marks[i - Len(dir)]
    <3>1. /\ dir \o marks \in Seq(OscSet) /\ Len(dir \o marks) = Len(dir) + Len(marks)
          /\ \A i \in 1..(Len(dir) + Len(marks)) :
                 (dir \o marks)[i] = IF i <= Len(dir) THEN dir[i] ELSE marks[i - Len(dir)]
      BY <1>4, <1>5, Joined
    <3>2. Len(dir) \in Nat
      BY <1>4
    <3> QED BY <1>5, <3>1, <3>2
  <2> HIDE DEF osc
  <2>2. /\ Len(dir) + 2 \in 1..(Len(dir) + 2) /\ ~(Len(dir) + 2 <= Len(dir))
        /\ (Len(dir) + 2) - Len(dir) = 2
    BY <2>1
  <2>3. osc[Len(dir) + 2] = marks[2]
    BY <2>1, <2>2
  <2>4. osc # <<>>
    BY <2>1
  <2> QED BY <1>5, <2>1, <2>3, <2>4
<1>7. Prints(osc, FALSE, FALSE, TRUE)
  BY <1>2 DEF marks
<1> HIDE DEF osc
<1>8. /\ ScreenInv'
      /\ Len(down') = Len(down) + 1 /\ Len(down) \in Nat /\ down' # <<>>
      /\ down'[Len(down) + 1].osc = osc /\ down'[Len(down) + 1].prompt = TRUE
      /\ \A i \in 1..Len(down) : down'[i] = down[i]
  <2>1. mode' # "fullscreen"
    BY <1>1
  <2> QED BY <1>3, <1>6, <1>7, <2>1, PrintedSets, ScreenPrinted
<1>9. \A i \in 1..(Len(down') - 1) : down'[i].prompt = FALSE
  BY <1>3, <1>8 DEF Away
<1>10. up' = <<>>
  BY <1>1, <1>3 DEF Away
<1>11. Prompting'
  BY <1>1, <1>3, <1>6, <1>8, <1>9, <1>10 DEF Away, Prompting
<1> QED BY <1>8, <1>11 DEF FollowInv

LEMMA ProgramFollow ==
  ASSUME AppInv, FollowInv, ProgramStarts \/ ProgramReads
  PROVE  FollowInv'
<1>1. /\ mode \in {"command", "fullscreen"}
      /\ UNCHANGED <<left, right, base, pos, waiting>>
  BY DEF ProgramStarts, ProgramReads
<1>2. Away /\ RemoteInv /\ WireInv
  BY <1>1 DEF FollowInv, Prompting, Editing, AppInv
<1>3. PICK p \in Nat \X (0..Bottom), nl \in BOOLEAN :
        \/ /\ down' = Append(down, Chunk(<<>>, nl, Screen(p, TRUE), FALSE))
           /\ mode' = "fullscreen"
        \/ /\ down' = Append(down, Chunk(<<>>, nl, Screen(p, FALSE), FALSE))
           /\ mode' = "command" /\ p = pos
  <2>1. ASSUME NEW col \in {0, 1} PROVE <<col, 0>> \in Nat \X (0..Bottom)
    BY AppAssumption
  <2>2. pos \in Nat \X (0..Bottom)
    BY <1>2 DEF RemoteInv
  <2>3. CASE ProgramStarts
    BY <2>1, <2>3 DEF ProgramStarts
  <2>4. CASE ProgramReads
    BY <2>1, <2>2, <2>4 DEF ProgramReads
  <2> QED BY <2>3, <2>4
<1>4. PICK c \in ChunkSet :
        /\ down' = Append(down, c) /\ c.prompt = FALSE
        /\ \/ mode' = "fullscreen" /\ c.scr.alt = TRUE
           \/ mode' = "command" /\ c.scr = Screen(pos, FALSE)
  <2>1. p[1] \in Nat /\ p[2] \in 0..Bottom
    OBVIOUS
  <2>2. Screen(p, TRUE) \in ScreenSet /\ Screen(p, FALSE) \in ScreenSet
        /\ Screen(p, TRUE).alt = TRUE
    BY <2>1 DEF Screen, ScreenSet
  <2>3. ASSUME NEW scr \in ScreenSet
        PROVE  /\ Chunk(<<>>, nl, scr, FALSE) \in ChunkSet
               /\ Chunk(<<>>, nl, scr, FALSE).prompt = FALSE
               /\ Chunk(<<>>, nl, scr, FALSE).scr = scr
    BY PrintedSets DEF Chunk, ChunkSet
  <2> QED BY <1>3, <2>2, <2>3
<1>5. /\ Latest' = c.scr
      /\ Len(down') = Len(down) + 1 /\ Len(down) \in Nat
      /\ down'[Len(down) + 1] = c
      /\ \A i \in 1..Len(down) : down'[i] = down[i]
  BY <1>2, <1>4, LatestPrinted
<1>6. ScreenInv'
  BY <1>1, <1>4, <1>5 DEF ScreenInv
<1>7. \A i \in 1..Len(down') : down'[i].prompt = FALSE
  <2>1. \A i \in 1..Len(down') : i \in 1..Len(down) \/ i = Len(down) + 1
    BY <1>5
  <2> QED BY <1>2, <1>4, <1>5, <2>1 DEF Away
<1>8. up' = <<>> /\ entered' = <<>>
  <2>1. CASE ProgramStarts
    BY <1>2, <2>1 DEF ProgramStarts, Away
  <2>2. CASE ProgramReads
    <3>1. /\ up # <<>> /\ up' = Tail(up)
          /\ entered' = IF Head(up).key = "Enter" THEN Tail(entered) ELSE entered
      BY <2>2 DEF ProgramReads
    <3>2. Len(up) = 1 /\ Head(up).key # "Enter" /\ entered = <<>>
      BY <1>2, <3>1 DEF Away
    <3>3. Tail(up) = <<>>
      <4>1. up \in Seq(KeySet)
        BY <1>2 DEF WireInv
      <4>2. Tail(up) \in Seq(KeySet) /\ Len(Tail(up)) = 0
        BY <3>1, <3>2, <4>1
      <4> QED BY <4>2, EmptySeq
    <3> QED BY <3>1, <3>2, <3>3
  <2> QED BY <2>1, <2>2
<1>9. Away'
  BY <1>1, <1>2, <1>4, <1>7, <1>8 DEF Away
<1> QED BY <1>6, <1>9 DEF FollowInv

(* Merged output shows the later screen, and the prompt if either half did. *)
LEMMA MergeFollow ==
  ASSUME AppInv, FollowInv, Merge
  PROVE  FollowInv'
<1> DEFINE a == down[1]
           b == down[2]
           n == Len(down)
           both == Chunk(a.osc \o b.osc, a.nl \/ b.nl, b.scr, a.prompt \/ b.prompt)
           rest == SubSeq(down, 3, n)
<1>1. /\ n >= 2 /\ down' = <<both>> \o rest
      /\ UNCHANGED <<appVars, up, remoteVars, waiting, entered>>
      /\ down \in Seq(ChunkSet) /\ n \in Nat
  BY DEF Merge, AppInv, WireInv
<1>2. UNCHANGED <<shadow, cursor, promptPos, screen, up, mode, left, right,
                  base, pos, waiting, entered>>
  BY <1>1 DEF appVars, remoteVars
<1>3. /\ a \in ChunkSet /\ b \in ChunkSet
      /\ rest \in Seq(ChunkSet) /\ Len(rest) = n - 2
      /\ \A i \in 1..(n - 2) : rest[i] = down[i + 2]
  <2>1. a \in ChunkSet /\ b \in ChunkSet
    BY <1>1
  <2>2. 3 \in Int /\ n \in Int /\ \A i \in 3..n : down[i] \in ChunkSet
    BY <1>1
  <2>3. /\ rest \in Seq(ChunkSet) /\ Len(rest) = IF 3 <= n THEN n - 3 + 1 ELSE 0
        /\ \A i \in 1..(n - 3 + 1) : rest[i] = down[3 + i - 1]
    BY <2>2, SubSeqProperties
  <2>4. n >= 2 /\ n \in Nat
    BY <1>1
  <2> HIDE DEF rest, n
  <2>5. Len(rest) = n - 2
    BY <2>3, <2>4
  <2>6. n - 3 + 1 = n - 2 /\ \A i \in 1..(n - 2) : 3 + i - 1 = i + 2
    BY <2>4
  <2> QED BY <2>1, <2>3, <2>5, <2>6
<1>4. a.osc \in Seq(OscSet) /\ b.osc \in Seq(OscSet)
      /\ a.prompt \in BOOLEAN /\ b.prompt \in BOOLEAN
  <2> HIDE DEF a, b
  <2> QED BY <1>3 DEF ChunkSet
<1>5. /\ both.osc = a.osc \o b.osc /\ both.nl = (a.nl \/ b.nl)
      /\ both.scr = b.scr /\ both.prompt = (a.prompt \/ b.prompt)
  BY DEF Chunk
<1>6. both \in ChunkSet
  <2> HIDE DEF a, b
  <2>1. a.osc \o b.osc \in Seq(OscSet)
    BY <1>4, ConcatProperties
  <2>2. b.scr \in ScreenSet
    BY <1>3 DEF ChunkSet
  <2> QED BY <2>1, <2>2 DEF Chunk, ChunkSet
<1> HIDE DEF both, rest
<1>7. /\ Len(down') = n - 1 /\ down'[1] = both
      /\ \A i \in 2..(n - 1) : down'[i] = down[i + 1]
  <2>1. <<both>> \in Seq(ChunkSet) /\ Len(<<both>>) = 1 /\ <<both>>[1] = both
    BY <1>6
  <2> DEFINE one == <<both>>
  <2> HIDE DEF one
  <2>2. one \in Seq(ChunkSet) /\ Len(one) = 1 /\ one[1] = both /\ down' = one \o rest
    BY <1>1, <2>1 DEF one
  <2>3. /\ Len(down') = 1 + (n - 2)
        /\ \A i \in 1..(1 + (n - 2)) : down'[i] = IF i <= 1 THEN one[i] ELSE rest[i - 1]
    <3>1. /\ Len(one \o rest) = Len(one) + Len(rest)
          /\ \A i \in 1..(Len(one) + Len(rest)) :
                 (one \o rest)[i] = IF i <= Len(one) THEN one[i] ELSE rest[i - Len(one)]
      BY <1>3, <2>2, Joined
    <3> QED BY <1>3, <2>2, <3>1
  <2>4. 1 \in 1..(1 + (n - 2))
    BY <1>1
  <2>5. ASSUME NEW i \in 2..(n - 1) PROVE down'[i] = down[i + 1]
    <3>1. i \in 1..(1 + (n - 2)) /\ ~(i <= 1) /\ i - 1 \in 1..(n - 2) /\ (i - 1) + 2 = i + 1
      BY <1>1
    <3>2. rest[i - 1] = down[i + 1]
      BY <1>3, <3>1
    <3> QED BY <2>3, <3>1, <3>2
  <2>6. Len(down') = n - 1
    BY <1>1, <2>3
  <2> QED BY <2>2, <2>3, <2>4, <2>5, <2>6
<1> HIDE DEF n
<1>8. down' # <<>> /\ down # <<>>
  BY <1>1, <1>7 DEF n
(* The last chunk, whether or not it was merged.                            *)
<1>9. /\ down'[n - 1].scr = down[n].scr
      /\ n = 2 => down'[n - 1] = both /\ down[n] = b
      /\ n > 2 => down'[n - 1] = down[n]
  <2>1. CASE n = 2
    <3>1. n - 1 = 1 /\ ~(n > 2)
      BY <2>1
    <3>2. down'[n - 1] = both /\ down[n] = b
      BY <1>7, <2>1, <3>1
    <3> QED BY <1>5, <3>1, <3>2
  <2>2. CASE n > 2
    <3>1. n - 1 \in 2..(n - 1) /\ (n - 1) + 1 = n
      BY <1>1, <2>2
    <3> QED BY <1>7, <2>2, <3>1
  <2>3. n > 2 \/ n = 2
    BY <1>1
  <2> QED BY <2>1, <2>2, <2>3
<1>10. Latest' = Latest
  BY <1>7, <1>8, <1>9 DEF Latest, n
<1>11. ScreenInv'
  BY <1>2, <1>10 DEF FollowInv, ScreenInv
<1>12. \A i \in 2..(n - 1) : i + 1 \in 1..n /\ (i < n - 1 => i + 1 \in 1..(n - 1))
  BY <1>1
<1>13. \A i \in 1..(n - 1) : i = 1 \/ i \in 2..(n - 1)
  BY <1>1
<1>14. CASE Away
  <2>1. \A i \in 1..n : down[i].prompt = FALSE
    BY <1>14 DEF Away, n
  <2>2. a.prompt = FALSE /\ b.prompt = FALSE
    BY <1>1, <2>1
  <2>3. \A i \in 1..(n - 1) : down'[i].prompt = FALSE
    BY <1>5, <1>7, <1>12, <1>13, <2>1, <2>2
  <2>4. Away'
    BY <1>2, <1>7, <1>14, <2>3 DEF Away
  <2> QED BY <1>11, <2>4 DEF FollowInv
<1>15. CASE Prompting
  <2>1. /\ \A i \in 1..(n - 1) : down[i].prompt = FALSE
        /\ down[n].prompt = TRUE
        /\ down[n].osc # <<>> /\ down[n].osc[Len(down[n].osc)] = "prompt_end"
    BY <1>15 DEF Prompting, n
  <2>2. \A i \in 1..(Len(down') - 1) : down'[i].prompt = FALSE
    <3>1. ASSUME NEW i \in 1..((n - 1) - 1) PROVE down'[i].prompt = FALSE
      <4>1. CASE i = 1
        <5>1. a.prompt = FALSE /\ b.prompt = FALSE
          <6>1. 1 \in 1..(n - 1) /\ 2 \in 1..(n - 1)
            BY <1>1, <4>1
          <6> QED BY <2>1, <6>1
        <5> QED BY <1>5, <1>7, <4>1, <5>1
      <4>2. CASE i # 1
        <5>1. i \in 2..(n - 1) /\ i + 1 \in 1..(n - 1)
          BY <1>1, <4>2
        <5> QED BY <1>7, <2>1, <5>1
      <4> QED BY <4>1, <4>2
    <3> QED BY <1>7, <3>1
  <2>3. /\ down'[n - 1].prompt = TRUE
        /\ down'[n - 1].osc # <<>>
        /\ down'[n - 1].osc[Len(down'[n - 1].osc)] = "prompt_end"
    <3>1. CASE n > 2
      BY <1>9, <2>1, <3>1
    <3>2. CASE n = 2
      <4> DEFINE x == a.osc
                 y == b.osc
      <4>1. /\ x \in Seq(OscSet) /\ y \in Seq(OscSet) /\ y # <<>>
            /\ y[Len(y)] = "prompt_end"
        BY <1>4, <1>9, <2>1, <3>2
      <4> HIDE DEF x, y
      <4>2. Len(x) \in Nat /\ Len(y) \in Nat \ {0}
        BY <4>1, EmptySeq
      <4>3. /\ Len(x \o y) = Len(x) + Len(y)
            /\ (x \o y)[Len(x) + Len(y)] = y[Len(y)]
        <5>1. \A i \in 1..(Len(x) + Len(y)) :
                 (x \o y)[i] = IF i <= Len(x) THEN x[i] ELSE y[i - Len(x)]
          BY <4>1, ConcatProperties
        <5>2. /\ Len(x) + Len(y) \in 1..(Len(x) + Len(y)) /\ ~(Len(x) + Len(y) <= Len(x))
              /\ (Len(x) + Len(y)) - Len(x) = Len(y)
          BY <4>2
        <5>3. Len(x \o y) = Len(x) + Len(y)
          BY <4>1, ConcatProperties
        <5> QED BY <5>1, <5>2, <5>3
      <4>4. x \o y # <<>>
        BY <4>2, <4>3
      <4>5. down'[n - 1].osc = x \o y
        BY <1>5, <1>9, <3>2 DEF x, y
      <4>6. down'[n - 1].prompt = TRUE
        <5>1. b.prompt = TRUE
          BY <1>9, <2>1, <3>2
        <5> QED BY <1>5, <1>9, <3>2, <5>1
      <4> QED BY <4>1, <4>3, <4>4, <4>5, <4>6
    <3>3. n > 2 \/ n = 2
      BY <1>1
    <3> QED BY <3>1, <3>2, <3>3
  <2>4. Prompting'
    BY <1>2, <1>7, <1>8, <1>15, <2>2, <2>3 DEF Prompting
  <2> QED BY <1>11, <2>4 DEF FollowInv
<1>16. CASE Editing
  <2>1. \A i \in 1..n : down[i].osc = <<>> /\ down[i].nl = FALSE /\ down[i].prompt = FALSE
    BY <1>16 DEF Editing, n
  <2>2. both.osc = <<>> /\ both.nl = FALSE /\ both.prompt = FALSE
    <3>1. /\ a.osc = <<>> /\ a.nl = FALSE /\ a.prompt = FALSE
          /\ b.osc = <<>> /\ b.nl = FALSE /\ b.prompt = FALSE
      BY <1>1, <2>1
    <3>2. <<>> \o <<>> = <<>>
      BY PrintedSets, ConcatEmptySeq
    <3> QED BY <1>5, <3>1, <3>2
  <2>3. \A i \in 1..(n - 1) :
            down'[i].osc = <<>> /\ down'[i].nl = FALSE /\ down'[i].prompt = FALSE
    BY <1>7, <1>12, <1>13, <2>1, <2>2
  <2>4. Editing'
    BY <1>2, <1>7, <1>16, <2>3 DEF Editing
  <2> QED BY <1>11, <2>4 DEF FollowInv
<1> QED BY <1>14, <1>15, <1>16 DEF FollowInv

LEMMA OutputFollow ==
  ASSUME AppInv, FollowInv, OnOutput
  PROVE  FollowInv'
<1> DEFINE c == Head(down)
           st == OscApplied(c)
           n == Len(down)
           at == <<c.scr.col, c.scr.row>>
<1>1. /\ down # <<>> /\ down' = Tail(down) /\ up' = up
      /\ UNCHANGED <<remoteVars, entered>>
      /\ screen' = c.scr
      /\ shadow' = st.line /\ cursor' = st.i
      /\ promptPos' = IF (lastEnter /\ c.nl) /\ c.scr.col > 0 THEN at ELSE st.prompt
      /\ waiting' = (waiting /\ ~c.prompt)
  BY DEF OnOutput
<1>2. UNCHANGED <<mode, left, right, base, pos>>
  BY <1>1 DEF remoteVars
<1>3. down \in Seq(ChunkSet)
  BY DEF AppInv, WireInv
<1>4. /\ c = down[1] /\ n \in Nat \ {0}
      /\ down' \in Seq(ChunkSet) /\ Len(down') = n - 1
      /\ \A i \in 1..(n - 1) : down'[i] = down[i + 1]
  BY <1>1, <1>3, HeadTailProperties, EmptySeq
<1> HIDE DEF c, st, n, at
<1>5. /\ n = 1 => down' = <<>> /\ c = down[n]
      /\ n > 1 => down' # <<>> /\ down'[n - 1] = down[n]
  <2>1. CASE n = 1
    BY <1>4, <2>1, EmptySeq
  <2>2. CASE n > 1
    <3>1. n - 1 \in 1..(n - 1) /\ (n - 1) + 1 = n
      BY <1>4, <2>2
    <3>2. down' # <<>>
      BY <1>4, <2>2
    <3> QED BY <1>4, <2>2, <3>1, <3>2
  <2>3. n = 1 \/ n > 1
    BY <1>4
  <2> QED BY <2>1, <2>2, <2>3
<1>6. n = 1 \/ n > 1
  BY <1>4
<1>7. Latest' = Latest /\ Latest = down[n].scr
  <2>1. Latest = down[n].scr
    BY <1>1 DEF Latest, n
  <2>2. CASE n = 1
    BY <1>1, <1>5, <2>1, <2>2 DEF Latest
  <2>3. CASE n > 1
    <3>1. down' # <<>> /\ Len(down') = n - 1 /\ down'[n - 1] = down[n]
      BY <1>4, <1>5, <2>3
    <3> QED BY <2>1, <3>1 DEF Latest
  <2> QED BY <1>6, <2>1, <2>2, <2>3
<1>8. ScreenInv'
  BY <1>2, <1>7 DEF FollowInv, ScreenInv
<1>9. 1 \in 1..n /\ \A i \in 1..(n - 1) : i + 1 \in 1..n
  BY <1>4
<1>10. CASE Away
  <2>1. \A i \in 1..n : down[i].prompt = FALSE
    BY <1>10 DEF Away, n
  <2>2. waiting' = TRUE
    BY <1>1, <1>4, <1>9, <1>10, <2>1 DEF Away
  <2>3. \A i \in 1..Len(down') : down'[i].prompt = FALSE
    BY <1>4, <1>9, <2>1
  <2>4. Away'
    BY <1>1, <1>2, <1>10, <2>2, <2>3 DEF Away
  <2> QED BY <1>8, <2>4 DEF FollowInv
<1>11. CASE Prompting /\ n > 1
  <2>1. \A i \in 1..(n - 1) : down[i].prompt = FALSE
    BY <1>11 DEF Prompting, n
  <2>2. waiting' = TRUE
    <3>1. 1 \in 1..(n - 1)
      BY <1>4, <1>11
    <3> QED BY <1>1, <1>4, <1>11, <2>1, <3>1 DEF Prompting
  <2>3. \A i \in 1..(Len(down') - 1) : down'[i].prompt = FALSE
    <3>1. ASSUME NEW i \in 1..((n - 1) - 1) PROVE down'[i].prompt = FALSE
      <4>1. i \in 1..(n - 1) /\ i + 1 \in 1..(n - 1)
        BY <1>4
      <4> QED BY <1>4, <2>1, <4>1
    <3> QED BY <1>4, <3>1
  <2>4. /\ down' # <<>> /\ down'[Len(down')] = down[Len(down)]
    BY <1>4, <1>5, <1>11 DEF n
  <2>5. Prompting'
    BY <1>1, <1>2, <1>11, <2>2, <2>3, <2>4 DEF Prompting
  <2> QED BY <1>8, <2>5 DEF FollowInv
<1>12. CASE Prompting /\ n = 1
  <2>1. /\ mode = "prompt" /\ waiting = TRUE /\ entered = <<>>
        /\ left = <<>> /\ right = <<>> /\ up = <<>> /\ pos[1] = base
        /\ c.prompt = TRUE /\ c.osc # <<>> /\ c.osc[Len(c.osc)] = "prompt_end"
    <3>1. c = down[Len(down)]
      BY <1>4, <1>12 DEF n
    <3> QED BY <1>12, <3>1 DEF Prompting
  <2>2. c.scr = Screen(pos, FALSE)
    BY <1>4, <1>7, <1>12, <2>1 DEF FollowInv, ScreenInv
  <2>3. at = <<base, pos[2]>>
    BY <2>1, <2>2 DEF at, Screen
  <2>4. /\ c.osc \in Seq(OscSet) /\ DOMAIN c.osc = 1..Len(c.osc)
        /\ Len(c.osc) \in Nat \ {0}
    <3>1. c \in ChunkSet
      BY <1>3, <1>4, <1>9 DEF n
    <3>2. c.osc \in Seq(OscSet)
      BY <3>1 DEF ChunkSet
    <3> DEFINE o == c.osc
    <3> HIDE DEF o
    <3>3. o \in Seq(OscSet) /\ o # <<>>
      BY <2>1, <3>2 DEF o
    <3>4. DOMAIN o = 1..Len(o) /\ Len(o) \in Nat \ {0}
      BY <3>3, EmptySeq
    <3> QED BY <3>2, <3>4 DEF o
  <2>5. "prompt_end" \in Range(c.osc)
    BY <2>1, <2>4 DEF Range
  <2>6. LastOf(c.osc, {"prompt_end", "command_start"}) = <<"prompt_end">>
    <3> DEFINE o == c.osc
               m == Len(o)
               marks == {i \in DOMAIN o : o[i] \in {"prompt_end", "command_start"}}
    <3>1. m \in marks /\ marks \subseteq 1..m /\ m \in Nat \ {0}
      BY <2>1, <2>4
    <3> HIDE DEF m, marks
    <3>2. Max(marks) = m
      <4>1. m \in Int /\ \A k \in marks : k \in Int /\ m >= k
        BY <3>1
      <4>2. \A x \in marks : (\A k \in marks : x >= k) => x = m
        BY <3>1, <4>1
      <4> QED BY <3>1, <4>1, <4>2 DEF Max
    <3>3. LastOf(o, {"prompt_end", "command_start"}) = <<o[Max(marks)]>>
      BY <3>1 DEF LastOf, marks
    <3> QED BY <2>1, <3>2, <3>3 DEF m
  <2>7. st.line = <<>> /\ st.i = 0 /\ st.prompt = at
    BY <2>5, <2>6 DEF st, OscApplied, at
  <2>8. promptPos' = <<base', pos'[2]>> /\ waiting' = FALSE
    BY <1>1, <1>2, <2>1, <2>3, <2>7
  <2>9. pos'[1] = base' + Cols(left')
    <3>1. Cols(left') = 0
      <4>1. left' = <<>> /\ Len(<<>>) = 0 /\ DOMAIN <<>> = {}
        BY <1>2, <2>1
      <4>2. {i \in DOMAIN left' : left'[i] \in Wide} = {}
        BY <4>1
      <4> QED BY <4>1, <4>2, FS_EmptySet DEF Cols
    <3>2. base \in Nat
      BY DEF AppInv, RemoteInv
    <3> QED BY <1>2, <2>1, <3>1, <3>2
  <2>10. Leads(up', <<left', right'>>, Split(shadow', cursor'))
    <3>1. up' = <<>> /\ left' = <<>> /\ right' = <<>> /\ shadow' = <<>> /\ cursor' = 0
      BY <1>1, <1>2, <2>1, <2>7
    <3>2. Split(<<>>, 0) = <<<<>>, <<>>>>
      BY DEF Split
    <3> QED BY <3>1, <3>2, LeadsNowhere
  <2>11. \A i \in 1..Len(down') : FALSE
    BY <1>4, <1>12
  <2>12. Editing'
    BY <1>1, <1>2, <2>1, <2>8, <2>9, <2>10, <2>11 DEF Editing
  <2> QED BY <1>8, <2>12 DEF FollowInv
<1>13. CASE Editing
  <2>1. \A i \in 1..n : down[i].osc = <<>> /\ down[i].nl = FALSE /\ down[i].prompt = FALSE
    BY <1>13 DEF Editing, n
  <2>2. c.osc = <<>> /\ c.nl = FALSE /\ c.prompt = FALSE
    BY <1>4, <1>9, <2>1
  <2>3. st.line = shadow /\ st.i = cursor /\ st.prompt = promptPos
    <3>1. DOMAIN <<>> = {} /\ "prompt_end" \notin Range(<<>>)
      BY DEF Range
    <3>2. LastOf(<<>>, {"prompt_end", "command_start"}) = <<>>
      BY <3>1 DEF LastOf
    <3> QED BY <2>2, <3>1, <3>2 DEF st, OscApplied
  <2>4. UNCHANGED <<shadow, cursor, promptPos, waiting>>
    <3>1. waiting \in BOOLEAN
      BY <1>13 DEF Editing
    <3>2. waiting' = waiting
      BY <1>1, <2>2, <3>1
    <3> QED BY <1>1, <2>2, <2>3, <3>2
  <2>5. \A i \in 1..Len(down') :
            down'[i].osc = <<>> /\ down'[i].nl = FALSE /\ down'[i].prompt = FALSE
    BY <1>4, <1>9, <2>1
  <2>6. Editing'
    BY <1>1, <1>2, <1>13, <2>4, <2>5 DEF Editing
  <2> QED BY <1>8, <2>6 DEF FollowInv
<1> QED BY <1>6, <1>10, <1>11, <1>12, <1>13 DEF FollowInv

(* A key: the user has seen the prompt, or a program has the screen.        *)
LEMMA KeyFollow ==
  ASSUME Followed, AppInv, AppInv', FollowInv, NEW k \in UserKeys, OnKey(k)
  PROVE  FollowInv'
<1>1. /\ UNCHANGED <<promptPos, screen, down, mode, left, right, base, pos>>
      /\ waiting' = (waiting \/ k.key \in {"Enter", "Ctrl-C"})
      /\ k.key \in LineNames \cup LeaveNames
      /\ \/ waiting = FALSE
         \/ /\ screen.alt /\ up = <<>> /\ down = <<>> /\ k.key # "Enter"
            /\ Accepting(k) => Len(suggestion) = 1
      /\ \/ Accept(k)
         \/ /\ Edit(k) \/ Move(k) \/ Forget(k) \/ Enter(k)
            /\ up' = Append(up, k)
  <2>1. UNCHANGED remoteVars /\ UNCHANGED <<promptPos, screen, down>>
    BY DEF OnKey
  <2>2. waiting \in BOOLEAN
    BY DEF FollowInv, Away, Prompting, Editing
  <2>3. MayPress(k) /\ TypeAhead = FALSE
    BY DEF OnKey, Followed
  <2>4. \/ waiting = FALSE
        \/ /\ screen.alt /\ up = <<>> /\ down = <<>> /\ k.key # "Enter"
           /\ Accepting(k) => Len(suggestion) = 1
    BY <2>2, <2>3 DEF MayPress
  <2> QED BY <2>1, <2>4 DEF OnKey, Followed, remoteVars
<1>2. ScreenInv'
  BY <1>1 DEF FollowInv, ScreenInv, Latest
<1>3. /\ ShadowInv /\ LineInv /\ up \in Seq(KeySet) /\ k \in KeySet
      /\ shadow \in Seq(Chars) /\ cursor \in 0..Len(shadow) /\ suggestion \in Seq(Chars)
  BY DEF AppInv, WireInv, KeySet, ShadowInv, LineInv
<1>4. k.key \notin {"Tab", "Up"}
  BY <1>1 DEF LineNames, LeaveNames
<1>5. CASE Away
  <2>1. /\ screen.alt /\ up = <<>> /\ down = <<>> /\ k.key # "Enter" /\ waiting = TRUE
        /\ Accepting(k) => Len(suggestion) = 1
    BY <1>1, <1>5 DEF Away
  <2>2. mode = "fullscreen"
    <3>1. CASE mode # "fullscreen"
      <4>1. screen = Screen(pos, FALSE)
        BY <2>1, <3>1 DEF FollowInv, ScreenInv, Latest
      <4> QED BY <2>1, <4>1 DEF Screen
    <3> QED BY <3>1
  <2>3. entered' = <<>> /\ Len(up') = 1 /\ Head(up').key # "Enter"
    <3>1. CASE Accept(k)
      <4> DEFINE sent == [i \in DOMAIN suggestion |-> Char(suggestion[i])]
      <4>1. Len(suggestion) = 1 /\ entered' = entered /\ up' = <<>> \o sent
        BY <2>1, <3>1 DEF Accept
      <4>2. DOMAIN suggestion = 1..1 /\ suggestion[1] \in Chars
        <5>1. suggestion \in Seq(Chars) /\ Len(suggestion) = 1
          BY <1>3, <4>1
        <5> QED BY <5>1
      <4>3. sent \in Seq(KeySet) /\ Len(sent) = 1 /\ sent[1] = Char(suggestion[1])
        <5>1. Char(suggestion[1]) \in KeySet
          BY <4>2 DEF KeySet
        <5> QED BY <4>2, <5>1
      <4> HIDE DEF sent
      <4>4. up' = sent
        BY <4>1, <4>3, ConcatEmptySeq
      <4>5. Head(up') = Char(suggestion[1])
        BY <4>3, <4>4
      <4> QED BY <1>5, <4>1, <4>3, <4>4, <4>5 DEF Away, Char
    <3>2. CASE (Edit(k) \/ Move(k) \/ Forget(k) \/ Enter(k)) /\ up' = Append(up, k)
      <4>1. entered' = entered
        BY <2>1, <3>2 DEF Edit, Move, Forget, Enter
      <4>2. Len(up') = 1 /\ Head(up') = k
        BY <2>1, <3>2
      <4> QED BY <1>5, <2>1, <4>1, <4>2 DEF Away
    <3> QED BY <1>1, <3>1, <3>2
  <2>4. Away'
    BY <1>1, <1>5, <2>1, <2>2, <2>3 DEF Away
  <2> QED BY <1>2, <2>4 DEF FollowInv
<1>6. CASE Prompting
  BY <1>1, <1>6 DEF Prompting
<1>7. CASE Editing
  <2>1. waiting = FALSE /\ entered = <<>>
        /\ Leads(up, <<left, right>>, Split(shadow, cursor))
    <3>1. CASE waiting = TRUE
      <4>1. PICK q \in Seq(KeySet), k2 \in KeySet : up = Append(q, k2)
        BY <1>7, <3>1 DEF Editing
      <4>2. up # <<>>
        BY <4>1, AppendProperties
      <4> QED BY <1>1, <3>1, <4>2
    <3> QED BY <1>7, <3>1 DEF Editing
  <2>2. CASE Accept(k)
    <3>1. /\ suggestion # <<>> /\ cursor = Len(shadow) /\ k.key = "Right"
          /\ shadow' = shadow \o suggestion /\ cursor' = Len(shadow')
          /\ up' = up \o [i \in DOMAIN suggestion |-> Char(suggestion[i])]
          /\ entered' = entered
      BY <2>2 DEF Accept, Accepting
    <3>2. ASSUME NEW s \in Seq(Chars) PROVE Split(s, Len(s)) = <<s, <<>>>>
      <4>1. <<>> \in Seq(Chars) /\ s \o <<>> = s
        BY ConcatEmptySeq
      <4> QED BY <4>1, SplitJoin
    <3>3. shadow' \in Seq(Chars)
      BY <1>3, <3>1, ConcatProperties
    <3>4. Leads(up, <<left, right>>, <<shadow, <<>>>>)
      BY <1>3, <2>1, <3>1, <3>2
    <3>5. Leads(up', <<left, right>>, <<shadow', <<>>>>)
      BY <1>3, <3>1, <3>4, LeadsTyping
    <3>6. Leads(up', <<left', right'>>, Split(shadow', cursor'))
      BY <1>1, <3>1, <3>2, <3>3, <3>5
    <3>7. waiting' = FALSE
      BY <1>1, <2>1, <3>1
    <3>8. Editing'
      BY <1>1, <1>7, <2>1, <3>1, <3>6, <3>7 DEF Editing
    <3> QED BY <1>2, <3>8 DEF FollowInv
  <2>3. CASE /\ k.key \in LineNames /\ up' = Append(up, k)
             /\ Edit(k) \/ Move(k) \/ Forget(k) \/ Enter(k)
    <3>1. Edit(k) \/ Move(k)
      BY <1>4, <2>3 DEF Forget, Enter, LineNames
    <3>2. Reads(k, Split(shadow, cursor), Split(shadow', cursor')) /\ entered' = entered
      <4>1. CASE Edit(k)
        BY <1>3, <2>3, <4>1, EditReads DEF Edit
      <4>2. CASE Move(k)
        BY <1>3, <2>3, <4>2, MoveReads DEF Move
      <4> QED BY <3>1, <4>1, <4>2
    <3>3. Leads(up', <<left, right>>, Split(shadow', cursor'))
      BY <1>3, <2>1, <2>3, <3>2, LeadsOn
    <3>4. waiting' = FALSE
      BY <1>1, <2>1, <2>3 DEF LineNames
    <3>5. Editing'
      BY <1>1, <1>7, <2>1, <3>2, <3>3, <3>4 DEF Editing
    <3> QED BY <1>2, <3>5 DEF FollowInv
  <2>4. CASE /\ k.key \in LeaveNames /\ up' = Append(up, k)
             /\ Edit(k) \/ Move(k) \/ Forget(k) \/ Enter(k)
    <3> DEFINE x == Split(shadow, cursor)
    <3>1. \/ k.key = "Enter" /\ entered' = <<x[1] \o x[2]>>
          \/ k.key = "Ctrl-C" /\ entered' = <<>>
      <4>1. CASE k.key = "Enter"
        <5>1. entered' = Append(<<>>, shadow)
          BY <2>1, <2>4, <4>1 DEF Edit, Insert, Backspace, KillWord, Move, Forget, Enter
        <5>2. Append(<<>>, shadow) = <<shadow>>
          OBVIOUS
        <5>3. shadow = x[1] \o x[2]
          <6>1. PICK a \in Seq(Chars), b \in Seq(Chars) : x = <<a, b>> /\ shadow = a \o b
            BY <1>3, Halves
          <6> HIDE DEF x
          <6> QED BY <6>1
        <5> QED BY <4>1, <5>1, <5>2, <5>3
      <4>2. CASE k.key = "Ctrl-C"
        BY <2>1, <2>4, <4>2 DEF Edit, Move, Forget, Enter
      <4> QED BY <2>4, <4>1, <4>2 DEF LeaveNames
    <3>2. waiting' = TRUE
      BY <1>1, <2>4 DEF LeaveNames
    <3>3. \E q \in Seq(KeySet), k2 \in KeySet : \E x2 :
             /\ up' = Append(q, k2)
             /\ Leads(q, <<left', right'>>, x2)
             /\ \/ k2.key = "Enter" /\ entered' = <<x2[1] \o x2[2]>>
                \/ k2.key = "Ctrl-C" /\ entered' = <<>>
      <4> up \in Seq(KeySet) /\ k \in KeySet
        BY <1>3
      <4> WITNESS up \in Seq(KeySet), k \in KeySet
      <4> WITNESS x
      <4> QED BY <1>1, <2>1, <2>4, <3>1
    <3>4. promptPos' = <<base', pos'[2]>> /\ pos'[1] = base' + Cols(left')
      BY <1>1, <1>7 DEF Editing
    <3>5. Editing'
      BY <1>1, <1>7, <3>2, <3>3, <3>4 DEF Editing
    <3> QED BY <1>2, <3>5 DEF FollowInv
  <2>5. CASE /\ up' = Append(up, k)
             /\ Edit(k) \/ Move(k) \/ Forget(k) \/ Enter(k)
    BY <1>1, <2>3, <2>4, <2>5
  <2> QED BY <1>1, <2>2, <2>5
<1> QED BY <1>5, <1>6, <1>7 DEF FollowInv

-----------------------------------------------------------------------------
(* The results. *)

LEMMA FollowInit == Init => FollowInv
<1> SUFFICES ASSUME Init PROVE FollowInv
  OBVIOUS
<1>1. /\ mode = "command" /\ waiting = TRUE /\ entered = <<>> /\ left = <<>> /\ right = <<>>
      /\ up = <<>> /\ down = <<>> /\ pos = <<0, 0>> /\ screen = Screen(<<0, 0>>, FALSE)
  BY DEF Init
<1>2. \A i \in 1..Len(down) : FALSE
  BY <1>1
<1>3. Away
  BY <1>1, <1>2 DEF Away
<1>4. ScreenInv
  BY <1>1 DEF ScreenInv, Latest
<1> QED BY <1>3, <1>4 DEF FollowInv

LEMMA FollowStep ==
  ASSUME Followed
  PROVE  AppInv /\ AppInv' /\ FollowInv /\ [Next]_vars => FollowInv'
<1> SUFFICES ASSUME AppInv, AppInv', FollowInv, [Next]_vars PROVE FollowInv'
  OBVIOUS
<1>1. ASSUME NEW k \in UserKeys, OnKey(k) PROVE FollowInv'
  BY <1>1, KeyFollow
<1>2. ASSUME NEW c \in Chars, Paste(c) PROVE FollowInv'
  <2>1. Named("Paste") \in UserKeys /\ Named("Paste").key = "Paste"
    BY <1>2 DEF Paste, Named
  <2> QED BY <2>1 DEF Followed, LineNames, LeaveNames
<1>3. CASE OnOutput
  BY <1>3, OutputFollow
<1>4. CASE RemoteStep
  BY <1>4, EditFollow, NoReplace, LeaveFollow, CommandFollow, PromptFollow,
     ProgramFollow, MergeFollow
  DEF RemoteStep
<1>5. CASE Clock
  BY <1>5, FollowFrame DEF Clock
<1>6. CASE UNCHANGED vars
  <2>1. UNCHANGED <<appVars, up, down, remoteVars, waiting, entered>>
    BY <1>6 DEF vars
  <2> QED BY <2>1, FollowFrame
<1> QED BY <1>1, <1>2, <1>3, <1>4, <1>5, <1>6 DEF Next

LEMMA FollowInductive ==
  ASSUME Followed
  PROVE  Spec => [](AppInv /\ FollowInv)
<1>1. Init => AppInv /\ FollowInv
  BY AppInit, FollowInit
<1>2. (AppInv /\ FollowInv) /\ [Next]_vars => (AppInv /\ FollowInv)'
  BY AppStep, FollowStep
<1> QED BY <1>1, <1>2, PTL DEF Spec

(* With every key and all output delivered at a prompt, the shadow is the   *)
(* shell's line, and its cursor is the shell's.                             *)
LEMMA LineKnown ==
  ASSUME AppInv, FollowInv, mode = "prompt", up = <<>>, down = <<>>
  PROVE  /\ left \o right = shadow /\ Len(left) = cursor
         /\ promptPos = <<base, pos[2]>> /\ screen = Screen(pos, FALSE)
         /\ pos[1] = base + Cols(left)
<1>1. Editing
  BY DEF FollowInv, Away, Prompting
<1>2. waiting = FALSE /\ Leads(up, <<left, right>>, Split(shadow, cursor))
  <2>1. CASE waiting = TRUE
    <3>1. PICK q \in Seq(KeySet), k \in KeySet : up = Append(q, k)
      BY <1>1, <2>1 DEF Editing
    <3> QED BY <3>1, AppendProperties
  <2> QED BY <1>1, <2>1 DEF Editing
<1>3. Split(shadow, cursor) = <<left, right>>
  <2>1. Len(up) = 0 /\ 0 + 1 = 1
    OBVIOUS
  <2> QED BY <1>2, <2>1 DEF Leads
<1>4. PICK a \in Seq(Chars), b \in Seq(Chars) :
        /\ Split(shadow, cursor) = <<a, b>> /\ shadow = a \o b /\ Len(a) = cursor
  <2>1. shadow \in Seq(Chars) /\ cursor \in 0..Len(shadow)
    BY DEF AppInv, ShadowInv, LineInv
  <2> QED BY <2>1, Halves
<1>5. left = a /\ right = b
  BY <1>3, <1>4
<1>6. screen = Screen(pos, FALSE)
  BY DEF FollowInv, ScreenInv, Latest
<1> QED BY <1>1, <1>4, <1>5, <1>6 DEF Editing

(* For a user who presses followed keys and waits for the prompt, ghost     *)
(* text shown at a prompt stands behind the line the shell has, and at its  *)
(* end unless wide characters fool the gate (app.rs:213-231), whatever the  *)
(* delays of keys and output, and however the output is cut into chunks.    *)
THEOREM GhostBehindItsLine ==
  ASSUME Followed
  PROVE  Spec => []GhostTruthful
<1>1. AppInv /\ FollowInv => GhostTruthful
  <2> SUFFICES ASSUME AppInv, FollowInv, CanShow, mode = "prompt", up = <<>>, down = <<>>
               PROVE  /\ left \o right = shadow
                      /\ right = <<>> \/ \E i \in DOMAIN left : left[i] \in Wide
    BY DEF GhostTruthful
  <2>1. /\ left \o right = shadow /\ Len(left) = cursor
        /\ promptPos = <<base, pos[2]>> /\ screen = Screen(pos, FALSE)
        /\ pos[1] = base + Cols(left)
    BY LineKnown
  <2>2. left \in Seq(Chars) /\ right \in Seq(Chars) /\ base \in Nat
    BY DEF AppInv, RemoteInv
  <2>3. ASSUME \A i \in DOMAIN left : left[i] \notin Wide PROVE right = <<>>
    <3>1. {i \in DOMAIN left : left[i] \in Wide} = {}
      BY <2>3
    <3>2. Cols(left) = Len(left)
      <4>1. Len(left) \in Nat
        BY <2>2
      <4>2. Cardinality({i \in DOMAIN left : left[i] \in Wide}) = 0
        BY <3>1, FS_EmptySet
      <4> QED BY <4>1, <4>2 DEF Cols
    <3>3. Len(shadow) = (base + Len(left)) - base
      BY <2>1, <3>2 DEF CanShow, Screen
    <3>4. Len(shadow) = Len(left) + Len(right) /\ Len(left) \in Nat /\ Len(right) \in Nat
      BY <2>1, <2>2, ConcatProperties
    <3>5. Len(right) = 0
      BY <2>2, <3>3, <3>4
    <3> QED BY <2>2, <3>5, EmptySeq
  <2> QED BY <2>1, <2>3
<1> QED BY <1>1, FollowInductive, PTL

(* For the same user, the line the shell is about to execute is the one App *)
(* took for entered, and tried to record, when Enter was pressed            *)
(* (app.rs:331-348): no editing key was read differently at the two ends.   *)
THEOREM ExecutesEntered ==
  ASSUME Followed
  PROVE  Spec => []ExecutedAsEntered
<1>1. AppInv /\ FollowInv => ExecutedAsEntered
  <2> SUFFICES ASSUME AppInv, FollowInv, mode = "prompt", up # <<>>, Head(up).key = "Enter"
               PROVE  left \o right = Head(entered)
    BY DEF ExecutedAsEntered
  <2>1. Editing
    BY DEF FollowInv, Away, Prompting
  <2>2. entered = <<left \o right>>
    BY <2>1, FirstKey DEF LineNames
  <2> DEFINE z == left \o right
  <2>3. Head(<<z>>) = z
    OBVIOUS
  <2> QED BY <2>2, <2>3
<1> QED BY <1>1, FollowInductive, PTL

(* And the shadow mirrors the whole line: with everything delivered at a    *)
(* prompt, its text and its cursor are the shell's, ghost text or not.      *)
ShadowMirrors ==
    mode = "prompt" /\ up = <<>> /\ down = <<>>
        => left \o right = shadow /\ Len(left) = cursor

THEOREM MirrorsLine ==
  ASSUME Followed
  PROVE  Spec => []ShadowMirrors
<1>1. AppInv /\ FollowInv => ShadowMirrors
  BY LineKnown DEF ShadowMirrors
<1> QED BY <1>1, FollowInductive, PTL
=============================================================================
