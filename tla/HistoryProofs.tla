---------------------------- MODULE HistoryProofs ----------------------------
(***************************************************************************)
(* Proofs about the command history, for every set of hosts, directories   *)
(* and commands and for tables of any length: the ranking of the query,    *)
(* whatever LIKE matches, and what LIKE matches, by induction over the     *)
(* escaped pattern.                                                        *)
(***************************************************************************)
EXTENDS History, SequenceTheorems, WellFoundedInduction, TLAPS

(* The types that the ranking needs. *)
LEMMA HistoryTypeInit == HistoryInit => HistoryTypeOK
BY HistoryBounds DEF HistoryInit, HistoryTypeOK

LEMMA HistoryTypeStep == HistoryTypeOK /\ [HistoryNext]_historyVars => HistoryTypeOK'
<1> SUFFICES ASSUME HistoryTypeOK, [HistoryNext]_historyVars
             PROVE  HistoryTypeOK'
  OBVIOUS
<1> USE CwdAssumption, CharsAssumption, HistoryBounds
<1>1. CASE \E h \in Hosts, d \in Cwds \cup {NoCwd}, c \in Commands, src \in Source :
              Record(h, d, c, src)
  <2>1. PICK h \in Hosts, d \in Cwds \cup {NoCwd}, c \in Commands, src \in Source :
              Record(h, d, c, src)
    BY <1>1
  <2>2. [host |-> h, cwd |-> d, command |-> c, timestamp |-> now,
         exit |-> "null", source |-> src] \in Row
    BY <2>1 DEF HistoryTypeOK, Row, ExitCode
  <2> QED BY <2>1, <2>2 DEF HistoryTypeOK, Record
<1>2. ASSUME NEW i \in 1..MaxRows, SetExitCode(i) PROVE HistoryTypeOK'
  <2>1. /\ i \in DOMAIN rows /\ rows[i] \in Row /\ rows \in Seq(Row)
    BY <1>2 DEF HistoryTypeOK, SetExitCode
  <2>2. [rows[i] EXCEPT !.exit = "known"] \in Row
    BY <2>1 DEF Row, ExitCode
  <2>3. rows' = [rows EXCEPT ![i] = [rows[i] EXCEPT !.exit = "known"]]
    BY <1>2 DEF SetExitCode
  <2>4. rows' \in Seq(Row)
    BY <2>1, <2>2, <2>3
  <2> QED BY <1>2, <2>4 DEF HistoryTypeOK, SetExitCode
<1>3. CASE Tick
  BY <1>3 DEF HistoryTypeOK, Tick
<1>4. CASE UNCHANGED historyVars
  BY <1>4 DEF HistoryTypeOK, historyVars
<1> QED BY <1>1, <1>2, <1>3, <1>4 DEF HistoryNext

(* Types of the table and the clock (history.rs:14-51).                     *)
THEOREM HistoryTypeCorrect == HistorySpec => []HistoryTypeOK
BY HistoryTypeInit, HistoryTypeStep, PTL DEF HistorySpec

(* A table with times that can be compared is ranked as promised.           *)
LEMMA Ranked == HistoryTypeOK => BestRanked
<1> SUFFICES ASSUME HistoryTypeOK,
                    NEW h \in Hosts, NEW d \in Cwds, NEW p \in Typed \ {<<>>}
             PROVE  Suggest(h, d, p) =
                {j \in Matches(h, p) : \A i \in Matches(h, p) :
                    ~ \/ rows[i].cwd = d /\ ~(rows[j].cwd = d)
                      \/ /\ (rows[i].cwd = d) = (rows[j].cwd = d)
                         /\ rows[i].timestamp > rows[j].timestamp}
  BY DEF BestRanked
<1> DEFINE M == Matches(h, p)
           here == {i \in M : d # NoCwd /\ rows[i].cwd = d}
<1>1. \A i \in M : rows[i].timestamp \in Nat
  <2>1. ASSUME NEW i \in M PROVE i \in DOMAIN rows
    BY <2>1 DEF Matches
  <2>2. ASSUME NEW i \in DOMAIN rows PROVE rows[i] \in Row
    BY <2>2 DEF HistoryTypeOK
  <2>3. ASSUME NEW r \in Row PROVE r.timestamp \in Nat
    BY <2>3 DEF Row
  <2> QED BY <2>1, <2>2, <2>3
<1>2. d # NoCwd BY CwdAssumption
<1>3. Suggest(h, d, p) = IF here # {} THEN Newest(here) ELSE Newest(M)
  BY DEF Suggest
<1> HIDE DEF M
<1>4. CASE here # {}
  <2>1. PICK i0 \in M : rows[i0].cwd = d
    BY <1>4
  <2> QED BY <1>1, <1>2, <1>3, <1>4, <2>1 DEF Newest, M
<1>5. CASE here = {}
  BY <1>1, <1>2, <1>3, <1>5 DEF Newest, M
<1> QED BY <1>4, <1>5

(* The query returns the best rows of one ranking, whatever the table       *)
(* (history.rs:176-244).                                                    *)
THEOREM RanksBest == HistorySpec => []BestRanked
BY HistoryTypeCorrect, Ranked, PTL

-----------------------------------------------------------------------------
(* What LIKE matches. *)

(* Induction up to n, for a set of numbers.                                 *)
LEMMA CountUp ==
    ASSUME NEW n \in Nat, NEW S, 0 \in S,
           \A i \in 0..(n - 1) : i \in S => i + 1 \in S
    PROVE  \A i \in 0..n : i \in S
<1> DEFINE T == {i \in 0..n : i \notin S}
<1> SUFFICES ASSUME T # {} PROVE FALSE
  OBVIOUS
<1>1. T \subseteq Nat
  OBVIOUS
<1>2. PICK t \in T : \A y \in T : ~(<<y, t>> \in OpToRel(<, Nat))
  BY <1>1, NatLessThanWellFounded, WFMin
<1>3. \A y \in T : ~(y < t)
  BY <1>1, <1>2 DEF OpToRel
<1>4. t # 0 /\ t \in 0..n
  OBVIOUS
<1>5. t - 1 \in 0..(n - 1) /\ t - 1 < t
  BY <1>4
<1>6. t - 1 \in S
  BY <1>3, <1>4, <1>5
<1>7. (t - 1) + 1 = t
  BY <1>4
<1> QED BY <1>4, <1>5, <1>6, <1>7

(* The escaping of the first i characters, for every i: the recursive       *)
(* function of LikeEscape solves its equation.                               *)
LEMMA EscapeIs ==
    ASSUME NEW p \in Seq(Chars)
    PROVE  \E out :
              /\ out[0] = <<>>
              /\ \A i \in 1..Len(p) :
                    out[i] = out[i - 1] \o (IF p[i] \in {"\\", "%", "_"}
                                            THEN <<"\\", p[i]>> ELSE <<p[i]>>)
              /\ LikeEscape(p) = out[Len(p)]
<1> DEFINE special == {"\\", "%", "_"}
           E(i) == IF p[i] \in special THEN <<"\\", p[i]>> ELSE <<p[i]>>
           Is(f, n) == f = [i \in 0..n |-> IF i = 0 THEN <<>> ELSE f[i - 1] \o E(i)]
           S == {n \in Nat : \E f : Is(f, n)}
<1> HIDE DEF E
<1>1. 0 \in S
  <2> DEFINE f == [i \in 0..0 |-> <<>>]
  <2>1. Is(f, 0)
    OBVIOUS
  <2> QED BY <2>1
<1>2. ASSUME NEW n \in Nat, n \in S PROVE n + 1 \in S
  <2>1. PICK f : Is(f, n)
    BY <1>2
  <2> DEFINE g == [i \in 0..(n + 1) |-> IF i = n + 1 THEN f[n] \o E(n + 1) ELSE f[i]]
             h == [i \in 0..(n + 1) |-> IF i = 0 THEN <<>> ELSE g[i - 1] \o E(i)]
  <2>9. \A i \in 0..n : f[i] = IF i = 0 THEN <<>> ELSE f[i - 1] \o E(i)
    <3> HIDE DEF S
    <3> QED BY <2>1
  <2>10. \A i \in 0..n : g[i] = f[i]
    <3>1. \A i \in 0..n : i \in 0..(n + 1) /\ i # n + 1
      OBVIOUS
    <3> QED BY <3>1
  <2>11. g[n + 1] = f[n] \o E(n + 1)
    OBVIOUS
  <2>12. \A i \in 0..(n + 1) : h[i] = IF i = 0 THEN <<>> ELSE g[i - 1] \o E(i)
    OBVIOUS
  <2>2. ASSUME NEW i \in 0..(n + 1) PROVE g[i] = h[i]
    <3> HIDE DEF g, h, S, Is
    <3>1. CASE i = 0
      BY <2>9, <2>10, <2>12, <3>1
    <3>2. CASE i = n + 1
      <4>1. n \in 0..n /\ i # 0 /\ i - 1 = n
        BY <3>2
      <4> QED BY <3>2, <2>10, <2>11, <2>12, <4>1
    <3>3. CASE i # 0 /\ i # n + 1
      <4>1. i \in 0..n /\ i - 1 \in 0..n
        BY <3>3
      <4> QED BY <3>3, <4>1, <2>9, <2>10, <2>12
    <3> QED BY <3>1, <3>2, <3>3
  <2>3. g = h
    <3> HIDE DEF S
    <3> QED BY <2>2
  <2>4. Is(g, n + 1)
    BY <2>3
  <2>5. \E f1 : Is(f1, n + 1)
    <3> HIDE DEF Is
    <3> QED BY <2>4
  <2>6. n + 1 \in Nat
    OBVIOUS
  <2> HIDE DEF Is
  <2> QED BY <2>5, <2>6
<1>3. Len(p) \in Nat
  BY LenProperties
<1>4. Len(p) \in S
  <2> HIDE DEF S
  <2>1. \A i \in 0..(Len(p) - 1) : i \in S => i + 1 \in S
    BY <1>2, <1>3
  <2>2. \A i \in 0..Len(p) : i \in S
    BY <1>1, <1>3, <2>1, CountUp, Zenon
  <2> QED BY <1>3, <2>2
<1> DEFINE out == CHOOSE f : Is(f, Len(p))
<1>5. LikeEscape(p) = out[Len(p)]
  BY DEF LikeEscape, EscapeAll, E
<1>6. \E f : Is(f, Len(p))
  BY <1>4
<1>7. Is(out, Len(p))
  <2> HIDE DEF Is
  <2> QED BY <1>6
<1> HIDE DEF out
<1>8. \A i \in 0..Len(p) : out[i] = IF i = 0 THEN <<>> ELSE out[i - 1] \o E(i)
  BY <1>7
<1>9. 0 \in 0..Len(p) /\ \A i \in 1..Len(p) : i \in 0..Len(p) /\ i # 0
  BY <1>3
<1>10. \A i \in 1..Len(p) : out[i] = out[i - 1] \o E(i)
  BY <1>8, <1>9
<1> QED BY <1>5, <1>8, <1>9, <1>10 DEF E

(* So does the recursive function of Like.                                  *)
LEMMA LikeIs ==
    ASSUME NEW X, NEW pat \in Seq(X), NEW s
    PROVE  \E m :
      /\ m[Len(pat) + 1] = {Len(s) + 1}
      /\ \A i \in 1..Len(pat) :
            /\ pat[i] = "%" =>
                 m[i] = {j \in 1..(Len(s) + 1) : \E k \in m[i + 1] : j <= k}
            /\ pat[i] \notin {"%", "_", "\\"} =>
                 m[i] = Before(pat[i], s, m[i + 1])
            /\ pat[i] = "\\" /\ i < Len(pat) =>
                 m[i] = Before(pat[i + 1], s, m[i + 2])
      /\ Like(pat, s) = (1 \in m[1])
<1> DEFINE B(f, i) ==
            IF i > Len(pat) THEN {Len(s) + 1}
            ELSE IF pat[i] = "%"
                 THEN {j \in 1..(Len(s) + 1) : \E k \in f[i + 1] : j <= k}
            ELSE IF pat[i] = "_" THEN {j \in DOMAIN s : j + 1 \in f[i + 1]}
            ELSE IF pat[i] # "\\" THEN Before(pat[i], s, f[i + 1])
            ELSE IF i < Len(pat) THEN Before(pat[i + 1], s, f[i + 2])
            ELSE {}
           n == Len(pat) + 1
           Is(f, k) == f = [i \in (n - k)..n |-> B(f, i)]
           S == {k \in Nat : \E f : Is(f, k)}
<1>1. n \in Nat \ {0} /\ Len(pat) = n - 1
  BY LenProperties
<1>2. \A f, g, i : /\ i \in 1..n
                   /\ i <= Len(pat) => f[i + 1] = g[i + 1]
                   /\ i < Len(pat) => f[i + 2] = g[i + 2]
                   => B(f, i) = B(g, i)
  <2>1. ASSUME NEW f, NEW g, NEW i \in 1..n,
               i <= Len(pat) => f[i + 1] = g[i + 1],
               i < Len(pat) => f[i + 2] = g[i + 2]
        PROVE  B(f, i) = B(g, i)
    <3>1. i <= Len(pat) \/ i > Len(pat)
      BY <1>1
    <3>2. CASE i > Len(pat)
      BY <3>2
    <3>3. CASE i <= Len(pat) /\ ~(i > Len(pat))
      <4>1. f[i + 1] = g[i + 1]
        BY <2>1, <3>3
      <4>2. i < Len(pat) => f[i + 2] = g[i + 2]
        BY <2>1
      <4> QED BY <3>3, <4>1, <4>2, Zenon
    <3>4. i > Len(pat) \/ (i <= Len(pat) /\ ~(i > Len(pat)))
      BY <1>1
    <3> QED BY <3>2, <3>3, <3>4
  <2> HIDE DEF B, n
  <2> QED BY <2>1
<1> HIDE DEF B
<1>3. 0 \in S
  <2> DEFINE f == [i \in n..n |-> {Len(s) + 1}]
  <2>1. \A i \in (n - 0)..n : B(f, i) = {Len(s) + 1}
    <3>1. \A i \in (n - 0)..n : i > Len(pat)
      BY <1>1
    <3> QED BY <3>1 DEF B
  <2>2. f = [i \in (n - 0)..n |-> B(f, i)]
    <3>1. n - 0 = n
      BY <1>1
    <3> HIDE DEF n
    <3> QED BY <2>1, <3>1
  <2> QED BY <2>2
<1>4. ASSUME NEW k \in 0..(n - 2), k \in S PROVE k + 1 \in S
  <2>1. PICK f : Is(f, k)
    BY <1>4
  <2> DEFINE t == n - (k + 1)
             g == [i \in t..n |-> IF i = t THEN B(f, t) ELSE f[i]]
             h == [i \in t..n |-> B(g, i)]
  <2>2. /\ t \in 1..n /\ t <= Len(pat) /\ n - k = t + 1
        /\ \A i \in t..n : i = t \/ (i \in (n - k)..n /\ i # t)
        /\ \A i \in (n - k)..n : i \in 1..n /\ i \in t..n /\ i # t
    BY <1>1
  <2>3. \A i \in (n - k)..n : f[i] = B(f, i)
    <3> HIDE DEF n, S
    <3> QED BY <2>1
  <2>4. g[t] = B(f, t) /\ \A i \in (n - k)..n : g[i] = f[i]
    <3>1. t \in t..n
      BY <2>2
    <3> HIDE DEF n, t, S
    <3> QED BY <2>2, <3>1
  <2>5. ASSUME NEW i \in t..n PROVE B(g, i) = B(f, i)
    <3>1. i \in 1..n
      BY <2>2
    <3>2. i <= Len(pat) => i + 1 \in (n - k)..n
      BY <1>1, <2>2
    <3>3. i < Len(pat) => i + 2 \in (n - k)..n
      BY <1>1, <2>2
    <3>4. /\ i <= Len(pat) => g[i + 1] = f[i + 1]
          /\ i < Len(pat) => g[i + 2] = f[i + 2]
      BY <2>4, <3>2, <3>3, Zenon
    <3> HIDE DEF g, n, t, S
    <3> QED BY <1>2, <3>1, <3>4, Zenon
  <2>6. ASSUME NEW i \in t..n PROVE g[i] = h[i]
    <3>1. h[i] = B(g, i)
      OBVIOUS
    <3>2. i = t \/ (i \in (n - k)..n /\ i # t)
      BY <2>2
    <3> HIDE DEF g, h, n, t, S
    <3> QED BY <2>3, <2>4, <2>5, <3>1, <3>2, Zenon
  <2>7. g = h
    <3> HIDE DEF n, t, S, B
    <3> QED BY <2>6
  <2>8. k + 1 \in Nat /\ \E f1 : Is(f1, k + 1)
    <3>1. Is(g, k + 1)
      BY <2>7
    <3> HIDE DEF Is, n
    <3> QED BY <3>1
  <2> HIDE DEF Is
  <2> QED BY <2>8
<1>5. n - 1 \in S
  <2>1. n - 1 \in Nat /\ \A i \in 0..((n - 1) - 1) : i \in 0..(n - 2)
    BY <1>1
  <2> HIDE DEF S, n
  <2>2. \A i \in 0..((n - 1) - 1) : i \in S => i + 1 \in S
    BY <1>4, <2>1, Zenon
  <2>3. \A i \in 0..(n - 1) : i \in S
    BY <1>3, <2>1, <2>2, CountUp, Zenon
  <2> QED BY <2>1, <2>3
<1>6. n - (n - 1) = 1
  BY <1>1
<1> DEFINE All(f) == f = [i \in 1..n |-> B(f, i)]
           m == CHOOSE f : All(f)
<1>7. \E f : All(f)
  <2>1. PICK f : f = [i \in (n - (n - 1))..n |-> B(f, i)]
    BY <1>5
  <2>2. f = [i \in 1..n |-> B(f, i)]
    <3> HIDE DEF n
    <3> QED BY <1>6, <2>1, Zenon
  <2> QED BY <2>2
<1>8. Like(pat, s) = (1 \in m[1])
  BY DEF Like, B
<1>9. All(m)
  <2> HIDE DEF All
  <2> QED BY <1>7
<1> HIDE DEF m
<1>10. \A i \in 1..n : m[i] = B(m, i)
  <2> HIDE DEF n
  <2> QED BY <1>9
<1>11. m[n] = {Len(s) + 1}
  <2>1. n \in 1..n /\ n > Len(pat)
    BY <1>1
  <2> QED BY <1>10, <2>1 DEF B
<1>12. ASSUME NEW i \in 1..Len(pat)
       PROVE  /\ pat[i] = "%" =>
                   m[i] = {j \in 1..(Len(s) + 1) : \E k \in m[i + 1] : j <= k}
              /\ pat[i] \notin {"%", "_", "\\"} =>
                   m[i] = Before(pat[i], s, m[i + 1])
              /\ pat[i] = "\\" /\ i < Len(pat) =>
                   m[i] = Before(pat[i + 1], s, m[i + 2])
  <2>1. i \in 1..n /\ ~(i > Len(pat))
    BY <1>1
  <2>2. m[i] = B(m, i)
    BY <1>10, <2>1
  <2> HIDE DEF n
  <2> QED BY <2>1, <2>2 DEF B
<1> HIDE DEF B
<1> QED BY <1>8, <1>11, <1>12

(* Where the characters of p stand in its escaped form: the i-th one ends   *)
(* at off[i], behind a backslash if it is special and as itself if not.     *)
LEMMA EscapedAt ==
    ASSUME NEW p \in Seq(Chars)
    PROVE  \E off :
      /\ LikeEscape(p) \in Seq(Chars \cup {"\\"})
      /\ off[0] = 0 /\ off[Len(p)] = Len(LikeEscape(p))
      /\ \A i \in 0..Len(p) : off[i] \in 0..Len(LikeEscape(p))
      /\ \A i \in 1..Len(p) :
            LikeEscape(p)[off[i]] = p[i] /\
            \/ /\ p[i] \notin {"\\", "%", "_"}
               /\ off[i] = off[i - 1] + 1
            \/ /\ p[i] \in {"\\", "%", "_"}
               /\ off[i] = off[i - 1] + 2
               /\ LikeEscape(p)[off[i - 1] + 1] = "\\"
<1>0. \E out :
              /\ out[0] = <<>>
              /\ \A i \in 1..Len(p) :
                    out[i] = out[i - 1] \o (IF p[i] \in {"\\", "%", "_"}
                                            THEN <<"\\", p[i]>> ELSE <<p[i]>>)
              /\ LikeEscape(p) = out[Len(p)]
  BY EscapeIs
<1> DEFINE special == {"\\", "%", "_"}
           X == Chars \cup {"\\"}
           n == Len(p)
           E(c) == IF c \in special THEN <<"\\", c>> ELSE <<c>>
<1> HIDE DEF special
<1>1. PICK out :
              /\ out[0] = <<>>
              /\ \A i \in 1..n : out[i] = out[i - 1] \o E(p[i])
              /\ LikeEscape(p) = out[n]
  BY <1>0 DEF special
<1>2. LikeEscape(p) = out[n]
  BY <1>1
<1>3. n \in Nat /\ \A i \in 1..n : p[i] \in Chars
  BY LenProperties, ElementOfSeq
<1>4. \A c \in Chars : /\ E(c) \in Seq(X) /\ Len(E(c)) = IF c \in special THEN 2 ELSE 1
                       /\ E(c)[Len(E(c))] = c
                       /\ c \in special => E(c)[1] = "\\"
  <2>1. ASSUME NEW c \in Chars
        PROVE  /\ E(c) \in Seq(X) /\ Len(E(c)) = IF c \in special THEN 2 ELSE 1
               /\ E(c)[Len(E(c))] = c
               /\ c \in special => E(c)[1] = "\\"
    <3>1. c \in X /\ "\\" \in X
      OBVIOUS
    <3> HIDE DEF X
    <3>2. CASE c \in special
      <4>1. E(c) = <<"\\", c>>
        BY <3>2
      <4> HIDE DEF E
      <4> QED BY <3>1, <3>2, <4>1
    <3>3. CASE c \notin special
      <4>1. E(c) = <<c>>
        BY <3>3
      <4> HIDE DEF E
      <4> QED BY <3>1, <3>3, <4>1
    <3> QED BY <3>2, <3>3
  <2> HIDE DEF E, X
  <2> QED BY <2>1
<1> HIDE DEF E, X, n
<1>5. \A i \in 0..n : out[i] \in Seq(X)
  <2> DEFINE S == {i \in 0..n : out[i] \in Seq(X)}
  <2>1. 0 \in S
    <3>1. 0 \in 0..n /\ << >> \in Seq(X)
      BY <1>3, EmptySeq
    <3> QED BY <1>1, <3>1
  <2>2. ASSUME NEW i \in 0..(n - 1), i \in S PROVE i + 1 \in S
    <3>1. i + 1 \in 1..n /\ (i + 1) - 1 = i /\ i + 1 \in 0..n
      BY <1>3
    <3>2. out[i + 1] = out[i] \o E(p[i + 1]) /\ E(p[i + 1]) \in Seq(X)
      BY <1>1, <1>3, <1>4, <3>1
    <3>3. out[i + 1] \in Seq(X)
      BY <2>2, <3>2, ConcatProperties
    <3> QED BY <3>1, <3>3
  <2> HIDE DEF S
  <2>3. \A i \in 0..n : i \in S
    BY <1>3, <2>1, <2>2, CountUp, Zenon
  <2> QED BY <2>3 DEF S
<1> DEFINE off == [i \in 0..n |-> Len(out[i])]
<1>6. \A i \in 0..n : off[i] \in Nat /\ off[i] = Len(out[i])
  BY <1>5, LenProperties
<1> HIDE DEF off
<1>7. ASSUME NEW i \in 1..n
      PROVE  /\ i \in 0..n /\ i - 1 \in 0..n
             /\ off[i] = off[i - 1] + Len(E(p[i]))
             /\ \A k \in 1..off[i - 1] : out[i][k] = out[i - 1][k]
             /\ \A k \in 1..Len(E(p[i])) : out[i][off[i - 1] + k] = E(p[i])[k]
  <2>1. i \in 0..n /\ i - 1 \in 0..n
    BY <1>3
  <2>2. out[i - 1] \in Seq(X) /\ E(p[i]) \in Seq(X)
    BY <1>3, <1>4, <1>5, <2>1
  <2>3. out[i] = out[i - 1] \o E(p[i])
    BY <1>1
  <2>4. off[i] = Len(out[i]) /\ off[i - 1] = Len(out[i - 1])
    BY <1>6, <2>1
  <2>5. /\ Len(out[i]) = Len(out[i - 1]) + Len(E(p[i]))
        /\ \A k \in 1..Len(out[i]) :
             out[i][k] = IF k <= Len(out[i - 1]) THEN out[i - 1][k]
                                                 ELSE E(p[i])[k - Len(out[i - 1])]
    <3> DEFINE x == out[i - 1]
               y == E(p[i])
    <3> HIDE DEF x, y
    <3>1. x \in Seq(X) /\ y \in Seq(X) /\ out[i] = x \o y
      BY <2>2, <2>3 DEF x, y
    <3>2. /\ Len(x \o y) = Len(x) + Len(y)
          /\ \A k \in 1..(Len(x) + Len(y)) :
               (x \o y)[k] = IF k <= Len(x) THEN x[k] ELSE y[k - Len(x)]
      BY <3>1, ConcatProperties
    <3> QED BY <3>1, <3>2 DEF x, y
  <2>6. Len(out[i - 1]) \in Nat /\ Len(E(p[i])) \in Nat
    BY <2>2, LenProperties
  <2> DEFINE a == Len(out[i - 1])
             b == Len(E(p[i]))
  <2> HIDE DEF a, b
  <2>7. /\ off[i] = a + b /\ off[i - 1] = a /\ a \in Nat /\ b \in Nat
        /\ \A k \in 1..(a + b) :
             out[i][k] = IF k <= a THEN out[i - 1][k] ELSE E(p[i])[k - a]
    BY <2>4, <2>5, <2>6 DEF a, b
  <2>8. \A k \in 1..a : out[i][k] = out[i - 1][k]
    <3>1. \A k \in 1..a : k \in 1..(a + b) /\ k <= a
      BY <2>7
    <3> QED BY <2>7, <3>1
  <2>9. \A k \in 1..b : out[i][a + k] = E(p[i])[k]
    <3>1. \A k \in 1..b : a + k \in 1..(a + b) /\ ~(a + k <= a) /\ (a + k) - a = k
      BY <2>7
    <3> QED BY <2>7, <3>1
  <2> QED BY <2>1, <2>7, <2>8, <2>9, Zenon DEF b
(* What stands in the escaped form of some characters stays. *)
<1>8. \A i \in 0..n : \A h \in 0..i :
        off[h] <= off[i] /\ \A k \in 1..off[h] : out[i][k] = out[h][k]
  <2> DEFINE S == {i \in 0..n : \A h \in 0..i :
        off[h] <= off[i] /\ \A k \in 1..off[h] : out[i][k] = out[h][k]}
  <2>1. 0 \in S
    <3>1. 0 \in 0..n /\ off[0] \in Nat
      BY <1>3, <1>6
    <3>2. \A h \in 0..0 : h = 0
      OBVIOUS
    <3> QED BY <3>1, <3>2
  <2>2. ASSUME NEW i \in 0..(n - 1), i \in S PROVE i + 1 \in S
    <3>1. i + 1 \in 1..n /\ (i + 1) - 1 = i /\ i + 1 \in 0..n /\ i \in 0..n
      BY <1>3
    <3>2. /\ off[i + 1] = off[i] + Len(E(p[i + 1]))
          /\ \A k \in 1..off[i] : out[i + 1][k] = out[i][k]
      BY <1>7, <3>1
    <3>3. off[i] \in Nat /\ Len(E(p[i + 1])) \in Nat /\ off[i + 1] \in Nat
      BY <1>3, <1>4, <1>6, <3>1
    <3>4. ASSUME NEW h \in 0..(i + 1)
          PROVE  off[h] <= off[i + 1] /\ \A k \in 1..off[h] : out[i + 1][k] = out[h][k]
      <4>1. h = i + 1 \/ h \in 0..i
        BY <3>1
      <4>2. CASE h = i + 1
        BY <3>3, <4>2
      <4>3. CASE h \in 0..i
        <5>1. off[h] <= off[i] /\ \A k \in 1..off[h] : out[i][k] = out[h][k]
          BY <2>2, <4>3
        <5>2. off[h] \in Nat
          <6>1. h \in 0..n
            BY <1>3, <3>1, <4>3
          <6> QED BY <1>6, <6>1
        <5>3. off[h] <= off[i + 1] /\ \A k \in 1..off[h] : k \in 1..off[i]
          BY <3>2, <3>3, <5>1, <5>2
        <5> QED BY <3>2, <5>1, <5>3
      <4> QED BY <4>1, <4>2, <4>3
    <3> QED BY <3>1, <3>4
  <2> HIDE DEF S
  <2>3. \A i \in 0..n : i \in S
    BY <1>3, <2>1, <2>2, CountUp, Zenon
  <2> QED BY <2>3 DEF S
<1>9. ASSUME NEW i \in 1..n
      PROVE  /\ out[n][off[i]] = p[i]
             /\ \/ p[i] \notin special /\ off[i] = off[i - 1] + 1
                \/ /\ p[i] \in special /\ off[i] = off[i - 1] + 2
                   /\ out[n][off[i - 1] + 1] = "\\"
  <2>1. /\ i \in 0..n /\ i - 1 \in 0..n /\ n \in 0..n /\ i \in 0..n
        /\ off[i] \in Nat /\ off[i - 1] \in Nat
    BY <1>3, <1>6, <1>7
  <2>2. off[i] <= off[n] /\ \A k \in 1..off[i] : out[n][k] = out[i][k]
    BY <1>8, <2>1
  <2>3. p[i] \in Chars
    BY <1>3
  <2>4. CASE p[i] \notin special
    <3>1. Len(E(p[i])) = 1 /\ E(p[i])[1] = p[i]
      BY <1>4, <2>3, <2>4
    <3>2. off[i] = off[i - 1] + 1 /\ out[i][off[i - 1] + 1] = p[i]
      <4>1. 1 \in 1..Len(E(p[i]))
        BY <3>1
      <4> QED BY <1>7, <3>1, <4>1, Zenon
    <3>3. off[i - 1] + 1 \in 1..off[i]
      BY <2>1, <3>2
    <3> QED BY <2>2, <2>4, <3>2, <3>3, Zenon
  <2>5. CASE p[i] \in special
    <3>1. Len(E(p[i])) = 2 /\ E(p[i])[1] = "\\" /\ E(p[i])[2] = p[i]
      BY <1>4, <2>3, <2>5
    <3>2. /\ off[i] = off[i - 1] + 2 /\ out[i][off[i - 1] + 1] = "\\"
          /\ out[i][off[i - 1] + 2] = p[i]
      <4>1. 1 \in 1..Len(E(p[i])) /\ 2 \in 1..Len(E(p[i]))
        BY <3>1
      <4> QED BY <1>7, <3>1, <4>1, Zenon
    <3>3. off[i - 1] + 1 \in 1..off[i] /\ off[i - 1] + 2 \in 1..off[i]
      BY <2>1, <3>2
    <3> QED BY <2>2, <2>5, <3>2, <3>3
  <2> QED BY <2>4, <2>5
<1>10. /\ off[0] = 0 /\ off[n] = Len(out[n]) /\ out[n] \in Seq(X)
       /\ \A i \in 0..n : off[i] \in 0..Len(out[n])
  <2>1. 0 \in 0..n /\ n \in 0..n /\ \A i \in 0..n : i \in 0..n
    BY <1>3
  <2>2. Len(out[0]) = 0
    BY <1>1
  <2>3. off[0] = 0 /\ off[n] = Len(out[n]) /\ out[n] \in Seq(X)
    BY <1>5, <1>6, <2>1, <2>2, Zenon
  <2>4. ASSUME NEW i \in 0..n PROVE off[i] \in 0..Len(out[n])
    <3>1. off[i] \in Nat /\ off[n] \in Nat /\ off[i] <= off[n]
      BY <1>6, <1>8, <2>1
    <3> QED BY <2>3, <3>1
  <2> QED BY <2>3, <2>4
<1>11. \A i \in 1..n :
         /\ out[n][off[i]] = p[i]
         /\ \/ p[i] \notin special /\ off[i] = off[i - 1] + 1
            \/ /\ p[i] \in special /\ off[i] = off[i - 1] + 2
               /\ out[n][off[i - 1] + 1] = "\\"
  BY <1>9
<1> DEFINE e == LikeEscape(p)
<1>12. e = out[n]
  BY <1>2
<1> HIDE DEF e
<1>13. /\ e \in Seq(X) /\ off[0] = 0 /\ off[n] = Len(e)
       /\ \A i \in 0..n : off[i] \in 0..Len(e)
  BY <1>10, <1>12, Zenon
<1>14. \A i \in 1..n : e[off[i]] = p[i] /\
         \/ p[i] \notin special /\ off[i] = off[i - 1] + 1
         \/ p[i] \in special /\ off[i] = off[i - 1] + 2 /\ e[off[i - 1] + 1] = "\\"
  BY <1>11, <1>12
<1> QED BY <1>13, <1>14, Zenon DEF special, n, X, e

(* What is typed, escaped, with `%' behind it, matches what extends it.     *)
LEMMA MatchesExtension ==
    ASSUME NEW p \in Seq(Chars), NEW s \in Seq(Chars)
    PROVE  Like(LikeEscape(p) \o <<"%">>, s) <=> ExtendsTyped(s, p)
<1> DEFINE n == Len(p)
           w == Len(s)
           e == LikeEscape(p)
           L == Len(e)
           pat == e \o <<"%">>
           X == Chars \cup {"\\", "%"}
<1>1. PICK off :
      /\ e \in Seq(Chars \cup {"\\"})
      /\ off[0] = 0 /\ off[n] = L
      /\ \A i \in 0..n : off[i] \in 0..L
      /\ \A i \in 1..n :
            e[off[i]] = p[i] /\
            \/ /\ p[i] \notin {"\\", "%", "_"}
               /\ off[i] = off[i - 1] + 1
            \/ /\ p[i] \in {"\\", "%", "_"}
               /\ off[i] = off[i - 1] + 2
               /\ e[off[i - 1] + 1] = "\\"
  BY EscapedAt
<1>2. n \in Nat /\ w \in Nat /\ DOMAIN s = 1..w
  BY LenProperties
<1>3. /\ L \in Nat /\ pat \in Seq(X) /\ Len(pat) = L + 1
      /\ \A k \in 1..L : pat[k] = e[k]
      /\ pat[L + 1] = "%"
  <2>1. e \in Seq(Chars \cup {"\\"})
    BY <1>1
  <2> HIDE DEF e
  <2>2. e \in Seq(X) /\ <<"%">> \in Seq(X) /\ Len(<<"%">>) = 1 /\ <<"%">>[1] = "%"
    <3>1. Seq(Chars \cup {"\\"}) \subseteq Seq(X)
      OBVIOUS
    <3> QED BY <2>1, <3>1
  <2>3. Len(e) \in Nat
    BY <2>1, LenProperties
  <2>4. /\ pat \in Seq(X) /\ Len(pat) = Len(e) + 1
        /\ \A k \in 1..(Len(e) + 1) : pat[k] = IF k <= Len(e) THEN e[k]
                                               ELSE <<"%">>[k - Len(e)]
    <3> DEFINE t == <<"%">>
    <3> HIDE DEF t, X
    <3>1. t \in Seq(X) /\ Len(t) = 1
      BY <2>2 DEF t
    <3> QED BY <2>2, <3>1, ConcatProperties DEF t
  <2>5. \A k \in 1..Len(e) : k \in 1..(Len(e) + 1) /\ k <= Len(e)
    BY <2>3
  <2>6. /\ Len(e) + 1 \in 1..(Len(e) + 1) /\ ~(Len(e) + 1 <= Len(e))
        /\ (Len(e) + 1) - Len(e) = 1
    BY <2>3
  <2> HIDE DEF pat
  <2> QED BY <2>2, <2>3, <2>4, <2>5, <2>6
<1> HIDE DEF e, L, pat, X, n, w
<1>4. PICK m :
      /\ m[Len(pat) + 1] = {Len(s) + 1}
      /\ \A i \in 1..Len(pat) :
            /\ pat[i] = "%" =>
                 m[i] = {j \in 1..(Len(s) + 1) : \E k \in m[i + 1] : j <= k}
            /\ pat[i] \notin {"%", "_", "\\"} =>
                 m[i] = Before(pat[i], s, m[i + 1])
            /\ pat[i] = "\\" /\ i < Len(pat) =>
                 m[i] = Before(pat[i + 1], s, m[i + 2])
      /\ Like(pat, s) = (1 \in m[1])
  BY <1>3, LikeIs
<1>11. off[0] = 0 /\ off[n] = L /\ \A i \in 0..n : off[i] \in 0..L
  BY <1>1, Zenon
(* The whole rest of s matches the wildcard at the end. *)
<1>5. m[L + 1] = 1..(w + 1)
  <2>1. L + 1 \in 1..Len(pat) /\ (L + 1) + 1 = Len(pat) + 1
    BY <1>3
  <2>2. m[L + 1] = {j \in 1..(w + 1) : \E k \in m[(L + 1) + 1] : j <= k}
    BY <1>3, <1>4, <2>1 DEF w
  <2>3. m[(L + 1) + 1] = {w + 1}
    BY <1>4, <2>1 DEF w
  <2> QED BY <1>2, <2>2, <2>3
(* From one character of p to the one behind it. *)
<1>6. ASSUME NEW h \in 1..n
      PROVE  m[off[h - 1] + 1] = Before(p[h], s, m[off[h] + 1])
  <2>1. off[h] \in 0..L /\ off[h - 1] \in 0..L
    <3>1. h \in 0..n /\ h - 1 \in 0..n
      BY <1>2
    <3> QED BY <1>11, <3>1, Zenon
  <2>2. /\ e[off[h]] = p[h]
        /\ \/ /\ p[h] \notin {"\\", "%", "_"}
              /\ off[h] = off[h - 1] + 1
           \/ /\ off[h] = off[h - 1] + 2
              /\ e[off[h - 1] + 1] = "\\"
    BY <1>1
  <2>3. CASE p[h] \notin {"\\", "%", "_"} /\ off[h] = off[h - 1] + 1
    <3>1. off[h] \in 1..L /\ off[h] \in 1..Len(pat)
      <4> DEFINE a == off[h]
                 b == off[h - 1]
      <4>1. a = b + 1
        BY <2>3, Zenon
      <4>2. b \in 0..L /\ a \in 0..L
        BY <2>1, Zenon
      <4> HIDE DEF a, b
      <4>3. a \in 1..L /\ a \in 1..Len(pat)
        BY <1>3, <4>1, <4>2
      <4> QED BY <4>3 DEF a
    <3>2. pat[off[h]] = p[h]
      BY <1>3, <2>2, <3>1
    <3> QED BY <1>4, <2>3, <3>1, <3>2
  <2>4. CASE off[h] = off[h - 1] + 2 /\ e[off[h - 1] + 1] = "\\"
    <3> DEFINE i == off[h - 1] + 1
    <3>1. /\ i \in 1..L /\ i + 1 \in 1..L /\ i \in 1..Len(pat) /\ i < Len(pat)
          /\ i + 1 = off[h] /\ i + 2 = off[h] + 1
      BY <1>3, <2>1, <2>4
    <3>2. pat[i] = "\\" /\ pat[i + 1] = p[h]
      BY <1>3, <2>2, <2>4, <3>1
    <3> HIDE DEF i
    <3>3. m[i] = Before(pat[i + 1], s, m[i + 2])
      BY <1>4, <3>1, <3>2
    <3>4. m[i] = Before(p[h], s, m[off[h] + 1])
      BY <3>1, <3>2, <3>3
    <3> QED BY <3>4 DEF i
  <2> QED BY <2>2, <2>3, <2>4
(* The places from which the last i characters of p match. *)
<1> DEFINE Rest(i) == {j \in 1..(w + 1) :
                /\ j + i <= w + 1
                /\ \A k \in 1..i : Lower[s[j + k - 1]] = Lower[p[n - i + k]]}
<1>7. \A i \in 0..n : m[off[n - i] + 1] = Rest(i)
  <2> DEFINE S == {i \in 0..n : m[off[n - i] + 1] = Rest(i)}
  <2>1. 0 \in S
    <3>1. n - 0 = n /\ off[n] = L /\ 0 \in 0..n
      <4>1. n - 0 = n /\ 0 \in 0..n
        BY <1>2
      <4> QED BY <1>11, <4>1, Zenon
    <3>2. Rest(0) = 1..(w + 1)
      BY <1>2
    <3>3. m[off[n - 0] + 1] = Rest(0)
      <4> HIDE DEF Rest
      <4> QED BY <1>5, <3>1, <3>2
    <3> QED BY <3>1, <3>3
  <2>2. ASSUME NEW i \in 0..(n - 1), i \in S PROVE i + 1 \in S
    <3> DEFINE h == n - i
    <3>1. h \in 1..n /\ h - 1 = n - (i + 1) /\ i + 1 \in 0..n /\ i \in Nat
      BY <1>2
    <3>2. m[off[h] + 1] = Rest(i)
      BY <2>2
    <3>3. m[off[h - 1] + 1] = Before(p[h], s, Rest(i))
      BY <1>6, <3>1, <3>2
    <3>4. ASSUME NEW j PROVE j \in Before(p[h], s, Rest(i)) <=> j \in Rest(i + 1)
      <4>1. ASSUME j \in Before(p[h], s, Rest(i)) PROVE j \in Rest(i + 1)
        <5>1. /\ j \in 1..w /\ Lower[s[j]] = Lower[p[h]] /\ j + 1 \in 1..(w + 1)
              /\ (j + 1) + i <= w + 1
              /\ \A k \in 1..i : Lower[s[(j + 1) + k - 1]] = Lower[p[n - i + k]]
          BY <1>2, <4>1 DEF Before
        <5>2. ASSUME NEW k \in 1..(i + 1)
              PROVE  Lower[s[j + k - 1]] = Lower[p[n - (i + 1) + k]]
          <6>1. CASE k = 1
            <7>1. j + k - 1 = j /\ n - (i + 1) + k = h
              BY <1>2, <3>1, <5>1, <6>1
            <7> QED BY <5>1, <7>1
          <6>2. CASE k # 1
            <7>1. /\ k - 1 \in 1..i /\ j + k - 1 = (j + 1) + (k - 1) - 1
                  /\ n - (i + 1) + k = n - i + (k - 1)
              BY <1>2, <3>1, <5>1, <6>2
            <7> QED BY <5>1, <7>1
          <6> QED BY <6>1, <6>2
        <5>3. j \in 1..(w + 1) /\ j + (i + 1) <= w + 1
          BY <1>2, <3>1, <5>1
        <5> QED BY <5>2, <5>3
      <4>2. ASSUME j \in Rest(i + 1) PROVE j \in Before(p[h], s, Rest(i))
        <5>1. /\ j \in 1..(w + 1) /\ j + (i + 1) <= w + 1
              /\ \A k \in 1..(i + 1) : Lower[s[j + k - 1]] = Lower[p[n - (i + 1) + k]]
          BY <4>2
        <5>2. Lower[s[j]] = Lower[p[h]]
          <6>1. 1 \in 1..(i + 1) /\ j + 1 - 1 = j /\ n - (i + 1) + 1 = h
            BY <1>2, <3>1, <5>1
          <6> QED BY <5>1, <6>1
        <5>3. ASSUME NEW k \in 1..i
              PROVE  Lower[s[(j + 1) + k - 1]] = Lower[p[n - i + k]]
          <6>1. /\ k + 1 \in 1..(i + 1) /\ j + (k + 1) - 1 = (j + 1) + k - 1
                /\ n - (i + 1) + (k + 1) = n - i + k
            BY <1>2, <3>1, <5>1
          <6> QED BY <5>1, <6>1
        <5>4. j \in 1..w /\ j + 1 \in 1..(w + 1) /\ (j + 1) + i <= w + 1
          BY <1>2, <3>1, <5>1
        <5>5. j + 1 \in Rest(i)
          BY <5>3, <5>4
        <5> HIDE DEF Rest, h
        <5> QED BY <1>2, <5>2, <5>4, <5>5 DEF Before
      <4> HIDE DEF Rest, h
      <4> QED BY <4>1, <4>2
    <3>5. Before(p[h], s, Rest(i)) = Rest(i + 1)
      <4> HIDE DEF Rest, h
      <4> QED BY <3>4
    <3>6. m[off[n - (i + 1)] + 1] = Rest(i + 1)
      <4> HIDE DEF Rest, h
      <4> QED BY <3>1, <3>3, <3>5
    <3> HIDE DEF Rest, h
    <3> QED BY <3>1, <3>6
  <2> HIDE DEF S
  <2>3. \A i \in 0..n : i \in S
    BY <1>2, <2>1, <2>2, CountUp, Zenon
  <2> QED BY <2>3 DEF S
<1>8. m[1] = Rest(n)
  <2>1. n \in 0..n /\ n - n = 0 /\ off[0] + 1 = 1
    <3>1. n \in 0..n /\ n - n = 0
      BY <1>2
    <3>2. off[0] + 1 = 1
      BY <1>11
    <3> QED BY <3>1, <3>2
  <2> HIDE DEF Rest
  <2> QED BY <1>7, <2>1
<1>9. 1 \in Rest(n) <=> /\ n <= w
                        /\ \A k \in 1..n : Lower[s[k]] = Lower[p[k]]
  <2>1. /\ 1 \in 1..(w + 1) /\ (1 + n <= w + 1 <=> n <= w)
        /\ \A k \in 1..n : 1 + k - 1 = k /\ n - n + k = k
    BY <1>2
  <2> QED BY <2>1
<1>10. Like(pat, s) <=> 1 \in m[1]
  BY <1>4
<1> QED BY <1>8, <1>9, <1>10, Zenon DEF ExtendsTyped, pat, e, n, w

LEMMA Literally == HistoryTypeOK => LiteralPrefix
<1> SUFFICES ASSUME HistoryTypeOK, NEW h \in Hosts, NEW p \in Typed
             PROVE  Matches(h, p) = {i \in DOMAIN rows :
                                        /\ rows[i].host = h
                                        /\ ExtendsTyped(rows[i].command, p)
                                        /\ rows[i].command # p}
  BY DEF LiteralPrefix
<1>1. p \in Seq(Chars)
  <2>1. PICK c \in Commands : p \in Prefixes(c)
    BY DEF Typed
  <2>2. PICK l \in 0..Len(c) : p = SubSeq(c, 1, l)
    BY <2>1 DEF Prefixes
  <2>3. c \in Seq(Chars) /\ l \in Nat /\ l <= Len(c)
    BY <2>1, CharsAssumption, LenProperties
  <2> QED BY <2>2, <2>3, SubSeqProperties
<1>2. ASSUME NEW i \in DOMAIN rows PROVE rows[i].command \in Seq(Chars)
  <2>1. rows[i] \in Row
    BY DEF HistoryTypeOK
  <2> QED BY <2>1 DEF Row
<1>3. ASSUME NEW i \in DOMAIN rows
      PROVE  Like(LikeEscape(p) \o <<"%">>, rows[i].command)
                <=> ExtendsTyped(rows[i].command, p)
  BY <1>1, <1>2, MatchesExtension
<1> QED BY <1>3 DEF Matches

(* Wildcards typed by the user are matched literally, for every alphabet,   *)
(* case folding and table: the query finds what extends the typed text, up  *)
(* to case, and nothing else (like_escape, history.rs:289-301).             *)
THEOREM MatchesLiterally == HistorySpec => []LiteralPrefix
BY HistoryTypeCorrect, Literally, PTL
=============================================================================
