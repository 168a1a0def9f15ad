------------------------------ MODULE AppProofs ------------------------------
(***************************************************************************)
(* Proofs about the autosuggestion, for every history, every alphabet and  *)
(* lines, queues and screens of any size, whatever the user types and the  *)
(* remote does: the cursor stays inside the shadow, a suggestion completes *)
(* the shadow to a command of the history, and tagged records are true.    *)
(* What the query matches (LIKE) is left open: any rows of this host.      *)
(***************************************************************************)
EXTENDS App, FiniteSetTheorems, SequenceTheorems, WellFoundedInduction, TLAPS

(* A line accepted and not edited since is a command of the history; only a *)
(* new prompt can clear it without resetting the tag.                       *)
TagInv ==
    lastSug => \/ shadow = <<>>
               \/ \E i \in DOMAIN rows : rows[i].command = shadow

LineInv ==
    /\ shadow \in Seq(Chars) /\ cursor \in 0..Len(shadow)
    /\ suggestion \in Seq(Chars)
    /\ lastSug \in BOOLEAN

ShadowInv == HistoryTypeOK /\ LineInv /\ SuggestionExtends /\ TagTruthful /\ TagInv

PromptInv ==
    /\ promptPos = NoPos \/ promptPos \in Nat \X (0..Bottom)
    /\ cwd \in Cwds \cup {NoCwd}
    /\ lastEnter \in BOOLEAN

KeySet == UserKeys \cup {Char(c) : c \in Chars}
OscSet == {"prompt_start", "prompt_end", "command_start"} \cup Cwds
ScreenSet == [col : Nat, row : 0..Bottom, alt : BOOLEAN]
ChunkSet == [osc : Seq(OscSet), nl : BOOLEAN, scr : ScreenSet, prompt : BOOLEAN]

RemoteInv ==
    /\ mode \in {"prompt", "command", "fullscreen"}
    /\ left \in Seq(Chars) /\ right \in Seq(Chars) /\ base \in Nat
    /\ pos \in Nat \X (0..Bottom)

WireInv == up \in Seq(KeySet) /\ down \in Seq(ChunkSet)

AppInv == ShadowInv /\ PromptInv /\ RemoteInv /\ WireInv

-----------------------------------------------------------------------------
(* Operators. *)

(* A set of positions that is not empty has a last one.                     *)
LEMMA MaxIn ==
  ASSUME NEW n \in Nat, NEW S, S \subseteq 0..n, S # {}
  PROVE  Max(S) \in S
<1> DEFINE T == {n - x : x \in S}
<1>1. T \subseteq Nat /\ T # {}
  <2>1. ASSUME NEW x \in S PROVE n - x \in Nat
    <3>1. x \in 0..n
      OBVIOUS
    <3> QED BY <3>1
  <2>2. T # {}
    OBVIOUS
  <2> QED BY <2>1, <2>2
<1>2. PICK t \in T : \A y \in T : ~(<<y, t>> \in OpToRel(<, Nat))
  BY <1>1, NatLessThanWellFounded, WFMin
<1>3. \A y \in T : ~(y < t)
  BY <1>1, <1>2 DEF OpToRel
<1>4. PICK x \in S : t = n - x
  BY <1>2
<1>5. \A y \in S : x >= y
  <2>1. ASSUME NEW y \in S PROVE x >= y
    <3>1. n - y \in T
      OBVIOUS
    <3>2. ~(n - y < n - x)
      BY <1>3, <1>4, <3>1
    <3>3. x \in Int /\ y \in Int
      OBVIOUS
    <3> QED BY <3>2, <3>3
  <2> QED BY <2>1
<1> QED BY <1>5 DEF Max

LEMMA WordStartType ==
  ASSUME NEW line \in Seq(Chars), NEW i \in 0..Len(line)
  PROVE  WordStart(line, i) \in 0..i
<1>1. ASSUME NEW n \in Nat, NEW S, S \subseteq 1..n
      PROVE  LastAt(S) \in 0..n
  <2>1. CASE S = {}
    BY <2>1 DEF LastAt
  <2>2. CASE S # {}
    <3>1. S \subseteq 0..n
      BY <1>1
    <3>2. Max(S) \in S
      BY <2>2, <3>1, MaxIn
    <3> QED BY <2>2, <3>1, <3>2 DEF LastAt
  <2> QED BY <2>1, <2>2
<1> DEFINE end == LastAt({k \in 1..i : line[k] # Blank})
<1>2. end \in 0..i
  BY <1>1
<1> HIDE DEF end
<1>3. LastAt({k \in 1..end : line[k] = Blank}) \in 0..end
  BY <1>1, <1>2
<1>4. LastAt({k \in 1..end : line[k] = Blank}) \in 0..i
  BY <1>2, <1>3
<1> QED BY <1>4 DEF WordStart, end

LEMMA Joined ==
  ASSUME NEW S, NEW s \in Seq(S), NEW t \in Seq(S)
  PROVE  /\ s \o t \in Seq(S) /\ Len(s \o t) = Len(s) + Len(t)
         /\ \A k \in 1..(Len(s) + Len(t)) :
                (s \o t)[k] = IF k <= Len(s) THEN s[k] ELSE t[k - Len(s)]
BY ConcatProperties

LEMMA CutType ==
  ASSUME NEW line \in Seq(Chars), NEW i \in Nat, NEW j \in Nat,
         i <= j, j <= Len(line)
  PROVE  /\ Cut(line, i, j) \in Seq(Chars)
         /\ Len(Cut(line, i, j)) = Len(line) - (j - i)
         /\ i = j => Cut(line, i, j) = line
<1> DEFINE s == SubSeq(line, 1, i)
           t == SubSeq(line, j + 1, Len(line))
<1>1. /\ s \in Seq(Chars) /\ Len(s) = i
      /\ t \in Seq(Chars) /\ Len(t) = Len(line) - j
      /\ \A k \in 1..i : s[k] = line[k]
      /\ \A k \in 1..(Len(line) - j) : t[k] = line[k + j]
  OBVIOUS
<1>2. Cut(line, i, j) = s \o t
  BY DEF Cut
<1> HIDE DEF s, t
<1>3. /\ s \o t \in Seq(Chars) /\ Len(s \o t) = Len(line) - (j - i)
      /\ \A k \in 1..(Len(s) + Len(t)) :
             (s \o t)[k] = IF k <= Len(s) THEN s[k] ELSE t[k - Len(s)]
  <2>1. /\ s \o t \in Seq(Chars) /\ Len(s \o t) = Len(s) + Len(t)
        /\ \A k \in 1..(Len(s) + Len(t)) :
             (s \o t)[k] = IF k <= Len(s) THEN s[k] ELSE t[k - Len(s)]
    BY <1>1, Joined
  <2> QED BY <1>1, <2>1
<1>4. ASSUME i = j PROVE s \o t = line
  <2>1. Len(s \o t) = Len(line)
    BY <1>3, <1>4
  <2>2. ASSUME NEW k \in 1..Len(line) PROVE (s \o t)[k] = line[k]
    <3>1. CASE k <= i
      BY <1>1, <1>3, <1>4, <3>1
    <3>2. CASE k > i
      <4>1. k - i \in 1..(Len(line) - j) /\ k - i + j = k
        BY <1>4, <3>2
      <4>2. t[k - i] = line[k]
        BY <1>1, <4>1
      <4> QED BY <1>1, <1>3, <1>4, <3>2, <4>2
    <3>3. k <= i \/ k > i
      <4>1. Len(line) \in Nat
        OBVIOUS
      <4> QED BY <4>1
    <3> QED BY <3>1, <3>2, <3>3
  <2> QED BY <1>3, <2>1, <2>2, SeqEqual
<1> QED BY <1>2, <1>3, <1>4

LEMMA ColsType == ASSUME NEW line \in Seq(Chars) PROVE Cols(line) \in Nat
<1>1. DOMAIN line = 1..Len(line) /\ Len(line) \in Nat
  OBVIOUS
<1>2. IsFiniteSet({i \in DOMAIN line : line[i] \in Wide})
  <2>1. IsFiniteSet(1..Len(line))
    BY <1>1, FS_Interval
  <2> QED BY <1>1, <2>1, FS_Subset
<1> QED BY <1>1, <1>2, FS_CardinalityType DEF Cols

(* What a refreshed suggestion promises.                                    *)
LEMMA RefreshedSound ==
  ASSUME rows \in Seq(Row), NEW line \in Seq(Chars), NEW r \in Refreshed(line)
  PROVE  /\ r \in Seq(Chars)
         /\ r # <<>> => /\ line # <<>>
                        /\ \E i \in Recorded : rows[i].command = line \o r
<1> DEFINE Rest(c) == IF IsStrictPrefix(line, c)
                      THEN SubSeq(c, Len(line) + 1, Len(c)) ELSE <<>>
           found == Suggest(Host, cwd, line)
<1>1. found \subseteq Recorded /\ (line = <<>> => found = {})
  BY DEF Suggest, Newest, Matches, Recorded
<1>2. ASSUME NEW i \in Recorded PROVE rows[i].command \in Seq(Chars)
  <2>1. rows[i] \in Row
    BY <1>2 DEF Recorded
  <2> QED BY <2>1 DEF Row
<1>3. CASE r = <<>>
  BY <1>3
<1>4. CASE r # <<>>
  <2>1. PICK i \in found : r = Rest(rows[i].command)
    BY <1>4 DEF Refreshed
  <2>2. i \in Recorded /\ line # <<>>
    BY <1>1, <2>1
  <2> DEFINE c == rows[i].command
  <2>3. c \in Seq(Chars)
    BY <1>2, <2>2
  <2>4. /\ Len(line) <= Len(c)
        /\ SubSeq(line, 1, Len(line)) = SubSeq(c, 1, Len(line))
        /\ r = SubSeq(c, Len(line) + 1, Len(c))
    BY <1>4, <2>1 DEF IsStrictPrefix, IsPrefix
  <2> HIDE DEF c
  <2>5. r \in Seq(Chars) /\ Len(r) = Len(c) - Len(line)
    BY <2>3, <2>4
  <2>6. line = SubSeq(c, 1, Len(line))
    BY <2>4, SubSeqFull
  <2>7. c = line \o r
    <3>1. Len(line \o r) = Len(c) /\ line \o r \in Seq(Chars)
      BY <2>3, <2>4, <2>5
    <3>2. ASSUME NEW k \in 1..Len(c) PROVE (line \o r)[k] = c[k]
      <4>0. (line \o r)[k] = IF k <= Len(line) THEN line[k] ELSE r[k - Len(line)]
        <5>1. k \in 1..(Len(line) + Len(r))
          BY <2>3, <2>4, <2>5
        <5> QED BY <2>5, <5>1, Joined
      <4>1. CASE k <= Len(line)
        <5>1. SubSeq(c, 1, Len(line))[k] = c[k]
          BY <2>3, <2>4, <4>1
        <5> QED BY <2>6, <4>0, <4>1, <5>1
      <4>2. CASE k > Len(line)
        <5>1. r[k - Len(line)] = c[k]
          BY <2>3, <2>4, <4>2
        <5> QED BY <4>0, <4>2, <5>1
      <4>3. k <= Len(line) \/ k > Len(line)
        <5>1. Len(line) \in Nat /\ Len(c) \in Nat
          BY <2>3
        <5> QED BY <5>1
      <4> QED BY <4>1, <4>2, <4>3
    <3> QED BY <2>3, <3>1, <3>2, SeqEqual
  <2> QED BY <2>2, <2>5, <2>7 DEF c
<1> QED BY <1>3, <1>4

LEMMA InsertType ==
  ASSUME NEW line \in Seq(Chars), NEW i \in 0..Len(line), NEW c \in Chars
  PROVE  /\ InsertAt(line, i + 1, c) \in Seq(Chars)
         /\ Len(InsertAt(line, i + 1, c)) = Len(line) + 1
<1> DEFINE front == SubSeq(line, 1, i) \o <<c>>
           back == SubSeq(line, i + 1, Len(line))
<1>1. /\ SubSeq(line, 1, i) \in Seq(Chars) /\ Len(SubSeq(line, 1, i)) = i
      /\ back \in Seq(Chars) /\ Len(back) = Len(line) - i
      /\ <<c>> \in Seq(Chars) /\ Len(<<c>>) = 1
      /\ i \in Nat /\ Len(line) \in Nat /\ (i + 1) - 1 = i
  OBVIOUS
<1>2. InsertAt(line, i + 1, c) = front \o back
  BY <1>1, Zenon DEF InsertAt
<1>3. front \in Seq(Chars) /\ Len(front) = i + 1
  BY <1>1, Joined
<1> HIDE DEF front, back
<1>4. front \o back \in Seq(Chars) /\ Len(front \o back) = Len(front) + Len(back)
  BY <1>1, <1>3, Joined
<1>5. Len(front) + Len(back) = Len(line) + 1
  BY <1>1, <1>3
<1> QED BY <1>2, <1>4, <1>5

LEMMA LastOfType ==
  ASSUME NEW osc \in Seq(OscSet), NEW S
  PROVE  LastOf(osc, S) = <<>> \/ \E e \in S : LastOf(osc, S) = <<e>>
<1> DEFINE at == {n \in DOMAIN osc : osc[n] \in S}
<1>1. at \subseteq 0..Len(osc) /\ Len(osc) \in Nat
  OBVIOUS
<1>2. CASE at = {}
  BY <1>2 DEF LastOf
<1>3. CASE at # {}
  <2>1. Max(at) \in at
    BY <1>1, <1>3, MaxIn
  <2>2. osc[Max(at)] \in S
    BY <2>1
  <2> QED BY <1>3, <2>2 DEF LastOf
<1> QED BY <1>2, <1>3

-----------------------------------------------------------------------------
(* The shadow. *)

(* A line with a fresh suggestion, its tag kept only with the text.         *)
LEMMA FreshLine ==
  ASSUME ShadowInv, UNCHANGED historyVars,
         shadow' \in Seq(Chars), cursor' \in 0..Len(shadow'),
         suggestion' \in Refreshed(shadow'),
         lastSug' = FALSE \/ (lastSug' = lastSug /\ shadow' = shadow)
  PROVE  ShadowInv'
<1>1. rows \in Seq(Row) /\ rows' = rows
  BY DEF ShadowInv, HistoryTypeOK, historyVars
<1>2. /\ suggestion' \in Seq(Chars)
      /\ suggestion' # <<>> => /\ shadow' # <<>>
                               /\ \E i \in Recorded : rows[i].command = shadow' \o suggestion'
  BY <1>1, RefreshedSound
<1>3. SuggestionExtends'
  BY <1>1, <1>2 DEF SuggestionExtends, Recorded
<1>4. HistoryTypeOK' /\ LineInv' /\ TagTruthful'
  BY <1>1, <1>2 DEF ShadowInv, HistoryTypeOK, LineInv, TagTruthful, historyVars
<1>5. TagInv'
  BY <1>1 DEF ShadowInv, TagInv
<1> QED BY <1>3, <1>4, <1>5 DEF ShadowInv

LEMMA EditStep ==
  ASSUME ShadowInv, NEW k \in UserKeys, Edit(k)
  PROVE  ShadowInv'
<1>1. /\ shadow \in Seq(Chars) /\ cursor \in 0..Len(shadow) /\ Len(shadow) \in Nat
      /\ cursor \in Nat /\ cursor <= Len(shadow)
  BY DEF ShadowInv, LineInv
<1>2. UNCHANGED historyVars /\ suggestion' \in Refreshed(shadow')
  BY DEF Edit, historyVars
<1>3. /\ shadow' \in Seq(Chars) /\ cursor' \in 0..Len(shadow')
      /\ lastSug' = FALSE \/ (lastSug' = lastSug /\ shadow' = shadow)
  <2>1. CASE Insert(k)
    <3>1. k.char \in Chars
      BY <2>1, KeysAssumption DEF Insert
    <3> QED BY <1>1, <2>1, <3>1, InsertType DEF Insert, Becomes, Resets
  <2>2. CASE Backspace(k)
    <3>1. CASE cursor > 0
      <4>1. /\ Cut(shadow, cursor - 1, cursor) \in Seq(Chars)
            /\ Len(Cut(shadow, cursor - 1, cursor)) = Len(shadow) - (cursor - (cursor - 1))
        BY <1>1, <3>1, CutType
      <4> QED BY <1>1, <2>2, <3>1, <4>1 DEF Backspace, Becomes, Resets
    <3>2. CASE cursor = 0
      <4>1. shadow' = shadow /\ cursor' = cursor /\ lastSug' = lastSug
        BY <2>2, <3>2 DEF Backspace, Becomes, Keeps
      <4> QED BY <1>1, <4>1
    <3>3. cursor > 0 \/ cursor = 0
      BY <1>1
    <3> QED BY <3>1, <3>2, <3>3
  <2>3. CASE KillWord(k)
    <3> DEFINE word == WordStart(shadow, cursor)
    <3>1. word \in 0..cursor
      BY <1>1, WordStartType
    <3>2. /\ shadow' = Cut(shadow, word, cursor) /\ cursor' = word
          /\ IF word = cursor THEN lastSug' = lastSug ELSE lastSug' = FALSE
      BY <2>3 DEF KillWord, Becomes, Keeps, Resets
    <3> HIDE DEF word
    <3>3. /\ Cut(shadow, word, cursor) \in Seq(Chars)
          /\ Len(Cut(shadow, word, cursor)) = Len(shadow) - (cursor - word)
          /\ word = cursor => Cut(shadow, word, cursor) = shadow
      BY <1>1, <3>1, CutType
    <3> QED BY <1>1, <3>1, <3>2, <3>3
  <2>4. CASE k.key = "Ctrl-A" /\ Becomes(shadow, 0) /\ Keeps
    BY <1>1, <2>4 DEF Becomes, Keeps
  <2>5. CASE k.key = "Ctrl-E" /\ Becomes(shadow, Len(shadow)) /\ Keeps
    BY <1>1, <2>5 DEF Becomes, Keeps
  <2>6. CASE k.key = "Ctrl-L" /\ Becomes(shadow, cursor) /\ Keeps
    BY <1>1, <2>6 DEF Becomes, Keeps
  <2>7. CASE k.key = "Ctrl-K" /\ Becomes(SubSeq(shadow, 1, cursor), cursor) /\ Resets
    BY <1>1, <2>7 DEF Becomes, Resets
  <2>8. CASE Becomes(<<>>, 0) /\ Resets
    BY <2>8 DEF Becomes, Resets
  <2> QED BY <2>1, <2>2, <2>3, <2>4, <2>5, <2>6, <2>7, <2>8 DEF Edit
<1> QED BY <1>2, <1>3, FreshLine

LEMMA MoveStep ==
  ASSUME ShadowInv, NEW k \in UserKeys, Move(k) \/ Forget(k)
  PROVE  ShadowInv'
<1>1. /\ rows' = rows /\ now' = now
      /\ \/ UNCHANGED <<shadow, suggestion, lastSug>> /\ Move(k)
         \/ UNCHANGED <<shadow, cursor, lastSug>> /\ suggestion' = <<>>
         \/ shadow' = <<>> /\ cursor' = 0 /\ suggestion' = <<>> /\ lastSug' = FALSE
  BY DEF Move, Forget, historyVars
<1>2. lastSug' \in BOOLEAN
  BY <1>1 DEF ShadowInv, LineInv
<1>3. shadow' \in Seq(Chars) /\ cursor' \in 0..Len(shadow') /\ suggestion' \in Seq(Chars)
  <2>1. CASE UNCHANGED <<shadow, suggestion>> /\ Move(k)
    <3>1. cursor' \in 0..Len(shadow)
      BY <2>1 DEF Move, ShadowInv, LineInv
    <3> QED BY <2>1, <3>1 DEF ShadowInv, LineInv
  <2>2. CASE UNCHANGED <<shadow, cursor>> /\ suggestion' = <<>>
    BY <2>2 DEF ShadowInv, LineInv
  <2>3. CASE shadow' = <<>> /\ cursor' = 0 /\ suggestion' = <<>>
    BY <2>3 DEF ShadowInv, LineInv
  <2> QED BY <1>1, <2>1, <2>2, <2>3
<1>4. LineInv'
  BY <1>2, <1>3 DEF LineInv
<1>5. HistoryTypeOK' /\ TagTruthful'
  BY <1>1 DEF ShadowInv, HistoryTypeOK, TagTruthful
<1>6. SuggestionExtends' /\ TagInv'
  <2>1. CASE UNCHANGED <<shadow, suggestion, lastSug>>
    BY <1>1, <2>1 DEF ShadowInv, SuggestionExtends, TagInv, Recorded
  <2>2. CASE UNCHANGED <<shadow, lastSug>> /\ suggestion' = <<>>
    BY <1>1, <2>2 DEF ShadowInv, SuggestionExtends, TagInv, Recorded
  <2>3. CASE suggestion' = <<>> /\ lastSug' = FALSE
    BY <2>3 DEF SuggestionExtends, TagInv
  <2> QED BY <1>1, <2>1, <2>2, <2>3
<1> QED BY <1>4, <1>5, <1>6 DEF ShadowInv

(* Accepting makes the line one of the history, so that its tag is true.    *)
LEMMA AcceptStep ==
  ASSUME ShadowInv, NEW k \in UserKeys, Accept(k)
  PROVE  ShadowInv'
<1>1. /\ rows' = rows /\ now' = now /\ rows \in Seq(Row)
      /\ shadow' = shadow \o suggestion /\ cursor' = Len(shadow')
      /\ suggestion' \in Refreshed(shadow') /\ suggestion # <<>> /\ lastSug' = TRUE
  BY DEF Accept, Accepting, historyVars, ShadowInv, HistoryTypeOK
<1>2. shadow' \in Seq(Chars) /\ cursor' \in 0..Len(shadow')
  <2>1. shadow \in Seq(Chars) /\ suggestion \in Seq(Chars)
    BY DEF ShadowInv, LineInv
  <2> QED BY <1>1, <2>1, Joined
<1>3. /\ suggestion' \in Seq(Chars)
      /\ suggestion' # <<>> => /\ shadow' # <<>>
                               /\ \E i \in Recorded : rows[i].command = shadow' \o suggestion'
  BY <1>1, <1>2, RefreshedSound
<1>4. SuggestionExtends'
  BY <1>1, <1>3 DEF SuggestionExtends, Recorded
<1>5. TagInv'
  BY <1>1 DEF ShadowInv, SuggestionExtends, Recorded, TagInv
<1>6. LineInv' /\ HistoryTypeOK' /\ TagTruthful'
  BY <1>1, <1>2, <1>3 DEF ShadowInv, LineInv, HistoryTypeOK, TagTruthful
<1> QED BY <1>4, <1>5, <1>6 DEF ShadowInv

LEMMA EnterStep ==
  ASSUME ShadowInv, PromptInv, NEW k \in UserKeys, Enter(k)
  PROVE  ShadowInv'
<1>1. shadow' = <<>> /\ cursor' = 0 /\ suggestion' = <<>> /\ lastSug' = FALSE
  BY DEF Enter
<1>2. LineInv' /\ SuggestionExtends' /\ TagInv'
  <2>1. shadow' \in Seq(Chars) /\ cursor' \in 0..Len(shadow') /\ suggestion' \in Seq(Chars)
    BY <1>1
  <2>2. lastSug' \in BOOLEAN
    BY <1>1
  <2> QED BY <1>1, <2>1, <2>2 DEF LineInv, SuggestionExtends, TagInv
<1>3. HistoryTypeOK' /\ TagTruthful'
  <2>1. CASE UNCHANGED historyVars
    BY <2>1 DEF ShadowInv, HistoryTypeOK, TagTruthful, historyVars
  <2> DEFINE src == IF lastSug THEN "suggest_history" ELSE "user"
             row == [host |-> Host, cwd |-> cwd, command |-> shadow,
                     timestamp |-> now, exit |-> "null", source |-> src]
  <2>2. CASE shadow # <<>> /\ Record(Host, cwd, shadow, src)
    <3>1. rows' = Append(rows, row) /\ now' = now
      BY <2>2 DEF Record
    <3>2. rows \in Seq(Row) /\ now \in 0..MaxTime /\ now \in Nat
      BY HistoryBounds DEF ShadowInv, HistoryTypeOK
    <3>3. row \in Row
      BY <3>2, AppAssumption DEF Row, Source, ExitCode, ShadowInv, LineInv, PromptInv
    <3>4. row.source = src /\ row.command = shadow
      OBVIOUS
    <3> HIDE DEF row
    <3>5. HistoryTypeOK'
      BY <3>1, <3>2, <3>3 DEF HistoryTypeOK
    <3>6. /\ Len(rows') = Len(rows) + 1 /\ rows'[Len(rows) + 1] = row
          /\ \A i \in 1..Len(rows) : rows'[i] = rows[i]
          /\ DOMAIN rows' = 1..Len(rows') /\ DOMAIN rows = 1..Len(rows)
          /\ Len(rows) \in Nat
      BY <3>1, <3>2, <3>3
    <3>7. ASSUME NEW i \in DOMAIN rows', rows'[i].source = "suggest_history"
          PROVE  \E j \in 1..(i - 1) : rows'[j].command = rows'[i].command
      <4>1. CASE i <= Len(rows)
        <5>1. rows[i].source = "suggest_history" /\ i \in DOMAIN rows
          BY <3>6, <3>7, <4>1
        <5>2. PICK j \in 1..(i - 1) : rows[j].command = rows[i].command
          BY <5>1 DEF ShadowInv, TagTruthful
        <5> QED BY <3>6, <4>1, <5>2
      <4>2. CASE i = Len(rows) + 1
        <5>1. lastSug
          BY <3>4, <3>6, <3>7, <4>2
        <5>2. PICK j \in DOMAIN rows : rows[j].command = shadow
          BY <2>2, <5>1 DEF ShadowInv, TagInv
        <5> QED BY <3>4, <3>6, <4>2, <5>2
      <4> QED BY <3>6, <4>1, <4>2
    <3> QED BY <3>5, <3>7 DEF TagTruthful
  <2> QED BY <2>1, <2>2 DEF Enter
<1> QED BY <1>2, <1>3 DEF ShadowInv

-----------------------------------------------------------------------------
(* Output. *)

(* What output and the environment may leave of the shadow.                 *)
LEMMA KeptLine ==
  ASSUME ShadowInv, UNCHANGED <<rows, lastSug>>, now' \in 0..MaxTime,
         \/ UNCHANGED <<shadow, cursor, suggestion>>
         \/ shadow' = <<>> /\ cursor' = 0 /\ suggestion' = <<>>
  PROVE  ShadowInv'
<1>1. shadow' \in Seq(Chars) /\ cursor' \in 0..Len(shadow') /\ suggestion' \in Seq(Chars)
  <2>1. CASE UNCHANGED <<shadow, cursor, suggestion>>
    BY <2>1 DEF ShadowInv, LineInv
  <2>2. CASE shadow' = <<>> /\ cursor' = 0 /\ suggestion' = <<>>
    BY <2>2
  <2> QED BY <2>1, <2>2
<1>2. LineInv' /\ HistoryTypeOK' /\ TagTruthful'
  BY <1>1 DEF ShadowInv, LineInv, HistoryTypeOK, TagTruthful
<1>3. SuggestionExtends' /\ TagInv'
  BY DEF ShadowInv, SuggestionExtends, TagInv, Recorded
<1> QED BY <1>2, <1>3 DEF ShadowInv

LEMMA OutputStep ==
  ASSUME AppInv, OnOutput
  PROVE  AppInv'
<1> DEFINE c == Head(down)
           st == OscApplied(c)
           at == <<c.scr.col, c.scr.row>>
<1>1. /\ down # <<>> /\ down' = Tail(down) /\ up' = up
      /\ UNCHANGED <<historyVars, lastSug, remoteVars>>
      /\ shadow' = st.line /\ cursor' = st.i /\ suggestion' = st.sug /\ cwd' = st.cwd
      /\ promptPos' \in {at, st.prompt}
      /\ lastEnter' \in BOOLEAN
  BY DEF OnOutput
<1>2. /\ c.osc \in Seq(OscSet) /\ at \in Nat \X (0..Bottom)
      /\ Tail(down) \in Seq(ChunkSet)
  <2>1. down \in Seq(ChunkSet)
    BY DEF AppInv, WireInv
  <2>2. c \in ChunkSet /\ Tail(down) \in Seq(ChunkSet)
    BY <1>1, <2>1, HeadTailProperties
  <2> HIDE DEF c
  <2>3. c.osc \in Seq(OscSet) /\ c.scr \in ScreenSet
    BY <2>2 DEF ChunkSet
  <2>4. c.scr.col \in Nat /\ c.scr.row \in 0..Bottom
    BY <2>3 DEF ScreenSet
  <2> QED BY <2>2, <2>3, <2>4
<1> HIDE DEF c
<1>3. /\ st.prompt \in {promptPos, at, NoPos}
      /\ \/ st.line = shadow /\ st.i = cursor /\ st.sug = suggestion
         \/ st.line = <<>> /\ st.i = 0 /\ st.sug = <<>>
      /\ st.cwd \in Cwds \cup {cwd}
  <2> DEFINE dir == LastOf(c.osc, Cwds)
             mark == LastOf(c.osc, {"prompt_end", "command_start"})
             fresh == "prompt_end" \in Range(c.osc)
  <2>1. /\ st.prompt = IF mark = <<>> THEN promptPos
                       ELSE IF mark = <<"prompt_end">> THEN at ELSE NoPos
        /\ st.line = IF fresh THEN <<>> ELSE shadow
        /\ st.i = IF fresh THEN 0 ELSE cursor
        /\ st.sug = IF fresh THEN <<>> ELSE suggestion
        /\ st.cwd = IF dir = <<>> THEN cwd ELSE dir[1]
    BY DEF OscApplied
  <2>2. dir = <<>> \/ \E e \in Cwds : dir = <<e>>
    BY <1>2, LastOfType
  <2> HIDE DEF dir, mark, fresh, st, at
  <2>3. st.cwd \in Cwds \cup {cwd}
    BY <2>1, <2>2
  <2> QED BY <2>1, <2>3
<1> HIDE DEF st, at
<1>4. ShadowInv'
  <2>1. ShadowInv /\ UNCHANGED <<rows, now, lastSug>>
    BY <1>1 DEF AppInv, historyVars
  <2>2. now' \in 0..MaxTime
    BY <2>1 DEF ShadowInv, HistoryTypeOK
  <2> QED BY <1>1, <1>3, <2>1, <2>2, KeptLine
<1>5. PromptInv'
  <2>1. /\ promptPos = NoPos \/ promptPos \in Nat \X (0..Bottom)
        /\ cwd \in Cwds \cup {NoCwd}
    BY DEF AppInv, PromptInv
  <2>2. promptPos' = NoPos \/ promptPos' \in Nat \X (0..Bottom)
    BY <1>1, <1>2, <1>3, <2>1
  <2>3. cwd' \in Cwds \cup {NoCwd}
    BY <1>1, <1>3, <2>1
  <2> QED BY <1>1, <2>2, <2>3 DEF PromptInv
<1>6. RemoteInv'
  BY <1>1 DEF AppInv, RemoteInv, remoteVars
<1>7. WireInv'
  BY <1>1, <1>2 DEF AppInv, WireInv
<1> QED BY <1>4, <1>5, <1>6, <1>7 DEF AppInv

-----------------------------------------------------------------------------
(* Keys. *)

LEMMA KeyStep ==
  ASSUME AppInv, NEW k \in UserKeys, OnKey(k)
  PROVE  AppInv'
<1>1. ShadowInv /\ PromptInv /\ RemoteInv /\ up \in Seq(KeySet)
  BY DEF AppInv, WireInv
<1>2. ShadowInv'
  BY <1>1, EditStep, MoveStep, AcceptStep, EnterStep DEF OnKey
<1>3. PromptInv'
  <2>1. lastEnter' \in BOOLEAN
    <3>1. lastEnter \in BOOLEAN
      BY <1>1 DEF PromptInv
    <3> QED BY <3>1 DEF OnKey, Accept, Edit, Move, Forget, Enter
  <2>2. promptPos' = promptPos /\ cwd' = cwd
    BY DEF OnKey
  <2> QED BY <1>1, <2>1, <2>2 DEF PromptInv
<1>4. RemoteInv'
  BY <1>1 DEF OnKey, RemoteInv, remoteVars
<1>5. up' \in Seq(KeySet)
  <2>1. CASE Accept(k)
    <3> DEFINE sent == [i \in DOMAIN suggestion |-> Char(suggestion[i])]
    <3>1. suggestion \in Seq(Chars)
      BY <1>1 DEF ShadowInv, LineInv
    <3>2. \A i \in DOMAIN suggestion : Char(suggestion[i]) \in KeySet
      BY <3>1 DEF KeySet
    <3>3. sent \in Seq(KeySet)
      <4>1. DOMAIN suggestion = 1..Len(suggestion) /\ Len(suggestion) \in Nat
        BY <3>1
      <4> QED BY <3>2, <4>1
    <3>4. up' = up \o sent
      BY <2>1 DEF Accept
    <3> HIDE DEF sent
    <3> QED BY <1>1, <3>3, <3>4, ConcatProperties
  <2>2. CASE up' = Append(up, k)
    <3>1. k \in KeySet
      BY DEF KeySet
    <3> QED BY <1>1, <2>2, <3>1, AppendProperties
  <2> QED BY <2>1, <2>2 DEF OnKey
<1>6. WireInv'
  BY <1>5 DEF OnKey, AppInv, WireInv
<1> QED BY <1>2, <1>3, <1>4, <1>6 DEF AppInv

(* What leaves App alone.                                                   *)
LEMMA AppFrame ==
  ASSUME AppInv, UNCHANGED <<rows, appVars>>, now' \in 0..MaxTime
  PROVE  ShadowInv' /\ PromptInv'
<1>1. UNCHANGED <<shadow, cursor, suggestion, lastSug, promptPos, cwd, lastEnter>>
  BY DEF appVars
<1>2. ShadowInv'
  BY <1>1, KeptLine DEF AppInv
<1>3. PromptInv'
  BY <1>1 DEF AppInv, PromptInv
<1> QED BY <1>2, <1>3

LEMMA PasteStep ==
  ASSUME AppInv, NEW c \in Chars, Paste(c)
  PROVE  AppInv'
<1>1. /\ UNCHANGED <<historyVars, appVars, down, remoteVars>>
      /\ up' = Append(up, Char(c))
  BY DEF Paste
<1>2. UNCHANGED <<rows, appVars>> /\ now' \in 0..MaxTime
  BY <1>1 DEF historyVars, AppInv, ShadowInv, HistoryTypeOK
<1>3. ShadowInv' /\ PromptInv'
  BY <1>2, AppFrame
<1>4. RemoteInv'
  BY <1>1 DEF AppInv, RemoteInv, remoteVars
<1>5. WireInv'
  <2>1. Char(c) \in KeySet
    BY DEF KeySet
  <2> QED BY <1>1, <2>1, AppendProperties DEF AppInv, WireInv
<1> QED BY <1>3, <1>4, <1>5 DEF AppInv

-----------------------------------------------------------------------------
(* The remote. *)

LEMMA ReadlineType ==
  ASSUME RemoteInv, NEW k \in KeySet, Readline(k)
  PROVE  left' \in Seq(Chars) /\ right' \in Seq(Chars)
<1>1. left \in Seq(Chars) /\ right \in Seq(Chars) /\ Len(left) \in Nat /\ <<>> \in Seq(Chars)
  BY DEF RemoteInv
<1>2. k.key = "Char" => k.char \in Chars
  BY KeysAssumption DEF KeySet, Char
<1>3. ASSUME NEW n \in Nat PROVE SubSeq(left, 1, Len(left) - n) \in Seq(Chars)
  BY <1>1
<1>4. left \o right \in Seq(Chars)
  BY <1>1, ConcatProperties
<1>5. CASE k.key = "Char" /\ left' = Append(left, k.char) /\ right' = right
  BY <1>1, <1>2, <1>5
<1>6. CASE \E n \in Nat : left' = SubSeq(left, 1, Len(left) - n) /\ right' = right
  BY <1>1, <1>3, <1>6
<1>7. CASE left' = left /\ right' = SubSeq(right, 2, Len(right))
  BY <1>1, <1>7
<1>8. CASE left # <<>> /\ left' = SubSeq(left, 1, Len(left) - 1)
           /\ right' = <<Last(left)>> \o right
  <2>1. <<Last(left)>> \in Seq(Chars)
    BY <1>1, <1>8 DEF Last
  <2> QED BY <1>1, <1>3, <1>8, <2>1, ConcatProperties
<1>9. CASE right # <<>> /\ left' = Append(left, Head(right)) /\ right' = Tail(right)
  <2>1. Head(right) \in Chars /\ Tail(right) \in Seq(Chars)
    BY <1>1, <1>9, HeadTailProperties
  <2> QED BY <1>1, <1>9, <2>1
<1>10. CASE left' \in {<<>>, left, left \o right} /\ right' \in {<<>>, right, left \o right}
  BY <1>1, <1>4, <1>10
<1>11. CASE k.key = "Backspace" /\ left' = SubSeq(left, 1, Len(left) - 1) /\ right' = right
  BY <1>6, <1>11
<1>12. CASE \E n \in 0..Len(left) : left' = SubSeq(left, 1, Len(left) - n) /\ right' = right
  <2>1. PICK n \in 0..Len(left) : left' = SubSeq(left, 1, Len(left) - n) /\ right' = right
    BY <1>12
  <2>2. n \in Nat
    BY <1>1, <2>1
  <2> QED BY <1>6, <2>1, <2>2
<1>13. CASE k.key = "Left"
  <2>1. IF left = <<>> THEN left' = left /\ right' = right
        ELSE left' = SubSeq(left, 1, Len(left) - 1) /\ right' = <<Last(left)>> \o right
    BY <1>13 DEF Readline
  <2> QED BY <1>8, <1>10, <2>1
<1>14. CASE k.key = "Right"
  <2>1. IF right = <<>> THEN left' = left /\ right' = right
        ELSE left' = Append(left, Head(right)) /\ right' = Tail(right)
    BY <1>14 DEF Readline
  <2> QED BY <1>9, <1>10, <2>1
<1>15. CASE k.key = "Ctrl-W"
  <2>1. \E n \in 0..Len(left) :
          left' = SubSeq(left, 1, Len(left) - n) /\ right' = right
    BY <1>15 DEF Readline
  <2> QED BY <1>12, <2>1
<1>16. CASE k.key = "Char" \/ k.key = "Backspace" \/ k.key \in {"Delete", "Ctrl-D"}
  BY <1>5, <1>7, <1>11, <1>16 DEF Readline
<1>17. CASE k.key \in {"Home", "Ctrl-A", "End", "Ctrl-E", "Ctrl-U", "Ctrl-K"}
  BY <1>10, <1>17 DEF Readline
<1>18. k.key \in {"Left", "Right", "Ctrl-W", "Char", "Backspace", "Delete", "Ctrl-D",
                  "Home", "Ctrl-A", "End", "Ctrl-E", "Ctrl-U", "Ctrl-K"}
  BY DEF Readline
<1> QED BY <1>13, <1>14, <1>15, <1>16, <1>17, <1>18

LEMMA Printed ==
  ASSUME WireInv, NEW osc \in Seq(OscSet), NEW nl \in BOOLEAN, NEW alt \in BOOLEAN,
         NEW prompt \in BOOLEAN, NEW p \in Nat \X (0..Bottom),
         down' = Append(down, Chunk(osc, nl, Screen(p, alt), prompt))
  PROVE  down' \in Seq(ChunkSet)
<1>1. p[1] \in Nat /\ p[2] \in 0..Bottom
  OBVIOUS
<1>2. Screen(p, alt) \in ScreenSet
  BY <1>1 DEF Screen, ScreenSet
<1>3. Chunk(osc, nl, Screen(p, alt), prompt) \in ChunkSet
  BY <1>2 DEF Chunk, ChunkSet
<1> QED BY <1>3, AppendProperties DEF WireInv

LEMMA EnvFrame ==
  ASSUME AppInv, UNCHANGED <<historyVars, appVars>>, RemoteInv', WireInv'
  PROVE  AppInv'
<1>1. UNCHANGED <<rows, appVars>> /\ now' \in 0..MaxTime
  BY DEF historyVars, AppInv, ShadowInv, HistoryTypeOK
<1> QED BY <1>1, AppFrame DEF AppInv

LEMMA Positions ==
  ASSUME RemoteInv
  PROVE  /\ pos[1] \in Nat /\ pos[2] \in 0..Bottom /\ NextRow \in 0..Bottom
         /\ <<pos[1], pos[2]>> = pos
<1>1. pos \in Nat \X (0..Bottom) /\ Bottom \in Nat
  BY AppAssumption DEF RemoteInv
<1>2. pos[1] \in Nat /\ pos[2] \in 0..Bottom
  BY <1>1
<1>3. NextRow \in 0..Bottom
  BY <1>1, <1>2 DEF NextRow
<1> QED BY <1>1, <1>2, <1>3

(* A step at the prompt that changes the line.                              *)
LEMMA LineStep ==
  ASSUME AppInv, ShellEdits \/ ShellReplaces
  PROVE  AppInv'
<1>1. /\ up # <<>> /\ up' = Tail(up)
      /\ UNCHANGED <<historyVars, appVars, mode, base>>
      /\ pos' = <<base + Cols(left'), pos[2]>>
      /\ Prints(<<>>, FALSE, FALSE, FALSE)
  BY DEF ShellEdits, ShellReplaces
<1>2. RemoteInv /\ WireInv
  BY DEF AppInv
<1>3. Head(up) \in KeySet /\ Tail(up) \in Seq(KeySet)
  BY <1>1, <1>2, HeadTailProperties DEF WireInv
<1>4. left' \in Seq(Chars) /\ right' \in Seq(Chars)
  <2>1. CASE ShellEdits
    BY <1>2, <1>3, <2>1, ReadlineType DEF ShellEdits
  <2>2. CASE ShellReplaces
    <3>1. left' \in Commands \cup {<<>>} /\ right' \in {right, <<>>}
      BY <2>2 DEF ShellReplaces
    <3>2. /\ <<>> \in Seq(Chars) /\ right \in Seq(Chars)
          /\ \A c \in Commands : c \in Seq(Chars)
      BY <1>2, CharsAssumption DEF RemoteInv
    <3> QED BY <3>1, <3>2
  <2> QED BY <2>1, <2>2
<1>5. pos' \in Nat \X (0..Bottom)
  BY <1>1, <1>2, <1>4, ColsType, Positions DEF RemoteInv
<1>6. RemoteInv'
  BY <1>1, <1>2, <1>4, <1>5 DEF RemoteInv
<1>7. WireInv'
  <2>1. down' \in Seq(ChunkSet)
    <3>1. <<>> \in Seq(OscSet)
      OBVIOUS
    <3> QED BY <1>1, <1>2, <1>5, <3>1, Printed DEF Prints
  <2> QED BY <1>1, <1>3, <2>1 DEF WireInv
<1> QED BY <1>1, <1>6, <1>7, EnvFrame

LEMMA MarksType == ASSUME NEW marked PROVE PromptMarks(marked) \in Seq(OscSet)
<1>1. <<"prompt_start", "prompt_end">> \in Seq(OscSet) /\ <<>> \in Seq(OscSet)
  BY DEF OscSet
<1> QED BY <1>1 DEF PromptMarks

LEMMA RedrawStep == ASSUME AppInv, ShellRedraws PROVE AppInv'
<1>1. /\ up # <<>> /\ up' = Tail(up)
      /\ UNCHANGED <<historyVars, appVars, mode, left, right>>
      /\ base' = 2 /\ pos' = <<2 + Cols(left), 0>>
      /\ \E marked \in Markers : Prints(PromptMarks(marked), FALSE, FALSE, FALSE)
      /\ RemoteInv /\ WireInv
  BY DEF ShellRedraws, AppInv
<1>2. Tail(up) \in Seq(KeySet)
  BY <1>1, HeadTailProperties DEF WireInv
<1>3. pos' \in Nat \X (0..Bottom)
  <2>1. Cols(left) \in Nat
    BY <1>1, ColsType DEF RemoteInv
  <2>2. 0 \in 0..Bottom
    BY AppAssumption
  <2> QED BY <1>1, <2>1, <2>2
<1>4. RemoteInv'
  BY <1>1, <1>3 DEF RemoteInv
<1>5. down' \in Seq(ChunkSet)
  BY <1>1, <1>3, MarksType, Printed DEF Prints
<1> QED BY <1>1, <1>2, <1>4, <1>5, EnvFrame DEF WireInv

LEMMA LeaveStep == ASSUME AppInv, ShellLeavesLine PROVE AppInv'
<1>1. /\ up # <<>> /\ up' = Tail(up)
      /\ UNCHANGED <<historyVars, appVars>> /\ base' = 0
      /\ pos' = <<0, NextRow>> /\ mode' = "command" /\ left' = <<>> /\ right' = <<>>
      /\ \E osc \in {<<"command_start">>, <<>>} : Prints(osc, TRUE, FALSE, FALSE)
  BY DEF ShellLeavesLine
<1>2. RemoteInv /\ WireInv
  BY DEF AppInv
<1>3. Tail(up) \in Seq(KeySet)
  BY <1>1, <1>2, HeadTailProperties DEF WireInv
<1>4. pos' \in Nat \X (0..Bottom)
  BY <1>1, <1>2, Positions
<1>5. RemoteInv'
  BY <1>1, <1>2, <1>4 DEF RemoteInv
<1>6. down' \in Seq(ChunkSet)
  <2>1. <<>> \in Seq(OscSet) /\ <<"command_start">> \in Seq(OscSet)
    BY DEF OscSet
  <2> QED BY <1>1, <1>2, <1>4, <2>1, Printed DEF Prints
<1> QED BY <1>1, <1>3, <1>5, <1>6, EnvFrame DEF WireInv

LEMMA CommandStep == ASSUME AppInv, CommandPrints PROVE AppInv'
<1>1. PICK nl \in BOOLEAN, col \in {0, 1} :
        /\ pos' = <<col, IF nl THEN NextRow ELSE pos[2]>>
        /\ Prints(<<>>, nl, FALSE, FALSE)
  BY DEF CommandPrints
<1>2. /\ UNCHANGED <<historyVars, appVars, up, mode, left, right, base>>
      /\ RemoteInv /\ WireInv
  BY DEF CommandPrints, AppInv
<1>3. pos' \in Nat \X (0..Bottom)
  BY <1>1, <1>2, Positions
<1>4. RemoteInv'
  BY <1>2, <1>3 DEF RemoteInv
<1>5. down' \in Seq(ChunkSet)
  <2>1. <<>> \in Seq(OscSet)
    OBVIOUS
  <2> QED BY <1>1, <1>2, <1>3, <2>1, Printed DEF Prints
<1> QED BY <1>2, <1>4, <1>5, EnvFrame DEF WireInv

LEMMA PromptStep == ASSUME AppInv, ShellPrompts PROVE AppInv'
<1>1. PICK dir \in IF Cwds = {} THEN {<<>>} ELSE {<<d>> : d \in Cwds}, marked \in Markers :
        Prints(dir \o PromptMarks(marked), FALSE, FALSE, TRUE)
  BY DEF ShellPrompts
<1>2. /\ UNCHANGED <<historyVars, appVars, up, left, right>>
      /\ mode' = "prompt" /\ pos' = <<pos[1] + 2, pos[2]>> /\ base' = pos'[1]
      /\ RemoteInv /\ WireInv
  BY DEF ShellPrompts, AppInv
<1>3. pos' \in Nat \X (0..Bottom) /\ base' \in Nat
  BY <1>2, Positions
<1>4. RemoteInv'
  BY <1>2, <1>3 DEF RemoteInv
<1>5. down' \in Seq(ChunkSet)
  <2>1. dir \in Seq(OscSet)
    <3>1. CASE dir = <<>>
      BY <3>1
    <3>2. ASSUME NEW d \in Cwds, dir = <<d>> PROVE dir \in Seq(OscSet)
      <4>1. d \in OscSet
        BY DEF OscSet
      <4>2. <<d>> \in Seq(OscSet)
        BY <4>1
      <4> QED BY <3>2, <4>2
    <3>3. dir = <<>> \/ \E d \in Cwds : dir = <<d>>
      BY <1>1
    <3> QED BY <3>1, <3>2, <3>3
  <2>2. dir \o PromptMarks(marked) \in Seq(OscSet)
    BY <2>1, MarksType, ConcatProperties
  <2> QED BY <1>1, <1>2, <1>3, <2>2, Printed DEF Prints
<1> QED BY <1>2, <1>4, <1>5, EnvFrame DEF WireInv

LEMMA ProgramStep == ASSUME AppInv, ProgramStarts \/ ProgramReads PROVE AppInv'
<1>1. /\ UNCHANGED <<historyVars, appVars, left, right, base, pos>>
      /\ mode' \in {mode, "fullscreen", "command"}
      /\ RemoteInv /\ WireInv
  BY DEF ProgramStarts, ProgramReads, AppInv
<1>2. RemoteInv'
  BY <1>1 DEF RemoteInv
<1>3. up' \in Seq(KeySet)
  <2>1. up' = up \/ (up # <<>> /\ up' = Tail(up))
    BY DEF ProgramStarts, ProgramReads
  <2> QED BY <1>1, <2>1, HeadTailProperties DEF WireInv
<1>4. down' \in Seq(ChunkSet)
  <2>1. PICK p \in Nat \X (0..Bottom), nl \in BOOLEAN, alt \in BOOLEAN :
          down' = Append(down, Chunk(<<>>, nl, Screen(p, alt), FALSE))
    <3>1. ASSUME NEW col \in {0, 1} PROVE <<col, 0>> \in Nat \X (0..Bottom)
      BY AppAssumption
    <3>2. pos \in Nat \X (0..Bottom)
      BY <1>1 DEF RemoteInv
    <3> QED BY <3>1, <3>2 DEF ProgramStarts, ProgramReads
  <2>2. <<>> \in Seq(OscSet)
    OBVIOUS
  <2> QED BY <1>1, <2>1, <2>2, Printed
<1> QED BY <1>1, <1>2, <1>3, <1>4, EnvFrame DEF WireInv

(* Merging chunks keeps their events, and the screen of the later one.      *)
LEMMA MergeStep == ASSUME AppInv, Merge PROVE AppInv'
<1> DEFINE a == down[1]
           b == down[2]
           both == Chunk(a.osc \o b.osc, a.nl \/ b.nl, b.scr, a.prompt \/ b.prompt)
<1>1. /\ UNCHANGED <<historyVars, appVars, up, remoteVars>> /\ Len(down) >= 2
      /\ down' = <<both>> \o SubSeq(down, 3, Len(down))
      /\ RemoteInv /\ WireInv /\ down \in Seq(ChunkSet)
  BY DEF Merge, AppInv, WireInv
<1>2. a \in ChunkSet /\ b \in ChunkSet
  BY <1>1
<1> HIDE DEF a, b
<1>3. /\ a.osc \in Seq(OscSet) /\ b.osc \in Seq(OscSet)
      /\ b.scr \in ScreenSet
  BY <1>2 DEF ChunkSet
<1>4. a.osc \o b.osc \in Seq(OscSet)
  BY <1>3, ConcatProperties
<1>5. both \in ChunkSet
  BY <1>3, <1>4 DEF Chunk, ChunkSet
<1> HIDE DEF both
<1>6. <<both>> \in Seq(ChunkSet) /\ SubSeq(down, 3, Len(down)) \in Seq(ChunkSet)
  BY <1>1, <1>5
<1>7. WireInv'
  BY <1>1, <1>6, ConcatProperties DEF WireInv
<1>8. RemoteInv'
  BY <1>1 DEF RemoteInv, remoteVars
<1> QED BY <1>1, <1>7, <1>8, EnvFrame

LEMMA ClockStep == ASSUME AppInv, Clock PROVE AppInv'
<1>1. /\ UNCHANGED <<appVars, up, down, remoteVars>> /\ rows' = rows
      /\ now < MaxTime /\ now' = now + 1
  BY DEF Clock, Tick
<1>2. now' \in 0..MaxTime
  BY <1>1, HistoryBounds DEF AppInv, ShadowInv, HistoryTypeOK
<1>3. ShadowInv' /\ PromptInv'
  BY <1>1, <1>2, AppFrame
<1>4. RemoteInv' /\ WireInv'
  BY <1>1 DEF AppInv, RemoteInv, WireInv, remoteVars
<1> QED BY <1>3, <1>4 DEF AppInv

-----------------------------------------------------------------------------
(* The invariant. *)

LEMMA AppInit == Init => AppInv
<1> SUFFICES ASSUME Init PROVE AppInv
  OBVIOUS
<1>1. <<>> \in Seq(Chars) /\ Len(<<>>) = 0 /\ <<>> \in Seq(KeySet) /\ <<>> \in Seq(ChunkSet)
  OBVIOUS
<1>2. /\ rows \in Seq(Row) /\ now = 0
      /\ \A i \in DOMAIN rows : rows[i].source = "user"
  BY TablesAssumption DEF Init
<1>3. HistoryTypeOK
  BY <1>2, HistoryBounds DEF HistoryTypeOK
<1>4. LineInv /\ SuggestionExtends /\ TagInv
  <2>1. /\ shadow = <<>> /\ cursor = 0 /\ suggestion = <<>> /\ lastSug = FALSE
    BY DEF Init
  <2>2. cursor \in 0..Len(shadow) /\ shadow \in Seq(Chars) /\ suggestion \in Seq(Chars)
    BY <1>1, <2>1
  <2>3. lastSug \in BOOLEAN
    BY <2>1
  <2> QED BY <2>1, <2>2, <2>3, Zenon DEF LineInv, SuggestionExtends, TagInv
<1>5. TagTruthful
  BY <1>2 DEF TagTruthful
<1>6. PromptInv
  BY DEF Init, PromptInv
<1>7. <<0, 0>> \in Nat \X (0..Bottom)
  BY AppAssumption
<1>8. RemoteInv
  BY <1>1, <1>7 DEF Init, RemoteInv
<1>9. WireInv
  BY <1>1 DEF Init, WireInv
<1> QED BY <1>3, <1>4, <1>5, <1>6, <1>8, <1>9 DEF AppInv, ShadowInv

LEMMA AppStep == AppInv /\ [Next]_vars => AppInv'
<1> SUFFICES ASSUME AppInv, [Next]_vars PROVE AppInv'
  OBVIOUS
<1>1. ASSUME NEW k \in UserKeys, OnKey(k) PROVE AppInv'
  BY <1>1, KeyStep
<1>2. ASSUME NEW c \in Chars, Paste(c) PROVE AppInv'
  BY <1>2, PasteStep
<1>3. CASE OnOutput
  BY <1>3, OutputStep
<1>4. CASE RemoteStep
  BY <1>4, LineStep, RedrawStep, LeaveStep, CommandStep, PromptStep, ProgramStep, MergeStep
  DEF RemoteStep
<1>5. CASE Clock
  BY <1>5, ClockStep
<1>6. CASE UNCHANGED vars
  <2>1. UNCHANGED <<historyVars, appVars, up, down, remoteVars>>
    BY <1>6 DEF vars
  <2>2. RemoteInv' /\ WireInv'
    BY <2>1 DEF AppInv, RemoteInv, WireInv, remoteVars
  <2> QED BY <2>1, <2>2, EnvFrame
<1> QED BY <1>1, <1>2, <1>3, <1>4, <1>5, <1>6 DEF Next

LEMMA AppInductive == Spec => []AppInv
BY AppInit, AppStep, PTL DEF Spec

(* Types; shadow_cursor stays inside shadow_input, so that the string       *)
(* operations of apply_to_shadow never panic (app.rs:281-415).              *)
THEOREM AppTypeCorrect == Spec => []AppTypeOK
<1>1. AppInv => AppTypeOK
  BY DEF AppInv, ShadowInv, LineInv, PromptInv, RemoteInv, AppTypeOK
<1> QED BY <1>1, AppInductive, PTL

(* A suggestion completes the shadow to a command of the history, whatever  *)
(* keys and output come (app.rs:176-207).                                   *)
THEOREM ExtendsShadow == Spec => []SuggestionExtends
<1>1. AppInv => SuggestionExtends
  BY DEF AppInv, ShadowInv
<1> QED BY <1>1, AppInductive, PTL

(* A record tagged as an accepted suggestion repeats a command recorded     *)
(* before it (app.rs:70-72, 331-348).                                       *)
THEOREM TagsTruly == Spec => []TagTruthful
<1>1. AppInv => TagTruthful
  BY DEF AppInv, ShadowInv
<1> QED BY <1>1, AppInductive, PTL
=============================================================================
