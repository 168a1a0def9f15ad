------------------------------- MODULE History -------------------------------
(***************************************************************************)
(* The command history of tiny-ssh-core (src/history.rs): one SQLite table *)
(* shared by every client of the user, a record per command entered, and   *)
(* the query behind the autosuggestion.  SQLite is external; its LIKE and  *)
(* its ORDER BY ... LIMIT 1 are modelled as the queries use them.          *)
(***************************************************************************)
EXTENDS Naturals, SequencesExt

CONSTANTS
    Hosts, Cwds,
    NoCwd,          \* cwd: None, a NULL in the table
    Chars,          \* the characters commands are made of
    Lower,          \* ASCII case folding, which LIKE applies
    Commands,       \* sequences of characters: the commands entered
    MaxRows,        \* bound: rows in the table
    MaxTime         \* bound: seconds on the clock

ASSUME CwdAssumption == NoCwd \notin Cwds
ASSUME CharsAssumption == Lower \in [Chars -> Chars] /\ Commands \subseteq Seq(Chars)
ASSUME HistoryBounds == MaxRows \in Nat /\ MaxTime \in Nat

VARIABLES
    rows,           \* the table, in the order of insertion (of id)
    now             \* now_unix_secs()

historyVars == <<rows, now>>

Source == {"user", "suggest_history"}

(* exit_code, which no query reads. *)
ExitCode == {"null", "known"}

Row == [host : Hosts, cwd : Cwds \cup {NoCwd}, command : Seq(Chars),
        timestamp : Nat, exit : ExitCode, source : Source]

HistoryInit == rows = <<>> /\ now = 0

(* Faulty variant: no directory is recorded as an empty one, not as NULL.   *)
RecordEmptyCwd(h, d, c, src) ==
    /\ rows' = Append(rows, [host |-> h, cwd |-> IF d = NoCwd THEN "" ELSE d,
                             command |-> c, timestamp |-> now, exit |-> "null",
                             source |-> src])
    /\ UNCHANGED now

(* record(): every caller leaves the timestamp 0, to be filled in here.     *)
Record(h, d, c, src) ==
    /\ rows' = Append(rows, [host |-> h, cwd |-> d, command |-> c,
                             timestamp |-> now, exit |-> "null",
                             source |-> src])
    /\ UNCHANGED now

SetExitCode(i) ==
    /\ i \in DOMAIN rows
    /\ rows' = [rows EXCEPT ![i].exit = "known"]
    /\ UNCHANGED now

Tick ==
    /\ now < MaxTime
    /\ now' = now + 1
    /\ UNCHANGED rows

HistoryNext ==
    \/ /\ Len(rows) < MaxRows
       /\ \E h \in Hosts, d \in Cwds \cup {NoCwd}, c \in Commands, src \in Source :
            Record(h, d, c, src)
    \/ \E i \in 1..MaxRows : SetExitCode(i)
    \/ Tick

HistorySpec == HistoryInit /\ [][HistoryNext]_historyVars

-----------------------------------------------------------------------------
(* The query. *)

(* A backslash in front of every character that is special.                 *)
EscapeAll(special, p) ==
    LET out[i \in 0..Len(p)] ==
            IF i = 0 THEN <<>>
            ELSE out[i - 1] \o (IF p[i] \in special THEN <<"\\", p[i]>>
                                                    ELSE <<p[i]>>)
    IN  out[Len(p)]

(* Faulty variant: `_' is not escaped. *)
LikeEscapePercentOnly(p) == EscapeAll({"\\", "%"}, p)

LikeEscape(p) == EscapeAll({"\\", "%", "_"}, p)

(* Where character c stands in s with one of the places S behind it.        *)
Before(c, s, S) == {j \in DOMAIN s : Lower[s[j]] = Lower[c] /\ j + 1 \in S}

(* s LIKE pat ESCAPE '\': m[i] are the places of s from which the pattern   *)
(* matches from its i-th character on, up to the end of both.               *)
Like(pat, s) ==
    LET m[i \in 1..(Len(pat) + 1)] ==
            IF i > Len(pat) THEN {Len(s) + 1}
            ELSE IF pat[i] = "%"
                 THEN {j \in 1..(Len(s) + 1) : \E k \in m[i + 1] : j <= k}
            ELSE IF pat[i] = "_" THEN {j \in DOMAIN s : j + 1 \in m[i + 1]}
            ELSE IF pat[i] # "\\" THEN Before(pat[i], s, m[i + 1])
            ELSE IF i < Len(pat) THEN Before(pat[i + 1], s, m[i + 2])
            ELSE {}
    IN  1 \in m[1]

(* host = ? AND command LIKE ? ESCAPE '\' AND command != ? *)
Matches(h, p) ==
    LET pat == LikeEscape(p) \o <<"%">>
    IN  {i \in DOMAIN rows : /\ rows[i].host = h
                             /\ Like(pat, rows[i].command)
                             /\ rows[i].command # p}

(* ORDER BY timestamp DESC LIMIT 1: which of equal timestamps is not said.  *)
Newest(S) == {i \in S : \A j \in S : rows[j].timestamp <= rows[i].timestamp}

(* Faulty variant: one pass, over every directory. *)
SuggestAnyDirectory(h, d, p) == IF p = <<>> THEN {} ELSE Newest(Matches(h, p))

(* suggest(): the rows it may return, empty for None. *)
Suggest(h, d, p) ==
    LET here == {i \in Matches(h, p) : d # NoCwd /\ rows[i].cwd = d}
    IN  IF p = <<>> THEN {}
        ELSE IF here # {} THEN Newest(here)
        ELSE Newest(Matches(h, p))

-----------------------------------------------------------------------------
(* Properties. *)

HistoryTypeOK == rows \in Seq(Row) /\ now \in 0..MaxTime

(* What a user may have typed: the prefixes of the commands. *)
Typed == UNION {Prefixes(c) : c \in Commands}

ExtendsTyped(c, p) ==
    /\ Len(p) <= Len(c)
    /\ \A k \in 1..Len(p) : Lower[c[k]] = Lower[p[k]]

(* Wildcards typed by the user are matched literally: the query finds the   *)
(* commands that extend what was typed, up to case, and no other            *)
(* (like_escape, history.rs:289-301).                                       *)
LiteralPrefix ==
    \A h \in Hosts, p \in Typed :
        Matches(h, p) = {i \in DOMAIN rows : /\ rows[i].host = h
                                             /\ ExtendsTyped(rows[i].command, p)
                                             /\ rows[i].command # p}

(* The two passes find the best row of one ranking: this directory before   *)
(* the others, then the later second (history.rs:176-178).                  *)
BestRanked ==
    LET Better(i, j, d) ==
            LET hereI == rows[i].cwd = d  hereJ == rows[j].cwd = d
            IN  \/ hereI /\ ~hereJ
                \/ hereI = hereJ /\ rows[i].timestamp > rows[j].timestamp
    IN  \A h \in Hosts, d \in Cwds, p \in Typed \ {<<>>} :
            Suggest(h, d, p) =
                {j \in Matches(h, p) : \A i \in Matches(h, p) : ~Better(i, j, d)}
=============================================================================
