--------------------------------- MODULE App ---------------------------------
(***************************************************************************)
(* The autosuggestion of the tiny-ssh client (tiny-ssh-cli/src/app.rs):    *)
(* keys go straight to the remote shell, and App keeps a shadow of the     *)
(* command line it believes the shell has, looks it up in the history and  *)
(* shows the rest of a match as ghost text behind the cursor of its VT.    *)
(*                                                                         *)
(* The shell below is external: a readline command line, commands that run *)
(* and print, full-screen programs.  Keys reach it, and its output reaches *)
(* App, after any delay; the output comes in chunks that may be merged.    *)
(***************************************************************************)
EXTENDS History

CONSTANTS
    Host,           \* the host of this client
    Blank,          \* the character that separates words
    Wide,           \* the characters that take two columns
    Tables,         \* what earlier sessions may have left in the history
    UserKeys,       \* the keys the user presses
    TypeAhead,      \* whether the user types without waiting for the prompt
    Markers,        \* whether a prompt and a command have OSC 133 markers
    Bottom,         \* the last row of the screen
    MaxLine,        \* bound: characters of the command line
    MaxUp, MaxDown  \* bounds: keys and chunks under way

ASSUME AppAssumption == Host \in Hosts /\ Bottom \in Nat
ASSUME KeysAssumption == \A k \in UserKeys : k.key = "Char" => k.char \in Chars
ASSUME TablesAssumption ==
    \A t \in Tables : /\ t \in Seq(Row)
                      /\ \A i \in DOMAIN t : t[i].source = "user"

VARIABLES
    (* App *)
    shadow, cursor, \* shadow_input and shadow_cursor
    suggestion,     \* the rest of the suggested command, <<>> for None
    promptPos,      \* prompt_pos
    cwd,
    lastSug,        \* last_action_was_suggestion
    lastEnter,      \* last_input_was_enter
    screen,         \* the VT's cursor and whether it shows the alt screen
    (* Under way *)
    up,             \* keys sent, not yet read by the remote
    down,           \* chunks of output, not yet applied
    (* The remote *)
    mode,           \* "prompt", "command" or "fullscreen"
    left, right,    \* readline's line, before and after its cursor
    base,           \* the column where the line starts
    pos,            \* the cursor of the remote's screen
    (* History variables *)
    waiting,        \* the user has seen no prompt since the last line entered
    entered         \* the shadow at each Enter under way

appVars == <<shadow, cursor, suggestion, promptPos, cwd, lastSug, lastEnter,
             screen>>
remoteVars == <<mode, left, right, base, pos>>
vars == <<historyVars, appVars, up, down, remoteVars, waiting, entered>>

NoPos == <<>>

(* A key press; the ones that type a character carry it. *)
Char(c) == [key |-> "Char", char |-> c]
Named(n) == [key |-> n, char |-> "none"]

(* A piece of output: its OSC events in order, whether it holds a newline,  *)
(* the screen once it is applied, and whether it shows a prompt.            *)
Chunk(osc, nl, scr, prompt) ==
    [osc |-> osc, nl |-> nl, scr |-> scr, prompt |-> prompt]

Screen(p, alt) == [col |-> p[1], row |-> p[2], alt |-> alt]

(* The columns a line takes. *)
Cols(line) == Len(line) + Cardinality({i \in DOMAIN line : line[i] \in Wide})

Init ==
    /\ rows \in Tables /\ now = 0
    /\ shadow = <<>> /\ cursor = 0 /\ suggestion = <<>> /\ promptPos = NoPos
    /\ cwd = NoCwd /\ lastSug = FALSE /\ lastEnter = FALSE
    /\ screen = Screen(<<0, 0>>, FALSE)
    /\ up = <<>> /\ down = <<>>
    /\ mode = "command" /\ left = <<>> /\ right = <<>> /\ base = 0
    /\ pos = <<0, 0>>
    /\ waiting = TRUE /\ entered = <<>>

-----------------------------------------------------------------------------
(* The suggestion. *)

(* refresh_suggestion: the suggestions it may leave for a line, the query   *)
(* having succeeded.                                                        *)
Refreshed(line) ==
    LET Rest(c) == IF IsStrictPrefix(line, c)
                   THEN SubSeq(c, Len(line) + 1, Len(c)) ELSE <<>>
        found == Suggest(Host, cwd, line)
    IN  IF found = {} THEN {<<>>} ELSE {Rest(rows[i].command) : i \in found}

(* Faulty variant: the gate forgets to compare the lengths. *)
CanShowUnaligned ==
    /\ suggestion # <<>>
    /\ promptPos # NoPos
    /\ ~screen.alt
    /\ screen.row = promptPos[2]
    /\ screen.col >= promptPos[1]

(* can_show_suggestion: the five-condition gate, read when drawing.         *)
CanShow ==
    /\ suggestion # <<>>
    /\ promptPos # NoPos
    /\ ~screen.alt
    /\ screen.row = promptPos[2]
    /\ screen.col >= promptPos[1]
    /\ Len(shadow) = screen.col - promptPos[1]

-----------------------------------------------------------------------------
(* Keys. *)

(* The last of the positions in S, 0 if there is none. *)
LastAt(S) == IF S = {} THEN 0 ELSE Max(S)

(* Faulty variant: the blanks before the cursor are not skipped. *)
WordStartAtBlank(line, i) == LastAt({k \in 1..i : line[k] = Blank})

(* kill_word_backward: where the word before position i starts.             *)
WordStart(line, i) ==
    LET end == LastAt({k \in 1..i : line[k] # Blank})
    IN  LastAt({k \in 1..end : line[k] = Blank})

(* The characters from i + 1 to j removed. *)
Cut(line, i, j) == SubSeq(line, 1, i) \o SubSeq(line, j + 1, Len(line))

(* The shadow an editing key leaves; the tag of an accepted suggestion is   *)
(* reset by the keys that may change the text.                              *)
Becomes(line, i) == shadow' = line /\ cursor' = i
Keeps == lastSug' = lastSug
Resets == lastSug' = FALSE

Insert(k) == /\ k.key = "Char"
             /\ Becomes(InsertAt(shadow, cursor + 1, k.char), cursor + 1)
             /\ Resets

(* Faulty variant: a deletion does not reset the tag. *)
BackspaceKeepingTag(k) ==
    /\ k.key = "Backspace"
    /\ \/ /\ cursor > 0
          /\ Becomes(Cut(shadow, cursor - 1, cursor), cursor - 1)
       \/ cursor = 0 /\ Becomes(shadow, cursor)
    /\ Keeps

Backspace(k) ==
    /\ k.key = "Backspace"
    /\ \/ /\ cursor > 0
          /\ Becomes(Cut(shadow, cursor - 1, cursor), cursor - 1)
          /\ Resets
       \/ cursor = 0 /\ Becomes(shadow, cursor) /\ Keeps

KillWord(k) ==
    /\ k.key = "Ctrl-W"
    /\ LET word == WordStart(shadow, cursor)
       IN  /\ Becomes(Cut(shadow, word, cursor), word)
           /\ IF word = cursor THEN Keeps ELSE Resets

(* Keys that change the line; each ends with refresh_suggestion.            *)
Edit(k) ==
    /\ \/ Insert(k) \/ Backspace(k) \/ KillWord(k)
       \/ k.key = "Ctrl-A" /\ Becomes(shadow, 0) /\ Keeps
       \/ k.key = "Ctrl-E" /\ Becomes(shadow, Len(shadow)) /\ Keeps
       \/ k.key = "Ctrl-L" /\ Becomes(shadow, cursor) /\ Keeps
       \/ k.key = "Ctrl-K" /\ Becomes(SubSeq(shadow, 1, cursor), cursor) /\ Resets
       \/ k.key \in {"Ctrl-U", "Ctrl-C", "Ctrl-D"} /\ Becomes(<<>>, 0) /\ Resets
    /\ lastEnter' = (lastEnter /\ k.key \notin {"Ctrl-C", "Ctrl-D"})
    /\ suggestion' \in Refreshed(shadow')
    /\ UNCHANGED <<historyVars, entered>>

(* Keys that move the cursor, and the ones the shadow ignores.              *)
Move(k) ==
    /\ k.key \in {"Left", "Right", "Home", "End", "Delete"}
    /\ cursor' = IF k.key = "Left" /\ cursor > 0 THEN cursor - 1
                 ELSE IF k.key = "Right" /\ cursor < Len(shadow) THEN cursor + 1
                 ELSE IF k.key = "Home" THEN 0
                 ELSE IF k.key = "End" THEN Len(shadow)
                 ELSE cursor
    /\ UNCHANGED <<historyVars, shadow, suggestion, lastSug, lastEnter, entered>>

(* Faulty variant: the shadow is forgotten, its suggestion is not. *)
ForgetShadowOnly(k) ==
    \/ /\ k.key = "Tab"
       /\ suggestion' = <<>>
       /\ UNCHANGED <<historyVars, shadow, cursor, lastSug, lastEnter, entered>>
    \/ /\ k.key = "Up"
       /\ shadow' = <<>> /\ cursor' = 0
       /\ lastSug' = FALSE /\ lastEnter' = FALSE
       /\ UNCHANGED <<historyVars, suggestion, entered>>

(* Keys after which the remote line is unknown: completion and history.     *)
Forget(k) ==
    \/ /\ k.key = "Tab"
       /\ suggestion' = <<>>
       /\ UNCHANGED <<historyVars, shadow, cursor, lastSug, lastEnter, entered>>
    \/ /\ k.key = "Up"
       /\ shadow' = <<>> /\ cursor' = 0 /\ suggestion' = <<>>
       /\ lastSug' = FALSE /\ lastEnter' = FALSE
       /\ UNCHANGED <<historyVars, entered>>

(* Enter records the line, if it can (a failure is ignored), and forgets it. *)
Enter(k) ==
    /\ k.key = "Enter"
    /\ \/ /\ shadow # <<>>
          /\ Record(Host, cwd, shadow,
                    IF lastSug THEN "suggest_history" ELSE "user")
       \/ UNCHANGED historyVars
    /\ entered' = Append(entered, shadow)
    /\ shadow' = <<>> /\ cursor' = 0 /\ suggestion' = <<>>
    /\ lastSug' = FALSE
    /\ lastEnter' = TRUE

Accepting(k) == /\ k.key = "Right"
                /\ suggestion # <<>>
                /\ cursor = Len(shadow)

(* Right at the end of the shadow types the rest of the suggestion.         *)
Accept(k) ==
    /\ Accepting(k)
    /\ shadow' = shadow \o suggestion
    /\ cursor' = Len(shadow')
    /\ lastSug' = TRUE
    /\ suggestion' \in Refreshed(shadow')
    /\ up' = up \o [i \in DOMAIN suggestion |-> Char(suggestion[i])]
    /\ UNCHANGED <<historyVars, lastEnter, entered>>

(* Bounds of the model, and a user who waits for what a key may change:     *)
(* the prompt after a line or Ctrl-C, the program's reaction in full screen, *)
(* where one key is under way at a time, also when App sends the rest of a  *)
(* hidden suggestion in its place.                                          *)
MayPress(k) ==
    /\ Len(up) < MaxUp
    /\ k.key \in {"Char", "Paste"} =>
         /\ Len(shadow) < MaxLine
         /\ Len(left) + Len(right) + Len(up) < MaxLine
    /\ k.key \in {"Enter", "Ctrl-C"} => Len(rows) < MaxRows
    /\ ~TypeAhead =>
         \/ ~waiting
         \/ /\ screen.alt /\ up = <<>> /\ down = <<>> /\ k.key # "Enter"
            /\ Accepting(k) => Len(suggestion) = 1

(* on_key, and handle_terminal_event sending what it returns.               *)
OnKey(k) ==
    /\ MayPress(k)
    /\ \/ Accept(k)
       \/ /\ ~Accepting(k)
          /\ Edit(k) \/ Move(k) \/ Forget(k) \/ Enter(k)
          /\ up' = Append(up, k)
    /\ waiting' = (waiting \/ k.key \in {"Enter", "Ctrl-C"})
    /\ UNCHANGED <<promptPos, cwd, screen, down, remoteVars>>

(* handle_terminal_event: a paste is sent, and the shadow never hears of it. *)
Paste(c) ==
    /\ Named("Paste") \in UserKeys
    /\ MayPress(Named("Paste"))
    /\ up' = Append(up, Char(c))
    /\ UNCHANGED <<historyVars, appVars, down, remoteVars, waiting,
                   entered>>

-----------------------------------------------------------------------------
(* Output. *)

(* The last event of a kind. *)
LastOf(osc, S) ==
    LET at == {n \in DOMAIN osc : osc[n] \in S}
    IN  IF at = {} THEN <<>> ELSE <<osc[Max(at)]>>

(* Faulty variant: a new prompt does not reset the cursor of the shadow.    *)
OscAppliedKeepingCursor(c) ==
    LET mark == LastOf(c.osc, {"prompt_end", "command_start"})
        dir == LastOf(c.osc, Cwds)
        fresh == "prompt_end" \in Range(c.osc)
    IN  [prompt |-> IF mark = <<>> THEN promptPos
                    ELSE IF mark = <<"prompt_end">>
                    THEN <<c.scr.col, c.scr.row>> ELSE NoPos,
         line   |-> IF fresh THEN <<>> ELSE shadow,
         i      |-> cursor,
         sug    |-> IF fresh THEN <<>> ELSE suggestion,
         cwd    |-> IF dir = <<>> THEN cwd ELSE dir[1]]

(* on_osc_event for each event of a chunk, all seen with the cursor at its  *)
(* end: what they leave, which is what the last of each kind says.          *)
OscApplied(c) ==
    LET mark == LastOf(c.osc, {"prompt_end", "command_start"})
        dir == LastOf(c.osc, Cwds)
        fresh == "prompt_end" \in Range(c.osc)
    IN  [prompt |-> IF mark = <<>> THEN promptPos
                    ELSE IF mark = <<"prompt_end">>
                    THEN <<c.scr.col, c.scr.row>> ELSE NoPos,
         line   |-> IF fresh THEN <<>> ELSE shadow,
         i      |-> IF fresh THEN 0 ELSE cursor,
         sug    |-> IF fresh THEN <<>> ELSE suggestion,
         cwd    |-> IF dir = <<>> THEN cwd ELSE dir[1]]

(* on_session_event(Output): the VT, the OSC events, then the heuristic.    *)
OnOutput ==
    /\ down # <<>>
    /\ LET c == Head(down)
           st == OscApplied(c)
           guess == lastEnter /\ c.nl
       IN  /\ screen' = c.scr
           /\ shadow' = st.line /\ cursor' = st.i /\ suggestion' = st.sug
           /\ cwd' = st.cwd
           /\ promptPos' = IF guess /\ c.scr.col > 0
                         THEN <<c.scr.col, c.scr.row>> ELSE st.prompt
           /\ lastEnter' = (lastEnter /\ ~guess)
           /\ waiting' = (waiting /\ ~c.prompt)
    /\ down' = Tail(down)
    /\ UNCHANGED <<historyVars, lastSug, up, remoteVars, entered>>

-----------------------------------------------------------------------------
(* The remote (external). *)

Prints(osc, nl, alt, prompt) ==
    down' = Append(down, Chunk(osc, nl, Screen(pos', alt), prompt))

Room == Len(down) < MaxDown

NextRow == IF pos[2] < Bottom THEN pos[2] + 1 ELSE Bottom

(* Emacs-mode readline on the two halves of its line.                       *)
Readline(k) ==
    LET Line(l, r) == left' = l /\ right' = r
        Del(n) == SubSeq(left, 1, Len(left) - n)
    IN  \/ k.key = "Char" /\ Line(Append(left, k.char), right)
        \/ k.key = "Backspace" /\ Line(Del(1), right)
        \/ k.key \in {"Delete", "Ctrl-D"} /\ Line(left, SubSeq(right, 2, Len(right)))
        \/ /\ k.key = "Left"
           /\ IF left = <<>> THEN Line(left, right)
              ELSE Line(Del(1), <<Last(left)>> \o right)
        \/ /\ k.key = "Right"
           /\ IF right = <<>> THEN Line(left, right)
              ELSE Line(Append(left, Head(right)), Tail(right))
        \/ k.key \in {"Home", "Ctrl-A"} /\ Line(<<>>, left \o right)
        \/ k.key \in {"End", "Ctrl-E"} /\ Line(left \o right, <<>>)
        \/ k.key = "Ctrl-U" /\ Line(<<>>, right)
        \/ k.key = "Ctrl-K" /\ Line(left, <<>>)
        \/ /\ k.key = "Ctrl-W"       \* the word, and the blanks behind it
           /\ \E n \in 0..Len(left), blanks \in 0..Len(left) :
                /\ blanks <= n
                /\ \A j \in (Len(left) - blanks + 1)..Len(left) : left[j] = Blank
                /\ blanks < Len(left) => left[Len(left) - blanks] # Blank
                /\ \A j \in (Len(left) - n + 1)..(Len(left) - blanks) :
                       left[j] # Blank
                /\ n < Len(left) => left[Len(left) - n] = Blank
                /\ Line(Del(n), right)

LineKeys == {"Char", "Backspace", "Delete", "Ctrl-D", "Left", "Right", "Home",
             "End", "Ctrl-A", "Ctrl-E", "Ctrl-U", "Ctrl-K", "Ctrl-W"}

(* A key edits the command line, and the shell draws the line again.        *)
ShellEdits ==
    /\ mode = "prompt" /\ up # <<>> /\ Room
    /\ Head(up).key \in LineKeys
    /\ Readline(Head(up))
    /\ pos' = <<base + Cols(left'), pos[2]>>
    /\ up' = Tail(up)
    /\ Prints(<<>>, FALSE, FALSE, FALSE)
    /\ UNCHANGED <<historyVars, appVars, mode, base, waiting,
                   entered>>

(* Completion and history replace the line by one App cannot predict.       *)
ShellReplaces ==
    /\ mode = "prompt" /\ up # <<>> /\ Room
    /\ Head(up).key \in {"Tab", "Up"}
    /\ \E c \in Commands \cup {<<>>} :
         /\ Head(up).key = "Tab" => IsPrefix(left, c)
         /\ left' = c
    /\ right' = IF Head(up).key = "Tab" THEN right ELSE <<>>
    /\ Len(left') + Len(right') <= MaxLine
    /\ pos' = <<base + Cols(left'), pos[2]>>
    /\ up' = Tail(up)
    /\ Prints(<<>>, FALSE, FALSE, FALSE)
    /\ UNCHANGED <<historyVars, appVars, mode, base, waiting,
                   entered>>

(* What a prompt, two columns wide, reports of itself. *)
PromptMarks(marked) == IF marked THEN <<"prompt_start", "prompt_end">> ELSE <<>>

(* Ctrl-L clears the screen and draws the prompt, with its markers, and the *)
(* line again in the first row.                                             *)
ShellRedraws ==
    /\ mode = "prompt" /\ up # <<>> /\ Room
    /\ Head(up).key = "Ctrl-L"
    /\ base' = 2
    /\ pos' = <<2 + Cols(left), 0>>
    /\ up' = Tail(up)
    /\ \E marked \in Markers : Prints(PromptMarks(marked), FALSE, FALSE, FALSE)
    /\ UNCHANGED <<historyVars, appVars, mode, left, right, waiting, entered>>

(* Enter runs the line, Ctrl-C drops it; either way a new line begins.      *)
ShellLeavesLine ==
    /\ mode = "prompt" /\ up # <<>> /\ Room
    /\ Head(up).key \in {"Enter", "Ctrl-C"}
    /\ entered' = IF Head(up).key = "Enter" THEN Tail(entered) ELSE entered
    /\ mode' = "command"
    /\ left' = <<>> /\ right' = <<>> /\ base' = 0
    /\ pos' = <<0, NextRow>>
    /\ up' = Tail(up)
    /\ \E marked \in Markers :
         Prints(IF marked THEN <<"command_start">> ELSE <<>>, TRUE, FALSE, FALSE)
    /\ UNCHANGED <<historyVars, appVars, waiting>>

(* The command prints, ending a line or leaving one unfinished.             *)
CommandPrints ==
    /\ mode = "command" /\ Room
    /\ \E nl \in BOOLEAN, col \in {0, 1} :
         /\ pos' = <<col, IF nl THEN NextRow ELSE pos[2]>>
         /\ Prints(<<>>, nl, FALSE, FALSE)
    /\ UNCHANGED <<historyVars, appVars, up, mode, left, right, base, waiting, entered>>

(* The shell prints its prompt; one that reports its directory does so      *)
(* before every prompt.                                                     *)
ShellPrompts ==
    /\ mode = "command" /\ Room
    /\ mode' = "prompt"
    /\ pos' = <<pos[1] + 2, pos[2]>>
    /\ base' = pos'[1]
    /\ \E dir \in IF Cwds = {} THEN {<<>>} ELSE {<<d>> : d \in Cwds},
          marked \in Markers :
         Prints(dir \o PromptMarks(marked), FALSE, FALSE, TRUE)
    /\ UNCHANGED <<historyVars, appVars, up, left, right,
                   waiting, entered>>

(* A full-screen program takes the screen, and the keys.                    *)
ProgramStarts ==
    /\ mode = "command" /\ Room
    /\ mode' = "fullscreen"
    /\ \E col \in {0, 1} :
         down' = Append(down, Chunk(<<>>, TRUE, Screen(<<col, 0>>, TRUE), FALSE))
    /\ UNCHANGED <<historyVars, appVars, up, left, right, base, pos, waiting, entered>>

ProgramReads ==
    /\ mode = "fullscreen" /\ up # <<>> /\ Room
    /\ up' = Tail(up)
    /\ \/ \E col \in {0, 1} :
            /\ down' = Append(down, Chunk(<<>>, FALSE, Screen(<<col, 0>>, TRUE),
                                          FALSE))
            /\ UNCHANGED mode
       \/ /\ down' = Append(down, Chunk(<<>>, FALSE, Screen(pos, FALSE), FALSE))
          /\ mode' = "command"
    /\ entered' = IF Head(up).key = "Enter" THEN Tail(entered) ELSE entered
    /\ UNCHANGED <<historyVars, appVars, left, right, base, pos, waiting>>

(* Output under way is merged into one chunk. *)
Merge ==
    /\ Len(down) >= 2
    /\ LET a == down[1]  b == down[2]
       IN  down' = <<Chunk(a.osc \o b.osc, a.nl \/ b.nl, b.scr,
                           a.prompt \/ b.prompt)>> \o SubSeq(down, 3, Len(down))
    /\ UNCHANGED <<historyVars, appVars, up, remoteVars, waiting, entered>>

RemoteStep ==
    \/ ShellEdits \/ ShellReplaces \/ ShellRedraws \/ ShellLeavesLine
    \/ CommandPrints \/ ShellPrompts
    \/ ProgramStarts \/ ProgramReads
    \/ Merge

(* A second passes.  Before the first row of a behaviour and after the last *)
(* it would change no order of timestamps.                                  *)
Clock ==
    /\ Len(rows) \in 1..(MaxRows - 1)
    /\ Tick
    /\ UNCHANGED <<appVars, up, down, remoteVars, waiting, entered>>

Next ==
    \/ \E k \in UserKeys : OnKey(k)
    \/ \E c \in Chars : Paste(c)
    \/ OnOutput
    \/ RemoteStep
    \/ Clock

Spec == Init /\ [][Next]_vars

-----------------------------------------------------------------------------
(* Properties. *)

(* Type invariant; shadow_cursor never leaves shadow_input, where the       *)
(* string operations of apply_to_shadow would panic.                        *)
AppTypeOK ==
    /\ HistoryTypeOK
    /\ shadow \in Seq(Chars) /\ cursor \in 0..Len(shadow)
    /\ suggestion \in Seq(Chars)
    /\ promptPos = NoPos \/ promptPos \in Nat \X (0..Bottom)
    /\ cwd \in Cwds \cup {NoCwd}
    /\ lastSug \in BOOLEAN /\ lastEnter \in BOOLEAN
    /\ mode \in {"prompt", "command", "fullscreen"}

Recorded == {i \in DOMAIN rows : rows[i].host = Host}

(* A suggestion is always the rest of a command of this host's history,     *)
(* begun by the shadow exactly as it is now: no key and no output leaves an *)
(* older one behind, so accepting it enters a command that was entered      *)
(* before (app.rs:176-207).                                                 *)
SuggestionExtends ==
    suggestion # <<>> =>
        /\ shadow # <<>>
        /\ \E i \in Recorded : rows[i].command = shadow \o suggestion

(* A record tagged as an accepted suggestion repeats an earlier command:    *)
(* every edit after the acceptance resets the tag (app.rs:70-72).           *)
TagTruthful ==
    \A i \in DOMAIN rows :
        rows[i].source = "suggest_history" =>
            \E j \in 1..(i - 1) : rows[j].command = rows[i].command

(* Ghost text is shown at a prompt only behind the command line it belongs  *)
(* to: with every key and all output delivered, the shell's line is the     *)
(* shadow.  Its cursor is at the end, unless a character two columns wide   *)
(* makes up for those behind the cursor: the gate compares columns with     *)
(* characters (app.rs:225-227), and the ghost then covers the line's rest.  *)
GhostTruthful ==
    /\ CanShow
    /\ mode = "prompt"
    /\ up = <<>> /\ down = <<>>
    => /\ left \o right = shadow
       /\ right = <<>> \/ \E i \in DOMAIN left : left[i] \in Wide

(* The line the shell is about to execute is the one App took for entered,  *)
(* and tried to record, when Enter was pressed (app.rs:331-348).            *)
ExecutedAsEntered ==
    mode = "prompt" /\ up # <<>> /\ Head(up).key = "Enter"
        => left \o right = Head(entered)

(* README.md:86: Right accepts "the gray ghost-text", which a full-screen   *)
(* program never shows.  Refuted: there too, Right types the rest of a      *)
(* suggestion that the gate hides, instead of reaching the program.         *)
NothingAcceptedInFullScreen ==
    [][screen.alt => \A k \in UserKeys : ~Accept(k)]_vars
=============================================================================
