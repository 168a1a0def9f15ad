-------------------------------- MODULE Keys --------------------------------
(***************************************************************************)
(* What the tiny-ssh client sends for keys, mouse events and pastes        *)
(* (tiny-ssh-cli/src/keys.rs, handle_terminal_event in main.rs), byte for  *)
(* byte, and a remote that takes the stream of bytes apart again.          *)
(*                                                                         *)
(* Key events are the ones crossterm reports on a Unix terminal, where     *)
(* Ctrl-I is Tab and Ctrl-M is Enter.  Characters are code points.  The    *)
(* remote, its terminal input parser and readline's default key map are    *)
(* external, and so is the xterm whose bytes keys.rs promises.             *)
(***************************************************************************)
EXTENDS SequencesExt, Integers

CONSTANTS
    KeyEvents,      \* the keys pressed
    MouseEvents,    \* the mouse events
    Pastes,         \* the texts pasted
    Modes,          \* the modes the remote sets
    MaxEvents       \* bound: events the client sends

TermMode == {"APP_CURSOR", "SGR_MOUSE", "BRACKETED_PASTE", "ALT_SCREEN"}

ASSUME ModesAssumption == Modes \subseteq SUBSET TermMode
ASSUME MaxEventsAssumption == MaxEvents \in Nat

VARIABLES
    mode,           \* the TermMode of the client's VT
    wire,           \* bytes sent and not yet read
    got,            \* the events the remote has read
    (* History variables *)
    meant,          \* the events, as an xterm would report them
    assumed         \* what App took each of them for

vars == <<mode, wire, got, meant, assumed>>

Init ==
    /\ mode = {}
    /\ wire = <<>> /\ got = <<>> /\ meant = <<>> /\ assumed = <<>>

(* Events; n is the character or the number of a function key. *)
Key(code, n, mods) == [code |-> code, n |-> n, mods |-> mods]
Plain(code) == Key(code, 0, {})
Button(kind, button, col, row, mods) ==
    [code |-> kind, button |-> button, col |-> col, row |-> row, mods |-> mods]

-----------------------------------------------------------------------------
(* keys.rs. *)

ESC == 27

CursorLetter == [Up |-> 65, Down |-> 66, Right |-> 67, Left |-> 68,
                 Home |-> 72, End |-> 70]

(* Keys with one encoding: CR, HT, ESC [ Z, DEL, ESC, ESC [ n ~.            *)
Fixed == [Enter |-> <<13>>, Tab |-> <<9>>, BackTab |-> <<ESC, 91, 90>>,
          Backspace |-> <<127>>, Esc |-> <<ESC>>,
          Insert |-> <<ESC, 91, 50, 126>>, Delete |-> <<ESC, 91, 51, 126>>,
          PageUp |-> <<ESC, 91, 53, 126>>, PageDown |-> <<ESC, 91, 54, 126>>]

(* A number of sixteen bits in decimal digits. *)
U16 == 0..65535

Decimal[n \in U16] == IF n < 10 THEN <<48 + n>>
                      ELSE Append(Decimal[n \div 10], 48 + (n % 10))

Arrow(letter, app) == <<ESC, IF app THEN 79 ELSE 91, letter>>

Lower(c) == IF c \in 65..90 THEN c + 32 ELSE c

(* ctrl_byte: <<>> for None. *)
CtrlByte(c) ==
    LET l == Lower(c)
    IN  IF l \in 97..122 THEN <<l - 96>>
        ELSE IF l \in {64, 50, 32} THEN <<0>>       \* @ 2 space
        ELSE IF l \in {91, 92, 93, 94, 95} THEN <<l - 64>>   \* [ \ ] ^ _
        ELSE IF l \in 51..55 THEN <<l - 24>>        \* 3 4 5 6 7
        ELSE IF l \in {63, 56} THEN <<127>>         \* ? 8
        ELSE <<>>

(* encode_utf8, up to U+FFFF. *)
Utf8(c) ==
    IF c < 128 THEN <<c>>
    ELSE IF c < 2048 THEN <<192 + c \div 64, 128 + (c % 64)>>
    ELSE <<224 + c \div 4096, 128 + ((c \div 64) % 64), 128 + (c % 64)>>

EncodeChar(c, mods) ==
    LET ctrl == IF "CONTROL" \in mods THEN CtrlByte(c) ELSE <<>>
    IN  (IF "ALT" \in mods THEN <<ESC>> ELSE <<>>)
        \o IF ctrl # <<>> THEN ctrl ELSE Utf8(c)

(* Faulty variant: the numbers of F5 to F12 have no gaps. *)
FKeyGapless(n) ==
    IF n \in 1..4 THEN <<ESC, 79, 79 + n>>
    ELSE IF n \in 5..12 THEN <<ESC, 91>> \o Decimal[n + 10] \o <<126>>
    ELSE <<>>

(* f_key: P to S, then 15, 17 to 21, 23 and 24. *)
FKey(n) ==
    IF n \in 1..4 THEN <<ESC, 79, 79 + n>>
    ELSE IF n = 5 THEN <<ESC, 91>> \o Decimal[15] \o <<126>>
    ELSE IF n \in 6..10 THEN <<ESC, 91>> \o Decimal[n + 11] \o <<126>>
    ELSE IF n \in 11..12 THEN <<ESC, 91>> \o Decimal[n + 12] \o <<126>>
    ELSE <<>>

(* encode: only characters carry their modifiers. *)
Encode(e) ==
    IF e.code = "Char" THEN EncodeChar(e.n, e.mods)
    ELSE IF e.code = "F" THEN FKey(e.n)
    ELSE IF e.code \in DOMAIN CursorLetter
         THEN Arrow(CursorLetter[e.code], "APP_CURSOR" \in mode)
    ELSE IF e.code \in DOMAIN Fixed THEN Fixed[e.code]
    ELSE <<>>

ButtonCode == [Left |-> 0, Middle |-> 1, Right |-> 2]

MouseCodes == {"MouseDown", "MouseUp", "MouseDrag", "ScrollUp", "ScrollDown",
               "ScrollLeft", "Moved"}

(* The code of a mouse event, <<>> for the ones that have none. *)
MouseBase(e) ==
    IF e.code = "MouseDown" THEN <<ButtonCode[e.button]>>
    ELSE IF e.code = "MouseUp" THEN <<3>>
    ELSE IF e.code = "MouseDrag" THEN <<32 + ButtonCode[e.button]>>
    ELSE IF e.code = "ScrollUp" THEN <<64>>
    ELSE IF e.code = "ScrollDown" THEN <<65>>
    ELSE <<>>

(* Columns and rows count from one; sixteen bits wrap. *)
OneBased(n) == (n + 1) % 65536

(* encode_mouse. *)
EncodeMouse(e) ==
    IF "SGR_MOUSE" \notin mode \/ MouseBase(e) = <<>> THEN <<>>
    ELSE <<ESC, 91, 60>>
         \o Decimal[MouseBase(e)[1] + (IF "SHIFT" \in e.mods THEN 4 ELSE 0)
                                   + (IF "ALT" \in e.mods THEN 8 ELSE 0)
                                   + (IF "CONTROL" \in e.mods THEN 16 ELSE 0)]
         \o <<59>> \o Decimal[OneBased(e.col)]
         \o <<59>> \o Decimal[OneBased(e.row)]
         \o <<IF e.code = "MouseUp" THEN 109 ELSE 77>>

PasteStart == Key("Paste", 200, {})
PasteEnd == Key("Paste", 201, {})

(* The events that have bytes of their own, whatever comes behind them: a   *)
(* lone Esc, Alt-[ and Alt-O begin like longer sequences, and the other     *)
(* control characters share their byte with a key or have none.  Terminals  *)
(* report columns and rows from one in sixteen bits.                        *)
Printable == (32..126) \cup (128..65535)
Controllable == ((97..122) \ {105, 109}) \cup {32} \cup (52..55)

ReadableKey(e) ==
    /\ e.code # "Esc"
    /\ e.code = "Char" =>
          /\ e.mods \subseteq {"SHIFT", "ALT", "CONTROL"}
          /\ IF "CONTROL" \in e.mods THEN Lower(e.n) \in Controllable
             ELSE /\ e.n \in Printable
                  /\ "ALT" \in e.mods => e.n \notin {79, 91}
    /\ e.code \notin {"Char", "F"} => e.n = 0
    /\ e.code \in {"Enter", "Tab", "Backspace"} => e.mods \subseteq {"ALT"}

ReadableMouse(e) ==
    /\ e = Button(e.code, e.button, e.col, e.row, e.mods)
    /\ e.code \in MouseCodes
    /\ e.button \in IF e.code \in {"MouseDown", "MouseUp", "MouseDrag"}
                    THEN DOMAIN ButtonCode ELSE {"none"}
    /\ e.col \in Nat /\ e.col + 1 \in U16
    /\ e.row \in Nat /\ e.row + 1 \in U16
    /\ e.mods \subseteq {"SHIFT", "ALT", "CONTROL"}

ASSUME ReadableAssumption ==
    /\ \A e \in KeyEvents : ReadableKey(e)
    /\ \A e \in MouseEvents : ReadableMouse(e)
    /\ Pastes \subseteq Seq(Printable)

-----------------------------------------------------------------------------
(* What App takes a key for (apply_to_shadow), "none" if it does not edit.  *)

Edit(name) == <<name, 0>>

ShadowKeys == [Backspace |-> "rub out", Enter |-> "accept", Left |-> "back",
               Right |-> "forward", Home |-> "line start", End |-> "line end",
               Up |-> "forget", Down |-> "forget",
               PageUp |-> "forget", PageDown |-> "forget"]

(* The edits of Ctrl-A, C, D, E, K, U and W. *)
ShadowCtrl == [c \in {97, 99, 100, 101, 107, 117, 119} |->
    IF c = 97 THEN "line start" ELSE IF c = 101 THEN "line end"
    ELSE IF c = 117 THEN "kill line" ELSE IF c = 107 THEN "kill to end"
    ELSE IF c = 119 THEN "kill word" ELSE "new line"]

AssumedBy(c, e) ==
    IF e.code = "Char" /\ "CONTROL" \in e.mods
    THEN Edit(IF c \in DOMAIN ShadowCtrl THEN ShadowCtrl[c] ELSE "none")
    ELSE IF e.code = "Char" THEN <<"insert", e.n>>
    ELSE Edit(IF e.code \in DOMAIN ShadowKeys THEN ShadowKeys[e.code] ELSE "none")

(* Faulty variant: the case of a character with Ctrl is not folded.         *)
AssumedCaseSensitive(e) == AssumedBy(e.n, e)

Assumed(e) == AssumedBy(Lower(e.n), e)

-----------------------------------------------------------------------------
(* The client. *)

(* Ctrl-Q, Ctrl-Shift-M and Ctrl-Shift-C are not for the remote. *)
Local(e) ==
    /\ e.code = "Char" /\ "CONTROL" \in e.mods
    /\ \/ e.n = 113
       \/ "SHIFT" \in e.mods /\ Lower(e.n) \in {109, 99}

(* The event as an xterm reports it: with Ctrl a character has no case, and *)
(* Shift is in the character or in BackTab already.                         *)
AsXterm(e) ==
    IF e.code = "Char"
    THEN Key("Char", IF "CONTROL" \in e.mods THEN Lower(e.n) ELSE e.n,
             e.mods \ {"SHIFT"})
    ELSE IF e.code = "BackTab" THEN Key(e.code, e.n, {})
    ELSE e

(* What the bytes keep of an event: the modifiers only of characters and of *)
(* the mouse, and of a release not the button.  A pasted character arrives  *)
(* as a typed one.                                                          *)
Delivered(e) ==
    IF e.code = "Char" THEN e
    ELSE IF e.code = "Pasted" THEN Key("Char", e.n, {})
    ELSE IF e.code = "MouseUp"
         THEN Button("MouseUp", "any", e.col, e.row, e.mods)
    ELSE IF e.code \in MouseCodes THEN e
    ELSE Key(e.code, e.n, {})

SendAs(bytes, events, commands) ==
    /\ wire' = wire \o bytes
    /\ meant' = meant \o events
    /\ assumed' = assumed \o commands
    /\ UNCHANGED <<mode, got>>

(* Event::Key, without an active suggestion (App has the rest of on_key).   *)
Press(e) ==
    /\ Len(meant) < MaxEvents
    /\ ~Local(e)
    /\ Encode(e) # <<>>
    /\ SendAs(Encode(e), <<AsXterm(e)>>, <<Assumed(e)>>)

(* Event::Mouse; the wheel scrolls the local VT, except on the alt screen.  *)
Mouse(e) ==
    /\ Len(meant) < MaxEvents
    /\ e.code \in {"ScrollUp", "ScrollDown"} => "ALT_SCREEN" \in mode
    /\ EncodeMouse(e) # <<>>
    /\ SendAs(EncodeMouse(e), <<AsXterm(e)>>, <<Edit("none")>>)

(* The bytes of a string. *)
Utf8All(text) ==
    LET bytes[i \in 0..Len(text)] ==
            IF i = 0 THEN <<>> ELSE bytes[i - 1] \o Utf8(text[i])
    IN  bytes[Len(text)]

(* Event::Paste: the shadow does not see it. *)
Paste(text) ==
    LET bracketed == "BRACKETED_PASTE" \in mode
        chars == [i \in DOMAIN text |-> Key("Pasted", text[i], {})]
        events == IF bracketed THEN <<PasteStart>> \o chars \o <<PasteEnd>>
                               ELSE chars
    IN  /\ Len(meant) < MaxEvents
        /\ SendAs(IF bracketed
                  THEN <<ESC, 91, 50, 48, 48, 126>> \o Utf8All(text)
                       \o <<ESC, 91, 50, 48, 49, 126>>
                  ELSE Utf8All(text),
                  events, [i \in DOMAIN events |-> Edit("none")])

-----------------------------------------------------------------------------
(* The remote (external). *)

SetMode ==
    /\ mode' \in Modes \ {mode}
    /\ UNCHANGED <<wire, got, meant, assumed>>

(* Numbers separated by semicolons. *)
OneMore(ns, b) == IF b = 59 THEN Append(ns, 0)
                  ELSE [ns EXCEPT ![Len(ns)] = 10 * @ + (b - 48)]

Numbers(bytes) ==
    LET ns[i \in 0..Len(bytes)] ==
            IF i = 0 THEN <<0>> ELSE OneMore(ns[i - 1], bytes[i])
    IN  ns[Len(bytes)]

CodeOf(f, bytes) ==
    IF \E code \in DOMAIN f : f[code] = bytes
    THEN Plain(CHOOSE code \in DOMAIN f : f[code] = bytes)
    ELSE Plain("unknown")

Keypad == [n \in 1..24 |->
    IF n \in {15, 17, 18, 19, 20, 21, 23, 24}
    THEN Key("F", n - 10 - (IF n > 22 THEN 2 ELSE IF n > 16 THEN 1 ELSE 0), {})
    ELSE CodeOf([Insert |-> 2, Delete |-> 3, PageUp |-> 5, PageDown |-> 6], n)]

MouseReport(bytes, final) ==
    LET ns == Numbers(bytes)
        Bit(i) == (ns[1] \div i) % 2 = 1
        kind == IF final = 109 THEN "MouseUp"
                ELSE IF Bit(64) THEN <<"ScrollUp", "ScrollDown">>[1 + (ns[1] % 4)]
                ELSE IF Bit(32) THEN "MouseDrag" ELSE "MouseDown"
    IN  Button(kind,
               IF Bit(64) THEN "none"
               ELSE <<"Left", "Middle", "Right", "any">>[1 + (ns[1] % 4)],
               ns[2] - 1, ns[3] - 1,
               (IF Bit(4) THEN {"SHIFT"} ELSE {})
               \cup (IF Bit(8) THEN {"ALT"} ELSE {})
               \cup (IF Bit(16) THEN {"CONTROL"} ELSE {}))

(* ESC [ parameters final. *)
Csi(bytes, final) ==
    IF bytes # <<>> /\ bytes[1] = 60 THEN MouseReport(Tail(bytes), final)
    ELSE IF final = 126
         THEN LET n == Numbers(bytes)[1]
              IN  IF n \in {200, 201} THEN Key("Paste", n, {})
                  ELSE IF n \in DOMAIN Keypad THEN Keypad[n]
                  ELSE Plain("unknown")
    ELSE IF bytes # <<>> THEN Plain("unknown")
    ELSE IF final = 90 THEN Plain("BackTab")
    ELSE CodeOf(CursorLetter, final)

Ss3(final) ==
    IF final \in 80..83 THEN Key("F", final - 79, {})
    ELSE CodeOf(CursorLetter, final)

(* A control byte, named as crossterm does. *)
Control(b) ==
    IF b = 13 THEN Plain("Enter") ELSE IF b = 9 THEN Plain("Tab")
    ELSE IF b = 127 THEN Plain("Backspace")
    ELSE Key("Char", IF b = 0 THEN 32 ELSE IF b > 27 THEN b + 24 ELSE b + 96,
             {"CONTROL"})

(* The event at the head of the bytes, and the number of its bytes.         *)
ReadPlain(bytes) ==
    LET b == bytes[1]
    IN  IF b < 32 \/ b = 127 THEN [ev |-> Control(b), n |-> 1]
        ELSE IF b < 128 THEN [ev |-> Key("Char", b, {}), n |-> 1]
        ELSE IF b < 224
             THEN [ev |-> Key("Char", (b - 192) * 64 + bytes[2] - 128, {}),
                   n |-> 2]
        ELSE [ev |-> Key("Char", (b - 224) * 4096 + (bytes[2] - 128) * 64
                                 + bytes[3] - 128, {}), n |-> 3]

ReadOne(bytes) ==
    IF bytes[1] # ESC THEN ReadPlain(bytes)
    ELSE IF bytes[2] = 91
         THEN LET n == SelectInSubSeq(bytes, 3, Len(bytes),
                                      LAMBDA b : b \in 64..126)
              IN  [ev |-> Csi(SubSeq(bytes, 3, n - 1), bytes[n]), n |-> n]
    ELSE IF bytes[2] = 79 THEN [ev |-> Ss3(bytes[3]), n |-> 3]
    ELSE LET r == ReadPlain(Tail(bytes))
         IN  [ev |-> Key(r.ev.code, r.ev.n, r.ev.mods \cup {"ALT"}),
              n |-> r.n + 1]

Read ==
    /\ wire # <<>>
    /\ got' = Append(got, ReadOne(wire).ev)
    /\ wire' = SubSeq(wire, ReadOne(wire).n + 1, Len(wire))
    /\ UNCHANGED <<mode, meant, assumed>>

(* What readline's default keys do to the line, "unbound" where it has no   *)
(* key for the bytes or one App has no name for.                            *)
KeyMap == [Backspace |-> "rub out", Enter |-> "accept", Left |-> "back",
           Right |-> "forward", Home |-> "line start", End |-> "line end",
           Up |-> "history", Down |-> "history", Delete |-> "delete",
           Insert |-> "overwrite", Tab |-> "complete", Paste |-> "none"]

(* Ctrl-A to F, H, J, K, U and W; Ctrl-G, L, Z, Space and two more spare it. *)
CtrlMap == [c \in {97, 98, 99, 100, 101, 102, 104, 106, 107, 117, 119} |->
    IF c = 97 THEN "line start" ELSE IF c = 98 THEN "back"
    ELSE IF c = 99 THEN "new line" ELSE IF c = 100 THEN "delete"
    ELSE IF c = 101 THEN "line end" ELSE IF c = 102 THEN "forward"
    ELSE IF c = 104 THEN "rub out" ELSE IF c = 106 THEN "accept"
    ELSE IF c = 107 THEN "kill to end" ELSE IF c = 117 THEN "kill to start"
    ELSE "kill word"]
CtrlIdle == {103, 108, 122, 32, 52, 54}

Performed(e) ==
    IF e.code = "Char" /\ e.mods = {} THEN <<"insert", e.n>>
    ELSE IF e.code = "Char" /\ e.mods = {"CONTROL"}
    THEN Edit(IF e.n \in DOMAIN CtrlMap THEN CtrlMap[e.n]
              ELSE IF e.n \in CtrlIdle THEN "none" ELSE "unbound")
    ELSE Edit(IF e.code \in DOMAIN KeyMap THEN KeyMap[e.code] ELSE "unbound")

Next ==
    \/ \E e \in KeyEvents : Press(e)
    \/ \E e \in MouseEvents : Mouse(e)
    \/ \E text \in Pastes : Paste(text)
    \/ SetMode
    \/ Read

Spec == Init /\ [][Next]_vars

-----------------------------------------------------------------------------
(* Properties. *)

(* The stream of bytes can be taken apart: the remote reads the events it   *)
(* was sent, one by one and no others, although modes change while keys are *)
(* under way, and pastes stand between keys (keys.rs:25-157).  Against the  *)
(* promise of the bytes a real xterm would emit (keys.rs:3-5, 22), cursor   *)
(* and function keys arrive without their modifiers (keys.rs:34-46) and a   *)
(* release of the mouse without its button (keys.rs:64): Delivered.         *)
Understood ==
    /\ Len(got) <= Len(meant)
    /\ \A i \in DOMAIN got : got[i] = Delivered(meant[i])
    /\ wire = <<>> => Len(got) = Len(meant)

(* Keys readline does not take as App does.  With Alt a character is a      *)
(* command, and App inserts it; of the characters with Ctrl, U and D spare  *)
(* a part of the line App clears, B, F, H and J do what App ignores, and so *)
(* may the rest but for A, C, E, K and W and for those that do nothing; Up, *)
(* Down, PageUp and PageDown make App forget a line they may leave alone;   *)
(* Delete, Insert, Tab and a pasted character change a line App keeps; what *)
(* BackTab, function keys and the mouse do is not known to App.             *)
Drifting(e) ==
    \/ e.code = "Char" /\ "ALT" \in e.mods
    \/ /\ e.code = "Char" /\ "CONTROL" \in e.mods
       /\ e.n \notin {97, 99, 101, 107, 119} \cup CtrlIdle
    \/ e.code \in {"Up", "Down", "PageUp", "PageDown", "Delete", "Insert", "Tab",
                   "BackTab", "F", "Pasted"} \cup MouseCodes

(* The bytes of a key make readline do the edit with which App follows it   *)
(* in its shadow, or none if App makes none: a modifier App ignores is not  *)
(* sent, one it heeds is (app.rs:277-382).  The keys of Drifting are the    *)
(* exceptions, all of them.                                                 *)
Lockstep ==
    \A i \in DOMAIN got :
        Performed(got[i]) = assumed[i] <=> ~Drifting(meant[i])
=============================================================================
