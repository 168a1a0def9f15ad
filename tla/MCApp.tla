-------------------------------- MODULE MCApp --------------------------------
(* Instances of App for TLC. *)
EXTENDS App

MCChars == {"l", "w", " "}
MCWide == {"w"}
MCLower == [c \in MCChars |-> c]
MCCommands == {<<"l">>, <<"w", "l">>, <<"w", "l", "l">>}

(* A table with one row. *)
Earlier(c) == <<[host |-> Host, cwd |-> NoCwd, command |-> c, timestamp |-> 0,
                 exit |-> "null", source |-> "user"]>>
MCTables == {Earlier(<<"w", "l", "l">>)}
NoTable == {<<>>}

OneChar == {"l"}
OneLower == [c \in OneChar |-> c]
OneCommands == {<<"l">>, <<"l", "l">>}

Typing == {Char(c) : c \in Chars}
Keys(S) == {Named(k) : k \in S}

(* The keys whose effect App follows exactly; Home is Ctrl-A to both sides,  *)
(* and Right, pressed often enough, is End or Ctrl-E.                       *)
FollowedKeys == Typing \cup Keys({"Backspace", "Ctrl-A", "Ctrl-K",
    "Ctrl-W", "Ctrl-C", "Left", "Right", "Enter"})

(* Keys of every kind the shadow tells apart, and some it does not follow.  *)
AnyKeys == Typing \cup Keys({"Backspace", "Home", "End", "Ctrl-K", "Ctrl-W",
    "Ctrl-C", "Ctrl-U", "Ctrl-D", "Ctrl-E", "Ctrl-L", "Left", "Right", "Enter", "Tab", "Up",
    "Paste"})

PlainKeys == Typing \cup Keys({"Right", "Enter"})
=============================================================================
