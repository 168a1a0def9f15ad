----------------------------- MODULE OscMarkers -----------------------------
(***************************************************************************)
(* What App is promised by the OSC scanner of tiny-ssh-cli/src/term.rs:    *)
(* the prompt markers and directories the remote reports arrive each once, *)
(* in order and in the end all of them, whatever surrounds them in the     *)
(* output and wherever the network cuts it.  OscScanner implements this.   *)
(***************************************************************************)
EXTENDS Sequences, Naturals

CONSTANT Events     \* OscEvent

VARIABLES
    sent,           \* what the remote has reported
    seen            \* what the scanner has found

vars == <<sent, seen>>

Init == sent = <<>> /\ seen = <<>>

Send ==
    /\ \E e \in Events : sent' = Append(sent, e)
    /\ UNCHANGED seen

Find ==
    /\ Len(seen) < Len(sent)
    /\ seen' = Append(seen, sent[Len(seen) + 1])
    /\ UNCHANGED sent

Next == Send \/ Find

Spec == Init /\ [][Next]_vars /\ WF_vars(Find)
=============================================================================
