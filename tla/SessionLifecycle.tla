-------------------------- MODULE SessionLifecycle --------------------------
(***************************************************************************)
(* What a tiny-ssh session promises to the reader of its event stream      *)
(* (SessionEvent and SessionState in tiny-ssh-core/src/session.rs): the    *)
(* order in which lifecycle transitions, errors, shell output and the      *)
(* final event may appear, whatever the network, the user and the          *)
(* scheduler do.  SessionDriver implements this specification.             *)
(***************************************************************************)
EXTENDS Naturals

VARIABLES
    phase,      \* the SessionState last announced, "none" before the first
    reported,   \* an Error event has been emitted
    fin,        \* the final Closed event has been emitted
    nOut        \* Output, Stderr and ExitStatus events emitted so far

vars == <<phase, reported, fin, nOut>>

(* The transitions of a session that goes well. *)
NextPhase(p) ==
    CASE p = "none" -> "Connecting"
      [] p = "Connecting" -> "Authenticated"
      [] p = "Authenticated" -> "ShellOpen"
      [] p = "ShellOpen" -> "Closed"

Init ==
    /\ phase = "none"
    /\ reported = FALSE
    /\ fin = FALSE
    /\ nOut = 0

(* The session moves on; before the shell is open it never moves on after  *)
(* an error.                                                               *)
Advance ==
    /\ phase \in {"none", "Connecting", "Authenticated", "ShellOpen"}
    /\ phase # "ShellOpen" => ~reported
    /\ phase' = NextPhase(phase)
    /\ UNCHANGED <<reported, fin, nOut>>

(* An error is shown to the user while the session is alive. *)
Report ==
    /\ phase \in {"Connecting", "Authenticated", "ShellOpen"}
    /\ reported' = TRUE
    /\ UNCHANGED <<phase, fin, nOut>>

(* The session fails: only before the shell is open, and never silently. *)
Fail ==
    /\ phase \in {"Connecting", "Authenticated"}
    /\ reported
    /\ phase' = "Failed"
    /\ UNCHANGED <<reported, fin, nOut>>

(* Shell output, and the exit status, appear only while the shell is open. *)
Stream ==
    /\ phase = "ShellOpen"
    /\ nOut' = nOut + 1
    /\ UNCHANGED <<phase, reported, fin>>

(* The final event comes once, after an announced end. *)
Final ==
    /\ phase \in {"Failed", "Closed"}
    /\ ~fin
    /\ fin' = TRUE
    /\ UNCHANGED <<phase, reported, nOut>>

Next == Advance \/ Report \/ Fail \/ Stream \/ Final

Spec == Init /\ [][Next]_vars
=============================================================================
