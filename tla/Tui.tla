--------------------------------- MODULE Tui ---------------------------------
(***************************************************************************)
(* The tiny-ssh terminal client (tiny-ssh-cli/src/main.rs) on top of a     *)
(* session: the event loop of drive(), which owns the SessionHandle, takes *)
(* terminal events before session events (a biased select!), awaits its    *)
(* sends inside the branch that took the event, and drops the handle when  *)
(* it returns; and the set-up and tear-down of the user's terminal around  *)
(* it.  Of App, the part that follows the session and the mouse is kept.   *)
(* Writing to the terminal may fail.                                       *)
(***************************************************************************)
EXTENDS SessionDriver

CONSTANTS
    Kinds,      \* bound: the kinds of terminal events that occur
    MaxKeys     \* bound: terminal events and changes of the window

TermKind == {"bytes", "quit", "toggle", "local", "end", "resize"}

ASSUME KindsAssumption == Kinds \subseteq TermKind
ASSUME MaxKeysAssumption == MaxKeys \in Nat

VARIABLES
    ui,         \* "setup", at the "top" of the loop, "run" at its select!,
                \* "send" in a send, "leave" after the loop, "exited"
    modes,      \* the modes of the terminal the client has set
    capture,    \* App.mouse_capture
    changed,    \* App.mouse_capture_changed
    window,     \* the VT grid the window has room for
    unseen,     \* the window has only changed before there was an EventStream
    pend,       \* the terminal event whose send is awaited
    kbd,        \* terminal events not yet taken
    nKeys,      \* terminal events so far
    exitBy,     \* why drive() returned
    appState,   \* App.state
    lastError,  \* App.last_error is set
    localSize,  \* the size of the local VT grid
    nShown      \* Output, Stderr and ExitStatus events applied to App

appVars == <<appState, lastError, nShown>>
screenVars == <<modes, capture, changed>>
windowVars == <<window, unseen>>
uiVars == <<ui, pend, kbd, nKeys, exitBy, localSize, appVars, screenVars,
            windowVars>>
tuiVars == <<vars, uiVars>>

(* Terminal events: keys, mouse events and pastes that send bytes, Ctrl-Q,  *)
(* Ctrl-Shift-M, the others that send nothing, window resizes, and the end  *)
(* of the stream.  An error of the stream changes nothing.                  *)
TermEvent ==
    [kind : TermKind \ {"resize"}, size : {InitSize}]
    \cup [kind : {"resize"}, size : Sizes]

TermMode == {"raw", "alt", "mouse", "paste"}

TuiInit ==
    /\ Init
    /\ ui = "setup" /\ pend = [kind |-> "local", size |-> InitSize]
    /\ kbd = <<>> /\ nKeys = 0 /\ exitBy = "none"
    /\ appState = "Connecting" /\ lastError = FALSE
    /\ localSize = InitSize /\ nShown = 0
    /\ modes = {} /\ capture = TRUE /\ changed = FALSE
    /\ window = InitSize /\ unseen = FALSE

-----------------------------------------------------------------------------
(* The user and the window (external). *)
Type(e) ==
    /\ ui \in {"top", "run", "send"}
    /\ e.kind \in Kinds
    /\ nKeys < MaxKeys
    /\ kbd' = Append(kbd, e)
    /\ nKeys' = nKeys + 1
    /\ IF e.kind = "resize" THEN window' = e.size /\ unseen' = FALSE
                            ELSE UNCHANGED windowVars
    /\ UNCHANGED <<vars, ui, pend, exitBy, localSize, appVars, screenVars>>

(* main() has read the size of the window, and nobody watches it yet. *)
WindowChanges ==
    /\ ui = "setup"
    /\ nKeys < MaxKeys
    /\ nKeys' = nKeys + 1
    /\ window' \in Sizes \ {window}
    /\ unseen' = TRUE
    /\ UNCHANGED <<vars, ui, pend, kbd, exitBy, localSize, appVars, screenVars>>

-----------------------------------------------------------------------------
(* run_tui(): setup_terminal().  A step that fails leaves the modes set     *)
(* before it, and drops the handle on the way out of run_tui().             *)
Setup ==
    /\ ui = "setup"
    /\ \/ /\ ui' = "top"
          /\ modes' = TermMode
          /\ UNCHANGED <<vars, exitBy>>
       \/ /\ Drop
          /\ ui' = "exited"
          /\ exitBy' = "setup"
          /\ modes' \in {{}, {"raw"}, {"raw", "alt"}, {"raw", "alt", "mouse"},
                         TermMode}
    /\ UNCHANGED <<pend, kbd, nKeys, localSize, appVars, capture, changed,
                   windowVars>>

(* drive(): what the loop does before it waits, the mouse capture, the      *)
(* clipboard and the frame, all of them written to the terminal.            *)
LoopTop ==
    /\ ui = "top"
    /\ \/ /\ ui' = "run"
          /\ changed' = FALSE
          /\ modes' = IF ~changed THEN modes
                      ELSE IF capture THEN modes \cup {"mouse"}
                      ELSE modes \ {"mouse"}
          /\ UNCHANGED exitBy
       \/ /\ ui' = "leave"
          /\ exitBy' = "error"
          /\ UNCHANGED <<changed, modes>>
    /\ UNCHANGED <<vars, pend, kbd, nKeys, localSize, appVars, capture,
                   windowVars>>

(* drive(): the terminal branch of the select!, preferred when ready. *)
TakeTerminal ==
    /\ ui = "run"
    /\ kbd # <<>>
    /\ kbd' = Tail(kbd)
    /\ \/ /\ Head(kbd).kind \in {"bytes", "quit", "resize"}
          /\ ui' = "send"
          /\ pend' = Head(kbd)
          /\ UNCHANGED <<exitBy, capture, changed>>
       \/ /\ Head(kbd).kind = "toggle"
          /\ ui' = "top"
          /\ capture' = ~capture
          /\ changed' = TRUE
          /\ UNCHANGED <<exitBy, pend>>
       \/ /\ Head(kbd).kind = "local"
          /\ ui' = "top"
          /\ UNCHANGED <<exitBy, pend, capture, changed>>
       \/ /\ Head(kbd).kind = "end"
          /\ ui' = "leave"
          /\ exitBy' = "terminal"
          /\ UNCHANGED <<pend, capture, changed>>
    /\ UNCHANGED <<vars, nKeys, localSize, appVars, modes, windowVars>>

(* Faulty variant: a full queue drops the command instead of waiting. *)
SentOrDiscarded(Call) ==
    \/ Call /\ UNCHANGED lastError
    \/ /\ Finished \/ Len(input) = INPUT_CAP
       /\ lastError' = (lastError \/ pend.kind = "bytes")
       /\ UNCHANGED vars

(* handle_terminal_event's call of the handle is over: the command is       *)
(* queued, or the driver has gone and the call failed.  With MaxBytes at    *)
(* least MaxKeys the bound of SendBytes never blocks one.                   *)
Sent(Call) ==
    \/ Call /\ UNCHANGED lastError
    \/ /\ Finished
       /\ lastError' = (lastError \/ pend.kind = "bytes")
       /\ UNCHANGED vars

(* Faulty variant: Ctrl-Q is an ordinary key until the shell is open. *)
FinishSendQuitWhenOpen ==
    /\ ui = "send"
    /\ \/ /\ pend.kind = "bytes" \/ (pend.kind = "quit" /\ appState # "ShellOpen")
          /\ Sent(SendBytes)
          /\ ui' = "top"
          /\ UNCHANGED <<exitBy, localSize>>
       \/ /\ pend.kind = "resize"
          /\ Sent(Resize(pend.size))
          /\ ui' = "top"
          /\ localSize' = pend.size
          /\ UNCHANGED exitBy
       \/ /\ pend.kind = "quit" /\ appState = "ShellOpen"
          /\ Sent(Disconnect)
          /\ ui' = "leave"
          /\ exitBy' = "quit"
          /\ UNCHANGED localSize
    /\ UNCHANGED <<pend, kbd, nKeys, appState, nShown, screenVars, windowVars>>

(* Faulty variant: the local grid is resized with rows and columns swapped. *)
FinishSendTransposed ==
    /\ ui = "send"
    /\ \/ /\ pend.kind = "bytes"
          /\ Sent(SendBytes)
          /\ ui' = "top"
          /\ UNCHANGED <<exitBy, localSize>>
       \/ /\ pend.kind = "resize"
          /\ Sent(Resize(pend.size))
          /\ ui' = "top"
          /\ localSize' = <<pend.size[2], pend.size[1]>>
          /\ UNCHANGED exitBy
       \/ /\ pend.kind = "quit"
          /\ Sent(Disconnect)
          /\ ui' = "leave"
          /\ exitBy' = "quit"
          /\ UNCHANGED localSize
    /\ UNCHANGED <<pend, kbd, nKeys, appState, nShown, screenVars, windowVars>>

FinishSend ==
    /\ ui = "send"
    /\ \/ /\ pend.kind = "bytes"
          /\ Sent(SendBytes)
          /\ ui' = "top"
          /\ UNCHANGED <<exitBy, localSize>>
       \/ /\ pend.kind = "resize"
          /\ Sent(Resize(pend.size))
          /\ ui' = "top"
          /\ localSize' = pend.size
          /\ UNCHANGED exitBy
       \/ /\ pend.kind = "quit"
          /\ Sent(Disconnect)
          /\ ui' = "leave"
          /\ exitBy' = "quit"
          /\ UNCHANGED localSize
    /\ UNCHANGED <<pend, kbd, nKeys, appState, nShown, screenVars, windowVars>>

(* App.on_session_event; on the final event finalize_after_close draws once *)
(* more, which may fail, and drive() leaves.                                *)
Apply(e, error) ==
    /\ appState' = IF e \in StateEvent THEN e ELSE appState
    /\ lastError' = error
    /\ nShown' = IF e \in StreamEvent THEN nShown + 1 ELSE nShown

(* Faulty variant: on_session_event ignores Error events. *)
TakeSessionDeaf ==
    /\ ui = "run"
    /\ kbd = <<>>
    /\ NextEvent
    /\ LET e == Head(events) IN
       /\ Apply(e, lastError)
       /\ ui' = IF e = "Final" THEN "leave" ELSE "top"
       /\ exitBy' \in IF e = "Final" THEN {"session", "error"} ELSE {exitBy}
    /\ UNCHANGED <<pend, kbd, nKeys, localSize, screenVars, windowVars>>

(* Faulty variant: the final event is applied but does not end drive(). *)
TakeSessionLingering ==
    /\ ui = "run"
    /\ kbd = <<>>
    /\ NextEvent
    /\ Apply(Head(events), lastError \/ Head(events) = "Error")
    /\ ui' = "top"
    /\ UNCHANGED <<exitBy, pend, kbd, nKeys, localSize, screenVars, windowVars>>

(* The session branch: apply the event to App, leave after the final one.   *)
(* The branch for a stream that ends without it is not taken (FinalQueued). *)
TakeSession ==
    /\ ui = "run"
    /\ kbd = <<>>
    /\ NextEvent
    /\ LET e == Head(events) IN
       /\ Apply(e, lastError \/ e = "Error")
       /\ ui' = IF e = "Final" THEN "leave" ELSE "top"
       /\ exitBy' \in IF e = "Final" THEN {"session", "error"} ELSE {exitBy}
    /\ UNCHANGED <<pend, kbd, nKeys, localSize, screenVars, windowVars>>

(* Faulty variant: an error of drive() is returned before the tear-down. *)
ExitAtOnce ==
    /\ ui = "leave"
    /\ Drop
    /\ ui' = "exited"
    /\ modes' = IF exitBy = "error" THEN modes ELSE {}
    /\ UNCHANGED <<pend, kbd, nKeys, exitBy, localSize, appVars, capture,
                   changed, windowVars>>

(* drive() has returned, with an error or not: run_tui() restores what it   *)
(* can of the terminal and drops the handle.  A terminal that was writable  *)
(* to the end of the loop still is: a first failure inside the tear-down is *)
(* left out.  Leaving raw mode writes nothing.                              *)
Exit ==
    /\ ui = "leave"
    /\ Drop
    /\ ui' = "exited"
    /\ modes' \in IF exitBy = "error" THEN {{}, modes \ {"raw"}} ELSE {{}}
    /\ UNCHANGED <<pend, kbd, nKeys, exitBy, localSize, appVars, capture,
                   changed, windowVars>>

UiStep == Setup \/ LoopTop \/ TakeTerminal \/ FinishSend \/ TakeSession \/ Exit

BelowStep == DriverStep \/ ServerAnswer \/ ServerStep

TuiNext ==
    \/ \E e \in TermEvent : Type(e)
    \/ WindowChanges
    \/ UiStep
    \/ BelowStep /\ UNCHANGED uiVars

TuiSpec == TuiInit /\ [][TuiNext]_tuiVars

(* The client's task is polled when it can move; the rest is SessionDriver's. *)
TuiLiveSpec == TuiSpec /\ Fairness /\ WF_tuiVars(UiStep)

-----------------------------------------------------------------------------
(* Properties. *)

(* Type invariant of the client's own state; the local grid has, column for *)
(* column and row for row, a size the window has had (main.rs:340-345).     *)
TuiTypeOK ==
    /\ ui \in {"setup", "top", "run", "send", "leave", "exited"}
    /\ pend \in TermEvent
    /\ kbd \in Seq(TermEvent)
    /\ nKeys \in 0..MaxKeys
    /\ exitBy \in {"none", "setup", "quit", "terminal", "session", "error"}
    /\ appState \in StateEvent
    /\ lastError \in BOOLEAN
    /\ localSize \in Sizes /\ window \in Sizes
    /\ nShown \in Nat
    /\ modes \subseteq TermMode
    /\ capture \in BOOLEAN /\ changed \in BOOLEAN /\ unseen \in BOOLEAN

(* Everything the server sent before it closed is on the screen when the    *)
(* client leaves because the session ended (main.rs:250-258).               *)
EverythingShown ==
    exitBy = "session" /\ why \in {"remote_closed", "remote_ended"}
        => nShown = nStream

(* A session that ends by itself leaves the user with its outcome: a final  *)
(* state, and an error message if it failed (app.rs:119-132).               *)
OutcomeShown ==
    exitBy = "session" => /\ appState \in {"Closed", "Failed"}
                          /\ appState = "Failed" => lastError

(* While the client still listens, a driver that has ended has its final    *)
(* event, and nothing after it, in the queue: drive() never meets the end   *)
(* of the stream without it (main.rs:260-263).                              *)
FinalQueued ==
    ui \in {"top", "run", "send"} /\ Finished
        => events # <<>> /\ events[Len(events)] = "Final"

Resizes(q) == \E i \in 1..Len(q) : q[i].kind = "resize"

(* Local grid and remote PTY agree whenever the client is idle, connected   *)
(* and has nothing queued, and the local grid fits the window, except for   *)
(* changes the client could not see yet (main.rs:64, 340-345).              *)
GridsAgree ==
    ui = "run" =>
        /\ pc = "loop" /\ link = "up" /\ ~Resizes(input)
            => localSize = ptySize
        /\ ~unseen /\ ~Resizes(kbd) => localSize = window

(* The terminal captures the mouse as the user last asked while the client  *)
(* waits for events, and is back in its own modes when the client has gone, *)
(* unless it could not be written to; setup_terminal's failure is the only  *)
(* one that leaves it raw (main.rs:151-162, 166, 207-214).                  *)
TerminalRestored ==
    /\ ui \in {"run", "send"} =>
           modes = TermMode \ (IF capture THEN {} ELSE {"mouse"})
    /\ ui = "exited" /\ modes # {} => exitBy \in {"setup", "error"}
    /\ ui = "exited" /\ "raw" \in modes => exitBy = "setup"

(* Leaving the client never leaves a driver behind, whatever the server     *)
(* does (session.rs:153-159).                                               *)
NoOrphanDriver == ui = "exited" ~> Finished

(* The wedge: the client awaits room for a command, the driver awaits room  *)
(* for an event, and each is the one that would make room for the other.    *)
Wedged ==
    /\ ui = "send"
    /\ Len(input) = INPUT_CAP
    /\ EventsFull

(* A session that has failed or whose loop has ended brings the client to   *)
(* its exit, unless the two are wedged (main.rs:248-263).                   *)
SessionEndExits ==
    why # "none" \/ phase = "Failed" ~> ui = "exited" \/ Wedged

QuitPressed == \E i \in 1..Len(kbd) : kbd[i].kind = "quit"

(* Ctrl-Q leaves the client if the server answers, unless client and driver *)
(* are wedged (main.rs:290-293).                                            *)
QuitExitsUnlessWedged ==
    ServerAnswers => (QuitPressed ~> ui = "exited" \/ Wedged)

(* README.md: Ctrl-Q disconnects locally and exits.  Refuted, even with a   *)
(* server that answers: a wedged client never takes the key.                *)
QuitExits == ServerAnswers => (QuitPressed ~> ui = "exited")
=============================================================================
