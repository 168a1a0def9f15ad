---------------------------- MODULE SessionDriver ----------------------------
(***************************************************************************)
(* A session of tiny-ssh-core (src/session.rs): the SessionHandle a client *)
(* holds, the driver task that owns the SSH channel, the two bounded       *)
(* queues between them, and the SSH connection below the driver (russh,    *)
(* external), modelled from how transport/ssh/{client,session}.rs use it.  *)
(*                                                                         *)
(* A step of the driver is the code between two awaits; `pc' names the     *)
(* await the task is parked at.  Every await is a point where the handle   *)
(* may be used or dropped, where the network may act, and where an abort   *)
(* takes effect.                                                           *)
(***************************************************************************)
EXTENDS Naturals, Sequences

CONSTANTS
    INPUT_CAP,      \* mpsc::channel(64), session.rs:169
    EVENT_CAP,      \* mpsc::channel(256), session.rs:170
    Sizes,          \* terminal sizes
    InitSize,       \* the size in the PtyConfig given to spawn
    TIMEOUT,        \* connect_timeout is Some: the connect has a time limit
    MaxBytes,       \* bound: input chunks accepted in a behaviour
    MaxStream,      \* bound: data, stderr and exit messages the server sends
    MaxInFlight     \* bound: server messages not yet taken by the driver

ASSUME CapAssumption == INPUT_CAP \in Nat \ {0} /\ EVENT_CAP \in Nat \ {0}
ASSUME SizeAssumption == InitSize \in Sizes
ASSUME TimeoutAssumption == TIMEOUT \in BOOLEAN
ASSUME BoundAssumption ==
    MaxBytes \in Nat /\ MaxStream \in Nat /\ MaxInFlight \in Nat

VARIABLES
    (* SessionHandle *)
    handle,     \* "live" or "dropped"
    join,       \* the JoinHandle: "held", "awaited", "taken" or "aborted"
    (* The channels between handle and driver *)
    input,      \* commands queued for the driver
    events,     \* events queued for the reader
    (* The driver task *)
    pc,         \* the await the task is at
    cmd,        \* the command being executed, the last one taken
    msg,        \* the server message being forwarded, "other" if none
    why,        \* why the io loop ended
    (* The SSH connection *)
    link,       \* "down", "up", "lost", "disconnected" or "dropped"
    remote,     \* the server's side of the channel
    rq,         \* server messages received by russh, not yet by the driver
    ptySize,    \* the size of the remote PTY
    (* History of the event stream, for SessionLifecycle *)
    phase, reported, fin, nOut,
    (* History of the requests *)
    nBytes,     \* input chunks accepted
    nWritten,   \* input chunks written to the channel
    lastSize,   \* the size last requested
    nStream     \* data, stderr and exit messages the server has sent

handleVars == <<handle, join>>
heldVars == <<cmd, msg, why>>
driverVars == <<pc, cmd, msg, why>>
netVars == <<link, remote, rq, ptySize>>
streamVars == <<phase, reported, fin, nOut>>
countVars == <<nBytes, nWritten, lastSize, nStream>>
vars == <<handle, join, input, events, pc, cmd, msg, why, link, remote, rq,
          ptySize, phase, reported, fin, nOut, nBytes, nWritten, lastSize,
          nStream>>

(* SessionInput.  A command carries two history stamps: how many chunks had *)
(* been accepted, and which size was last requested, when it was queued     *)
(* (itself included).                                                       *)
Command == [kind : {"bytes", "resize", "disconnect"}, n : Nat, size : Sizes]

NoCommand == [kind |-> "resize", n |-> 0, size |-> InitSize]

(* SessionEvent: the five StateChanged events are named by their state, the *)
(* event SessionEvent::Closed is "Final".                                   *)
StateEvent == {"Connecting", "Authenticated", "ShellOpen", "Failed", "Closed"}
StreamEvent == {"Output", "Stderr", "ExitStatus"}
Event == StateEvent \cup StreamEvent \cup {"Error", "Final"}

(* SshEvent, and the channel messages next_event skips. *)
StreamMsg == {"data", "stderr", "exit"}
RemoteMsg == StreamMsg \cup {"eof", "close", "other"}

EventOf(m) ==
    CASE m = "data" -> "Output"
      [] m = "stderr" -> "Stderr"
      [] m = "exit" -> "ExitStatus"

Pcs == {"tell_connecting", "connect", "auth", "err_connect", "fail_connect",
        "tell_auth", "open", "err_open", "fail_open", "disc_open",
        "tell_open", "loop", "write", "err_write", "resize", "err_resize",
        "close", "stream", "disc", "tell_end", "final", "done", "aborted"}

Reasons == {"none", "user", "handle_gone", "write_failed", "remote_closed",
            "remote_ended", "reader_gone"}

Finished == pc \in {"done", "aborted"}

Init ==
    /\ handle = "live" /\ join = "held"
    /\ input = <<>> /\ events = <<>>
    /\ pc = "tell_connecting"
    /\ cmd = NoCommand /\ msg = "other" /\ why = "none"
    /\ link = "down" /\ remote = "idle" /\ rq = <<>> /\ ptySize = InitSize
    /\ phase = "none" /\ reported = FALSE /\ fin = FALSE /\ nOut = 0
    /\ nBytes = 0 /\ nWritten = 0 /\ lastSize = InitSize /\ nStream = 0

-----------------------------------------------------------------------------
(* The handle.  wait() borrows the handle mutably, so no other call runs    *)
(* while it is awaited; a send resolves when the queue has room, and fails  *)
(* without effect once the driver has dropped its receiver.                 *)

CanCall == handle = "live" /\ join # "awaited"

Enqueue(c) ==
    /\ CanCall
    /\ ~Finished
    /\ Len(input) < INPUT_CAP
    /\ input' = Append(input, c)
    /\ nBytes' = c.n
    /\ lastSize' = c.size
    /\ UNCHANGED <<handle, join, events, driverVars, netVars, streamVars,
                   nWritten, nStream>>

SendBytes ==
    /\ nBytes < MaxBytes
    /\ Enqueue([kind |-> "bytes", n |-> nBytes + 1, size |-> lastSize])

Resize(s) == Enqueue([kind |-> "resize", n |-> nBytes, size |-> s])

Disconnect == Enqueue([kind |-> "disconnect", n |-> nBytes, size |-> lastSize])

NextEvent ==
    /\ CanCall
    /\ events # <<>>
    /\ events' = Tail(events)
    /\ UNCHANGED <<handle, join, input, driverVars, netVars, streamVars,
                   countVars>>

SetJoin(from, to) ==
    /\ handle = "live"
    /\ join = from
    /\ join' = to
    /\ UNCHANGED <<handle, input, events, driverVars, netVars, streamVars,
                   countVars>>

(* wait() takes the JoinHandle out of the handle before it awaits it. *)
WaitStart == SetJoin("held", "awaited")

WaitDone == Finished /\ SetJoin("awaited", "taken")

(* A wait() abandoned by its caller (a timeout around it) drops the         *)
(* JoinHandle it took: the driver is detached, not aborted.                 *)
WaitCancel == SetJoin("awaited", "taken")

(* Faulty variant: Drop does not abort the driver. *)
DropWithoutAbort ==
    /\ CanCall
    /\ handle' = "dropped"
    /\ events' = <<>>
    /\ UNCHANGED <<join, input, driverVars, netVars, streamVars, countVars>>

(* Drop aborts the driver if it still has the JoinHandle, then drops both   *)
(* channel ends: queued events are lost, queued commands are not.           *)
Drop ==
    /\ CanCall
    /\ handle' = "dropped"
    /\ join' = IF join = "held" THEN "aborted" ELSE join
    /\ events' = <<>>
    /\ UNCHANGED <<input, driverVars, netVars, streamVars, countVars>>

HandleStep ==
    \/ SendBytes
    \/ \E s \in Sizes : Resize(s)
    \/ Disconnect
    \/ NextEvent
    \/ WaitStart \/ WaitDone \/ WaitCancel
    \/ Drop

-----------------------------------------------------------------------------
(* The driver task. *)

(* Faulty variant: an unbounded event channel. *)
SendUnbounded(e) ==
    \/ /\ handle = "live"
       /\ events' = Append(events, e)
       /\ phase' = IF e \in StateEvent THEN e ELSE phase
       /\ reported' = (reported \/ e = "Error")
       /\ fin' = (fin \/ e = "Final")
       /\ nOut' = IF e \in StreamEvent THEN nOut + 1 ELSE nOut
    \/ /\ handle = "dropped"
       /\ UNCHANGED <<events, streamVars>>

(* Faulty variant: try_send, which gives up when the queue is full. *)
SendOrDiscard(e) ==
    \/ Len(events) < EVENT_CAP /\ SendUnbounded(e)
    \/ Len(events) = EVENT_CAP /\ UNCHANGED <<events, streamVars>>

(* event_tx.send(e).await: waits for room, fails at once when the receiver  *)
(* is gone.                                                                 *)
Send(e) ==
    \/ /\ handle = "live"
       /\ Len(events) < EVENT_CAP
       /\ events' = Append(events, e)
       /\ phase' = IF e \in StateEvent THEN e ELSE phase
       /\ reported' = (reported \/ e = "Error")
       /\ fin' = (fin \/ e = "Final")
       /\ nOut' = IF e \in StreamEvent THEN nOut + 1 ELSE nOut
    \/ /\ handle = "dropped"
       /\ UNCHANGED <<events, streamVars>>

(* `let _ = event_tx.send(e).await' between two points of the driver. *)
Emit(from, e, to) ==
    /\ pc = from
    /\ Send(e)
    /\ pc' = to
    /\ UNCHANGED <<handleVars, input, heldVars, netVars, countVars>>

TellConnecting == Emit("tell_connecting", "Connecting", "connect")

(* An await on the network that moves the connection and the driver. *)
NetStep(from, to, newLink) ==
    /\ pc = from
    /\ pc' = to
    /\ link' = newLink
    /\ UNCHANGED <<handleVars, input, events, heldVars, remote, rq, ptySize,
                   streamVars, countVars>>

(* Faulty variant: a failed connect goes to Failed without an Error event. *)
ConnectFailSilent == NetStep("connect", "fail_connect", "down")

(* client::connect: TCP, key exchange and host key; bounded by the timeout. *)
ConnectOk == NetStep("connect", "auth", "up")
ConnectFail == NetStep("connect", "err_connect", "down")

(* authenticate: no timeout.  A failure drops the russh handle. *)
AuthOk == link = "up" /\ NetStep("auth", "tell_auth", "up")
AuthFail == NetStep("auth", "err_connect", "down")

ErrConnect == Emit("err_connect", "Error", "fail_connect")
FailConnect == Emit("fail_connect", "Failed", "final")
TellAuth == Emit("tell_auth", "Authenticated", "open")

(* open_shell: the channel, then the PTY and shell requests, which are sent *)
(* without awaiting the server's replies.                                   *)
OpenOk ==
    /\ pc = "open"
    /\ link = "up"
    /\ pc' = "tell_open"
    /\ remote' = "open"
    /\ ptySize' = InitSize
    /\ UNCHANGED <<handleVars, input, events, heldVars, link, rq, streamVars,
                   countVars>>

OpenFail == NetStep("open", "err_open", link)

ErrOpen == Emit("err_open", "Error", "fail_open")
FailOpen == Emit("fail_open", "Failed", "disc_open")
TellOpen == Emit("tell_open", "ShellOpen", "loop")

(* client.disconnect(). *)
Disconnected == IF link = "up" THEN "disconnected" ELSE link

(* Faulty variant: the path of a failed open_shell forgets the disconnect. *)
DiscOpenMissing == NetStep("disc_open", "final", link)

DiscOpen == NetStep("disc_open", "final", Disconnected)
Disc == NetStep("disc", "tell_end", Disconnected)
TellEnd == Emit("tell_end", "Closed", "final")
TellFinal == Emit("final", "Final", "done")

-----------------------------------------------------------------------------
(* io_loop: select! picks one of its two ready branches, at random. *)

Leave(reason) == pc' = "disc" /\ why' = reason

(* Where a command taken from the queue leads. *)
Dispatch(kind) ==
    CASE kind = "bytes" -> "write"
      [] kind = "resize" -> "resize"
      [] kind = "disconnect" -> "close"

(* Faulty variant: a queued disconnect overtakes the commands before it. *)
TakeCommandUrgent ==
    /\ pc = "loop"
    /\ \E i \in 1..Len(input) :
        /\ i = 1 \/ input[i].kind = "disconnect"
        /\ cmd' = input[i]
        /\ input' = SubSeq(input, 1, i - 1) \o SubSeq(input, i + 1, Len(input))
        /\ pc' = Dispatch(input[i].kind)
    /\ UNCHANGED <<handleVars, events, msg, why, netVars, streamVars,
                   countVars>>

(* Faulty variant: coalescing queued resizes keeps the first, not the last. *)
TakeCommandCoalescing ==
    /\ pc = "loop"
    /\ input # <<>>
    /\ cmd' = Head(input)
    /\ input' = IF Head(input).kind = "resize"
                THEN SelectSeq(Tail(input), LAMBDA c : c.kind # "resize")
                ELSE Tail(input)
    /\ pc' = Dispatch(Head(input).kind)
    /\ UNCHANGED <<handleVars, events, msg, why, netVars, streamVars,
                   countVars>>

TakeCommand ==
    /\ pc = "loop"
    /\ input # <<>>
    /\ cmd' = Head(input)
    /\ input' = Tail(input)
    /\ pc' = Dispatch(Head(input).kind)
    /\ UNCHANGED <<handleVars, events, msg, why, netVars, streamVars,
                   countVars>>

(* input_rx.recv() returns None: every sender is gone, the queue drained. *)
InputClosed ==
    /\ pc = "loop"
    /\ input = <<>>
    /\ handle = "dropped"
    /\ Leave("handle_gone")
    /\ UNCHANGED <<handleVars, input, events, cmd, msg, netVars, streamVars,
                   countVars>>

(* An await of session.write that ends, one way or the other. *)
WriteStep(to, written) ==
    /\ pc = "write"
    /\ pc' = to
    /\ nWritten' = nWritten + written
    /\ UNCHANGED <<handleVars, input, events, heldVars, netVars, streamVars,
                   nBytes, lastSize, nStream>>

(* session.write: waits until the server's flow-control window has room for *)
(* the chunk, and fails when the connection is gone.                        *)
WriteOk == link = "up" /\ WriteStep("loop", 1)

(* Faulty variant: a failed write is reported and the loop goes on. *)
WriteFailLossy == link # "up" /\ WriteStep("err_resize", 0)

WriteFail == link # "up" /\ WriteStep("err_write", 0)

ErrWrite ==
    /\ pc = "err_write"
    /\ Send("Error")
    /\ Leave("write_failed")
    /\ UNCHANGED <<handleVars, input, cmd, msg, netVars, countVars>>

(* session.resize: a failure is reported and the loop goes on. *)
ResizePty ==
    /\ pc = "resize"
    /\ \/ /\ link = "up"
          /\ ptySize' = cmd.size
          /\ pc' = "loop"
       \/ /\ link # "up"
          /\ pc' = "err_resize"
          /\ UNCHANGED ptySize
    /\ UNCHANGED <<handleVars, input, events, heldVars, link, remote, rq,
                   streamVars, countVars>>

ErrResize == Emit("err_resize", "Error", "loop")

(* Faulty variant: after closing the channel the loop waits for the server. *)
CloseAndLinger ==
    /\ pc = "close"
    /\ pc' = "loop"
    /\ UNCHANGED <<handleVars, input, events, heldVars, netVars, streamVars,
                   countVars>>

(* session.close, its error ignored. *)
Close ==
    /\ pc = "close"
    /\ Leave("user")
    /\ UNCHANGED <<handleVars, input, events, cmd, msg, netVars, streamVars,
                   countVars>>

(* Faulty variant: Eof ends the loop like Closed. *)
TakeRemoteEofEnds ==
    /\ pc = "loop"
    /\ rq # <<>>
    /\ rq' = Tail(rq)
    /\ \/ /\ Head(rq) \in StreamMsg
          /\ msg' = Head(rq)
          /\ pc' = "stream"
          /\ UNCHANGED why
       \/ /\ Head(rq) = "other"
          /\ UNCHANGED <<msg, pc, why>>
       \/ /\ Head(rq) \in {"eof", "close"}
          /\ Leave("remote_closed")
          /\ UNCHANGED msg
    /\ UNCHANGED <<handleVars, input, events, cmd, link, remote, ptySize,
                   streamVars, countVars>>

(* next_event: what the driver does with each server message. *)
TakeRemote ==
    /\ pc = "loop"
    /\ rq # <<>>
    /\ rq' = Tail(rq)
    /\ \/ /\ Head(rq) \in StreamMsg
          /\ msg' = Head(rq)
          /\ pc' = "stream"
          /\ UNCHANGED why
       \/ /\ Head(rq) \in {"eof", "other"}
          /\ UNCHANGED <<msg, pc, why>>
       \/ /\ Head(rq) = "close"
          /\ Leave("remote_closed")
          /\ UNCHANGED msg
    /\ UNCHANGED <<handleVars, input, events, cmd, link, remote, ptySize,
                   streamVars, countVars>>

(* next_event returns None: the connection is gone, the queue drained. *)
RemoteEnded ==
    /\ pc = "loop"
    /\ rq = <<>>
    /\ link # "up"
    /\ Leave("remote_ended")
    /\ UNCHANGED <<handleVars, input, events, cmd, msg, netVars, streamVars,
                   countVars>>

(* Forward a message; a reader that is gone ends the loop. *)
Stream ==
    /\ pc = "stream"
    /\ Send(EventOf(msg))
    /\ msg' = "other"
    /\ \/ handle = "live" /\ pc' = "loop" /\ UNCHANGED why
       \/ handle = "dropped" /\ Leave("reader_gone")
    /\ UNCHANGED <<handleVars, input, cmd, netVars, countVars>>

(* An abort takes effect at an await: the future is dropped, and with it    *)
(* the russh handle.                                                        *)
Cancelled ==
    /\ join = "aborted"
    /\ ~Finished
    /\ pc' = "aborted"
    /\ link' = IF link = "up" THEN "dropped" ELSE link
    /\ UNCHANGED <<handleVars, input, events, heldVars, remote, rq, ptySize,
                   streamVars, countVars>>

ConnectAnswer == ConnectOk \/ ConnectFail
AuthAnswer == AuthOk \/ AuthFail
OpenAnswer == OpenOk \/ OpenFail
ServerAnswer == ConnectAnswer \/ AuthAnswer \/ OpenAnswer \/ WriteOk

TakeInput == TakeCommand \/ InputClosed

DriverStep ==
    \/ TellConnecting \/ ErrConnect \/ FailConnect
    \/ TellAuth \/ ErrOpen \/ FailOpen \/ DiscOpen \/ TellOpen
    \/ TakeInput
    \/ WriteFail \/ ErrWrite \/ ResizePty \/ ErrResize \/ Close
    \/ TakeRemote \/ RemoteEnded \/ Stream
    \/ Disc \/ TellEnd \/ TellFinal
    \/ Cancelled

-----------------------------------------------------------------------------
(* The server (external). *)

(* The server's side of the channel after it sends a message. *)
RemoteAfter(m) ==
    CASE m = "eof" -> "eof"
      [] m = "close" -> "closed"
      [] OTHER -> remote

(* Nothing is received once io_loop has returned and dropped the channel. *)
RemoteSend(m) ==
    /\ link = "up"
    /\ why = "none"
    /\ remote \in IF m \in {"data", "stderr", "eof"} THEN {"open"}
                                                     ELSE {"open", "eof"}
    /\ Len(rq) < MaxInFlight
    /\ m \in StreamMsg => nStream < MaxStream
    /\ rq' = Append(rq, m)
    /\ nStream' = IF m \in StreamMsg THEN nStream + 1 ELSE nStream
    /\ remote' = RemoteAfter(m)
    /\ UNCHANGED <<handleVars, input, events, driverVars, link, ptySize,
                   streamVars, nBytes, nWritten, lastSize>>

(* The connection drops; what russh has received can still be taken. *)
LinkLost ==
    /\ link = "up"
    /\ link' = "lost"
    /\ UNCHANGED <<handleVars, input, events, driverVars, remote, rq, ptySize,
                   streamVars, countVars>>

ServerStep ==
    \/ \E m \in RemoteMsg : RemoteSend(m)
    \/ LinkLost

Next == HandleStep \/ DriverStep \/ ServerAnswer \/ ServerStep

Spec == Init /\ [][Next]_vars

(* Fairness of the runtime: tokio polls a task that can move and an abort   *)
(* reaches it; select! picks its branch at random, so a command that is     *)
(* ready again and again is taken; the connect timeout, if there is one,    *)
(* ends a connect that gets no answer.  Nothing is assumed of the client or *)
(* of the server, which may never answer and never open its window.         *)
Fairness ==
    /\ WF_vars(DriverStep)
    /\ WF_vars(Cancelled)
    /\ SF_vars(TakeInput)
    /\ WF_vars(TIMEOUT /\ ConnectAnswer)
    /\ WF_vars(WaitDone)

LiveSpec == Spec /\ Fairness

(* Assumptions some liveness properties make of the environment: a server   *)
(* that answers the connection, authentication and channel requests and     *)
(* goes on taking input (the code sets no time limit on the last three),    *)
(* and a client that reads its events when it can.                          *)
ServerAnswers ==
    /\ WF_vars(ConnectAnswer)
    /\ WF_vars(AuthAnswer)
    /\ WF_vars(OpenAnswer)
    /\ WF_vars(WriteOk)
ClientReads == WF_vars(NextEvent)

-----------------------------------------------------------------------------
(* Properties. *)

(* Type invariant; the queues never exceed the capacity given to            *)
(* mpsc::channel in spawn.                                                  *)
TypeOK ==
    /\ handle \in {"live", "dropped"}
    /\ join \in {"held", "awaited", "taken", "aborted"}
    /\ input \in Seq(Command) /\ Len(input) <= INPUT_CAP
    /\ events \in Seq(Event) /\ Len(events) <= EVENT_CAP
    /\ pc \in Pcs
    /\ cmd \in Command
    /\ msg \in RemoteMsg
    /\ why \in Reasons
    /\ link \in {"down", "up", "lost", "disconnected", "dropped"}
    /\ remote \in {"idle", "open", "eof", "closed"}
    /\ rq \in Seq(RemoteMsg)
    /\ ptySize \in Sizes
    /\ phase \in StateEvent \cup {"none"}
    /\ reported \in BOOLEAN /\ fin \in BOOLEAN
    /\ nOut \in Nat /\ nStream \in Nat
    /\ nBytes \in Nat /\ nWritten \in Nat
    /\ lastSize \in Sizes

(* The event stream of the driver is one SessionLifecycle allows: states in *)
(* order, no failure without an error, output only from an open shell, one  *)
(* final event (driver_task and io_loop, session.rs:198-301).               *)
Lifecycle == INSTANCE SessionLifecycle WITH
    phase <- phase, reported <- reported, fin <- fin, nOut <- nOut
LifecycleSpec == Lifecycle!Spec

(* disconnect() flushes: when the driver closes the channel on the user's   *)
(* request, every chunk accepted before the request has been written, and   *)
(* none accepted after it (session.rs:256-275, "exit gracefully").          *)
FlushBeforeClose == why = "user" => nWritten = cmd.n

(* No chunk is lost, repeated or overtaken between send_bytes and the       *)
(* channel: the chunk being written is the one after the last written.      *)
WritesInOrder == pc = "write" => cmd.n = nWritten + 1

(* When the loop ends because the server closed the channel or the          *)
(* connection ended, every output and exit status received before that has  *)
(* been queued for the reader; in particular Eof does not end the loop      *)
(* (session.rs:280-297).                                                    *)
NoOutputLost ==
    /\ why \in {"remote_closed", "remote_ended"}
    /\ handle = "live"
    => nOut = nStream

(* Who has been told that the session is closed, or has read the final      *)
(* event, can rely on the transport being down (session.rs:227, 238).       *)
ClosedMeansReleased == phase = "Closed" \/ fin => link # "up"

(* The remote PTY follows the window: while connected and idle, with no     *)
(* resize left in the queue, it has the size last requested, including one  *)
(* requested before the shell was open (session.rs:264-271).                *)
ResizeConverges ==
    /\ pc = "loop"
    /\ link = "up"
    /\ \A i \in 1..Len(input) : input[i].kind # "resize"
    => ptySize = lastSize

-----------------------------------------------------------------------------
(* Liveness. *)

(* The awaits that last as long as the server likes. *)
ServerAwaits ==
    {"auth", "open", "write"} \cup (IF TIMEOUT THEN {} ELSE {"connect"})

(* Dropping the handle ends the driver (session.rs:100, 153-159).  The one  *)
(* exception: a driver detached by an abandoned wait() that waits for a     *)
(* server which never answers, or never takes the input, stays forever.     *)
DropEndsDriver ==
    handle = "dropped" ~> \/ Finished
                          \/ [](join = "taken" /\ pc \in ServerAwaits)

DisconnectQueued == \E i \in 1..Len(input) : input[i].kind = "disconnect"

(* disconnect() ends the driver if the server answers and the client keeps  *)
(* reading, which it cannot do while it awaits wait().                      *)
DisconnectEndsDriver ==
    (ServerAnswers /\ ClientReads) =>
        (DisconnectQueued ~> Finished \/ join = "awaited")

(* The driver awaits room for an event. *)
EventsFull ==
    /\ Len(events) = EVENT_CAP
    /\ pc \in {"tell_connecting", "err_connect", "fail_connect", "tell_auth",
               "err_open", "fail_open", "tell_open", "err_write",
               "err_resize", "stream", "tell_end", "final"}

(* How many events the driver still sends, at the least, before it ends. *)
Owed ==
    IF Finished THEN 0
    ELSE IF pc \in {"disc_open", "final"} THEN 1
    ELSE IF pc \in {"fail_connect", "fail_open", "loop", "write", "resize",
                    "close", "disc", "tell_end"} THEN 2
    ELSE IF pc \in {"tell_connecting", "tell_auth"} THEN 4
    ELSE 3

(* The driver has nothing left to do but to announce how it ended. *)
Ending == pc \in {"err_connect", "fail_connect", "err_open", "fail_open",
                  "disc_open", "err_write", "disc", "tell_end", "final",
                  "done"}

(* wait() awaits a driver with more events to send than there is room for:  *)
(* it awaits room that only the handle held by wait() could make.           *)
Doomed == join = "awaited" /\ Len(events) + Owed > EVENT_CAP

(* disconnect() followed by wait() returns if the server answers, unless it *)
(* is or becomes doomed; and with room for the events that announce the end *)
(* of the driver, whatever it was, wait() returns (session.rs:143-150).     *)
WaitReturns ==
    /\ ServerAnswers => (DisconnectQueued /\ join = "awaited"
                            ~> join # "awaited" \/ Doomed)
    /\ Ending /\ join = "awaited" /\ Len(events) + Owed <= EVENT_CAP
            ~> join # "awaited"

(* A doomed wait() never returns: it ends only when its caller abandons it  *)
(* (session.rs:143-150: nothing drains the events while wait() is awaited). *)
DoomLasts == [][Doomed => Doomed' \/ WaitCancel]_vars
=============================================================================
