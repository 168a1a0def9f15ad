------------------------- MODULE SessionDriverProofs -------------------------
(***************************************************************************)
(* Theorems about SessionDriver, for every queue capacity and every set of *)
(* sizes.                                                                  *)
(***************************************************************************)
EXTENDS SessionDriverInv, SequenceTheorems, FunctionTheorems,
        FiniteSetTheorems, TLAPS

-----------------------------------------------------------------------------
(* Type correctness. *)

(* An await of session.write ends, one way or the other. *)
Write == WriteOk \/ WriteFail

(* Sending an event preserves the types of what it touches. *)
LEMMA SendType ==
    ASSUME TypeOK, NEW e \in Event, Send(e)
    PROVE  /\ events' \in Seq(Event) /\ Len(events') <= EVENT_CAP
           /\ phase' \in StateEvent \cup {"none"}
           /\ reported' \in BOOLEAN /\ fin' \in BOOLEAN /\ nOut' \in Nat
<1>1. CASE handle = "dropped" /\ UNCHANGED <<events, streamVars>>
    BY <1>1 DEF TypeOK, streamVars
<1>2. CASE /\ handle = "live"
           /\ Len(events) < EVENT_CAP
           /\ events' = Append(events, e)
           /\ phase' = IF e \in StateEvent THEN e ELSE phase
           /\ reported' = (reported \/ e = "Error")
           /\ fin' = (fin \/ e = "Final")
           /\ nOut' = IF e \in StreamEvent THEN nOut + 1 ELSE nOut
    <2>1. events \in Seq(Event) /\ events' = Append(events, e)
        BY <1>2 DEF TypeOK
    <2>2. events' \in Seq(Event) /\ Len(events') = Len(events) + 1
        BY <2>1, AppendProperties
    <2>3. Len(events') <= EVENT_CAP
        BY <1>2, <2>1, <2>2, CapAssumption, LenProperties
    <2>4. phase' \in StateEvent \cup {"none"} /\ nOut' \in Nat
        BY <1>2 DEF TypeOK
    <2>5. reported' \in BOOLEAN /\ fin' \in BOOLEAN
        BY <1>2, Zenon DEF TypeOK
    <2>. QED  BY <2>2, <2>3, <2>4, <2>5
<1>. QED  BY <1>1, <1>2 DEF Send

(* Every step `let _ = event_tx.send(e).await' preserves the types. *)
LEMMA EmitType ==
    ASSUME TypeOK, NEW from, NEW e \in Event, NEW to \in Pcs, Emit(from, e, to)
    PROVE  TypeOK'
<1>1. Send(e)
    BY DEF Emit
<1>2. /\ events' \in Seq(Event) /\ Len(events') <= EVENT_CAP
      /\ phase' \in StateEvent \cup {"none"}
      /\ reported' \in BOOLEAN /\ fin' \in BOOLEAN /\ nOut' \in Nat
    BY <1>1, SendType
<1>. QED  BY <1>2 DEF Emit, TypeOK, handleVars, heldVars, driverVars, netVars,
       streamVars, countVars

(* A network await preserves the types. *)
LEMMA NetStepType ==
    ASSUME TypeOK, NEW from, NEW to \in Pcs,
           NEW newLink \in {"down", "up", "lost", "disconnected", "dropped"},
           NetStep(from, to, newLink)
    PROVE  TypeOK'
BY DEF NetStep, TypeOK, handleVars, heldVars, driverVars, netVars,
       streamVars, countVars

(* Queueing a command preserves the types. *)
LEMMA EnqueueType ==
    ASSUME TypeOK, NEW c \in Command, Enqueue(c)
    PROVE  TypeOK'
<1>1. /\ input' \in Seq(Command) /\ Len(input') = Len(input) + 1
    BY AppendProperties DEF Enqueue, TypeOK
<1>2. Len(input') <= INPUT_CAP
    BY <1>1, CapAssumption, LenProperties DEF Enqueue, TypeOK
<1>3. nBytes' \in Nat /\ lastSize' \in Sizes
    BY DEF Enqueue, Command
<1>. QED  BY <1>1, <1>2, <1>3 DEF Enqueue, TypeOK, handleVars, heldVars,
       driverVars, netVars, streamVars, countVars

(* The handle's operations preserve the types. *)
LEMMA HandleType == TypeOK /\ HandleStep => TypeOK'
<1>. SUFFICES ASSUME TypeOK, HandleStep PROVE TypeOK'
    OBVIOUS
<1>1. CASE SendBytes
    <2>1. [kind |-> "bytes", n |-> nBytes + 1, size |-> lastSize] \in Command
        BY DEF TypeOK, Command
    <2>. QED  BY <1>1, <2>1, EnqueueType DEF SendBytes
<1>2. CASE \E s \in Sizes : Resize(s)
    <2>1. PICK s \in Sizes : Resize(s)
        BY <1>2
    <2>2. [kind |-> "resize", n |-> nBytes, size |-> s] \in Command
        BY DEF TypeOK, Command
    <2>. QED  BY <2>1, <2>2, EnqueueType DEF Resize
<1>3. CASE Disconnect
    <2>1. [kind |-> "disconnect", n |-> nBytes, size |-> lastSize] \in Command
        BY DEF TypeOK, Command
    <2>. QED  BY <1>3, <2>1, EnqueueType DEF Disconnect
<1>4. CASE NextEvent
    <2>1. events' \in Seq(Event) /\ Len(events') <= EVENT_CAP
        BY <1>4, HeadTailProperties, LenProperties, CapAssumption
        DEF NextEvent, TypeOK
    <2>. QED  BY <1>4, <2>1 DEF NextEvent, TypeOK, handleVars, heldVars,
           driverVars, netVars, streamVars, countVars
<1>5. CASE WaitStart \/ WaitDone \/ WaitCancel
    BY <1>5 DEF WaitStart, WaitDone, WaitCancel, SetJoin, TypeOK, handleVars,
       heldVars, driverVars, netVars, streamVars, countVars
<1>6. CASE Drop
    <2>1. events' \in Seq(Event) /\ Len(events') <= EVENT_CAP
        BY <1>6, EmptySeq, CapAssumption DEF Drop
    <2>. QED  BY <1>6, <2>1 DEF Drop, TypeOK, handleVars, heldVars,
           driverVars, netVars, streamVars, countVars
<1>. QED  BY <1>1, <1>2, <1>3, <1>4, <1>5, <1>6 DEF HandleStep

(* A forwarded message becomes one of the stream events. *)
LEMMA EventOfType ==
    ASSUME NEW m \in StreamMsg
    PROVE  EventOf(m) \in StreamEvent /\ EventOf(m) \in Event
BY Zenon DEF EventOf, StreamMsg, StreamEvent, Event

(* Where each kind of command leads. *)
LEMMA DispatchFacts ==
    ASSUME NEW k \in {"bytes", "resize", "disconnect"}
    PROVE  /\ k = "bytes" => Dispatch(k) = "write"
           /\ k = "resize" => Dispatch(k) = "resize"
           /\ k = "disconnect" => Dispatch(k) = "close"
BY Zenon DEF Dispatch

(* Taking a command: the queue is its head followed by the rest. *)
LEMMA TakeCommandFacts ==
    ASSUME TypeOK, TakeCommand
    PROVE  /\ Len(input) \in Nat \ {0}
           /\ cmd' = input[1] /\ input[1] \in Command
           /\ input' \in Seq(Command) /\ Len(input') = Len(input) - 1
           /\ \A i \in 1..(Len(input) - 1) : input'[i] = input[i + 1]
           /\ input[1].kind = "bytes" => pc' = "write"
           /\ input[1].kind = "resize" => pc' = "resize"
           /\ input[1].kind = "disconnect" => pc' = "close"
           /\ pc' \in {"write", "resize", "close"}
<1>1. /\ input \in Seq(Command) /\ input # <<>>
      /\ cmd' = Head(input) /\ input' = Tail(input)
      /\ pc' = Dispatch(Head(input).kind)
    BY DEF TypeOK, TakeCommand
<1>2. /\ Head(input) = input[1] /\ Len(input) \in Nat \ {0}
      /\ Tail(input) \in Seq(Command) /\ Len(Tail(input)) = Len(input) - 1
      /\ \A i \in 1..(Len(input) - 1) : Tail(input)[i] = input[i + 1]
      /\ input[1] \in Command
    BY <1>1, HeadTailProperties, LenProperties, ElementOfSeq, EmptySeq
<1>3. input[1].kind \in {"bytes", "resize", "disconnect"}
    BY <1>2 DEF Command
<1>4. /\ input[1].kind = "bytes" => pc' = "write"
      /\ input[1].kind = "resize" => pc' = "resize"
      /\ input[1].kind = "disconnect" => pc' = "close"
    BY <1>1, <1>2, <1>3, DispatchFacts
<1>. QED  BY <1>1, <1>2, <1>3, <1>4

(* The driver's steps preserve the types. *)
LEMMA DriverType == TypeOK /\ InHand /\ (DriverStep \/ ServerAnswer) => TypeOK'
<1>. SUFFICES ASSUME TypeOK, InHand, DriverStep \/ ServerAnswer PROVE TypeOK'
    OBVIOUS
<1>1. CASE TellConnecting \/ ErrConnect \/ FailConnect
    BY <1>1, EmitType DEF TellConnecting, ErrConnect, FailConnect, Event,
       StateEvent, StreamEvent, Pcs
<1>2. CASE TellAuth \/ ErrOpen \/ FailOpen \/ TellOpen
    BY <1>2, EmitType DEF TellAuth, ErrOpen, FailOpen, TellOpen, Event,
       StateEvent, StreamEvent, Pcs
<1>3. CASE ErrResize \/ TellEnd \/ TellFinal
    BY <1>3, EmitType DEF ErrResize, TellEnd, TellFinal, Event, StateEvent,
       StreamEvent, Pcs
<1>4. CASE DiscOpen \/ Disc
    BY <1>4, NetStepType DEF DiscOpen, Disc, Disconnected, Pcs, TypeOK
<1>5. CASE ServerAnswer
    <2>1. CASE ConnectAnswer \/ AuthAnswer \/ OpenFail
        BY <2>1, NetStepType DEF ConnectAnswer, ConnectOk, ConnectFail,
           AuthAnswer, AuthOk, AuthFail, OpenFail, Pcs, TypeOK
    <2>2. CASE OpenOk
        BY <2>2, SizeAssumption DEF OpenOk, TypeOK, Pcs, handleVars, heldVars,
           driverVars, netVars, streamVars, countVars
    <2>3. CASE WriteOk
        BY <2>3 DEF WriteOk, WriteStep, TypeOK, Pcs, handleVars, heldVars,
           driverVars, netVars, streamVars, countVars
    <2>. QED  BY <1>5, <2>1, <2>2, <2>3 DEF ServerAnswer, OpenAnswer
<1>6. CASE TakeCommand
    <2>1. /\ cmd' \in Command /\ input' \in Seq(Command)
          /\ Len(input') <= INPUT_CAP /\ pc' \in Pcs
        BY <1>6, TakeCommandFacts, CapAssumption DEF TypeOK, Pcs
    <2>. QED  BY <1>6, <2>1 DEF TakeCommand, TypeOK, handleVars, heldVars,
              driverVars, netVars, streamVars, countVars
<1>7. CASE InputClosed \/ Close \/ RemoteEnded
    BY <1>7 DEF InputClosed, Close, RemoteEnded, Leave, TypeOK, Pcs, Reasons,
       handleVars, heldVars, driverVars, netVars,
       streamVars, countVars
<1>8. CASE Write
    BY <1>8 DEF WriteOk, WriteFail, WriteStep, Write, TypeOK, Pcs, handleVars,
       heldVars, driverVars, netVars, streamVars, countVars
<1>9. CASE ErrWrite
    <2>1. "Error" \in Event
        BY DEF Event
    <2>2. /\ events' \in Seq(Event) /\ Len(events') <= EVENT_CAP
          /\ phase' \in StateEvent \cup {"none"}
          /\ reported' \in BOOLEAN /\ fin' \in BOOLEAN /\ nOut' \in Nat
        BY <1>9, <2>1, SendType DEF ErrWrite
    <2>. QED  BY <1>9, <2>2 DEF ErrWrite, Leave, TypeOK, Pcs, Reasons,
           handleVars, heldVars, driverVars, netVars, streamVars, countVars
<1>10. CASE ResizePty
    BY <1>10 DEF ResizePty, TypeOK, Command, Pcs, handleVars, heldVars,
       driverVars, netVars, streamVars, countVars
<1>11. CASE TakeRemote
    <2>1. Head(rq) \in RemoteMsg /\ Tail(rq) \in Seq(RemoteMsg)
        BY <1>11, HeadTailProperties DEF TakeRemote, TypeOK
    <2>. QED  BY <1>11, <2>1 DEF TakeRemote, Leave, TypeOK, Pcs, Reasons,
              handleVars, heldVars, driverVars, netVars,
       streamVars, countVars
<1>12. CASE Stream
    <2>1. msg \in StreamMsg
        BY <1>12 DEF Stream, InHand
    <2>2. EventOf(msg) \in Event
        BY <2>1, EventOfType
    <2>3. /\ events' \in Seq(Event) /\ Len(events') <= EVENT_CAP
          /\ phase' \in StateEvent \cup {"none"}
          /\ reported' \in BOOLEAN /\ fin' \in BOOLEAN /\ nOut' \in Nat
        BY <1>12, <2>2, SendType DEF Stream
    <2>. QED  BY <1>12, <2>3 DEF Stream, Leave, TypeOK, Pcs, Reasons,
       RemoteMsg, StreamMsg, handleVars, netVars, countVars
<1>13. CASE Cancelled
    BY <1>13 DEF Cancelled, TypeOK, Pcs, handleVars, heldVars, driverVars,
       netVars, streamVars, countVars
<1>. QED
    BY <1>1, <1>2, <1>3, <1>4, <1>5, <1>6, <1>7, <1>8, <1>9, <1>10, <1>11,
       <1>12, <1>13 DEF Write, DriverStep, TakeInput

(* The server's steps preserve the types. *)
LEMMA ServerType == TypeOK /\ ServerStep => TypeOK'
<1>. SUFFICES ASSUME TypeOK, ServerStep PROVE TypeOK'
    OBVIOUS
<1>1. CASE \E m \in RemoteMsg : RemoteSend(m)
    <2>1. PICK m \in RemoteMsg : RemoteSend(m)
        BY <1>1
    <2>2. rq' \in Seq(RemoteMsg)
        BY <2>1, AppendProperties DEF RemoteSend, TypeOK
    <2>3. remote' \in {"idle", "open", "eof", "closed"} /\ nStream' \in Nat
        BY <2>1 DEF RemoteSend, RemoteAfter, TypeOK
    <2>. QED  BY <2>1, <2>2, <2>3 DEF RemoteSend, TypeOK, handleVars,
           heldVars, driverVars, netVars, streamVars, countVars
<1>2. CASE LinkLost
    BY <1>2 DEF LinkLost, TypeOK, handleVars, heldVars, driverVars, netVars,
       streamVars, countVars
<1>. QED  BY <1>1, <1>2 DEF ServerStep

(* Every step preserves the types. *)
LEMMA TypeStep == TypeOK /\ InHand /\ [Next]_vars => TypeOK'
<1>1. TypeOK /\ UNCHANGED vars => TypeOK'
    BY DEF TypeOK, vars
<1>. QED  BY <1>1, HandleType, DriverType, ServerType DEF Next

-----------------------------------------------------------------------------
(* What the driver holds. *)

(* What no operation of the handle touches. *)
LEMMA HandleFrame ==
    ASSUME HandleStep
    PROVE  /\ UNCHANGED <<pc, cmd, msg, why, link, remote, rq, ptySize>>
           /\ UNCHANGED <<phase, reported, fin, nOut, nWritten, nStream>>
           /\ handle = "live" /\ (handle' = "live" \/ Drop)
BY DEF HandleStep, SendBytes, Resize, Disconnect, Enqueue, NextEvent,
   WaitStart, WaitDone, WaitCancel, SetJoin, Drop, CanCall, handleVars,
   heldVars, driverVars, netVars, streamVars, countVars

(* Every step preserves InHand. *)
LEMMA InHandStep == TypeOK /\ InHand /\ LinkInv /\ [Next]_vars => InHand'
<1>. SUFFICES ASSUME TypeOK, InHand, LinkInv, [Next]_vars PROVE InHand'
    OBVIOUS
<1>. USE DEF InHand, heldVars, driverVars
<1>1. CASE HandleStep
    BY <1>1, HandleFrame
<1>2. CASE \/ TellConnecting \/ ErrConnect \/ FailConnect \/ TellAuth
           \/ ErrOpen \/ FailOpen \/ TellOpen \/ ErrResize
           \/ TellEnd \/ TellFinal
    BY <1>2 DEF TellConnecting, ErrConnect, FailConnect, TellAuth, ErrOpen,
       FailOpen, TellOpen, ErrResize, TellEnd, TellFinal, Emit, netVars,
       LinkInv
<1>3. CASE DiscOpen \/ Disc \/ ServerAnswer
    BY <1>3 DEF Write, WriteOk, WriteStep, DiscOpen, Disc, ServerAnswer,
       ConnectAnswer, AuthAnswer, OpenAnswer, ConnectOk, ConnectFail, AuthOk,
       AuthFail, OpenOk, OpenFail, NetStep
<1>4. CASE TakeCommand
    BY <1>4, TakeCommandFacts DEF TakeCommand
<1>5. CASE InputClosed \/ Close \/ RemoteEnded \/ Write \/ ErrWrite \/ ResizePty
    BY <1>5 DEF WriteOk, WriteFail, WriteStep, InputClosed, Close,
       RemoteEnded, Write, ErrWrite, ResizePty, Leave, netVars
<1>6. CASE TakeRemote \/ Stream
    BY <1>6 DEF TakeRemote, Stream, Leave
<1>7. CASE Cancelled \/ ServerStep \/ UNCHANGED vars
    BY <1>7 DEF Cancelled, Finished, ServerStep, RemoteSend, LinkLost, vars
<1>. QED
    BY <1>1, <1>2, <1>3, <1>4, <1>5, <1>6, <1>7 DEF Write, Next, DriverStep,
       TakeInput

(* Every step preserves AbortInv. *)
LEMMA AbortStep == TypeOK /\ AbortInv /\ [Next]_vars => AbortInv'
<1>. SUFFICES ASSUME TypeOK, AbortInv, [Next]_vars PROVE AbortInv'
    OBVIOUS
<1>. USE DEF AbortInv, handleVars, driverVars
<1>1. CASE HandleStep
    BY <1>1 DEF HandleStep, SendBytes, Resize, Disconnect, Enqueue, NextEvent,
       WaitStart, WaitDone, WaitCancel, SetJoin, Drop, CanCall
<1>2. CASE \/ TellConnecting \/ ErrConnect \/ FailConnect \/ TellAuth
           \/ ErrOpen \/ FailOpen \/ TellOpen \/ ErrResize
           \/ TellEnd \/ TellFinal
    BY <1>2 DEF TellConnecting, ErrConnect, FailConnect, TellAuth, ErrOpen,
       FailOpen, TellOpen, ErrResize, TellEnd, TellFinal, Emit
<1>3. CASE DiscOpen \/ Disc \/ ServerAnswer
    BY <1>3 DEF Write, WriteOk, WriteStep, DiscOpen, Disc, ServerAnswer,
       ConnectAnswer, AuthAnswer, OpenAnswer, ConnectOk, ConnectFail, AuthOk,
       AuthFail, OpenOk, OpenFail, NetStep
<1>4. CASE TakeCommand \/ InputClosed \/ Close \/ RemoteEnded \/ Cancelled
    BY <1>4, TakeCommandFacts DEF TakeCommand, InputClosed, Close,
       RemoteEnded, Cancelled, Leave
<1>5. CASE Write \/ ErrWrite \/ ResizePty \/ TakeRemote \/ Stream
    BY <1>5 DEF WriteOk, WriteFail, WriteStep, Write, ErrWrite, ResizePty,
       TakeRemote, Stream, Leave
<1>6. CASE ServerStep \/ UNCHANGED vars
    BY <1>6 DEF ServerStep, RemoteSend, LinkLost, vars
<1>. QED
    BY <1>1, <1>2, <1>3, <1>4, <1>5, <1>6 DEF Write, Next, DriverStep,
       TakeInput

(* A handle that listens after a step did before, and its driver runs. *)
LEMMA LiveFrame ==
    ASSUME TypeOK, AbortInv, [Next]_vars, handle' = "live"
    PROVE  handle = "live" /\ pc' # "aborted"
<1>1. AbortInv'
    BY AbortStep
<1>2. pc' # "aborted"
    BY <1>1 DEF AbortInv
<1>3. handle = "live"
    <2>1. CASE HandleStep
        BY <2>1, HandleFrame
    <2>2. CASE DriverStep \/ ServerAnswer
        BY <2>2 DEF WriteOk, WriteFail, WriteStep, DriverStep, ServerAnswer,
           ConnectAnswer, AuthAnswer, OpenAnswer, ConnectOk, ConnectFail,
           AuthOk, AuthFail, OpenOk, OpenFail, DiscOpen, Disc, NetStep,
           TellConnecting, ErrConnect, FailConnect, TellAuth, ErrOpen,
           FailOpen, TellOpen, ErrResize, TellEnd, TellFinal, Emit, TakeInput,
           TakeCommand, InputClosed, Close, RemoteEnded, Write, ErrWrite,
           ResizePty, TakeRemote, Stream, Cancelled, handleVars
    <2>3. CASE ServerStep \/ UNCHANGED vars
        BY <2>3 DEF ServerStep, RemoteSend, LinkLost, handleVars, vars
    <2>. QED  BY <2>1, <2>2, <2>3 DEF Next
<1>. QED  BY <1>2, <1>3

-----------------------------------------------------------------------------
(* The order of the event stream. *)

(* Every step preserves StreamInv, as long as someone listens. *)
LEMMA StreamInvStep ==
    TypeOK /\ InHand /\ AbortInv /\ (handle = "live" => StreamInv) /\ [Next]_vars
        => (handle = "live" => StreamInv)'
<1>. SUFFICES ASSUME TypeOK, InHand, AbortInv, handle = "live" => StreamInv,
                     [Next]_vars, handle' = "live"
              PROVE  StreamInv'
    OBVIOUS
<1>. USE DEF StreamInv, Looping, handleVars, heldVars, driverVars, netVars,
     streamVars, countVars
<1>0. /\ reported \in BOOLEAN /\ reported' \in BOOLEAN
      /\ fin \in BOOLEAN /\ fin' \in BOOLEAN
    BY TypeStep DEF TypeOK
<1>1. CASE HandleStep
    BY <1>0, <1>1, HandleFrame
<1>2. CASE TellConnecting \/ ErrConnect \/ FailConnect \/ TellAuth
    BY <1>0, <1>2 DEF TellConnecting, ErrConnect, FailConnect, TellAuth, Emit,
       Send, StateEvent
<1>3. CASE ErrOpen \/ FailOpen \/ TellOpen
    BY <1>0, <1>3 DEF ErrOpen, FailOpen, TellOpen, Emit, Send, StateEvent
<1>4. CASE ErrResize \/ TellEnd \/ TellFinal
    BY <1>0, <1>4 DEF ErrResize, TellEnd, TellFinal, Emit, Send, StateEvent
<1>5. CASE DiscOpen \/ Disc \/ ServerAnswer
    BY <1>0, <1>5 DEF Write, WriteOk, WriteStep, DiscOpen, Disc, ServerAnswer,
       ConnectAnswer, AuthAnswer, OpenAnswer, ConnectOk, ConnectFail, AuthOk,
       AuthFail, OpenOk, OpenFail, NetStep
<1>6. CASE TakeCommand
    BY <1>0, <1>6, TakeCommandFacts DEF TakeCommand
<1>7. CASE InputClosed \/ Close \/ RemoteEnded \/ Write \/ ResizePty
           \/ TakeRemote
    BY <1>0, <1>7 DEF WriteOk, WriteFail, WriteStep, InputClosed, Close,
       RemoteEnded, Write, ResizePty, TakeRemote, Leave
<1>8. CASE ErrWrite
    BY <1>0, <1>8 DEF ErrWrite, Leave, Send, StateEvent
<1>9. CASE Stream
    <2>1. EventOf(msg) \in StreamEvent
        BY <1>0, <1>9, EventOfType DEF Stream, InHand
    <2>. QED  BY <1>0, <1>9, <2>1 DEF Stream, Leave, Send, StateEvent,
           StreamEvent
<1>10. CASE Cancelled
    BY <1>0, <1>10 DEF Cancelled, AbortInv
<1>11. CASE ServerStep \/ UNCHANGED vars
    BY <1>0, <1>11 DEF ServerStep, RemoteSend, LinkLost, vars
<1>. QED
    BY <1>1, <1>2, <1>3, <1>4, <1>5, <1>6, <1>7, <1>8, <1>9, <1>10, <1>11
    DEF Write, Next, DriverStep, TakeInput

-----------------------------------------------------------------------------
(* The connection goes down before the end is announced. *)

(* Every step preserves LinkInv. *)
LEMMA LinkStep == TypeOK /\ InHand /\ LinkInv /\ [Next]_vars => LinkInv'
<1>. SUFFICES ASSUME TypeOK, InHand, LinkInv, [Next]_vars PROVE LinkInv'
    OBVIOUS
<1>. USE DEF LinkInv, handleVars, heldVars, driverVars, netVars, streamVars
<1>0. fin \in BOOLEAN /\ fin' \in BOOLEAN
    BY TypeStep DEF TypeOK
<1>1. CASE HandleStep
    BY <1>0, <1>1, HandleFrame
<1>2. CASE TellConnecting \/ ErrConnect \/ FailConnect \/ TellAuth
    BY <1>0, <1>2 DEF TellConnecting, ErrConnect, FailConnect, TellAuth, Emit,
       Send, StateEvent
<1>3. CASE ErrOpen \/ FailOpen \/ TellOpen
    BY <1>0, <1>3 DEF ErrOpen, FailOpen, TellOpen, Emit, Send, StateEvent
<1>4. CASE ErrResize \/ TellEnd \/ TellFinal
    BY <1>0, <1>4 DEF ErrResize, TellEnd, TellFinal, Emit, Send, StateEvent
<1>5. CASE DiscOpen \/ Disc \/ ServerAnswer
    BY <1>0, <1>5 DEF Write, WriteOk, WriteStep, DiscOpen, Disc, Disconnected,
       ServerAnswer, ConnectAnswer, AuthAnswer, OpenAnswer, ConnectOk,
       ConnectFail, AuthOk, AuthFail, OpenOk, OpenFail, NetStep
<1>6. CASE TakeCommand
    BY <1>0, <1>6, TakeCommandFacts DEF TakeCommand
<1>7. CASE InputClosed \/ Close \/ RemoteEnded \/ Write \/ ResizePty
           \/ TakeRemote
    BY <1>0, <1>7 DEF WriteOk, WriteFail, WriteStep, InputClosed, Close,
       RemoteEnded, Write, ResizePty, TakeRemote, Leave
<1>8. CASE ErrWrite
    BY <1>0, <1>8 DEF ErrWrite, Leave, Send, StateEvent
<1>9. CASE Stream
    <2>1. EventOf(msg) \in StreamEvent
        BY <1>0, <1>9, EventOfType DEF Stream, InHand
    <2>. QED  BY <1>0, <1>9, <2>1 DEF Stream, Leave, Send, StateEvent,
           StreamEvent
<1>10. CASE Cancelled \/ ServerStep \/ UNCHANGED vars
    BY <1>0, <1>10 DEF Cancelled, Finished, ServerStep, RemoteSend, LinkLost,
       vars
<1>. QED
    BY <1>1, <1>2, <1>3, <1>4, <1>5, <1>6, <1>7, <1>8, <1>9, <1>10
    DEF Write, Next, DriverStep, TakeInput

-----------------------------------------------------------------------------
(* Commands are executed in the order of the calls. *)

(* What is true of every step that neither queues nor takes a command and  *)
(* does not write: the queue and its numbering stay, and a driver that     *)
(* still executes commands after the step did so before it.                *)
LEMMA QueueFrame ==
    ASSUME TypeOK, InHand, [Next]_vars, ~HandleStep, ~TakeCommand, ~Write
    PROVE  /\ UNCHANGED <<input, cmd, nBytes, nWritten, lastSize>>
           /\ pc' \in {"write", "resize", "close"} => pc' = pc
           /\ (PreOpen \/ pc = "tell_open" \/ Looping)'
                => PreOpen \/ pc = "tell_open" \/ Looping
           /\ pc = "write" => pc' \in {"write", "aborted"}
           /\ PreOpen' => PreOpen
<1>. USE DEF PreOpen, Looping, handleVars, heldVars, driverVars, netVars,
     countVars
<1>1. CASE \/ TellConnecting \/ ErrConnect \/ FailConnect \/ TellAuth
           \/ ErrOpen \/ FailOpen \/ TellOpen \/ ErrResize
           \/ TellEnd \/ TellFinal
    BY <1>1 DEF TellConnecting, ErrConnect, FailConnect, TellAuth, ErrOpen,
       FailOpen, TellOpen, ErrResize, TellEnd, TellFinal, Emit
<1>2. CASE DiscOpen \/ Disc \/ ServerAnswer
    BY <1>2 DEF Write, WriteOk, WriteStep, DiscOpen, Disc, ServerAnswer,
       ConnectAnswer, AuthAnswer, OpenAnswer, ConnectOk, ConnectFail, AuthOk,
       AuthFail, OpenOk, OpenFail, NetStep
<1>3. CASE InputClosed \/ Close \/ RemoteEnded \/ ErrWrite \/ ResizePty
    BY <1>3 DEF InputClosed, Close, RemoteEnded, ErrWrite, ResizePty, Leave
<1>4. CASE TakeRemote \/ Stream \/ Cancelled \/ ServerStep
    BY <1>4 DEF TakeRemote, Stream, Leave, Cancelled, ServerStep, RemoteSend,
       LinkLost
<1>5. CASE UNCHANGED vars
    BY <1>5 DEF vars
<1>. QED
    BY <1>1, <1>2, <1>3, <1>4, <1>5 DEF Write, Next, DriverStep, TakeInput

(* A command that carries the right number keeps the queue in order. *)
LEMMA OrderEnqueue ==
    ASSUME TypeOK, OrderInv, NEW c \in Command, Follows(c, nBytes), Enqueue(c)
    PROVE  OrderInv'
<1>1. /\ input' = Append(input, c) /\ nBytes' = c.n
      /\ UNCHANGED <<pc, cmd, nWritten>>
    BY DEF Enqueue, driverVars
<1>2. /\ Len(input) \in Nat /\ Len(input') = Len(input) + 1
      /\ input'[Len(input) + 1] = c
      /\ \A i \in 1..Len(input) : input'[i] = input[i]
      /\ input' # <<>> /\ (input = <<>> <=> Len(input) = 0)
    BY <1>1, AppendProperties, LenProperties, EmptySeq DEF TypeOK
<1>3. CASE input = <<>>
    BY <1>1, <1>2, <1>3 DEF OrderInv, Follows, Handed, PreOpen, Looping
<1>4. CASE input # <<>>
    BY <1>1, <1>2, <1>4 DEF OrderInv, Follows, Handed, PreOpen, Looping
<1>. QED  BY <1>3, <1>4

(* Every step preserves OrderInv. *)
LEMMA OrderStep == TypeOK /\ InHand /\ OrderInv /\ [Next]_vars => OrderInv'
<1>. SUFFICES ASSUME TypeOK, InHand, OrderInv, [Next]_vars PROVE OrderInv'
    OBVIOUS
<1>1. CASE HandleStep
    <2>1. CASE SendBytes
        <3>. DEFINE c == [kind |-> "bytes", n |-> nBytes + 1, size |-> lastSize]
        <3>1. c \in Command /\ Follows(c, nBytes)
            BY DEF TypeOK, Command, Follows
        <3>. QED  BY <2>1, <3>1, OrderEnqueue DEF SendBytes
    <2>2. CASE \E s \in Sizes : Resize(s)
        <3>1. PICK s \in Sizes : Resize(s)
            BY <2>2
        <3>. DEFINE c == [kind |-> "resize", n |-> nBytes, size |-> s]
        <3>2. c \in Command /\ Follows(c, nBytes)
            BY DEF TypeOK, Command, Follows
        <3>. QED  BY <3>1, <3>2, OrderEnqueue DEF Resize
    <2>3. CASE Disconnect
        <3>. DEFINE c == [kind |-> "disconnect", n |-> nBytes, size |-> lastSize]
        <3>1. c \in Command /\ Follows(c, nBytes)
            BY DEF TypeOK, Command, Follows
        <3>. QED  BY <2>3, <3>1, OrderEnqueue DEF Disconnect
    <2>4. CASE NextEvent \/ WaitStart \/ WaitDone \/ WaitCancel \/ Drop
        <3>1. UNCHANGED <<input, pc, cmd, nBytes, nWritten>>
            BY <2>4 DEF NextEvent, WaitStart, WaitDone, WaitCancel, SetJoin,
               Drop, driverVars, countVars
        <3>. QED  BY <3>1 DEF OrderInv, Follows, Handed, PreOpen, Looping
    <2>. QED  BY <1>1, <2>1, <2>2, <2>3, <2>4 DEF HandleStep
<1>2. CASE TakeCommand
    <2>1. UNCHANGED <<nBytes, nWritten>> /\ pc = "loop"
        BY <1>2 DEF TakeCommand, countVars
    <2>2. /\ Follows(input[1], nWritten)
          /\ Len(input) = 1 => input[1].n = nBytes
          /\ Len(input) > 1 => Follows(input[2], input[1].n)
          /\ input[Len(input)].n = nBytes
        BY <1>2, <2>1, TakeCommandFacts DEF OrderInv, Handed, Looping,
           TakeCommand
    <2>3. Handed' = input[1].n /\ cmd'.n = input[1].n
        BY <1>2, <2>1, <2>2, TakeCommandFacts DEF Handed, Follows, Command,
           TypeOK
    <2>4. (pc = "write" => cmd.n = nWritten + 1)' /\ (pc = "close" => cmd.n = nWritten)'
        BY <1>2, <2>1, <2>2, TakeCommandFacts DEF Follows, Command
    <2>5. input' = <<>> <=> Len(input) = 1
        BY <1>2, TakeCommandFacts, LenProperties, EmptySeq
    <2>6. input' # <<>> => input'[1] = input[2] /\ input'[Len(input')] = input[Len(input)]
        BY <1>2, <2>5, TakeCommandFacts
    <2>7. ASSUME NEW i \in 1..(Len(input') - 1)
          PROVE  Follows(input'[i + 1], input'[i].n)
        <3>1. /\ i \in 1..(Len(input) - 1) /\ i + 1 \in 1..(Len(input) - 1)
              /\ input'[i] = input[i + 1] /\ input'[i + 1] = input[i + 2]
            BY <1>2, TakeCommandFacts
        <3>2. Follows(input[(i + 1) + 1], input[i + 1].n)
            BY <2>1, <3>1 DEF OrderInv, Looping
        <3>. QED  BY <3>1, <3>2
    <2>8. input' = <<>> => nBytes' = Handed'
        BY <2>1, <2>2, <2>3, <2>5
    <2>9. input' # <<>> => /\ Follows(input'[1], Handed')
                           /\ input'[Len(input')].n = nBytes'
        <3>. SUFFICES ASSUME input' # <<>>
                      PROVE  /\ Follows(input'[1], Handed')
                             /\ input'[Len(input')].n = nBytes'
            OBVIOUS
        <3>1. Len(input) > 1
            BY <1>2, <2>5, TakeCommandFacts
        <3>2. Follows(input[2], input[1].n) /\ input'[1] = input[2]
            BY <2>2, <2>6, <3>1
        <3>3. Follows(input'[1], Handed')
            BY <2>3, <3>2 DEF Follows
        <3>4. input'[Len(input')].n = nBytes'
            BY <2>1, <2>2, <2>6
        <3>. QED  BY <3>3, <3>4
    <2>10. \A i \in 1..(Len(input') - 1) : Follows(input'[i + 1], input'[i].n)
        BY <2>7
    <2>. QED  BY <2>4, <2>8, <2>9, <2>10 DEF OrderInv, Follows
<1>3. CASE Write
    <2>1. UNCHANGED <<input, cmd, nBytes>> /\ pc = "write"
        BY <1>3 DEF WriteOk, WriteFail, WriteStep, Write, heldVars
    <2>2. \/ pc' = "loop" /\ nWritten' = nWritten + 1
          \/ pc' = "err_write"
        BY <1>3 DEF WriteOk, WriteFail, WriteStep, Write
    <2>. QED  BY <2>1, <2>2 DEF OrderInv, Follows, Handed, PreOpen, Looping
<1>4. CASE ~HandleStep /\ ~TakeCommand /\ ~Write
    <2>1. /\ UNCHANGED <<input, cmd, nBytes, nWritten>>
          /\ pc' \in {"write", "close"} => pc' = pc
          /\ (PreOpen \/ pc = "tell_open" \/ Looping)'
               => (PreOpen \/ pc = "tell_open" \/ Looping) /\ Handed' = Handed
        BY <1>4, QueueFrame DEF Handed, PreOpen, Looping
    <2>. QED  BY <2>1 DEF OrderInv, Follows
<1>. QED  BY <1>1, <1>2, <1>3, <1>4

-----------------------------------------------------------------------------
(* The remote PTY converges to the size last requested. *)

(* What is true of every step but those of the handle, TakeCommand and      *)
(* ResizePty: the PTY keeps its size, except that open_shell sets it, and a *)
(* connection that is up was up, except that connect brings it up.          *)
LEMMA PtyFrame ==
    ASSUME [Next]_vars, ~HandleStep, ~TakeCommand, ~ResizePty
    PROVE  /\ ptySize' = ptySize \/ (pc = "open" /\ ptySize' = InitSize)
           /\ link' = "up" => link = "up" \/ (pc = "connect" /\ pc' = "auth")
           /\ pc' = "resize" => pc = "resize"
           /\ pc = "resize" => pc' \in {"resize", "aborted"}
           /\ pc' = "tell_open" => pc \in {"open", "tell_open"}
<1>. USE DEF handleVars, heldVars, driverVars, netVars
<1>1. CASE \/ TellConnecting \/ ErrConnect \/ FailConnect \/ TellAuth
           \/ ErrOpen \/ FailOpen \/ TellOpen \/ ErrResize
           \/ TellEnd \/ TellFinal
    BY <1>1 DEF TellConnecting, ErrConnect, FailConnect, TellAuth, ErrOpen,
       FailOpen, TellOpen, ErrResize, TellEnd, TellFinal, Emit
<1>2. CASE DiscOpen \/ Disc \/ ServerAnswer
    BY <1>2 DEF Write, WriteOk, WriteStep, DiscOpen, Disc, Disconnected,
       ServerAnswer, ConnectAnswer, AuthAnswer, OpenAnswer, ConnectOk,
       ConnectFail, AuthOk, AuthFail, OpenOk, OpenFail, NetStep
<1>3. CASE InputClosed \/ Close \/ RemoteEnded \/ ErrWrite \/ Write
    BY <1>3 DEF WriteOk, WriteFail, WriteStep, InputClosed, Close,
       RemoteEnded, ErrWrite, Write, Leave
<1>4. CASE TakeRemote \/ Stream \/ Cancelled \/ ServerStep
    BY <1>4 DEF TakeRemote, Stream, Leave, Cancelled, ServerStep, RemoteSend,
       LinkLost
<1>5. CASE UNCHANGED vars
    BY <1>5 DEF vars
<1>. QED
    BY <1>1, <1>2, <1>3, <1>4, <1>5 DEF Write, Next, DriverStep, TakeInput

(* The part of SizeInv about the queue, when g is the size before it. *)
SizesQueued(q, g, s) ==
    /\ (\A j \in 1..Len(q) : q[j].kind # "resize") => s = g
    /\ \A i \in 1..Len(q) :
         (\A j \in (i + 1)..Len(q) : q[j].kind # "resize") => s = q[i].size

(* SizeInv in terms of SizesQueued. *)
LEMMA SizeInvAlt ==
    SizeInv <=> /\ PreOpen => ptySize = InitSize
                /\ PreOpen \/ ((pc = "tell_open" \/ Looping) /\ link = "up")
                     => SizesQueued(input, GivenSize, lastSize)
BY DEF SizeInv, SizesQueued

(* A command stamped with the size it leaves in force keeps the queue so. *)
LEMMA SizeEnqueue ==
    ASSUME TypeOK, SizeInv, NEW c \in Command,
           c.kind # "resize" => c.size = lastSize, Enqueue(c)
    PROVE  SizeInv'
<1>1. /\ input' = Append(input, c) /\ lastSize' = c.size
      /\ UNCHANGED <<pc, cmd, ptySize, link>>
    BY DEF Enqueue, driverVars, netVars
<1>2. /\ Len(input) \in Nat /\ Len(input') = Len(input) + 1
      /\ input'[Len(input) + 1] = c
      /\ \A i \in 1..Len(input) : input'[i] = input[i]
    BY <1>1, AppendProperties, LenProperties DEF TypeOK
<1>3. ASSUME SizesQueued(input, GivenSize, lastSize)
      PROVE  SizesQueued(input', GivenSize, c.size)
    <2>1. ASSUME \A j \in 1..Len(input') : input'[j].kind # "resize"
          PROVE  c.size = GivenSize
        <3>1. c.kind # "resize" /\ \A j \in 1..Len(input) : input[j].kind # "resize"
            BY <1>2, <2>1
        <3>. QED  BY <1>3, <3>1 DEF SizesQueued
    <2>2. ASSUME NEW i \in 1..Len(input'),
                 \A j \in (i + 1)..Len(input') : input'[j].kind # "resize"
          PROVE  c.size = input'[i].size
        <3>1. CASE i = Len(input) + 1
            BY <1>2, <3>1
        <3>2. CASE i \in 1..Len(input)
            <4>1. /\ c.kind # "resize"
                  /\ \A j \in (i + 1)..Len(input) : input[j].kind # "resize"
                BY <1>2, <2>2, <3>2
            <4>. QED  BY <1>2, <1>3, <3>2, <4>1 DEF SizesQueued
        <3>. QED  BY <1>2, <3>1, <3>2
    <2>. QED  BY <2>1, <2>2 DEF SizesQueued
<1>4. GivenSize' = GivenSize /\ PreOpen' = PreOpen /\ Looping' = Looping
    BY <1>1 DEF GivenSize, PreOpen, Looping
<1>5. (PreOpen \/ ((pc = "tell_open" \/ Looping) /\ link = "up"))'
        => SizesQueued(input', GivenSize', lastSize')
    BY <1>1, <1>3, <1>4, SizeInvAlt
<1>6. PreOpen' => ptySize' = InitSize
    BY <1>1, <1>4, SizeInvAlt
<1>. QED  BY <1>5, <1>6 DEF SizeInv, SizesQueued

(* Every step preserves SizeInv. *)
LEMMA SizeStep ==
    TypeOK /\ InHand /\ LinkInv /\ SizeInv /\ [Next]_vars => SizeInv'
<1>. SUFFICES ASSUME TypeOK, InHand, LinkInv, SizeInv, [Next]_vars
              PROVE  SizeInv'
    OBVIOUS
<1>1. CASE HandleStep
    <2>1. CASE SendBytes
        <3>. DEFINE c == [kind |-> "bytes", n |-> nBytes + 1, size |-> lastSize]
        <3>1. c \in Command /\ c.size = lastSize
            BY DEF TypeOK, Command
        <3>. QED  BY <2>1, <3>1, SizeEnqueue DEF SendBytes
    <2>2. CASE \E s \in Sizes : Resize(s)
        <3>1. PICK s \in Sizes : Resize(s)
            BY <2>2
        <3>. DEFINE c == [kind |-> "resize", n |-> nBytes, size |-> s]
        <3>2. c \in Command /\ c.kind = "resize"
            BY DEF TypeOK, Command
        <3>. QED  BY <3>1, <3>2, SizeEnqueue DEF Resize
    <2>3. CASE Disconnect
        <3>. DEFINE c == [kind |-> "disconnect", n |-> nBytes, size |-> lastSize]
        <3>1. c \in Command /\ c.size = lastSize
            BY DEF TypeOK, Command
        <3>. QED  BY <2>3, <3>1, SizeEnqueue DEF Disconnect
    <2>4. CASE NextEvent \/ WaitStart \/ WaitDone \/ WaitCancel \/ Drop
        <3>1. UNCHANGED <<input, pc, cmd, lastSize, ptySize, link>>
            BY <2>4 DEF NextEvent, WaitStart, WaitDone, WaitCancel, SetJoin,
               Drop, driverVars, netVars, countVars
        <3>. QED  BY <3>1 DEF SizeInv, GivenSize, PreOpen, Looping
    <2>. QED  BY <1>1, <2>1, <2>2, <2>3, <2>4 DEF HandleStep
<1>2. CASE TakeCommand
    <2>1. UNCHANGED <<ptySize, link, lastSize>> /\ pc = "loop"
        BY <1>2 DEF TakeCommand, netVars, countVars
    <2>2. GivenSize' = IF input[1].kind = "resize" THEN input[1].size ELSE ptySize
        BY <1>2, <2>1, TakeCommandFacts DEF GivenSize, Command
    <2>3. ASSUME SizesQueued(input, ptySize, lastSize)
          PROVE  SizesQueued(input', GivenSize', lastSize)
        <3>1. ASSUME \A j \in 1..Len(input') : input'[j].kind # "resize"
              PROVE  lastSize = GivenSize'
            <4>1. \A j \in (1 + 1)..Len(input) : input[j].kind # "resize"
                <5>1. ASSUME NEW j \in (1 + 1)..Len(input)
                      PROVE  input[j].kind # "resize"
                    <6>1. j - 1 \in 1..Len(input') /\ input'[j - 1] = input[j]
                        BY <1>2, TakeCommandFacts
                    <6>. QED  BY <3>1, <6>1
                <5>. QED  BY <5>1
            <4>2. CASE input[1].kind = "resize"
                BY <1>2, <2>2, <2>3, <4>1, <4>2, TakeCommandFacts DEF
                   SizesQueued
            <4>3. CASE input[1].kind # "resize"
                <5>1. \A j \in 1..Len(input) : input[j].kind # "resize"
                    BY <4>1, <4>3
                <5>. QED  BY <2>2, <2>3, <4>3, <5>1 DEF SizesQueued
            <4>. QED  BY <4>2, <4>3
        <3>2. ASSUME NEW i \in 1..Len(input'),
                     \A j \in (i + 1)..Len(input') : input'[j].kind # "resize"
              PROVE  lastSize = input'[i].size
            <4>1. /\ i + 1 \in 1..Len(input) /\ input'[i] = input[i + 1]
                  /\ Len(input') = Len(input) - 1
                BY <1>2, TakeCommandFacts
            <4>2. ASSUME NEW j \in ((i + 1) + 1)..Len(input)
                  PROVE  input[j].kind # "resize"
                <5>1. j - 1 \in (i + 1)..Len(input') /\ input'[j - 1] = input[j]
                    BY <1>2, TakeCommandFacts
                <5>. QED  BY <3>2, <5>1
            <4>. QED  BY <2>3, <4>1, <4>2 DEF SizesQueued
        <3>. QED  BY <3>1, <3>2 DEF SizesQueued
    <2>4. ~PreOpen' /\ GivenSize = ptySize /\ Looping
        BY <1>2, <2>1, TakeCommandFacts DEF PreOpen, GivenSize, Looping
    <2>5. link' = "up" => SizesQueued(input', GivenSize', lastSize')
        BY <2>1, <2>3, <2>4, SizeInvAlt
    <2>. QED  BY <2>4, <2>5 DEF SizeInv, SizesQueued
<1>3. CASE ResizePty
    <2>1. /\ UNCHANGED <<input, cmd, lastSize, link>> /\ pc = "resize"
          /\ \/ link = "up" /\ ptySize' = cmd.size /\ pc' = "loop"
             \/ link # "up" /\ pc' = "err_resize"
        BY <1>3 DEF ResizePty, heldVars, countVars
    <2>2. ~PreOpen' /\ Looping
        BY <2>1 DEF PreOpen, Looping
    <2>3. link' = "up" => GivenSize' = GivenSize
        BY <2>1 DEF GivenSize
    <2>4. link' = "up" => SizesQueued(input', GivenSize', lastSize')
        BY <2>1, <2>2, <2>3, SizeInvAlt
    <2>. QED  BY <2>2, <2>4 DEF SizeInv, SizesQueued
<1>4. CASE ~HandleStep /\ ~TakeCommand /\ ~ResizePty
    <2>1. /\ UNCHANGED <<input, lastSize, cmd>> /\ (PreOpen' => PreOpen)
          /\ (PreOpen \/ pc = "tell_open" \/ Looping)'
               => PreOpen \/ pc = "tell_open" \/ Looping
        <3>1. CASE Write
            BY <3>1 DEF WriteOk, WriteFail, WriteStep, Write, heldVars,
               countVars, PreOpen, Looping
        <3>2. CASE ~Write
            BY <1>4, <3>2, QueueFrame
        <3>. QED  BY <3>1, <3>2
    <2>2. PreOpen' => ptySize' = InitSize
        BY <1>4, <2>1, PtyFrame, SizeInvAlt
    <2>3. (PreOpen \/ ((pc = "tell_open" \/ Looping) /\ link = "up"))'
            => /\ PreOpen \/ ((pc = "tell_open" \/ Looping) /\ link = "up")
               /\ GivenSize' = GivenSize
        BY <1>4, <2>1, PtyFrame, SizeInvAlt DEF PreOpen, Looping, GivenSize
    <2>4. (PreOpen \/ ((pc = "tell_open" \/ Looping) /\ link = "up"))'
            => SizesQueued(input', GivenSize', lastSize')
        BY <2>1, <2>3, SizeInvAlt
    <2>. QED  BY <2>2, <2>4 DEF SizeInv, SizesQueued
<1>. QED  BY <1>1, <1>2, <1>3, <1>4

-----------------------------------------------------------------------------
(* No output is lost when the server ends the session. *)

(* Counting in an empty queue. *)
LEMMA PlacesEmpty ==
    ASSUME NEW M
    PROVE  Cardinality(PlacesOf(M, <<>>)) = 0
<1>1. PlacesOf(M, <<>>) = {}
    BY DEF PlacesOf
<1>. QED  BY <1>1, FS_EmptySet

(* The places in a queue are finitely many. *)
LEMMA PlacesFinite ==
    ASSUME NEW M, NEW D, NEW q \in Seq(D)
    PROVE  IsFiniteSet(PlacesOf(M, q)) /\ Cardinality(PlacesOf(M, q)) \in Nat
<1>1. Len(q) \in Nat
    BY LenProperties
<1>2. IsFiniteSet(1..Len(q))
    BY <1>1, FS_Interval
<1>3. PlacesOf(M, q) \in SUBSET (1..Len(q))
    BY DEF PlacesOf
<1>. QED  BY <1>2, <1>3, FS_Subset, FS_CardinalityType

(* Queueing an element counts it if it is in the set. *)
LEMMA PlacesAppend ==
    ASSUME NEW M, NEW D, NEW q \in Seq(D), NEW m \in D
    PROVE  Cardinality(PlacesOf(M, Append(q, m)))
             = Cardinality(PlacesOf(M, q)) + (IF m \in M THEN 1 ELSE 0)
<1>. DEFINE n == Len(q) + 1
<1>1. /\ Len(q) \in Nat /\ Len(Append(q, m)) = n /\ Append(q, m)[n] = m
      /\ \A i \in 1..Len(q) : Append(q, m)[i] = q[i]
    BY AppendProperties, LenProperties
<1>2. IsFiniteSet(PlacesOf(M, q)) /\ Cardinality(PlacesOf(M, q)) \in Nat
    BY PlacesFinite
<1>3. n \notin PlacesOf(M, q)
    BY <1>1 DEF PlacesOf
<1>4. CASE m \in M
    <2>1. PlacesOf(M, Append(q, m)) = PlacesOf(M, q) \cup {n}
        BY <1>1, <1>4 DEF PlacesOf
    <2>. QED  BY <1>2, <1>3, <1>4, <2>1, FS_AddElement
<1>5. CASE m \notin M
    <2>1. PlacesOf(M, Append(q, m)) = PlacesOf(M, q)
        BY <1>1, <1>5 DEF PlacesOf
    <2>. QED  BY <1>2, <1>5, <2>1
<1>. QED  BY <1>4, <1>5

(* Taking an element discounts it if it is in the set. *)
LEMMA PlacesTail ==
    ASSUME NEW M, NEW D, NEW q \in Seq(D), q # <<>>
    PROVE  Cardinality(PlacesOf(M, q))
             = Cardinality(PlacesOf(M, Tail(q)))
               + (IF Head(q) \in M THEN 1 ELSE 0)
<1>. DEFINE S == PlacesOf(M, q) \ {1}
            T == PlacesOf(M, Tail(q))
            f == [i \in T |-> i + 1]
<1>1. /\ Tail(q) \in Seq(D) /\ Head(q) = q[1]
      /\ Len(q) \in Nat \ {0} /\ Len(Tail(q)) = Len(q) - 1
      /\ \A i \in 1..(Len(q) - 1) : Tail(q)[i] = q[i + 1]
    BY HeadTailProperties, LenProperties, EmptySeq
<1>2. IsFiniteSet(PlacesOf(M, q)) /\ Cardinality(PlacesOf(M, q)) \in Nat
    BY PlacesFinite
<1>3. IsFiniteSet(T) /\ Cardinality(T) \in Nat
    BY <1>1, PlacesFinite
<1>4. f \in Bijection(T, S)
    <2>1. f \in [T -> S]
        BY <1>1 DEF PlacesOf
    <2>2. \A a, b \in T : f[a] = f[b] => a = b
        BY <1>1 DEF PlacesOf
    <2>3. ASSUME NEW s \in S PROVE \E i \in T : f[i] = s
        <3>1. s - 1 \in T /\ f[s - 1] = s
            BY <1>1, <2>3 DEF PlacesOf
        <3>. QED  BY <3>1
    <2>. QED  BY <2>1, <2>2, <2>3, Fun_IsBij
<1>5. Cardinality(S) = Cardinality(T)
    <2>1. ExistsBijection(T, S)
        BY <1>4 DEF ExistsBijection
    <2>. HIDE DEF S, T
    <2>. QED  BY <1>3, <2>1, FS_Bijection
<1>6. 1 \in PlacesOf(M, q) <=> Head(q) \in M
    BY <1>1 DEF PlacesOf
<1>7. Cardinality(S) = IF 1 \in PlacesOf(M, q) THEN Cardinality(PlacesOf(M, q)) - 1
                                            ELSE Cardinality(PlacesOf(M, q))
    BY <1>2, FS_RemoveElement
<1>. HIDE DEF S, T
<1>. QED  BY <1>2, <1>3, <1>5, <1>6, <1>7 DEF T

(* The same of the stream messages in the queue of russh. *)
LEMMA StreamInEmpty == Cardinality(StreamIn(<<>>)) = 0
BY PlacesEmpty DEF StreamIn

LEMMA StreamInFinite ==
    ASSUME NEW q \in Seq(RemoteMsg)
    PROVE  IsFiniteSet(StreamIn(q)) /\ Cardinality(StreamIn(q)) \in Nat
BY PlacesFinite DEF StreamIn

LEMMA StreamInAppend ==
    ASSUME NEW q \in Seq(RemoteMsg), NEW m \in RemoteMsg
    PROVE  Cardinality(StreamIn(Append(q, m)))
             = Cardinality(StreamIn(q)) + (IF m \in StreamMsg THEN 1 ELSE 0)
BY PlacesAppend DEF StreamIn

LEMMA StreamInTail ==
    ASSUME NEW q \in Seq(RemoteMsg), q # <<>>
    PROVE  Cardinality(StreamIn(q))
             = Cardinality(StreamIn(Tail(q)))
               + (IF Head(q) \in StreamMsg THEN 1 ELSE 0)
BY PlacesTail DEF StreamIn

(* What is true of every step but those that move server messages. *)
LEMMA OutputFrame ==
    ASSUME TypeOK, InHand, [Next]_vars, ~TakeRemote, ~Stream, ~OpenOk,
           \A m \in RemoteMsg : ~RemoteSend(m)
    PROVE  /\ UNCHANGED <<rq, remote, nStream, nOut>>
           /\ why' = "none" => why = "none"
           /\ pc = "stream" => pc' \in {"stream", "aborted"}
           /\ pc' = "stream" => pc = "stream"
           /\ PreOpen' => PreOpen
<1>. USE DEF handleVars, heldVars, driverVars, netVars, streamVars, countVars,
     PreOpen
<1>1. CASE HandleStep
    BY <1>1, HandleFrame
<1>2. CASE TellConnecting \/ ErrConnect \/ FailConnect \/ TellAuth
    BY <1>2 DEF TellConnecting, ErrConnect, FailConnect, TellAuth, Emit, Send,
       StreamEvent
<1>3. CASE ErrOpen \/ FailOpen \/ TellOpen
    BY <1>3 DEF ErrOpen, FailOpen, TellOpen, Emit, Send, StreamEvent
<1>4. CASE ErrResize \/ TellEnd \/ TellFinal
    BY <1>4 DEF ErrResize, TellEnd, TellFinal, Emit, Send, StreamEvent
<1>5. CASE \/ DiscOpen \/ Disc \/ ConnectAnswer \/ AuthAnswer \/ OpenFail
    BY <1>5 DEF DiscOpen, Disc, ConnectAnswer, AuthAnswer, ConnectOk,
       ConnectFail, AuthOk, AuthFail, OpenFail, NetStep
<1>6. CASE TakeCommand
    BY <1>6, TakeCommandFacts DEF TakeCommand
<1>7. CASE InputClosed \/ Close \/ RemoteEnded \/ Write \/ ResizePty
    BY <1>7 DEF WriteOk, WriteFail, WriteStep, InputClosed, Close,
       RemoteEnded, Write, ResizePty, Leave
<1>8. CASE ErrWrite
    BY <1>8 DEF ErrWrite, Leave, Send, StreamEvent
<1>9. CASE Cancelled \/ LinkLost \/ UNCHANGED vars
    BY <1>9 DEF Cancelled, LinkLost, vars
<1>. QED
    BY <1>1, <1>2, <1>3, <1>4, <1>5, <1>6, <1>7, <1>8, <1>9 DEF Write,
       WriteOk, WriteStep, Next, DriverStep, TakeInput, ServerAnswer,
       OpenAnswer, ServerStep

(* Every step preserves OutputInv. *)
LEMMA OutputStep ==
    TypeOK /\ InHand /\ AbortInv /\ OutputInv /\ [Next]_vars => OutputInv'
<1>. SUFFICES ASSUME TypeOK, InHand, AbortInv, OutputInv, [Next]_vars
              PROVE  OutputInv'
    OBVIOUS
<1>0. rq \in Seq(RemoteMsg) /\ nStream \in Nat /\ nOut \in Nat
      /\ Cardinality(StreamIn(rq)) \in Nat
    BY StreamInFinite DEF TypeOK
<1>1. CASE TakeRemote
    <2>1. /\ pc = "loop" /\ rq # <<>> /\ rq' = Tail(rq)
          /\ UNCHANGED <<handle, remote, nStream, nOut>>
          /\ \/ Head(rq) \in StreamMsg /\ pc' = "stream" /\ why' = why
             \/ Head(rq) \notin StreamMsg /\ pc' = pc /\ why' = why
             \/ pc' = "disc" /\ why' # "none"
        BY <1>1 DEF TakeRemote, Leave, handleVars, streamVars, countVars,
           StreamMsg
    <2>2. /\ Len(rq) \in Nat \ {0} /\ Len(rq') = Len(rq) - 1
          /\ \A i \in 1..(Len(rq) - 1) : rq'[i] = rq[i + 1]
        BY <1>0, <2>1, HeadTailProperties, LenProperties, EmptySeq
    <2>3. Cardinality(StreamIn(rq)) = Cardinality(StreamIn(rq'))
              + (IF Head(rq) \in StreamMsg THEN 1 ELSE 0)
        BY <1>0, <2>1, StreamInTail
    <2>4. Cardinality(StreamIn(rq')) \in Nat
        BY <1>0, <2>1, HeadTailProperties, StreamInFinite
    <2>5. (handle = "live" /\ why = "none" =>
             nStream = nOut + Cardinality(StreamIn(rq))
                            + (IF pc = "stream" THEN 1 ELSE 0))'
        BY <1>0, <2>1, <2>3, <2>4 DEF OutputInv
    <2>6. ASSUME NEW i \in 1..Len(rq'), rq'[i] = "close"
          PROVE  i = Len(rq') /\ remote' = "closed"
        <3>1. /\ i + 1 \in 1..Len(rq) /\ rq[i + 1] = "close"
              /\ i + 1 = Len(rq) <=> i = Len(rq')
            BY <2>2, <2>6
        <3>. QED  BY <2>1, <3>1 DEF OutputInv
    <2>7. ~PreOpen'
        BY <2>1 DEF PreOpen
    <2>. QED  BY <2>5, <2>6, <2>7 DEF OutputInv
<1>2. CASE Stream
    <2>1. msg \in StreamMsg /\ pc = "stream"
        BY <1>2 DEF Stream, InHand
    <2>2. EventOf(msg) \in StreamEvent
        BY <2>1, EventOfType
    <2>3. /\ UNCHANGED <<handle, rq, remote, nStream>>
          /\ \/ handle = "live" /\ nOut' = nOut + 1 /\ pc' = "loop" /\ why' = why
             \/ handle = "dropped" /\ pc' = "disc" /\ why' # "none"
        BY <1>2, <2>2 DEF Stream, Send, Leave, handleVars, netVars, countVars
    <2>. QED  BY <1>0, <2>1, <2>3 DEF OutputInv, PreOpen
<1>3. CASE OpenOk
    <2>1. /\ pc = "open" /\ pc' = "tell_open"
          /\ UNCHANGED <<handle, rq, why, nStream, nOut>>
        BY <1>3 DEF OpenOk, handleVars, heldVars, streamVars, countVars
    <2>2. rq = <<>>
        BY <2>1 DEF OutputInv, PreOpen
    <2>. QED  BY <2>1, <2>2 DEF OutputInv, PreOpen
<1>4. CASE \E m \in RemoteMsg : RemoteSend(m)
    <2>1. PICK m \in RemoteMsg : RemoteSend(m)
        BY <1>4
    <2>2. /\ why = "none" /\ remote \in {"open", "eof"}
          /\ rq' = Append(rq, m)
          /\ nStream' = IF m \in StreamMsg THEN nStream + 1 ELSE nStream
          /\ UNCHANGED <<handle, pc, why, nOut>>
        BY <2>1 DEF RemoteSend, handleVars, driverVars, streamVars
    <2>3. m = "close" => remote' = "closed"
        BY <2>1, Zenon DEF RemoteSend, RemoteAfter
    <2>4. Cardinality(StreamIn(rq'))
            = Cardinality(StreamIn(rq)) + (IF m \in StreamMsg THEN 1 ELSE 0)
        BY <1>0, <2>2, StreamInAppend
    <2>5. /\ Len(rq) \in Nat /\ Len(rq') = Len(rq) + 1 /\ rq'[Len(rq) + 1] = m
          /\ \A i \in 1..Len(rq) : rq'[i] = rq[i]
        BY <1>0, <2>2, AppendProperties, LenProperties
    <2>6. ASSUME NEW i \in 1..Len(rq'), rq'[i] = "close"
          PROVE  i = Len(rq') /\ remote' = "closed"
        BY <2>2, <2>3, <2>5, <2>6 DEF OutputInv
    <2>7. ~PreOpen'
        BY <2>2 DEF OutputInv, PreOpen
    <2>8. (handle = "live" /\ why = "none" =>
             nStream = nOut + Cardinality(StreamIn(rq))
                            + (IF pc = "stream" THEN 1 ELSE 0))'
        BY <1>0, <2>2, <2>4 DEF OutputInv
    <2>. QED  BY <2>6, <2>7, <2>8 DEF OutputInv
<1>5. CASE /\ ~TakeRemote /\ ~Stream /\ ~OpenOk
           /\ \A m \in RemoteMsg : ~RemoteSend(m)
    <2>1. /\ UNCHANGED <<rq, remote, nStream, nOut>>
          /\ why' = "none" => why = "none"
          /\ pc = "stream" => pc' \in {"stream", "aborted"}
          /\ pc' = "stream" => pc = "stream"
          /\ PreOpen' => PreOpen
        BY <1>5, OutputFrame
    <2>2. handle' = "live" => handle = "live" /\ pc' # "aborted"
        BY LiveFrame
    <2>. QED  BY <2>1, <2>2 DEF OutputInv
<1>. QED  BY <1>1, <1>2, <1>3, <1>4, <1>5

-----------------------------------------------------------------------------
(* Flushing, and losing no output. *)

(* Once the loop has ended, no step undoes what it has achieved. *)
LEMMA AfterFrame ==
    ASSUME InHand, why # "none", [Next]_vars
    PROVE  UNCHANGED <<cmd, why, nWritten, nStream, nOut>>
<1>1. pc \in {"disc", "tell_end", "final", "done", "aborted"}
    BY DEF InHand
<1>. USE <1>1 DEF handleVars, heldVars, driverVars, netVars, streamVars, countVars
<1>2. CASE HandleStep
    BY <1>2, HandleFrame
<1>3. CASE TellConnecting \/ ErrConnect \/ FailConnect \/ TellAuth
    BY <1>3 DEF TellConnecting, ErrConnect, FailConnect, TellAuth, Emit
<1>4. CASE ErrOpen \/ FailOpen \/ TellOpen \/ ErrResize
    BY <1>4 DEF ErrOpen, FailOpen, TellOpen, ErrResize, Emit
<1>5. CASE TellEnd \/ TellFinal
    BY <1>5 DEF TellEnd, TellFinal, Emit, Send, StreamEvent
<1>6. CASE DiscOpen \/ Disc \/ ServerAnswer
    BY <1>6 DEF Write, WriteOk, WriteStep, DiscOpen, Disc, ServerAnswer,
       ConnectAnswer, AuthAnswer, OpenAnswer, ConnectOk, ConnectFail, AuthOk,
       AuthFail, OpenOk, OpenFail, NetStep
<1>7. CASE \/ TakeInput \/ Close \/ RemoteEnded \/ Write \/ ErrWrite
           \/ ResizePty \/ TakeRemote \/ Stream
    BY <1>7 DEF WriteOk, WriteFail, WriteStep, TakeInput, TakeCommand,
       InputClosed, Close, RemoteEnded, Write, ErrWrite, ResizePty,
       TakeRemote, Stream
<1>8. CASE Cancelled \/ ServerStep \/ UNCHANGED vars
    BY <1>8 DEF Cancelled, ServerStep, RemoteSend, LinkLost, vars
<1>. QED
    BY <1>2, <1>3, <1>4, <1>5, <1>6, <1>7, <1>8 DEF Write, Next, DriverStep

(* The steps that end the loop, and why. *)
LEMMA EndFrame ==
    ASSUME TypeOK, why = "none", why' # "none", [Next]_vars
    PROVE  Close \/ RemoteEnded \/ TakeRemote
             \/ why' \in {"handle_gone", "write_failed", "reader_gone"}
<1>. USE DEF heldVars, driverVars
<1>1. CASE HandleStep
    BY <1>1, HandleFrame
<1>2. CASE \/ TellConnecting \/ ErrConnect \/ FailConnect \/ TellAuth
           \/ ErrOpen \/ FailOpen \/ TellOpen \/ ErrResize
           \/ TellEnd \/ TellFinal
    BY <1>2 DEF TellConnecting, ErrConnect, FailConnect, TellAuth, ErrOpen,
       FailOpen, TellOpen, ErrResize, TellEnd, TellFinal, Emit
<1>3. CASE DiscOpen \/ Disc \/ ServerAnswer
    BY <1>3 DEF Write, WriteOk, WriteStep, DiscOpen, Disc, ServerAnswer,
       ConnectAnswer, AuthAnswer, OpenAnswer, ConnectOk, ConnectFail, AuthOk,
       AuthFail, OpenOk, OpenFail, NetStep
<1>4. CASE TakeInput \/ Write \/ ErrWrite \/ ResizePty \/ Stream
    BY <1>4 DEF WriteOk, WriteFail, WriteStep, TakeInput, TakeCommand,
       InputClosed, Write, ErrWrite, ResizePty, Stream, Leave
<1>5. CASE Cancelled \/ ServerStep \/ UNCHANGED vars
    BY <1>5 DEF Cancelled, ServerStep, RemoteSend, LinkLost, vars
<1>. QED
    BY <1>1, <1>2, <1>3, <1>4, <1>5 DEF Write, Next, DriverStep

(* A step that ends the loop, or leaves it ended, keeps both promises. *)
LEMMA EndStep ==
    ASSUME TypeOK, InHand, AbortInv, OrderInv, OutputInv, FlushBeforeClose,
           NoOutputLost, [Next]_vars
    PROVE  FlushBeforeClose' /\ NoOutputLost'
<1>1. handle' = "live" => handle = "live"
    BY LiveFrame
<1>2. CASE why # "none"
    <2>1. UNCHANGED <<cmd, why, nWritten, nStream, nOut>>
        BY <1>2, AfterFrame
    <2>. QED  BY <1>1, <2>1 DEF FlushBeforeClose, NoOutputLost
<1>3. CASE why = "none" /\ Close
    <2>1. /\ pc = "close" /\ why' = "user" /\ UNCHANGED <<cmd, nWritten>>
        BY <1>3 DEF Close, Leave, countVars
    <2>2. nWritten = cmd.n
        BY <2>1 DEF OrderInv
    <2>. QED  BY <2>1, <2>2 DEF FlushBeforeClose, NoOutputLost
<1>4. CASE why = "none" /\ RemoteEnded
    <2>1. /\ pc = "loop" /\ rq = <<>> /\ why' = "remote_ended"
          /\ UNCHANGED <<nStream, nOut>>
        BY <1>4 DEF RemoteEnded, Leave, streamVars, countVars
    <2>2. handle = "live" => nStream = nOut
        BY <1>4, <2>1, StreamInEmpty DEF OutputInv, TypeOK
    <2>. QED  BY <1>1, <2>1, <2>2 DEF FlushBeforeClose, NoOutputLost
<1>5. CASE why = "none" /\ TakeRemote /\ why' # "none"
    <2>1. /\ pc = "loop" /\ rq # <<>> /\ Head(rq) = "close"
          /\ why' = "remote_closed" /\ UNCHANGED <<nStream, nOut>>
        BY <1>5 DEF TakeRemote, Leave, streamVars, countVars
    <2>2. rq \in Seq(RemoteMsg) /\ Len(rq) = 1
        <3>1. rq \in Seq(RemoteMsg) /\ Len(rq) \in Nat \ {0} /\ rq[1] = "close"
            BY <2>1, HeadTailProperties, LenProperties, EmptySeq DEF TypeOK
        <3>2. 1 \in 1..Len(rq)
            BY <3>1
        <3>3. 1 = Len(rq)
            BY <3>1, <3>2 DEF OutputInv
        <3>. QED  BY <3>1, <3>3
    <2>3. Tail(rq) = <<>>
        <3>1. Tail(rq) \in Seq(RemoteMsg) /\ Len(Tail(rq)) = 0
            BY <2>1, <2>2, HeadTailProperties
        <3>. QED  BY <3>1, EmptySeq
    <2>4. Cardinality(StreamIn(rq)) = 0
        <3>1. Head(rq) \notin StreamMsg
            BY <2>1 DEF StreamMsg
        <3>2. Cardinality(StreamIn(rq)) = Cardinality(StreamIn(Tail(rq))) + 0
            BY <2>1, <2>2, <3>1, StreamInTail
        <3>3. Cardinality(StreamIn(Tail(rq))) = Cardinality(StreamIn(<<>>))
            BY <2>3, Zenon
        <3>. QED  BY <3>2, <3>3, StreamInEmpty
    <2>5. handle = "live" => nStream = nOut
        BY <1>5, <2>1, <2>4 DEF OutputInv, TypeOK
    <2>. QED  BY <1>1, <2>1, <2>5 DEF FlushBeforeClose, NoOutputLost
<1>6. CASE why = "none" /\ why' = "none"
    BY <1>6 DEF FlushBeforeClose, NoOutputLost
<1>7. CASE why' \in {"handle_gone", "write_failed", "reader_gone"}
    BY <1>7 DEF FlushBeforeClose, NoOutputLost
<1>. QED  BY <1>2, <1>3, <1>4, <1>5, <1>6, <1>7, EndFrame

-----------------------------------------------------------------------------
(* The inductive invariant. *)

(* The initial state satisfies it. *)
LEMMA InitInv == Init => IInv
<1>. SUFFICES ASSUME Init PROVE IInv
    OBVIOUS
<1>0. /\ input = <<>> /\ events = <<>> /\ rq = <<>> /\ Len(<<>>) = 0
      /\ <<>> \in Seq(Command) /\ <<>> \in Seq(Event) /\ <<>> \in Seq(RemoteMsg)
    BY EmptySeq, LenProperties DEF Init
<1>1. TypeOK
    <2>1. cmd \in Command /\ ptySize \in Sizes /\ lastSize \in Sizes
        BY SizeAssumption DEF Init, NoCommand, Command
    <2>2. Len(input) <= INPUT_CAP /\ Len(events) <= EVENT_CAP
        BY <1>0, CapAssumption
    <2>3. pc \in Pcs /\ msg \in RemoteMsg /\ why \in Reasons
        BY DEF Init, Pcs, RemoteMsg, Reasons
    <2>. QED  BY <1>0, <2>1, <2>2, <2>3 DEF Init, TypeOK
<1>2. InHand /\ AbortInv /\ LinkInv /\ (handle = "live" => StreamInv)
    BY DEF Init, InHand, AbortInv, LinkInv, StreamInv, Looping
<1>3. OrderInv
    BY <1>0 DEF Init, OrderInv, Handed
<1>4. SizeInv
    BY <1>0 DEF Init, SizeInv, GivenSize
<1>5. OutputInv
    BY <1>0, StreamInEmpty DEF Init, OutputInv
<1>6. FlushBeforeClose /\ NoOutputLost
    BY DEF Init, FlushBeforeClose, NoOutputLost
<1>. QED  BY <1>1, <1>2, <1>3, <1>4, <1>5, <1>6 DEF IInv

(* Every step preserves it. *)
LEMMA NextInv == IInv /\ [Next]_vars => IInv'
<1>. SUFFICES ASSUME IInv, [Next]_vars PROVE IInv'
    OBVIOUS
<1>1. /\ TypeOK /\ InHand /\ AbortInv /\ (handle = "live" => StreamInv)
      /\ LinkInv /\ OrderInv /\ SizeInv /\ OutputInv
      /\ FlushBeforeClose /\ NoOutputLost
    BY DEF IInv
<1>2. TypeOK' /\ InHand' /\ AbortInv' /\ LinkInv'
    BY <1>1, TypeStep, InHandStep, AbortStep, LinkStep
<1>3. (handle = "live" => StreamInv)'
    BY <1>1, StreamInvStep
<1>4. OrderInv' /\ SizeInv' /\ OutputInv'
    BY <1>1, OrderStep, SizeStep, OutputStep
<1>5. FlushBeforeClose' /\ NoOutputLost'
    BY <1>1, EndStep
<1>. QED  BY <1>2, <1>3, <1>4, <1>5 DEF IInv

(* The inductive invariant of session.rs holds in every state the driver    *)
(* task and its handle can reach.                                           *)
THEOREM Inductive == Spec => []IInv
BY InitInv, NextInv, PTL DEF Spec

(* Types are respected and neither channel of spawn ever exceeds its        *)
(* capacity, whatever the capacities.                                       *)
THEOREM TypeCorrect == Spec => []TypeOK
<1>1. IInv => TypeOK
    BY DEF IInv
<1>. QED  BY <1>1, Inductive, PTL

(* disconnect() flushes: every chunk accepted by send_bytes before it, and  *)
(* none accepted after it, has been written when the channel is closed.     *)
THEOREM Flushes == Spec => []FlushBeforeClose
<1>1. IInv => FlushBeforeClose
    BY DEF IInv
<1>. QED  BY <1>1, Inductive, PTL

(* Chunks are written to the channel once each and in the order of the      *)
(* calls of send_bytes.                                                     *)
THEOREM InOrder == Spec => []WritesInOrder
<1>1. IInv => WritesInOrder
    BY DEF IInv, OrderInv, WritesInOrder
<1>. QED  BY <1>1, Inductive, PTL

(* A loop ended by the server has forwarded all the output it received. *)
THEOREM LosesNoOutput == Spec => []NoOutputLost
<1>1. IInv => NoOutputLost
    BY DEF IInv
<1>. QED  BY <1>1, Inductive, PTL

(* The transport is down once the end of the session has been announced. *)
THEOREM ReleasesTransport == Spec => []ClosedMeansReleased
<1>1. IInv => ClosedMeansReleased
    BY DEF IInv, LinkInv, ClosedMeansReleased
<1>. QED  BY <1>1, Inductive, PTL

(* The remote PTY has the size last requested when no resize is queued. *)
THEOREM SizesConverge == Spec => []ResizeConverges
<1>1. IInv => ResizeConverges
    BY DEF IInv, SizeInv, GivenSize, Looping, ResizeConverges
<1>. QED  BY <1>1, Inductive, PTL

-----------------------------------------------------------------------------
(* The driver implements SessionLifecycle. *)

(* Announcing the next state of a session that goes well is an Advance. *)
LEMMA AdvanceStep ==
    ASSUME NEW p \in {"none", "Connecting", "Authenticated", "ShellOpen"},
           phase = p, phase # "ShellOpen" => ~reported,
           phase' = Lifecycle!NextPhase(p), UNCHANGED <<reported, fin, nOut>>
    PROVE  Lifecycle!Next
BY Zenon DEF Lifecycle!Next, Lifecycle!Advance

(* The states of a session that goes well, one after the other. *)
LEMMA NextPhaseFacts ==
    /\ Lifecycle!NextPhase("none") = "Connecting"
    /\ Lifecycle!NextPhase("Connecting") = "Authenticated"
    /\ Lifecycle!NextPhase("Authenticated") = "ShellOpen"
    /\ Lifecycle!NextPhase("ShellOpen") = "Closed"
BY Zenon DEF Lifecycle!NextPhase

(* Each event the driver sends is a step of SessionLifecycle, or is dropped *)
(* with its reader.                                                         *)
LEMMA SendRefines ==
    ASSUME IInv, NEW e \in Event, Send(e),
           \/ pc = "tell_connecting" /\ e = "Connecting"
           \/ pc = "tell_auth" /\ e = "Authenticated"
           \/ pc = "tell_open" /\ e = "ShellOpen"
           \/ pc = "tell_end" /\ e = "Closed"
           \/ pc \in {"err_connect", "err_open", "err_write", "err_resize"}
                /\ e = "Error"
           \/ pc \in {"fail_connect", "fail_open"} /\ e = "Failed"
           \/ pc = "final" /\ e = "Final"
           \/ pc = "stream" /\ e \in StreamEvent
    PROVE  Lifecycle!Next \/ UNCHANGED Lifecycle!vars
<1>1. CASE handle = "dropped" /\ UNCHANGED <<events, streamVars>>
    BY <1>1 DEF streamVars, Lifecycle!vars
<1>2. CASE /\ handle = "live"
           /\ phase' = IF e \in StateEvent THEN e ELSE phase
           /\ reported' = (reported \/ e = "Error")
           /\ fin' = (fin \/ e = "Final")
           /\ nOut' = IF e \in StreamEvent THEN nOut + 1 ELSE nOut
    <2>1. StreamInv /\ reported \in BOOLEAN /\ fin \in BOOLEAN
        BY <1>2 DEF IInv, TypeOK
    <2>2. /\ e # "Error" => reported' = reported
          /\ e = "Error" => reported' = TRUE
        BY <1>2, <2>1, Zenon
    <2>3. /\ e # "Final" => fin' = fin
          /\ e = "Final" => fin' = TRUE
        BY <1>2, <2>1, Zenon
    <2>4. CASE pc = "tell_connecting" /\ e = "Connecting"
        <3>1. /\ phase = "none" /\ ~reported /\ phase' = "Connecting"
              /\ UNCHANGED <<reported, fin, nOut>>
            BY <1>2, <2>1, <2>2, <2>3, <2>4 DEF StreamInv, StateEvent,
               StreamEvent
        <3>. QED  BY <3>1, AdvanceStep, NextPhaseFacts
    <2>5. CASE pc = "tell_auth" /\ e = "Authenticated"
        <3>1. /\ phase = "Connecting" /\ ~reported /\ phase' = "Authenticated"
              /\ UNCHANGED <<reported, fin, nOut>>
            BY <1>2, <2>1, <2>2, <2>3, <2>5 DEF StreamInv, StateEvent,
               StreamEvent
        <3>. QED  BY <3>1, AdvanceStep, NextPhaseFacts
    <2>6. CASE pc = "tell_open" /\ e = "ShellOpen"
        <3>1. /\ phase = "Authenticated" /\ ~reported /\ phase' = "ShellOpen"
              /\ UNCHANGED <<reported, fin, nOut>>
            BY <1>2, <2>1, <2>2, <2>3, <2>6 DEF StreamInv, StateEvent,
               StreamEvent
        <3>. QED  BY <3>1, AdvanceStep, NextPhaseFacts
    <2>7. CASE pc = "tell_end" /\ e = "Closed"
        <3>1. /\ phase = "ShellOpen" /\ phase' = "Closed"
              /\ UNCHANGED <<reported, fin, nOut>>
            BY <1>2, <2>1, <2>2, <2>3, <2>7 DEF StreamInv, StateEvent,
               StreamEvent
        <3>. QED  BY <3>1, AdvanceStep, NextPhaseFacts
    <2>8. CASE pc \in {"err_connect", "err_open", "err_write", "err_resize"}
                 /\ e = "Error"
        <3>1. /\ phase \in {"Connecting", "Authenticated", "ShellOpen"}
              /\ reported' = TRUE /\ UNCHANGED <<phase, fin, nOut>>
            BY <1>2, <2>1, <2>2, <2>3, <2>8
            DEF StreamInv, Looping, StateEvent, StreamEvent
        <3>. QED  BY <3>1 DEF Lifecycle!Next, Lifecycle!Report
    <2>9. CASE pc \in {"fail_connect", "fail_open"} /\ e = "Failed"
        <3>1. /\ phase \in {"Connecting", "Authenticated"} /\ reported
              /\ phase' = "Failed" /\ UNCHANGED <<reported, fin, nOut>>
            BY <1>2, <2>1, <2>2, <2>3, <2>9 DEF StreamInv, StateEvent,
               StreamEvent
        <3>. QED  BY <3>1 DEF Lifecycle!Next, Lifecycle!Fail
    <2>10. CASE pc = "final" /\ e = "Final"
        <3>1. /\ phase \in {"Failed", "Closed"} /\ ~fin
              /\ fin' = TRUE /\ UNCHANGED <<phase, reported, nOut>>
            BY <1>2, <2>1, <2>2, <2>3, <2>10 DEF StreamInv, StateEvent,
               StreamEvent
        <3>. QED  BY <3>1 DEF Lifecycle!Next, Lifecycle!Final
    <2>11. CASE pc = "stream" /\ e \in StreamEvent
        <3>1. /\ phase = "ShellOpen" /\ nOut' = nOut + 1
              /\ UNCHANGED <<phase, reported, fin>>
            BY <1>2, <2>1, <2>2, <2>3, <2>11
            DEF StreamInv, Looping, StateEvent, StreamEvent
        <3>. QED  BY <3>1 DEF Lifecycle!Next, Lifecycle!Stream
    <2>. QED  BY <2>4, <2>5, <2>6, <2>7, <2>8, <2>9, <2>10, <2>11
<1>. QED  BY <1>1, <1>2 DEF Send

(* Every step of the session is a step of SessionLifecycle or a stutter. *)
LEMMA StepRefines == IInv /\ [Next]_vars => [Lifecycle!Next]_Lifecycle!vars
<1>. SUFFICES ASSUME IInv, [Next]_vars
              PROVE  Lifecycle!Next \/ UNCHANGED Lifecycle!vars
    OBVIOUS
<1>1. CASE TellConnecting \/ ErrConnect \/ FailConnect \/ TellAuth
    BY <1>1, SendRefines DEF TellConnecting, ErrConnect, FailConnect, TellAuth,
       Emit, Event, StateEvent
<1>2. CASE ErrOpen \/ FailOpen \/ TellOpen
    BY <1>2, SendRefines DEF ErrOpen, FailOpen, TellOpen, Emit, Event,
       StateEvent
<1>3. CASE ErrResize \/ TellEnd \/ TellFinal \/ ErrWrite
    BY <1>3, SendRefines DEF ErrResize, TellEnd, TellFinal, ErrWrite, Emit,
       Event, StateEvent
<1>4. CASE Stream
    <2>1. pc = "stream" /\ msg \in StreamMsg /\ Send(EventOf(msg))
        BY <1>4 DEF Stream, IInv, InHand
    <2>. QED  BY <2>1, SendRefines, EventOfType
<1>5. CASE /\ ~(TellConnecting \/ ErrConnect \/ FailConnect \/ TellAuth)
           /\ ~(ErrOpen \/ FailOpen \/ TellOpen)
           /\ ~(ErrResize \/ TellEnd \/ TellFinal \/ ErrWrite \/ Stream)
    <2>. USE DEF streamVars
    <2>1. CASE HandleStep
        BY <2>1, HandleFrame DEF Lifecycle!vars
    <2>2. CASE DiscOpen \/ Disc \/ ServerAnswer
        BY <2>2 DEF Write, WriteOk, WriteStep, DiscOpen, Disc, ServerAnswer,
           ConnectAnswer, AuthAnswer, OpenAnswer, ConnectOk, ConnectFail,
           AuthOk, AuthFail, OpenOk, OpenFail, NetStep, Lifecycle!vars
    <2>3. CASE \/ TakeInput \/ Close \/ RemoteEnded \/ Write \/ ResizePty
               \/ TakeRemote \/ Cancelled \/ ServerStep \/ UNCHANGED vars
        BY <2>3 DEF WriteOk, WriteFail, WriteStep, TakeInput, TakeCommand,
           InputClosed, Close, RemoteEnded, Write, ResizePty, TakeRemote,
           Cancelled, ServerStep, RemoteSend, LinkLost, vars, Lifecycle!vars
    <2>. QED  BY <1>5, <2>1, <2>2, <2>3 DEF Write, Next, DriverStep
<1>. QED  BY <1>1, <1>2, <1>3, <1>4, <1>5

(* The event stream of driver_task and io_loop is one SessionLifecycle      *)
(* allows, in every behaviour.                                              *)
THEOREM Refines == Spec => LifecycleSpec
<1>1. Init => Lifecycle!Init
    BY DEF Init, Lifecycle!Init
<1>2. IInv /\ [Next]_vars => [Lifecycle!Next]_Lifecycle!vars
    BY StepRefines
<1>. QED  BY <1>1, <1>2, Inductive, PTL DEF Spec, LifecycleSpec, Lifecycle!Spec

-----------------------------------------------------------------------------
(* A wait() that the event queue has no room for. *)

(* Sending one event to a handle that listens takes one place in the queue. *)
LEMMA SendTakesRoom ==
    ASSUME TypeOK, NEW e, Send(e), handle = "live"
    PROVE  Len(events') = Len(events) + 1 /\ Len(events') <= EVENT_CAP
<1>1. events \in Seq(Event) /\ Len(events) \in Nat
    BY LenProperties DEF TypeOK
<1>2. events' = Append(events, e) /\ Len(events) + 1 <= EVENT_CAP
    BY <1>1, CapAssumption DEF Send
<1>. QED  BY <1>1, <1>2, AppendProperties

(* What the driver owes falls by one at most when it sends an event. *)
LEMMA OwedSend ==
    ASSUME TypeOK, handle = "live", join = "awaited",
           \/ TellConnecting \/ ErrConnect \/ FailConnect \/ TellAuth
           \/ ErrOpen \/ FailOpen \/ TellOpen \/ ErrResize \/ ErrWrite
           \/ Stream \/ TellEnd \/ TellFinal
    PROVE  /\ Owed' >= Owed - 1
           /\ Len(events') = Len(events) + 1
           /\ join' = "awaited"
<1>1. \E e : Send(e)
    BY DEF TellConnecting, ErrConnect, FailConnect, TellAuth, ErrOpen,
       FailOpen, TellOpen, ErrResize, ErrWrite, Stream, TellEnd, TellFinal,
       Emit
<1>2. Len(events') = Len(events) + 1
    BY <1>1, SendTakesRoom
<1>3. join' = "awaited"
    BY DEF TellConnecting, ErrConnect, FailConnect, TellAuth, ErrOpen,
       FailOpen, TellOpen, ErrResize, ErrWrite, Stream, TellEnd, TellFinal,
       Emit, handleVars
<1>4. CASE TellConnecting \/ ErrConnect \/ FailConnect \/ TellAuth
           \/ ErrOpen \/ FailOpen
    BY <1>2, <1>3, <1>4 DEF TellConnecting, ErrConnect, FailConnect, TellAuth,
       ErrOpen, FailOpen, Emit, Owed, Finished
<1>5. CASE TellOpen \/ ErrResize \/ TellEnd \/ TellFinal
    BY <1>2, <1>3, <1>5 DEF TellOpen, ErrResize, TellEnd, TellFinal, Emit,
       Owed, Finished
<1>6. CASE ErrWrite \/ Stream
    BY <1>2, <1>3, <1>6 DEF ErrWrite, Stream, Leave, Owed, Finished
<1>. QED  BY <1>2, <1>3, <1>4, <1>5, <1>6

(* What the driver owes never falls while it sends nothing. *)
LEMMA OwedQuiet ==
    ASSUME TypeOK, join = "awaited",
           \/ DiscOpen \/ Disc \/ ServerAnswer \/ WriteFail \/ TakeInput
           \/ ResizePty \/ Close \/ TakeRemote \/ RemoteEnded
    PROVE  /\ Owed' >= Owed
           /\ events' = events
           /\ join' = "awaited"
<1>1. CASE DiscOpen \/ Disc \/ ConnectAnswer \/ AuthAnswer \/ OpenAnswer
    BY <1>1 DEF DiscOpen, Disc, ConnectAnswer, AuthAnswer, OpenAnswer,
       ConnectOk, ConnectFail, AuthOk, AuthFail, OpenOk, OpenFail, NetStep,
       handleVars, Owed, Finished
<1>2. CASE WriteOk \/ WriteFail \/ ResizePty \/ Close
    BY <1>2 DEF WriteOk, WriteFail, WriteStep, ResizePty, Close, Leave,
       handleVars, Owed, Finished
<1>3. CASE TakeCommand
    <2>1. pc = "loop" /\ pc' \in {"write", "resize", "close"}
        BY <1>3, TakeCommandFacts DEF TakeCommand
    <2>. QED  BY <1>3, <2>1 DEF TakeCommand, handleVars, Owed, Finished
<1>4. CASE InputClosed \/ TakeRemote \/ RemoteEnded
    BY <1>4 DEF InputClosed, TakeRemote, RemoteEnded, Leave, handleVars,
       Owed, Finished
<1>. QED  BY <1>1, <1>2, <1>3, <1>4 DEF ServerAnswer, TakeInput

(* A step leaves a doomed wait() doomed, or is the caller's giving it up. *)
LEMMA DoomStep ==
    ASSUME TypeOK, AbortInv, [Next]_vars, Doomed
    PROVE  Doomed' \/ WaitCancel
<1>1. /\ join = "awaited" /\ handle = "live"
      /\ Len(events) \in Nat /\ Len(events) <= EVENT_CAP
      /\ Len(events) + Owed > EVENT_CAP
    BY LenProperties DEF Doomed, AbortInv, TypeOK
<1>2. Owed \in Nat /\ ~Finished
    BY <1>1, CapAssumption DEF Owed
<1>3. CASE HandleStep
    BY <1>1, <1>2, <1>3 DEF HandleStep, SendBytes, Resize, Disconnect,
       Enqueue, NextEvent, WaitStart, WaitDone, SetJoin, Drop, CanCall
<1>4. CASE \/ TellConnecting \/ ErrConnect \/ FailConnect \/ TellAuth
           \/ ErrOpen \/ FailOpen \/ TellOpen \/ ErrResize \/ ErrWrite
           \/ Stream \/ TellEnd \/ TellFinal
    <2>1. /\ Owed' >= Owed - 1 /\ Len(events') = Len(events) + 1
          /\ join' = "awaited"
        BY <1>1, <1>4, OwedSend
    <2>2. Owed' \in Nat
        BY DEF Owed
    <2>. QED  BY <1>1, <1>2, <2>1, <2>2, CapAssumption DEF Doomed
<1>5. CASE \/ DiscOpen \/ Disc \/ ServerAnswer \/ WriteFail \/ TakeInput
           \/ ResizePty \/ Close \/ TakeRemote \/ RemoteEnded
    <2>1. Owed' >= Owed /\ events' = events /\ join' = "awaited"
        BY <1>1, <1>5, OwedQuiet
    <2>2. Owed' \in Nat
        BY DEF Owed
    <2>. QED  BY <1>1, <1>2, <2>1, <2>2, CapAssumption DEF Doomed
<1>6. ~Cancelled
    BY <1>1 DEF Cancelled
<1>7. CASE ServerStep \/ UNCHANGED vars
    BY <1>1, <1>7 DEF ServerStep, RemoteSend, LinkLost, vars, handleVars,
       driverVars, Doomed, Owed, Finished
<1>. QED
    BY <1>3, <1>4, <1>5, <1>6, <1>7 DEF Next, DriverStep

(* A wait() for a driver with more events to send than there is room for    *)
(* never returns, whatever the server does: nothing drains the events while *)
(* wait() borrows the handle (session.rs:143-150, 198-301).                 *)
THEOREM DoomedForGood == Spec => DoomLasts
<1>1. IInv /\ [Next]_vars => [Doomed => Doomed' \/ WaitCancel]_vars
    BY DoomStep DEF IInv
<1>. QED  BY <1>1, Inductive, PTL DEF Spec, DoomLasts
=============================================================================
