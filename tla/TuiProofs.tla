------------------------------ MODULE TuiProofs ------------------------------
(***************************************************************************)
(* Theorems about Tui, for every queue capacity, every set of sizes and    *)
(* any number of terminal events: the client uses its session as           *)
(* SessionDriver allows, so that what is proved of a session holds below   *)
(* the client, and what the user is left with when it goes.                *)
(***************************************************************************)
EXTENDS Tui, SessionDriverProofs

-----------------------------------------------------------------------------
(* Types. *)

LEMMA TermEventType ==
    ASSUME NEW e \in TermEvent
    PROVE  e.kind \in TermKind /\ e.size \in Sizes
BY SizeAssumption DEF TermEvent, TermKind

(* Taking the head of the keyboard's queue. *)
LEMMA TakeKey ==
    ASSUME TuiTypeOK, kbd # <<>>
    PROVE  Head(kbd) \in TermEvent /\ Tail(kbd) \in Seq(TermEvent)
BY HeadTailProperties DEF TuiTypeOK

(* The terminal's side of the client preserves the types. *)
LEMMA UiTypeStep == TuiTypeOK /\ UiStep => TuiTypeOK'
<1>. SUFFICES ASSUME TuiTypeOK, UiStep PROVE TuiTypeOK'
    OBVIOUS
<1>0. TuiTypeOK
    OBVIOUS
<1>. USE DEF TuiTypeOK, appVars, screenVars, windowVars, TermMode
<1>1. CASE Setup
    BY <1>1 DEF Setup
<1>2. CASE LoopTop
    BY <1>2, Zenon DEF LoopTop
<1>3. CASE TakeTerminal
    <2>1. kbd' \in Seq(TermEvent) /\ pend' \in TermEvent
        BY <1>0, <1>3, TakeKey DEF TakeTerminal
    <2>2. capture' \in BOOLEAN /\ changed' \in BOOLEAN
        BY <1>3, Zenon DEF TakeTerminal
    <2>. QED  BY <1>3, <2>1, <2>2 DEF TakeTerminal
<1>4. CASE FinishSend
    <2>1. lastError' \in BOOLEAN
        BY <1>4, Zenon DEF FinishSend, Sent
    <2>2. localSize' \in Sizes
        BY <1>4, TermEventType DEF FinishSend
    <2>. QED  BY <1>4, <2>1, <2>2 DEF FinishSend
<1>5. CASE TakeSession
    <2>1. lastError' \in BOOLEAN
        BY <1>5, Zenon DEF TakeSession, Apply
    <2>. QED  BY <1>5, <2>1 DEF TakeSession, Apply
<1>6. CASE Exit
    BY <1>6 DEF Exit
<1>. QED  BY <1>1, <1>2, <1>3, <1>4, <1>5, <1>6 DEF UiStep

LEMMA TuiTypeStep == TuiTypeOK /\ [TuiNext]_tuiVars => TuiTypeOK'
<1>. SUFFICES ASSUME TuiTypeOK, [TuiNext]_tuiVars PROVE TuiTypeOK'
    OBVIOUS
<1>1. CASE \E e \in TermEvent : Type(e)
    <2>1. PICK e \in TermEvent : Type(e)
        BY <1>1
    <2>2. kbd' \in Seq(TermEvent)
        BY <2>1, AppendProperties DEF Type, TuiTypeOK
    <2>3. nKeys' \in 0..MaxKeys
        BY <2>1, MaxKeysAssumption DEF Type, TuiTypeOK
    <2>4. window' \in Sizes
        BY <2>1, TermEventType DEF Type, TuiTypeOK, windowVars
    <2>5. unseen' \in BOOLEAN
        BY <2>1, Zenon DEF Type, TuiTypeOK, windowVars
    <2>. QED
        BY <2>1, <2>2, <2>3, <2>4, <2>5
        DEF Type, TuiTypeOK, appVars, screenVars
<1>2. CASE WindowChanges
    BY <1>2, MaxKeysAssumption
       DEF WindowChanges, TuiTypeOK, appVars, screenVars
<1>3. CASE (BelowStep /\ UNCHANGED uiVars) \/ UNCHANGED tuiVars
    BY <1>3 DEF TuiTypeOK, uiVars, tuiVars, appVars, screenVars, windowVars
<1>. QED  BY <1>1, <1>2, <1>3, UiTypeStep DEF TuiNext

LEMMA TuiTypeInit == TuiInit => TuiTypeOK
<1>1. <<>> \in Seq(TermEvent)
    BY EmptySeq
<1>2. [kind |-> "local", size |-> InitSize] \in TermEvent
    BY DEF TermEvent, TermKind
<1>3. TuiInit => /\ lastError \in BOOLEAN /\ capture \in BOOLEAN
                 /\ changed \in BOOLEAN /\ unseen \in BOOLEAN
    BY Zenon DEF TuiInit
<1>4. TuiInit => nKeys \in 0..MaxKeys /\ nShown \in Nat
    BY MaxKeysAssumption DEF TuiInit
<1>5. TuiInit => /\ pend \in TermEvent /\ kbd \in Seq(TermEvent)
                 /\ localSize \in Sizes /\ window \in Sizes
    BY <1>1, <1>2, SizeAssumption DEF TuiInit
<1>6. TuiInit => /\ ui = "setup" /\ exitBy = "none" /\ modes = {}
                 /\ appState \in StateEvent
    BY DEF TuiInit, StateEvent
<1>. QED  BY <1>3, <1>4, <1>5, <1>6 DEF TuiTypeOK

(* Every variable of the client keeps its type. *)
THEOREM TuiTypeCorrect == TuiSpec => []TuiTypeOK
BY TuiTypeInit, TuiTypeStep, PTL DEF TuiSpec

-----------------------------------------------------------------------------
(* The session below the client. *)

(* A step of the client is a step of its session or leaves it alone. *)
LEMMA StepMaps == TuiTypeOK /\ [TuiNext]_tuiVars => [Next]_vars
<1>. SUFFICES ASSUME TuiTypeOK, [TuiNext]_tuiVars PROVE [Next]_vars
    OBVIOUS
<1>1. CASE (\E e \in TermEvent : Type(e)) \/ WindowChanges \/ UNCHANGED tuiVars
    BY <1>1 DEF Type, WindowChanges, tuiVars
<1>2. CASE LoopTop \/ TakeTerminal
    BY <1>2 DEF LoopTop, TakeTerminal
<1>3. CASE Setup \/ Exit
    BY <1>3 DEF Setup, Exit, Next, HandleStep
<1>4. CASE TakeSession
    BY <1>4 DEF TakeSession, Next, HandleStep
<1>5. CASE FinishSend
    <2>1. pend.size \in Sizes
        BY TermEventType DEF TuiTypeOK
    <2>. QED  BY <1>5, <2>1 DEF FinishSend, Sent, Next, HandleStep
<1>6. CASE BelowStep
    BY <1>6 DEF BelowStep, Next
<1>. QED  BY <1>1, <1>2, <1>3, <1>4, <1>5, <1>6 DEF TuiNext, UiStep

(* drive() and run_tui() use the session in no way SessionDriver does not   *)
(* model: every behaviour of the client is one of a session.                *)
THEOREM RunsSession == TuiSpec => Spec
<1>1. TuiInit => Init
    BY DEF TuiInit
<1>. QED  BY <1>1, StepMaps, TuiTypeCorrect, PTL DEF TuiSpec, Spec

(* What is proved of every session holds below the client. *)
LEMMA BelowInductive == TuiSpec => []IInv
BY RunsSession, Inductive, PTL

-----------------------------------------------------------------------------
(* The client and its handle. *)

(* Until it has left, the client holds its handle and waits for nobody.     *)
Attached ==
    /\ ui # "exited" => handle = "live" /\ join = "held"
    /\ ui = "exited" => handle = "dropped"

(* A step below the client leaves the handle as it is. *)
LEMMA BelowHandle ==
    ASSUME BelowStep
    PROVE  UNCHANGED <<handle, join>>
BY DEF WriteOk, WriteFail, WriteStep, BelowStep, DriverStep, ServerAnswer,
   ConnectAnswer, AuthAnswer, OpenAnswer, ConnectOk, ConnectFail, AuthOk,
   AuthFail, OpenOk, OpenFail, DiscOpen, Disc, NetStep, TellConnecting,
   ErrConnect, FailConnect, TellAuth, ErrOpen, FailOpen, TellOpen, ErrResize,
   TellEnd, TellFinal, Emit, TakeInput, TakeCommand, InputClosed, Close,
   RemoteEnded, Write, ErrWrite, ResizePty, TakeRemote, Stream, Cancelled,
   ServerStep, RemoteSend, LinkLost, handleVars

(* Every step keeps the client attached. *)
LEMMA AttachedStep == Attached /\ [TuiNext]_tuiVars => Attached'
<1>. SUFFICES ASSUME Attached, [TuiNext]_tuiVars PROVE Attached'
    OBVIOUS
<1>. USE DEF Attached, handleVars
<1>1. CASE (\E e \in TermEvent : Type(e)) \/ WindowChanges \/ UNCHANGED tuiVars
    BY <1>1 DEF Type, WindowChanges, tuiVars, uiVars, vars
<1>2. CASE LoopTop \/ TakeTerminal
    BY <1>2 DEF LoopTop, TakeTerminal, vars
<1>3. CASE Setup \/ Exit
    BY <1>3 DEF Setup, Exit, Drop, vars
<1>4. CASE TakeSession
    BY <1>4 DEF TakeSession, NextEvent
<1>5. CASE FinishSend
    BY <1>5 DEF FinishSend, Sent, SendBytes, Resize, Disconnect, Enqueue, vars
<1>6. CASE BelowStep /\ UNCHANGED uiVars
    BY <1>6, BelowHandle DEF uiVars
<1>. QED  BY <1>1, <1>2, <1>3, <1>4, <1>5, <1>6 DEF TuiNext, UiStep

-----------------------------------------------------------------------------
(* The modes of the terminal. *)

(* Between the top of the loop and the next event nothing is left to sync,  *)
(* and before it only the capture of the mouse is.                          *)
ScreenInv ==
    /\ ui \in {"top", "run", "send"} /\ ~changed =>
           modes = TermMode \ (IF capture THEN {} ELSE {"mouse"})
    /\ ui \in {"top", "run", "send"} => modes \cup {"mouse"} = TermMode
    /\ ui \in {"setup", "run", "send"} => changed = FALSE
    /\ ui = "setup" => capture = TRUE
    /\ ui = "exited" /\ modes # {} => exitBy \in {"setup", "error"}
    /\ ui = "exited" /\ "raw" \in modes => exitBy = "setup"

(* Every step preserves ScreenInv. *)
LEMMA ScreenStep == TuiTypeOK /\ ScreenInv /\ [TuiNext]_tuiVars => ScreenInv'
<1>. SUFFICES ASSUME TuiTypeOK, ScreenInv, [TuiNext]_tuiVars PROVE ScreenInv'
    OBVIOUS
<1>. USE DEF ScreenInv, screenVars
<1>1. CASE (\E e \in TermEvent : Type(e)) \/ WindowChanges \/ UNCHANGED tuiVars
           \/ (BelowStep /\ UNCHANGED uiVars)
    BY <1>1 DEF Type, WindowChanges, tuiVars, uiVars
<1>2. CASE Setup
    BY <1>2 DEF Setup, TermMode
<1>3. CASE LoopTop
    BY <1>3 DEF LoopTop, TermMode, TuiTypeOK
<1>4. CASE TakeTerminal
    BY <1>4 DEF TakeTerminal
<1>5. CASE FinishSend
    BY <1>5 DEF FinishSend
<1>6. CASE TakeSession
    BY <1>6 DEF TakeSession
<1>7. CASE Exit
    BY <1>7 DEF Exit
<1>. QED
    BY <1>1, <1>2, <1>3, <1>4, <1>5, <1>6, <1>7 DEF TuiNext, UiStep

(* A client that has gone leaves a terminal in raw mode only if it could    *)
(* not set it up, and in any of its modes only after a failure to write.    *)
THEOREM RestoresTerminal == TuiSpec => []TerminalRestored
<1>1. TuiInit => ScreenInv
    BY DEF TuiInit, ScreenInv
<1>2. ScreenInv => TerminalRestored
    BY DEF ScreenInv, TerminalRestored
<1>. QED  BY <1>1, <1>2, ScreenStep, TuiTypeCorrect, PTL DEF TuiSpec

-----------------------------------------------------------------------------
(* What the client hears of the session. *)

(* An event is queued: nothing comes after the final one, the driver ends   *)
(* by sending it, and a failure is only announced after its error.          *)
Queues(e) ==
    /\ events' = Append(events, e)
    /\ phase' = IF e \in StateEvent THEN e ELSE phase
    /\ reported' = (reported \/ e = "Error")
    /\ fin' = (fin \/ e = "Final")
    /\ nOut' = IF e \in StreamEvent THEN nOut + 1 ELSE nOut
    /\ ~fin
    /\ pc' \in {"done", "aborted"} => e = "Final"
    /\ e = "Failed" => reported

QueuesNone ==
    /\ UNCHANGED <<events, phase, reported, fin, nOut>>
    /\ pc' \in {"done", "aborted"} => pc \in {"done", "aborted"}

(* What the driver sends with Emit is queued that way. *)
LEMMA EmitQueues ==
    ASSUME StreamInv, handle = "live", NEW from, NEW e, NEW to,
           Emit(from, e, to), from # "done",
           e = "Failed" => reported,
           to \in {"done", "aborted"} => e = "Final"
    PROVE  Queues(e)
<1>1. /\ events' = Append(events, e)
      /\ phase' = IF e \in StateEvent THEN e ELSE phase
      /\ reported' = (reported \/ e = "Error")
      /\ fin' = (fin \/ e = "Final")
      /\ nOut' = IF e \in StreamEvent THEN nOut + 1 ELSE nOut
      /\ pc = from /\ pc' = to
    <2>1. Send(e) /\ handle # "dropped"
        BY DEF Emit
    <2>. QED  BY <2>1, Zenon DEF Emit, Send
<1>2. ~fin
    BY <1>1 DEF StreamInv
<1>3. pc' \in {"done", "aborted"} => e = "Final"
    BY <1>1
<1>4. e = "Failed" => reported
    OBVIOUS
<1>. QED  BY <1>1, <1>2, <1>3, <1>4 DEF Queues

(* A step below the client queues one event or none. *)
LEMMA BelowEvents ==
    ASSUME IInv, Attached, ui # "exited", BelowStep
    PROVE  QueuesNone \/ \E e \in Event : Queues(e)
<1>0. /\ handle = "live" /\ join = "held" /\ InHand /\ StreamInv
    BY DEF IInv, Attached
<1>1. CASE TellConnecting
    BY <1>0, <1>1, EmitQueues DEF TellConnecting, Event, StateEvent
<1>2. CASE ErrConnect
    BY <1>0, <1>2, EmitQueues DEF ErrConnect, Event
<1>3. CASE FailConnect
    <2>1. reported
        BY <1>0, <1>3 DEF FailConnect, Emit, StreamInv
    <2>. QED  BY <1>0, <1>3, <2>1, EmitQueues DEF FailConnect, Event,
           StateEvent
<1>4. CASE TellAuth
    BY <1>0, <1>4, EmitQueues DEF TellAuth, Event, StateEvent
<1>5. CASE ErrOpen
    BY <1>0, <1>5, EmitQueues DEF ErrOpen, Event
<1>6. CASE FailOpen
    <2>1. reported
        BY <1>0, <1>6 DEF FailOpen, Emit, StreamInv
    <2>. QED  BY <1>0, <1>6, <2>1, EmitQueues DEF FailOpen, Event, StateEvent
<1>7. CASE TellOpen
    BY <1>0, <1>7, EmitQueues DEF TellOpen, Event, StateEvent
<1>8. CASE ErrResize
    BY <1>0, <1>8, EmitQueues DEF ErrResize, Event
<1>9. CASE TellEnd
    BY <1>0, <1>9, EmitQueues DEF TellEnd, Event, StateEvent
<1>10. CASE TellFinal
    BY <1>0, <1>10, EmitQueues DEF TellFinal, Event
<1>11. CASE ErrWrite
    <2>1. Queues("Error")
        BY <1>0, <1>11 DEF ErrWrite, Send, Leave, StreamInv, Queues
    <2>. QED  BY <2>1 DEF Event
<1>12. CASE Stream
    <2>1. EventOf(msg) \in StreamEvent
        BY <1>0, <1>12, EventOfType DEF Stream, InHand
    <2>2. /\ EventOf(msg) \notin {"Failed", "Error", "Final"}
          /\ EventOf(msg) \in Event
        BY <2>1 DEF StreamEvent, Event
    <2>3. Queues(EventOf(msg))
        BY <1>0, <1>12, <2>2 DEF Stream, Send, Leave, StreamInv, Queues
    <2>. QED  BY <2>2, <2>3
<1>13. CASE TakeCommand
    BY <1>13, TakeCommandFacts DEF TakeCommand, streamVars, QueuesNone, IInv
<1>14. CASE InputClosed \/ Close \/ RemoteEnded \/ Write \/ ResizePty
            \/ TakeRemote \/ DiscOpen \/ Disc \/ ServerAnswer
    BY <1>14 DEF WriteOk, WriteFail, WriteStep, InputClosed, Close,
       RemoteEnded, Write, ResizePty, TakeRemote, Leave, DiscOpen, Disc,
       ServerAnswer, ConnectAnswer, AuthAnswer, OpenAnswer, ConnectOk,
       ConnectFail, AuthOk, AuthFail, OpenOk, OpenFail, NetStep, streamVars,
       QueuesNone
<1>15. CASE Cancelled \/ ServerStep
    BY <1>0, <1>15 DEF Cancelled, ServerStep, RemoteSend, LinkLost, streamVars,
       driverVars, QueuesNone
<1>. QED
    BY <1>1, <1>2, <1>3, <1>4, <1>5, <1>6, <1>7, <1>8, <1>9, <1>10, <1>11,
       <1>12, <1>13, <1>14, <1>15
    DEF Write, BelowStep, DriverStep, TakeInput

(* While the client listens, the events it has not taken tell what it does  *)
(* not know: the last state among them is the driver's, and App has it if   *)
(* there is none; an error is among them or shown; the final event is last, *)
(* and there if the driver has ended.                                       *)
Listening == ui \notin {"leave", "exited"}

HeardInv ==
    /\ \A i \in 1..Len(events) : events[i] = "Final" => fin /\ i = Len(events)
    /\ \A i \in 1..Len(events) :
         events[i] \in StateEvent
         /\ (\A j \in (i + 1)..Len(events) : events[j] \notin StateEvent)
             => events[i] = phase
    /\ (\A i \in 1..Len(events) : events[i] \notin StateEvent)
         => appState = phase \/ phase = "none"
    /\ reported => lastError \/ \E i \in 1..Len(events) : events[i] = "Error"
    /\ phase = "Failed" => reported
    /\ Finished => events # <<>> /\ events[Len(events)] = "Final"

ClientInv ==
    /\ TuiTypeOK
    /\ IInv
    /\ Attached
    /\ Listening => HeardInv /\ exitBy = "none"
    /\ OutcomeShown

(* Steps of the client that neither take an event nor leave keep HeardInv.  *)
LEMMA HeardFrame ==
    ASSUME HeardInv,
           UNCHANGED <<events, phase, reported, fin, appState, pc>>,
           lastError => lastError'
    PROVE  HeardInv'
BY DEF HeardInv, Finished

(* Queueing an event keeps HeardInv. *)
LEMMA HeardBelow ==
    ASSUME IInv, Attached, HeardInv, Listening, BelowStep, UNCHANGED uiVars
    PROVE  HeardInv'
<1>0. /\ UNCHANGED <<appState, lastError>> /\ ui # "exited"
      /\ events \in Seq(Event) /\ Len(events) \in Nat
    BY LenProperties DEF uiVars, appVars, Listening, IInv, TypeOK
<1>1. CASE QueuesNone
    BY <1>0, <1>1 DEF HeardInv, QueuesNone, Finished
<1>2. ASSUME NEW e \in Event, Queues(e)
      PROVE  HeardInv'
    <2>. USE <1>2 DEF Queues
    <2>. DEFINE n == Len(events)
    <2>1. /\ Len(events') = n + 1 /\ events'[n + 1] = e /\ n \in Nat
          /\ \A i \in 1..n : events'[i] = events[i]
          /\ events' # <<>>
        BY <1>0, <1>2, AppendProperties
    <2>2. \A i \in 1..n : events[i] # "Final"
        BY <1>2 DEF HeardInv
    <2>3. \A i \in 1..Len(events') :
              events'[i] = "Final" => fin' /\ i = Len(events')
        <3>. SUFFICES ASSUME NEW i \in 1..Len(events'), events'[i] = "Final"
                      PROVE  fin' /\ i = Len(events')
            OBVIOUS
        <3>1. i = n + 1
            BY <2>1, <2>2
        <3>2. e = "Final"
            BY <2>1, <3>1
        <3>3. fin'
            BY <1>2, <3>2, Zenon
        <3>. QED  BY <2>1, <3>1, <3>3
    <2>4. ASSUME NEW i \in 1..Len(events'), events'[i] \in StateEvent,
                 \A j \in (i + 1)..Len(events') : events'[j] \notin StateEvent
          PROVE  events'[i] = phase'
        <3>1. CASE i = n + 1
            BY <1>2, <2>1, <2>4, <3>1
        <3>2. CASE i # n + 1
            <4>1. i \in 1..n /\ events[i] \in StateEvent
                BY <2>1, <2>4, <3>2
            <4>2. e \notin StateEvent
                BY <2>1, <2>4, <4>1
            <4>3. \A j \in (i + 1)..n : events[j] \notin StateEvent
                BY <2>1, <2>4, <4>1
            <4>4. events[i] = phase
                BY <4>1, <4>3 DEF HeardInv
            <4>. QED  BY <1>2, <2>1, <4>1, <4>2, <4>4
        <3>. QED  BY <3>1, <3>2
    <2>5. ASSUME \A i \in 1..Len(events') : events'[i] \notin StateEvent
          PROVE  appState' = phase' \/ phase' = "none"
        <3>1. e \notin StateEvent /\ \A i \in 1..n : events[i] \notin StateEvent
            BY <2>1, <2>5
        <3>2. appState = phase \/ phase = "none"
            BY <3>1 DEF HeardInv
        <3>. QED  BY <1>0, <1>2, <3>1, <3>2
    <2>6. ASSUME reported'
          PROVE  lastError' \/ \E i \in 1..Len(events') : events'[i] = "Error"
        <3>1. CASE e = "Error"
            <4>1. n + 1 \in 1..Len(events')
                BY <2>1
            <4>. QED  BY <2>1, <3>1, <4>1
        <3>2. CASE e # "Error"
            <4>1. lastError \/ \E i \in 1..n : events[i] = "Error"
                BY <1>2, <2>6, <3>2 DEF HeardInv
            <4>2. \A i \in 1..n : i \in 1..Len(events')
                BY <2>1
            <4>. QED  BY <1>0, <2>1, <4>1, <4>2
        <3>. QED  BY <3>1, <3>2
    <2>7. phase' = "Failed" => reported'
        BY <1>2 DEF HeardInv
    <2>8. Finished' => events' # <<>> /\ events'[Len(events')] = "Final"
        BY <2>1 DEF Finished
    <2>. QED  BY <2>3, <2>4, <2>5, <2>6, <2>7, <2>8 DEF HeardInv
<1>. QED  BY <1>0, <1>1, <1>2, BelowEvents

(* Taking the head of the queue. *)
LEMMA TakeEvent ==
    ASSUME IInv, NextEvent
    PROVE  /\ Len(events) \in Nat \ {0} /\ Len(events') = Len(events) - 1
           /\ Head(events) = events[1]
           /\ \A i \in 1..Len(events') : events'[i] = events[i + 1]
           /\ events' \in Seq(Event)
           /\ UNCHANGED <<phase, reported, fin, nOut, why, nStream, pc>>
<1>1. events \in Seq(Event) /\ events # <<>> /\ events' = Tail(events)
    BY DEF IInv, TypeOK, NextEvent
<1>2. Len(events) \in Nat \ {0}
    BY <1>1, LenProperties, EmptySeq
<1>3. /\ Head(events) = events[1] /\ Len(events') = Len(events) - 1
      /\ \A i \in 1..Len(events') : events'[i] = events[i + 1]
      /\ events' \in Seq(Event)
    BY <1>1, HeadTailProperties
<1>4. UNCHANGED <<phase, reported, fin, nOut, why, nStream, pc>>
    BY DEF NextEvent, driverVars, streamVars, countVars
<1>. QED  BY <1>2, <1>3, <1>4

(* Taking an event that is not the final one keeps HeardInv. *)
LEMMA HeardTake ==
    ASSUME IInv, HeardInv, TakeSession, Head(events) # "Final"
    PROVE  HeardInv'
<1>. DEFINE n == Len(events)
            h == events[1]
<1>1. /\ NextEvent /\ kbd = <<>>
      /\ appState' = IF Head(events) \in StateEvent THEN Head(events)
                                                    ELSE appState
    BY DEF TakeSession, Apply
<1>2. lastError' = (lastError \/ Head(events) = "Error")
    BY Zenon DEF TakeSession, Apply
<1>3. /\ n \in Nat \ {0} /\ Len(events') = n - 1 /\ Head(events) = h
      /\ \A i \in 1..(n - 1) : events'[i] = events[i + 1]
      /\ UNCHANGED <<phase, reported, fin, pc>>
    BY <1>1, TakeEvent
<1>4. ASSUME NEW i \in 1..(n - 1), events'[i] = "Final"
      PROVE  fin' /\ i = n - 1
    <2>1. i + 1 \in 1..n /\ events[i + 1] = "Final"
        BY <1>3, <1>4
    <2>2. fin /\ i + 1 = n
        BY <2>1 DEF HeardInv
    <2>3. fin'
        BY <1>3, <2>2, Zenon
    <2>. QED  BY <1>3, <2>2, <2>3
<1>5. ASSUME NEW i \in 1..(n - 1), events'[i] \in StateEvent,
             \A j \in (i + 1)..(n - 1) : events'[j] \notin StateEvent
      PROVE  events'[i] = phase'
    <2>1. i + 1 \in 1..n /\ events[i + 1] \in StateEvent
        BY <1>3, <1>5
    <2>2. ASSUME NEW j \in (i + 1 + 1)..n
          PROVE  events[j] \notin StateEvent
        <3>1. j - 1 \in (i + 1)..(n - 1) /\ j - 1 \in 1..(n - 1)
              /\ (j - 1) + 1 = j
            BY <1>3, <1>5, <2>2
        <3>. QED  BY <1>3, <1>5, <3>1
    <2>. QED  BY <1>3, <2>1, <2>2 DEF HeardInv
<1>6. ASSUME \A i \in 1..(n - 1) : events'[i] \notin StateEvent
      PROVE  appState' = phase' \/ phase' = "none"
    <2>1. ASSUME NEW j \in 2..n
          PROVE  events[j] \notin StateEvent
        <3>1. j - 1 \in 1..(n - 1) /\ (j - 1) + 1 = j
            BY <1>3
        <3>. QED  BY <1>3, <1>6, <3>1
    <2>2. CASE h \in StateEvent
        <3>1. h = phase
            BY <1>3, <2>1, <2>2 DEF HeardInv
        <3>. QED  BY <1>1, <1>3, <2>2, <3>1
    <2>3. CASE h \notin StateEvent
        <3>1. \A i \in 1..n : events[i] \notin StateEvent
            BY <1>3, <2>1, <2>3
        <3>2. appState = phase \/ phase = "none"
            BY <3>1 DEF HeardInv
        <3>. QED  BY <1>1, <1>3, <2>3, <3>2
    <2>. QED  BY <2>2, <2>3
<1>7. ASSUME reported'
      PROVE  lastError' \/ \E i \in 1..(n - 1) : events'[i] = "Error"
    <2>1. reported
        BY <1>3, <1>7, Zenon
    <2>2. lastError \/ \E i \in 1..n : events[i] = "Error"
        BY <2>1 DEF HeardInv
    <2>3. CASE lastError
        BY <1>2, <2>3, Zenon
    <2>4. CASE h = "Error"
        BY <1>2, <1>3, <2>4, Zenon
    <2>5. CASE \E i \in 1..n : i # 1 /\ events[i] = "Error"
        <3>1. PICK i \in 1..n : i # 1 /\ events[i] = "Error"
            BY <2>5
        <3>2. i - 1 \in 1..(n - 1) /\ (i - 1) + 1 = i
            BY <1>3, <3>1
        <3>. QED  BY <1>3, <3>1, <3>2
    <2>. QED  BY <2>2, <2>3, <2>4, <2>5
<1>8. phase' = "Failed" => reported'
    <2>1. phase = "Failed" => reported
        BY DEF HeardInv
    <2>. QED  BY <1>3, <2>1, Zenon
<1>9. ASSUME Finished'
      PROVE  events' # <<>> /\ events'[n - 1] = "Final"
    <2>1. events[n] = "Final"
        BY <1>3, <1>9 DEF HeardInv, Finished
    <2>2. n - 1 \in 1..(n - 1) /\ (n - 1) + 1 = n
        BY <1>3, <2>1
    <2>. QED  BY <1>3, <2>1, <2>2, EmptySeq
<1>. HIDE DEF n, h
<1>. QED
    BY <1>3, <1>4, <1>5, <1>6, <1>7, <1>8, <1>9 DEF HeardInv, n

(* The final event finds App with the outcome. *)
LEMMA FinalTake ==
    ASSUME IInv, Attached, Listening, HeardInv, TakeSession,
           Head(events) = "Final"
    PROVE  /\ appState' \in {"Closed", "Failed"}
           /\ appState' = "Failed" => lastError'
<1>1. /\ NextEvent
      /\ appState' = IF Head(events) \in StateEvent THEN Head(events)
                                                    ELSE appState
    BY DEF TakeSession, Apply
<1>2. lastError' = (lastError \/ Head(events) = "Error")
    BY Zenon DEF TakeSession, Apply
<1>3. Len(events) \in Nat \ {0} /\ events[1] = "Final"
    BY <1>1, TakeEvent
<1>4. fin /\ Len(events) = 1
    <2>1. 1 \in 1..Len(events)
        BY <1>3
    <2>2. fin /\ 1 = Len(events)
        BY <1>3, <2>1 DEF HeardInv
    <2>. QED  BY <2>2
<1>5. phase \in {"Failed", "Closed"}
    BY <1>4 DEF IInv, Attached, Listening, StreamInv
<1>6. "Final" \notin StateEvent /\ "Final" # "Error"
    BY DEF StateEvent
<1>7. appState = phase
    BY <1>3, <1>4, <1>5, <1>6 DEF HeardInv
<1>8. phase = "Failed" => lastError
    BY <1>3, <1>4, <1>6 DEF HeardInv
<1>9. appState' = appState
    BY <1>1, <1>6
<1>10. appState' = "Failed" => lastError'
    <2>1. appState' = "Failed" => lastError
        BY <1>7, <1>8, <1>9
    <2>. QED  BY <1>2, <2>1, Zenon
<1>. QED  BY <1>5, <1>7, <1>9, <1>10


(* What the client knows is preserved by all its steps. *)
LEMMA HeardStep ==
    ASSUME TuiTypeOK, IInv, Attached, Listening => HeardInv, [TuiNext]_tuiVars
    PROVE  Listening' => HeardInv'
<1>. SUFFICES ASSUME Listening' PROVE HeardInv'
    OBVIOUS
<1>. USE DEF Listening
<1>1. CASE \/ \E e \in TermEvent : Type(e)
           \/ WindowChanges
           \/ UNCHANGED tuiVars
    <2>1. UNCHANGED <<ui, events, phase, reported, fin, appState, lastError, pc>>
        BY <1>1 DEF Type, WindowChanges, tuiVars, uiVars, appVars, vars
    <2>. QED  BY <2>1, HeardFrame
<1>2. CASE Setup \/ LoopTop \/ TakeTerminal
    <2>1. ui # "exited" /\ ui # "leave"
        BY <1>2 DEF Setup, LoopTop, TakeTerminal
    <2>2. UNCHANGED vars
        BY <1>2 DEF Setup, LoopTop, TakeTerminal
    <2>3. UNCHANGED <<appState, lastError>>
        BY <1>2 DEF Setup, LoopTop, TakeTerminal, appVars
    <2>. QED  BY <2>1, <2>2, <2>3, HeardFrame DEF vars
<1>3. CASE FinishSend
    <2>1. UNCHANGED <<events, phase, reported, fin, pc>>
        BY <1>3 DEF FinishSend, Sent, SendBytes, Resize, Disconnect, Enqueue,
           vars, streamVars, driverVars
    <2>2. lastError => lastError'
        BY <1>3, Zenon DEF FinishSend, Sent
    <2>3. appState' = appState /\ ui = "send"
        BY <1>3 DEF FinishSend
    <2>. QED  BY <2>1, <2>2, <2>3, HeardFrame
<1>4. CASE TakeSession
    <2>1. Head(events) # "Final" /\ ui = "run"
        BY <1>4 DEF TakeSession
    <2>. QED  BY <1>4, <2>1, HeardTake
<1>5. CASE Exit
    BY <1>5 DEF Exit
<1>6. CASE BelowStep /\ UNCHANGED uiVars
    BY <1>6, HeardBelow DEF uiVars
<1>. QED  BY <1>1, <1>2, <1>3, <1>4, <1>5, <1>6 DEF TuiNext, UiStep

(* drive() returns once, and App keeps what it then knew. *)
LEMMA OutcomeStep ==
    ASSUME ClientInv, [TuiNext]_tuiVars
    PROVE  /\ Listening' => exitBy' = "none"
           /\ OutcomeShown'
<1>. USE DEF Listening, OutcomeShown
<1>1. CASE \/ \E e \in TermEvent : Type(e)
           \/ WindowChanges
           \/ UNCHANGED tuiVars
           \/ BelowStep /\ UNCHANGED uiVars
    <2>1. UNCHANGED <<ui, exitBy, appState, lastError>>
        BY <1>1 DEF Type, WindowChanges, tuiVars, uiVars, appVars
    <2>. QED  BY <2>1 DEF ClientInv
<1>2. CASE Setup \/ LoopTop \/ TakeTerminal \/ FinishSend
    <2>1. ui \notin {"leave", "exited"} /\ exitBy = "none"
        BY <1>2 DEF ClientInv, Setup, LoopTop, TakeTerminal, FinishSend
    <2>2. exitBy' # "session"
        BY <1>2, <2>1 DEF Setup, LoopTop, TakeTerminal, FinishSend
    <2>3. Listening' => exitBy' = "none"
        BY <1>2, <2>1 DEF Setup, LoopTop, TakeTerminal, FinishSend
    <2>. QED  BY <2>2, <2>3
<1>3. CASE TakeSession
    <2>1. ui = "run" /\ exitBy = "none"
        BY <1>3 DEF ClientInv, TakeSession
    <2>2. CASE Head(events) = "Final"
        <3>1. ui' = "leave"
            BY <1>3, <2>2 DEF TakeSession
        <3>. QED  BY <1>3, <2>1, <2>2, <3>1, FinalTake DEF ClientInv
    <2>3. CASE Head(events) # "Final"
        BY <1>3, <2>1, <2>3 DEF TakeSession
    <2>. QED  BY <2>2, <2>3
<1>4. CASE Exit
    <2>1. UNCHANGED <<exitBy, appState, lastError>> /\ ui' = "exited"
        BY <1>4 DEF Exit, appVars
    <2>. QED  BY <2>1 DEF ClientInv
<1>. QED  BY <1>1, <1>2, <1>3, <1>4 DEF TuiNext, UiStep

LEMMA ClientInit == TuiInit => ClientInv
<1>. SUFFICES ASSUME TuiInit PROVE ClientInv
    OBVIOUS
<1>1. TuiTypeOK /\ IInv
    BY TuiTypeInit, InitInv DEF TuiInit
<1>2. Attached /\ OutcomeShown /\ exitBy = "none"
    BY DEF TuiInit, Init, Attached, OutcomeShown
<1>3. events = <<>> /\ Len(events) = 0 /\ phase = "none" /\ ~Finished
    BY EmptySeq DEF TuiInit, Init, Finished
<1>4. ~reported
    BY DEF TuiInit, Init
<1>5. HeardInv
    BY <1>3, <1>4 DEF HeardInv
<1>. QED  BY <1>1, <1>2, <1>5 DEF ClientInv

(* The client's invariant, on top of the session's. *)
THEOREM ClientCorrect == TuiSpec => []ClientInv
<1>1. ClientInv /\ [TuiNext]_tuiVars => ClientInv'
    <2>. SUFFICES ASSUME ClientInv, [TuiNext]_tuiVars PROVE ClientInv'
        OBVIOUS
    <2>1. TuiTypeOK'
        BY TuiTypeStep DEF ClientInv
    <2>2. IInv'
        BY StepMaps, NextInv DEF ClientInv
    <2>3. Attached'
        BY AttachedStep DEF ClientInv
    <2>4. Listening' => HeardInv'
        BY HeardStep DEF ClientInv
    <2>. QED  BY <2>1, <2>2, <2>3, <2>4, OutcomeStep DEF ClientInv
<1>. QED  BY <1>1, ClientInit, PTL DEF TuiSpec

(* A session that ends by itself leaves the user with its outcome: a final  *)
(* state, and the message of the error if it failed (app.rs:119-132).       *)
THEOREM ShowsOutcome == TuiSpec => []OutcomeShown
<1>1. ClientInv => OutcomeShown
    BY DEF ClientInv
<1>. QED  BY <1>1, ClientCorrect, PTL

(* drive() never meets the end of the event stream without the final event: *)
(* its `None' branch is not taken (main.rs:260-263).                        *)
THEOREM FinalIsQueued == TuiSpec => []FinalQueued
<1>1. ClientInv => FinalQueued
    BY DEF ClientInv, FinalQueued, Listening, HeardInv
<1>. QED  BY <1>1, ClientCorrect, PTL

-----------------------------------------------------------------------------
(* Everything the server sent is shown. *)

(* The stream events the client has not taken are those it has not shown.   *)
(* Once it has left because the session ended, the driver is done.          *)
ShownInv ==
    /\ Listening => nOut = nShown + Cardinality(PlacesOf(StreamEvent, events))
    /\ exitBy = "session" => pc = "done"
    /\ EverythingShown

(* Only a step of the session changes what has been sent, and none does     *)
(* once the driver is done.                                                 *)
LEMMA DoneFrame ==
    ASSUME IInv, pc = "done", BelowStep
    PROVE  UNCHANGED <<pc, why, nStream>>
<1>1. link # "up"
    BY DEF IInv, InHand
<1>2. CASE DriverStep \/ ServerAnswer
    BY <1>2 DEF WriteOk, WriteFail, WriteStep, DriverStep, ServerAnswer,
       ConnectAnswer, AuthAnswer, OpenAnswer, ConnectOk, ConnectFail, AuthOk,
       AuthFail, OpenOk, OpenFail, DiscOpen, Disc, NetStep, TellConnecting,
       ErrConnect, FailConnect, TellAuth, ErrOpen, FailOpen, TellOpen,
       ErrResize, TellEnd, TellFinal, Emit, TakeInput, TakeCommand,
       InputClosed, Close, RemoteEnded, Write, ErrWrite, ResizePty,
       TakeRemote, Stream, Cancelled, Finished
<1>3. CASE ServerStep
    BY <1>1, <1>3 DEF ServerStep, RemoteSend, LinkLost
<1>. QED  BY <1>2, <1>3 DEF BelowStep

(* Queueing an event keeps the count. *)
LEMMA ShownBelow ==
    ASSUME IInv, Attached, Listening, BelowStep, UNCHANGED uiVars, nShown \in Nat,
           nOut = nShown + Cardinality(PlacesOf(StreamEvent, events))
    PROVE  nOut' = nShown' + Cardinality(PlacesOf(StreamEvent, events))'
<1>1. events \in Seq(Event) /\ nShown' = nShown /\ ui # "exited"
    BY DEF IInv, TypeOK, uiVars, appVars, Listening
<1>2. Cardinality(PlacesOf(StreamEvent, events)) \in Nat
    BY <1>1, PlacesFinite
<1>3. CASE QueuesNone
    BY <1>1, <1>3 DEF QueuesNone
<1>4. ASSUME NEW e \in Event, Queues(e)
      PROVE  nOut' = nShown' + Cardinality(PlacesOf(StreamEvent, events))'
    <2>1. /\ events' = Append(events, e)
          /\ nOut' = IF e \in StreamEvent THEN nOut + 1 ELSE nOut
        BY <1>4 DEF Queues
    <2>2. Cardinality(PlacesOf(StreamEvent, Append(events, e)))
            = Cardinality(PlacesOf(StreamEvent, events))
              + (IF e \in StreamEvent THEN 1 ELSE 0)
        BY <1>1, PlacesAppend
    <2>3. Cardinality(PlacesOf(StreamEvent, events))'
            = Cardinality(PlacesOf(StreamEvent, Append(events, e)))
        BY <2>1 DEF PlacesOf
    <2>. QED  BY <1>1, <1>2, <2>1, <2>2, <2>3
<1>. QED  BY <1>1, <1>3, <1>4, BelowEvents

(* Taking an event shows it if it is one of the stream. *)
LEMMA ShownTake ==
    ASSUME IInv, TakeSession, nShown \in Nat,
           nOut = nShown + Cardinality(PlacesOf(StreamEvent, events))
    PROVE  nOut' = nShown' + Cardinality(PlacesOf(StreamEvent, events))'
<1>1. /\ NextEvent
      /\ nShown' = IF Head(events) \in StreamEvent THEN nShown + 1 ELSE nShown
    BY DEF TakeSession, Apply
<1>2. /\ events \in Seq(Event) /\ events # <<>> /\ events' = Tail(events)
      /\ nOut' = nOut /\ Tail(events) \in Seq(Event)
    BY <1>1, TakeEvent DEF IInv, TypeOK, NextEvent
<1>3. /\ Cardinality(PlacesOf(StreamEvent, events)) \in Nat
      /\ Cardinality(PlacesOf(StreamEvent, Tail(events))) \in Nat
    BY <1>2, PlacesFinite
<1>4. Cardinality(PlacesOf(StreamEvent, events))
        = Cardinality(PlacesOf(StreamEvent, Tail(events)))
          + (IF Head(events) \in StreamEvent THEN 1 ELSE 0)
    BY <1>2, PlacesTail
<1>5. Cardinality(PlacesOf(StreamEvent, events))'
        = Cardinality(PlacesOf(StreamEvent, Tail(events)))
    BY <1>2 DEF PlacesOf
<1>. QED  BY <1>1, <1>2, <1>3, <1>4, <1>5

(* The final event finds everything shown. *)
LEMMA ShownAtFinal ==
    ASSUME IInv, Attached, Listening, HeardInv, ShownInv, nShown \in Nat,
           TakeSession, Head(events) = "Final"
    PROVE  /\ pc' = "done"
           /\ why' \in {"remote_closed", "remote_ended"} => nShown' = nStream'
<1>1. /\ NextEvent
      /\ nShown' = IF Head(events) \in StreamEvent THEN nShown + 1 ELSE nShown
    BY DEF TakeSession, Apply
<1>2. /\ Len(events) \in Nat \ {0} /\ events[1] = "Final"
      /\ UNCHANGED <<nOut, why, nStream, pc>>
    BY <1>1, TakeEvent
<1>3. fin /\ Len(events) = 1
    <2>1. 1 \in 1..Len(events)
        BY <1>2
    <2>2. fin /\ 1 = Len(events)
        BY <1>2, <2>1 DEF HeardInv
    <2>. QED  BY <2>2
<1>4. pc = "done" /\ handle = "live"
    BY <1>3 DEF IInv, Attached, Listening, StreamInv
<1>5. "Final" \notin StreamEvent
    BY DEF StreamEvent
<1>6. nOut = nShown
    <2>1. PlacesOf(StreamEvent, events) = {}
        BY <1>2, <1>3, <1>5 DEF PlacesOf
    <2>2. Cardinality(PlacesOf(StreamEvent, events)) = 0
        BY <2>1, FS_EmptySet
    <2>. QED  BY <2>2 DEF ShownInv
<1>7. why \in {"remote_closed", "remote_ended"} => nOut = nStream
    BY <1>4 DEF IInv, NoOutputLost
<1>. QED  BY <1>1, <1>2, <1>4, <1>5, <1>6, <1>7

LEMMA ShownStep ==
    ASSUME ClientInv, ShownInv, [TuiNext]_tuiVars
    PROVE  ShownInv'
<1>0. /\ TuiTypeOK /\ IInv /\ Attached /\ nShown \in Nat
      /\ Listening => HeardInv /\ exitBy = "none"
    BY DEF ClientInv, TuiTypeOK
<1>. USE DEF Listening, EverythingShown
<1>1. CASE \/ \E e \in TermEvent : Type(e)
           \/ WindowChanges
           \/ UNCHANGED tuiVars
    <2>1. UNCHANGED <<ui, exitBy, nShown, vars>>
        BY <1>1 DEF Type, WindowChanges, tuiVars, uiVars, appVars
    <2>. QED  BY <2>1 DEF ShownInv, vars, PlacesOf
<1>2. CASE Setup \/ LoopTop \/ TakeTerminal \/ FinishSend
    <2>1. ui \notin {"leave", "exited"} /\ exitBy = "none"
        BY <1>0, <1>2 DEF Setup, LoopTop, TakeTerminal, FinishSend
    <2>2. exitBy' # "session"
        BY <1>2, <2>1 DEF Setup, LoopTop, TakeTerminal, FinishSend
    <2>3. Listening' => UNCHANGED <<events, nOut, nShown>>
        BY <1>2 DEF Setup, LoopTop, TakeTerminal, FinishSend, Sent, SendBytes,
           Resize, Disconnect, Enqueue, vars, streamVars, appVars
    <2>. QED  BY <2>1, <2>2, <2>3 DEF ShownInv, PlacesOf
<1>3. CASE TakeSession
    <2>1. ui = "run" /\ exitBy = "none"
        BY <1>0, <1>3 DEF TakeSession
    <2>2. CASE Head(events) = "Final"
        <3>1. ui' = "leave"
            BY <1>3, <2>2 DEF TakeSession
        <3>. QED
            BY <1>0, <1>3, <2>1, <2>2, <3>1, ShownAtFinal DEF ShownInv
    <2>3. CASE Head(events) # "Final"
        <3>1. exitBy' = "none"
            BY <1>3, <2>1, <2>3 DEF TakeSession
        <3>2. nOut' = nShown' + Cardinality(PlacesOf(StreamEvent, events))'
            BY <1>0, <1>3, <2>1, ShownTake DEF ShownInv
        <3>. QED  BY <3>1, <3>2 DEF ShownInv
    <2>. QED  BY <2>2, <2>3
<1>4. CASE Exit
    <2>1. UNCHANGED <<exitBy, nShown, pc, why, nStream>> /\ ui' = "exited"
        BY <1>4 DEF Exit, appVars, Drop, driverVars, countVars
    <2>. QED  BY <2>1 DEF ShownInv
<1>5. CASE BelowStep /\ UNCHANGED uiVars
    <2>1. UNCHANGED <<ui, exitBy, nShown>>
        BY <1>5 DEF uiVars, appVars
    <2>2. Listening' =>
              nOut' = nShown' + Cardinality(PlacesOf(StreamEvent, events))'
        BY <1>0, <1>5, <2>1, ShownBelow DEF ShownInv
    <2>3. exitBy = "session" => UNCHANGED <<pc, why, nStream>>
        BY <1>0, <1>5, DoneFrame DEF ShownInv
    <2>. QED  BY <2>1, <2>2, <2>3 DEF ShownInv
<1>. QED  BY <1>1, <1>2, <1>3, <1>4, <1>5 DEF TuiNext, UiStep

(* Everything the server sent before it closed is on the screen when the    *)
(* client leaves because the session ended (main.rs:250-258).               *)
THEOREM ShowsEverything == TuiSpec => []EverythingShown
<1>1. TuiInit => ShownInv
    <2>. SUFFICES ASSUME TuiInit PROVE ShownInv
        OBVIOUS
    <2>1. /\ nOut = 0 /\ nShown = 0 /\ events = <<>> /\ exitBy = "none"
        BY DEF TuiInit, Init
    <2>2. Cardinality(PlacesOf(StreamEvent, events)) = 0
        BY <2>1, PlacesEmpty
    <2>. QED  BY <2>1, <2>2 DEF ShownInv, EverythingShown
<1>2. ShownInv => EverythingShown
    BY DEF ShownInv
<1>. QED  BY <1>1, <1>2, ShownStep, ClientCorrect, PTL DEF TuiSpec

-----------------------------------------------------------------------------
(* The sizes of the local grid, the PTY and the window. *)

(* The size the local grid has, or is being given. *)
GivenGrid == IF ui = "send" /\ pend.kind = "resize" THEN pend.size ELSE localSize

(* The last resize of the keyboard's queue has the size of the window. *)
LastResize(q, s) ==
    \A i \in 1..Len(q) :
        /\ q[i].kind = "resize"
        /\ \A j \in (i + 1)..Len(q) : q[j].kind # "resize"
        => q[i].size = s

(* The session was last asked for the size of the local grid, and the last  *)
(* resize still on its way to the grid is the one of the window.            *)
GridInv ==
    /\ Listening /\ ~Finished => localSize = lastSize
    /\ Listening /\ ~unseen =>
         /\ ~Resizes(kbd) => GivenGrid = window
         /\ LastResize(kbd, window)

(* Queueing an event keeps the last resize, or is it. *)
LEMMA ResizeAppend ==
    ASSUME NEW q \in Seq(TermEvent), NEW e \in TermEvent, NEW s
    PROVE  /\ e.kind = "resize" => /\ LastResize(Append(q, e), e.size)
                                   /\ Resizes(Append(q, e))
           /\ e.kind # "resize" => /\ LastResize(q, s)
                                        => LastResize(Append(q, e), s)
                                   /\ Resizes(Append(q, e)) <=> Resizes(q)
<1>. DEFINE n == Len(q)
            r == Append(q, e)
<1>1. /\ n \in Nat /\ Len(r) = n + 1 /\ r[n + 1] = e
      /\ \A i \in 1..n : r[i] = q[i]
    BY AppendProperties, LenProperties
<1>. HIDE DEF n, r
<1>2. CASE e.kind = "resize"
    <2>1. Resizes(r)
        BY <1>1, <1>2 DEF Resizes
    <2>2. LastResize(r, e.size)
        BY <1>1, <1>2 DEF LastResize
    <2>. QED  BY <1>2, <2>1, <2>2 DEF r
<1>3. CASE e.kind # "resize"
    <2>1. Resizes(r) <=> Resizes(q)
        BY <1>1, <1>3 DEF Resizes, n
    <2>2. ASSUME LastResize(q, s), NEW i \in 1..Len(r), r[i].kind = "resize",
                 \A j \in (i + 1)..Len(r) : r[j].kind # "resize"
          PROVE  r[i].size = s
        <3>1. i \in 1..n /\ q[i].kind = "resize"
            BY <1>1, <1>3, <2>2
        <3>2. \A j \in (i + 1)..n : q[j].kind # "resize"
            BY <1>1, <2>2, <3>1
        <3>. QED  BY <1>1, <2>2, <3>1, <3>2 DEF LastResize, n
    <2>. QED  BY <1>3, <2>1, <2>2 DEF LastResize, r
<1>. QED  BY <1>2, <1>3

(* Taking an event keeps the last resize of the rest, or takes it. *)
LEMMA ResizeTail ==
    ASSUME NEW q \in Seq(TermEvent), q # <<>>, NEW s, LastResize(q, s)
    PROVE  /\ LastResize(Tail(q), s)
           /\ ~Resizes(Tail(q)) /\ Head(q).kind = "resize" => Head(q).size = s
           /\ ~Resizes(Tail(q)) /\ Head(q).kind # "resize" => ~Resizes(q)
<1>. DEFINE n == Len(q)
            t == Tail(q)
<1>1. /\ n \in Nat \ {0} /\ Len(t) = n - 1 /\ Head(q) = q[1]
      /\ \A i \in 1..(n - 1) : t[i] = q[i + 1]
    BY HeadTailProperties, LenProperties, EmptySeq
<1>. HIDE DEF n, t
<1>2. ASSUME NEW j \in 2..n
      PROVE  j - 1 \in 1..(n - 1) /\ (j - 1) + 1 = j /\ q[j] = t[j - 1]
    BY <1>1
<1>3. LastResize(t, s)
    <2>. SUFFICES ASSUME NEW i \in 1..(n - 1), t[i].kind = "resize",
                         \A j \in (i + 1)..(n - 1) : t[j].kind # "resize"
                  PROVE  t[i].size = s
        BY <1>1 DEF LastResize
    <2>1. i + 1 \in 1..n /\ q[i + 1] = t[i]
        BY <1>1
    <2>2. ASSUME NEW j \in (i + 1 + 1)..n PROVE q[j].kind # "resize"
        <3>1. j \in 2..n /\ j - 1 \in (i + 1)..(n - 1)
            BY <1>1, <2>2
        <3>. QED  BY <1>2, <3>1
    <2>. QED  BY <2>1, <2>2 DEF LastResize, n
<1>4. ASSUME ~Resizes(t), NEW j \in 2..n PROVE q[j].kind # "resize"
    BY <1>1, <1>2, <1>4 DEF Resizes
<1>5. ~Resizes(t) /\ q[1].kind = "resize" => q[1].size = s
    BY <1>1, <1>4 DEF LastResize, n
<1>6. ~Resizes(t) /\ q[1].kind # "resize" => ~Resizes(q)
    BY <1>1, <1>4 DEF Resizes, n
<1>. QED  BY <1>1, <1>3, <1>5, <1>6 DEF t

(* Below the client no size is asked for, and an ended driver stays ended.  *)
LEMMA BelowSizes ==
    ASSUME IInv, Attached, Listening, BelowStep
    PROVE  lastSize' = lastSize /\ (Finished => Finished')
<1>1. lastSize' = lastSize
    BY DEF WriteOk, WriteFail, WriteStep, BelowStep, DriverStep, ServerAnswer,
       ConnectAnswer, AuthAnswer, OpenAnswer, ConnectOk, ConnectFail, AuthOk,
       AuthFail, OpenOk, OpenFail, DiscOpen, Disc, NetStep, TellConnecting,
       ErrConnect, FailConnect, TellAuth, ErrOpen, FailOpen, TellOpen,
       ErrResize, TellEnd, TellFinal, Emit, TakeInput, TakeCommand,
       InputClosed, Close, RemoteEnded, Write, ErrWrite, ResizePty,
       TakeRemote, Stream, Cancelled, ServerStep, RemoteSend, LinkLost,
       countVars
<1>2. pc # "aborted"
    BY DEF IInv, AbortInv, Attached, Listening
<1>. QED  BY <1>1, <1>2, DoneFrame DEF Finished

LEMMA GridStep ==
    ASSUME ClientInv, GridInv, [TuiNext]_tuiVars
    PROVE  GridInv'
<1>0. TuiTypeOK /\ IInv /\ Attached /\ kbd \in Seq(TermEvent)
    BY DEF ClientInv, TuiTypeOK
<1>. USE DEF GridInv, Listening, Finished
<1>1. CASE \E e \in TermEvent : Type(e)
    <2>1. PICK e \in TermEvent : Type(e)
        BY <1>1
    <2>2. UNCHANGED <<ui, pend, localSize, lastSize, pc>>
        BY <2>1 DEF Type, vars
    <2>3. kbd' = Append(kbd, e)
        BY <2>1 DEF Type
    <2>4. CASE e.kind = "resize"
        <3>1. window' = e.size
            BY <2>1, <2>4 DEF Type
        <3>2. LastResize(kbd', window') /\ Resizes(kbd')
            BY <1>0, <2>3, <2>4, <3>1, ResizeAppend
        <3>. QED  BY <2>2, <3>2 DEF Resizes, LastResize
    <2>5. CASE e.kind # "resize"
        <3>1. UNCHANGED <<window, unseen>>
            BY <2>1, <2>5 DEF Type, windowVars
        <3>2. /\ LastResize(kbd, window) => LastResize(kbd', window)
              /\ Resizes(kbd') <=> Resizes(kbd)
            BY <1>0, <2>3, <2>5, ResizeAppend
        <3>3. GivenGrid' = GivenGrid
            BY <2>2 DEF GivenGrid
        <3>. QED  BY <2>2, <3>1, <3>2, <3>3 DEF Resizes, LastResize
    <2>. QED  BY <2>4, <2>5
<1>2. CASE WindowChanges
    <2>1. unseen' = TRUE /\ UNCHANGED <<ui, localSize, lastSize, pc>>
        BY <1>2 DEF WindowChanges, vars
    <2>. QED  BY <2>1
<1>3. CASE Setup \/ LoopTop
    <2>1. /\ ui \in {"setup", "top"} /\ ui' # "send"
          /\ UNCHANGED <<kbd, pend, localSize, window, unseen, lastSize, pc>>
        BY <1>3 DEF Setup, LoopTop, windowVars, vars, Drop, driverVars,
           countVars
    <2>2. GivenGrid' = GivenGrid
        BY <2>1 DEF GivenGrid
    <2>. QED  BY <2>1, <2>2 DEF Resizes, LastResize
<1>4. CASE TakeTerminal
    <2>1. /\ ui = "run" /\ kbd # <<>> /\ kbd' = Tail(kbd)
          /\ UNCHANGED <<localSize, window, unseen, lastSize, pc>>
          /\ ui' = "send" => pend' = Head(kbd)
          /\ Head(kbd).kind = "resize" => ui' = "send"
        BY <1>4 DEF TakeTerminal, windowVars, vars
    <2>2. GivenGrid' = IF Head(kbd).kind = "resize" THEN Head(kbd).size
                                                    ELSE localSize
        BY <2>1 DEF GivenGrid
    <2>3. GivenGrid = localSize
        BY <2>1 DEF GivenGrid
    <2>4. LastResize(kbd, window) =>
            /\ LastResize(kbd', window)
            /\ ~Resizes(kbd') /\ Head(kbd).kind = "resize"
                   => Head(kbd).size = window
            /\ ~Resizes(kbd') /\ Head(kbd).kind # "resize" => ~Resizes(kbd)
        BY <1>0, <2>1, ResizeTail
    <2>. QED  BY <2>1, <2>2, <2>3, <2>4 DEF Resizes, LastResize
<1>5. CASE FinishSend
    <2>1. ui = "send" /\ ui' # "send" /\ UNCHANGED <<kbd, pend, window, unseen>>
        BY <1>5 DEF FinishSend, windowVars
    <2>2. Listening' => localSize' = GivenGrid
        BY <1>5 DEF FinishSend, GivenGrid
    <2>3. Listening' /\ ~Finished' => localSize' = lastSize'
        BY <1>5 DEF FinishSend, Sent, SendBytes, Resize, Enqueue, driverVars,
           vars
    <2>4. GivenGrid' = localSize'
        BY <2>1 DEF GivenGrid
    <2>. QED  BY <2>1, <2>2, <2>3, <2>4 DEF Resizes, LastResize
<1>6. CASE TakeSession
    <2>1. /\ ui = "run" /\ ui' # "send"
          /\ UNCHANGED <<kbd, pend, localSize, window, unseen, lastSize, pc>>
        BY <1>6 DEF TakeSession, NextEvent, windowVars, driverVars, countVars
    <2>2. GivenGrid' = GivenGrid
        BY <2>1 DEF GivenGrid
    <2>. QED  BY <2>1, <2>2 DEF Resizes, LastResize
<1>7. CASE Exit
    BY <1>7 DEF Exit
<1>8. CASE BelowStep /\ UNCHANGED uiVars
    <2>1. UNCHANGED <<ui, pend, kbd, localSize, window, unseen>>
        BY <1>8 DEF uiVars, windowVars
    <2>2. Listening => lastSize' = lastSize /\ (Finished => Finished')
        BY <1>0, <1>8, BelowSizes
    <2>3. GivenGrid' = GivenGrid
        BY <2>1 DEF GivenGrid
    <2>. QED  BY <2>1, <2>2, <2>3 DEF Resizes, LastResize
<1>9. CASE UNCHANGED tuiVars
    BY <1>9 DEF tuiVars, uiVars, windowVars, vars, Resizes, LastResize,
       GivenGrid
<1>. QED
    BY <1>1, <1>2, <1>3, <1>4, <1>5, <1>6, <1>7, <1>8, <1>9 DEF TuiNext, UiStep

(* Local grid, remote PTY and window agree while the client is idle and     *)
(* nothing is queued (main.rs:64, 340-345).                                 *)
THEOREM GridsConverge == TuiSpec => []GridsAgree
<1>1. TuiInit => GridInv
    <2>. SUFFICES ASSUME TuiInit PROVE GridInv
        OBVIOUS
    <2>1. kbd = <<>> /\ localSize = InitSize /\ lastSize = InitSize
          /\ window = InitSize /\ ui = "setup"
        BY DEF TuiInit, Init
    <2>2. ~Resizes(kbd) /\ LastResize(kbd, window)
        BY <2>1, EmptySeq DEF Resizes, LastResize
    <2>. QED  BY <2>1, <2>2 DEF GridInv, GivenGrid
<1>2. GridInv /\ ResizeConverges => GridsAgree
    <2>. SUFFICES ASSUME GridInv, ResizeConverges, ui = "run" PROVE GridsAgree
        BY DEF GridsAgree
    <2>1. GivenGrid = localSize /\ Listening
        BY DEF GivenGrid, Listening
    <2>2. ~unseen /\ ~Resizes(kbd) => localSize = window
        BY <2>1 DEF GridInv
    <2>3. pc = "loop" /\ link = "up" /\ ~Resizes(input) => localSize = ptySize
        BY <2>1 DEF GridInv, ResizeConverges, Finished, Resizes
    <2>. QED  BY <2>2, <2>3 DEF GridsAgree
<1>. QED
    BY <1>1, <1>2, GridStep, ClientCorrect, RunsSession, SizesConverge, PTL
    DEF TuiSpec

=============================================================================
