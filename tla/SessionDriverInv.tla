-------------------------- MODULE SessionDriverInv --------------------------
(***************************************************************************)
(* The inductive invariant of SessionDriver: what holds between the awaits *)
(* of the driver, strong enough to be preserved by every step on its own.  *)
(* SessionDriverProofs proves it, TLC checks it on the small instance.     *)
(***************************************************************************)
EXTENDS SessionDriver, FiniteSets

PreOpen == pc \in {"tell_connecting", "connect", "auth", "tell_auth", "open"}

(* The loop is running: a write or resize may be in progress. *)
Looping == pc \in {"loop", "write", "resize", "err_resize", "close", "stream"}

(* What the driver holds while it is in the middle of a branch. *)
InHand ==
    /\ pc = "stream" => msg \in StreamMsg
    /\ why # "none" => pc \in {"disc", "tell_end", "final", "done", "aborted"}
    /\ pc \in {"disc", "tell_end"} => why # "none"
    /\ pc = "done" => link # "up"

(* Only a dropped handle has aborted its driver, and wait() keeps its own. *)
AbortInv ==
    /\ join = "awaited" => handle = "live"
    /\ join = "aborted" => handle = "dropped"
    /\ pc = "aborted" => handle = "dropped"

(* Where the event stream is, for a handle that still listens. *)
StreamInv ==
    /\ pc = "tell_connecting" => phase = "none"
    /\ pc \in {"connect", "auth", "err_connect", "fail_connect", "tell_auth"}
         => phase = "Connecting"
    /\ pc \in {"open", "err_open", "fail_open", "tell_open"}
         => phase = "Authenticated"
    /\ Looping \/ pc \in {"err_write", "disc", "tell_end"} => phase = "ShellOpen"
    /\ pc = "disc_open" => phase = "Failed"
    /\ pc \in {"final", "done"} => phase \in {"Failed", "Closed"}
    /\ phase \in {"none", "Connecting", "Authenticated"}
         => (reported <=> pc \in {"fail_connect", "fail_open"})
    /\ fin <=> pc = "done"

(* The connection goes down before the end is announced, and stays down. *)
LinkInv ==
    /\ phase = "Closed" \/ fin => pc \in {"final", "done", "aborted"}
    /\ pc \in {"tell_connecting", "connect", "err_connect", "fail_connect",
               "tell_end", "final", "done", "aborted"} => link # "up"

(* Chunk c follows n accepted chunks. *)
Follows(c, n) == c.n = IF c.kind = "bytes" THEN n + 1 ELSE n

(* Chunks handed to the channel, the one being written included. *)
Handed == IF pc = "write" THEN nWritten + 1 ELSE nWritten

(* The queued commands are numbered from there to the last accepted one. *)
OrderInv ==
    /\ pc = "write" => cmd.n = nWritten + 1
    /\ pc = "close" => cmd.n = nWritten
    /\ PreOpen \/ pc = "tell_open" \/ Looping =>
         /\ input = <<>> => nBytes = Handed
         /\ input # <<>> => /\ Follows(input[1], Handed)
                            /\ input[Len(input)].n = nBytes
         /\ \A i \in 1..(Len(input) - 1) : Follows(input[i + 1], input[i].n)

(* The size the PTY has, or is being given. *)
GivenSize == IF pc = "resize" THEN cmd.size ELSE ptySize

(* The size after the last queued resize is the one last requested. *)
SizeInv ==
    /\ PreOpen => ptySize = InitSize
    /\ PreOpen \/ ((pc = "tell_open" \/ Looping) /\ link = "up") =>
         /\ (\A j \in 1..Len(input) : input[j].kind # "resize")
              => lastSize = GivenSize
         /\ \A i \in 1..Len(input) :
              (\A j \in (i + 1)..Len(input) : input[j].kind # "resize")
                  => lastSize = input[i].size

(* Where the members of a set stand in a queue. *)
PlacesOf(M, q) == {i \in 1..Len(q) : q[i] \in M}

StreamIn(q) == PlacesOf(StreamMsg, q)

(* Messages received are forwarded, in hand or queued; close comes last. *)
OutputInv ==
    /\ handle = "live" /\ why = "none" =>
         nStream = nOut + Cardinality(StreamIn(rq))
                        + (IF pc = "stream" THEN 1 ELSE 0)
    /\ PreOpen => remote = "idle" /\ rq = <<>>
    /\ \A i \in 1..Len(rq) :
         rq[i] = "close" => i = Len(rq) /\ remote = "closed"

IInv ==
    /\ TypeOK
    /\ InHand
    /\ AbortInv
    /\ handle = "live" => StreamInv
    /\ LinkInv
    /\ OrderInv
    /\ SizeInv
    /\ OutputInv
    /\ FlushBeforeClose
    /\ NoOutputLost
=============================================================================
