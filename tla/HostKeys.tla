------------------------------ MODULE HostKeys ------------------------------
(***************************************************************************)
(* How tiny-ssh clients decide whether to trust the key of a server        *)
(* (ClientHandler::check_server_key, tiny-ssh-core/src/transport/ssh/      *)
(* client.rs).  Clients of one user run side by side and share two         *)
(* known_hosts files: OpenSSH's, which they only read, and tssh's own, to  *)
(* which they append.  Reading and appending are separate calls, and       *)
(* nothing locks the file in between.                                      *)
(*                                                                         *)
(* The records of one host are modelled: records of others never match.    *)
(***************************************************************************)

CONSTANTS
    Clients,        \* the connections opened in a behaviour
    Keys,           \* the keys the server may present
    Algorithm       \* the algorithm of each key

ASSUME AlgorithmAssumption == DOMAIN Algorithm = Keys

VARIABLES
    user,           \* the keys recorded in ~/.ssh/known_hosts
    own,            \* the keys recorded in tssh's known_hosts
    pc,             \* where each client is in check_server_key
    policy,         \* its HostKeyPolicy
    offered,        \* the key its server presents
    (* History variables *)
    known,          \* own, when the client began
    seen,           \* own, when the client looked the host up in it
    failed,         \* the clients that could not read tssh's file
    overlooked      \* a key was recorded on a lookup that missed a record

vars == <<user, own, pc, policy, offered, known, seen, failed, overlooked>>
historyVars == <<known, seen, failed, overlooked>>

Policies == {"AcceptOnFirst", "RejectUnknown", "AcceptAny"}

Refused == {"changed", "unknown"}

(* Two keys that cannot both be the host's. *)
Rival(k, j) == Algorithm[k] = Algorithm[j] /\ k # j

Consistent(records) == \A k, j \in records : ~Rival(k, j)

Changed(records, k) == \E j \in records : Rival(k, j)

(* russh_keys: a lookup matches or does not, or reports that the host has   *)
(* another key of the same algorithm (match or no match); it may also fail. *)
Lookup(records, k) ==
    IF Changed(records, k) THEN "changed"
    ELSE IF k \in records THEN "match" ELSE "none"

Init ==
    /\ user \in SUBSET Keys
    /\ own \in {S \in SUBSET Keys : Consistent(S)}
    /\ pc = [c \in Clients |-> "idle"]
    /\ policy \in [Clients -> Policies]
    /\ offered \in [Clients -> Keys]
    /\ known = [c \in Clients |-> {}]
    /\ seen = [c \in Clients |-> {}]
    /\ failed = {}
    /\ overlooked = FALSE

Goto(c, from, to) ==
    /\ pc[c] = from
    /\ pc' = [pc EXCEPT ![c] = to]

-----------------------------------------------------------------------------
(* check_server_key. *)

(* The key exchange calls the handler, which looks at its policy first.     *)
Begin(c) ==
    /\ Goto(c, "idle", IF policy[c] = "AcceptAny" THEN "accepted" ELSE "pass1")
    /\ known' = [known EXCEPT ![c] = own]
    /\ UNCHANGED <<user, own, policy, offered, seen, failed, overlooked>>

(* Faulty variant: a host OpenSSH does not know is refused at once. *)
CheckUserStrict(c) ==
    /\ \E found \in {Lookup(user, offered[c]), "error"} :
         Goto(c, "pass1", IF found = "match" THEN "accepted"
                          ELSE IF found = "changed" THEN "changed"
                          ELSE IF policy[c] = "RejectUnknown" THEN "unknown"
                          ELSE "pass2")
    /\ UNCHANGED <<user, own, policy, offered, historyVars>>

(* Pass 1: OpenSSH's file.  A file that cannot be read has no opinion. *)
CheckUser(c) ==
    /\ \E found \in {Lookup(user, offered[c]), "error"} :
         Goto(c, "pass1", IF found = "match" THEN "accepted"
                          ELSE IF found = "changed" THEN "changed"
                          ELSE "pass2")
    /\ UNCHANGED <<user, own, policy, offered, historyVars>>

(* Faulty variant: an unknown host is learnt under every policy. *)
OnUnknownLearn(c) == "learn"

(* An unknown host is learnt or refused, as the policy says. *)
OnUnknown(c) == IF policy[c] = "AcceptOnFirst" THEN "learn" ELSE "unknown"

(* Faulty variant: every error of the lookup means "not recorded". *)
AfterOwnAnyError(c, found) ==
    IF found = "match" THEN "accepted" ELSE OnUnknown(c)

(* Faulty variant: a file that cannot be read is taken for a match. *)
AfterOwnOpen(c, found) ==
    IF found \in {"match", "error"} THEN "accepted"
    ELSE IF found = "changed" THEN "changed"
    ELSE OnUnknown(c)

(* Where pass 2 leads. *)
AfterOwn(c, found) ==
    IF found = "match" THEN "accepted"
    ELSE IF found = "changed" THEN "changed"
    ELSE OnUnknown(c)

(* Pass 2: tssh's own file. *)
CheckOwn(c) ==
    /\ \/ /\ Goto(c, "pass2", AfterOwn(c, Lookup(own, offered[c])))
          /\ seen' = [seen EXCEPT ![c] = own]
          /\ UNCHANGED failed
       \/ /\ Goto(c, "pass2", AfterOwn(c, "error"))
          /\ failed' = failed \cup {c}
          /\ UNCHANGED seen
    /\ UNCHANGED <<user, own, policy, offered, known, overlooked>>

(* The key is appended to the file; if that fails the client goes on.       *)
Learn(c) ==
    /\ Goto(c, "learn", "accepted")
    /\ \/ /\ own' = own \cup {offered[c]}
          /\ overlooked' = \/ overlooked
                            \/ Changed(own \ seen[c], offered[c])
       \/ UNCHANGED <<own, overlooked>>
    /\ UNCHANGED <<user, policy, offered, known, seen, failed>>

(* OpenSSH records a key of the host (external). *)
UserTrusts(k) ==
    /\ user' = user \cup {k}
    /\ UNCHANGED <<own, pc, policy, offered, historyVars>>

Next ==
    \/ \E c \in Clients : Begin(c) \/ CheckUser(c) \/ CheckOwn(c) \/ Learn(c)
    \/ \E k \in Keys : UserTrusts(k)

Spec == Init /\ [][Next]_vars

-----------------------------------------------------------------------------
(* Properties. *)

(* Type invariant; only a client that accepts on first use records a key. *)
TypeOK ==
    /\ user \in SUBSET Keys /\ own \in SUBSET Keys
    /\ pc \in [Clients -> {"idle", "pass1", "pass2", "learn", "accepted"}
                          \cup Refused]
    /\ policy \in [Clients -> Policies]
    /\ \A c \in Clients : pc[c] = "learn" => policy[c] = "AcceptOnFirst"
    /\ offered \in [Clients -> Keys]
    /\ known \in [Clients -> SUBSET Keys]
    /\ seen \in [Clients -> SUBSET Keys]
    /\ failed \in SUBSET Clients
    /\ overlooked \in BOOLEAN

(* RejectUnknown lets nobody in whose key is not recorded in either file,   *)
(* even while the files change or cannot be read (config.rs:13).            *)
OnlyTrusted ==
    \A c \in Clients :
        pc[c] = "accepted" /\ policy[c] = "RejectUnknown"
            => offered[c] \in user \cup own

(* tssh's file never holds two rival keys of the host, unless a client      *)
(* recorded one without having seen the other: the file could not be read,  *)
(* or another client appended in between (client.rs:185-208).               *)
RecordsConsistent == Consistent(own) \/ overlooked

(* Trust on first use: a connection begun after a key was recorded gets in  *)
(* with no other key of its algorithm, unless the user trusts that key too  *)
(* or the file could not be read.  Where the file holds two rivals nobody   *)
(* gets in on it, with either (config.rs:10-11).                            *)
SubsequentMatch ==
    \A c \in Clients :
        /\ pc[c] = "accepted"
        /\ policy[c] # "AcceptAny"
        /\ c \notin failed
        => offered[c] \in user \/ ~Changed(known[c], offered[c])

(* A recorded key is never refused afterwards, unless a rival of it was     *)
(* recorded unseen or is in the user's file, or the file could not be read. *)
NoFalseAlarm ==
    \A c \in Clients :
        pc[c] \in Refused /\ offered[c] \in known[c]
            => overlooked \/ c \in failed \/ Changed(user, offered[c])
=============================================================================
