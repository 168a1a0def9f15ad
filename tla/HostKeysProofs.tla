--------------------------- MODULE HostKeysProofs ---------------------------
(***************************************************************************)
(* The properties of HostKeys, proved for every set of clients, keys and   *)
(* algorithms.                                                             *)
(***************************************************************************)
EXTENDS HostKeys, TLAPS

(* What a client knows about the file: records are never removed, a client  *)
(* that has looked saw at least what was there when it began, and one about *)
(* to record a key saw no rival of it.                                      *)
LookupInv ==
    \A c \in Clients :
        /\ known[c] \subseteq own
        /\ seen[c] \subseteq own
        /\ pc[c] \in {"idle", "pass1", "pass2"} => seen[c] = {}
        /\ pc[c] = "learn" =>
             /\ ~Changed(seen[c], offered[c])
             /\ c \notin failed => known[c] \subseteq seen[c]

IInv == TypeOK /\ LookupInv /\ OnlyTrusted /\ RecordsConsistent
               /\ SubsequentMatch /\ NoFalseAlarm

-----------------------------------------------------------------------------

(* More records can only add rivals. *)
LEMMA ChangedMonotone ==
    ASSUME NEW S, NEW T, S \subseteq T, NEW k, Changed(S, k)
    PROVE  Changed(T, k)
BY DEF Changed

(* Rivalry is symmetric, and a key is no rival of itself: a key without a   *)
(* rival among consistent records can join them.                            *)
LEMMA ConsistentExtended ==
    ASSUME NEW S, NEW k, Consistent(S), ~Changed(S, k)
    PROVE  Consistent(S \cup {k})
BY DEF Consistent, Changed, Rival

LEMMA ConsistentMember ==
    ASSUME NEW S, NEW k \in S, Consistent(S)
    PROVE  ~Changed(S, k)
BY DEF Consistent, Changed, Rival

LEMMA InitInv == Init => IInv
BY DEF Init, IInv, TypeOK, LookupInv, OnlyTrusted, RecordsConsistent,
       SubsequentMatch, NoFalseAlarm, Refused, Policies

LEMMA TypeStep == TypeOK /\ [Next]_vars => TypeOK'
<1> SUFFICES ASSUME TypeOK, [Next]_vars PROVE TypeOK' OBVIOUS
<1> USE DEF TypeOK, Goto, Refused
<1>1. ASSUME NEW c \in Clients, Begin(c) PROVE TypeOK'
  BY <1>1 DEF Begin
<1>2. ASSUME NEW c \in Clients, CheckUser(c) PROVE TypeOK'
  BY <1>2 DEF CheckUser, historyVars
<1>3. ASSUME NEW c \in Clients, CheckOwn(c) PROVE TypeOK'
  BY <1>3 DEF CheckOwn, AfterOwn, OnUnknown
<1>4. ASSUME NEW c \in Clients, Learn(c) PROVE TypeOK'
  BY <1>4 DEF Learn
<1>5. ASSUME NEW k \in Keys, UserTrusts(k) PROVE TypeOK'
  BY <1>5 DEF UserTrusts, historyVars
<1>6. CASE UNCHANGED vars
  BY <1>6 DEF vars
<1> QED BY <1>1, <1>2, <1>3, <1>4, <1>5, <1>6 DEF Next

(* A step of one client leaves the others where they are. *)
LEMMA OthersStay ==
    ASSUME TypeOK, NEW c \in Clients, NEW d \in Clients, d # c,
           NEW from, NEW to, Goto(c, from, to)
    PROVE  pc'[d] = pc[d]
BY DEF TypeOK, Goto

LEMMA LookupStep == IInv /\ [Next]_vars => LookupInv'
<1> SUFFICES ASSUME TypeOK, LookupInv, [Next]_vars, NEW d \in Clients
             PROVE  LookupInv!(d)'
  BY DEF IInv, LookupInv
<1> USE DEF TypeOK, LookupInv, Goto
<1>1. ASSUME NEW c \in Clients, Begin(c) PROVE LookupInv!(d)'
  BY <1>1 DEF Begin
<1>2. ASSUME NEW c \in Clients, CheckUser(c) PROVE LookupInv!(d)'
  BY <1>2 DEF CheckUser, historyVars
<1>3. ASSUME NEW c \in Clients, CheckOwn(c) PROVE LookupInv!(d)'
  <2>1. ~Changed({}, offered[c]) BY DEF Changed
  <2> QED BY <1>3, <2>1 DEF CheckOwn, AfterOwn, OnUnknown, Lookup
<1>4. ASSUME NEW c \in Clients, Learn(c) PROVE LookupInv!(d)'
  BY <1>4 DEF Learn
<1>5. ASSUME NEW k \in Keys, UserTrusts(k) PROVE LookupInv!(d)'
  BY <1>5 DEF UserTrusts, historyVars
<1>6. CASE UNCHANGED vars
  BY <1>6 DEF vars
<1> QED BY <1>1, <1>2, <1>3, <1>4, <1>5, <1>6 DEF Next

(* RejectUnknown: a client is let in on a record of either file, and records *)
(* are never removed.                                                        *)
LEMMA TrustedStep == IInv /\ [Next]_vars => OnlyTrusted'
<1> SUFFICES ASSUME TypeOK, LookupInv, OnlyTrusted, [Next]_vars,
                    NEW d \in Clients,
                    pc'[d] = "accepted", policy'[d] = "RejectUnknown"
             PROVE  offered'[d] \in user' \cup own'
  BY DEF IInv, OnlyTrusted
<1> USE DEF TypeOK, LookupInv, OnlyTrusted, Goto
<1>1. ASSUME NEW c \in Clients, Begin(c) PROVE offered'[d] \in user' \cup own'
  BY <1>1 DEF Begin
<1>2. ASSUME NEW c \in Clients, CheckUser(c)
      PROVE  offered'[d] \in user' \cup own'
  BY <1>2 DEF CheckUser, historyVars, Lookup
<1>3. ASSUME NEW c \in Clients, CheckOwn(c)
      PROVE  offered'[d] \in user' \cup own'
  BY <1>3 DEF CheckOwn, AfterOwn, OnUnknown, Lookup
<1>4. ASSUME NEW c \in Clients, Learn(c) PROVE offered'[d] \in user' \cup own'
  BY <1>4 DEF Learn
<1>5. ASSUME NEW k \in Keys, UserTrusts(k)
      PROVE  offered'[d] \in user' \cup own'
  BY <1>5 DEF UserTrusts, historyVars
<1>6. CASE UNCHANGED vars
  BY <1>6 DEF vars
<1> QED BY <1>1, <1>2, <1>3, <1>4, <1>5, <1>6 DEF Next

(* Only Learn changes the file; a rival it adds was in the part not seen.   *)
LEMMA RecordsStep == IInv /\ [Next]_vars => RecordsConsistent'
<1> SUFFICES ASSUME TypeOK, LookupInv, RecordsConsistent, [Next]_vars
             PROVE  RecordsConsistent'
  BY DEF IInv
<1>1. ASSUME NEW c \in Clients, Learn(c) PROVE RecordsConsistent'
  <2>1. CASE UNCHANGED <<own, overlooked>>
    BY <2>1 DEF RecordsConsistent
  <2>2. CASE overlooked' = (overlooked \/ Changed(own \ seen[c], offered[c]))
             /\ own' = own \cup {offered[c]}
    <3>1. CASE overlooked \/ Changed(own \ seen[c], offered[c])
      BY <2>2, <3>1 DEF RecordsConsistent
    <3>2. CASE ~overlooked /\ ~Changed(own \ seen[c], offered[c])
      <4>1. ~Changed(seen[c], offered[c])
        BY <1>1 DEF Learn, Goto, LookupInv
      <4>2. ~Changed(own, offered[c])
        BY <3>2, <4>1 DEF Changed
      <4>3. Consistent(own)
        BY <3>2 DEF RecordsConsistent
      <4>4. Consistent(own')
        BY <2>2, <4>2, <4>3, ConsistentExtended
      <4> QED BY <4>4 DEF RecordsConsistent
    <3> QED BY <3>1, <3>2
  <2> QED BY <1>1, <2>1, <2>2 DEF Learn
<1>2. ASSUME UNCHANGED <<own, overlooked>> PROVE RecordsConsistent'
  BY <1>2 DEF RecordsConsistent
<1> QED
  BY <1>1, <1>2 DEF Next, Begin, CheckUser, CheckOwn, UserTrusts, historyVars,
                    vars

(* A client that gets in on tssh's file saw every record there was when it  *)
(* began, and no rival among them.                                          *)
LEMMA MatchStep == IInv /\ [Next]_vars => SubsequentMatch'
<1> SUFFICES ASSUME TypeOK, LookupInv, SubsequentMatch, [Next]_vars,
                    NEW d \in Clients, pc'[d] = "accepted",
                    policy'[d] # "AcceptAny", d \notin failed'
             PROVE  offered'[d] \in user' \/ ~Changed(known'[d], offered'[d])
  BY DEF IInv, SubsequentMatch
<1> DEFINE Goal == offered'[d] \in user' \/ ~Changed(known'[d], offered'[d])
<1> USE DEF TypeOK, LookupInv, SubsequentMatch, Goto
<1>1. ASSUME NEW c \in Clients, Begin(c) PROVE Goal
  BY <1>1 DEF Begin
<1>2. ASSUME NEW c \in Clients, CheckUser(c) PROVE Goal
  BY <1>2 DEF CheckUser, historyVars, Lookup
<1>3. ASSUME NEW c \in Clients, CheckOwn(c) PROVE Goal
  <2>1. ~Changed(own, offered[d]) => ~Changed(known[d], offered[d])
    BY ChangedMonotone
  <2> QED BY <1>3, <2>1 DEF CheckOwn, AfterOwn, OnUnknown, Lookup
<1>4. ASSUME NEW c \in Clients, Learn(c) PROVE Goal
  <2>1. c \notin failed => ~Changed(known[c], offered[c])
    BY <1>4, ChangedMonotone DEF Learn
  <2> QED BY <1>4, <2>1 DEF Learn
<1>5. ASSUME NEW k \in Keys, UserTrusts(k) PROVE Goal
  BY <1>5 DEF UserTrusts, historyVars
<1>6. CASE UNCHANGED vars
  BY <1>6 DEF vars
<1> QED BY <1>1, <1>2, <1>3, <1>4, <1>5, <1>6 DEF Next

(* A recorded key among consistent records has no rival, so the lookup      *)
(* matches.                                                                 *)
LEMMA AlarmStep == IInv /\ [Next]_vars => NoFalseAlarm'
<1> SUFFICES ASSUME TypeOK, LookupInv, RecordsConsistent, NoFalseAlarm,
                    [Next]_vars, NEW d \in Clients, pc'[d] \in Refused,
                    offered'[d] \in known'[d]
             PROVE  overlooked' \/ d \in failed' \/ Changed(user', offered'[d])
  BY DEF IInv, NoFalseAlarm
<1> DEFINE Goal == overlooked' \/ d \in failed' \/ Changed(user', offered'[d])
<1> USE DEF TypeOK, LookupInv, NoFalseAlarm, Goto, Refused
<1>1. ASSUME NEW c \in Clients, Begin(c) PROVE Goal
  BY <1>1 DEF Begin
<1>2. ASSUME NEW c \in Clients, CheckUser(c) PROVE Goal
  BY <1>2 DEF CheckUser, historyVars, Lookup
<1>3. ASSUME NEW c \in Clients, CheckOwn(c) PROVE Goal
  <2>1. Consistent(own) /\ offered[d] \in own => ~Changed(own, offered[d])
    BY ConsistentMember
  <2> QED
    BY <1>3, <2>1 DEF CheckOwn, AfterOwn, OnUnknown, Lookup, RecordsConsistent
<1>4. ASSUME NEW c \in Clients, Learn(c) PROVE Goal
  BY <1>4 DEF Learn
<1>5. ASSUME NEW k \in Keys, UserTrusts(k) PROVE Goal
  <2>1. Changed(user, offered[d]) => Changed(user', offered[d])
    BY <1>5, ChangedMonotone DEF UserTrusts
  <2> QED BY <1>5, <2>1 DEF UserTrusts, historyVars
<1>6. CASE UNCHANGED vars
  BY <1>6 DEF vars
<1> QED BY <1>1, <1>2, <1>3, <1>4, <1>5, <1>6 DEF Next

-----------------------------------------------------------------------------

(* The invariant holds in every reachable state.                            *)
THEOREM HostKeysInductive == Spec => []IInv
<1>1. IInv /\ [Next]_vars => IInv'
  BY TypeStep, LookupStep, TrustedStep, RecordsStep, MatchStep, AlarmStep
  DEF IInv
<1> QED BY InitInv, <1>1, PTL DEF Spec

(* Under RejectUnknown only recorded keys are let in (config.rs:13).        *)
THEOREM RejectsUnknown == Spec => []OnlyTrusted
<1>1. IInv => OnlyTrusted BY DEF IInv
<1> QED BY <1>1, HostKeysInductive, PTL

(* Rival keys are only recorded by clients that did not see one another.    *)
THEOREM KeepsRecordsConsistent == Spec => []RecordsConsistent
<1>1. IInv => RecordsConsistent BY DEF IInv
<1> QED BY <1>1, HostKeysInductive, PTL

(* A key recorded before a connection began is the one it must match.       *)
THEOREM LaterConnectsMatch == Spec => []SubsequentMatch
<1>1. IInv => SubsequentMatch BY DEF IInv
<1> QED BY <1>1, HostKeysInductive, PTL

(* A recorded key is refused only for the listed reasons.                   *)
THEOREM AlarmsAreTrue == Spec => []NoFalseAlarm
<1>1. IInv => NoFalseAlarm BY DEF IInv
<1> QED BY <1>1, HostKeysInductive, PTL

(* Types of the two files and of every connection (config.rs:6-16,          *)
(* client.rs:145-215).                                                      *)
THEOREM HostKeysTypeCorrect == Spec => []TypeOK
<1>1. IInv => TypeOK BY DEF IInv
<1> QED BY <1>1, HostKeysInductive, PTL
=============================================================================
