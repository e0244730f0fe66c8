----------------------------- MODULE DccProofs -----------------------------
(***************************************************************************)
(* Proofs about Dcc, for every set of durations, every length of a minute  *)
(* and every number of seconds a pass may report.                          *)
(***************************************************************************)
EXTENDS Dcc, TLAPS

\* The reference clock never runs past the grant, and with it the status and
\* the countdown are determined by the last acknowledged request.
IInv == TypeOK /\ age <= granted /\ DisabledAsGranted

LEMMA InitIInv == Init => IInv
  BY DccAssumption DEF Init, IInv, TypeOK, Statuses, DisabledAsGranted

\* A minute count turns into seconds that are again a natural number.
LEMMA GrantIsNat ==
  ASSUME NEW m \in Minutes
  PROVE  m * SecondsPerMinute \in Nat
  <1>1. m \in Nat /\ SecondsPerMinute \in Nat BY DccAssumption
  <1> QED BY <1>1

\* What a request asks for is well-typed, also when it is empty.
LEMMA AskedType ==
  ASSUME NEW r \in DccRequest, Asked(r).state # "unknown"
  PROVE  /\ Asked(r).state \in Statuses
         /\ Asked(r).minutes * SecondsPerMinute \in Nat
  <1>1. CASE r.decodes = "empty"
    BY <1>1, DccAssumption DEF Asked, Statuses
  <1>2. CASE r.decodes # "empty"
    <2>1. r.minutes \in Minutes /\ r.state \in Statuses \cup {"unknown"}
      BY DEF DccRequest
    <2>2. r.minutes * SecondsPerMinute \in Nat BY <2>1, GrantIsNat
    <2> QED BY <1>2, <2>1, <2>2 DEF Asked
  <1> QED BY <1>1, <1>2

LEMMA AcceptKeepsIInv ==
  ASSUME IInv, NEW r \in DccRequest, Accept(r)
  PROVE  IInv'
  <1> DEFINE st == Asked(r).state
             secs == Asked(r).minutes * SecondsPerMinute
  <1>1. st \in Statuses /\ secs \in Nat BY AskedType DEF Accept
  <1>2. /\ enable' = st /\ duration' = IF st = "enable" THEN 0 ELSE secs
        /\ reply' = "ack" /\ wanted' = st /\ granted' = secs /\ age' = 0
    BY DEF Accept, SetStatusDuration, Answer
  <1> HIDE DEF st, secs
  <1> QED BY <1>1, <1>2 DEF IInv, TypeOK, DisabledAsGranted

LEMMA RefuseKeepsIInv ==
  ASSUME IInv, NEW r \in DccRequest, Refuse(r)
  PROVE  IInv'
  BY DEF IInv, TypeOK, DisabledAsGranted, Refuse, Answer

LEMMA TimerKeepsIInv ==
  ASSUME IInv, NEW s \in Elapsed, TimerSeconds(s)
  PROVE  IInv'
  <1>1. s \in Nat /\ s # 0 BY DccAssumption
  <1>2. CASE duration = 0
    BY <1>1, <1>2 DEF IInv, TypeOK, DisabledAsGranted, TimerSeconds, state, Statuses
  <1>3. CASE duration # 0
    <2>1. /\ wanted # "enable" /\ duration = granted - age /\ enable = wanted
          /\ age < granted
      BY <1>3 DEF IInv, TypeOK, DisabledAsGranted
    <2>2. CASE duration > s
      BY <1>1, <1>3, <2>1, <2>2
      DEF IInv, TypeOK, DisabledAsGranted, TimerSeconds, CountDown
    <2>3. CASE ~(duration > s)
      BY <1>1, <1>3, <2>1, <2>3
      DEF IInv, TypeOK, DisabledAsGranted, TimerSeconds, CountDown, Statuses
    <2> QED BY <2>2, <2>3
  <1> QED BY <1>2, <1>3

LEMMA NextKeepsIInv == IInv /\ [Next]_vars => IInv'
  <1> SUFFICES ASSUME IInv, [Next]_vars PROVE IInv' OBVIOUS
  <1>1. CASE Next
    BY <1>1, AcceptKeepsIInv, RefuseKeepsIInv, TimerKeepsIInv DEF Next, Control
  <1>2. CASE UNCHANGED vars
    BY <1>2 DEF vars, IInv, TypeOK, DisabledAsGranted
  <1> QED BY <1>1, <1>2

\* The invariant holds in every state: status and countdown are at any time what
\* the last acknowledged request and the seconds reported since make them.
THEOREM GrantTheorem == Spec => []DisabledAsGranted
  <1>1. IInv => DisabledAsGranted BY DEF IInv
  <1> QED BY <1>1, InitIInv, NextKeepsIInv, PTL DEF Spec

\* Every variable keeps its type; the countdown never falls below zero.
THEOREM TypeTheorem == Spec => []TypeOK
  <1>1. IInv => TypeOK BY DEF IInv
  <1> QED BY <1>1, InitIInv, NextKeepsIInv, PTL DEF Spec

\* No countdown runs while communication is enabled, so none can end a disable
\* that a later request starts.
THEOREM CountdownTheorem == Spec => []CountdownOnlyWhileDisabled
  <1>1. IInv => CountdownOnlyWhileDisabled
    BY DEF IInv, TypeOK, DisabledAsGranted, CountdownOnlyWhileDisabled,
           CommunicationEnabled
  <1> QED BY <1>1, InitIInv, NextKeepsIInv, PTL DEF Spec

\* Only an acknowledged request disables communication, and then the way that
\* request asked; the timer and the refused requests never do.
THEOREM AcknowledgedTheorem == Spec => OnlyAcknowledgedDisables
  <1> DEFINE P == ~CommunicationEnabled' /\ enable' # enable
                    => reply' = "ack" /\ wanted' = enable'
  <1>1. [Next]_vars => [P]_vars
    <2> SUFFICES ASSUME Next PROVE P OBVIOUS
    <2>1. CASE \E r \in DccRequest : Control(r)
      BY <2>1 DEF Control, Accept, Refuse, SetStatusDuration, Answer
    <2>2. CASE \E s \in Elapsed : TimerSeconds(s)
      BY <2>2 DEF TimerSeconds, CommunicationEnabled, state
    <2> QED BY <2>1, <2>2 DEF Next
  <1> QED BY <1>1, PTL DEF Spec, OnlyAcknowledgedDisables
=============================================================================
