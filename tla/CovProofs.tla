----------------------------- MODULE CovProofs -----------------------------
(***************************************************************************)
(* Proofs about Cov, for every size of the list, any processes, objects,   *)
(* lifetimes and elapsed times.                                            *)
(*                                                                         *)
(* The walk of the task keeps the list's rules entry by entry: what it     *)
(* does to an entry is Visited, and no rule relates two entries but that   *)
(* of the keys, which no visit changes.  That subscribers know their       *)
(* values holds where it does not matter that the first entry of an object *)
(* takes the change flag down for all: where no two entries are for one    *)
(* object.                                                                 *)
(***************************************************************************)
EXTENDS Cov, NumberFacts

LiveSubscription(s) ==
    /\ s.process \in Processes /\ s.object \in Objects
    /\ s.dest \in Addresses /\ s.confirmed \in Confirmed

\* An entry that was never used names no object; a live one does.
Subscription ==
    [ valid : BOOLEAN, dest : Addresses \cup {Nothing}, process : Processes \cup {0},
      object : Objects \cup {Nothing}, confirmed : BOOLEAN, lifetime : Nat, send : BOOLEAN ]

ListOK ==
    /\ subs \in [Entries -> Subscription]
    /\ \A i \in Entries : subs[i].valid => LiveSubscription(subs[i])
    /\ cursor \in 0 .. MaxSubscriptions
    /\ elapsed \in Nat
    /\ granted \in [Entries -> Nat] /\ age \in [Entries -> Nat]
    /\ \A i \in Entries : age[i] <= granted[i]

IInv == ListOK /\ NoDuplicates /\ LifetimeHonoured

-----------------------------------------------------------------------------
LEMMA InitIInv == Init => IInv
  <1> SUFFICES ASSUME Init PROVE IInv OBVIOUS
  <1>1. EmptySubscription \in Subscription BY DEF EmptySubscription, Subscription
  <1>2. subs \in [Entries -> Subscription] BY <1>1 DEF Init
  <1>3. \A i \in Entries : ~subs[i].valid BY DEF Init, EmptySubscription
  <1> QED BY <1>2, <1>3, CovAssumption DEF Init, IInv, ListOK, NoDuplicates, LifetimeHonoured

\* The first entry of a set of them.
LEMMA LowestIsIn ==
  ASSUME NEW S \in SUBSET Entries, S # {}
  PROVE  Lowest(S) \in S
  <1>1. S \in SUBSET Nat BY CovAssumption DEF Entries
  <1>2. \E i \in S : \A j \in S : i <= j BY <1>1, LeastExists
  <1> QED BY <1>2 DEF Lowest

-----------------------------------------------------------------------------
\* A request enters an entry that no other live entry competes with.
LEMMA EnterIInv ==
  ASSUME IInv, NEW src \in Addresses, NEW d \in SubscribeData, NEW i \in Entries,
         \A j \in Entries \ {i} : subs[j].valid => Key(j) # <<d.process, d.object>>,
         Enter(i, src, d), UNCHANGED <<cursor, elapsed>>
  PROVE  IInv'
  <1> DEFINE r == Record(src, d)
  <1>1. /\ d.process \in Processes /\ d.object \in Objects
        /\ d.confirmed \in Confirmed /\ d.confirmed \in BOOLEAN /\ d.lifetime \in Nat
    BY CovAssumption DEF SubscribeData
  <1>2. /\ r \in Subscription /\ LiveSubscription(r) /\ r.valid
        /\ r.process = d.process /\ r.object = d.object /\ r.lifetime = d.lifetime
    BY <1>1 DEF Record, Subscription, LiveSubscription
  <1> HIDE DEF r
  <1>3. /\ subs' = [subs EXCEPT ![i] = r]
        /\ granted' = [granted EXCEPT ![i] = d.lifetime] /\ age' = [age EXCEPT ![i] = 0]
    BY DEF Enter, r
  <1>4. /\ subs \in [Entries -> Subscription]
        /\ granted \in [Entries -> Nat] /\ age \in [Entries -> Nat]
    BY DEF IInv, ListOK
  <1>5. /\ subs' \in [Entries -> Subscription]
        /\ granted' \in [Entries -> Nat] /\ age' \in [Entries -> Nat]
    BY <1>1, <1>2, <1>3, <1>4
  <1>6. /\ subs'[i] = r /\ granted'[i] = d.lifetime /\ age'[i] = 0
        /\ \A j \in Entries \ {i} : /\ subs'[j] = subs[j]
                                    /\ granted'[j] = granted[j] /\ age'[j] = age[j]
    BY <1>3, <1>4
  <1>7. ListOK' BY <1>1, <1>2, <1>5, <1>6 DEF IInv, ListOK
  <1>8. NoDuplicates' BY <1>2, <1>6 DEF IInv, NoDuplicates, Key
  <1>9. LifetimeHonoured' BY <1>1, <1>2, <1>6 DEF IInv, LifetimeHonoured
  <1> QED BY <1>7, <1>8, <1>9 DEF IInv

LEMMA SubscribeIInv ==
  ASSUME IInv, NEW src \in Addresses, NEW d \in SubscribeData, Subscribe(src, d)
  PROVE  IInv'
  <1>1. UNCHANGED <<cursor, elapsed>> BY DEF Subscribe
  <1>2. CASE EntriesFor(d) # {}
    <2> DEFINE i == Lowest(EntriesFor(d))
    <2>1. i \in EntriesFor(d) BY <1>2, LowestIsIn DEF EntriesFor
    <2> HIDE DEF i
    <2>2. i \in Entries /\ subs[i].valid /\ Key(i) = <<d.process, d.object>>
      BY <2>1 DEF EntriesFor, Key
    <2>3. \A j \in Entries \ {i} : subs[j].valid => Key(j) # <<d.process, d.object>>
      BY <2>2 DEF IInv, NoDuplicates
    <2>4. Enter(i, src, d) BY <1>2 DEF Subscribe, i
    <2> QED BY <1>1, <2>2, <2>3, <2>4, EnterIInv
  <1>3. CASE EntriesFor(d) = {} /\ InvalidEntries # {}
    <2> DEFINE i == Lowest(InvalidEntries)
    <2>1. i \in InvalidEntries BY <1>3, LowestIsIn DEF InvalidEntries
    <2> HIDE DEF i
    <2>2. i \in Entries BY <2>1 DEF InvalidEntries
    <2>3. \A j \in Entries \ {i} : subs[j].valid => Key(j) # <<d.process, d.object>>
      BY <1>3 DEF EntriesFor, Key
    <2>4. Enter(i, src, d) BY <1>3 DEF Subscribe, i
    <2> QED BY <1>1, <2>2, <2>3, <2>4, EnterIInv
  <1>4. CASE EntriesFor(d) = {} /\ InvalidEntries = {}
    <2>1. UNCHANGED <<subs, granted, age>> BY <1>4 DEF Subscribe
    <2> QED BY <1>1, <2>1 DEF IInv, ListOK, NoDuplicates, Key, LifetimeHonoured
  <1> QED BY <1>2, <1>3, <1>4

LEMMA CancelIInv ==
  ASSUME IInv, NEW d \in SubscribeData, Cancel(d)
  PROVE  IInv'
  <1>1. UNCHANGED <<cursor, elapsed, granted, age>> BY DEF Cancel
  <1>2. CASE EntriesFor(d) = {}
    <2>1. subs' = subs BY <1>2 DEF Cancel
    <2> QED BY <1>1, <2>1 DEF IInv, ListOK, NoDuplicates, Key, LifetimeHonoured
  <1>3. CASE EntriesFor(d) # {}
    <2> DEFINE i == Lowest(EntriesFor(d))
    <2>1. i \in EntriesFor(d) BY <1>3, LowestIsIn DEF EntriesFor
    <2>2. subs' = [subs EXCEPT ![i].valid = FALSE] BY <1>3 DEF Cancel
    <2> HIDE DEF i
    <2>3. i \in Entries /\ subs \in [Entries -> Subscription]
      BY <2>1 DEF EntriesFor, IInv, ListOK
    <2>4. [subs[i] EXCEPT !.valid = FALSE] \in Subscription
      BY <2>3 DEF Subscription
    <2>5. subs' \in [Entries -> Subscription] BY <2>2, <2>3, <2>4
    <2>6. \A j \in Entries : subs'[j] = subs[j] \/ ~subs'[j].valid
      BY <2>2, <2>3 DEF Subscription
    <2> QED BY <1>1, <2>5, <2>6 DEF IInv, ListOK, NoDuplicates, Key, LifetimeHonoured
  <1> QED BY <1>2, <1>3

-----------------------------------------------------------------------------
\* What a visit makes of an entry.
LEMMA VisitedEntry ==
  ASSUME NEW s \in Subscription, elapsed \in Nat
  PROVE  /\ Visited(s) \in Subscription
         /\ Visited(s).process = s.process /\ Visited(s).object = s.object
         /\ Visited(s).dest = s.dest /\ Visited(s).confirmed = s.confirmed
         /\ Visited(s).lifetime = Left(s) /\ Visited(s).valid = (Left(s) # 0)
         /\ Visited(s).send = FALSE
         /\ Left(s) \in Nat
         /\ Left(s) = IF s.lifetime >= elapsed THEN s.lifetime - elapsed ELSE 0
  <1>1. s.lifetime \in Nat BY DEF Subscription
  <1>2. Left(s) \in Nat /\ Left(s) = IF s.lifetime >= elapsed THEN s.lifetime - elapsed ELSE 0
    BY <1>1 DEF Left
  <1>3. PICK n \in Nat : n = Left(s) BY <1>2
  <1>4. PICK b \in BOOLEAN : b = (Left(s) # 0) OBVIOUS
  <1>5. Visited(s) = [s EXCEPT !.lifetime = n, !.valid = b, !.send = FALSE]
    BY <1>3, <1>4 DEF Visited
  <1>6. [s EXCEPT !.lifetime = n, !.valid = b, !.send = FALSE] \in Subscription
    BY DEF Subscription
  <1> QED BY <1>2, <1>3, <1>4, <1>5, <1>6 DEF Subscription

LEMMA VisitIInv ==
  ASSUME IInv, NEW taken \in LinkTakes, TaskVisit(taken)
  PROVE  IInv'
  <1> DEFINE i == cursor
             s == subs[i]
  <1>1. i \in Entries /\ s.valid /\ s \in Subscription /\ elapsed \in Nat
    BY CovAssumption DEF TaskVisit, TaskIdle, IInv, ListOK, Entries
  <1>2. /\ subs' = [subs EXCEPT ![i] = Visited(s)]
        /\ cursor' = i + 1
        /\ age' = [age EXCEPT ![i] =
                     IF age[i] + elapsed > granted[i] THEN granted[i] ELSE age[i] + elapsed]
        /\ UNCHANGED <<elapsed, granted>>
    BY DEF TaskVisit
  <1>3. /\ subs \in [Entries -> Subscription]
        /\ granted[i] \in Nat /\ age[i] \in Nat /\ age[i] <= granted[i]
        /\ granted \in [Entries -> Nat] /\ age \in [Entries -> Nat]
    BY <1>1 DEF IInv, ListOK
  <1> DEFINE v == Visited(s)
             a == IF age[i] + elapsed > granted[i] THEN granted[i] ELSE age[i] + elapsed
  <1>4. /\ v \in Subscription /\ v.process = s.process /\ v.object = s.object
        /\ v.dest = s.dest /\ v.confirmed = s.confirmed
        /\ v.lifetime = Left(s) /\ v.valid = (Left(s) # 0)
        /\ Left(s) = IF s.lifetime >= elapsed THEN s.lifetime - elapsed ELSE 0
    BY <1>1, VisitedEntry
  <1>5. a \in Nat /\ a <= granted[i] BY <1>1, <1>3
  <1>6. v.valid => v.lifetime = granted[i] - a /\ v.lifetime > 0
    <2>1. s.lifetime = granted[i] - age[i] BY <1>1 DEF IInv, LifetimeHonoured
    <2>2. s.lifetime \in Nat BY <1>1 DEF Subscription
    <2>3. ASSUME v.valid PROVE Left(s) # 0 BY <1>4, <2>3, Zenon
    <2> HIDE DEF s, v
    <2>4. ASSUME Left(s) # 0 PROVE v.lifetime = granted[i] - a /\ v.lifetime > 0
      <3>1. elapsed \in Nat /\ granted[i] \in Nat /\ age[i] \in Nat BY <1>1, <1>3
      <3>2. v.lifetime = s.lifetime - elapsed /\ s.lifetime > elapsed
        BY <1>4, <2>2, <2>4, <3>1
      <3> QED BY <2>1, <2>2, <3>1, <3>2
    <2> QED BY <2>3, <2>4
  <1> HIDE DEF v, a
  <1>7. /\ subs'[i] = v /\ age'[i] = a
        /\ \A j \in Entries \ {i} : subs'[j] = subs[j] /\ age'[j] = age[j]
        /\ subs' \in [Entries -> Subscription] /\ age' \in [Entries -> Nat]
    BY <1>1, <1>2, <1>3, <1>4, <1>5 DEF v, a
  <1>8. cursor' \in 0 .. MaxSubscriptions BY <1>1, <1>2, CovAssumption DEF Entries
  <1>9. LiveSubscription(s) => LiveSubscription(v) BY <1>4 DEF LiveSubscription
  <1>10. ListOK'
    BY <1>1, <1>2, <1>3, <1>5, <1>7, <1>8, <1>9 DEF IInv, ListOK
  <1>11. NoDuplicates' BY <1>1, <1>4, <1>7 DEF IInv, NoDuplicates, Key
  <1>12. LifetimeHonoured' BY <1>2, <1>6, <1>7 DEF IInv, LifetimeHonoured
  <1> QED BY <1>10, <1>11, <1>12 DEF IInv

-----------------------------------------------------------------------------
LEMMA NextIInv == IInv /\ [Next]_vars => IInv'
  <1> SUFFICES ASSUME IInv, [Next]_vars PROVE IInv' OBVIOUS
  <1> USE DEF IInv, ListOK, NoDuplicates, Key, LifetimeHonoured
  <1>1. ASSUME NEW src \in Addresses, NEW d \in SubscribeData, Subscribe(src, d) PROVE IInv'
    BY <1>1, SubscribeIInv
  <1>2. ASSUME NEW d \in SubscribeData, Cancel(d) PROVE IInv' BY <1>2, CancelIInv
  <1>3. ASSUME NEW o \in Objects, NEW v \in Values, WriteInput(o, v) PROVE IInv'
    BY <1>3 DEF WriteInput
  <1>4. ASSUME Task PROVE IInv'
    <2>1. ASSUME NEW s \in Elapsed, TaskStart(s) PROVE IInv'
      BY <2>1, CovAssumption DEF TaskStart
    <2>2. ASSUME NEW taken \in LinkTakes, TaskVisit(taken) PROVE IInv' BY <2>2, VisitIInv
    <2>3. ASSUME TaskSkip PROVE IInv'
      BY <2>3, CovAssumption DEF TaskSkip, TaskIdle
    <2> QED BY <1>4, <2>1, <2>2, <2>3 DEF Task
  <1>5. ASSUME NEW id, NoticeAnswered(id) PROVE IInv' BY <1>5 DEF NoticeAnswered
  <1>6. ASSUME NEW ms, TsmTimer(ms) PROVE IInv' BY <1>6 DEF TsmTimer
  <1>7. ASSUME UNCHANGED vars PROVE IInv' BY <1>7 DEF vars
  <1> QED BY <1>1, <1>2, <1>3, <1>4, <1>5, <1>6, <1>7 DEF Next

\* The rules of the list hold in every reachable state.
THEOREM ListTheorem == Spec => []IInv
  <1> QED BY InitIInv, NextIInv, PTL DEF Spec

\* One process has at most one live subscription to an object, so that a change
\* is reported to it once and a cancellation leaves nothing behind.
THEOREM OneSubscriptionTheorem == Spec => []NoDuplicates
  <1>1. IInv => NoDuplicates BY DEF IInv
  <1> QED BY <1>1, ListTheorem, PTL

\* A live subscription has what it was granted less the time since, and is live
\* only while something is left.
THEOREM LifetimeTheorem == Spec => []LifetimeHonoured
  <1>1. IInv => LifetimeHonoured BY DEF IInv
  <1> QED BY <1>1, ListTheorem, PTL
-----------------------------------------------------------------------------
(***************************************************************************)
(* What a subscriber knows.                                                *)
(***************************************************************************)

\* Notices are not confirmed: none is sent again, when a newer one may have been.
Unconfirmed == Confirmed \subseteq {FALSE}

\* No two live subscriptions are for one object.
NoneShared ==
    \A i, j \in Entries :
        subs[i].valid /\ subs[j].valid /\ subs[i].object = subs[j].object => i = j

\* No notice is ever in the transaction table, so that none is sent again.
KnowsIInv ==
    /\ IInv
    /\ value \in [Objects -> Values]
    /\ changed \in [Objects -> BOOLEAN]
    /\ known \in [Subscribers -> Values \cup {Nothing}]
    /\ missed \subseteq Subscribers
    /\ tsm = Tsm!EmptyTable(1)
    /\ SubscriberKnows

LEMMA NothingInTable ==
  ASSUME tsm = Tsm!EmptyTable(1)
  PROVE  /\ Tsm!UsedIDs(tsm) = {}
         /\ \A ms : /\ NoticesResent(ms) = {}
                   /\ Tsm!TimerMilliseconds(tsm, ms, Timeout, Retries) = tsm
  <1>1. \A i \in Tsm!Slots : tsm.slot[i].id = 0 /\ tsm.slot[i].state = "idle"
    BY DEF Tsm!EmptyTable, Tsm!EmptySlot
  <1>2. Tsm!UsedIDs(tsm) = {}
    BY <1>1, CovAssumption DEF Tsm!UsedIDs, Tsm!SlotsHolding, Tsm!InvokeIDs
  <1>3. ASSUME NEW ms PROVE NoticesResent(ms) = {}
    BY <1>1 DEF NoticesResent, Tsm!ResentBy, Tsm!Resends, Tsm!Expires
  <1>4. ASSUME NEW ms PROVE Tsm!TimerMilliseconds(tsm, ms, Timeout, Retries) = tsm
    <2>1. \A i \in Tsm!Slots : Tsm!TimedSlot(tsm.slot[i], ms, Timeout, Retries) = tsm.slot[i]
      BY <1>1 DEF Tsm!TimedSlot
    <2>2. tsm = [slot |-> [i \in Tsm!Slots |-> tsm.slot[i]], current |-> tsm.current]
      BY DEF Tsm!EmptyTable
    <2> QED BY <2>1, <2>2 DEF Tsm!TimerMilliseconds
  <1> QED BY <1>2, <1>3, <1>4

LEMMA InitKnows == Init => KnowsIInv
  <1> SUFFICES ASSUME Init PROVE KnowsIInv OBVIOUS
  <1>1. IInv BY InitIInv
  <1>2. \A i \in Entries : ~subs[i].valid BY DEF Init, EmptySubscription
  <1>3. value \in [Objects -> Values] BY DEF Init
  <1> QED BY <1>1, <1>2, <1>3 DEF Init, KnowsIInv, SubscriberKnows

LEMMA SubscribeKnows ==
  ASSUME KnowsIInv, IInv', NEW src \in Addresses, NEW d \in SubscribeData, Subscribe(src, d)
  PROVE  KnowsIInv'
  <1>1. UNCHANGED <<value, changed, tsm>> BY DEF Subscribe
  <1>2. CASE UNCHANGED <<subs, known, missed>>
    BY <1>1, <1>2 DEF KnowsIInv, SubscriberKnows, Key
  <1>3. ASSUME NEW i \in Entries, Enter(i, src, d) PROVE KnowsIInv'
    <2> DEFINE k == <<d.process, d.object>>
    <2>1. d.process \in Processes /\ d.object \in Objects BY DEF SubscribeData
    <2>2. k \in Subscribers BY <2>1 DEF Subscribers
    <2>3. known' = [known EXCEPT ![k] = Nothing] /\ missed' = missed \ {k}
      BY <1>3 DEF Enter
    <2>4. known' \in [Subscribers -> Values \cup {Nothing}]
      <3> HIDE DEF k
      <3> QED BY <2>3 DEF KnowsIInv
    <2>5. missed' \subseteq Subscribers BY <2>3 DEF KnowsIInv
    <2>6. /\ subs'[i].send /\ subs'[i].valid
          /\ subs'[i].process = d.process /\ subs'[i].object = d.object
          /\ \A j \in Entries \ {i} : subs'[j] = subs[j]
      BY <1>3 DEF KnowsIInv, IInv, ListOK, Enter, Record
    <2>7. ASSUME NEW j \in Entries, subs'[j].valid, ~subs'[j].send, ~changed'[subs'[j].object],
                 <<subs'[j].process, subs'[j].object>> \notin missed'
          PROVE  known'[<<subs'[j].process, subs'[j].object>>] = value'[subs'[j].object]
      <3>1. j # i /\ subs'[j] = subs[j] BY <2>6, <2>7
      <3>2. <<subs[j].process, subs[j].object>> # k
        BY <2>6, <2>7, <3>1 DEF IInv, NoDuplicates, Key
      <3>3. subs[j].process \in Processes /\ subs[j].object \in Objects
        BY <2>7, <3>1 DEF KnowsIInv, IInv, ListOK, LiveSubscription
      <3>4. known[<<subs[j].process, subs[j].object>>] = value[subs[j].object]
        BY <1>1, <2>3, <2>7, <3>1, <3>2 DEF KnowsIInv, SubscriberKnows, Key
      <3> HIDE DEF k
      <3>5. known'[<<subs[j].process, subs[j].object>>] = known[<<subs[j].process, subs[j].object>>]
        BY <2>3, <3>2, <3>3 DEF KnowsIInv, Subscribers
      <3> QED BY <1>1, <3>1, <3>4, <3>5
    <2> QED BY <1>1, <2>4, <2>7, <2>5 DEF KnowsIInv, SubscriberKnows, Key
  <1>4. \/ \E i \in Entries : Enter(i, src, d)
        \/ UNCHANGED <<subs, known, missed>>
    <2>1. CASE EntriesFor(d) # {}
      <3>1. Lowest(EntriesFor(d)) \in Entries BY <2>1, LowestIsIn DEF EntriesFor
      <3> QED BY <2>1, <3>1 DEF Subscribe
    <2>2. CASE EntriesFor(d) = {} /\ InvalidEntries # {}
      <3>1. Lowest(InvalidEntries) \in Entries BY <2>2, LowestIsIn DEF InvalidEntries
      <3> QED BY <2>2, <3>1 DEF Subscribe
    <2>3. CASE EntriesFor(d) = {} /\ InvalidEntries = {} BY <2>3 DEF Subscribe
    <2> QED BY <2>1, <2>2, <2>3
  <1> QED BY <1>2, <1>3, <1>4

LEMMA CancelKnows ==
  ASSUME KnowsIInv, IInv', NEW d \in SubscribeData, Cancel(d)
  PROVE  KnowsIInv'
  <1>1. UNCHANGED <<value, changed, tsm, known, missed>> BY DEF Cancel
  <1>2. \A j \in Entries : subs'[j] = subs[j] \/ ~subs'[j].valid
    <2>1. CASE EntriesFor(d) = {} BY <2>1 DEF Cancel
    <2>2. CASE EntriesFor(d) # {}
      <3> DEFINE i == Lowest(EntriesFor(d))
      <3>1. i \in Entries BY <2>2, LowestIsIn DEF EntriesFor
      <3>2. subs' = [subs EXCEPT ![i].valid = FALSE] BY <2>2 DEF Cancel
      <3> HIDE DEF i
      <3> QED BY <3>1, <3>2 DEF KnowsIInv, IInv, ListOK, Subscription
    <2> QED BY <2>1, <2>2
  <1> QED BY <1>1, <1>2 DEF KnowsIInv, SubscriberKnows, Key

LEMMA WriteKnows ==
  ASSUME KnowsIInv, IInv', NEW o \in Objects, NEW v \in Values, WriteInput(o, v)
  PROVE  KnowsIInv'
  <1>1. /\ value' = [value EXCEPT ![o] = v]
        /\ changed' = [changed EXCEPT ![o] = changed[o] \/ value[o] # v]
        /\ UNCHANGED <<subs, tsm, known, missed>>
    BY DEF WriteInput
  <1>2. value' \in [Objects -> Values] /\ changed' \in [Objects -> BOOLEAN]
    BY <1>1 DEF KnowsIInv
  <1>3. \A p \in Objects : ~changed'[p] => ~changed[p] /\ value'[p] = value[p]
    BY <1>1 DEF KnowsIInv
  <1>4. \A i \in Entries : subs[i].valid => subs[i].object \in Objects
    BY DEF KnowsIInv, IInv, ListOK, LiveSubscription
  <1> QED BY <1>1, <1>2, <1>3, <1>4 DEF KnowsIInv, SubscriberKnows, Key

LEMMA VisitKnows ==
  ASSUME Unconfirmed, NoneShared, KnowsIInv, IInv', NEW taken \in LinkTakes, TaskVisit(taken)
  PROVE  KnowsIInv'
  <1> DEFINE c == cursor
             s == subs[c]
             k == <<s.process, s.object>>
  <1>1. c \in Entries /\ s.valid /\ s \in Subscription /\ elapsed \in Nat
    BY CovAssumption DEF TaskVisit, TaskIdle, KnowsIInv, IInv, ListOK, Entries
  <1>2. s.process \in Processes /\ s.object \in Objects /\ ~s.confirmed
    BY <1>1 DEF KnowsIInv, IInv, ListOK, LiveSubscription, Unconfirmed
  <1>3. k \in Subscribers BY <1>2 DEF Subscribers
  <1>4. /\ subs' = [subs EXCEPT ![c] = Visited(s)]
        /\ changed' = [changed EXCEPT ![s.object] = FALSE]
        /\ value' = value
    BY DEF TaskVisit
  <1>5. /\ tsm' = tsm
        /\ IF NoticeDue(s) /\ taken
           THEN /\ known' = [known EXCEPT ![k] = value[s.object]]
                /\ missed' = missed \ {k}
           ELSE /\ known' = known
                /\ missed' = IF NoticeDue(s) THEN missed \cup {k} ELSE missed
    BY <1>2 DEF TaskVisit, SendNotice, IsSent, LinkTakes
  <1>6. /\ Visited(s).process = s.process /\ Visited(s).object = s.object
        /\ Visited(s).send = FALSE
    BY <1>1, VisitedEntry
  <1>7. /\ subs'[c] = Visited(s)
        /\ \A j \in Entries \ {c} : subs'[j] = subs[j]
    BY <1>1, <1>4 DEF KnowsIInv, IInv, ListOK
  <1> HIDE DEF k, s, c
  <1>8. value[s.object] \in Values BY <1>2 DEF KnowsIInv
  <1>9. known' \in [Subscribers -> Values \cup {Nothing}]
    BY <1>5, <1>8 DEF KnowsIInv
  <1>10. missed' \subseteq Subscribers BY <1>3, <1>5 DEF KnowsIInv
  <1>11. changed' \in [Objects -> BOOLEAN] BY <1>4 DEF KnowsIInv
  <1>12. k \notin missed' => known'[k] = value[s.object]
    <2>1. CASE NoticeDue(s) /\ taken BY <1>3, <1>5, <2>1 DEF KnowsIInv
    <2>2. CASE NoticeDue(s) /\ ~taken BY <1>5, <2>2
    <2>3. CASE ~NoticeDue(s)
      <3>1. ~s.send /\ ~changed[s.object] BY <2>3 DEF NoticeDue
      <3>2. k \notin missed => known[k] = value[s.object]
        BY <1>1, <3>1 DEF KnowsIInv, SubscriberKnows, Key, k, s
      <3> QED BY <1>5, <2>3, <3>2
    <2> QED BY <2>1, <2>2, <2>3
  <1>13. ASSUME NEW j \in Entries, subs'[j].valid, ~subs'[j].send, ~changed'[subs'[j].object],
                <<subs'[j].process, subs'[j].object>> \notin missed'
         PROVE  known'[<<subs'[j].process, subs'[j].object>>] = value'[subs'[j].object]
    <2>1. CASE j = c BY <1>4, <1>6, <1>7, <1>12, <1>13, <2>1 DEF k
    <2>2. CASE j # c
      <3>1. subs'[j] = subs[j] /\ subs[j].valid BY <1>7, <1>13, <2>2
      <3>2. subs[j].process \in Processes /\ subs[j].object \in Objects
        BY <3>1 DEF KnowsIInv, IInv, ListOK, LiveSubscription
      <3>3. subs[j].object # s.object
        BY <1>1, <2>2, <3>1 DEF NoneShared, s
      <3>4. changed'[subs[j].object] = changed[subs[j].object]
        BY <1>4, <3>2, <3>3 DEF KnowsIInv
      <3>5. <<subs[j].process, subs[j].object>> # k BY <3>3 DEF k
      <3>6. <<subs[j].process, subs[j].object>> \notin missed
        BY <1>5, <1>13, <3>1, <3>5
      <3>7. known[<<subs[j].process, subs[j].object>>] = value[subs[j].object]
        BY <1>13, <3>1, <3>4, <3>6 DEF KnowsIInv, SubscriberKnows, Key
      <3>8. <<subs[j].process, subs[j].object>> \in Subscribers BY <3>2 DEF Subscribers
      <3>9. known'[<<subs[j].process, subs[j].object>>] = known[<<subs[j].process, subs[j].object>>]
        BY <1>5, <3>5, <3>8 DEF KnowsIInv
      <3> QED BY <1>4, <3>1, <3>7, <3>9
    <2> QED BY <2>1, <2>2
  <1> QED BY <1>4, <1>5, <1>9, <1>11, <1>13, <1>10 DEF KnowsIInv, SubscriberKnows, Key

LEMMA TimerKnows ==
  ASSUME KnowsIInv, IInv', NEW ms, TsmTimer(ms)
  PROVE  KnowsIInv'
  <1>1. NoticesResent(ms) = {} /\ tsm' = tsm /\ UNCHANGED <<subs, value, changed, missed>>
    BY NothingInTable DEF KnowsIInv, TsmTimer
  <1>2. known' = known
    <2>1. known \in [Subscribers -> Values \cup {Nothing}]
          /\ known' \in [Subscribers -> Values \cup {Nothing}]
      BY DEF KnowsIInv, TsmTimer
    <2>2. \A k \in Subscribers : known'[k] = known[k] BY <1>1 DEF TsmTimer
    <2> QED BY <2>1, <2>2
  <1> QED BY <1>1, <1>2 DEF KnowsIInv, SubscriberKnows, Key

\* While no two subscriptions are for one object and notices are not confirmed, a
\* subscriber that is not owed a notice, and whose last one the link took, knows the
\* value: for any number of processes, and whatever the link refuses.
THEOREM KnowledgeTheorem ==
  ASSUME Unconfirmed
  PROVE  Spec /\ []NoneShared => []SubscriberKnows
  <1>1. NoneShared /\ KnowsIInv /\ [Next]_vars => KnowsIInv'
    <2> SUFFICES ASSUME NoneShared, KnowsIInv, [Next]_vars PROVE KnowsIInv' OBVIOUS
    <2>1. IInv' BY NextIInv DEF KnowsIInv
    <2>2. ASSUME NEW src \in Addresses, NEW d \in SubscribeData, Subscribe(src, d)
          PROVE  KnowsIInv'
      BY <2>1, <2>2, SubscribeKnows
    <2>3. ASSUME NEW d \in SubscribeData, Cancel(d) PROVE KnowsIInv'
      BY <2>1, <2>3, CancelKnows
    <2>4. ASSUME NEW o \in Objects, NEW v \in Values, WriteInput(o, v) PROVE KnowsIInv'
      BY <2>1, <2>4, WriteKnows
    <2>5. ASSUME NEW taken \in LinkTakes, TaskVisit(taken) PROVE KnowsIInv'
      BY <2>1, <2>5, VisitKnows, Unconfirmed
    <2>6. CASE UNCHANGED <<subs, value, changed, tsm, known, missed>>
      BY <2>1, <2>6 DEF KnowsIInv, SubscriberKnows, Key
    <2>7. ASSUME NEW id \in Tsm!UsedIDs(tsm) PROVE FALSE
      BY NothingInTable DEF KnowsIInv
    <2>8. ASSUME NEW ms, TsmTimer(ms) PROVE KnowsIInv' BY <2>1, <2>8, TimerKnows
    <2> QED
      BY <2>2, <2>3, <2>4, <2>5, <2>6, <2>7, <2>8
      DEF Next, Task, TaskStart, TaskSkip, vars
  <1>2. KnowsIInv => SubscriberKnows BY DEF KnowsIInv
  <1> QED BY <1>1, <1>2, InitKnows, PTL DEF Spec
=============================================================================
