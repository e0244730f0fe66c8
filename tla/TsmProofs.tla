----------------------------- MODULE TsmProofs -----------------------------
(***************************************************************************)
(* Theorems of Tsm, for every number of slots and invoke IDs, every set of *)
(* requests, timeouts and retries.                                         *)
(*                                                                         *)
(* The four rules depend on one another: an ID given out is new because    *)
(* the IDs in the table are distinct, and what the timer puts on the wire  *)
(* is a request with an ID because unused slots are idle and waiting ones  *)
(* hold a request.  IInv is their conjunction and is inductive.            *)
(***************************************************************************)
EXTENDS TsmHistory, NumberFacts, FiniteSetTheorems, TLAPS

-----------------------------------------------------------------------------
\* Facts about the operators of TsmTable, for a table of any size up to the
\* number of invoke IDs.
LEMMA ConstantsType ==
  /\ MaxTransactions \in Nat /\ MaxInvokeID \in Nat
  /\ 1 <= MaxTransactions /\ MaxTransactions <= MaxInvokeID
  BY TableAssumption

\* The linear search finds a slot with the ID exactly when there is one, and
\* otherwise answers with an index outside of the table.
LEMMA FindIndexFinds ==
  ASSUME NEW t, NEW id
  PROVE  /\ SlotsHolding(t, id) # {} =>
               FindIndex(t, id) \in Slots /\ t.slot[FindIndex(t, id)].id = id
         /\ SlotsHolding(t, id) = {} =>
               FindIndex(t, id) = MaxTransactions /\ FindIndex(t, id) \notin Slots
  <1>1. SlotsHolding(t, id) \in SUBSET Nat
    BY ConstantsType DEF SlotsHolding, Slots
  <1>2. CASE SlotsHolding(t, id) # {}
    <2>1. Min(SlotsHolding(t, id)) \in SlotsHolding(t, id) BY <1>1, <1>2, MinIsLeast
    <2> QED BY <1>2, <2>1 DEF FindIndex, SlotsHolding
  <1>3. CASE SlotsHolding(t, id) = {}
    BY <1>3, ConstantsType DEF FindIndex, Slots
  <1> QED BY <1>2, <1>3

LEMMA IsFreeMeansUnused ==
  ASSUME NEW t, NEW id
  PROVE  InvokeIdFree(t, id) <=> SlotsHolding(t, id) = {}
  <1>1. MaxTransactions \notin Slots BY ConstantsType DEF Slots
  <1> QED BY <1>1, FindIndexFinds DEF InvokeIdFree

\* There are fewer slots in use than invoke IDs as long as one slot is free, so
\* some ID is in no slot: two IDs would otherwise have to share one.
LEMMA SomeIDUnused ==
  ASSUME NEW t, TransactionAvailable(t)
  PROVE  InvokeIDs \ UsedIDs(t) # {}
  <1> SUFFICES ASSUME InvokeIDs \subseteq UsedIDs(t) PROVE FALSE OBVIOUS
  <1>1. PICK free \in Slots : t.slot[free].id = 0 BY DEF TransactionAvailable
  <1> DEFINE home == [id \in InvokeIDs |-> FindIndex(t, id)]
             rest == Slots \ {free}
  <1>2. ASSUME NEW id \in InvokeIDs
        PROVE  home[id] \in Slots /\ t.slot[home[id]].id = id /\ home[id] # free
    <2>1. SlotsHolding(t, id) # {} BY DEF UsedIDs
    <2>2. id # 0 BY ConstantsType DEF InvokeIDs
    <2> QED BY <2>1, <2>2, <1>1, FindIndexFinds
  <1>3. home \in [InvokeIDs -> rest] BY <1>2
  <1>4. /\ IsFiniteSet(InvokeIDs)
        /\ Cardinality(InvokeIDs) = MaxInvokeID
    BY FS_Interval, ConstantsType DEF InvokeIDs
  <1>5. IsFiniteSet(Slots) /\ Cardinality(Slots) = MaxTransactions
    BY FS_Interval, ConstantsType DEF Slots
  <1>6. IsFiniteSet(rest) /\ Cardinality(rest) = MaxTransactions - 1
    BY <1>5, FS_RemoveElement
  <1>7. Cardinality(rest) < Cardinality(InvokeIDs)
    BY <1>4, <1>6, ConstantsType
  <1> HIDE DEF home, rest
  <1>8. \E x, y \in InvokeIDs : x # y /\ home[x] = home[y]
    BY <1>3, <1>4, <1>6, <1>7, FS_PigeonHole
  <1> QED BY <1>2, <1>8

\* The search that counts up from Current_Invoke_ID ends, at an ID that no slot
\* of the table holds.
LEMMA SearchSucceeds ==
  ASSUME NEW t, t.current \in InvokeIDs, TransactionAvailable(t)
  PROVE  /\ FreeDistances(t) # {}
         /\ NextFreeInvokeID(t) \in InvokeIDs
         /\ NextFreeInvokeID(t) \notin UsedIDs(t)
  <1>1. PICK id \in InvokeIDs : id \notin UsedIDs(t) BY SomeIDUnused
  <1> DEFINE d == IF id >= t.current THEN id - t.current
                                     ELSE id + MaxInvokeID - t.current
  <1>2. d \in 0 .. MaxInvokeID - 1 /\ Around(t.current + d) = id
    BY <1>1, ConstantsType DEF InvokeIDs, Around
  <1>3. d \in FreeDistances(t) BY <1>1, <1>2 DEF FreeDistances
  <1>4. FreeDistances(t) \in SUBSET Nat
    BY ConstantsType DEF FreeDistances
  <1>5. Min(FreeDistances(t)) \in FreeDistances(t) BY <1>3, <1>4, MinIsLeast
  <1>6. NextFreeInvokeID(t) = Around(t.current + Min(FreeDistances(t)))
    BY DEF NextFreeInvokeID
  <1>7. /\ Min(FreeDistances(t)) \in 0 .. MaxInvokeID - 1
        /\ Around(t.current + Min(FreeDistances(t))) \notin UsedIDs(t)
    BY <1>5 DEF FreeDistances
  <1>8. Around(t.current + Min(FreeDistances(t))) \in InvokeIDs
    BY <1>7, ConstantsType DEF InvokeIDs, Around
  <1> QED BY <1>3, <1>6, <1>7, <1>8

-----------------------------------------------------------------------------
\* The table rules, and that every operator keeps them.

GoodTable(t) == t \in Table /\ IDsUnique(t) /\ UnusedAreIdle(t)

LEMMA EmptyIsGood ==
  ASSUME NEW first \in InvokeIDs
  PROVE  GoodTable(EmptyTable(first))
  <1>1. EmptySlot \in Slot BY ConstantsType DEF EmptySlot, Slot
  <1> QED
    BY <1>1 DEF GoodTable, EmptyTable, Table, IDsUnique, UnusedAreIdle, EmptySlot

\* Replacing one slot keeps the rules when the new contents are well-typed, idle
\* if unused, and carry an ID that no other slot has.
LEMMA OneSlotKeepsGood ==
  ASSUME NEW t, GoodTable(t), NEW i \in Slots, NEW s \in Slot, NEW c \in InvokeIDs,
         s.id = 0 => s.state = "idle",
         s.id # 0 => \A j \in Slots \ {i} : t.slot[j].id # s.id
  PROVE  GoodTable([slot |-> [t.slot EXCEPT ![i] = s], current |-> c])
  <1> DEFINE u == [slot |-> [t.slot EXCEPT ![i] = s], current |-> c]
  <1>1. t.slot \in [Slots -> Slot] BY DEF GoodTable, Table
  <1>2. u \in Table BY <1>1 DEF Table
  <1>3. u.slot[i] = s /\ \A j \in Slots \ {i} : u.slot[j] = t.slot[j] BY <1>1
  <1> HIDE DEF u
  <1>4. IDsUnique(u) BY <1>3 DEF GoodTable, IDsUnique
  <1>5. UnusedAreIdle(u) BY <1>3 DEF GoodTable, UnusedAreIdle
  <1>6. GoodTable(u) BY <1>2, <1>4, <1>5 DEF GoodTable
  <1> QED BY <1>6 DEF u

LEMMA SlotUpdate ==
  ASSUME NEW t, GoodTable(t), NEW i \in Slots
  PROVE  /\ t.slot[i] \in Slot
         /\ t.current \in InvokeIDs
         /\ t = [slot |-> t.slot, current |-> t.current]
  BY DEF GoodTable, Table

\* The edit that frees a slot.
LEMMA FreedSlot ==
  ASSUME NEW s \in Slot
  PROVE  LET r == [s EXCEPT !.state = "idle", !.id = 0]
         IN  r \in Slot /\ r.id = 0 /\ r.state = "idle"
  <1>1. 0 \in 0 .. MaxInvokeID BY ConstantsType
  <1> QED BY <1>1 DEF Slot

LEMMA ReserveKeepsGood ==
  ASSUME NEW t, GoodTable(t), NEW apduTimeout \in Nat
  PROVE  GoodTable(ReserveInvokeID(t, apduTimeout))
  <1> DEFINE id == NextFreeInvokeID(t)
             i  == FirstFreeIndex(t)
             s  == [t.slot[i] EXCEPT !.id = id, !.state = "idle", !.timer = apduTimeout]
  <1>1. CASE id = 0 BY <1>1 DEF ReserveInvokeID
  <1>2. CASE id # 0
    <2>1. TransactionAvailable(t) BY <1>2 DEF NextFreeInvokeID
    <2>2. id \in InvokeIDs /\ id \notin UsedIDs(t)
      BY <2>1, SearchSucceeds DEF GoodTable, Table
    <2>3. i \in Slots
      <3>1. SlotsHolding(t, 0) # {} BY <2>1 DEF TransactionAvailable, SlotsHolding
      <3> QED BY <3>1, FindIndexFinds DEF FirstFreeIndex
    <2>4. t.slot[i] \in Slot BY <2>3, SlotUpdate
    <2>5. s \in Slot /\ s.id = id /\ s.state = "idle"
      <3>1. PICK x \in Slot : x = t.slot[i] BY <2>4
      <3>2. PICK k \in InvokeIDs : k = id BY <2>2
      <3>3. k \in 0 .. MaxInvokeID BY ConstantsType DEF InvokeIDs
      <3>4. LET r == [x EXCEPT !.id = k, !.state = "idle", !.timer = apduTimeout]
            IN  r \in Slot /\ r.id = k /\ r.state = "idle"
        <4> HIDE DEF id, i, s
        <4> QED BY <3>3 DEF Slot
      <3>5. s = [x EXCEPT !.id = k, !.state = "idle", !.timer = apduTimeout]
        BY <3>1, <3>2
      <3> HIDE DEF id, i, s
      <3> QED BY <3>2, <3>4, <3>5
    <2>6. id # 0 BY <1>2
    <2>7. \A j \in Slots : t.slot[j].id # id BY <2>2 DEF UsedIDs, SlotsHolding
    <2>8. Around(id + 1) \in InvokeIDs BY <2>2, ConstantsType DEF InvokeIDs, Around
    <2>9. ReserveInvokeID(t, apduTimeout)
            = [slot |-> [t.slot EXCEPT ![i] = s], current |-> Around(id + 1)]
      BY <1>2 DEF ReserveInvokeID
    <2> HIDE DEF id, i, s
    <2> QED BY <2>3, <2>5, <2>6, <2>7, <2>8, <2>9, OneSlotKeepsGood
  <1> QED BY <1>1, <1>2

LEMMA SetKeepsGood ==
  ASSUME NEW t, GoodTable(t), NEW id, NEW pdu \in Pdus, NEW apduTimeout \in Nat
  PROVE  GoodTable(SetTransaction(t, id, pdu, apduTimeout))
  <1> DEFINE i == FindIndex(t, id)
             s == [t.slot[i] EXCEPT !.state = "await", !.retries = 0,
                                    !.timer = apduTimeout, !.pdu = pdu]
  <1>1. CASE id = 0 \/ InvokeIdFree(t, id) BY <1>1 DEF SetTransaction
  <1>2. CASE ~(id = 0 \/ InvokeIdFree(t, id))
    <2>1. i \in Slots /\ t.slot[i].id = id
      BY <1>2, FindIndexFinds, IsFreeMeansUnused
    <2>2. t.slot[i] \in Slot /\ t.current \in InvokeIDs
          /\ t = [slot |-> t.slot, current |-> t.current]
      BY <2>1, SlotUpdate
    <2>3. s \in Slot /\ s.id = id BY <2>1, <2>2 DEF Slot
    <2>4. \A j \in Slots \ {i} : t.slot[j].id # id
      BY <1>2, <2>1 DEF GoodTable, IDsUnique
    <2>5. SetTransaction(t, id, pdu, apduTimeout) = [t EXCEPT !.slot[i] = s]
      BY <1>2 DEF SetTransaction
    <2>6. [t EXCEPT !.slot[i] = s]
            = [slot |-> [t.slot EXCEPT ![i] = s], current |-> t.current]
      BY <2>2
    <2> HIDE DEF i, s
    <2> QED BY <1>2, <2>1, <2>2, <2>3, <2>4, <2>5, <2>6, OneSlotKeepsGood
  <1> QED BY <1>1, <1>2

LEMMA FreeKeepsGood ==
  ASSUME NEW t, GoodTable(t), NEW id
  PROVE  GoodTable(FreeInvokeID(t, id))
  <1> DEFINE i == FindIndex(t, id)
             s == [t.slot[i] EXCEPT !.state = "idle", !.id = 0]
  <1>1. CASE InvokeIdFree(t, id) BY <1>1 DEF FreeInvokeID
  <1>2. CASE ~InvokeIdFree(t, id)
    <2>1. i \in Slots BY <1>2, FindIndexFinds, IsFreeMeansUnused
    <2>2. t.slot[i] \in Slot /\ t.current \in InvokeIDs
          /\ t = [slot |-> t.slot, current |-> t.current]
      BY <2>1, SlotUpdate
    <2>3. s \in Slot /\ s.id = 0 /\ s.state = "idle"
      BY <2>2, FreedSlot
    <2>4. FreeInvokeID(t, id) = [t EXCEPT !.slot[i] = s] BY <1>2 DEF FreeInvokeID
    <2>5. [t EXCEPT !.slot[i] = s]
            = [slot |-> [t.slot EXCEPT ![i] = s], current |-> t.current]
      BY <2>2
    <2> HIDE DEF i, s
    <2> QED BY <2>1, <2>2, <2>3, <2>4, <2>5, OneSlotKeepsGood
  <1> QED BY <1>1, <1>2

\* The edit that ends the retries.
LEMMA FailedSlot ==
  ASSUME NEW s \in Slot, NEW r, r = [s EXCEPT !.timer = 0, !.state = "idle"]
  PROVE  r \in Slot /\ r.id = s.id
  <1>1. "idle" \in {"idle", "await"} /\ 0 \in Nat OBVIOUS
  <1> QED BY <1>1 DEF Slot

\* The timer leaves every ID where it is and idles only slots in use.
LEMMA TimedSlotType ==
  ASSUME NEW s \in Slot, NEW ms \in Nat, NEW apduTimeout \in Nat, NEW apduRetries \in Nat
  PROVE  /\ TimedSlot(s, ms, apduTimeout, apduRetries) \in Slot
         /\ TimedSlot(s, ms, apduTimeout, apduRetries).id = s.id
         /\ s.state = "idle" => TimedSlot(s, ms, apduTimeout, apduRetries) = s
  <1> DEFINE r == TimedSlot(s, ms, apduTimeout, apduRetries)
  <1>1. s.timer \in Nat /\ s.retries \in Nat /\ s.state \in {"idle", "await"} BY DEF Slot
  <1>2. CASE s.state # "await" BY <1>2 DEF TimedSlot
  <1>3. CASE s.state = "await" /\ s.timer > ms
    <2>1. r = [s EXCEPT !.timer = @ - ms] BY <1>1, <1>3 DEF TimedSlot, Expires
    <2>2. s.timer - ms \in Nat BY <1>1, <1>3
    <2> QED BY <1>3, <2>1, <2>2 DEF Slot
  <1>4. CASE s.state = "await" /\ s.timer <= ms
    <2>1. CASE s.retries < apduRetries
      <3>1. r = [s EXCEPT !.timer = apduTimeout, !.retries = s.retries + 1]
        BY <1>4, <2>1 DEF TimedSlot, Expires, Resends
      <3>2. PICK n \in Nat : n = s.retries + 1 BY <1>1
      <3>3. [s EXCEPT !.timer = apduTimeout, !.retries = n] \in Slot
            /\ [s EXCEPT !.timer = apduTimeout, !.retries = n].id = s.id
        BY DEF Slot
      <3>4. r = [s EXCEPT !.timer = apduTimeout, !.retries = n] BY <3>1, <3>2
      <3> HIDE DEF r
      <3>5. r \in Slot /\ r.id = s.id BY <3>3, <3>4
      <3> QED BY <1>4, <3>5 DEF r
    <2>2. CASE ~(s.retries < apduRetries)
      <3>1. r = [s EXCEPT !.timer = 0, !.state = "idle"]
        BY <1>1, <1>4, <2>2 DEF TimedSlot, Expires, Resends
      <3> HIDE DEF r
      <3>2. r \in Slot /\ r.id = s.id BY <3>1, FailedSlot
      <3> QED BY <1>4, <3>2 DEF r
    <2> QED BY <2>1, <2>2
  <1> QED BY <1>1, <1>2, <1>3, <1>4

LEMMA TimerKeepsGood ==
  ASSUME NEW t, GoodTable(t), NEW ms \in Nat, NEW apduTimeout \in Nat, NEW apduRetries \in Nat
  PROVE  GoodTable(TimerMilliseconds(t, ms, apduTimeout, apduRetries))
  <1> DEFINE u == TimerMilliseconds(t, ms, apduTimeout, apduRetries)
  <1>1. t.slot \in [Slots -> Slot] /\ t.current \in InvokeIDs
        /\ t = [slot |-> t.slot, current |-> t.current]
    BY DEF GoodTable, Table
  <1>2. u = [ slot    |-> [i \in Slots |-> TimedSlot(t.slot[i], ms, apduTimeout, apduRetries)],
              current |-> t.current ]
    BY <1>1 DEF TimerMilliseconds
  <1>3. \A i \in Slots : /\ u.slot[i] \in Slot
                         /\ u.slot[i].id = t.slot[i].id
                         /\ t.slot[i].state = "idle" => u.slot[i] = t.slot[i]
    <2> SUFFICES ASSUME NEW i \in Slots
                 PROVE  /\ u.slot[i] \in Slot
                        /\ u.slot[i].id = t.slot[i].id
                        /\ t.slot[i].state = "idle" => u.slot[i] = t.slot[i]
      OBVIOUS
    <2>1. t.slot[i] \in Slot BY <1>1
    <2>2. u.slot[i] = TimedSlot(t.slot[i], ms, apduTimeout, apduRetries) BY <1>2
    <2>3. /\ TimedSlot(t.slot[i], ms, apduTimeout, apduRetries) \in Slot
          /\ TimedSlot(t.slot[i], ms, apduTimeout, apduRetries).id = t.slot[i].id
          /\ t.slot[i].state = "idle" =>
                TimedSlot(t.slot[i], ms, apduTimeout, apduRetries) = t.slot[i]
      BY <2>1, TimedSlotType
    <2> HIDE DEF u
    <2> QED BY <2>2, <2>3
  <1>4. u \in Table BY <1>1, <1>2, <1>3 DEF Table
  <1> HIDE DEF u
  <1>5. IDsUnique(u) BY <1>3 DEF GoodTable, IDsUnique
  <1>6. UnusedAreIdle(u) BY <1>3 DEF GoodTable, UnusedAreIdle
  <1>7. GoodTable(u) BY <1>4, <1>5, <1>6 DEF GoodTable
  <1> QED BY <1>7 DEF u

-----------------------------------------------------------------------------
\* What each operator does to one slot, which is nothing or its own edit.

LEMMA ReserveSlotwise ==
  ASSUME NEW t, GoodTable(t), NEW apduTimeout, NEW j \in Slots
  PROVE  LET u == ReserveInvokeID(t, apduTimeout)
         IN  \/ u.slot[j] = t.slot[j]
             \/ /\ t.slot[j].id = 0
                /\ u.slot[j].id = NextFreeInvokeID(t) /\ u.slot[j].state = "idle"
  <1> DEFINE id == NextFreeInvokeID(t)
             i  == FirstFreeIndex(t)
             s  == [t.slot[i] EXCEPT !.id = id, !.state = "idle", !.timer = apduTimeout]
             u  == ReserveInvokeID(t, apduTimeout)
  <1>1. CASE id = 0 BY <1>1 DEF ReserveInvokeID
  <1>2. CASE id # 0
    <2>1. SlotsHolding(t, 0) # {}
      BY <1>2 DEF NextFreeInvokeID, TransactionAvailable, SlotsHolding
    <2>2. i \in Slots /\ t.slot[i].id = 0
      BY <2>1, FindIndexFinds DEF FirstFreeIndex
    <2>3. t.slot \in [Slots -> Slot] BY DEF GoodTable, Table
    <2>4. u = [slot |-> [t.slot EXCEPT ![i] = s], current |-> Around(id + 1)]
      BY <1>2 DEF ReserveInvokeID
    <2>5. s.id = id /\ s.state = "idle"
      <3>1. PICK x \in Slot : x = t.slot[i] BY <2>2, <2>3
      <3>2. LET r == [x EXCEPT !.id = id, !.state = "idle", !.timer = apduTimeout]
            IN  r.id = id /\ r.state = "idle"
        <4> HIDE DEF id, i
        <4> QED BY DEF Slot
      <3> QED BY <3>1, <3>2
    <2> HIDE DEF id, i, s, u
    <2>6. u.slot = [t.slot EXCEPT ![i] = s] BY <2>4
    <2>7. u.slot[j] = IF j = i THEN s ELSE t.slot[j] BY <2>3, <2>6
    <2>8. \/ u.slot[j] = t.slot[j]
          \/ t.slot[j].id = 0 /\ u.slot[j].id = id /\ u.slot[j].state = "idle"
      BY <2>2, <2>5, <2>7
    <2> QED BY <2>8 DEF u, id
  <1> QED BY <1>1, <1>2

LEMMA SetSlotwise ==
  ASSUME NEW t, GoodTable(t), NEW id, NEW pdu, NEW apduTimeout, NEW j \in Slots
  PROVE  LET u == SetTransaction(t, id, pdu, apduTimeout)
         IN  \/ u.slot[j] = t.slot[j]
             \/ t.slot[j].id = id /\ u.slot[j].id = id /\ u.slot[j].pdu = pdu
  <1> DEFINE i == FindIndex(t, id)
             s == [t.slot[i] EXCEPT !.state = "await", !.retries = 0,
                                    !.timer = apduTimeout, !.pdu = pdu]
             u == SetTransaction(t, id, pdu, apduTimeout)
  <1>1. CASE id = 0 \/ InvokeIdFree(t, id) BY <1>1 DEF SetTransaction
  <1>2. CASE ~(id = 0 \/ InvokeIdFree(t, id))
    <2>1. i \in Slots /\ t.slot[i].id = id
      BY <1>2, FindIndexFinds, IsFreeMeansUnused
    <2>2. t.slot \in [Slots -> Slot] /\ t = [slot |-> t.slot, current |-> t.current]
      BY DEF GoodTable, Table
    <2>3. u = [t EXCEPT !.slot[i] = s] BY <1>2 DEF SetTransaction
    <2>4. s.id = id /\ s.pdu = pdu BY <2>1, <2>2 DEF Slot
    <2> HIDE DEF i, s, u
    <2>5. u.slot = [t.slot EXCEPT ![i] = s] BY <2>2, <2>3
    <2>6. u.slot[j] = IF j = i THEN s ELSE t.slot[j] BY <2>2, <2>5
    <2>7. \/ u.slot[j] = t.slot[j]
          \/ t.slot[j].id = id /\ u.slot[j].id = id /\ u.slot[j].pdu = pdu
      BY <2>1, <2>4, <2>6
    <2> QED BY <2>7 DEF u
  <1> QED BY <1>1, <1>2

LEMMA FreeSlotwise ==
  ASSUME NEW t, GoodTable(t), NEW id, NEW j \in Slots
  PROVE  LET u == FreeInvokeID(t, id)
         IN  \/ u.slot[j] = t.slot[j]
             \/ t.slot[j].id = id /\ u.slot[j].id = 0 /\ u.slot[j].state = "idle"
  <1> DEFINE i == FindIndex(t, id)
             s == [t.slot[i] EXCEPT !.state = "idle", !.id = 0]
             u == FreeInvokeID(t, id)
  <1>1. CASE InvokeIdFree(t, id) BY <1>1 DEF FreeInvokeID
  <1>2. CASE ~InvokeIdFree(t, id)
    <2>1. i \in Slots /\ t.slot[i].id = id
      BY <1>2, FindIndexFinds, IsFreeMeansUnused
    <2>2. t.slot \in [Slots -> Slot] /\ t = [slot |-> t.slot, current |-> t.current]
      BY DEF GoodTable, Table
    <2>3. u = [t EXCEPT !.slot[i] = s] BY <1>2 DEF FreeInvokeID
    <2>4. s.id = 0 /\ s.state = "idle" BY <2>1, <2>2, FreedSlot
    <2> HIDE DEF i, s, u
    <2>5. u.slot = [t.slot EXCEPT ![i] = s] BY <2>2, <2>3
    <2>6. u.slot[j] = IF j = i THEN s ELSE t.slot[j] BY <2>2, <2>5
    <2>7. \/ u.slot[j] = t.slot[j]
          \/ t.slot[j].id = id /\ u.slot[j].id = 0 /\ u.slot[j].state = "idle"
      BY <2>1, <2>4, <2>6
    <2> QED BY <2>7 DEF u
  <1> QED BY <1>1, <1>2

LEMMA TimedSlotPdu ==
  ASSUME NEW s \in Slot, NEW ms, NEW apduTimeout, NEW apduRetries
  PROVE  TimedSlot(s, ms, apduTimeout, apduRetries).pdu = s.pdu
  BY DEF TimedSlot, Slot
-----------------------------------------------------------------------------
\* The whole table after each operator: which slot it edits, how, and that it
\* leaves the others alone.

\* The search for an ID in use ends at the one slot that has it.
LEMMA HeldAt ==
  ASSUME NEW t, GoodTable(t), NEW i \in Slots, t.slot[i].id # 0
  PROVE  FindIndex(t, t.slot[i].id) = i
  <1> DEFINE id == t.slot[i].id
  <1>1. SlotsHolding(t, id) # {} BY DEF SlotsHolding
  <1>2. FindIndex(t, id) \in Slots /\ t.slot[FindIndex(t, id)].id = id
    BY <1>1, FindIndexFinds
  <1> QED BY <1>2 DEF GoodTable, IDsUnique

LEMMA ReservedTable ==
  ASSUME NEW t, GoodTable(t), NEW apduTimeout \in Nat, NextFreeInvokeID(t) # 0
  PROVE  LET u == ReserveInvokeID(t, apduTimeout)
         IN  /\ u.current = Around(NextFreeInvokeID(t) + 1)
             /\ \E i \in Slots :
                   /\ t.slot[i].id = 0
                   /\ u.slot[i].id = NextFreeInvokeID(t)
                   /\ u.slot[i].retries = t.slot[i].retries
                   /\ \A j \in Slots \ {i} : u.slot[j] = t.slot[j]
  <1> DEFINE id == NextFreeInvokeID(t)
             i  == FirstFreeIndex(t)
             s  == [t.slot[i] EXCEPT !.id = id, !.state = "idle", !.timer = apduTimeout]
             u  == ReserveInvokeID(t, apduTimeout)
  <1>1. SlotsHolding(t, 0) # {}
    BY DEF NextFreeInvokeID, TransactionAvailable, SlotsHolding
  <1>2. i \in Slots /\ t.slot[i].id = 0 BY <1>1, FindIndexFinds DEF FirstFreeIndex
  <1>3. t.slot \in [Slots -> Slot] BY DEF GoodTable, Table
  <1>4. u = [slot |-> [t.slot EXCEPT ![i] = s], current |-> Around(id + 1)]
    BY DEF ReserveInvokeID
  <1>5. s.id = id /\ s.retries = t.slot[i].retries
    <2>1. PICK x \in Slot : x = t.slot[i] BY <1>2, <1>3
    <2>2. LET r == [x EXCEPT !.id = id, !.state = "idle", !.timer = apduTimeout]
          IN  r.id = id /\ r.retries = x.retries
      <3> HIDE DEF id, i
      <3> QED BY DEF Slot
    <2> QED BY <2>1, <2>2
  <1> HIDE DEF id, i, s, u
  <1>6. u.slot = [t.slot EXCEPT ![i] = s] /\ u.current = Around(id + 1) BY <1>4
  <1>7. u.slot[i] = s /\ \A j \in Slots \ {i} : u.slot[j] = t.slot[j]
    BY <1>2, <1>3, <1>6
  <1> QED BY <1>2, <1>5, <1>6, <1>7 DEF id, u

LEMMA SetTable ==
  ASSUME NEW t, NEW id, NEW pdu, NEW apduTimeout, NEW i,
         GoodTable(t), id # 0, i \in SlotsHolding(t, id)
  PROVE  \E s : /\ s.id = id /\ s.state = "await" /\ s.retries = 0 /\ s.pdu = pdu
               /\ SetTransaction(t, id, pdu, apduTimeout)
                    = [slot |-> [t.slot EXCEPT ![i] = s], current |-> t.current]
  <1> DEFINE s == [t.slot[i] EXCEPT !.state = "await", !.retries = 0,
                                    !.timer = apduTimeout, !.pdu = pdu]
  <1>1. FindIndex(t, id) = i /\ i \in Slots BY HeldAt DEF SlotsHolding
  <1>2. ~InvokeIdFree(t, id) BY IsFreeMeansUnused
  <1>3. SetTransaction(t, id, pdu, apduTimeout) = [t EXCEPT !.slot[i] = s]
    BY <1>1, <1>2 DEF SetTransaction
  <1>4. t.slot \in [Slots -> Slot] /\ t = [slot |-> t.slot, current |-> t.current]
    BY DEF GoodTable, Table
  <1>5. s.id = id /\ s.state = "await" /\ s.retries = 0 /\ s.pdu = pdu
    <2>1. PICK x \in Slot : x = t.slot[i] /\ x.id = id
      BY <1>1, <1>4 DEF SlotsHolding
    <2>2. LET r == [x EXCEPT !.state = "await", !.retries = 0, !.timer = apduTimeout, !.pdu = pdu]
          IN  r.id = x.id /\ r.state = "await" /\ r.retries = 0 /\ r.pdu = pdu
      BY DEF Slot
    <2> QED BY <2>1, <2>2
  <1> HIDE DEF s
  <1>6. [t EXCEPT !.slot[i] = s]
          = [slot |-> [t.slot EXCEPT ![i] = s], current |-> t.current]
    BY <1>4
  <1> QED BY <1>3, <1>5, <1>6

LEMMA FreedTable ==
  ASSUME NEW t, GoodTable(t), NEW i \in Slots, t.slot[i].id # 0
  PROVE  LET u == FreeInvokeID(t, t.slot[i].id)
         IN  /\ u.slot[i].id = 0
             /\ u.slot[i].retries = t.slot[i].retries
             /\ \A j \in Slots \ {i} : u.slot[j] = t.slot[j]
             /\ u.current = t.current
  <1> DEFINE id == t.slot[i].id
             s  == [t.slot[i] EXCEPT !.state = "idle", !.id = 0]
             u  == FreeInvokeID(t, id)
  <1>1. FindIndex(t, id) = i BY HeldAt
  <1>2. ~InvokeIdFree(t, id) BY IsFreeMeansUnused DEF SlotsHolding
  <1>3. u = [t EXCEPT !.slot[i] = s] BY <1>1, <1>2 DEF FreeInvokeID
  <1>4. t.slot \in [Slots -> Slot] /\ t = [slot |-> t.slot, current |-> t.current]
    BY DEF GoodTable, Table
  <1>5. s.id = 0 /\ s.retries = t.slot[i].retries
    <2>1. PICK x \in Slot : x = t.slot[i] BY <1>4
    <2>2. LET r == [x EXCEPT !.state = "idle", !.id = 0]
          IN  r.id = 0 /\ r.retries = x.retries
      BY DEF Slot
    <2> QED BY <2>1, <2>2
  <1> HIDE DEF s, u
  <1>6. u.slot = [t.slot EXCEPT ![i] = s] /\ u.current = t.current BY <1>3, <1>4
  <1>7. u.slot[i] = s /\ \A j \in Slots \ {i} : u.slot[j] = t.slot[j] BY <1>4, <1>6
  <1> QED BY <1>5, <1>6, <1>7 DEF u

\* Freeing an ID nobody holds changes nothing, and neither does freeing 0, which
\* finds the first free slot.
LEMMA FreedNothing ==
  ASSUME NEW t, GoodTable(t), NEW id, id = 0 \/ SlotsHolding(t, id) = {}
  PROVE  FreeInvokeID(t, id) = t
  <1>1. CASE SlotsHolding(t, id) = {} BY <1>1, IsFreeMeansUnused DEF FreeInvokeID
  <1>2. CASE id = 0 /\ SlotsHolding(t, id) # {}
    <2> DEFINE i == FindIndex(t, id)
               s == [t.slot[i] EXCEPT !.state = "idle", !.id = 0]
    <2>1. i \in Slots /\ t.slot[i].id = 0 BY <1>2, FindIndexFinds
    <2>2. t.slot \in [Slots -> Slot] /\ t = [slot |-> t.slot, current |-> t.current]
      BY DEF GoodTable, Table
    <2>3. t.slot[i].state = "idle" BY <2>1 DEF GoodTable, UnusedAreIdle
    <2>4. s = t.slot[i]
      <3>1. PICK x \in Slot : x = t.slot[i] BY <2>1, <2>2
      <3>2. x.id = 0 /\ x.state = "idle" BY <2>1, <2>3, <3>1
      <3>3. [x EXCEPT !.state = "idle", !.id = 0] = x
        <4> HIDE DEF i, s
        <4> QED BY <3>2 DEF Slot
      <3> QED BY <3>1, <3>3
    <2>5. FreeInvokeID(t, id) = [t EXCEPT !.slot[i] = s]
      BY <1>2, IsFreeMeansUnused DEF FreeInvokeID
    <2> HIDE DEF i, s
    <2>6. [t.slot EXCEPT ![i] = s] = t.slot BY <2>1, <2>2, <2>4
    <2>7. [t EXCEPT !.slot[i] = s]
            = [slot |-> [t.slot EXCEPT ![i] = s], current |-> t.current]
      BY <2>2
    <2> QED BY <2>2, <2>5, <2>6, <2>7
  <1> QED BY <1>1, <1>2
\* What the timer counts and decides for one slot.
LEMMA TimedSlotCount ==
  ASSUME NEW s \in Slot, NEW ms \in Nat, NEW apduTimeout \in Nat, NEW apduRetries \in Nat
  PROVE  LET r == TimedSlot(s, ms, apduTimeout, apduRetries)
         IN  /\ r.retries = IF Resends(s, ms, apduRetries) THEN s.retries + 1 ELSE s.retries
             /\ r.state = IF Expires(s, ms) /\ ~Resends(s, ms, apduRetries)
                          THEN "idle" ELSE s.state
  <1> DEFINE r == TimedSlot(s, ms, apduTimeout, apduRetries)
  <1>1. s.timer \in Nat /\ s.retries \in Nat /\ s.state \in {"idle", "await"} BY DEF Slot
  <1>2. CASE s.state # "await" BY <1>1, <1>2 DEF TimedSlot, Expires, Resends
  <1>3. CASE s.state = "await" /\ s.timer > ms
    <2>1. r = [s EXCEPT !.timer = @ - ms] /\ ~Expires(s, ms)
      BY <1>1, <1>3 DEF TimedSlot, Expires
    <2> QED BY <1>3, <2>1 DEF Slot, Resends
  <1>4. CASE s.state = "await" /\ s.timer <= ms
    <2>1. Expires(s, ms) BY <1>4 DEF Expires
    <2>2. CASE s.retries < apduRetries
      <3>1. r = [s EXCEPT !.timer = apduTimeout, !.retries = s.retries + 1] /\ Resends(s, ms, apduRetries)
        BY <1>4, <2>2 DEF TimedSlot, Expires, Resends
      <3>2. PICK n \in Nat : n = s.retries + 1 BY <1>1
      <3>3. LET q == [s EXCEPT !.timer = apduTimeout, !.retries = n]
            IN  q.retries = n /\ q.state = s.state
        BY DEF Slot
      <3> QED BY <3>1, <3>2, <3>3
    <2>3. CASE ~(s.retries < apduRetries)
      <3>1. r = [s EXCEPT !.timer = 0, !.state = "idle"] /\ ~Resends(s, ms, apduRetries)
        BY <1>1, <1>4, <2>3 DEF TimedSlot, Expires, Resends
      <3>2. LET q == [s EXCEPT !.timer = 0, !.state = "idle"]
            IN  q.retries = s.retries /\ q.state = "idle"
        BY DEF Slot
      <3> QED BY <2>1, <3>1, <3>2
    <2> QED BY <2>2, <2>3
  <1> QED BY <1>1, <1>2, <1>3, <1>4

LEMMA TimedTable ==
  ASSUME NEW t, GoodTable(t), NEW ms, NEW apduTimeout, NEW apduRetries
  PROVE  LET u == TimerMilliseconds(t, ms, apduTimeout, apduRetries)
         IN  /\ u.current = t.current
             /\ \A i \in Slots : u.slot[i] = TimedSlot(t.slot[i], ms, apduTimeout, apduRetries)
  <1>1. t = [slot |-> t.slot, current |-> t.current] BY DEF GoodTable, Table
  <1> QED BY <1>1 DEF TimerMilliseconds

-----------------------------------------------------------------------------
\* A waiting slot holds the request that will be sent again.
WaitingHoldRequests(t) ==
    \A i \in Slots : t.slot[i].state = "await" => t.slot[i].pdu \in Pdus

IInv == TypeOK /\ GoodTable(tsm) /\ WaitingHoldRequests(tsm)

-----------------------------------------------------------------------------
LEMMA InitIInv == Init => IInv
  <1> SUFFICES ASSUME Init PROVE IInv OBVIOUS
  <1>1. PICK first \in InvokeIDs : tsm = EmptyTable(first) BY DEF Init
  <1>2. GoodTable(tsm) BY <1>1, EmptyIsGood
  <1>3. WaitingHoldRequests(tsm)
    BY <1>1 DEF WaitingHoldRequests, EmptyTable, EmptySlot
  <1>4. TypeOK BY <1>2 DEF TypeOK, Init, GoodTable
  <1> QED BY <1>2, <1>3, <1>4 DEF IInv

\* The ID a sender works with.
LEMMA SenderID ==
  ASSUME IInv, NextFreeInvokeID(tsm) # 0
  PROVE  NextFreeInvokeID(tsm) \in InvokeIDs \ UsedIDs(tsm)
  <1>1. TransactionAvailable(tsm) BY DEF NextFreeInvokeID
  <1>2. tsm.current \in InvokeIDs BY DEF IInv, TypeOK, Table
  <1> QED BY <1>1, <1>2, SearchSucceeds

LEMMA ReserveIInv ==
  ASSUME IInv
  PROVE  LET u == ReserveInvokeID(tsm, timeout)
         IN  GoodTable(u) /\ WaitingHoldRequests(u)
  <1> DEFINE u == ReserveInvokeID(tsm, timeout)
  <1>1. timeout \in Nat BY TimingAssumption DEF IInv, TypeOK
  <1>2. GoodTable(u) BY <1>1, ReserveKeepsGood DEF IInv
  <1>3. WaitingHoldRequests(u)
    <2> SUFFICES ASSUME NEW i \in Slots, u.slot[i].state = "await"
                 PROVE  u.slot[i].pdu \in Pdus
      BY DEF WaitingHoldRequests
    <2>1. u.slot[i] = tsm.slot[i] \/ u.slot[i].state = "idle"
      BY ReserveSlotwise DEF IInv
    <2> HIDE DEF u
    <2> QED BY <2>1 DEF IInv, WaitingHoldRequests
  <1> QED BY <1>2, <1>3

LEMMA FreeWaiting ==
  ASSUME NEW t, GoodTable(t), WaitingHoldRequests(t), NEW id
  PROVE  WaitingHoldRequests(FreeInvokeID(t, id))
  <1> DEFINE u == FreeInvokeID(t, id)
  <1> SUFFICES ASSUME NEW i \in Slots, u.slot[i].state = "await"
               PROVE  u.slot[i].pdu \in Pdus
    BY DEF WaitingHoldRequests
  <1>1. u.slot[i] = t.slot[i] \/ u.slot[i].state = "idle" BY FreeSlotwise
  <1> HIDE DEF u
  <1> QED BY <1>1 DEF WaitingHoldRequests

-----------------------------------------------------------------------------
LEMMA SendIInv ==
  ASSUME IInv, NEW pdu \in Pdus, SendRequest(pdu)
  PROVE  IInv'
  <1> DEFINE id == NextFreeInvokeID(tsm)
             u  == ReserveInvokeID(tsm, timeout)
  <1>1. id # 0 /\ tsm' = SetTransaction(u, id, pdu, timeout)
    BY DEF SendRequest
  <1>2. id \in InvokeIDs BY <1>1, SenderID
  <1>3. timeout \in Nat BY TimingAssumption DEF IInv, TypeOK
  <1>4. GoodTable(u) /\ WaitingHoldRequests(u) BY ReserveIInv
  <1>5. wire' = wire \cup {[id |-> id, pdu |-> pdu]} /\ UNCHANGED <<timeout, retries>>
    BY DEF SendRequest
  <1> HIDE DEF id, u
  <1>6. GoodTable(tsm') BY <1>1, <1>3, <1>4, SetKeepsGood
  <1>7. ASSUME NEW i \in Slots, tsm'.slot[i].state = "await"
        PROVE  tsm'.slot[i].pdu \in Pdus
    <2>1. \/ tsm'.slot[i] = u.slot[i]
          \/ tsm'.slot[i].pdu = pdu
      BY <1>1, <1>4, SetSlotwise
    <2> QED BY <1>4, <1>7, <2>1 DEF WaitingHoldRequests
  <1>8. wire' \subseteq Request BY <1>2, <1>5 DEF IInv, TypeOK, Request
  <1>9. TypeOK' BY <1>5, <1>6, <1>8 DEF IInv, TypeOK, GoodTable
  <1> QED BY <1>6, <1>7, <1>9 DEF IInv, WaitingHoldRequests, GoodTable, IDsUnique, UnusedAreIdle

LEMMA TooLongIInv ==
  ASSUME IInv, SendTooLong
  PROVE  IInv'
  <1> DEFINE id == NextFreeInvokeID(tsm)
             u  == ReserveInvokeID(tsm, timeout)
  <1>1. tsm' = FreeInvokeID(u, id) /\ UNCHANGED <<timeout, retries, wire>>
    BY DEF SendTooLong
  <1>2. GoodTable(u) /\ WaitingHoldRequests(u) BY ReserveIInv
  <1> HIDE DEF id, u
  <1>3. GoodTable(tsm') /\ WaitingHoldRequests(tsm')
    BY <1>1, <1>2, FreeKeepsGood, FreeWaiting
  <1>4. TypeOK' BY <1>1, <1>3 DEF IInv, TypeOK, GoodTable
  <1> QED BY <1>3, <1>4 DEF IInv, WaitingHoldRequests, GoodTable, IDsUnique, UnusedAreIdle

LEMMA FreeIInv ==
  ASSUME IInv, NEW id, tsm' = FreeInvokeID(tsm, id), UNCHANGED <<timeout, retries, wire>>
  PROVE  IInv'
  <1>1. GoodTable(tsm') /\ WaitingHoldRequests(tsm')
    BY FreeKeepsGood, FreeWaiting DEF IInv
  <1>2. TypeOK' BY <1>1 DEF IInv, TypeOK, GoodTable
  <1> QED BY <1>1, <1>2 DEF IInv, WaitingHoldRequests, GoodTable, IDsUnique, UnusedAreIdle

LEMMA TimerIInv ==
  ASSUME IInv, NEW ms \in Ticks, Timer(ms)
  PROVE  IInv'
  <1>1. ms \in Nat /\ timeout \in Nat /\ retries \in Nat
    BY TimingAssumption DEF IInv, TypeOK
  <1>2. tsm' = TimerMilliseconds(tsm, ms, timeout, retries) BY DEF Timer
  <1>3. GoodTable(tsm) BY DEF IInv
  <1>4. GoodTable(tsm') BY <1>1, <1>2, <1>3, TimerKeepsGood
  <1>5. ASSUME NEW i \in Slots
        PROVE  /\ tsm.slot[i] \in Slot
               /\ tsm'.slot[i] = TimedSlot(tsm.slot[i], ms, timeout, retries)
               /\ tsm'.slot[i].pdu = tsm.slot[i].pdu
    <2>1. tsm \in Table /\ tsm.slot[i] \in Slot BY <1>3 DEF GoodTable, Table
    <2>2. tsm'.slot[i] = TimedSlot(tsm.slot[i], ms, timeout, retries)
      BY <1>2, <2>1 DEF TimerMilliseconds, Table
    <2> QED BY <2>1, <2>2, TimedSlotPdu
  <1>6. ASSUME NEW i \in Slots, tsm'.slot[i].state = "await"
        PROVE  tsm'.slot[i].pdu \in Pdus
    <2>1. tsm.slot[i].state \in {"idle", "await"} BY <1>5 DEF Slot
    <2>2. tsm.slot[i].state # "idle" BY <1>1, <1>5, <1>6, TimedSlotType
    <2> QED BY <1>5, <2>1, <2>2 DEF IInv, WaitingHoldRequests
  <1>7. wire' \subseteq Request
    <2> SUFFICES ASSUME NEW i \in ResentBy(tsm, ms, retries)
                 PROVE  [id |-> tsm.slot[i].id, pdu |-> tsm.slot[i].pdu] \in Request
      BY DEF Timer, IInv, TypeOK
    <2>1. i \in Slots /\ tsm.slot[i].state = "await"
      BY DEF ResentBy, Resends, Expires
    <2>2. tsm.slot[i].pdu \in Pdus BY <2>1 DEF IInv, WaitingHoldRequests
    <2>3. tsm.slot[i].id # 0 BY <1>3, <2>1 DEF GoodTable, UnusedAreIdle
    <2>4. tsm.slot[i].id \in 0 .. MaxInvokeID BY <1>5, <2>1 DEF Slot
    <2>5. tsm.slot[i].id \in InvokeIDs BY <2>3, <2>4, ConstantsType DEF InvokeIDs
    <2> QED BY <2>2, <2>5 DEF Request
  <1>8. TypeOK' BY <1>4, <1>7 DEF IInv, TypeOK, GoodTable, Timer
  <1> QED BY <1>4, <1>6, <1>8 DEF IInv, WaitingHoldRequests, GoodTable, IDsUnique, UnusedAreIdle

-----------------------------------------------------------------------------
LEMMA NextIInv == IInv /\ [Next]_vars => IInv'
  <1> SUFFICES ASSUME IInv, [Next]_vars PROVE IInv' OBVIOUS
  <1>1. ASSUME NEW pdu \in Pdus, SendRequest(pdu) PROVE IInv' BY <1>1, SendIInv
  <1>2. ASSUME SendTooLong PROVE IInv' BY <1>2, TooLongIInv
  <1>3. ASSUME NEW m \in wire, ReceiveAnswer(m) PROVE IInv'
    BY <1>3, FreeIInv DEF ReceiveAnswer
  <1>4. ASSUME ReceiveSegmentAck PROVE IInv' BY <1>4, FreeIInv DEF ReceiveSegmentAck
  <1>5. ASSUME NEW ms \in Timeouts, WriteTimeout(ms) PROVE IInv'
    BY <1>5 DEF WriteTimeout, IInv, TypeOK, GoodTable, WaitingHoldRequests,
                IDsUnique, UnusedAreIdle
  <1>6. ASSUME NEW n \in Retries, WriteRetries(n) PROVE IInv'
    BY <1>6 DEF WriteRetries, IInv, TypeOK, GoodTable, WaitingHoldRequests,
                IDsUnique, UnusedAreIdle
  <1>7. ASSUME NEW ms \in Ticks, Timer(ms) PROVE IInv' BY <1>7, TimerIInv
  <1>8. ASSUME UNCHANGED vars PROVE IInv'
    BY <1>8 DEF vars, IInv, TypeOK, GoodTable, WaitingHoldRequests,
                IDsUnique, UnusedAreIdle
  <1> QED BY <1>1, <1>2, <1>3, <1>4, <1>5, <1>6, <1>7, <1>8 DEF Next

\* The rules of the table hold in every reachable state of the senders, the
\* receiver and the timer.
THEOREM TableTheorem == Spec => []IInv
  <1> QED BY InitIInv, NextIInv, PTL DEF Spec
-----------------------------------------------------------------------------
\* The types, among them that only nonzero IDs and real requests reach the wire.
THEOREM TypeTheorem == Spec => []TypeOK
  <1>1. IInv => TypeOK BY DEF IInv
  <1> QED BY <1>1, TableTheorem, PTL

\* No two requests in the table carry the same invoke ID.
THEOREM UniqueTheorem == Spec => []UniqueInvokeIDs
  <1>1. IInv => UniqueInvokeIDs BY DEF IInv, GoodTable, UniqueInvokeIDs
  <1> QED BY <1>1, TableTheorem, PTL

\* The two ways of looking for free slots agree: every slot without an ID is idle.
THEOREM FreeSlotsTheorem == Spec => []FreeSlotsCounted
  <1>1. ASSUME IInv
        PROVE  {i \in Slots : tsm.slot[i].id = 0 /\ tsm.slot[i].state = "idle"}
                 = SlotsHolding(tsm, 0)
    BY <1>1 DEF IInv, GoodTable, UnusedAreIdle, SlotsHolding
  <1>2. IInv => FreeSlotsCounted BY <1>1 DEF IdleCount, FreeSlotsCounted
  <1> QED BY <1>2, TableTheorem, PTL

\* While a slot is free the search for an invoke ID ends at one not in use: the
\* loop in tsm_next_free_invokeID never runs for ever.
THEOREM SearchTheorem == Spec => []SearchTerminates
  <1>1. ASSUME IInv, TransactionAvailable(tsm)
        PROVE  /\ FreeDistances(tsm) # {}
               /\ NextFreeInvokeID(tsm) \in InvokeIDs \ UsedIDs(tsm)
    <2>1. tsm.current \in InvokeIDs BY <1>1 DEF IInv, TypeOK, Table
    <2> QED BY <1>1, <2>1, SearchSucceeds
  <1>2. IInv => SearchTerminates BY <1>1 DEF SearchTerminates
  <1> QED BY <1>2, TableTheorem, PTL

-----------------------------------------------------------------------------
\* Failure is final: a failed request is a used slot that is idle, and each step
\* leaves such a slot alone or frees its ID.

LEMMA FailedIsIdleSlot ==
  ASSUME NEW t, GoodTable(t), NEW id \in InvokeIDs
  PROVE  InvokeIdFailed(t, id)
           <=> \E i \in Slots : t.slot[i].id = id /\ t.slot[i].state = "idle"
  <1> DEFINE i == FindIndex(t, id)
  <1>1. id # 0 BY ConstantsType DEF InvokeIDs
  <1>2. CASE SlotsHolding(t, id) = {}
    <2>1. i = MaxTransactions BY <1>2, FindIndexFinds
    <2> QED BY <1>2, <2>1 DEF InvokeIdFailed, SlotsHolding
  <1>3. CASE SlotsHolding(t, id) # {}
    <2>1. i \in Slots /\ t.slot[i].id = id BY <1>3, FindIndexFinds
    <2>2. i # MaxTransactions BY <2>1, ConstantsType DEF Slots
    <2>3. \A j \in Slots : t.slot[j].id = id => j = i
      BY <1>1, <2>1 DEF GoodTable, IDsUnique
    <2> HIDE DEF i
    <2>4. (t.slot[i].state = "idle")
            <=> \E j \in Slots : t.slot[j].id = id /\ t.slot[j].state = "idle"
      BY <2>1, <2>3
    <2> QED BY <2>2, <2>4 DEF InvokeIdFailed, i
  <1> QED BY <1>2, <1>3

\* Enough for a step: the slot of a failed request is unchanged or without an ID.
LEMMA FailedStays ==
  ASSUME IInv, IInv',
         \A j \in Slots : tsm.slot[j].id # 0 /\ tsm.slot[j].state = "idle" =>
            tsm'.slot[j] = tsm.slot[j] \/ tsm'.slot[j].id = 0,
         \A j \in Slots : tsm'.slot[j].id # 0 =>
            \/ tsm'.slot[j].id = tsm.slot[j].id
            \/ tsm'.slot[j].id \notin UsedIDs(tsm)
  PROVE  \A id \in FailedIDs : id \in UsedIDs(tsm)' => id \in FailedIDs'
  <1> SUFFICES ASSUME NEW id \in FailedIDs, id \in UsedIDs(tsm)'
               PROVE  id \in FailedIDs'
    OBVIOUS
  <1>1. id \in InvokeIDs /\ id # 0 /\ InvokeIdFailed(tsm, id)
    BY ConstantsType DEF FailedIDs, InvokeIDs
  <1>2. PICK i \in Slots : tsm.slot[i].id = id /\ tsm.slot[i].state = "idle"
    BY <1>1, FailedIsIdleSlot DEF IInv
  <1>3. PICK j \in Slots : tsm'.slot[j].id = id
    BY DEF UsedIDs, SlotsHolding
  <1>4. id \in UsedIDs(tsm) BY <1>1, <1>2 DEF UsedIDs, SlotsHolding
  <1>5. tsm.slot[j].id = id BY <1>1, <1>3, <1>4
  <1>6. i = j BY <1>1, <1>2, <1>5 DEF IInv, GoodTable, IDsUnique
  <1>7. tsm'.slot[i].id = id /\ tsm'.slot[i].state = "idle"
    BY <1>1, <1>2, <1>3, <1>6
  <1>8. GoodTable(tsm') BY DEF IInv, GoodTable, IDsUnique, UnusedAreIdle
  <1>9. InvokeIdFailed(tsm', id) BY <1>1, <1>7, <1>8, FailedIsIdleSlot
  <1> QED BY <1>1, <1>9 DEF FailedIDs, InvokeIdFailed, FindIndex, SlotsHolding

LEMMA SendFinal ==
  ASSUME IInv, IInv', NEW pdu \in Pdus, SendRequest(pdu)
  PROVE  \A id \in FailedIDs : id \in UsedIDs(tsm)' => id \in FailedIDs'
  <1> DEFINE id == NextFreeInvokeID(tsm)
             u  == ReserveInvokeID(tsm, timeout)
  <1>1. id # 0 /\ tsm' = SetTransaction(u, id, pdu, timeout) BY DEF SendRequest
  <1>2. id \in InvokeIDs /\ id \notin UsedIDs(tsm) BY <1>1, SenderID
  <1>3. ASSUME NEW j \in Slots PROVE tsm.slot[j].id # id
    BY <1>2 DEF UsedIDs, SlotsHolding
  <1>4. ASSUME NEW j \in Slots
        PROVE  \/ u.slot[j] = tsm.slot[j]
               \/ tsm.slot[j].id = 0 /\ u.slot[j].id = id
    BY ReserveSlotwise DEF IInv
  <1>5. GoodTable(u) BY ReserveIInv
  <1> HIDE DEF id, u
  <1>6. ASSUME NEW j \in Slots
        PROVE  \/ tsm'.slot[j] = u.slot[j]
               \/ u.slot[j].id = id /\ tsm'.slot[j].id = id
    BY <1>1, <1>5, SetSlotwise
  <1> QED BY <1>2, <1>3, <1>4, <1>6, FailedStays

LEMMA TooLongFinal ==
  ASSUME IInv, IInv', SendTooLong
  PROVE  \A id \in FailedIDs : id \in UsedIDs(tsm)' => id \in FailedIDs'
  <1> DEFINE id == NextFreeInvokeID(tsm)
             u  == ReserveInvokeID(tsm, timeout)
  <1>1. id # 0 /\ tsm' = FreeInvokeID(u, id) BY DEF SendTooLong
  <1>2. id \in InvokeIDs /\ id \notin UsedIDs(tsm) BY <1>1, SenderID
  <1>3. ASSUME NEW j \in Slots
        PROVE  \/ u.slot[j] = tsm.slot[j]
               \/ tsm.slot[j].id = 0 /\ u.slot[j].id = id
    BY ReserveSlotwise DEF IInv
  <1>4. GoodTable(u) BY ReserveIInv
  <1> HIDE DEF id, u
  <1>5. ASSUME NEW j \in Slots
        PROVE  tsm'.slot[j] = u.slot[j] \/ tsm'.slot[j].id = 0
    BY <1>1, <1>4, FreeSlotwise
  <1> QED BY <1>2, <1>3, <1>5, FailedStays

LEMMA FreeFinal ==
  ASSUME IInv, IInv', NEW n, tsm' = FreeInvokeID(tsm, n)
  PROVE  \A id \in FailedIDs : id \in UsedIDs(tsm)' => id \in FailedIDs'
  <1>1. ASSUME NEW j \in Slots
        PROVE  tsm'.slot[j] = tsm.slot[j] \/ tsm'.slot[j].id = 0
    BY FreeSlotwise DEF IInv
  <1> QED BY <1>1, FailedStays

LEMMA TimerFinal ==
  ASSUME IInv, IInv', NEW ms \in Ticks, Timer(ms)
  PROVE  \A id \in FailedIDs : id \in UsedIDs(tsm)' => id \in FailedIDs'
  <1>1. ms \in Nat /\ timeout \in Nat /\ retries \in Nat
    BY TimingAssumption DEF IInv, TypeOK
  <1>2. ASSUME NEW j \in Slots
        PROVE  /\ tsm'.slot[j].id = tsm.slot[j].id
               /\ tsm.slot[j].state = "idle" => tsm'.slot[j] = tsm.slot[j]
    <2>1. tsm \in Table /\ tsm.slot[j] \in Slot BY DEF IInv, TypeOK, Table
    <2>2. tsm'.slot[j] = TimedSlot(tsm.slot[j], ms, timeout, retries)
      BY <2>1 DEF Timer, TimerMilliseconds, Table
    <2>3. LET s == tsm.slot[j]
          IN  /\ TimedSlot(s, ms, timeout, retries).id = s.id
              /\ s.state = "idle" => TimedSlot(s, ms, timeout, retries) = s
      BY <1>1, <2>1, TimedSlotType
    <2> QED BY <2>2, <2>3
  <1> QED BY <1>2, FailedStays

\* A request that failed stays failed until its ID is freed, whatever is sent,
\* answered, configured or timed meanwhile.
THEOREM FailureTheorem == Spec => FailureIsFinal
  <1> DEFINE Final == \A id \in FailedIDs : id \in UsedIDs(tsm)' => id \in FailedIDs'
  <1>1. IInv /\ IInv' /\ [Next]_vars => [Final]_vars
    <2> SUFFICES ASSUME IInv, IInv', Next PROVE Final OBVIOUS
    <2>1. ASSUME NEW pdu \in Pdus, SendRequest(pdu) PROVE Final BY <2>1, SendFinal
    <2>2. ASSUME SendTooLong PROVE Final BY <2>2, TooLongFinal
    <2>3. ASSUME NEW m \in wire, ReceiveAnswer(m) PROVE Final
      BY <2>3, FreeFinal DEF ReceiveAnswer
    <2>4. ASSUME ReceiveSegmentAck PROVE Final BY <2>4, FreeFinal DEF ReceiveSegmentAck
    <2>5. ASSUME UNCHANGED tsm PROVE Final
      BY <2>5 DEF FailedIDs, InvokeIdFailed, FindIndex, SlotsHolding
    <2>6. ASSUME NEW ms \in Ticks, Timer(ms) PROVE Final BY <2>6, TimerFinal
    <2> QED BY <2>1, <2>2, <2>3, <2>4, <2>5, <2>6 DEF Next, WriteTimeout, WriteRetries
  <1> QED BY <1>1, TableTheorem, PTL DEF Spec, FailureIsFinal
-----------------------------------------------------------------------------
(***************************************************************************)
(* What each action does to the table, slot by slot: the history and the   *)
(* refinement below look at nothing else.                                  *)
(***************************************************************************)

LEMMA GoodNow ==
  ASSUME IInv, IInv'
  PROVE  GoodTable(tsm) /\ GoodTable(tsm')
  BY DEF IInv, GoodTable, IDsUnique, UnusedAreIdle

LEMMA InUse ==
  ASSUME NEW t, NEW id
  PROVE  id \in UsedIDs(t) <=> id \in InvokeIDs /\ \E i \in Slots : t.slot[i].id = id
  BY DEF UsedIDs, SlotsHolding

\* A slot in use carries a nonzero byte.
LEMMA SlotIDs ==
  ASSUME IInv, NEW i \in Slots
  PROVE  tsm.slot[i] \in Slot /\ (tsm.slot[i].id # 0 => tsm.slot[i].id \in InvokeIDs)
  <1>1. PICK s \in Slot : s = tsm.slot[i] BY DEF IInv, TypeOK, Table
  <1>2. s.id \in 0 .. MaxInvokeID BY DEF Slot
  <1> QED BY <1>1, <1>2, ConstantsType DEF InvokeIDs

LEMMA SendEffect ==
  ASSUME IInv, NEW pdu \in Pdus, SendRequest(pdu)
  PROVE  LET id == NextFreeInvokeID(tsm)
         IN  /\ id \in InvokeIDs \ UsedIDs(tsm)
             /\ tsm'.current = Around(id + 1)
             /\ \E i \in Slots :
                   /\ tsm.slot[i].id = 0
                   /\ tsm'.slot[i].id = id /\ tsm'.slot[i].state = "await"
                   /\ tsm'.slot[i].retries = 0 /\ tsm'.slot[i].pdu = pdu
                   /\ \A j \in Slots \ {i} : tsm'.slot[j] = tsm.slot[j]
  <1> DEFINE id == NextFreeInvokeID(tsm)
             u  == ReserveInvokeID(tsm, timeout)
  <1>1. id # 0 /\ tsm' = SetTransaction(u, id, pdu, timeout) BY DEF SendRequest
  <1>2. id \in InvokeIDs \ UsedIDs(tsm) BY <1>1, SenderID
  <1>3. timeout \in Nat /\ GoodTable(tsm) BY TimingAssumption DEF IInv, TypeOK
  <1>4. GoodTable(u) BY ReserveIInv
  <1>5. u.current = Around(id + 1) BY <1>1, <1>3, ReservedTable
  <1>6. PICK i \in Slots :
          /\ tsm.slot[i].id = 0 /\ u.slot[i].id = id
          /\ \A j \in Slots \ {i} : u.slot[j] = tsm.slot[j]
    BY <1>1, <1>3, ReservedTable
  <1> HIDE DEF id, u
  <1>7. PICK s :
          /\ s.id = id /\ s.state = "await" /\ s.retries = 0 /\ s.pdu = pdu
          /\ tsm' = [slot |-> [u.slot EXCEPT ![i] = s], current |-> u.current]
    <2>1. id # 0 /\ i \in SlotsHolding(u, id) BY <1>1, <1>6 DEF SlotsHolding
    <2>2. PICK s :
            /\ s.id = id /\ s.state = "await" /\ s.retries = 0 /\ s.pdu = pdu
            /\ SetTransaction(u, id, pdu, timeout)
                 = [slot |-> [u.slot EXCEPT ![i] = s], current |-> u.current]
      BY <1>4, <2>1, SetTable
    <2> QED BY <1>1, <2>2
  <1>8. u.slot \in [Slots -> Slot] BY <1>4 DEF GoodTable, Table
  <1>9. /\ tsm'.slot[i] = s /\ tsm'.current = u.current
        /\ \A j \in Slots \ {i} : tsm'.slot[j] = u.slot[j]
    BY <1>7, <1>8
  <1> QED BY <1>2, <1>5, <1>6, <1>7, <1>9 DEF id

LEMMA TooLongEffect ==
  ASSUME IInv, SendTooLong
  PROVE  LET id == NextFreeInvokeID(tsm)
         IN  /\ id \in InvokeIDs \ UsedIDs(tsm)
             /\ tsm'.current = Around(id + 1)
             /\ \E i \in Slots :
                   /\ tsm.slot[i].id = 0
                   /\ tsm'.slot[i].id = 0
                   /\ tsm'.slot[i].retries = tsm.slot[i].retries
                   /\ \A j \in Slots \ {i} : tsm'.slot[j] = tsm.slot[j]
  <1> DEFINE id == NextFreeInvokeID(tsm)
             u  == ReserveInvokeID(tsm, timeout)
  <1>1. id # 0 /\ tsm' = FreeInvokeID(u, id) BY DEF SendTooLong
  <1>2. id \in InvokeIDs \ UsedIDs(tsm) BY <1>1, SenderID
  <1>3. timeout \in Nat /\ GoodTable(tsm) BY TimingAssumption DEF IInv, TypeOK
  <1>4. GoodTable(u) BY ReserveIInv
  <1>5. u.current = Around(id + 1) BY <1>1, <1>3, ReservedTable
  <1>6. PICK i \in Slots :
          /\ tsm.slot[i].id = 0 /\ u.slot[i].id = id
          /\ u.slot[i].retries = tsm.slot[i].retries
          /\ \A j \in Slots \ {i} : u.slot[j] = tsm.slot[j]
    BY <1>1, <1>3, ReservedTable
  <1> HIDE DEF id, u
  <1>7. LET v == FreeInvokeID(u, u.slot[i].id)
        IN  /\ v.slot[i].id = 0 /\ v.slot[i].retries = u.slot[i].retries
            /\ \A j \in Slots \ {i} : v.slot[j] = u.slot[j]
            /\ v.current = u.current
    BY <1>1, <1>4, <1>6, FreedTable
  <1> QED BY <1>1, <1>2, <1>5, <1>6, <1>7 DEF id

LEMMA FreeEffect ==
  ASSUME IInv, NEW id, tsm' = FreeInvokeID(tsm, id), tsm' # tsm
  PROVE  /\ tsm'.current = tsm.current
         /\ \E i \in Slots :
               /\ tsm.slot[i].id = id /\ id # 0
               /\ tsm'.slot[i].id = 0
               /\ tsm'.slot[i].retries = tsm.slot[i].retries
               /\ \A j \in Slots \ {i} : tsm'.slot[j] = tsm.slot[j]
  <1>1. GoodTable(tsm) BY DEF IInv
  <1>2. id # 0 /\ SlotsHolding(tsm, id) # {} BY <1>1, FreedNothing
  <1>3. PICK i \in Slots : tsm.slot[i].id = id BY <1>2 DEF SlotsHolding
  <1>4. LET v == FreeInvokeID(tsm, tsm.slot[i].id)
        IN  /\ v.slot[i].id = 0 /\ v.slot[i].retries = tsm.slot[i].retries
            /\ \A j \in Slots \ {i} : v.slot[j] = tsm.slot[j]
            /\ v.current = tsm.current
    BY <1>1, <1>2, <1>3, FreedTable
  <1> QED BY <1>2, <1>3, <1>4

LEMMA TimerEffect ==
  ASSUME IInv, NEW ms \in Ticks, Timer(ms)
  PROVE  /\ tsm'.current = tsm.current
         /\ \A i \in Slots :
              LET s == tsm.slot[i]
                  r == tsm'.slot[i]
              IN  /\ s \in Slot /\ r.id = s.id /\ r.pdu = s.pdu
                  /\ r.retries = IF Resends(s, ms, retries) THEN s.retries + 1 ELSE s.retries
                  /\ r.state = IF Expires(s, ms) /\ ~Resends(s, ms, retries)
                               THEN "idle" ELSE s.state
  <1>1. ms \in Nat /\ timeout \in Nat /\ retries \in Nat
    BY TimingAssumption DEF IInv, TypeOK
  <1>2. GoodTable(tsm) BY DEF IInv
  <1>3. tsm' = TimerMilliseconds(tsm, ms, timeout, retries) BY DEF Timer
  <1>4. /\ tsm'.current = tsm.current
        /\ \A i \in Slots : tsm'.slot[i] = TimedSlot(tsm.slot[i], ms, timeout, retries)
    BY <1>2, <1>3, TimedTable
  <1>5. ASSUME NEW i \in Slots
        PROVE  LET s == tsm.slot[i]
                   r == tsm'.slot[i]
               IN  /\ s \in Slot /\ r.id = s.id /\ r.pdu = s.pdu
                   /\ r.retries = IF Resends(s, ms, retries) THEN s.retries + 1 ELSE s.retries
                   /\ r.state = IF Expires(s, ms) /\ ~Resends(s, ms, retries)
                                THEN "idle" ELSE s.state
    <2>1. PICK s \in Slot : s = tsm.slot[i] BY <1>2 DEF GoodTable, Table
    <2>2. tsm'.slot[i] = TimedSlot(s, ms, timeout, retries) BY <1>4, <2>1
    <2>3. PICK r : r = TimedSlot(s, ms, timeout, retries) OBVIOUS
    <2>4. r.id = s.id BY <1>1, <2>3, TimedSlotType
    <2>5. r.pdu = s.pdu BY <2>3, TimedSlotPdu
    <2>6. /\ r.retries = IF Resends(s, ms, retries) THEN s.retries + 1 ELSE s.retries
          /\ r.state = IF Expires(s, ms) /\ ~Resends(s, ms, retries)
                       THEN "idle" ELSE s.state
      BY <1>1, <2>3, TimedSlotCount
    <2> QED BY <2>1, <2>2, <2>3, <2>4, <2>5, <2>6
  <1> QED BY <1>4, <1>5

-----------------------------------------------------------------------------
(***************************************************************************)
(* The history.  Every transmission is a retry its slot has counted; and   *)
(* since an ID was given out, the IDs from it up to Current_Invoke_ID have *)
(* been in use, like those that are in use now.  The search starts there   *)
(* and passes over IDs in use, so it comes back to an ID after all others. *)
(***************************************************************************)

RecordOK ==
    /\ copies \in [InvokeIDs -> Nat]
    /\ \A i \in Slots :
          tsm.slot[i].id # 0 => copies[tsm.slot[i].id] = tsm.slot[i].retries + 1
    /\ \A i \in Slots : tsm.slot[i].retries <= Max(Retries)

\* Counting up from k one meets j before c.
Passed(k, j, c) == IF k < c THEN k <= j /\ j < c ELSE k <= j \/ j < c

RoundOK ==
    /\ since \in [InvokeIDs -> SUBSET InvokeIDs]
    /\ \A k \in InvokeIDs : UsedIDs(tsm) \subseteq since[k]
    /\ \A k, j \in InvokeIDs : Passed(k, j, tsm.current) => j \in since[k]

HistoryIInv == IInv /\ RecordOK /\ RoundOK

LEMMA MostRetries == Max(Retries) \in Nat /\ \A n \in Retries : n <= Max(Retries)
  <1>1. Retries \in SUBSET Nat /\ \A n \in Retries : n <= 255 BY TimingAssumption
  <1>2. Max(Retries) \in Retries /\ \A n \in Retries : n <= Max(Retries)
    BY <1>1, TimingAssumption, MaxIsGreatest
  <1> QED BY <1>1, <1>2

LEMMA InitHistoryIInv == HistoryInit => HistoryIInv
  <1> SUFFICES ASSUME HistoryInit PROVE HistoryIInv OBVIOUS
  <1>1. IInv BY InitIInv DEF HistoryInit
  <1>2. PICK first \in InvokeIDs : tsm = EmptyTable(first) BY DEF HistoryInit, Init
  <1>3. \A i \in Slots : tsm.slot[i].id = 0 /\ tsm.slot[i].retries = 0
    BY <1>2 DEF EmptyTable, EmptySlot
  <1>4. RecordOK BY <1>3, MostRetries DEF RecordOK, HistoryInit
  <1>5. RoundOK BY DEF RoundOK, HistoryInit, UsedIDs
  <1> QED BY <1>1, <1>4, <1>5 DEF HistoryIInv
\* The IDs from Current_Invoke_ID up to the one given out are in use.
LEMMA SkippedAreUsed ==
  ASSUME NEW j \in InvokeIDs, IInv, TransactionAvailable(tsm),
         j # NextFreeInvokeID(tsm), NextFreeInvokeID(tsm) # tsm.current,
         Passed(tsm.current, j, NextFreeInvokeID(tsm))
  PROVE  j \in UsedIDs(tsm)
  <1> DEFINE c == tsm.current
             m == Min(FreeDistances(tsm))
             d == IF j >= c THEN j - c ELSE j - c + MaxInvokeID
  <1>1. c \in InvokeIDs BY DEF IInv, TypeOK, Table
  <1>2. FreeDistances(tsm) \in SUBSET Nat /\ FreeDistances(tsm) # {}
    BY <1>1, SearchSucceeds, ConstantsType DEF FreeDistances
  <1>3. m \in FreeDistances(tsm) /\ \A n \in FreeDistances(tsm) : m <= n
    BY <1>2, MinIsLeast
  <1>4. m \in 0 .. MaxInvokeID - 1 BY <1>3 DEF FreeDistances
  <1>5. NextFreeInvokeID(tsm) = Around(c + m) BY DEF NextFreeInvokeID
  <1> HIDE DEF m, c
  <1>6. d \in 0 .. MaxInvokeID - 1 /\ Around(c + d) = j /\ d < m
    BY <1>1, <1>4, <1>5, ConstantsType DEF InvokeIDs, Around, Passed, c
  <1>7. d \notin FreeDistances(tsm) BY <1>3, <1>4, <1>6
  <1> HIDE DEF d
  <1>8. Around(c + d) \in UsedIDs(tsm) BY <1>6, <1>7 DEF FreeDistances, c
  <1> QED BY <1>6, <1>8

LEMMA GivenOutRound ==
  ASSUME IInv, RoundOK,
         NextFreeInvokeID(tsm) \in InvokeIDs \ UsedIDs(tsm),
         tsm'.current = Around(NextFreeInvokeID(tsm) + 1),
         UsedIDs(tsm') \subseteq UsedIDs(tsm) \cup {NextFreeInvokeID(tsm)},
         GivenOut(NextFreeInvokeID(tsm))
  PROVE  RoundOK'
  <1> DEFINE id == NextFreeInvokeID(tsm)
             c  == tsm.current
  <1>1. UsedIDs(tsm) \subseteq InvokeIDs /\ id \in InvokeIDs BY DEF UsedIDs
  <1>2. since' = [k \in InvokeIDs |->
                    IF k = id THEN UsedIDs(tsm) \cup {id} ELSE since[k] \cup {id}]
    BY DEF GivenOut
  <1>3. since' \in [InvokeIDs -> SUBSET InvokeIDs] BY <1>1, <1>2 DEF RoundOK
  <1>4. \A k \in InvokeIDs : UsedIDs(tsm') \subseteq since'[k]
    BY <1>2 DEF RoundOK
  <1>5. c \in InvokeIDs /\ TransactionAvailable(tsm)
    <2>1. id # 0 BY <1>1, ConstantsType DEF InvokeIDs
    <2> QED BY <2>1 DEF IInv, TypeOK, Table, NextFreeInvokeID
  <1>6. \A j \in InvokeIDs : j # id /\ id # c /\ Passed(c, j, id) => j \in UsedIDs(tsm)
    BY <1>5, SkippedAreUsed
  <1>7. ASSUME NEW k \in InvokeIDs, NEW j \in InvokeIDs, Passed(k, j, tsm'.current)
        PROVE  j \in since'[k]
    <2>1. CASE j = id BY <1>1, <1>2, <2>1
    <2>2. CASE j # id /\ id # c /\ Passed(c, j, id)
      BY <1>2, <1>6, <2>2 DEF RoundOK
    <2>3. CASE j # id /\ ~(id # c /\ Passed(c, j, id))
      <3> HIDE DEF id, c
      <3>1. tsm'.current = Around(id + 1) BY DEF id
      <3>2. k # id /\ Passed(k, j, c)
        BY <1>1, <1>5, <1>7, <2>3, <3>1, ConstantsType DEF InvokeIDs, Around, Passed
      <3>3. j \in since[k] BY <3>2 DEF RoundOK, c
      <3> QED BY <1>2, <3>2, <3>3
    <2> QED BY <2>1, <2>2, <2>3
  <1>8. UsedIDs(tsm)' = UsedIDs(tsm') BY DEF UsedIDs, SlotsHolding
  <1> QED BY <1>3, <1>4, <1>7, <1>8 DEF RoundOK

\* A step that gives out no ID and moves nothing keeps the round.
LEMMA QuietRound ==
  ASSUME RoundOK, UNCHANGED since, tsm'.current = tsm.current,
         \A i \in Slots : tsm'.slot[i].id = tsm.slot[i].id \/ tsm'.slot[i].id = 0
  PROVE  RoundOK'
  <1>1. UsedIDs(tsm)' \subseteq UsedIDs(tsm)
    <2> SUFFICES ASSUME NEW k \in UsedIDs(tsm)' PROVE k \in UsedIDs(tsm) OBVIOUS
    <2>1. k \in InvokeIDs /\ k # 0 BY ConstantsType DEF UsedIDs, InvokeIDs
    <2>2. PICK i \in Slots : tsm'.slot[i].id = k BY DEF UsedIDs, SlotsHolding
    <2>3. tsm.slot[i].id = k BY <2>1, <2>2
    <2> QED BY <2>1, <2>3 DEF UsedIDs, SlotsHolding
  <1> QED BY <1>1 DEF RoundOK

-----------------------------------------------------------------------------
LEMMA SendHistory ==
  ASSUME HistoryIInv, NEW pdu \in Pdus, SendRequest(pdu),
         GivenOut(NextFreeInvokeID(tsm)),
         copies' = [copies EXCEPT ![NextFreeInvokeID(tsm)] = 1]
  PROVE  RecordOK' /\ RoundOK'
  <1> USE DEF HistoryIInv
  <1> DEFINE id == NextFreeInvokeID(tsm)
  <1>1. id \in InvokeIDs \ UsedIDs(tsm) /\ tsm'.current = Around(id + 1)
    BY SendEffect
  <1>2. PICK i \in Slots :
          /\ tsm.slot[i].id = 0 /\ tsm'.slot[i].id = id /\ tsm'.slot[i].retries = 0
          /\ \A j \in Slots \ {i} : tsm'.slot[j] = tsm.slot[j]
    BY SendEffect
  <1>3. UsedIDs(tsm') \subseteq UsedIDs(tsm) \cup {id}
    BY <1>2 DEF UsedIDs, SlotsHolding
  <1>4. RoundOK' BY <1>1, <1>3, GivenOutRound
  <1>5. ASSUME NEW j \in Slots \ {i}
        PROVE  tsm.slot[j].id # id
    BY <1>1 DEF UsedIDs, SlotsHolding
  <1> HIDE DEF id
  <1>6. copies' = [copies EXCEPT ![id] = 1] BY DEF id
  <1>7. copies' \in [InvokeIDs -> Nat]
    <2>1. PICK f \in [InvokeIDs -> Nat] : f = copies BY DEF RecordOK
    <2>2. [f EXCEPT ![id] = 1] \in [InvokeIDs -> Nat] OBVIOUS
    <2> QED BY <1>6, <2>1, <2>2, Zenon
  <1>8. ASSUME NEW j \in Slots, tsm'.slot[j].id # 0
        PROVE  copies'[tsm'.slot[j].id] = tsm'.slot[j].retries + 1
    <2>1. CASE j = i BY <1>1, <1>2, <1>6, <2>1 DEF RecordOK
    <2>2. CASE j # i
      <3>1. tsm'.slot[j] = tsm.slot[j] /\ tsm.slot[j].id # id BY <1>2, <1>5, <2>2
      <3>2. copies'[tsm.slot[j].id] = copies[tsm.slot[j].id]
        <4>1. tsm.slot[j].id \in InvokeIDs
          BY <1>8, <3>1, SlotIDs
        <4> QED BY <1>6, <3>1, <4>1 DEF RecordOK
      <3> QED BY <1>8, <3>1, <3>2 DEF RecordOK
    <2> QED BY <2>1, <2>2
  <1>9. \A j \in Slots : tsm'.slot[j].retries <= Max(Retries)
    BY <1>2, MostRetries DEF RecordOK
  <1> QED BY <1>4, <1>7, <1>8, <1>9 DEF RecordOK

LEMMA TooLongHistory ==
  ASSUME HistoryIInv, SendTooLong, GivenOut(NextFreeInvokeID(tsm)), UNCHANGED copies
  PROVE  RecordOK' /\ RoundOK'
  <1> USE DEF HistoryIInv
  <1> DEFINE id == NextFreeInvokeID(tsm)
  <1>1. id \in InvokeIDs \ UsedIDs(tsm) /\ tsm'.current = Around(id + 1)
    BY TooLongEffect
  <1>2. PICK i \in Slots :
          /\ tsm.slot[i].id = 0 /\ tsm'.slot[i].id = 0
          /\ tsm'.slot[i].retries = tsm.slot[i].retries
          /\ \A j \in Slots \ {i} : tsm'.slot[j] = tsm.slot[j]
    BY TooLongEffect
  <1>3. \A j \in Slots : /\ tsm'.slot[j].id = tsm.slot[j].id
                         /\ tsm'.slot[j].retries = tsm.slot[j].retries
    BY <1>2
  <1>4. UsedIDs(tsm') \subseteq UsedIDs(tsm) \cup {id}
    BY <1>3 DEF UsedIDs, SlotsHolding
  <1>5. RoundOK' BY <1>1, <1>4, GivenOutRound
  <1> QED BY <1>3, <1>5 DEF RecordOK

LEMMA FreeHistory ==
  ASSUME HistoryIInv, NEW id, tsm' = FreeInvokeID(tsm, id), UNCHANGED <<copies, since>>
  PROVE  RecordOK' /\ RoundOK'
  <1> USE DEF HistoryIInv
  <1>1. CASE tsm' = tsm BY <1>1 DEF RecordOK, RoundOK, UsedIDs, SlotsHolding
  <1>2. CASE tsm' # tsm
    <2>1. PICK i \in Slots :
            /\ tsm'.slot[i].id = 0 /\ tsm'.slot[i].retries = tsm.slot[i].retries
            /\ \A j \in Slots \ {i} : tsm'.slot[j] = tsm.slot[j]
      BY <1>2, FreeEffect
    <2>2. tsm'.current = tsm.current BY <1>2, FreeEffect
    <2>3. \A j \in Slots : tsm'.slot[j].id = tsm.slot[j].id \/ tsm'.slot[j].id = 0
      BY <2>1
    <2>4. RoundOK' BY <2>2, <2>3, QuietRound
    <2>5. \A j \in Slots : tsm'.slot[j].retries = tsm.slot[j].retries BY <2>1
    <2> QED BY <2>3, <2>4, <2>5 DEF RecordOK
  <1> QED BY <1>1, <1>2
LEMMA TimerHistory ==
  ASSUME HistoryIInv, NEW ms \in Ticks, Timer(ms), UNCHANGED since,
         copies' = [id \in InvokeIDs |->
                      copies[id] + Cardinality(SlotsHolding(tsm, id)
                                                 \cap ResentBy(tsm, ms, retries))]
  PROVE  RecordOK' /\ RoundOK'
  <1> USE DEF HistoryIInv
  <1>1. ASSUME NEW i \in Slots
        PROVE  /\ tsm'.slot[i].id = tsm.slot[i].id
               /\ tsm'.slot[i].retries = IF Resends(tsm.slot[i], ms, retries)
                                         THEN tsm.slot[i].retries + 1 ELSE tsm.slot[i].retries
    BY TimerEffect
  <1>2. RoundOK'
    <2>1. tsm'.current = tsm.current BY TimerEffect
    <2> QED BY <1>1, <2>1, QuietRound
  <1>3. ASSUME NEW i \in Slots PROVE tsm'.slot[i].retries <= Max(Retries)
    <2>1. CASE Resends(tsm.slot[i], ms, retries)
      <3>1. PICK s \in Slot : s = tsm.slot[i] BY SlotIDs
      <3>2. s.retries < retries /\ s.retries \in Nat BY <2>1, <3>1 DEF Resends, Slot
      <3>3. retries \in Nat /\ retries <= Max(Retries) /\ Max(Retries) \in Nat
        BY MostRetries, TimingAssumption DEF IInv, TypeOK
      <3>4. tsm'.slot[i].retries = s.retries + 1 BY <1>1, <2>1, <3>1
      <3> QED BY <3>2, <3>3, <3>4
    <2>2. CASE ~Resends(tsm.slot[i], ms, retries) BY <1>1, <2>2 DEF RecordOK
    <2> QED BY <2>1, <2>2
  <1>4. ASSUME NEW id \in InvokeIDs
        PROVE  Cardinality(SlotsHolding(tsm, id) \cap ResentBy(tsm, ms, retries)) \in Nat
    <2>1. IsFiniteSet(Slots) BY FS_Interval, ConstantsType DEF Slots
    <2>2. SlotsHolding(tsm, id) \cap ResentBy(tsm, ms, retries) \in SUBSET Slots
      BY DEF SlotsHolding
    <2> QED BY <2>1, <2>2, FS_Subset, FS_CardinalityType
  <1>5. copies' \in [InvokeIDs -> Nat]
    <2>1. \A id \in InvokeIDs : copies[id] \in Nat BY DEF RecordOK
    <2> QED BY <1>4, <2>1
  <1>6. ASSUME NEW i \in Slots, tsm'.slot[i].id # 0
        PROVE  copies'[tsm'.slot[i].id] = tsm'.slot[i].retries + 1
    <2> DEFINE id == tsm.slot[i].id
               resent == SlotsHolding(tsm, id) \cap ResentBy(tsm, ms, retries)
    <2>1. tsm'.slot[i].id = id /\ id # 0 /\ id \in InvokeIDs BY <1>1, <1>6, SlotIDs
    <2>2. copies[id] = tsm.slot[i].retries + 1 BY <2>1 DEF RecordOK
    <2>3. copies'[id] = copies[id] + Cardinality(resent) BY <2>1
    <2>4. SlotsHolding(tsm, id) = {i}
      BY <2>1 DEF IInv, GoodTable, IDsUnique, SlotsHolding
    <2>5. tsm.slot[i].retries \in Nat BY SlotIDs DEF Slot
    <2> HIDE DEF id, resent
    <2>6. CASE Resends(tsm.slot[i], ms, retries)
      <3>1. resent = {i} BY <2>4, <2>6 DEF resent, ResentBy
      <3>2. Cardinality(resent) = 1 BY <3>1, FS_Singleton
      <3>3. tsm'.slot[i].retries = tsm.slot[i].retries + 1 BY <1>1, <2>6
      <3> QED BY <2>1, <2>2, <2>3, <2>5, <3>2, <3>3
    <2>7. CASE ~Resends(tsm.slot[i], ms, retries)
      <3>1. resent = {} BY <2>4, <2>7 DEF resent, ResentBy
      <3>2. Cardinality(resent) = 0 BY <3>1, FS_EmptySet
      <3>3. tsm'.slot[i].retries = tsm.slot[i].retries BY <1>1, <2>7
      <3> QED BY <2>1, <2>2, <2>3, <2>5, <3>2, <3>3
    <2> QED BY <2>6, <2>7
  <1> QED BY <1>2, <1>3, <1>5, <1>6 DEF RecordOK

LEMMA HistoryStepIsStep == [HistoryNext]_historyVars => [Next]_vars
  BY DEF HistoryNext, historyVars, Next, vars

LEMMA NextHistoryIInv == HistoryIInv /\ [HistoryNext]_historyVars => HistoryIInv'
  <1> SUFFICES ASSUME HistoryIInv, [HistoryNext]_historyVars
               PROVE  RecordOK' /\ RoundOK'
    <2>1. HistoryIInv /\ [HistoryNext]_historyVars => IInv'
      BY NextIInv, HistoryStepIsStep DEF HistoryIInv
    <2> QED BY <2>1 DEF HistoryIInv
  <1>1. ASSUME NEW pdu \in Pdus, SendRequest(pdu), GivenOut(NextFreeInvokeID(tsm)),
               copies' = [copies EXCEPT ![NextFreeInvokeID(tsm)] = 1]
        PROVE  RecordOK' /\ RoundOK'
    BY <1>1, SendHistory
  <1>2. CASE SendTooLong /\ GivenOut(NextFreeInvokeID(tsm)) /\ UNCHANGED copies
    BY <1>2, TooLongHistory
  <1>3. ASSUME NEW ms \in Ticks, Timer(ms), UNCHANGED since,
               copies' = [id \in InvokeIDs |->
                            copies[id] + Cardinality(SlotsHolding(tsm, id)
                                                       \cap ResentBy(tsm, ms, retries))]
        PROVE  RecordOK' /\ RoundOK'
    BY <1>3, TimerHistory
  <1>4. ASSUME NEW m \in wire, ReceiveAnswer(m), UNCHANGED <<copies, since>>
        PROVE  RecordOK' /\ RoundOK'
    BY <1>4, FreeHistory DEF ReceiveAnswer
  <1>5. CASE ReceiveSegmentAck /\ UNCHANGED <<copies, since>>
    BY <1>5, FreeHistory DEF ReceiveSegmentAck
  <1>6. CASE UNCHANGED <<tsm, copies, since>>
    BY <1>6 DEF HistoryIInv, RecordOK, RoundOK, UsedIDs, SlotsHolding
  <1> QED
    BY <1>1, <1>2, <1>3, <1>4, <1>5, <1>6
    DEF HistoryNext, historyVars, WriteTimeout, WriteRetries

\* The rules of the record hold in every reachable state.
THEOREM HistoryTheorem == HistorySpec => []HistoryIInv
  <1> QED BY InitHistoryIInv, NextHistoryIInv, PTL DEF HistorySpec

\* A request is on the wire once and once more per counted retry, and never more
\* often than one plus the largest number of retries ever configured.
THEOREM TransmissionsTheorem == HistorySpec => []TransmissionsCounted
  <1>1. ASSUME HistoryIInv PROVE TransmissionsCounted
    <2> SUFFICES ASSUME NEW i \in Slots, tsm.slot[i].id # 0
                 PROVE  /\ copies[tsm.slot[i].id] = tsm.slot[i].retries + 1
                        /\ copies[tsm.slot[i].id] <= 1 + Max(Retries)
      BY DEF TransmissionsCounted
    <2>1. /\ copies[tsm.slot[i].id] = tsm.slot[i].retries + 1
          /\ tsm.slot[i].retries <= Max(Retries)
      BY <1>1 DEF HistoryIInv, RecordOK
    <2>2. tsm.slot[i].retries \in Nat BY <1>1, SlotIDs DEF HistoryIInv, Slot
    <2> QED BY <2>1, <2>2, MostRetries
  <1> QED BY <1>1, HistoryTheorem, PTL

\* An invoke ID is given out again only after every other has been in use since.
THEOREM RoundTheorem == HistorySpec => []ReusedOnlyAfterRound
  <1>1. ASSUME HistoryIInv, TransactionAvailable(tsm)
        PROVE  since[NextFreeInvokeID(tsm)] = InvokeIDs
    <2> DEFINE id == NextFreeInvokeID(tsm)
    <2>1. tsm.current \in InvokeIDs BY <1>1 DEF HistoryIInv, IInv, TypeOK, Table
    <2>2. id \in InvokeIDs BY <1>1, <2>1, SearchSucceeds
    <2>3. \A j \in InvokeIDs : j # id /\ id # tsm.current /\ Passed(tsm.current, j, id)
                                 => j \in UsedIDs(tsm)
      BY <1>1, SkippedAreUsed DEF HistoryIInv
    <2> HIDE DEF id
    <2>4. ASSUME NEW j \in InvokeIDs PROVE j \in since[id]
      <3>1. CASE Passed(id, j, tsm.current) BY <1>1, <2>2, <3>1 DEF HistoryIInv, RoundOK
      <3>2. CASE ~Passed(id, j, tsm.current)
        <4>1. j # id /\ id # tsm.current /\ Passed(tsm.current, j, id)
          BY <2>1, <2>2, <3>2, ConstantsType DEF InvokeIDs, Passed
        <4> QED BY <1>1, <2>2, <2>3, <4>1 DEF HistoryIInv, RoundOK
      <3> QED BY <3>1, <3>2
    <2> QED BY <1>1, <2>2, <2>4 DEF HistoryIInv, RoundOK, id
  <1>2. HistoryIInv => ReusedOnlyAfterRound BY <1>1 DEF ReusedOnlyAfterRound
  <1> QED BY <1>2, HistoryTheorem, PTL
-----------------------------------------------------------------------------
(***************************************************************************)
(* The refinement.  Under the mapping a sender that got an ID begins a     *)
(* transaction, a freed ID ends one, a pass of the timer resends and fails *)
(* some; a request that was too long, an answer nobody waits for and a     *)
(* segment ack are stutters.                                               *)
(***************************************************************************)

LEMMA ViewAt ==
  ASSUME NEW t, NEW id \in InvokeIDs, NEW i \in SlotsHolding(t, id), GoodTable(t)
  PROVE  /\ id \in UsedIDs(t) /\ i \in Slots /\ t.slot[i] \in Slot
         /\ AsTransactions(t)[id] = RequestOf(t.slot[i])
  <1>1. id \in UsedIDs(t) BY DEF UsedIDs
  <1>2. i \in Slots /\ t.slot[i].id = id BY DEF SlotsHolding
  <1>3. id # 0 BY ConstantsType DEF InvokeIDs
  <1>4. FindIndex(t, id) = i BY <1>2, <1>3, HeldAt
  <1> QED BY <1>1, <1>2, <1>4 DEF AsTransactions, GoodTable, Table

LEMMA ViewIsFunction ==
  ASSUME NEW t
  PROVE  /\ DOMAIN AsTransactions(t) = UsedIDs(t)
         /\ AsTransactions(t) = [id \in UsedIDs(t) |-> AsTransactions(t)[id]]
  BY DEF AsTransactions

LEMMA ViewPrimed == AsTransactions(tsm)' = AsTransactions(tsm')
  BY DEF AsTransactions, UsedIDs, SlotsHolding, FindIndex, RequestOf

\* A table with a free slot holds fewer requests than it has slots.
LEMMA RoomLeft ==
  ASSUME NEW t, NEW i \in SlotsHolding(t, 0)
  PROVE  Cardinality(UsedIDs(t)) < MaxTransactions
  <1> DEFINE rest == {j \in Slots : t.slot[j].id \in UsedIDs(t)}
             f == [j \in rest |-> t.slot[j].id]
  <1>1. i \in Slots /\ i \notin rest
    BY ConstantsType DEF SlotsHolding, UsedIDs, InvokeIDs
  <1>2. IsFiniteSet(Slots) /\ Cardinality(Slots) = MaxTransactions
    BY FS_Interval, ConstantsType DEF Slots
  <1>3. IsFiniteSet(Slots \ {i}) /\ Cardinality(Slots \ {i}) = MaxTransactions - 1
    BY <1>1, <1>2, FS_RemoveElement
  <1>4. rest \in SUBSET (Slots \ {i}) BY <1>1
  <1>5. IsFiniteSet(rest) /\ Cardinality(rest) <= MaxTransactions - 1
    BY <1>3, <1>4, FS_Subset
  <1>6. f \in Surjection(rest, UsedIDs(t))
    <2>1. f \in [rest -> UsedIDs(t)] OBVIOUS
    <2>2. ASSUME NEW id \in UsedIDs(t) PROVE \E j \in rest : f[j] = id
      BY DEF UsedIDs, SlotsHolding
    <2> QED BY <2>1, <2>2 DEF Surjection
  <1> HIDE DEF rest, f
  <1>7. IsFiniteSet(UsedIDs(t)) /\ Cardinality(UsedIDs(t)) <= Cardinality(rest)
    BY <1>5, <1>6, FS_Surjection
  <1>8. Cardinality(UsedIDs(t)) \in Nat /\ Cardinality(rest) \in Nat
    BY <1>5, <1>7, FS_CardinalityType
  <1> QED BY <1>5, <1>7, <1>8, ConstantsType

\* What an edit of one slot leaves to the IDs of the other slots.
LEMMA KeptRequest ==
  ASSUME NEW i, NEW k \in UsedIDs(tsm), GoodTable(tsm), GoodTable(tsm'),
         \A j \in Slots \ {i} : tsm'.slot[j] = tsm.slot[j],
         tsm.slot[i].id # k
  PROVE  /\ k \in UsedIDs(tsm')
         /\ AsTransactions(tsm')[k] = AsTransactions(tsm)[k]
  <1>1. k \in InvokeIDs BY DEF UsedIDs
  <1>2. PICK j \in SlotsHolding(tsm, k) : TRUE BY DEF UsedIDs
  <1>3. j \in Slots /\ j # i BY <1>2 DEF SlotsHolding
  <1>4. tsm'.slot[j] = tsm.slot[j] /\ j \in SlotsHolding(tsm', k)
    BY <1>2, <1>3 DEF SlotsHolding
  <1> QED BY <1>1, <1>2, <1>4, ViewAt

LEMMA SameCardinality == \A S : Promise!Cardinality(S) = Cardinality(S)
  BY Zenon DEF Promise!Cardinality, Cardinality

LEMMA SendBegins ==
  ASSUME IInv, IInv', NEW pdu \in Pdus, SendRequest(pdu)
  PROVE  Promise!Begin(NextFreeInvokeID(tsm), pdu)
  <1> DEFINE id == NextFreeInvokeID(tsm)
             begun == [phase |-> "waiting", pdu |-> pdu, resends |-> 0]
  <1>1. id \in InvokeIDs \ UsedIDs(tsm) BY SendEffect
  <1>2. PICK i \in Slots :
          /\ tsm.slot[i].id = 0
          /\ tsm'.slot[i].id = id /\ tsm'.slot[i].state = "await"
          /\ tsm'.slot[i].retries = 0 /\ tsm'.slot[i].pdu = pdu
          /\ \A j \in Slots \ {i} : tsm'.slot[j] = tsm.slot[j]
    BY SendEffect
  <1>3. wire' = wire \cup {[id |-> id, pdu |-> pdu]} BY DEF SendRequest
  <1> HIDE DEF id
  <1>4. GoodTable(tsm) /\ GoodTable(tsm') BY GoodNow
  <1>5. UsedIDs(tsm') = UsedIDs(tsm) \cup {id}
    BY <1>1, <1>2, ConstantsType DEF UsedIDs, SlotsHolding, InvokeIDs
  <1>6. AsTransactions(tsm')[id] = begun
    <2>1. i \in SlotsHolding(tsm', id) BY <1>2 DEF SlotsHolding
    <2>2. AsTransactions(tsm')[id] = RequestOf(tsm'.slot[i]) BY <1>1, <1>4, <2>1, ViewAt
    <2> QED BY <1>2, <2>2 DEF RequestOf
  <1>7. ASSUME NEW k \in UsedIDs(tsm)
        PROVE  AsTransactions(tsm')[k] = AsTransactions(tsm)[k]
    <2>1. k # 0 BY ConstantsType DEF UsedIDs, InvokeIDs
    <2> QED BY <1>2, <1>4, <2>1, KeptRequest
  <1>8. AsTransactions(tsm') =
          [k \in UsedIDs(tsm) \cup {id} |-> IF k = id THEN begun ELSE AsTransactions(tsm)[k]]
    <2> HIDE DEF begun
    <2> QED BY <1>1, <1>5, <1>6, <1>7, ViewIsFunction
  <1>9. Cardinality(UsedIDs(tsm)) < MaxTransactions
    BY <1>2, RoomLeft DEF SlotsHolding
  <1> QED
    BY <1>1, <1>3, <1>8, <1>9, ViewPrimed, ViewIsFunction, SameCardinality
    DEF Promise!Begin, Promise!Message, id
LEMMA TooLongStutters ==
  ASSUME IInv, IInv', SendTooLong
  PROVE  UNCHANGED <<AsTransactions(tsm), wire>>
  <1>1. PICK i \in Slots :
          /\ tsm.slot[i].id = 0 /\ tsm'.slot[i].id = 0
          /\ \A j \in Slots \ {i} : tsm'.slot[j] = tsm.slot[j]
    BY TooLongEffect
  <1>2. GoodTable(tsm) /\ GoodTable(tsm') BY GoodNow
  <1>3. UsedIDs(tsm') = UsedIDs(tsm) BY <1>1 DEF UsedIDs, SlotsHolding
  <1>4. ASSUME NEW k \in UsedIDs(tsm)
        PROVE  AsTransactions(tsm')[k] = AsTransactions(tsm)[k]
    <2>1. k # 0 BY ConstantsType DEF UsedIDs, InvokeIDs
    <2> QED BY <1>1, <1>2, <2>1, KeptRequest
  <1>5. AsTransactions(tsm') = AsTransactions(tsm) BY <1>3, <1>4, ViewIsFunction
  <1> QED BY <1>5, ViewPrimed DEF SendTooLong

LEMMA FreeEnds ==
  ASSUME IInv, IInv', NEW id, tsm' = FreeInvokeID(tsm, id), tsm' # tsm, UNCHANGED wire
  PROVE  id \in InvokeIDs /\ Promise!End(id)
  <1>1. PICK i \in Slots :
          /\ tsm.slot[i].id = id /\ id # 0 /\ tsm'.slot[i].id = 0
          /\ \A j \in Slots \ {i} : tsm'.slot[j] = tsm.slot[j]
    BY FreeEffect
  <1>2. GoodTable(tsm) /\ GoodTable(tsm') BY GoodNow
  <1>3. id \in InvokeIDs BY <1>1, SlotIDs
  <1>4. \A j \in Slots \ {i} : tsm.slot[j].id # id
    BY <1>1, <1>2 DEF GoodTable, IDsUnique
  <1>5. id \in UsedIDs(tsm) BY <1>1, <1>3 DEF UsedIDs, SlotsHolding
  <1>6. UsedIDs(tsm') = UsedIDs(tsm) \ {id}
    BY <1>1, <1>4, ConstantsType DEF UsedIDs, SlotsHolding, InvokeIDs
  <1>7. \A k \in UsedIDs(tsm) \ {id} : AsTransactions(tsm')[k] = AsTransactions(tsm)[k]
    BY <1>1, <1>2, KeptRequest
  <1>8. AsTransactions(tsm') = [k \in UsedIDs(tsm) \ {id} |-> AsTransactions(tsm)[k]]
    BY <1>6, <1>7, ViewIsFunction
  <1> QED BY <1>3, <1>5, <1>8, ViewPrimed, ViewIsFunction DEF Promise!End

LEMMA FreeRefines ==
  ASSUME IInv, IInv', NEW id, tsm' = FreeInvokeID(tsm, id), UNCHANGED wire
  PROVE  [Promise!Next]_<<AsTransactions(tsm), wire>>
  <1>1. CASE tsm' = tsm BY <1>1, ViewPrimed
  <1>2. CASE tsm' # tsm BY <1>2, FreeEnds DEF Promise!Next
  <1> QED BY <1>1, <1>2

-----------------------------------------------------------------------------
\* A request sent again, and one that failed, as the promise sees them.
LEMMA RequestEdits ==
  ASSUME NEW s \in Slot, NEW r, r.pdu = s.pdu
  PROVE  /\ r.retries = s.retries + 1 /\ r.state = s.state
              => RequestOf(r) = [RequestOf(s) EXCEPT !.resends = @ + 1]
         /\ r.retries = s.retries /\ r.state = "idle"
              => RequestOf(r) = [RequestOf(s) EXCEPT !.phase = "failed"]
         /\ r.retries = s.retries /\ r.state = s.state => RequestOf(r) = RequestOf(s)
  BY DEF RequestOf, Slot

LEMMA TimerExpires ==
  ASSUME IInv, IInv', NEW ms \in Ticks, Timer(ms)
  PROVE  \E resent, failed \in SUBSET Promise!WaitingRequests : Promise!Expire(resent, failed)
  <1> DEFINE T == AsTransactions(tsm)
             fails == {i \in Slots : Expires(tsm.slot[i], ms)
                                       /\ ~Resends(tsm.slot[i], ms, retries)}
             resent == {tsm.slot[i].id : i \in ResentBy(tsm, ms, retries)}
             failed == {tsm.slot[i].id : i \in fails}
  <1>1. GoodTable(tsm) /\ GoodTable(tsm') BY GoodNow
  <1>2. ASSUME NEW i \in Slots
        PROVE  /\ tsm.slot[i] \in Slot
               /\ tsm'.slot[i].id = tsm.slot[i].id /\ tsm'.slot[i].pdu = tsm.slot[i].pdu
               /\ tsm'.slot[i].retries = IF Resends(tsm.slot[i], ms, retries)
                                         THEN tsm.slot[i].retries + 1 ELSE tsm.slot[i].retries
               /\ tsm'.slot[i].state = IF i \in fails THEN "idle" ELSE tsm.slot[i].state
    BY TimerEffect
  <1>3. ASSUME NEW i \in Slots, NEW id \in InvokeIDs, tsm.slot[i].id = id
        PROVE  /\ id \in resent <=> Resends(tsm.slot[i], ms, retries)
               /\ id \in failed <=> i \in fails
    <2>1. \A j \in Slots : tsm.slot[j].id = id => j = i
      BY <1>1, <1>3, ConstantsType DEF GoodTable, IDsUnique, InvokeIDs
    <2> QED BY <1>3, <2>1 DEF ResentBy
  <1>4. ASSUME NEW i \in Slots, Expires(tsm.slot[i], ms)
        PROVE  /\ tsm.slot[i].state = "await" /\ tsm.slot[i].id \in InvokeIDs
               /\ tsm.slot[i].id \in Promise!WaitingRequests
    <2>1. tsm.slot[i].state = "await" BY <1>4 DEF Expires
    <2>2. tsm.slot[i].id # 0 BY <1>1, <2>1 DEF GoodTable, UnusedAreIdle
    <2>3. tsm.slot[i].id \in InvokeIDs BY <2>2, SlotIDs
    <2>4. PICK id \in InvokeIDs : tsm.slot[i].id = id BY <2>3
    <2>5. i \in SlotsHolding(tsm, id) BY <2>4 DEF SlotsHolding
    <2>6. id \in UsedIDs(tsm) /\ T[id] = RequestOf(tsm.slot[i]) BY <1>1, <2>5, ViewAt
    <2>7. T[id].phase = "waiting" BY <2>1, <2>6 DEF RequestOf
    <2> QED BY <2>1, <2>3, <2>4, <2>6, <2>7, ViewIsFunction DEF Promise!WaitingRequests
  <1>5. resent \in SUBSET Promise!WaitingRequests /\ failed \in SUBSET Promise!WaitingRequests
    BY <1>4 DEF ResentBy, Resends
  <1>6. resent \cap failed = {}
    <2> SUFFICES ASSUME NEW id \in resent, id \in failed PROVE FALSE OBVIOUS
    <2>1. PICK i \in Slots : tsm.slot[i].id = id /\ Resends(tsm.slot[i], ms, retries)
      BY DEF ResentBy
    <2>2. id \in InvokeIDs BY <1>4, <2>1 DEF Resends
    <2> QED BY <1>3, <2>1, <2>2
  <1> HIDE DEF fails, resent, failed
  <1>7. ASSUME NEW id \in UsedIDs(tsm)
        PROVE  /\ id \in UsedIDs(tsm')
               /\ id \in resent => T[id].resends < Max(Retries)
               /\ AsTransactions(tsm')[id]
                    = IF id \in resent THEN [T[id] EXCEPT !.resends = @ + 1]
                      ELSE IF id \in failed THEN [T[id] EXCEPT !.phase = "failed"]
                      ELSE T[id]
    <2>1. id \in InvokeIDs BY DEF UsedIDs
    <2>2. PICK i \in SlotsHolding(tsm, id) : TRUE BY DEF UsedIDs
    <2>3. i \in Slots /\ tsm.slot[i].id = id BY <2>2 DEF SlotsHolding
    <2>4. i \in SlotsHolding(tsm', id) BY <1>2, <2>3 DEF SlotsHolding
    <2>5. PICK s \in Slot : s = tsm.slot[i] BY <1>2, <2>3
    <2>6. PICK r : r = tsm'.slot[i] OBVIOUS
    <2>7. T[id] = RequestOf(s) BY <1>1, <2>1, <2>2, <2>5, ViewAt
    <2>8. id \in UsedIDs(tsm') /\ AsTransactions(tsm')[id] = RequestOf(r)
      BY <1>1, <2>1, <2>4, <2>6, ViewAt
    <2>9. /\ r.pdu = s.pdu
          /\ r.retries = IF id \in resent THEN s.retries + 1 ELSE s.retries
          /\ r.state = IF id \in failed THEN "idle" ELSE s.state
          /\ id \in resent <=> Resends(s, ms, retries)
      BY <1>2, <1>3, <2>1, <2>3, <2>5, <2>6
    <2>10. id \in resent => s.retries < retries /\ retries <= Max(Retries)
                            /\ s.retries \in Nat /\ retries \in Nat /\ Max(Retries) \in Nat
      BY <2>9, MostRetries, TimingAssumption DEF Resends, Slot, IInv, TypeOK
    <2>11. RequestOf(s).resends = s.retries BY DEF RequestOf
    <2>12. RequestOf(r) = IF id \in resent THEN [RequestOf(s) EXCEPT !.resends = @ + 1]
                          ELSE IF id \in failed THEN [RequestOf(s) EXCEPT !.phase = "failed"]
                          ELSE RequestOf(s)
      <3>1. CASE id \in resent /\ id \notin failed BY <2>9, <3>1, RequestEdits
      <3>2. CASE id \notin resent /\ id \in failed BY <2>9, <3>2, RequestEdits
      <3>3. CASE id \notin resent /\ id \notin failed BY <2>9, <3>3, RequestEdits
      <3> QED BY <1>6, <3>1, <3>2, <3>3
    <2> QED BY <2>7, <2>8, <2>10, <2>11, <2>12
  <1>8. UsedIDs(tsm') = UsedIDs(tsm) BY <1>2 DEF UsedIDs, SlotsHolding
  <1>9. AsTransactions(tsm') =
          [id \in UsedIDs(tsm) |-> IF id \in resent THEN [T[id] EXCEPT !.resends = @ + 1]
                                   ELSE IF id \in failed THEN [T[id] EXCEPT !.phase = "failed"]
                                   ELSE T[id]]
    <2> HIDE DEF T
    <2> QED BY <1>7, <1>8, ViewIsFunction
  <1>10. wire' = wire \cup {Promise!Message(id, T[id].pdu) : id \in resent}
    <2>1. ASSUME NEW i \in ResentBy(tsm, ms, retries)
          PROVE  T[tsm.slot[i].id].pdu = tsm.slot[i].pdu
      <3>1. i \in Slots /\ tsm.slot[i].id \in InvokeIDs BY <1>4 DEF ResentBy, Resends
      <3>2. PICK id \in InvokeIDs : tsm.slot[i].id = id BY <3>1
      <3>3. i \in SlotsHolding(tsm, id) BY <3>1, <3>2 DEF SlotsHolding
      <3>4. T[id] = RequestOf(tsm.slot[i]) BY <1>1, <3>3, ViewAt
      <3> QED BY <3>2, <3>4 DEF RequestOf
    <2> HIDE DEF T
    <2> QED BY <2>1 DEF Timer, Promise!Message, resent
  <1> HIDE DEF T
  <1>11. Promise!Expire(resent, failed)
    BY <1>5, <1>6, <1>7, <1>9, <1>10, ViewPrimed, ViewIsFunction
    DEF Promise!Expire, Promise!WaitingRequests, T
  <1> QED BY <1>5, <1>11

\* The table with its search, its reused slots and its timers implements the
\* partial function from invoke IDs to requests, step by step.
THEOREM PromiseTheorem == Spec => KeepsPromise
  <1>1. Init => Promise!Init
    <2> SUFFICES ASSUME Init PROVE Promise!Init OBVIOUS
    <2>1. PICK first \in InvokeIDs : tsm = EmptyTable(first) BY DEF Init
    <2>2. UsedIDs(tsm) = {}
      BY <2>1, ConstantsType DEF EmptyTable, EmptySlot, UsedIDs, SlotsHolding, InvokeIDs
    <2>3. AsTransactions(tsm) = [id \in {} |-> 0] BY <2>2, ViewIsFunction
    <2> QED BY <2>3 DEF Promise!Init, Init
  <1>2. IInv /\ IInv' /\ [Next]_vars => [Promise!Next]_<<AsTransactions(tsm), wire>>
    <2> SUFFICES ASSUME IInv, IInv', [Next]_vars
                 PROVE  [Promise!Next]_<<AsTransactions(tsm), wire>>
      OBVIOUS
    <2>1. ASSUME NEW pdu \in Pdus, SendRequest(pdu) PROVE Promise!Next
      BY <2>1, SendBegins, SendEffect DEF Promise!Next
    <2>2. CASE SendTooLong BY <2>2, TooLongStutters
    <2>3. ASSUME NEW m \in wire, ReceiveAnswer(m)
          PROVE  [Promise!Next]_<<AsTransactions(tsm), wire>>
      BY <2>3, FreeRefines DEF ReceiveAnswer
    <2>4. CASE ReceiveSegmentAck BY <2>4, FreeRefines DEF ReceiveSegmentAck
    <2>5. CASE UNCHANGED <<tsm, wire>> BY <2>5, ViewPrimed
    <2>6. ASSUME NEW ms \in Ticks, Timer(ms) PROVE Promise!Next
      BY <2>6, TimerExpires DEF Promise!Next
    <2> QED BY <2>1, <2>2, <2>3, <2>4, <2>5, <2>6 DEF Next, vars, WriteTimeout, WriteRetries
  <1> QED BY <1>1, <1>2, TableTheorem, PTL DEF Spec, KeepsPromise, Promise!Spec
=============================================================================
