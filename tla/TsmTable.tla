------------------------------ MODULE TsmTable ------------------------------
(***************************************************************************)
(* The transaction table of src/tsm.c: TSM_List, an array of slots, and    *)
(* Current_Invoke_ID, the number the next request will try first.  The     *)
(* table is a value here, [slot |-> ..., current |-> ...], and every       *)
(* function of tsm.c is an operator from table to table, so that each      *)
(* module whose code calls tsm.c applies the same definitions.             *)
(*                                                                         *)
(* An invoke ID of 0 marks an unused slot.  A used slot whose state is     *)
(* "idle" is a request that failed: its retries ran out and nobody has     *)
(* freed it yet.                                                           *)
(***************************************************************************)
EXTENDS Integers, FiniteSets, FiniteSetsExt

CONSTANTS
    MaxTransactions,  \* MAX_TSM_TRANSACTIONS, 255 in config.h
    MaxInvokeID,      \* the largest uint8_t, 255
    Pdus,             \* what a request carries: destination, NPDU data, APDU
    NoPdu             \* the contents of a slot no request has used yet

\* config.h asks for 1..255 transactions; invoke IDs are the nonzero bytes.
ASSUME TableAssumption ==
    /\ MaxInvokeID \in Nat
    /\ MaxTransactions \in 1 .. MaxInvokeID
    /\ NoPdu \notin Pdus

Slots     == 0 .. MaxTransactions - 1
InvokeIDs == 1 .. MaxInvokeID

Slot == [ id      : 0 .. MaxInvokeID,
          state   : {"idle", "await"},
          timer   : Nat,
          retries : Nat,
          pdu     : Pdus \cup {NoPdu} ]

Table == [slot : [Slots -> Slot], current : InvokeIDs]

EmptySlot ==
    [id |-> 0, state |-> "idle", timer |-> 0, retries |-> 0, pdu |-> NoPdu]

EmptyTable(first) == [slot |-> [i \in Slots |-> EmptySlot], current |-> first]

-----------------------------------------------------------------------------
\* Searching: tsm.c scans from index 0 and answers MAX_TSM_TRANSACTIONS when
\* it finds nothing.

SlotsHolding(t, id) == {i \in Slots : t.slot[i].id = id}

FindIndex(t, id) ==
    IF SlotsHolding(t, id) = {} THEN MaxTransactions ELSE Min(SlotsHolding(t, id))

FirstFreeIndex(t) == FindIndex(t, 0)

TransactionAvailable(t) == \E i \in Slots : t.slot[i].id = 0

IdleCount(t) ==
    Cardinality({i \in Slots : t.slot[i].id = 0 /\ t.slot[i].state = "idle"})

UsedIDs(t) == {id \in InvokeIDs : SlotsHolding(t, id) # {}}

InvokeIdFree(t, id) == FindIndex(t, id) = MaxTransactions

InvokeIdFailed(t, id) ==
    /\ FindIndex(t, id) # MaxTransactions
    /\ t.slot[FindIndex(t, id)].state = "idle"

-----------------------------------------------------------------------------
\* Choosing an invoke ID: count up from Current_Invoke_ID, from the largest
\* back to 1, past the IDs that are in the table.

\* (mutant: the byte wraps to 0)
AroundThroughZero(n) == n % (MaxInvokeID + 1)

Around(n) == IF n > MaxInvokeID THEN n - MaxInvokeID ELSE n

\* (mutant: the IDs in use are not passed over)
AllDistances(t) == 0 .. MaxInvokeID - 1

FreeDistances(t) ==
    {d \in 0 .. MaxInvokeID - 1 : Around(t.current + d) \notin UsedIDs(t)}

\* 0 when the table is full, as tsm_next_free_invokeID returns.
NextFreeInvokeID(t) ==
    IF TransactionAvailable(t)
    THEN Around(t.current + Min(FreeDistances(t)))
    ELSE 0

\* (mutant: Current_Invoke_ID stays where it is)
ReserveWithoutAdvance(t, timeout) ==
    LET id == NextFreeInvokeID(t)
    IN  IF id = 0 THEN t
        ELSE [t EXCEPT !.slot[FirstFreeIndex(t)] =
                [@ EXCEPT !.id = id, !.state = "idle", !.timer = timeout]]

\* What the same call does to the table: the ID takes the first free slot.
ReserveInvokeID(t, timeout) ==
    LET id == NextFreeInvokeID(t)
    IN  IF id = 0 THEN t
        ELSE [ slot    |-> [t.slot EXCEPT ![FirstFreeIndex(t)] =
                              [@ EXCEPT !.id = id, !.state = "idle", !.timer = timeout]],
               current |-> Around(id + 1) ]

-----------------------------------------------------------------------------
\* Starting, timing and ending a transaction.

\* (mutant: the retry count of the slot's last request is kept)
SetWithOldRetries(t, id, pdu, timeout) ==
    IF id = 0 \/ InvokeIdFree(t, id) THEN t
    ELSE [t EXCEPT !.slot[FindIndex(t, id)] =
            [@ EXCEPT !.state = "await", !.timer = timeout, !.pdu = pdu]]

SetTransaction(t, id, pdu, timeout) ==
    IF id = 0 \/ InvokeIdFree(t, id) THEN t
    ELSE [t EXCEPT !.slot[FindIndex(t, id)] =
            [@ EXCEPT !.state = "await", !.retries = 0, !.timer = timeout, !.pdu = pdu]]

FreeInvokeID(t, id) ==
    IF InvokeIdFree(t, id) THEN t
    ELSE [t EXCEPT !.slot[FindIndex(t, id)] = [@ EXCEPT !.state = "idle", !.id = 0]]

\* tsm_timer_milliseconds(ms) visits every slot: a waiting one counts down, and
\* at zero either is sent again or fails.
Expires(s, ms) == s.state = "await" /\ s.timer <= ms

\* (mutant: one retry too many)
ResendsOnceMore(s, ms, retries) == Expires(s, ms) /\ s.retries <= retries

Resends(s, ms, retries) == Expires(s, ms) /\ s.retries < retries

\* (mutant: the timer runs for failed requests too and sets them waiting again)
TimedSlotReviving(s, ms, timeout, retries) ==
    IF s.timer > ms THEN [s EXCEPT !.timer = @ - ms]
    ELSE IF s.id # 0 /\ s.retries < retries
         THEN [s EXCEPT !.timer = timeout, !.retries = @ + 1, !.state = "await"]
         ELSE [s EXCEPT !.timer = 0, !.state = "idle"]

\* (mutant: the retry is not counted)
TimedSlotUncounted(s, ms, timeout, retries) ==
    IF s.state # "await" THEN s
    ELSE IF ~Expires(s, ms) THEN [s EXCEPT !.timer = @ - ms]
    ELSE IF Resends(s, ms, retries) THEN [s EXCEPT !.timer = timeout]
         ELSE [s EXCEPT !.timer = 0, !.state = "idle"]

TimedSlot(s, ms, timeout, retries) ==
    IF s.state # "await" THEN s
    ELSE IF ~Expires(s, ms) THEN [s EXCEPT !.timer = @ - ms]
    ELSE IF Resends(s, ms, retries)
         THEN [s EXCEPT !.timer = timeout, !.retries = @ + 1]
         ELSE [s EXCEPT !.timer = 0, !.state = "idle"]

TimerMilliseconds(t, ms, timeout, retries) ==
    [t EXCEPT !.slot = [i \in Slots |-> TimedSlot(t.slot[i], ms, timeout, retries)]]

\* The slots whose request that call puts on the wire again.
ResentBy(t, ms, retries) == {i \in Slots : Resends(t.slot[i], ms, retries)}

-----------------------------------------------------------------------------
\* The table rules.

IDsUnique(t) ==
    \A i, j \in Slots : t.slot[i].id = t.slot[j].id /\ t.slot[i].id # 0 => i = j

UnusedAreIdle(t) == \A i \in Slots : t.slot[i].id = 0 => t.slot[i].state = "idle"
=============================================================================
