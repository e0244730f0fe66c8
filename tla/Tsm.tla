-------------------------------- MODULE Tsm --------------------------------
(***************************************************************************)
(* The client side of confirmed services: the Send_..._Request functions   *)
(* reserve an invoke ID, keep a copy of the request in the transaction     *)
(* table and put it on the data link; apdu_handler frees the ID when an    *)
(* acknowledgement, an error, a reject or an abort arrives; the timer      *)
(* resends a request or declares it failed.                                *)
(*                                                                         *)
(* The network keeps every request that was ever sent: a peer may answer   *)
(* any of them at any time, once, more than once or never, which covers    *)
(* messages that are lost, delayed, reordered or repeated on either way.   *)
(***************************************************************************)
EXTENDS TsmTable

CONSTANTS
    Timeouts,   \* the APDU timeouts a WriteProperty may install (uint16_t)
    Retries,    \* the numbers of APDU retries it may install (uint8_t)
    Ticks       \* the milliseconds a pass of the main loop may report

ASSUME TimingAssumption ==
    /\ Timeouts \subseteq Nat /\ Timeouts # {}
    /\ Retries \subseteq 0 .. 255 /\ Retries # {}     \* uint8_t
    /\ Ticks \subseteq Nat

VARIABLES
    tsm,        \* TSM_List and Current_Invoke_ID
    timeout,    \* Timeout_Milliseconds of apdu.c
    retries,    \* Number_Of_Retries of apdu.c
    wire        \* the confirmed requests that were put on the data link

vars == <<tsm, timeout, retries, wire>>

Request == [id : InvokeIDs, pdu : Pdus]

TypeOK ==
    /\ tsm \in Table
    /\ timeout \in Timeouts
    /\ retries \in Retries
    /\ wire \subseteq Request

\* BACNET_INVOKE_ID lets the first invoke ID be any byte; 0 would be passed over
\* like an ID in use, so that it is a first ID of 1.
Init ==
    /\ \E first \in InvokeIDs : tsm = EmptyTable(first)
    /\ timeout \in Timeouts
    /\ retries \in Retries
    /\ wire = {}

-----------------------------------------------------------------------------
\* The senders.  Every one of them reserves an ID first and gives it back when
\* the encoded request would not fit the peer's maximum APDU.

SendRequest(pdu) ==
    LET id == NextFreeInvokeID(tsm)
    IN  /\ id # 0
        /\ tsm' = SetTransaction(ReserveInvokeID(tsm, timeout), id, pdu, timeout)
        /\ wire' = wire \cup {[id |-> id, pdu |-> pdu]}
        /\ UNCHANGED <<timeout, retries>>

SendTooLong ==
    LET id == NextFreeInvokeID(tsm)
    IN  /\ id # 0
        /\ tsm' = FreeInvokeID(ReserveInvokeID(tsm, timeout), id)
        /\ UNCHANGED <<timeout, retries, wire>>

-----------------------------------------------------------------------------
\* apdu_handler on an acknowledgement, an error, a reject or an abort: only the
\* invoke ID is looked at, neither the source nor the state of the slot.
ReceiveAnswer(m) ==
    /\ tsm' = FreeInvokeID(tsm, m.id)
    /\ UNCHANGED <<timeout, retries, wire>>

\* For a segment ack apdu_handler frees the invoke ID it never decoded, 0.
ReceiveSegmentAck ==
    /\ tsm' = FreeInvokeID(tsm, 0)
    /\ UNCHANGED <<timeout, retries, wire>>

\* Device object: PROP_APDU_TIMEOUT and PROP_NUMBER_OF_APDU_RETRIES.
WriteTimeout(ms) ==
    /\ timeout' = ms
    /\ UNCHANGED <<tsm, retries, wire>>

WriteRetries(n) ==
    /\ retries' = n
    /\ UNCHANGED <<tsm, timeout, wire>>

\* tsm_timer_milliseconds.
Timer(ms) ==
    /\ tsm' = TimerMilliseconds(tsm, ms, timeout, retries)
    /\ wire' = wire \cup {[id |-> tsm.slot[i].id, pdu |-> tsm.slot[i].pdu] :
                             i \in ResentBy(tsm, ms, retries)}
    /\ UNCHANGED <<timeout, retries>>

-----------------------------------------------------------------------------
Next ==
    \/ \E pdu \in Pdus : SendRequest(pdu)
    \/ SendTooLong
    \/ \E m \in wire : ReceiveAnswer(m)
    \/ ReceiveSegmentAck
    \/ \E ms \in Timeouts : WriteTimeout(ms)
    \/ \E n \in Retries : WriteRetries(n)
    \/ \E ms \in Ticks : Timer(ms)

Spec == Init /\ [][Next]_vars

\* The main loop never stops calling the timer, with time that has passed.
TimerFairness == WF_tsm(\E ms \in Ticks \ {0} : Timer(ms))

FairSpec == Spec /\ TimerFairness

-----------------------------------------------------------------------------
(***************************************************************************)
(* Safety.                                                                 *)
(***************************************************************************)

\* No two requests in the table carry the same invoke ID: an answer, which
\* names nothing but the ID, can only end the request it was given for.
UniqueInvokeIDs == IDsUnique(tsm)

\* tsm_transaction_idle_count, which looks at the ID and the state of a slot,
\* counts exactly the slots that tsm_transaction_available and the reservation,
\* which look at the ID alone, take for free; freeing ID 0 on a segment ack
\* disturbs neither.
FreeSlotsCounted == IdleCount(tsm) = Cardinality(SlotsHolding(tsm, 0))

\* A table with room always yields an ID that no request is using: the search
\* that counts up from Current_Invoke_ID ends.
SearchTerminates ==
    TransactionAvailable(tsm) =>
        /\ FreeDistances(tsm) # {}
        /\ NextFreeInvokeID(tsm) \in InvokeIDs \ UsedIDs(tsm)

-----------------------------------------------------------------------------
(***************************************************************************)
(* Actions.                                                                *)
(***************************************************************************)

WaitingIDs == {tsm.slot[i].id : i \in {j \in Slots : tsm.slot[j].state = "await"}}

FailedIDs == {id \in InvokeIDs : InvokeIdFailed(tsm, id)}

\* A request that failed never comes back to life: until its ID is freed
\* nothing is sent for it, whatever a client writes to the number of retries.
FailureIsFinal ==
    [][\A id \in FailedIDs : id \in UsedIDs(tsm)' => id \in FailedIDs']_vars

-----------------------------------------------------------------------------
(***************************************************************************)
(* Liveness.                                                               *)
(***************************************************************************)

\* Every request in the table is eventually acknowledged or given up, however
\* many messages are lost: no request is resent for ever.
RequestsSettle == \A id \in InvokeIDs : (id \in WaitingIDs) ~> (id \notin WaitingIDs)
=============================================================================
