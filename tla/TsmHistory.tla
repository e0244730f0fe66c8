----------------------------- MODULE TsmHistory -----------------------------
(***************************************************************************)
(* Tsm with a record of the past: how often the request under each invoke  *)
(* ID was put on the wire, and which IDs have been in use since an ID was  *)
(* last given out.  The record restrains nothing.  What the table promises *)
(* is Transactions, and AsTransactions is the refinement mapping.          *)
(***************************************************************************)
EXTENDS Tsm

VARIABLES
    copies,  \* transmissions of the latest request under each ID
    since    \* IDs in use at some time since the ID was last given out

historyVars == <<tsm, timeout, retries, wire, copies, since>>

HistoryInit ==
    /\ Init
    /\ copies = [id \in InvokeIDs |-> 0]
    /\ since = [id \in InvokeIDs |-> InvokeIDs]

GivenOut(id) ==
    since' = [k \in InvokeIDs |->
                IF k = id THEN UsedIDs(tsm) \cup {id} ELSE since[k] \cup {id}]

HistoryNext ==
    \/ \E pdu \in Pdus :
          /\ SendRequest(pdu)
          /\ GivenOut(NextFreeInvokeID(tsm))
          /\ copies' = [copies EXCEPT ![NextFreeInvokeID(tsm)] = 1]
    \/ SendTooLong /\ GivenOut(NextFreeInvokeID(tsm)) /\ UNCHANGED copies
    \/ \E ms \in Ticks :
          /\ Timer(ms)
          /\ copies' = [id \in InvokeIDs |->
                          copies[id] + Cardinality(SlotsHolding(tsm, id)
                                                     \cap ResentBy(tsm, ms, retries))]
          /\ UNCHANGED since
    \/ /\ \/ \E m \in wire : ReceiveAnswer(m)
          \/ ReceiveSegmentAck
          \/ \E ms \in Timeouts : WriteTimeout(ms)
          \/ \E n \in Retries : WriteRetries(n)
       /\ UNCHANGED <<copies, since>>

HistorySpec == HistoryInit /\ [][HistoryNext]_historyVars /\ TimerFairness

-----------------------------------------------------------------------------
\* A request is on the wire once when it is sent and once more for every retry
\* its slot has counted, and never more often than one plus the largest number
\* of retries a client has configured, also when that number changes while the
\* request waits.
TransmissionsCounted ==
    \A i \in Slots :
        tsm.slot[i].id # 0 =>
            /\ copies[tsm.slot[i].id] = tsm.slot[i].retries + 1
            /\ copies[tsm.slot[i].id] <= 1 + Max(Retries)

\* An invoke ID comes back only after every other ID has been in use: a late
\* answer to an old request can hit a new one only when the old one is a full
\* round of IDs in the past.
ReusedOnlyAfterRound ==
    TransactionAvailable(tsm) => since[NextFreeInvokeID(tsm)] = InvokeIDs
-----------------------------------------------------------------------------
\* The table read as a partial function from invoke IDs to requests.
RequestOf(s) ==
    [ phase   |-> IF s.state = "await" THEN "waiting" ELSE "failed",
      pdu     |-> s.pdu,
      resends |-> s.retries ]

AsTransactions(t) ==
    [id \in UsedIDs(t) |-> RequestOf(t.slot[FindIndex(t, id)])]

Promise == INSTANCE Transactions WITH
    InvokeIDs  <- InvokeIDs,
    Requests   <- Pdus,
    Capacity   <- MaxTransactions,
    MaxResends <- Max(Retries),
    wire       <- wire,
    txn        <- AsTransactions(tsm)

\* The table with its search, its reused slots and its timers implements the
\* partial function from invoke IDs to requests: no step resends a request that
\* is not waiting, changes what is resent, or touches another ID's request.
KeepsPromise == Promise!Spec
=============================================================================
