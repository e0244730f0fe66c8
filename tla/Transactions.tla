---------------------------- MODULE Transactions ----------------------------
(***************************************************************************)
(* What the transaction state machine promises, without the table: a       *)
(* partial function from invoke IDs to outstanding requests.               *)
(* A request is put on the wire when it begins; while it waits it may be   *)
(* put there again, the same request under the same ID, at most MaxResends *)
(* times; it ends when its ID is answered, and one that gave up stays on   *)
(* record, silent, until then.                                             *)
(***************************************************************************)
EXTENDS Integers, FiniteSets

CONSTANTS InvokeIDs, Requests, Capacity, MaxResends

VARIABLES
    txn,   \* outstanding requests by invoke ID
    wire   \* requests put on the wire so far

Outstanding == [phase : {"waiting", "failed"}, pdu : Requests, resends : Nat]

Message(id, pdu) == [id |-> id, pdu |-> pdu]

Init == txn = [id \in {} |-> 0] /\ wire = {}

Begin(id, pdu) ==
    /\ id \notin DOMAIN txn
    /\ Cardinality(DOMAIN txn) < Capacity
    /\ txn' = [k \in DOMAIN txn \cup {id} |->
                 IF k = id THEN [phase |-> "waiting", pdu |-> pdu, resends |-> 0]
                           ELSE txn[k]]
    /\ wire' = wire \cup {Message(id, pdu)}

End(id) ==
    /\ id \in DOMAIN txn
    /\ txn' = [k \in DOMAIN txn \ {id} |-> txn[k]]
    /\ UNCHANGED wire

\* One passage of time resends some of the waiting requests and fails others.
Expire(resent, failed) ==
    /\ resent \cap failed = {}
    /\ \A id \in resent : txn[id].resends < MaxResends
    /\ txn' = [id \in DOMAIN txn |->
                 IF id \in resent THEN [txn[id] EXCEPT !.resends = @ + 1]
                 ELSE IF id \in failed THEN [txn[id] EXCEPT !.phase = "failed"]
                 ELSE txn[id]]
    /\ wire' = wire \cup {Message(id, txn[id].pdu) : id \in resent}

WaitingRequests == {id \in DOMAIN txn : txn[id].phase = "waiting"}

Next ==
    \/ \E id \in InvokeIDs, pdu \in Requests : Begin(id, pdu)
    \/ \E id \in InvokeIDs : End(id)
    \/ \E resent, failed \in SUBSET WaitingRequests : Expire(resent, failed)

Spec == Init /\ [][Next]_<<txn, wire>>
=============================================================================
