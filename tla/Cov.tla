-------------------------------- MODULE Cov --------------------------------
(***************************************************************************)
(* Change-of-value reporting: the subscription list and the COV task of    *)
(* h_cov.c, the binary inputs of bi.c with their change flags, and the     *)
(* transaction table that confirmed notifications go through.              *)
(*                                                                         *)
(* handler_cov_task walks the list once per pass of the main loop.  The    *)
(* walk is one step per entry here, "cursor" being the loop's index;       *)
(* nothing else in this single-threaded program runs before it is over.    *)
(***************************************************************************)
EXTENDS Integers, FiniteSets

CONSTANTS
    MaxSubscriptions,             \* MAX_COV_SUBCRIPTIONS, 32
    MaxTransactions, MaxInvokeID, \* the transaction table, see TsmTable
    NoPdu,
    Addresses,      \* where SubscribeCOV requests come from
    Processes,      \* subscriber process identifiers
    Objects,        \* the binary inputs
    Values,         \* present value and out-of-service flag of an input
    Nothing,        \* what a subscriber knows before its first notice
    Lifetimes,      \* lifetimes a request may carry (0 when absent)
    Confirmed,      \* the kinds of notification asked for, a set of BOOLEANs
    Elapsed,        \* seconds a pass of the main loop may report
    LinkMayFail,    \* whether datalink_send_pdu may send nothing
    Timeout,        \* the APDU timeout
    Retries         \* the number of APDU retries

ASSUME CovAssumption ==
    /\ MaxSubscriptions \in Nat \ {0}
    /\ MaxInvokeID \in Nat /\ MaxTransactions \in 1 .. MaxInvokeID
    /\ Lifetimes \subseteq Nat
    /\ Confirmed \subseteq BOOLEAN
    /\ Elapsed \subseteq Nat \ {0}
    /\ LinkMayFail \in BOOLEAN
    /\ Timeout \in Nat /\ Retries \in Nat
    /\ Nothing \notin Values

\* A notice as the data link carries it.  What the subscriber tells one notice
\* from another by is whom it is for, the object and the values in it.
Notice == [dest : Addresses, process : Processes, object : Objects, value : Values]

Tsm == INSTANCE TsmTable WITH Pdus <- Notice

VARIABLES
    subs,      \* COV_Subscriptions
    value,     \* Present_Value and Out_Of_Service of each input
    changed,   \* Change_Of_Value of each input
    tsm,       \* the transaction table
    cursor,    \* index of the walk, MaxSubscriptions when none is under way
    elapsed,   \* the seconds that walk was called with
    known,     \* history: the value last sent to each subscriber,
    missed,    \*   those whose last notice could not be sent,
    granted,   \*   the lifetime each entry was last given
    age        \*   and the seconds reported since, counted up to it

vars == <<subs, value, changed, tsm, cursor, elapsed, known, missed, granted, age>>

Entries     == 0 .. MaxSubscriptions - 1
Subscribers == Processes \X Objects

SubscribeData ==
    [ process : Processes, object : Objects, confirmed : Confirmed,
      lifetime : Lifetimes, cancel : BOOLEAN ]

EmptySubscription ==
    [ valid |-> FALSE, dest |-> Nothing, process |-> 0, object |-> Nothing,
      confirmed |-> FALSE, lifetime |-> 0, send |-> FALSE ]

Init ==
    /\ subs = [i \in Entries |-> EmptySubscription]
    /\ \E v \in Values : value = [o \in Objects |-> v]
    /\ changed = [o \in Objects |-> FALSE]
    /\ tsm = Tsm!EmptyTable(1)
    /\ cursor = MaxSubscriptions
    /\ elapsed = 0
    /\ known = [k \in Subscribers |-> Nothing]
    /\ missed = {}
    /\ granted = [i \in Entries |-> 0]
    /\ age = [i \in Entries |-> 0]

TaskIdle == cursor = MaxSubscriptions

-----------------------------------------------------------------------------
\* SubscribeCOV.  An entry is found by object and process identifier; the
\* address a request comes from takes no part in it.  (A segmented or
\* undecodable request and one for an object that does not exist are answered
\* and change nothing.)

\* (mutant: the search ends at the first free entry)
EntriesBeforeFree(d) ==
    {i \in Entries : /\ \A j \in 0 .. i : subs[j].valid
                     /\ subs[i].object = d.object /\ subs[i].process = d.process}

EntriesFor(d) ==
    {i \in Entries : subs[i].valid /\ subs[i].object = d.object
                                   /\ subs[i].process = d.process}

InvalidEntries == {i \in Entries : ~subs[i].valid}

Lowest(S) == CHOOSE i \in S : \A j \in S : i <= j

Record(src, d) ==
    [ valid |-> TRUE, dest |-> src, process |-> d.process, object |-> d.object,
      confirmed |-> d.confirmed, lifetime |-> d.lifetime, send |-> TRUE ]

Enter(i, src, d) ==
    /\ subs' = [subs EXCEPT ![i] = Record(src, d)]
    /\ known' = [known EXCEPT ![<<d.process, d.object>>] = Nothing]
    /\ missed' = missed \ {<<d.process, d.object>>}
    /\ granted' = [granted EXCEPT ![i] = d.lifetime]
    /\ age' = [age EXCEPT ![i] = 0]

Subscribe(src, d) ==
    /\ TaskIdle
    /\ ~d.cancel
    /\ IF EntriesFor(d) # {} THEN Enter(Lowest(EntriesFor(d)), src, d)
       ELSE IF InvalidEntries # {} THEN Enter(Lowest(InvalidEntries), src, d)
       ELSE UNCHANGED <<subs, known, missed, granted, age>>   \* error: out of resources
    /\ UNCHANGED <<value, changed, tsm, cursor, elapsed>>

Cancel(d) ==
    /\ TaskIdle
    /\ d.cancel
    /\ subs' = IF EntriesFor(d) = {} THEN subs          \* error: not subscribed
               ELSE [subs EXCEPT ![Lowest(EntriesFor(d))].valid = FALSE]
    /\ UNCHANGED <<value, changed, tsm, cursor, elapsed, known, missed, granted, age>>

-----------------------------------------------------------------------------
\* Binary_Input_Present_Value_Set and Binary_Input_Out_Of_Service_Set, reached
\* by WriteProperty: the flag goes up when the write changes something.
\* (mutant: the flag says what the last write did)
WriteInputForgetful(o, v) ==
    /\ TaskIdle
    /\ value' = [value EXCEPT ![o] = v]
    /\ changed' = [changed EXCEPT ![o] = value[o] # v]
    /\ UNCHANGED <<subs, tsm, cursor, elapsed, known, missed, granted, age>>

WriteInput(o, v) ==
    /\ TaskIdle
    /\ value' = [value EXCEPT ![o] = v]
    /\ changed' = [changed EXCEPT ![o] = @ \/ value[o] # v]
    /\ UNCHANGED <<subs, tsm, cursor, elapsed, known, missed, granted, age>>

-----------------------------------------------------------------------------
\* The COV task.

TaskStart(s) ==
    /\ TaskIdle
    /\ cursor' = 0
    /\ elapsed' = s
    /\ UNCHANGED <<subs, value, changed, tsm, known, missed, granted, age>>

NoticeFor(s) ==
    [dest |-> s.dest, process |-> s.process, object |-> s.object, value |-> value[s.object]]

\* cov_send_request.  A confirmed notice needs an invoke ID and is not sent
\* without one; with one it is in the table whether or not the link takes it.
IsSent(s, linkTakesIt) ==
    linkTakesIt /\ (s.confirmed => Tsm!NextFreeInvokeID(tsm) # 0)

SendNotice(s, linkTakesIt) ==
    /\ tsm' = IF s.confirmed
              THEN Tsm!SetTransaction(Tsm!ReserveInvokeID(tsm, Timeout),
                                      Tsm!NextFreeInvokeID(tsm), NoticeFor(s), Timeout)
              ELSE tsm
    /\ known' = IF IsSent(s, linkTakesIt)
                THEN [known EXCEPT ![<<s.process, s.object>>] = value[s.object]]
                ELSE known
    /\ missed' = IF IsSent(s, linkTakesIt) THEN missed \ {<<s.process, s.object>>}
                 ELSE missed \cup {<<s.process, s.object>>}

\* One turn of the loop.  An entry whose lifetime is over is dropped and still
\* gets its last notice; the request to send is dropped with the attempt; the
\* first entry of an object takes the object's change flag down.
NoticeDue(s) == s.send \/ changed[s.object]

\* (mutants: calls are counted, not seconds; what is left is not cut off)
LeftByCalls(s) == IF s.lifetime >= 1 THEN s.lifetime - 1 ELSE 0
LeftUncut(s) == IF s.lifetime >= elapsed THEN s.lifetime - elapsed ELSE s.lifetime

Left(s) == IF s.lifetime >= elapsed THEN s.lifetime - elapsed ELSE 0

\* (mutant: the request to send is not taken back)
VisitedKeepingRequest(s) == [s EXCEPT !.lifetime = Left(s), !.valid = Left(s) # 0]

Visited(s) == [s EXCEPT !.lifetime = Left(s), !.valid = Left(s) # 0, !.send = FALSE]

TaskVisit(linkTakesIt) ==
    LET s == subs[cursor]
    IN  /\ ~TaskIdle
        /\ s.valid
        /\ subs' = [subs EXCEPT ![cursor] = Visited(s)]
        /\ changed' = [changed EXCEPT ![s.object] = FALSE]
        /\ IF NoticeDue(s) THEN SendNotice(s, linkTakesIt)
           ELSE UNCHANGED <<tsm, known, missed>>
        /\ cursor' = cursor + 1
        /\ age' = [age EXCEPT ![cursor] =
                     IF @ + elapsed > granted[cursor] THEN granted[cursor] ELSE @ + elapsed]
        /\ UNCHANGED <<value, elapsed, granted>>

TaskSkip ==
    /\ ~TaskIdle
    /\ ~subs[cursor].valid
    /\ cursor' = cursor + 1
    /\ UNCHANGED <<subs, value, changed, tsm, elapsed, known, missed, granted, age>>

-----------------------------------------------------------------------------
\* What the rest of the program does to the table: apdu_handler frees an ID
\* when its notice is answered, the timer resends a notice or fails it.

NoticeAnswered(id) ==
    /\ TaskIdle
    /\ tsm' = Tsm!FreeInvokeID(tsm, id)
    /\ UNCHANGED <<subs, value, changed, cursor, elapsed, known, missed, granted, age>>

NoticesResent(ms) ==
    {tsm.slot[i].pdu : i \in Tsm!ResentBy(tsm, ms, Retries)}

\* Of two notices resent to one subscriber in the same pass either may be the
\* last to arrive.
TsmTimer(ms) ==
    /\ TaskIdle
    /\ tsm' = Tsm!TimerMilliseconds(tsm, ms, Timeout, Retries)
    /\ known' \in [Subscribers -> Values \cup {Nothing}]
    /\ \A k \in Subscribers :
          LET resent == {n \in NoticesResent(ms) : <<n.process, n.object>> = k}
          IN  IF resent = {} THEN known'[k] = known[k]
              ELSE \E n \in resent : known'[k] = n.value
    /\ missed' = missed \ {<<n.process, n.object>> : n \in NoticesResent(ms)}
    /\ UNCHANGED <<subs, value, changed, cursor, elapsed, granted, age>>

LinkTakes == IF LinkMayFail THEN BOOLEAN ELSE {TRUE}

Task ==
    \/ \E s \in Elapsed : TaskStart(s)
    \/ \E taken \in LinkTakes : TaskVisit(taken)
    \/ TaskSkip

Next ==
    \/ \E src \in Addresses, d \in SubscribeData : Subscribe(src, d)
    \/ \E d \in SubscribeData : Cancel(d)
    \/ \E o \in Objects, v \in Values : WriteInput(o, v)
    \/ Task
    \/ \E id \in Tsm!UsedIDs(tsm) : NoticeAnswered(id)
    \/ \E s \in Elapsed : TsmTimer(s)

Spec == Init /\ [][Next]_vars

\* The main loop calls the task again and again, and the task ends.
FairSpec == Spec /\ WF_vars(Task)

-----------------------------------------------------------------------------
Key(i) == <<subs[i].process, subs[i].object>>

\* One process has at most one live subscription to an object, whatever
\* sequence of new, renewed, cancelled and expired subscriptions led here: a
\* change is never reported twice and a cancellation always cancels.
NoDuplicates ==
    \A i, j \in Entries :
        subs[i].valid /\ subs[j].valid /\ Key(i) = Key(j) => i = j

\* A live subscription has as much of its lifetime left as it was granted, less
\* the seconds the task was told of since; none outlives its lifetime, and none
\* but one that asked for no lifetime at all is live with nothing left.
LifetimeHonoured ==
    \A i \in Entries :
        subs[i].valid =>
            /\ subs[i].lifetime = granted[i] - age[i]
            /\ age[i] # 0 => subs[i].lifetime > 0

\* A subscriber that is owed nothing, neither by its own entry nor by the flag
\* of its object, and whose last notice could be sent, was last sent the value
\* the object has.  A notice that could not be sent is made up for by the next.
SubscriberKnows ==
    \A i \in Entries :
        subs[i].valid /\ ~subs[i].send /\ ~changed[subs[i].object] /\ Key(i) \notin missed
            => known[Key(i)] = value[subs[i].object]

\* When nobody renews, every subscription that asked for a lifetime ends; the
\* list never stays full of subscribers that are gone.
NoMoreSubscribes ==
    <>[][~\E src \in Addresses, d \in SubscribeData : Subscribe(src, d)]_vars

SubscriptionsExpire ==
    NoMoreSubscribes =>
        \A i \in Entries : (subs[i].valid /\ granted[i] # 0) ~> ~subs[i].valid
=============================================================================
