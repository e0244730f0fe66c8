------------------------------- MODULE Server -------------------------------
(***************************************************************************)
(* The main loop of demo/server/main.c: it reads the clock, waits up to a  *)
(* second for one packet, hands it to the handlers through apdu_handler,   *)
(* and, if the clock had moved on since the last time it did so, runs the  *)
(* timers: device communication control, then the COV task, then the       *)
(* transaction timer.  The components are those of Dcc and Cov; this       *)
(* module adds the order of the calls, the clock, the conversions of the   *)
(* elapsed time and the dispatch that communication control restricts.     *)
(***************************************************************************)
EXTENDS Integers, FiniteSets

CONSTANTS
    MaxSubscriptions, MaxTransactions, MaxInvokeID, NoPdu,   \* see Cov
    Addresses, Processes, Objects, Values, Nothing,
    Lifetimes, Confirmed, LinkMayFail, Timeout, Retries,
    Minutes, SecondsPerMinute,                               \* see Dcc
    MaxLag,         \* bound: seconds the clock runs ahead of the last timer pass
    ClockSteps,     \* seconds that pass in one step of the clock
    Setbacks,       \* seconds by which the clock may be set back
    ClockModulus,   \* 2^32, the width of elapsed_seconds
    MsPerSecond,    \* 1000
    MsModulus       \* 2^16, the width of what tsm_timer_milliseconds takes

\* See Dcc and Cov.  The clock is never as far ahead of the timers as the elapsed
\* time can count.
ASSUME ServerAssumption ==
    /\ Minutes \subseteq Nat /\ SecondsPerMinute \in Nat \ {0}
    /\ MaxSubscriptions \in Nat \ {0}
    /\ MaxInvokeID \in Nat /\ MaxTransactions \in 1 .. MaxInvokeID
    /\ Lifetimes \subseteq Nat /\ Confirmed \subseteq BOOLEAN
    /\ LinkMayFail \in BOOLEAN /\ Nothing \notin Values
    /\ Timeout \in Nat /\ Retries \in Nat
    /\ MaxLag \in Nat /\ ClockModulus \in Nat /\ MaxLag < ClockModulus
    /\ ClockSteps \subseteq Nat /\ Setbacks \subseteq Nat
    /\ MsPerSecond \in Nat /\ MsModulus \in Nat \ {0}

VARIABLES
    pc,        \* where the loop is
    lag,       \* time() - last_seconds
    sampled,   \* current_seconds - last_seconds, as the loop read it
    enable, duration, reply, wanted, dccGranted, dccAge,     \* Dcc
    subs, value, changed, tsm, cursor, elapsed,              \* Cov
    known, missed, granted, age

ElapsedSeconds == sampled % ClockModulus

Dcc == INSTANCE Dcc WITH
    granted <- dccGranted, age <- dccAge,
    Elapsed <- 1 .. ClockModulus - 1

Cov == INSTANCE Cov WITH Elapsed <- 1 .. ClockModulus - 1

loopVars == <<pc, lag, sampled>>
dccVars  == <<enable, duration, reply, wanted, dccGranted, dccAge>>
covVars  == <<subs, value, changed, tsm, cursor, elapsed, known, missed, granted, age>>
vars     == <<loopVars, dccVars, covVars>>

Init ==
    /\ pc = "sample"
    /\ lag = 0
    /\ sampled = 0
    /\ Dcc!Init
    /\ Cov!Init

-----------------------------------------------------------------------------
\* Wall-clock time goes on, or is set, whatever the loop is doing.
Clock(s) ==
    /\ lag + s \in -MaxLag .. MaxLag
    /\ lag' = lag + s
    /\ UNCHANGED <<pc, sampled, dccVars, covVars>>

ReadClock ==
    /\ pc = "sample"
    /\ sampled' = lag
    /\ pc' = "receive"
    /\ UNCHANGED <<lag, dccVars, covVars>>

-----------------------------------------------------------------------------
\* One packet, or none, and its dispatch by apdu_handler.  Of the confirmed and
\* unconfirmed requests only those of communication control (and of reinitialize
\* device, which changes nothing here) pass while communication is disabled;
\* answers to our own requests always do.

Received ==
    /\ pc = "receive"
    /\ pc' = "timers"
    /\ UNCHANGED <<lag, sampled>>

\* To the loop all refused requests are alike, and an empty one is a request to
\* enable with the right or the wrong password.
ControlRequests ==
    {r \in Dcc!DccRequest : ~r.segmented /\ r.decodes = "yes" /\ r.password # "absent"}

ReceiveControl(r) == Received /\ Dcc!Control(r) /\ UNCHANGED covVars

ReceiveSubscribe(src, d) ==
    /\ Received
    /\ ~Dcc!CommunicationDisabled
    /\ Cov!Subscribe(src, d) \/ Cov!Cancel(d)
    /\ UNCHANGED dccVars

ReceiveWrite(o, v) ==
    /\ Received
    /\ ~Dcc!CommunicationDisabled
    /\ Cov!WriteInput(o, v)
    /\ UNCHANGED dccVars

ReceiveAnswer(id) == Received /\ Cov!NoticeAnswered(id) /\ UNCHANGED dccVars

ReceiveNothing == Received /\ UNCHANGED <<dccVars, covVars>>

-----------------------------------------------------------------------------
\* The timers run when the clock that was read differs from the last reading
\* they ran for.

NoTimeElapsed ==
    /\ pc = "timers"
    /\ ElapsedSeconds = 0
    /\ pc' = "sample"
    /\ UNCHANGED <<lag, sampled, dccVars, covVars>>

\* (mutant: last_seconds is the time now, not the time that was read)
DccTimerRereads ==
    /\ pc = "timers"
    /\ ElapsedSeconds # 0
    /\ Dcc!TimerSeconds(ElapsedSeconds)
    /\ Cov!TaskStart(ElapsedSeconds)
    /\ lag' = 0
    /\ pc' = "cov"
    /\ UNCHANGED sampled

DccTimer ==
    /\ pc = "timers"
    /\ ElapsedSeconds # 0
    /\ Dcc!TimerSeconds(ElapsedSeconds)
    /\ Cov!TaskStart(ElapsedSeconds)
    /\ lag' = lag - sampled
    /\ pc' = "cov"
    /\ UNCHANGED sampled

CovTask ==
    /\ pc = "cov"
    /\ Cov!TaskSkip \/ \E taken \in Cov!LinkTakes : Cov!TaskVisit(taken)
    /\ pc' = IF cursor' = MaxSubscriptions THEN "tsm" ELSE "cov"
    /\ UNCHANGED <<lag, sampled, dccVars>>

\* (mutant: the seconds are passed as they are)
ElapsedUnconverted == elapsed

\* elapsed_milliseconds is a uint32_t, the parameter it is passed for a uint16_t.
ElapsedMilliseconds == (elapsed * MsPerSecond) % MsModulus

TsmTimer ==
    /\ pc = "tsm"
    /\ Cov!TsmTimer(ElapsedMilliseconds)
    /\ pc' = "sample"
    /\ UNCHANGED <<lag, sampled, dccVars>>

Uncontrolled ==
    \/ ReadClock
    \/ \E src \in Addresses, d \in Cov!SubscribeData : ReceiveSubscribe(src, d)
    \/ \E o \in Objects, v \in Values : ReceiveWrite(o, v)
    \/ \E id \in Cov!Tsm!UsedIDs(tsm) : ReceiveAnswer(id)
    \/ ReceiveNothing
    \/ NoTimeElapsed \/ DccTimer \/ CovTask \/ TsmTimer

Loop == (\E r \in ControlRequests : ReceiveControl(r)) \/ Uncontrolled

Next ==
    \/ Loop
    \/ \E s \in ClockSteps \cup {-b : b \in Setbacks} : Clock(s)

Spec == Init /\ [][Next]_vars

-----------------------------------------------------------------------------
\* tsm_timer_milliseconds is "called once a millisecond or slower": a request
\* whose time has run out in the seconds the loop counted is resent or fails in
\* that pass.
OverdueRequestsExpire ==
    [][pc = "tsm" /\ pc' # "tsm" =>
          \A i \in Cov!Tsm!Slots :
             LET s == tsm.slot[i]
             IN  s.state = "await" /\ s.timer <= elapsed * MsPerSecond =>
                    \/ tsm'.slot[i].state = "idle"
                    \/ tsm'.slot[i].retries = s.retries + 1]_vars

\* A subscriber that was acknowledged has its turn without anything else having
\* to happen: the task comes round to it, and sends it the value of the moment
\* through a link that takes it.  The one notice that is dropped is a confirmed
\* one for which there is no transaction left: the task takes the request to send
\* back whether or not cov_send_request got an invoke ID.
Waits(i) == subs[i].valid /\ subs[i].send

NoTransactionFor(i) == subs[i].confirmed /\ Cov!Tsm!NextFreeInvokeID(tsm) = 0

FirstNoticeComesRound ==
    /\ \A i \in Cov!Entries : Waits(i) ~> ~Waits(i)
    /\ [][\A i \in Cov!Entries :
             pc = "cov" /\ Waits(i) /\ ~Waits(i)' =>
                 NoTransactionFor(i) \/ known'[Cov!Key(i)] = value[subs[i].object]]_vars
=============================================================================
