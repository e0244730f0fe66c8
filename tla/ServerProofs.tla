---------------------------- MODULE ServerProofs ----------------------------
(***************************************************************************)
(* Proofs about the main loop, for any lengths of its passes.              *)
(*                                                                         *)
(* The loop uses communication control and the COV list the way Dcc and    *)
(* Cov say, so that what DccProofs and CovProofs prove step by step holds  *)
(* of the server.  While the clock is not set back the loop's reading of   *)
(* it lies between the last run of the timers and the time: a timed        *)
(* disable follows the clock on the wall, and no request is overdue.       *)
(***************************************************************************)
EXTENDS ServerTime, NumberFacts

DccProved == INSTANCE DccProofs WITH
    granted <- dccGranted, age <- dccAge,
    Elapsed <- 1 .. ClockModulus - 1

CovProved == INSTANCE CovProofs WITH Elapsed <- 1 .. ClockModulus - 1

ClockTypeOK == lag \in Int /\ sampled \in Int

\* What the timers have reported of a grant, and what the clock says of it, less
\* what the timers have not been told of yet.
Reported == dccAge
Clocked  == lived + lead - lag

\* The loop reads no time that has not come.
ReadingOK ==
    /\ lag \in 0 .. MaxLag /\ sampled \in Int
    /\ pc \in {"receive", "timers"} => sampled \in 0 .. lag

\* While a grant runs the timers have reported what the clock says, as far as the
\* record goes; when it is over the clock says so too.
TimeAgrees ==
    /\ lived \in 0 .. MaxLived /\ lead \in Nat
    /\ Reported < dccGranted => Clocked <= Reported
    /\ Reported < dccGranted /\ lived < MaxLived => Clocked = Reported
    /\ Reported = dccGranted /\ lived < MaxLived => Clocked >= dccGranted

TimeIInv ==
    /\ DccProved!IInv /\ dccGranted <= MaxLived
    /\ ReadingOK /\ TimeAgrees

-----------------------------------------------------------------------------
LEMMA DccAssumed == DccProved!DccAssumption
  BY ServerAssumption DEF DccProved!DccAssumption

LEMMA ElapsedIsNat ==
  ASSUME sampled \in Int
  PROVE  ElapsedSeconds \in 0 .. ClockModulus - 1
  BY ServerAssumption DEF ElapsedSeconds

LEMMA ElapsedIsSampled ==
  ASSUME sampled \in 0 .. MaxLag
  PROVE  ElapsedSeconds = sampled
  <1>1. sampled \in 0 .. (2 * ClockModulus) - 1 /\ sampled < ClockModulus
        /\ ClockModulus \in Nat \ {0}
    BY ServerAssumption
  <1> QED BY <1>1, RemainderBelow DEF ElapsedSeconds

\* Communication control takes the steps of Dcc when it is asked and when the
\* timers run, and none else.
LEMMA ControlSteps ==
  ASSUME NEW r \in ControlRequests, ReceiveControl(r)
  PROVE  r \in DccProved!DccRequest /\ DccProved!Control(r)
  BY DEF ControlRequests, ReceiveControl,
         Dcc!DccRequest, Dcc!Statuses, DccProved!DccRequest, DccProved!Statuses,
         Dcc!Control, Dcc!Refuse, Dcc!Accept, Dcc!Undecodable, Dcc!Asked, Dcc!Answer,
         Dcc!PasswordMatches, Dcc!PasswordDiffers, Dcc!SetStatusDuration,
         DccProved!Control, DccProved!Refuse, DccProved!Accept, DccProved!Undecodable,
         DccProved!Asked, DccProved!Answer, DccProved!PasswordMatches,
         DccProved!PasswordDiffers, DccProved!SetStatusDuration

LEMMA TimerSteps ==
  ASSUME NEW s, Dcc!TimerSeconds(s)
  PROVE  DccProved!TimerSeconds(s)
  BY DEF Dcc!TimerSeconds, Dcc!CountDown, Dcc!state,
         DccProved!TimerSeconds, DccProved!CountDown, DccProved!state

LEMMA OthersRest ==
  ASSUME Uncontrolled, ~DccTimer
  PROVE  UNCHANGED dccVars
  BY DEF Uncontrolled, ReadClock, ReceiveSubscribe, ReceiveWrite, ReceiveAnswer,
         ReceiveNothing, NoTimeElapsed, CovTask, TsmTimer

LEMMA ServerSteps ==
  ASSUME sampled \in Int, Next
  PROVE  [DccProved!Next]_(DccProved!vars)
  <1>1. CASE \E r \in ControlRequests : ReceiveControl(r)
    BY <1>1, ControlSteps DEF DccProved!Next
  <1>2. CASE DccTimer
    <2>1. Dcc!TimerSeconds(ElapsedSeconds) /\ ElapsedSeconds # 0 BY <1>2 DEF DccTimer
    <2>2. ElapsedSeconds \in 1 .. ClockModulus - 1 BY <2>1, ElapsedIsNat
    <2> QED BY <2>1, <2>2, TimerSteps DEF DccProved!Next
  <1>3. CASE Uncontrolled /\ ~DccTimer
    BY <1>3, OthersRest DEF dccVars, DccProved!vars
  <1>4. CASE \E s \in ClockSteps \cup {-b : b \in Setbacks} : Clock(s)
    BY <1>4 DEF Clock, dccVars, DccProved!vars
  <1> QED BY <1>1, <1>2, <1>3, <1>4 DEF Next, Loop

-----------------------------------------------------------------------------
\* The clock and the loop's readings of it keep their types.
LEMMA InitClock == Init => ClockTypeOK
  BY DEF Init, ClockTypeOK

LEMMA NextKeepsClock ==
  ASSUME ClockTypeOK, [Next]_vars
  PROVE  ClockTypeOK'
  <1> USE DEF ClockTypeOK
  <1>1. CASE \E r \in ControlRequests : ReceiveControl(r)
    BY <1>1 DEF ReceiveControl, Received
  <1>2. CASE Uncontrolled
    BY <1>2 DEF Uncontrolled, ReadClock, ReceiveSubscribe, ReceiveWrite, ReceiveAnswer,
         ReceiveNothing, Received, NoTimeElapsed, DccTimer, CovTask, TsmTimer
  <1>3. CASE \E s \in ClockSteps \cup {-b : b \in Setbacks} : Clock(s)
    BY <1>3, ServerAssumption DEF Clock
  <1>4. CASE UNCHANGED vars BY <1>4 DEF vars, loopVars
  <1> QED BY <1>1, <1>2, <1>3, <1>4 DEF Next, Loop

\* The main loop, with its clock that may be set back, its conversions and
\* everything else it does, uses communication control the way Dcc says.
THEOREM ControlTheorem == Spec => DccProved!Spec
  <1>1. Init => DccProved!Init
    BY DEF Init, Dcc!Init, DccProved!Init
  <1>2. ClockTypeOK /\ [Next]_vars => [DccProved!Next]_(DccProved!vars)
    <2> SUFFICES ASSUME ClockTypeOK, [Next]_vars PROVE [DccProved!Next]_(DccProved!vars)
      OBVIOUS
    <2>1. CASE Next BY <2>1, ServerSteps DEF ClockTypeOK
    <2>2. CASE UNCHANGED vars BY <2>2 DEF vars, dccVars, DccProved!vars
    <2> QED BY <2>1, <2>2
  <1>3. ClockTypeOK /\ [Next]_vars => ClockTypeOK' BY NextKeepsClock
  <1> QED BY <1>1, <1>2, <1>3, InitClock, PTL DEF Spec, DccProved!Spec

\* In the whole server, too, status and countdown are at any time what the last
\* acknowledged request and the seconds reported since make them.
THEOREM ServerGrantTheorem == Spec => []Dcc!DisabledAsGranted
  <1>1. DccProved!IInv => Dcc!DisabledAsGranted
    BY DEF DccProved!IInv, DccProved!DisabledAsGranted, Dcc!DisabledAsGranted
  <1>2. DccProved!Init => DccProved!IInv BY DccAssumed, DccProved!InitIInv
  <1>3. DccProved!IInv /\ [DccProved!Next]_(DccProved!vars) => DccProved!IInv'
    BY DccAssumed, DccProved!NextKeepsIInv
  <1> QED BY <1>1, <1>2, <1>3, ControlTheorem, PTL DEF DccProved!Spec

-----------------------------------------------------------------------------
LEMMA TwoMinMax ==
  ASSUME NEW a \in Nat, NEW b \in Nat
  PROVE  /\ Min({a, b}) = IF a <= b THEN a ELSE b
         /\ Max({a, b}) = IF a <= b THEN b ELSE a
  <1>1. Min({a, b}) \in {a, b} /\ \A n \in {a, b} : Min({a, b}) <= n
    BY MinIsLeast
  <1>2. Max({a, b}) \in {a, b} /\ \A n \in {a, b} : n <= Max({a, b})
    <2>1. \A n \in {a, b} : n <= a + b OBVIOUS
    <2> QED BY <2>1, MaxIsGreatest
  <1> QED BY <1>1, <1>2

LEMMA InitTimeIInv == TimeInit => TimeIInv
  <1> SUFFICES ASSUME TimeInit PROVE TimeIInv OBVIOUS
  <1>1. DccProved!Init BY DEF TimeInit, Init, Dcc!Init, DccProved!Init
  <1>2. DccProved!IInv BY <1>1, DccAssumed, DccProved!InitIInv
  <1>3. dccGranted = 0 /\ dccAge = 0 BY <1>1 DEF DccProved!Init
  <1>4. lag = 0 /\ sampled = 0 /\ lived = 0 /\ lead = 0 BY DEF TimeInit, Init
  <1> QED BY <1>2, <1>3, <1>4, RecordAssumption, ServerAssumption
          DEF TimeIInv, ReadingOK, TimeAgrees, Reported, Clocked

\* The types of what the record is about.
LEMMA TimeTypes ==
  ASSUME TimeIInv
  PROVE  /\ dccAge \in Nat /\ dccGranted \in Nat /\ dccAge <= dccGranted
         /\ lag \in Nat /\ lived \in Nat /\ lead \in Nat /\ sampled \in Int
         /\ MaxLived \in Nat /\ MaxLag \in Nat
  BY RecordAssumption, ServerAssumption
  DEF TimeIInv, DccProved!IInv, DccProved!TypeOK, ReadingOK, TimeAgrees

\* The loop's reading is of the time, which only moves on.
LEMMA InitReading == Init => ReadingOK
  BY ServerAssumption DEF Init, ReadingOK

LEMMA NextKeepsReading ==
  ASSUME Setbacks = {}, ReadingOK, [Next]_vars
  PROVE  ReadingOK'
  <1>1. lag \in Nat /\ lag <= MaxLag /\ MaxLag \in Nat /\ sampled \in Int
    BY ServerAssumption DEF ReadingOK
  <1>2. CASE \E s \in ClockSteps : Clock(s)
    <2>1. PICK s \in ClockSteps : Clock(s) BY <1>2
    <2>2. s \in Nat BY ServerAssumption
    <2>3. lag' = lag + s /\ lag + s <= MaxLag /\ pc' = pc /\ sampled' = sampled
      BY <1>1, <2>1, <2>2 DEF Clock
    <2> QED BY <1>1, <2>2, <2>3 DEF ReadingOK
  <1>3. CASE DccTimer
    <2>1. pc = "timers" /\ pc' = "cov" /\ sampled' = sampled /\ lag' = lag - sampled
      BY <1>3 DEF DccTimer
    <2> QED BY <1>1, <2>1 DEF ReadingOK
  <1>4. CASE (\E r \in ControlRequests : ReceiveControl(r)) \/ (Uncontrolled /\ ~DccTimer)
    <2>1. lag' = lag
      BY <1>4 DEF ReceiveControl, Uncontrolled, ReadClock, ReceiveSubscribe, ReceiveWrite,
             ReceiveAnswer, ReceiveNothing, Received, NoTimeElapsed, CovTask, TsmTimer
    <2>2. \/ sampled' = lag
          \/ sampled' = sampled /\ (pc' \in {"receive", "timers"} => pc \in {"receive", "timers"})
      BY <1>4 DEF ReceiveControl, Uncontrolled, ReadClock, ReceiveSubscribe, ReceiveWrite,
             ReceiveAnswer, ReceiveNothing, Received, NoTimeElapsed, CovTask, TsmTimer
    <2> QED BY <1>1, <2>1, <2>2 DEF ReadingOK
  <1>5. CASE UNCHANGED vars BY <1>5 DEF vars, loopVars, ReadingOK
  <1> QED BY <1>2, <1>3, <1>4, <1>5 DEF Next, Loop

-----------------------------------------------------------------------------
LEMMA ClockKeepsTime ==
  ASSUME TimeIInv, NEW s \in ClockSteps, Clock(s),
         lived' = Min({MaxLived, lived + Max({s, 0})}), lead' = lead
  PROVE  TimeAgrees' /\ dccGranted' <= MaxLived
  <1>1. s \in Nat BY ServerAssumption
  <1>2. Max({s, 0}) = s BY <1>1, TwoMinMax
  <1>3. lived' = IF MaxLived <= lived + s THEN MaxLived ELSE lived + s
    BY <1>1, <1>2, TimeTypes, TwoMinMax
  <1>4. lag' = lag + s /\ dccAge' = dccAge /\ dccGranted' = dccGranted
    BY DEF Clock, dccVars
  <1>5. TimeAgrees' BY <1>1, <1>3, <1>4, TimeTypes DEF TimeIInv, TimeAgrees, Reported, Clocked
  <1> QED BY <1>4, <1>5 DEF TimeIInv

\* What an acknowledged request leaves: a new grant, of which nothing is over.
LEMMA AcceptKeepsTime ==
  ASSUME TimeIInv, NEW r \in ControlRequests, ReceiveControl(r), reply' = "ack",
         lived' = 0, lead' = lag
  PROVE  TimeAgrees' /\ dccGranted' <= MaxLived
  <1>1. lag' = lag BY DEF ReceiveControl, Received
  <1>2. r.decodes = "yes" /\ r.minutes \in Minutes
    BY DEF ControlRequests, Dcc!DccRequest
  <1>3. dccGranted' = r.minutes * SecondsPerMinute /\ dccAge' = 0
    BY <1>2 DEF ReceiveControl, Dcc!Control, Dcc!Refuse, Dcc!Accept, Dcc!Answer, Dcc!Asked
  <1>4. r.minutes * SecondsPerMinute <= MaxLived BY <1>2, RecordAssumption
  <1>5. PICK g \in Nat : dccGranted' = g
    BY <1>2, <1>3, DccAssumed, DccProved!GrantIsNat
  <1>6. TimeAgrees' BY <1>1, <1>3, <1>5, TimeTypes DEF TimeAgrees, Reported, Clocked
  <1> QED BY <1>3, <1>4, <1>6

LEMMA RefuseKeepsTime ==
  ASSUME TimeIInv, NEW r \in ControlRequests, ReceiveControl(r), reply' # "ack",
         UNCHANGED <<lived, lead>>
  PROVE  TimeAgrees' /\ dccGranted' <= MaxLived
  <1>1. dccAge' = dccAge /\ dccGranted' = dccGranted
    BY DEF ReceiveControl, Dcc!Control, Dcc!Refuse, Dcc!Accept, Dcc!Answer
  <1>2. lag' = lag BY DEF ReceiveControl, Received
  <1> QED BY <1>1, <1>2 DEF TimeIInv, TimeAgrees, Reported, Clocked

\* A run of the timers reports what the loop had read, and takes it off the lag.
LEMMA TimersKeepTime ==
  ASSUME TimeIInv, DccTimer, UNCHANGED <<lived, lead>>
  PROVE  TimeAgrees' /\ dccGranted' <= MaxLived
  <1>1. pc = "timers" /\ lag' = lag - sampled BY DEF DccTimer
  <1>2. sampled \in 0 .. lag /\ lag \in 0 .. MaxLag BY <1>1 DEF TimeIInv, ReadingOK
  <1>3. ElapsedSeconds = sampled BY <1>2, ServerAssumption, ElapsedIsSampled
  <1>4. /\ dccAge' = IF dccAge + sampled > dccGranted THEN dccGranted ELSE dccAge + sampled
        /\ dccGranted' = dccGranted
    BY <1>3 DEF DccTimer, Dcc!TimerSeconds
  <1>5. TimeAgrees'
    BY <1>1, <1>2, <1>4, TimeTypes DEF TimeIInv, TimeAgrees, Reported, Clocked
  <1> QED BY <1>4, <1>5 DEF TimeIInv

LEMMA OthersKeepTime ==
  ASSUME TimeIInv, Uncontrolled, ~DccTimer, UNCHANGED <<lived, lead>>
  PROVE  TimeAgrees' /\ dccGranted' <= MaxLived
  <1>1. dccAge' = dccAge /\ dccGranted' = dccGranted BY OthersRest DEF dccVars
  <1>2. lag' = lag
    BY DEF Uncontrolled, ReadClock, ReceiveSubscribe, ReceiveWrite, ReceiveAnswer,
           ReceiveNothing, Received, NoTimeElapsed, CovTask, TsmTimer
  <1> QED BY <1>1, <1>2 DEF TimeIInv, TimeAgrees, Reported, Clocked

LEMMA TimeNextKeepsIInv ==
  ASSUME Setbacks = {}, TimeIInv, [TimeNext]_timeVars
  PROVE  TimeIInv'
  <1>1. [Next]_vars BY DEF TimeNext, Next, Loop, timeVars
  <1>2. ReadingOK' BY <1>1, NextKeepsReading DEF TimeIInv
  <1>3. [DccProved!Next]_(DccProved!vars)
    <2>1. CASE Next BY <2>1, ServerSteps, TimeTypes
    <2>2. CASE UNCHANGED vars BY <2>2 DEF vars, dccVars, DccProved!vars
    <2> QED BY <1>1, <2>1, <2>2
  <1>4. DccProved!IInv' BY <1>3, DccAssumed, DccProved!NextKeepsIInv DEF TimeIInv
  <1>5. TimeAgrees' /\ dccGranted' <= MaxLived
    <2>1. CASE \E s \in ClockSteps :
                 /\ Clock(s) /\ lived' = Min({MaxLived, lived + Max({s, 0})}) /\ lead' = lead
      BY <2>1, ClockKeepsTime
    <2>2. ASSUME NEW r \in ControlRequests, ReceiveControl(r),
                 lived' = IF reply' = "ack" THEN 0 ELSE lived,
                 lead' = IF reply' = "ack" THEN lag ELSE lead
          PROVE  TimeAgrees' /\ dccGranted' <= MaxLived
      BY <2>2, AcceptKeepsTime, RefuseKeepsTime
    <2>3. CASE Uncontrolled /\ UNCHANGED <<lived, lead>>
      BY <2>3, TimersKeepTime, OthersKeepTime
    <2>4. CASE UNCHANGED timeVars
      BY <2>4 DEF timeVars, vars, loopVars, dccVars, TimeIInv, TimeAgrees, Reported, Clocked
    <2> QED BY <2>1, <2>2, <2>3, <2>4 DEF TimeNext
  <1> QED BY <1>2, <1>4, <1>5 DEF TimeIInv

LEMMA TimeFollows == TimeIInv => TimedDisableFollowsClock
  <1> SUFFICES ASSUME TimeIInv, wanted # "enable", dccGranted # 0
               PROVE  IF Dcc!CommunicationEnabled THEN lived + lead >= dccGranted
                                                  ELSE lived + lead - lag < dccGranted
    BY DEF TimedDisableFollowsClock
  <1>1. enable = IF dccAge = dccGranted THEN "enable" ELSE wanted
    BY DEF TimeIInv, DccProved!IInv, DccProved!DisabledAsGranted
  <1>2. Dcc!CommunicationEnabled <=> dccAge = dccGranted
    BY <1>1 DEF Dcc!CommunicationEnabled
  <1>3. CASE dccAge = dccGranted
    BY <1>2, <1>3, TimeTypes DEF TimeIInv, TimeAgrees, Reported, Clocked
  <1>4. CASE dccAge < dccGranted
    BY <1>2, <1>4, TimeTypes DEF TimeIInv, TimeAgrees, Reported, Clocked
  <1> QED BY <1>3, <1>4, TimeTypes

\* While nobody sets the clock back, a timed disable follows it: not over before
\* its minutes are, but for the seconds that had passed since the last run of the
\* timers when it was acknowledged, and over with the first run after them.
THEOREM TimedDisableTheorem ==
  ASSUME Setbacks = {}
  PROVE  TimeSpec => []TimedDisableFollowsClock
  <1>1. TimeIInv /\ [TimeNext]_timeVars => TimeIInv' BY TimeNextKeepsIInv
  <1> QED BY <1>1, InitTimeIInv, TimeFollows, PTL DEF TimeSpec

-----------------------------------------------------------------------------
(***************************************************************************)
(* The COV list and the transaction table in the loop.                     *)
(***************************************************************************)

LEMMA CovAssumed == CovProved!CovAssumption
  BY ServerAssumption DEF CovProved!CovAssumption

\* The calls the loop makes are those of Cov.
LEMMA RequestSteps ==
  ASSUME NEW src \in Addresses, NEW d \in Cov!SubscribeData
  PROVE  /\ d \in CovProved!SubscribeData
         /\ Cov!Subscribe(src, d) => CovProved!Subscribe(src, d)
         /\ Cov!Cancel(d) => CovProved!Cancel(d)
  BY DEF Cov!SubscribeData, Cov!Subscribe, Cov!Cancel, Cov!TaskIdle, Cov!EntriesFor,
         Cov!InvalidEntries, Cov!Entries, Cov!Lowest, Cov!Enter, Cov!Record,
         CovProved!SubscribeData, CovProved!Subscribe, CovProved!Cancel,
         CovProved!TaskIdle, CovProved!EntriesFor, CovProved!InvalidEntries,
         CovProved!Entries, CovProved!Lowest, CovProved!Enter, CovProved!Record

\* The transaction table is the same seen from either side.
LEMMA SameFreeID ==
  ASSUME NEW t
  PROVE  Cov!Tsm!NextFreeInvokeID(t) = CovProved!Tsm!NextFreeInvokeID(t)
  BY DEF Cov!Tsm!NextFreeInvokeID, Cov!Tsm!TransactionAvailable,
           Cov!Tsm!FreeDistances, Cov!Tsm!UsedIDs, Cov!Tsm!SlotsHolding,
           Cov!Tsm!Slots, Cov!Tsm!InvokeIDs, Cov!Tsm!Around, Cov!Tsm!Min,
           CovProved!Tsm!NextFreeInvokeID,
           CovProved!Tsm!TransactionAvailable, CovProved!Tsm!FreeDistances,
           CovProved!Tsm!UsedIDs, CovProved!Tsm!SlotsHolding,
           CovProved!Tsm!Slots, CovProved!Tsm!InvokeIDs,
           CovProved!Tsm!Around, CovProved!Tsm!Min

LEMMA SamePlaces ==
  ASSUME NEW t, NEW id
  PROVE  /\ Cov!Tsm!FindIndex(t, id) = CovProved!Tsm!FindIndex(t, id)
         /\ Cov!Tsm!FirstFreeIndex(t) = CovProved!Tsm!FirstFreeIndex(t)
         /\ Cov!Tsm!InvokeIdFree(t, id) <=> CovProved!Tsm!InvokeIdFree(t, id)
  BY DEF Cov!Tsm!InvokeIdFree, Cov!Tsm!FindIndex, Cov!Tsm!FirstFreeIndex,
           Cov!Tsm!SlotsHolding, Cov!Tsm!Slots, Cov!Tsm!Min,
           CovProved!Tsm!InvokeIdFree, CovProved!Tsm!FindIndex,
           CovProved!Tsm!FirstFreeIndex, CovProved!Tsm!SlotsHolding,
           CovProved!Tsm!Slots, CovProved!Tsm!Min

LEMMA SameNotice ==
  ASSUME NEW s, NEW taken
  PROVE  Cov!SendNotice(s, taken) => CovProved!SendNotice(s, taken)
  <1>1. ASSUME NEW t
        PROVE  Cov!Tsm!ReserveInvokeID(t, Timeout) = CovProved!Tsm!ReserveInvokeID(t, Timeout)
    BY SameFreeID, SamePlaces
    DEF Cov!Tsm!ReserveInvokeID, CovProved!Tsm!ReserveInvokeID, Cov!Tsm!Around,
        CovProved!Tsm!Around
  <1>2. ASSUME NEW t, NEW id, NEW pdu
        PROVE  Cov!Tsm!SetTransaction(t, id, pdu, Timeout)
                 = CovProved!Tsm!SetTransaction(t, id, pdu, Timeout)
    BY SamePlaces DEF Cov!Tsm!SetTransaction, CovProved!Tsm!SetTransaction
  <1>3. Cov!NoticeFor(s) = CovProved!NoticeFor(s)
    BY DEF Cov!NoticeFor, CovProved!NoticeFor
  <1>4. Cov!IsSent(s, taken) <=> CovProved!IsSent(s, taken)
    BY SameFreeID DEF Cov!IsSent, CovProved!IsSent
  <1> QED BY <1>1, <1>2, <1>3, <1>4, SameFreeID DEF Cov!SendNotice, CovProved!SendNotice

LEMMA VisitSteps ==
  ASSUME NEW taken \in Cov!LinkTakes, Cov!TaskVisit(taken)
  PROVE  taken \in CovProved!LinkTakes /\ CovProved!TaskVisit(taken)
  BY SameNotice
  DEF Cov!LinkTakes, Cov!TaskVisit, Cov!TaskIdle, Cov!Visited, Cov!Left, Cov!NoticeDue,
      CovProved!LinkTakes, CovProved!TaskVisit, CovProved!TaskIdle, CovProved!Visited,
      CovProved!Left, CovProved!NoticeDue

\* What the list's rules speak of.
listVars == <<subs, cursor, elapsed, granted, age>>

LEMMA RestKeepsList ==
  ASSUME CovProved!IInv, UNCHANGED listVars
  PROVE  CovProved!IInv'
  BY DEF listVars, CovProved!IInv, CovProved!ListOK, CovProved!NoDuplicates,
         CovProved!Key, CovProved!LifetimeHonoured

LEMMA TaskKeepsList ==
  ASSUME CovProved!IInv, CovTask
  PROVE  CovProved!IInv'
  <1>1. CASE Cov!TaskSkip
    <2>1. /\ cursor # MaxSubscriptions /\ cursor' = cursor + 1
          /\ UNCHANGED <<subs, elapsed, granted, age>>
      BY <1>1 DEF Cov!TaskSkip, Cov!TaskIdle
    <2>2. cursor' \in 0 .. MaxSubscriptions
      BY <2>1, ServerAssumption DEF CovProved!IInv, CovProved!ListOK
    <2> QED BY <2>1, <2>2 DEF CovProved!IInv, CovProved!ListOK, CovProved!NoDuplicates,
              CovProved!Key, CovProved!LifetimeHonoured
  <1>2. CASE \E taken \in Cov!LinkTakes : Cov!TaskVisit(taken)
    BY <1>2, VisitSteps, CovAssumed, CovProved!VisitIInv
  <1> QED BY <1>1, <1>2 DEF CovTask

LEMMA NextKeepsList ==
  ASSUME CovProved!IInv, ClockTypeOK, [Next]_vars
  PROVE  CovProved!IInv'
  <1>1. CASE DccTimer
    <2>1. ElapsedSeconds \in Nat BY ServerAssumption, ElapsedIsNat DEF ClockTypeOK
    <2>2. /\ cursor' = 0 /\ elapsed' = ElapsedSeconds
          /\ UNCHANGED <<subs, granted, age>>
      BY <1>1 DEF DccTimer, Cov!TaskStart
    <2> QED BY <2>1, <2>2, ServerAssumption
            DEF CovProved!IInv, CovProved!ListOK, CovProved!NoDuplicates, CovProved!Key,
                CovProved!LifetimeHonoured
  <1>2. CASE CovTask BY <1>2, TaskKeepsList
  <1>3. CASE \E src \in Addresses, d \in Cov!SubscribeData : ReceiveSubscribe(src, d)
    <2>1. PICK src \in Addresses, d \in Cov!SubscribeData : ReceiveSubscribe(src, d)
      BY <1>3
    <2>2. \/ CovProved!Subscribe(src, d) \/ CovProved!Cancel(d)
      BY <2>1, RequestSteps DEF ReceiveSubscribe
    <2>3. d \in CovProved!SubscribeData BY RequestSteps
    <2> QED BY <2>2, <2>3, CovAssumed, CovProved!SubscribeIInv, CovProved!CancelIInv
  <1>4. CASE UNCHANGED listVars BY <1>4, RestKeepsList
  <1>5. ASSUME NEW r, ReceiveControl(r) PROVE UNCHANGED listVars
    BY <1>5 DEF ReceiveControl, covVars, listVars
  <1>6. CASE ReadClock \/ ReceiveNothing \/ NoTimeElapsed \/ TsmTimer
    BY <1>4, <1>6 DEF ReadClock, ReceiveNothing, NoTimeElapsed, TsmTimer, Cov!TsmTimer,
                      covVars, listVars
  <1>7. ASSUME NEW o, NEW v, ReceiveWrite(o, v) PROVE UNCHANGED listVars
    BY <1>7 DEF ReceiveWrite, Cov!WriteInput, listVars
  <1>8. ASSUME NEW id, ReceiveAnswer(id) PROVE UNCHANGED listVars
    BY <1>8 DEF ReceiveAnswer, Cov!NoticeAnswered, listVars
  <1>9. ASSUME NEW x, Clock(x) PROVE UNCHANGED listVars
    BY <1>9 DEF Clock, covVars, listVars
  <1>10. CASE UNCHANGED vars BY <1>4, <1>10 DEF vars, covVars, listVars
  <1> QED BY <1>1, <1>2, <1>3, <1>4, <1>5, <1>6, <1>7, <1>8, <1>9, <1>10
          DEF Next, Loop, Uncontrolled

\* In the whole server, too, a subscriber has one subscription to an object, and
\* that lives as long as it was granted, by the seconds the loop counts.
THEOREM ServerListTheorem == Spec => [](Cov!NoDuplicates /\ Cov!LifetimeHonoured)
  <1>1. Init => CovProved!IInv
    <2>1. Init => CovProved!Init
      BY DEF Init, Cov!Init, Cov!Entries, Cov!Subscribers, Cov!EmptySubscription,
             Cov!Tsm!EmptyTable, Cov!Tsm!EmptySlot, Cov!Tsm!Slots,
             CovProved!Init, CovProved!Entries, CovProved!Subscribers,
             CovProved!EmptySubscription, CovProved!Tsm!EmptyTable,
             CovProved!Tsm!EmptySlot, CovProved!Tsm!Slots
    <2> QED BY <2>1, CovAssumed, CovProved!InitIInv
  <1>2. CovProved!IInv => Cov!NoDuplicates /\ Cov!LifetimeHonoured
    BY DEF CovProved!IInv, CovProved!NoDuplicates, CovProved!Key, CovProved!LifetimeHonoured,
           CovProved!Entries, Cov!NoDuplicates, Cov!Key, Cov!LifetimeHonoured, Cov!Entries
  <1>3. CovProved!IInv /\ ClockTypeOK /\ [Next]_vars => CovProved!IInv' /\ ClockTypeOK'
    BY NextKeepsList, NextKeepsClock
  <1> QED BY <1>1, <1>2, <1>3, InitClock, PTL DEF Spec

-----------------------------------------------------------------------------
\* A table is an array of records, whatever they hold.
RecordOf(s) == [ id |-> s.id, state |-> s.state, timer |-> s.timer,
                 retries |-> s.retries, pdu |-> s.pdu ]

IsTable(t) ==
    /\ t = [slot |-> t.slot, current |-> t.current]
    /\ t.slot = [i \in Cov!Tsm!Slots |-> t.slot[i]]
    /\ \A i \in Cov!Tsm!Slots : t.slot[i] = RecordOf(t.slot[i])

\* Changing one slot leaves it an array of records.
LEMMA ReplaceKeepsTable ==
  ASSUME NEW t, IsTable(t), NEW k, NEW s, k \in Cov!Tsm!Slots => s = RecordOf(s), NEW c
  PROVE  IsTable([slot |-> [t.slot EXCEPT ![k] = s], current |-> c])
  <1> DEFINE u == [t.slot EXCEPT ![k] = s]
  <1>1. u = [i \in Cov!Tsm!Slots |-> u[i]] BY DEF IsTable
  <1>2. \A i \in Cov!Tsm!Slots : u[i] = IF i = k THEN s ELSE t.slot[i] BY DEF IsTable
  <1> HIDE DEF u
  <1>3. \A i \in Cov!Tsm!Slots : u[i] = RecordOf(u[i]) BY <1>2 DEF IsTable
  <1> QED BY <1>1, <1>3 DEF IsTable, u

LEMMA ReserveKeepsTable ==
  ASSUME NEW t, IsTable(t)
  PROVE  IsTable(Cov!Tsm!ReserveInvokeID(t, Timeout))
  <1> DEFINE id == Cov!Tsm!NextFreeInvokeID(t)
             k  == Cov!Tsm!FirstFreeIndex(t)
             c  == Cov!Tsm!Around(id + 1)
  <1>1. PICK s : s = [t.slot[k] EXCEPT !.id = id, !.state = "idle", !.timer = Timeout]
    OBVIOUS
  <1>2. k \in Cov!Tsm!Slots => s = RecordOf(s)
    <2> HIDE DEF id, k
    <2> QED BY <1>1 DEF IsTable, RecordOf
  <1>3. IsTable([slot |-> [t.slot EXCEPT ![k] = s], current |-> c])
    BY <1>2, ReplaceKeepsTable
  <1> QED BY <1>1, <1>3 DEF Cov!Tsm!ReserveInvokeID

LEMMA SetKeepsTable ==
  ASSUME NEW t, IsTable(t), NEW id, NEW pdu
  PROVE  IsTable(Cov!Tsm!SetTransaction(t, id, pdu, Timeout))
  <1> DEFINE k == Cov!Tsm!FindIndex(t, id)
  <1>1. PICK s : s = [t.slot[k] EXCEPT !.state = "await", !.retries = 0, !.timer = Timeout,
                                     !.pdu = pdu]
    OBVIOUS
  <1>2. k \in Cov!Tsm!Slots => s = RecordOf(s)
    <2> HIDE DEF k
    <2> QED BY <1>1 DEF IsTable, RecordOf
  <1>3. IsTable([slot |-> [t.slot EXCEPT ![k] = s], current |-> t.current])
    BY <1>2, ReplaceKeepsTable
  <1>4. [t EXCEPT !.slot[k] = s] = [slot |-> [t.slot EXCEPT ![k] = s], current |-> t.current]
    BY DEF IsTable
  <1> QED BY <1>1, <1>3, <1>4 DEF Cov!Tsm!SetTransaction

LEMMA FreeKeepsTable ==
  ASSUME NEW t, IsTable(t), NEW id
  PROVE  IsTable(Cov!Tsm!FreeInvokeID(t, id))
  <1> DEFINE k == Cov!Tsm!FindIndex(t, id)
  <1>1. PICK s : s = [t.slot[k] EXCEPT !.state = "idle", !.id = 0]
    OBVIOUS
  <1>2. k \in Cov!Tsm!Slots => s = RecordOf(s)
    <2> HIDE DEF k
    <2> QED BY <1>1 DEF IsTable, RecordOf
  <1>3. IsTable([slot |-> [t.slot EXCEPT ![k] = s], current |-> t.current])
    BY <1>2, ReplaceKeepsTable
  <1>4. [t EXCEPT !.slot[k] = s] = [slot |-> [t.slot EXCEPT ![k] = s], current |-> t.current]
    BY DEF IsTable
  <1> QED BY <1>1, <1>3, <1>4 DEF Cov!Tsm!FreeInvokeID

LEMMA TimerKeepsTable ==
  ASSUME NEW t, IsTable(t), NEW ms
  PROVE  LET u == Cov!Tsm!TimerMilliseconds(t, ms, Timeout, Retries)
         IN  /\ IsTable(u)
             /\ \A i \in Cov!Tsm!Slots :
                   u.slot[i] = Cov!Tsm!TimedSlot(t.slot[i], ms, Timeout, Retries)
  <1> DEFINE timed(i) == Cov!Tsm!TimedSlot(t.slot[i], ms, Timeout, Retries)
  <1>1. Cov!Tsm!TimerMilliseconds(t, ms, Timeout, Retries)
          = [slot |-> [i \in Cov!Tsm!Slots |-> timed(i)], current |-> t.current]
    BY DEF IsTable, Cov!Tsm!TimerMilliseconds
  <1>2. ASSUME NEW i \in Cov!Tsm!Slots PROVE timed(i) = RecordOf(timed(i))
    <2>1. t.slot[i] = RecordOf(t.slot[i]) BY DEF IsTable
    <2> QED BY <2>1 DEF RecordOf, Cov!Tsm!TimedSlot
  <1> QED BY <1>1, <1>2 DEF IsTable

-----------------------------------------------------------------------------
\* What the timers were told of is what the loop had read.
OverdueIInv ==
    /\ ReadingOK /\ IsTable(tsm)
    /\ pc \in {"cov", "tsm"} => elapsed \in 0 .. MaxLag

LEMMA InitOverdue == Init => OverdueIInv
  <1> SUFFICES ASSUME Init PROVE OverdueIInv OBVIOUS
  <1>1. tsm = Cov!Tsm!EmptyTable(1) /\ pc = "sample" BY DEF Init, Cov!Init
  <1>2. IsTable(tsm)
    BY <1>1 DEF IsTable, RecordOf, Cov!Tsm!EmptyTable, Cov!Tsm!EmptySlot
  <1> QED BY <1>1, <1>2, InitReading DEF OverdueIInv

LEMMA NextKeepsTable ==
  ASSUME IsTable(tsm), [Next]_vars
  PROVE  IsTable(tsm')
  <1>1. CASE CovTask
    <2>1. CASE Cov!TaskSkip BY <2>1 DEF Cov!TaskSkip
    <2>2. ASSUME NEW taken, Cov!TaskVisit(taken) PROVE IsTable(tsm')
      <3>1. tsm' = tsm \/ Cov!SendNotice(subs[cursor], taken) BY <2>2 DEF Cov!TaskVisit
      <3> QED BY <3>1, ReserveKeepsTable, SetKeepsTable DEF Cov!SendNotice
    <2> QED BY <1>1, <2>1, <2>2 DEF CovTask
  <1>2. ASSUME NEW id, ReceiveAnswer(id) PROVE IsTable(tsm')
    BY <1>2, FreeKeepsTable DEF ReceiveAnswer, Cov!NoticeAnswered
  <1>3. CASE TsmTimer BY <1>3, TimerKeepsTable DEF TsmTimer, Cov!TsmTimer
  <1>4. CASE tsm' = tsm BY <1>4
  <1>5. ASSUME NEW src, NEW d, ReceiveSubscribe(src, d) PROVE tsm' = tsm
    BY <1>5 DEF ReceiveSubscribe, Cov!Subscribe, Cov!Cancel
  <1>6. CASE ReadClock \/ ReceiveNothing \/ NoTimeElapsed \/ DccTimer
    BY <1>6 DEF ReadClock, ReceiveNothing, NoTimeElapsed, DccTimer, Cov!TaskStart, covVars
  <1>7. ASSUME NEW r, ReceiveControl(r) PROVE tsm' = tsm
    BY <1>7 DEF ReceiveControl, covVars
  <1>8. ASSUME NEW o, NEW v, ReceiveWrite(o, v) PROVE tsm' = tsm
    BY <1>8 DEF ReceiveWrite, Cov!WriteInput
  <1>9. ASSUME NEW x, Clock(x) PROVE tsm' = tsm BY <1>9 DEF Clock, covVars
  <1>10. CASE UNCHANGED vars BY <1>10 DEF vars, covVars
  <1> QED BY <1>1, <1>2, <1>3, <1>4, <1>5, <1>6, <1>7, <1>8, <1>9, <1>10
          DEF Next, Loop, Uncontrolled

LEMMA NextKeepsOverdue ==
  ASSUME Setbacks = {}, OverdueIInv, [Next]_vars
  PROVE  OverdueIInv'
  <1>1. ReadingOK' BY NextKeepsReading DEF OverdueIInv
  <1>2. IsTable(tsm)' BY NextKeepsTable DEF OverdueIInv, IsTable, RecordOf
  <1>3. pc' \in {"cov", "tsm"} => elapsed' \in 0 .. MaxLag
    <2>1. CASE DccTimer
      <3>1. pc = "timers" /\ elapsed' = ElapsedSeconds BY <2>1 DEF DccTimer, Cov!TaskStart
      <3>2. sampled \in 0 .. MaxLag
        BY <3>1, ServerAssumption DEF OverdueIInv, ReadingOK
      <3> QED BY <3>1, <3>2, ElapsedIsSampled
    <2>2. CASE CovTask
      BY <2>2 DEF CovTask, Cov!TaskSkip, Cov!TaskVisit, OverdueIInv
    <2>3. CASE ReadClock \/ NoTimeElapsed \/ TsmTimer
      BY <2>3 DEF ReadClock, NoTimeElapsed, TsmTimer
    <2>4. CASE Received BY <2>4 DEF Received
    <2>5. ASSUME NEW x, Clock(x) PROVE pc' = pc /\ elapsed' = elapsed
      BY <2>5 DEF Clock, covVars
    <2>6. CASE UNCHANGED vars BY <2>6 DEF vars, loopVars, covVars, OverdueIInv
    <2> QED BY <2>1, <2>2, <2>3, <2>4, <2>5, <2>6
            DEF OverdueIInv, Next, Loop, Uncontrolled, ReceiveControl, ReceiveSubscribe,
                ReceiveWrite, ReceiveAnswer, ReceiveNothing
  <1> QED BY <1>1, <1>2, <1>3 DEF OverdueIInv

\* When passes are short enough for tsm_timer_milliseconds to be told their length,
\* that is what it is told.
LEMMA MillisecondsFit ==
  ASSUME MaxLag * MsPerSecond < MsModulus, elapsed \in 0 .. MaxLag
  PROVE  ElapsedMilliseconds = elapsed * MsPerSecond
  <1>1. /\ MaxLag \in Nat /\ MsPerSecond \in Nat /\ MsModulus \in Nat \ {0}
        /\ elapsed \in Nat /\ elapsed <= MaxLag
    BY ServerAssumption
  <1>2. PICK ms \in Nat : ms = elapsed * MsPerSecond BY <1>1
  <1>3. PICK most \in Nat : most = MaxLag * MsPerSecond BY <1>1
  <1>4. ms <= most
    <2>1. PICK d \in Nat : MaxLag = elapsed + d BY <1>1
    <2>2. d * MsPerSecond \in Nat BY <1>1
    <2>3. MaxLag * MsPerSecond = (elapsed * MsPerSecond) + (d * MsPerSecond) BY <1>1, <2>1
    <2> QED BY <1>2, <1>3, <2>2, <2>3
  <1>5. ms \in 0 .. (2 * MsModulus) - 1 /\ ms < MsModulus BY <1>1, <1>3, <1>4
  <1>6. ms % MsModulus = ms BY <1>1, <1>5, RemainderBelow
  <1> QED BY <1>2, <1>6 DEF ElapsedMilliseconds

\* No request outlives the seconds the loop counts: in the pass in which its time
\* has run out it is sent again or fails.
THEOREM OverdueTheorem ==
  ASSUME Setbacks = {}, MaxLag * MsPerSecond < MsModulus
  PROVE  Spec => OverdueRequestsExpire
  <1> DEFINE AllExpired ==
               \A i \in Cov!Tsm!Slots :
                  LET s == tsm.slot[i]
                  IN  s.state = "await" /\ s.timer <= elapsed * MsPerSecond =>
                         \/ tsm'.slot[i].state = "idle"
                         \/ tsm'.slot[i].retries = s.retries + 1
  <1>1. OverdueIInv /\ [Next]_vars => [pc = "tsm" /\ pc' # "tsm" => AllExpired]_vars
    <2> SUFFICES ASSUME OverdueIInv, Next, pc = "tsm", pc' # "tsm" PROVE AllExpired
      OBVIOUS
    <2>1. TsmTimer
      BY DEF Next, Loop, Uncontrolled, Clock, ReceiveControl, ReadClock, ReceiveSubscribe,
             ReceiveWrite, ReceiveAnswer, ReceiveNothing, Received, NoTimeElapsed, DccTimer,
             CovTask
    <2>2. elapsed \in 0 .. MaxLag BY DEF OverdueIInv
    <2> DEFINE ms == ElapsedMilliseconds
    <2>3. ms = elapsed * MsPerSecond BY <2>2, MillisecondsFit
    <2>4. tsm' = Cov!Tsm!TimerMilliseconds(tsm, ms, Timeout, Retries)
      BY <2>1 DEF TsmTimer, Cov!TsmTimer
    <2> SUFFICES ASSUME NEW i \in Cov!Tsm!Slots, tsm.slot[i].state = "await",
                        tsm.slot[i].timer <= ms
                 PROVE  tsm'.slot[i].state = "idle"
                        \/ tsm'.slot[i].retries = tsm.slot[i].retries + 1
      BY <2>3
    <2> HIDE DEF ms
    <2>5. tsm'.slot[i] = Cov!Tsm!TimedSlot(tsm.slot[i], ms, Timeout, Retries)
      BY <2>4, TimerKeepsTable DEF OverdueIInv
    <2>6. tsm.slot[i] = RecordOf(tsm.slot[i]) BY DEF OverdueIInv, IsTable
    <2>7. PICK s : s = tsm.slot[i] OBVIOUS
    <2>8. \/ tsm'.slot[i] = [s EXCEPT !.timer = Timeout, !.retries = s.retries + 1]
          \/ tsm'.slot[i] = [s EXCEPT !.timer = 0, !.state = "idle"]
      BY <2>5, <2>7 DEF Cov!Tsm!TimedSlot, Cov!Tsm!Expires
    <2> QED BY <2>6, <2>7, <2>8 DEF RecordOf
  <1>2. OverdueIInv /\ [Next]_vars => OverdueIInv' BY NextKeepsOverdue
  <1> QED BY <1>1, <1>2, InitOverdue, PTL DEF Spec, OverdueRequestsExpire
=============================================================================
