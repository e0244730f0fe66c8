\* The whole loop with passes of up to two seconds, under a clock that only goes
\* forward; minutes of two seconds.
CONSTANTS
    MaxSubscriptions = 1
    MaxTransactions = 1
    MaxInvokeID = 1
    NoPdu = NoPdu
    Addresses = {a}
    Processes = {1}
    Objects = {x}
    Values = {on, off}
    Nothing = Nothing
    Lifetimes = {2}
    Confirmed = {TRUE}
    LinkMayFail = FALSE
    Timeout = 2000
    Retries = 1
    Minutes = {1}
    SecondsPerMinute = 2
    MaxLag = 2
    ClockSteps = {1}
    Setbacks = {}
    ClockModulus = 1000
    MsPerSecond = 1000
    MsModulus = 65536
    MaxLived = 4
SPECIFICATION TimeSpec
INVARIANTS TimedDisableFollowsClock
PROPERTIES OverdueRequestsExpire FirstNoticeComesRound
