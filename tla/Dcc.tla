-------------------------------- MODULE Dcc --------------------------------
(***************************************************************************)
(* Device communication control: DCC_Enable_Disable and                    *)
(* DCC_Time_Duration_Seconds of src/dcc.c, the handler of the service      *)
(* (h_dcc.c) that sets them and the timer of the main loop that ends a     *)
(* timed disable.  A duration of 0 stands for "until further notice".      *)
(***************************************************************************)
EXTENDS Integers

CONSTANTS
    Minutes,           \* the durations a request may carry (0 when absent)
    SecondsPerMinute,  \* 60
    Elapsed            \* the seconds a pass of the main loop may report

ASSUME DccAssumption ==
    /\ Minutes \subseteq Nat
    /\ SecondsPerMinute \in Nat \ {0}
    /\ Elapsed \subseteq Nat \ {0}

VARIABLES
    enable,    \* DCC_Enable_Disable
    duration,  \* DCC_Time_Duration_Seconds
    reply,     \* what the handler answered last
    wanted,    \* history: the status last acknowledged,
    granted,   \*   the seconds it was to last, 0 if unlimited,
    age        \*   and the seconds reported since, counted up to granted

state == <<enable, duration>>
vars  == <<enable, duration, reply, wanted, granted, age>>

Statuses == {"enable", "disable", "disable-initiation"}

\* A request as dcc_decode_service_request leaves it: "state" may lie outside
\* the enumeration, a missing password is an empty string, and a request with
\* no parameters at all leaves the password uninitialised.
DccRequest ==
    [ segmented : BOOLEAN,
      decodes   : {"yes", "no", "empty"},
      state     : Statuses \cup {"unknown"},
      minutes   : Minutes,
      password  : {"right", "wrong", "absent"} ]

TypeOK ==
    /\ enable \in Statuses
    /\ duration \in Nat
    /\ reply \in {"none", "ack", "abort", "reject", "error"}
    /\ wanted \in Statuses
    /\ granted \in Nat
    /\ age \in Nat

Init ==
    /\ enable = "enable"
    /\ duration = 0
    /\ reply = "none"
    /\ wanted = "enable"
    /\ granted = 0
    /\ age = 0

CommunicationEnabled  == enable = "enable"
CommunicationDisabled == enable = "disable"
InitiationDisabled    == enable = "disable-initiation"

-----------------------------------------------------------------------------
\* dcc_set_status_duration
SetStatusDuration(status, minutes) ==
    /\ enable' = status
    /\ duration' = IF status = "enable" THEN 0 ELSE minutes * SecondsPerMinute

Answer(r) == reply' = r

\* handler_device_communication_control.  The defaults of the handler's locals
\* are what an empty request asks for.
Asked(r) ==
    IF r.decodes = "empty" THEN [state |-> "enable", minutes |-> 0]
                           ELSE [state |-> r.state, minutes |-> r.minutes]

Undecodable(r) == r.segmented \/ r.decodes = "no"

PasswordMatches(r) == r.decodes = "empty" \/ r.password = "right"

PasswordDiffers(r) == r.decodes = "empty" \/ r.password # "right"

Refuse(r) ==
    /\ \/ Undecodable(r) /\ Answer("abort")
       \/ ~Undecodable(r) /\ Asked(r).state = "unknown" /\ Answer("reject")
       \/ /\ ~Undecodable(r) /\ Asked(r).state # "unknown"
          /\ PasswordDiffers(r)
          /\ Answer("error")
    /\ UNCHANGED <<enable, duration, wanted, granted, age>>

Accept(r) ==
    /\ ~Undecodable(r)
    /\ Asked(r).state # "unknown"
    /\ PasswordMatches(r)
    /\ SetStatusDuration(Asked(r).state, Asked(r).minutes)
    /\ Answer("ack")
    /\ wanted' = Asked(r).state
    /\ granted' = Asked(r).minutes * SecondsPerMinute
    /\ age' = 0

Control(r) == Refuse(r) \/ Accept(r)

\* (mutant: the calls are counted, not the seconds)
CountDownCalls(seconds) == duration - 1

\* dcc_timer_seconds, from the main loop
CountDown(seconds) == IF duration > seconds THEN duration - seconds ELSE 0

\* (mutant: the end of the countdown does not enable)
TimerWithoutEnd(seconds) ==
    /\ duration' = IF duration # 0 THEN CountDown(seconds) ELSE duration
    /\ age' = IF age + seconds > granted THEN granted ELSE age + seconds
    /\ UNCHANGED <<enable, reply, wanted, granted>>

TimerSeconds(seconds) ==
    /\ IF duration # 0
       THEN /\ duration' = CountDown(seconds)
            /\ enable' = IF CountDown(seconds) = 0 THEN "enable" ELSE enable
       ELSE UNCHANGED state
    /\ age' = IF age + seconds > granted THEN granted ELSE age + seconds
    /\ UNCHANGED <<reply, wanted, granted>>

Next ==
    \/ \E r \in DccRequest : Control(r)
    \/ \E s \in Elapsed : TimerSeconds(s)

Spec == Init /\ [][Next]_vars

\* The main loop reports the seconds that pass.
FairSpec == Spec /\ WF_vars(\E s \in Elapsed : TimerSeconds(s))

-----------------------------------------------------------------------------
\* The timer and the status agree: a countdown runs only while something is
\* disabled, so that its end never finds communication already enabled, and a
\* stale countdown cannot cut a later disable short.
CountdownOnlyWhileDisabled == duration # 0 => ~CommunicationEnabled

\* A disable lasts what the last acknowledged request granted, neither a pass
\* of the main loop longer nor shorter: while it lasts its status stands, and
\* once its seconds have been reported communication is enabled.
DisabledAsGranted ==
    LET over == granted # 0 /\ age = granted
    IN  /\ enable = IF over THEN "enable" ELSE wanted
        /\ duration = IF wanted = "enable" THEN 0 ELSE granted - age

\* Only an acknowledged request disables anything: a refused one leaves status
\* and countdown alone, and the timer only ever enables.
OnlyAcknowledgedDisables ==
    [][~CommunicationEnabled' /\ enable' # enable => reply' = "ack" /\ wanted' = enable']_vars

\* When requests stop being accepted, a timed disable ends unless the last of
\* them made it unlimited.  (A client that renews it in time can keep the device
\* silent for ever.)
NoMoreRequests == <>[][~\E r \in DccRequest : Accept(r)]_vars

TimedDisableEnds == NoMoreRequests => (duration # 0 ~> (CommunicationEnabled \/ granted = 0))
=============================================================================
