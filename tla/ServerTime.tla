----------------------------- MODULE ServerTime -----------------------------
(***************************************************************************)
(* Server with a record of real time since the last acknowledged change of *)
(* communication control.  No time passes when the clock is set back.      *)
(***************************************************************************)
EXTENDS Server, FiniteSetsExt

CONSTANT MaxLived   \* bound of the record, beyond the longest grant

ASSUME RecordAssumption ==
    MaxLived \in Nat /\ \A m \in Minutes : m * SecondsPerMinute <= MaxLived

VARIABLES
    lived,  \* seconds since communication control was last set
    lead    \* seconds already on the loop's account at that time

timeVars == <<vars, lived, lead>>

TimeInit == Init /\ lived = 0 /\ lead = 0

TimeNext ==
    \/ \E s \in ClockSteps \cup {-b : b \in Setbacks} :
          /\ Clock(s)
          /\ lived' = Min({MaxLived, lived + Max({s, 0})})
          /\ UNCHANGED lead
    \/ \E r \in ControlRequests :
          /\ ReceiveControl(r)
          /\ lived' = IF reply' = "ack" THEN 0 ELSE lived
          /\ lead' = IF reply' = "ack" THEN lag ELSE lead
    \/ Uncontrolled /\ UNCHANGED <<lived, lead>>

\* The loop keeps running and the clock keeps moving.
TimeSpec ==
    /\ TimeInit /\ [][TimeNext]_timeVars
    /\ WF_vars(Loop) /\ WF_vars(\E s \in ClockSteps : Clock(s))

-----------------------------------------------------------------------------
\* A timed disable follows the wall clock.  It is over no earlier than its
\* minutes, but for the seconds that had passed since the last run of the timers
\* when it was acknowledged, which are counted against it; and the first run of
\* the timers after its minutes ends it.
TimedDisableFollowsClock ==
    wanted # "enable" /\ dccGranted # 0 =>
        IF Dcc!CommunicationEnabled THEN lived + lead >= dccGranted
                                    ELSE lived + lead - lag < dccGranted
=============================================================================
