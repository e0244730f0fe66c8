---------------------------- MODULE LoadControl -----------------------------
(***************************************************************************)
(* Load control objects (lc.c): a request to shed, its start and duration, *)
(* and the state machine that commands the analog output of the same       *)
(* number at priority 4 while a shed is under way.                         *)
(*                                                                         *)
(* A time is a number of ticks, DayLength to the day; levels compared with *)
(* an output's are in tenths of a percent.                                 *)
(***************************************************************************)
EXTENDS Outputs

CONSTANTS
    MAX_LOAD_CONTROLS,      \* no more than there are analog outputs
    DayLength               \* ticks in a day, a tick being what a duration counts

ASSUME LoadControlAssumption ==
    MAX_LOAD_CONTROLS \in 1 .. MAX_ANALOG_OUTPUTS /\ DayLength \in Nat \ {0}

Load_Control_Property_Lists ==
    << << "object_identifier", "object_name", "object_type", "present_value",
          "status_flags", "event_state", "requested_shed_level", "start_time",
          "shed_duration", "duty_window", "enable", "expected_shed_level",
          "actual_shed_level", "shed_levels", "shed_level_descriptions" >>,
       << "description", "full_duty_baseline" >>, << >> >>
Load_Control_Instances == 0 .. MAX_LOAD_CONTROLS - 1
Load_Control_Name(n) == << "LOAD CONTROL", n >>

LongAgo == -1               \* what minutes added to a wildcard make: January 1900
MAX_SHED_LEVELS == 3
Shed_Level_Values == << 900, 800, 700 >>
Full_Duty_Baseline == 15    \* 1.5 kW

Load_Control_Init ==
    [n \in Load_Control_Instances |->
        [state |-> "inactive", enable |-> TRUE,
         request |-> << "level", 0 >>, expected |-> << "level", 0 >>, actual |-> << "level", 0 >>,
         start |-> Wild, duration |-> 0, window |-> 0,
         requestWritten |-> FALSE, startWritten |-> FALSE,
         levels |-> [j \in 1 .. MAX_SHED_LEVELS |-> j]]]

\* Present_Value is set in Load_Control_Init and nowhere else.
Load_Control_Present_Value(lc, n) == "shed_inactive"

-----------------------------------------------------------------------------
Requested_Shed_Level_Value(load) ==
    CASE load.request[1] = "percent" -> 10 * load.request[2]
      [] load.request[1] = "amount" ->
            ((Full_Duty_Baseline - load.request[2]) * 1000) \div Full_Duty_Baseline
      [] load.request[1] = "level" ->
            LET met == {j \in 1 .. MAX_SHED_LEVELS : load.levels[j] <= load.request[2]}
            IN  Shed_Level_Values[IF met = {} THEN 1 ELSE CHOOSE j \in met : \A k \in met : k <= j]

Shed_Level_Default(type) == << type, IF type = "percent" THEN 100 ELSE 0 >>

\* The output is commanded at priority 4 or after, and is not yet below.
Able_To_Meet_Shed_Request(load, ao, i) ==
    /\ Analog_Output_Present_Value_Priority(ao, i) >= 4
    /\ 10 * Analog_Output_Present_Value(ao, i) >= Requested_Shed_Level_Value(load)

\* datetime_add_minutes carries the minutes of the day into the date and leaves
\* them in the hours: an end past midnight compares a day late.
End_Time(load) ==
    IF load.start = Wild THEN LongAgo
    ELSE load.start + load.duration
         + DayLength * (((load.start % DayLength) + (load.duration % DayLength)) \div DayLength)

-----------------------------------------------------------------------------
(* The state machine, one load at a time, by the names of its comments.  A *)
(* step gives the load and the outputs that it leaves.                     *)
Step(load, ao) == [load |-> load, ao |-> ao]
Goes(load, state) == [load EXCEPT !.state = state]

Sheds(load, ao, i) ==
    Step([load EXCEPT !.state = "compliant", !.expected = load.request, !.actual = load.request],
         Analog_Output_Present_Value_Set(ao, i, Requested_Shed_Level_Value(load), 4).after)

CannotMeetShed(load) ==
    [load EXCEPT !.state = "non_compliant",
                 !.expected = Shed_Level_Default(load.request[1]),
                 !.actual = Shed_Level_Default(load.request[1])]

ReconfigurePending(load) ==
    [load EXCEPT !.expected = load.request, !.actual = Shed_Level_Default(load.request[1])]

\* The request flag is taken down first; a default request leaves the start
\* time's flag up, and the load is pending again a second later.
ShedRequestPending(load, ao, i, now) ==
    LET asked   == [load EXCEPT !.requestWritten = FALSE]
        started == [asked EXCEPT !.startWritten = FALSE]
    IN  IF load.requestWritten /\ load.request = Shed_Level_Default(load.request[1])
        THEN Step(Goes(asked, "inactive"), ao)
        ELSE IF load.startWritten /\ load.start = Wild THEN Step(Goes(started, "inactive"), ao)
        ELSE IF End_Time(load) < now THEN Step(Goes(started, "inactive"), ao)
        ELSE IF now < load.start THEN Step(ReconfigurePending(started), ao)
        ELSE IF now = load.start THEN Step(started, ao)
        ELSE IF Able_To_Meet_Shed_Request(load, ao, i) THEN Sheds(started, ao, i)
        ELSE Step(CannotMeetShed(started), ao)

ShedNonCompliant(load, ao, i, now) ==
    IF End_Time(load) < now THEN Step(Goes(load, "inactive"), ao)
    ELSE IF load.requestWritten \/ load.startWritten THEN Step(Goes(load, "pending"), ao)
    ELSE IF Able_To_Meet_Shed_Request(load, ao, i) THEN Sheds(load, ao, i)
    ELSE Step(load, ao)

\* (mutant: the shed goes on while the end is not before now)
CompliantForEver(load, ao, i, now) ==
    IF load.requestWritten \/ load.startWritten THEN Step(Goes(load, "pending"), ao)
    ELSE IF ~Able_To_Meet_Shed_Request(load, ao, i) THEN Step(CannotMeetShed(load), ao)
    ELSE Step(load, ao)
ShedCompliant(load, ao, i, now) ==
    IF End_Time(load) < now
    THEN Step(Goes(load, "inactive"), Analog_Output_Present_Value_Relinquish(ao, i, 4).after)
    ELSE IF load.requestWritten \/ load.startWritten THEN Step(Goes(load, "pending"), ao)
    ELSE IF ~Able_To_Meet_Shed_Request(load, ao, i) THEN Step(CannotMeetShed(load), ao)
    ELSE Step(load, ao)

ShedInactive(load, ao) ==
    IF load.startWritten THEN Step(Goes(ReconfigurePending(load), "pending"), ao) ELSE Step(load, ao)

Stepped(load, ao, i, now) ==
    CASE ~load.enable -> Step(Goes(load, "inactive"), ao)
      [] load.enable /\ load.state = "pending" -> ShedRequestPending(load, ao, i, now)
      [] load.enable /\ load.state = "non_compliant" -> ShedNonCompliant(load, ao, i, now)
      [] load.enable /\ load.state = "compliant" -> ShedCompliant(load, ao, i, now)
      [] load.enable /\ load.state = "inactive" -> ShedInactive(load, ao)

\* A finished shed resets the start time of load 0, whichever load it was.
Load_Control_State_Machine(lc, ao, i, now) ==
    LET step     == Stepped(lc[i], ao, i, now)
        finished == lc[i].enable /\ lc[i].state = "compliant" /\ End_Time(lc[i]) < now
        moved    == [lc EXCEPT ![i] = step.load]
    IN  [lc |-> IF finished THEN [moved EXCEPT ![0].start = Wild] ELSE moved, ao |-> step.ao]

\* All loads in turn, on the time that was read before the first.
Load_Control_State_Machine_Handler(lc, ao, now) ==
    LET f[i \in -1 .. MAX_LOAD_CONTROLS - 1] ==
            LET before == f[i - 1]
            IN  IF i = -1 THEN [lc |-> lc, ao |-> ao]
                ELSE Load_Control_State_Machine(before.lc, before.ao, i, now)
    IN  f[MAX_LOAD_CONTROLS - 1]

-----------------------------------------------------------------------------
Load_Control_Arrays(load) ==
    [shed_levels |-> [j \in 1 .. MAX_SHED_LEVELS |-> << "unsigned", load.levels[j] >>],
     shed_level_descriptions |->
        [j \in 1 .. MAX_SHED_LEVELS |-> << "string", << "dim lights", 10 * j >> >>]]
Load_Control_Read_Property(lc, n, p, i) ==
    LET load == lc[n]
    IN  Reading(Identified("lc", n, Load_Control_Name(n)) ++ Described(Load_Control_Name(n))
                ++ [present_value |-> << "enumerated", Load_Control_Present_Value(lc, n) >>,
                    status_flags |-> << "bits", << FALSE, FALSE, FALSE, FALSE >> >>,
                    event_state |-> << "enumerated", "normal" >>,
                    requested_shed_level |-> load.request,
                    expected_shed_level |-> load.expected,
                    actual_shed_level |-> load.actual,
                    start_time |-> << "datetime", load.start >>,
                    shed_duration |-> << "unsigned", load.duration >>,
                    duty_window |-> << "unsigned", load.window >>,
                    enable |-> << "boolean", load.enable >>,
                    full_duty_baseline |-> << "real", Full_Duty_Baseline >>],
                Load_Control_Arrays(load), p, i)

Written(lc, wp, tag, load) ==
    IF WPValidateArgType(wp.value, tag) THEN Done([lc EXCEPT ![wp.instance] = load])
    ELSE Refused(lc, "invalid_data_type")

\* Index 0 of the shed levels is refused, and all of them at once accepted and
\* forgotten.
ShedLevelWritten(lc, wp) ==
    IF ~WPValidateArgType(wp.value, "unsigned") THEN Refused(lc, "invalid_data_type")
    ELSE IF wp.index = 0 THEN Refused(lc, "write_access_denied")
    ELSE IF wp.index = All THEN Done(lc)
    ELSE IF wp.index > MAX_SHED_LEVELS THEN Refused(lc, "other")
    ELSE Done([lc EXCEPT ![wp.instance].levels[wp.index] = wp.value[2]])

Load_Control_Write_Property(lc, wp) ==
    LET load == lc[wp.instance]
        v    == wp.value[2]
    IN  CASE wp.property = "requested_shed_level" ->
                IF wp.value[1] \in {"percent", "level", "amount"}
                THEN Done([lc EXCEPT ![wp.instance].request = wp.value,
                                     ![wp.instance].requestWritten = TRUE])
                ELSE Refused(lc, "invalid_data_type")
          [] wp.property = "start_time" ->
                Written(lc, wp, "datetime", [load EXCEPT !.start = v, !.startWritten = TRUE])
          [] wp.property = "shed_duration" ->
                Written(lc, wp, "unsigned", [load EXCEPT !.duration = v, !.requestWritten = TRUE])
          [] wp.property = "duty_window" ->
                Written(lc, wp, "unsigned", [load EXCEPT !.window = v, !.requestWritten = TRUE])
          [] wp.property = "shed_levels" -> ShedLevelWritten(lc, wp)
          [] wp.property = "enable" -> Written(lc, wp, "boolean", [load EXCEPT !.enable = v])
          [] OTHER -> Refused(lc, "write_access_denied")
=============================================================================
