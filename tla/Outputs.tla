------------------------------ MODULE Outputs -------------------------------
(***************************************************************************)
(* The commandable objects: analog outputs and values (ao.c, av.c), binary *)
(* outputs and values (bo.c, bv.c), multistate outputs (mso.c) and         *)
(* lighting outputs (lo.c).  Each keeps a level for every priority and an  *)
(* out-of-service flag; an operator returns what is answered and, for a    *)
(* write, the objects it leaves.                                           *)
(***************************************************************************)
EXTENDS Properties

CONSTANTS MAX_ANALOG_OUTPUTS, MAX_ANALOG_VALUES, MAX_BINARY_OUTPUTS,
          MAX_BINARY_VALUES, MAX_MULTISTATE_OUTPUTS, MAX_LIGHTING_OUTPUTS

ASSUME OutputsAssumption ==
    \A n \in {MAX_ANALOG_OUTPUTS, MAX_ANALOG_VALUES, MAX_BINARY_OUTPUTS,
              MAX_BINARY_VALUES, MAX_MULTISTATE_OUTPUTS, MAX_LIGHTING_OUTPUTS} : n \in Nat \ {0}

Unset == [level |-> Relinquished, oos |-> FALSE]
Percent == 0 .. 1000
Whole(v) == v \div 10       \* (uint8_t) of a real

-----------------------------------------------------------------------------
(* Analog outputs *)
Analog_Output_Property_Lists ==
    << << "object_identifier", "object_name", "object_type", "present_value",
          "status_flags", "event_state", "out_of_service", "units",
          "priority_array", "relinquish_default" >>, << "description" >>, << >> >>
Analog_Output_Instances == 0 .. MAX_ANALOG_OUTPUTS - 1
Analog_Output_Init == [n \in Analog_Output_Instances |-> Unset]
Analog_Output_Name(n) == << "ANALOG OUTPUT", n >>

\* (mutant: the last priority that is set wins)
AO_LastWins(ao, n) ==
    IF Commands(ao[n]) = {} THEN 0
    ELSE ao[n].level[CHOOSE p \in Commands(ao[n]) : \A q \in Commands(ao[n]) : p >= q]
Analog_Output_Present_Value(ao, n) == Effective(ao[n], 0)
Analog_Output_Present_Value_Priority(ao, n) ==
    IF Commands(ao[n]) = {} THEN 0 ELSE Highest(ao[n])

Analog_Output_Present_Value_Set(ao, n, value, p) ==
    IF n \in Analog_Output_Instances /\ MayCommand(p) /\ value \in Percent
    THEN Done(Commanded(ao, n, p, Whole(value))) ELSE Refused(ao, "value_out_of_range")

Analog_Output_Present_Value_Relinquish(ao, n, p) ==
    IF n \in Analog_Output_Instances /\ MayCommand(p)
    THEN Done(Commanded(ao, n, p, Null)) ELSE Refused(ao, "value_out_of_range")

Analog_Output_Read_Property(ao, n, p, i) ==
    Reading(Identified("ao", n, Analog_Output_Name(n)) ++ Described(Analog_Output_Name(n))
            ++ Flagged(ao[n].oos, FALSE)
            ++ [present_value |-> << "real", 10 * Analog_Output_Present_Value(ao, n) >>,
                units |-> << "enumerated", "percent" >>,
                relinquish_default |-> << "real", 0 >>],
            PriorityArray(ao[n], "real", 10), p, i)

\* NULL at priority 6 is out of range here, and taken in av.c and the others.
Analog_Output_Write_Property(ao, wp) ==
    CASE wp.property = "present_value" /\ wp.value[1] = "real" ->
            IF wp.priority = 6 THEN Refused(ao, "write_access_denied")
            ELSE Analog_Output_Present_Value_Set(ao, wp.instance, wp.value[2], wp.priority)
      [] wp.property = "present_value" /\ wp.value[1] # "real" ->
            IF WPValidateArgType(wp.value, "null")
            THEN Analog_Output_Present_Value_Relinquish(ao, wp.instance, wp.priority)
            ELSE Refused(ao, "invalid_data_type")
      [] wp.property = "out_of_service" -> OutOfServiceWritten(ao, wp)
      [] OTHER -> Refused(ao, "write_access_denied")

-----------------------------------------------------------------------------
(* Analog values *)
Analog_Value_Property_Lists ==
    << << "object_identifier", "object_name", "object_type", "present_value",
          "status_flags", "event_state", "out_of_service", "units" >>,
       << "description", "priority_array", "relinquish_default" >>, << >> >>
Analog_Value_Instances == 0 .. MAX_ANALOG_VALUES - 1
Analog_Value_Init == [n \in Analog_Value_Instances |-> Unset]
Analog_Value_Name(n) == << "ANALOG VALUE", n >>
Analog_Value_Present_Value(av, n) == Effective(av[n], 0)

Analog_Value_Read_Property(av, n, p, i) ==
    Reading(Identified("av", n, Analog_Value_Name(n)) ++ Described(Analog_Value_Name(n))
            ++ Flagged(av[n].oos, FALSE)
            ++ [present_value |-> << "real", 10 * Analog_Value_Present_Value(av, n) >>,
                units |-> << "enumerated", "percent" >>,
                relinquish_default |-> << "real", 0 >>],
            PriorityArray(av[n], "real", 10), p, i)

Analog_Value_Write_Property(av, wp) ==
    CASE wp.property = "present_value" ->
            CommandWritten(av, wp, "real", wp.value[2] \in Percent, Whole(wp.value[2]))
      [] wp.property = "out_of_service" -> OutOfServiceWritten(av, wp)
      [] OTHER -> Refused(av, "write_access_denied")

-----------------------------------------------------------------------------
(* Binary outputs *)
Binary_Output_Property_Lists ==
    << << "object_identifier", "object_name", "object_type", "present_value",
          "status_flags", "event_state", "out_of_service", "polarity",
          "priority_array", "relinquish_default" >>,
       << "description", "active_text", "inactive_text" >>, << >> >>
Binary_Output_Instances == 0 .. MAX_BINARY_OUTPUTS - 1
Binary_Output_Init == [n \in Binary_Output_Instances |-> Unset]
Binary_Output_Name(n) == << "BINARY OUTPUT", n >>
Binary_Output_Present_Value(bo, n) == Effective(bo[n], 0)
BinaryPV == 0 .. 1          \* up to MAX_BINARY_PV

Binary_Output_Read_Property(bo, n, p, i) ==
    Reading(Identified("bo", n, Binary_Output_Name(n)) ++ Described(Binary_Output_Name(n))
            ++ Flagged(bo[n].oos, FALSE)
            ++ [present_value |-> << "enumerated", Binary_Output_Present_Value(bo, n) >>,
                polarity |-> << "enumerated", "normal" >>,
                relinquish_default |-> << "enumerated", 0 >>,
                active_text |-> << "string", "on" >>, inactive_text |-> << "string", "off" >>],
            PriorityArray(bo[n], "enumerated", 1), p, i)

Binary_Output_Write_Property(bo, wp) ==
    CASE wp.property = "present_value" ->
            CommandWritten(bo, wp, "enumerated", wp.value[2] \in BinaryPV, wp.value[2])
      [] wp.property = "out_of_service" -> OutOfServiceWritten(bo, wp)
      [] OTHER -> Refused(bo, "write_access_denied")

-----------------------------------------------------------------------------
(* Binary values *)
Binary_Value_Property_Lists ==
    << << "object_identifier", "object_name", "object_type", "present_value",
          "status_flags", "event_state", "out_of_service" >>,
       << "description", "priority_array", "relinquish_default" >>, << >> >>
Binary_Value_Instances == 0 .. MAX_BINARY_VALUES - 1
Binary_Value_Init == [n \in Binary_Value_Instances |-> Unset]
Binary_Value_Name(n) == << "BINARY VALUE", n >>
Binary_Value_Present_Value(bv, n) == Effective(bv[n], 0)

\* Element i of the priority array is read where element i + 1 is kept; the
\* sixteenth is the next object's first, and of the last object whatever lies
\* behind the array.
Binary_Value_Element(bv, n, i) ==
    IF i < BACNET_MAX_PRIORITY THEN {bv[n].level[i + 1]}
    ELSE IF n + 1 \in Binary_Value_Instances THEN {bv[n + 1].level[1]}
    ELSE BinaryPV \cup {Null}

\* The replies there may be: one, but for that last element.
Binary_Value_Read_Property(bv, n, p, i) ==
    IF p = "priority_array" /\ i \in Priorities
    THEN {Ack(ElementOf(level, "enumerated", 1)) : level \in Binary_Value_Element(bv, n, i)}
    ELSE {Reading(Identified("bv", n, Binary_Value_Name(n)) ++ Described(Binary_Value_Name(n))
                  ++ Flagged(bv[n].oos, FALSE)
                  ++ [present_value |-> << "enumerated", Binary_Value_Present_Value(bv, n) >>,
                      relinquish_default |-> << "enumerated", 0 >>],
                  PriorityArray(bv[n], "enumerated", 1), p, i)}

Binary_Value_Write_Property(bv, wp) ==
    CASE wp.property = "present_value" ->
            CommandWritten(bv, wp, "enumerated", wp.value[2] \in BinaryPV, wp.value[2])
      [] wp.property = "out_of_service" -> OutOfServiceWritten(bv, wp)
      [] OTHER -> Refused(bv, "write_access_denied")

-----------------------------------------------------------------------------
(* Multistate outputs *)
MULTISTATE_NUMBER_OF_STATES == 254
Multistate_Output_Property_Lists ==
    << << "object_identifier", "object_name", "object_type", "present_value",
          "status_flags", "event_state", "out_of_service", "number_of_states",
          "priority_array", "relinquish_default" >>, << "description" >>, << >> >>
Multistate_Output_Instances == 0 .. MAX_MULTISTATE_OUTPUTS - 1
Multistate_Output_Init == [n \in Multistate_Output_Instances |-> Unset]
Multistate_Output_Name(n) == << "MULTISTATE OUTPUT", n >>
Multistate_Output_Present_Value(mso, n) == Effective(mso[n], 0)

\* The relinquish default goes out as an enumerated value, the others unsigned.
Multistate_Output_Read_Property(mso, n, p, i) ==
    Reading(Identified("mso", n, Multistate_Output_Name(n))
            ++ Described(Multistate_Output_Name(n)) ++ Flagged(mso[n].oos, FALSE)
            ++ [present_value |-> << "unsigned", Multistate_Output_Present_Value(mso, n) >>,
                number_of_states |-> << "unsigned", MULTISTATE_NUMBER_OF_STATES >>,
                relinquish_default |-> << "enumerated", 0 >>],
            PriorityArray(mso[n], "unsigned", 1), p, i)

Multistate_Output_Write_Property(mso, wp) ==
    CASE wp.property = "present_value" ->
            CommandWritten(mso, wp, "unsigned",
                           wp.value[2] <= MULTISTATE_NUMBER_OF_STATES, wp.value[2])
      [] wp.property = "out_of_service" -> OutOfServiceWritten(mso, wp)
      [] OTHER -> Refused(mso, "write_access_denied")

-----------------------------------------------------------------------------
(* Lighting outputs, for an application that adds them to its object table *)
Lighting_Output_Instances == 0 .. MAX_LIGHTING_OUTPUTS - 1
Stopped == [operation |-> "stop", level |-> 0, ramp_rate |-> 0, step_increment |-> 0,
            fade_time |-> 0, duration |-> 0]
Lighting_Output_Init ==
    [n \in Lighting_Output_Instances |->
        [level |-> Relinquished, oos |-> FALSE, command |-> Stopped, progress |-> 0]]
Lighting_Output_Name(n) == << "LIGHTING OUTPUT", n >>
Lighting_Output_Present_Value(lo, n) == Effective(lo[n], 0)
Lighting_Output_Present_Value_Priority(lo, n) ==
    IF Commands(lo[n]) = {} THEN 0 ELSE Highest(lo[n])
Lighting_Output_Progress_Value(lo, n) == lo[n].progress

Lighting_Output_Present_Value_Set(lo, n, value, p) ==
    IF MayCommand(p) /\ value \in Percent
    THEN Done(Commanded(lo, n, p, Whole(value))) ELSE Refused(lo, "value_out_of_range")
Lighting_Output_Present_Value_Relinquish(lo, n, p) ==
    IF MayCommand(p)
    THEN Done(Commanded(lo, n, p, Null)) ELSE Refused(lo, "value_out_of_range")

\* Fields with their "not set" value are left out.
Lighting_Output_Encode_Lighting_Command(c) ==
    << << 0, c.operation >> >>
    \o (IF c.level # 255 THEN << << 1, c.level >> >> ELSE << >>)
    \o (IF c.ramp_rate # 255 THEN << << 2, c.ramp_rate >> >> ELSE << >>)
    \o (IF c.step_increment # 255 THEN << << 3, c.step_increment >> >> ELSE << >>)
    \o (IF c.fade_time # 0 THEN << << 4, c.fade_time >> >> ELSE << >>)
    \o (IF c.duration # 0 THEN << << 5, c.duration >> >> ELSE << >>)

\* "if (apdu_len && data)" tests the count that starts at 0: nothing is decoded.
Lighting_Output_Decode_Lighting_Command(lo, n, octets) == lo

Lighting_Output_Read_Property(lo, n, p, i) ==
    Reading(Identified("lo", n, Lighting_Output_Name(n)) ++ Described(Lighting_Output_Name(n))
            ++ Flagged(lo[n].oos, FALSE)
            ++ [present_value |-> << "real", 10 * Lighting_Output_Present_Value(lo, n) >>,
                progress_value |-> << "real", 10 * Lighting_Output_Progress_Value(lo, n) >>,
                lighting_command |-> Lighting_Output_Encode_Lighting_Command(lo[n].command),
                units |-> << "enumerated", "percent" >>,
                relinquish_default |-> << "real", 0 >>],
            PriorityArray(lo[n], "real", 10), p, i)

\* A lighting command is answered with whatever error the request record holds.
Lighting_Output_Write_Property(lo, wp) ==
    CASE wp.property = "present_value" /\ wp.priority = 6
                /\ wp.value[1] \in {"real", "null"} -> Refused(lo, "write_access_denied")
      [] wp.property = "present_value" /\ wp.priority # 6 /\ wp.value[1] = "real" ->
            Lighting_Output_Present_Value_Set(lo, wp.instance, wp.value[2], wp.priority)
      [] wp.property = "present_value" /\ wp.priority # 6 /\ wp.value[1] = "null" ->
            Lighting_Output_Present_Value_Relinquish(lo, wp.instance, wp.priority)
      [] wp.property = "present_value" /\ wp.value[1] \notin {"real", "null"} ->
            Refused(lo, "invalid_data_type")
      [] wp.property = "lighting_command" ->
            Refused(Lighting_Output_Decode_Lighting_Command(lo, wp.instance, wp.value), "stale")
      [] wp.property = "out_of_service" -> OutOfServiceWritten(lo, wp)
      [] OTHER -> Refused(lo, "write_access_denied")
=============================================================================
