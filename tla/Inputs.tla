------------------------------- MODULE Inputs -------------------------------
(***************************************************************************)
(* The objects that are not commandable: analog, binary and multistate     *)
(* inputs (ai.c, bi.c, ms-input.c), life safety points (lsp.c) and files   *)
(* (bacfile.c, for an application built with BACFILE).                     *)
(***************************************************************************)
EXTENDS Properties

CONSTANTS MAX_ANALOG_INPUTS, MAX_BINARY_INPUTS, MAX_MULTISTATE_INPUTS,
          MAX_LIFE_SAFETY_POINTS,
          NUMBER_OF_STATES,     \* of a multistate input
          Files                 \* BACnet_File_Listing, the names in order

ASSUME InputsAssumption ==
    \A n \in {MAX_ANALOG_INPUTS, MAX_BINARY_INPUTS, MAX_MULTISTATE_INPUTS,
              MAX_LIFE_SAFETY_POINTS, NUMBER_OF_STATES} : n \in Nat \ {0}
ASSUME FilesAssumption == Files \in Seq({Files[k] : k \in DOMAIN Files})

-----------------------------------------------------------------------------
(* Analog inputs *)
Analog_Input_Property_Lists ==
    << << "object_identifier", "object_name", "object_type", "present_value",
          "status_flags", "event_state", "out_of_service", "units" >>,
       << "description" >>, << "9997", "9998", "9999" >> >>
Analog_Input_Instances == 0 .. MAX_ANALOG_INPUTS - 1
Analog_Input_Init == [n \in Analog_Input_Instances |-> 0]
Analog_Input_Name(n) == << "ANALOG INPUT", n >>
Analog_Input_Present_Value(ai, n) == ai[n]
Analog_Input_Present_Value_Set(ai, n, value) == [ai EXCEPT ![n] = value]

Proprietary ==
    [p \in {"9997", "9998", "9999"} |->
        CASE p = "9997" -> << "real", 905 >> [] p = "9998" -> << "unsigned", 90 >>
          [] p = "9999" -> << "signed", -200 >>]
Analog_Input_Read_Property(ai, n, p, i) ==
    Reading(Identified("ai", n, Analog_Input_Name(n)) ++ Described(Analog_Input_Name(n))
            ++ Flagged(FALSE, FALSE)
            ++ [present_value |-> << "real", Analog_Input_Present_Value(ai, n) >>,
                units |-> << "enumerated", "percent" >>]
            ++ Proprietary, NoArrays, p, i)

-----------------------------------------------------------------------------
(* Binary inputs; their COV notices are Cov's *)
Binary_Input_Property_Lists ==
    << << "object_identifier", "object_name", "object_type", "present_value",
          "status_flags", "event_state", "out_of_service", "polarity" >>,
       << "description" >>, << >> >>
Binary_Input_Instances == 0 .. MAX_BINARY_INPUTS - 1
Binary_Input_Init ==
    [n \in Binary_Input_Instances |-> [value |-> 0, oos |-> FALSE, changed |-> FALSE, polarity |-> 0]]
Binary_Input_Name(n) == << "BINARY INPUT", n >>
MAX_BINARY_PV == 1
MAX_POLARITY == 2

Binary_Input_Present_Value_Set(bi, n, value) ==
    [bi EXCEPT ![n].value = value, ![n].changed = @ \/ bi[n].value # value]
Binary_Input_Out_Of_Service_Set(bi, n, oos) ==
    [bi EXCEPT ![n].oos = oos, ![n].changed = @ \/ bi[n].oos # oos]
Binary_Input_Polarity(bi, n) == bi[n].polarity
Binary_Input_Polarity_Set(bi, n, polarity) == [bi EXCEPT ![n].polarity = polarity]

Binary_Input_Encode_Value_List(bi, n) ==
    << << "present_value", << "enumerated", bi[n].value >> >>,
       << "status_flags", << "bits", << FALSE, FALSE, FALSE, bi[n].oos >> >> >> >>

Binary_Input_Read_Property(bi, n, p, i) ==
    Reading(Identified("bi", n, Binary_Input_Name(n)) ++ Described(Binary_Input_Name(n))
            ++ Flagged(bi[n].oos, bi[n].oos)
            ++ [present_value |-> << "enumerated", bi[n].value >>,
                polarity |-> << "enumerated", Binary_Input_Polarity(bi, n) >>], NoArrays, p, i)

Binary_Input_Write_Property(bi, wp) ==
    CASE wp.property \in {"present_value", "polarity"}
                /\ ~WPValidateArgType(wp.value, "enumerated") -> Refused(bi, "invalid_data_type")
      [] wp.property = "present_value" /\ WPValidateArgType(wp.value, "enumerated") ->
            IF wp.value[2] <= MAX_BINARY_PV
            THEN Done(Binary_Input_Present_Value_Set(bi, wp.instance, wp.value[2]))
            ELSE Refused(bi, "value_out_of_range")
      [] wp.property = "polarity" /\ WPValidateArgType(wp.value, "enumerated") ->
            IF wp.value[2] < MAX_POLARITY
            THEN Done(Binary_Input_Polarity_Set(bi, wp.instance, wp.value[2]))
            ELSE Refused(bi, "value_out_of_range")
      [] wp.property = "out_of_service" ->
            IF WPValidateArgType(wp.value, "boolean")
            THEN Done(Binary_Input_Out_Of_Service_Set(bi, wp.instance, wp.value[2]))
            ELSE Refused(bi, "invalid_data_type")
      [] OTHER -> Refused(bi, "write_access_denied")

-----------------------------------------------------------------------------
(* Multistate inputs.  A text is known by its length, up to 63. *)
Multistate_Input_Property_Lists ==
    << << "object_identifier", "object_name", "object_type", "present_value",
          "status_flags", "event_state", "out_of_service", "number_of_states" >>,
       << "description", "state_text" >>, << >> >>
Multistate_Input_Instances == 0 .. MAX_MULTISTATE_INPUTS - 1
Multistate_Input_Init ==
    [n \in Multistate_Input_Instances |->
        [value |-> 0, oos |-> FALSE, name |-> 0, description |-> 0,
         states |-> [s \in 1 .. NUMBER_OF_STATES |-> 0]]]
Multistate_Input_Name(msi, n) == << "text", msi[n].name >>
Multistate_Input_Description(msi, n) == << "text", msi[n].description >>
Multistate_Input_State_Text(msi, n, s) == << "text", msi[n].states[s] >>
Multistate_Input_Name_Set(msi, n, text) == [msi EXCEPT ![n].name = text]
Multistate_Input_Description_Set(msi, n, text) == [msi EXCEPT ![n].description = text]
Multistate_Input_State_Text_Set(msi, n, s, text) ==
    IF s \in 1 .. NUMBER_OF_STATES THEN [msi EXCEPT ![n].states[s] = text] ELSE msi

\* A value below the number of states is taken: the last state cannot be set.
Multistate_Input_Present_Value_Set(msi, n, value) ==
    IF value < NUMBER_OF_STATES THEN Done([msi EXCEPT ![n].value = value])
    ELSE Refused(msi, "value_out_of_range")

\* The octets of texts put one after the other, and whether they reach too far.
Octets(texts) ==
    LET Upto[k \in 0 .. Len(texts)] ==
            IF k = 0 THEN 0
            ELSE Upto[k - 1] + (IF texts[k] + 1 > 4 THEN 3 ELSE 2) + texts[k]
    IN  Upto[Len(texts)]

Multistate_Input_Read_Property(msi, n, p, i) ==
    IF p = "state_text" /\ i = All /\ Octets(msi[n].states) >= MAX_APDU
    THEN Error("no_space_for_object")
    ELSE Reading(Identified("msi", n, Multistate_Input_Name(msi, n))
                 ++ Described(Multistate_Input_Description(msi, n)) ++ Flagged(msi[n].oos, FALSE)
                 ++ [present_value |-> << "unsigned", msi[n].value >>,
                     number_of_states |-> << "unsigned", NUMBER_OF_STATES >>],
                 [state_text |-> [s \in 1 .. NUMBER_OF_STATES |->
                                    << "string", Multistate_Input_State_Text(msi, n, s) >>]], p, i)

\* The present value is the peer's to write only while out of service, and
\* object 0's flag is the one that is asked.
Multistate_Input_Write_Property(msi, wp) ==
    CASE wp.property = "present_value" ->
            IF ~WPValidateArgType(wp.value, "unsigned") THEN Refused(msi, "invalid_data_type")
            ELSE IF ~msi[0].oos THEN Refused(msi, "write_access_denied")
            ELSE Multistate_Input_Present_Value_Set(msi, wp.instance, wp.value[2])
      [] wp.property = "out_of_service" -> OutOfServiceWritten(msi, wp)
      [] OTHER -> Refused(msi, "write_access_denied")

-----------------------------------------------------------------------------
(* Life safety points *)
Life_Safety_Point_Property_Lists ==
    << << "object_identifier", "object_name", "object_type", "present_value",
          "status_flags", "event_state", "out_of_service", "reliability", "mode",
          "accepted_modes", "silenced", "operation_expected" >>, << "description" >>, << >> >>
Life_Safety_Point_Instances == 0 .. MAX_LIFE_SAFETY_POINTS - 1
MAX_LIFE_SAFETY_MODE == 15
LIFE_SAFETY_MODE_DEFAULT == 14
Life_Safety_Point_Init ==
    [n \in Life_Safety_Point_Instances |->
        [mode |-> LIFE_SAFETY_MODE_DEFAULT, state |-> "quiet", silenced |-> "unsilenced",
         operation |-> "none", oos |-> FALSE]]
Life_Safety_Point_Name(n) == << "LS POINT", n >>
Life_Safety_Point_Present_Value(lsp, n) == lsp[n].state

Life_Safety_Point_Read_Property(lsp, n, p, i) ==
    Reading(Identified("lsp", n, Life_Safety_Point_Name(n))
            ++ Described(Life_Safety_Point_Name(n)) ++ Flagged(lsp[n].oos, FALSE)
            ++ [present_value |-> << "enumerated", Life_Safety_Point_Present_Value(lsp, n) >>,
                reliability |-> << "enumerated", "no_fault_detected" >>,
                mode |-> << "enumerated", lsp[n].mode >>,
                accepted_modes |-> << "enumerated", 0 .. MAX_LIFE_SAFETY_MODE - 1 >>,
                silenced |-> << "enumerated", lsp[n].silenced >>,
                operation_expected |-> << "enumerated", lsp[n].operation >>], NoArrays, p, i)

\* MAX_LIFE_SAFETY_MODE itself is taken, though not among the accepted modes.
Life_Safety_Point_Write_Property(lsp, wp) ==
    CASE wp.property = "mode" ->
            IF ~WPValidateArgType(wp.value, "enumerated") THEN Refused(lsp, "invalid_data_type")
            ELSE IF wp.value[2] <= MAX_LIFE_SAFETY_MODE
                 THEN Done([lsp EXCEPT ![wp.instance].mode = wp.value[2]])
                 ELSE Refused(lsp, "value_out_of_range")
      [] wp.property = "out_of_service" -> OutOfServiceWritten(lsp, wp)
      [] OTHER -> Refused(lsp, "write_access_denied")

-----------------------------------------------------------------------------
(* Files.  A file is absent or a sequence of octets on the disk. *)
BACfile_Property_Lists ==
    << << "object_identifier", "object_name", "object_type", "file_type", "file_size",
          "modification_date", "archive", "read_only", "file_access_method" >>,
       << "description" >>, << >> >>
bacfile_Instances == 0 .. Len(Files) - 1
bacfile_init == [n \in bacfile_Instances |-> [present |-> FALSE, octets |-> << >>]]
bacfile_name(n) == << "file name", Files[n + 1] >>
bacfile_instance(name) == {n \in bacfile_Instances : bacfile_name(n) = name}
bacfile_file_size(file, n) == Len(file[n].octets)

\* The name that is read is not the one the object is found by.
bacfile_read_property(file, n, p) ==
    Reading(Identified("file", n, << "FILE", n >>) ++ Described(bacfile_name(n))
            ++ [file_type |-> << "string", "TEXT" >>,
                file_size |-> << "unsigned", bacfile_file_size(file, n) >>,
                modification_date |-> << "datetime", << 2006, 4, 1, 7, 0, 3, 1 >> >>,
                archive |-> << "boolean", TRUE >>, read_only |-> << "boolean", TRUE >>,
                file_access_method |-> << "enumerated", "stream" >>], NoArrays, p, All)

\* Archive and file size are checked, answered, and left as they are.
bacfile_write_property(file, wp) ==
    CASE wp.property = "archive" ->
            IF WPValidateArgType(wp.value, "boolean") THEN Done(file)
            ELSE Refused(file, "invalid_data_type")
      [] wp.property = "file_size" ->
            IF WPValidateArgType(wp.value, "unsigned") THEN Done(file)
            ELSE Refused(file, "invalid_data_type")
      [] OTHER -> Refused(file, "write_access_denied")

\* fseek to a negative position fails unnoticed and stays at the start.
Seek(position) == IF position < 0 THEN 0 ELSE position

bacfile_read_data(file, n, start, count) ==
    LET octets == SubSeq(file[n].octets, Seek(start) + 1, Seek(start) + count)
    IN  [endOfFile |-> ~file[n].present \/ Len(octets) < count, start |-> start, octets |-> octets]

\* Written from the start, a file is made new; elsewhere it must be there, and
\* when it is not the data are dropped and the request acknowledged.
bacfile_write_stream_data(file, n, start, octets) ==
    LET old  == IF start = 0 THEN << >> ELSE file[n].octets
        from == Seek(start)
        size == IF octets = << >> \/ from + Len(octets) <= Len(old) THEN Len(old)
                ELSE from + Len(octets)
    IN  IF start # 0 /\ ~file[n].present THEN file
        ELSE [file EXCEPT ![n] = [present |-> TRUE,
                octets |-> [k \in 1 .. size |->
                    IF k \in from + 1 .. from + Len(octets) THEN octets[k - from]
                    ELSE IF k <= Len(old) THEN old[k] ELSE 0]]]

-----------------------------------------------------------------------------
handler_atomic_read_file(file, type, n, access, start, count) ==
    IF type # "file" THEN Error("file_access_denied")
    ELSE IF n \notin bacfile_Instances THEN Error("unknown_object")
    ELSE IF access # "stream" THEN Error("invalid_file_access_method")
    ELSE IF count >= MAX_APDU - 6 THEN Abort("segmentation_not_supported")
    ELSE Ack(bacfile_read_data(file, n, start, count))

handler_atomic_write_file(file, type, n, access, start, octets) ==
    IF type # "file" THEN Refused(file, "file_access_denied")
    ELSE IF n \notin bacfile_Instances THEN Refused(file, "unknown_object")
    ELSE IF access # "stream" THEN Refused(file, "invalid_file_access_method")
    ELSE [reply |-> Ack(start), after |-> bacfile_write_stream_data(file, n, start, octets)]
=============================================================================
