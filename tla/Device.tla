------------------------------- MODULE Device -------------------------------
(***************************************************************************)
(* The device (device.c): its own properties, the table of object types,   *)
(* the object list and names, and the property services over all objects   *)
(* (h_rp.c, h_rpm.c, h_wp.c, h_rr.c).  "o" is the record of the objects of *)
(* each type; a service returns the reply and, for a write, the objects it *)
(* leaves.                                                                 *)
(***************************************************************************)
EXTENDS LoadControl, Inputs, TrendLog

CONSTANTS
    Added,          \* what a build can add to the object table, of AddedTypes
    RevisionRange   \* 2^32, the range of Database_Revision

AddedTypes == {"lo", "file", "bi_write"}
Types == {"device", "ai", "ao", "av", "bi", "bo", "bv", "lsp", "lc", "mso", "msi", "tl", "lo", "file"}

ASSUME DeviceAssumption == Added \subseteq AddedTypes /\ RevisionRange \in Nat \ {0}

-----------------------------------------------------------------------------
(* The device's own properties.  A name is << content, length, set >>.     *)
BACNET_MAX_INSTANCE == 4194303
MAX_DEV_NAME_LEN == 32
MAX_DEV_LOC_LEN == 64
MAX_DEV_MOD_LEN == 32
MAX_DEV_DESC_LEN == 64
Device_Property_Lists ==
    << << "object_identifier", "object_name", "object_type", "system_status", "vendor_name",
          "vendor_identifier", "model_name", "firmware_revision",
          "application_software_version", "protocol_version", "protocol_revision",
          "protocol_services_supported", "protocol_object_types_supported", "object_list",
          "max_apdu_length_accepted", "segmentation_supported", "apdu_timeout",
          "number_of_apdu_retries", "device_address_binding", "database_revision" >>,
       << "description", "local_time", "utc_offset", "local_date", "daylight_savings_status",
          "location", "active_cov_subscriptions" >>, << >> >>

Device_Start ==
    [instance |-> 260002, name |-> << "BITS Test Server", 16, "ansi" >>,
     status |-> "operational", vendor |-> 260, model |-> << "BITS-001", 8, "ansi" >>,
     version |-> << "1.01", 4, "ansi" >>, location |-> << "USA", 3, "ansi" >>,
     description |-> << "Test Server", 11, "ansi" >>, revision |-> 0,
     timeout |-> 3000, retries |-> 3]
Device_Valid_Object_Instance_Number(device, n) == n \in {device.instance, BACNET_MAX_INSTANCE}
Device_Inc_Database_Revision(device) == [device EXCEPT !.revision = (@ + 1) % RevisionRange]
Device_Set_Object_Instance_Number(device, n) ==
    IF n <= BACNET_MAX_INSTANCE
    THEN Done(Device_Inc_Database_Revision([device EXCEPT !.instance = n]))
    ELSE Refused(device, "value_out_of_range")

Device_Set_Object_Name(device, name) ==
    IF name[2] <= MAX_DEV_NAME_LEN THEN Device_Inc_Database_Revision([device EXCEPT !.name = name])
    ELSE device
Device_Set_Model_Name(device, text) ==
    IF text[2] <= MAX_DEV_MOD_LEN THEN [device EXCEPT !.model = text] ELSE device
Device_Set_Description(device, text) ==
    IF text[2] <= MAX_DEV_DESC_LEN THEN [device EXCEPT !.description = text] ELSE device
Device_Set_Location(device, text) ==
    IF text[2] <= MAX_DEV_LOC_LEN THEN [device EXCEPT !.location = text] ELSE device
Device_Set_Application_Software_Version(device, text) ==
    IF text[2] <= 16 THEN [device EXCEPT !.version = text] ELSE device

\* Some of the states are the device's own to enter, and backup nobody's.
Device_Set_System_Status(device, status, local) ==
    CASE status \in {"operational", "operational_read_only", "non_operational"}
            \/ (local /\ status \in {"download_required", "download_in_progress"}) ->
            Done([device EXCEPT !.status = status])
      [] (~local /\ status \in {"download_required", "download_in_progress"})
            \/ status = "backup_in_progress" ->
            Refused(device, "optional_functionality_not_supported")
      [] OTHER -> Refused(device, "value_out_of_range")

\* A string that is written is checked, then set: the device is as in "after".
TextWritten(device, wp, max, emptyAllowed, after) ==
    LET verdict == WPValidateString(wp.value, max, emptyAllowed)
    IN  IF verdict = "ok" THEN Done(after) ELSE Refused(device, verdict)

Device_Write_Property_Local(device, wp) ==
    LET v == wp.value[2]
        Number(after) ==
            IF WPValidateArgType(wp.value, "unsigned") THEN Done(after)
            ELSE Refused(device, "invalid_data_type")
    IN  CASE wp.property = "object_identifier" ->
                IF ~WPValidateArgType(wp.value, "object_id") THEN Refused(device, "invalid_data_type")
                ELSE IF v[1] # "device" THEN Refused(device, "value_out_of_range")
                ELSE Device_Set_Object_Instance_Number(device, v[2])
          [] wp.property = "number_of_apdu_retries" -> Number([device EXCEPT !.retries = v % 2^8])
          [] wp.property = "apdu_timeout" -> Number([device EXCEPT !.timeout = v % 2^16])
          [] wp.property = "vendor_identifier" -> Number([device EXCEPT !.vendor = v % 2^16])
          [] wp.property = "system_status" ->
                IF WPValidateArgType(wp.value, "enumerated")
                THEN Device_Set_System_Status(device, v, FALSE)
                ELSE Refused(device, "invalid_data_type")
          [] wp.property = "object_name" ->
                TextWritten(device, wp, MAX_DEV_NAME_LEN, FALSE, Device_Set_Object_Name(device, v))
          [] wp.property = "location" ->
                TextWritten(device, wp, MAX_DEV_LOC_LEN, TRUE, Device_Set_Location(device, v))
          [] wp.property = "description" ->
                TextWritten(device, wp, MAX_DEV_DESC_LEN, TRUE, Device_Set_Description(device, v))
          [] wp.property = "model_name" ->
                TextWritten(device, wp, MAX_DEV_MOD_LEN, TRUE, Device_Set_Model_Name(device, v))
          [] OTHER -> Refused(device, "write_access_denied")

-----------------------------------------------------------------------------
(* The table of object types, in its order. *)
Object_Table ==
    << "device", "ai", "ao", "av", "bi", "bo", "bv", "lsp", "lc", "mso", "msi", "tl" >>
    \o (IF "lo" \in Added THEN << "lo" >> ELSE << >>)
    \o (IF "file" \in Added THEN << "file" >> ELSE << >>)
Device_Objects_Find_Functions(type) == \E k \in DOMAIN Object_Table : Object_Table[k] = type

Object_Instances(device, type) ==
    CASE type = "device" -> {device.instance} [] type = "ai" -> Analog_Input_Instances
      [] type = "ao" -> Analog_Output_Instances [] type = "av" -> Analog_Value_Instances
      [] type = "bi" -> Binary_Input_Instances [] type = "bo" -> Binary_Output_Instances
      [] type = "bv" -> Binary_Value_Instances [] type = "lsp" -> Life_Safety_Point_Instances
      [] type = "lc" -> Load_Control_Instances [] type = "mso" -> Multistate_Output_Instances
      [] type = "msi" -> Multistate_Input_Instances [] type = "tl" -> Trend_Log_Instances
      [] type = "lo" -> Lighting_Output_Instances [] type = "file" -> bacfile_Instances
Object_Count(device, type) == Cardinality(Object_Instances(device, type))
Object_Index_To_Instance(device, type, k) == IF type = "device" THEN device.instance ELSE k
Object_Valid_Instance(device, type, n) ==
    n \in Object_Instances(device, type)
        \/ (type = "device" /\ Device_Valid_Object_Instance_Number(device, n))

Device_Objects_Property_List(type) ==
    CASE type = "device" -> Device_Property_Lists [] type = "ai" -> Analog_Input_Property_Lists
      [] type = "ao" -> Analog_Output_Property_Lists [] type = "av" -> Analog_Value_Property_Lists
      [] type = "bi" -> Binary_Input_Property_Lists [] type = "bo" -> Binary_Output_Property_Lists
      [] type = "bv" -> Binary_Value_Property_Lists [] type = "lsp" -> Life_Safety_Point_Property_Lists
      [] type = "lc" -> Load_Control_Property_Lists [] type = "mso" -> Multistate_Output_Property_Lists
      [] type = "msi" -> Multistate_Input_Property_Lists [] type = "tl" -> Trend_Log_Property_Lists
      [] type = "file" -> BACfile_Property_Lists [] OTHER -> << << >>, << >>, << >> >>

Device_Init ==
    [device |-> Device_Start, ai |-> Analog_Input_Init, ao |-> Analog_Output_Init,
     av |-> Analog_Value_Init, bi |-> Binary_Input_Init, bo |-> Binary_Output_Init,
     bv |-> Binary_Value_Init, lsp |-> Life_Safety_Point_Init, lc |-> Load_Control_Init,
     mso |-> Multistate_Output_Init, msi |-> Multistate_Input_Init, tl |-> Trend_Log_Init,
     lo |-> Lighting_Output_Init, file |-> bacfile_init]

-----------------------------------------------------------------------------
(* The object list *)
\* The objects of the first k types of the table.
Objects_Of(device, k) ==
    UNION {{Object_Table[j]} \X Object_Instances(device, Object_Table[j]) : j \in 1 .. k}
Device_Object_List_Count(device) == Cardinality(Objects_Of(device, Len(Object_Table)))
CountedBefore(device, k) == Cardinality(Objects_Of(device, k - 1))

\* (mutant: the counts of the earlier types are not taken off)
ListedFromOne(device, i) ==
    {<< Object_Table[k], Object_Index_To_Instance(device, Object_Table[k], i - 1) >> :
        k \in {k \in DOMAIN Object_Table : i \in 1 .. Object_Count(device, Object_Table[k])}}
\* A set: of one object, or of none for an index out of range.
Device_Object_List_Identifier(device, i) ==
    {<< Object_Table[k],
        Object_Index_To_Instance(device, Object_Table[k], i - 1 - CountedBefore(device, k)) >> :
        k \in {k \in DOMAIN Object_Table :
                i - CountedBefore(device, k) \in 1 .. Object_Count(device, Object_Table[k])}}
Listed(device, i) == CHOOSE id \in Device_Object_List_Identifier(device, i) : TRUE

Device_Valid_Object_Id(o, type, n) ==
    CASE type = "device" -> o.device.name [] type = "ai" -> Analog_Input_Name(n)
      [] type = "ao" -> Analog_Output_Name(n) [] type = "av" -> Analog_Value_Name(n)
      [] type = "bi" -> Binary_Input_Name(n) [] type = "bo" -> Binary_Output_Name(n)
      [] type = "bv" -> Binary_Value_Name(n) [] type = "lsp" -> Life_Safety_Point_Name(n)
      [] type = "lc" -> Load_Control_Name(n) [] type = "mso" -> Multistate_Output_Name(n)
      [] type = "msi" -> Multistate_Input_Name(o.msi, n) [] type = "tl" -> Trend_Log_Name(n)
      [] type = "lo" -> Lighting_Output_Name(n) [] type = "file" -> bacfile_name(n)

\* The first of that name, as a set.  The list is searched from index 0, where
\* nothing is, and so its last object is never compared.
Device_Valid_Object_Name(o, name) ==
    LET Named(i) == LET id == Listed(o.device, i)
                    IN  Device_Valid_Object_Id(o, id[1], id[2]) = name
        found    == {i \in 1 .. Device_Object_List_Count(o.device) - 1 : Named(i)}
    IN  {Listed(o.device, i) : i \in {i \in found : \A j \in found : i <= j}}

\* The whole list takes five octets an object, and must leave room for one more.
Object_List_Read(device, i) ==
    LET count == Device_Object_List_Count(device)
        Id(k) == << "object_id", Listed(device, k) >>
    IN  CASE i = 0 -> Ack(<< "unsigned", count >>)
          [] i = All -> IF 5 * count + 5 >= MAX_APDU THEN Abort("segmentation_not_supported")
                        ELSE Ack([k \in 1 .. count |-> Id(k)])
          [] i \in 1 .. count -> Ack(Id(i))
          [] OTHER -> Error("invalid_array_index")

-----------------------------------------------------------------------------
(* Reading and writing any property of any object *)
Unread(what) == << "elsewhere", what >>     \* values other components keep
Device_Read_Property_Local(o, time, p, i) ==
    LET device == o.device
    IN  IF p = "object_list" THEN Object_List_Read(device, i)
        ELSE Reading(Identified("device", device.instance, device.name)
                     ++ [description |-> << "string", device.description >>,
                         system_status |-> << "enumerated", device.status >>,
                         vendor_name |-> << "string", "BITS" >>,
                         vendor_identifier |-> << "unsigned", device.vendor >>,
                         model_name |-> << "string", device.model >>,
                         firmware_revision |-> << "string", "BACnet_Version" >>,
                         application_software_version |-> << "string", device.version >>,
                         location |-> << "string", device.location >>,
                         local_time |-> << "time", time >>, local_date |-> << "date", time >>,
                         utc_offset |-> << "signed", 300 >>,
                         daylight_savings_status |-> << "boolean", FALSE >>,
                         protocol_version |-> << "unsigned", 1 >>,
                         protocol_revision |-> << "unsigned", 5 >>,
                         protocol_services_supported |-> Unread("services"),
                         protocol_object_types_supported |->
                            << "bits", {type \in Types : Device_Objects_Find_Functions(type)} >>,
                         max_apdu_length_accepted |-> << "unsigned", MAX_APDU >>,
                         segmentation_supported |-> << "enumerated", "none" >>,
                         apdu_timeout |-> << "unsigned", device.timeout >>,
                         number_of_apdu_retries |-> << "unsigned", device.retries >>,
                         device_address_binding |-> Unread("address cache"),
                         database_revision |-> << "unsigned", device.revision >>,
                         active_cov_subscriptions |-> Unread("subscriptions")],
                     NoArrays, p, i)

\* The replies there may be: one, but for an element of a binary value.
Object_Read_Property(o, time, type, n, p, i) ==
    CASE type = "bv" -> Binary_Value_Read_Property(o.bv, n, p, i)
      [] type = "device" -> {Device_Read_Property_Local(o, time, p, i)}
      [] type = "ai" -> {Analog_Input_Read_Property(o.ai, n, p, i)}
      [] type = "ao" -> {Analog_Output_Read_Property(o.ao, n, p, i)}
      [] type = "av" -> {Analog_Value_Read_Property(o.av, n, p, i)}
      [] type = "bi" -> {Binary_Input_Read_Property(o.bi, n, p, i)}
      [] type = "bo" -> {Binary_Output_Read_Property(o.bo, n, p, i)}
      [] type = "lsp" -> {Life_Safety_Point_Read_Property(o.lsp, n, p, i)}
      [] type = "lc" -> {Load_Control_Read_Property(o.lc, n, p, i)}
      [] type = "mso" -> {Multistate_Output_Read_Property(o.mso, n, p, i)}
      [] type = "msi" -> {Multistate_Input_Read_Property(o.msi, n, p, i)}
      [] type = "tl" -> {Trend_Log_Read_Property(o.tl, n, p, i)}
      [] type = "lo" -> {Lighting_Output_Read_Property(o.lo, n, p, i)}
      [] type = "file" -> {bacfile_read_property(o.file, n, p)}

Device_Read_Property(o, time, type, n, p, i) ==
    IF ~Device_Objects_Find_Functions(type) THEN {Error("unsupported_object_type")}
    ELSE IF ~Object_Valid_Instance(o.device, type, n) THEN {Error("unknown_object")}
    ELSE Object_Read_Property(o, time, type, n, p, i)

\* Analog inputs have no write function, nor have the build's binary inputs.
Object_Write_Property(o, time, wp) ==
    CASE wp.type = "device" -> Device_Write_Property_Local(o.device, wp)
      [] wp.type = "ao" -> Analog_Output_Write_Property(o.ao, wp)
      [] wp.type = "av" -> Analog_Value_Write_Property(o.av, wp)
      [] wp.type = "bi" /\ "bi_write" \in Added -> Binary_Input_Write_Property(o.bi, wp)
      [] wp.type = "bo" -> Binary_Output_Write_Property(o.bo, wp)
      [] wp.type = "bv" -> Binary_Value_Write_Property(o.bv, wp)
      [] wp.type = "lsp" -> Life_Safety_Point_Write_Property(o.lsp, wp)
      [] wp.type = "lc" -> Load_Control_Write_Property(o.lc, wp)
      [] wp.type = "mso" -> Multistate_Output_Write_Property(o.mso, wp)
      [] wp.type = "msi" -> Multistate_Input_Write_Property(o.msi, wp)
      [] wp.type = "tl" -> Trend_Log_Write_Property(o.tl, wp, o.device.instance, time)
      [] wp.type = "lo" -> Lighting_Output_Write_Property(o.lo, wp)
      [] wp.type = "file" -> bacfile_write_property(o.file, wp)
      [] OTHER -> Refused(o[wp.type], "write_access_denied")

Device_Write_Property(o, time, wp) ==
    IF ~Device_Objects_Find_Functions(wp.type) THEN Refused(o, "unsupported_object_type")
    ELSE IF ~Object_Valid_Instance(o.device, wp.type, wp.instance) THEN Refused(o, "unknown_object")
    ELSE LET written == Object_Write_Property(o, time, wp)
         IN  [reply |-> written.reply, after |-> [o EXCEPT ![wp.type] = written.after]]

-----------------------------------------------------------------------------
(* The property services.  "fits" tells whether the reply is as short as   *)
(* the peer asked for.                                                     *)
handler_read_property(o, time, type, n, p, i, segmented, fits) ==
    IF segmented THEN {Abort("segmentation_not_supported")}
    ELSE {IF reply[1] = "ack" /\ ~fits THEN Abort("segmentation_not_supported") ELSE reply :
            reply \in Device_Read_Property(o, time, type, n, p, i)}

\* A priority is read from the request when it is there, and is then 1 to 16.
handler_write_property(o, time, wp, segmented) ==
    IF segmented THEN [reply |-> Abort("segmentation_not_supported"), after |-> o]
    ELSE IF wp.priority \notin Priorities THEN [reply |-> Abort("other"), after |-> o]
    ELSE Device_Write_Property(o, time, wp)

RPM_Object_Property_Count(lists, special) ==
    CASE special = "all" -> Len(lists[1]) + Len(lists[2]) + Len(lists[3])
      [] special = "required" -> Len(lists[1])
      [] special = "optional" -> Len(lists[2])
RPM_Object_Property(lists, special, k) ==
    CASE special = "all" -> (lists[1] \o lists[2] \o lists[3])[k]
      [] special = "required" -> lists[1][k]
      [] special = "optional" -> lists[2][k]

RPM_Encode_Property(o, time, type, n, p) ==
    CHOOSE reply \in Device_Read_Property(o, time, type, n, p, All) : TRUE

\* One object's properties, read one after the other: << property, reply >>
\* each, or one abort for them all.  Errors are part of the reply.
handler_read_property_multiple(o, time, type, n, special, segmented, fits) ==
    LET lists   == Device_Objects_Property_List(type)
        count   == RPM_Object_Property_Count(lists, special)
        names   == IF count = 0 THEN << special >>
                   ELSE [k \in 1 .. count |-> RPM_Object_Property(lists, special, k)]
        replies == [k \in DOMAIN names |-> RPM_Encode_Property(o, time, type, n, names[k])]
    IN  IF segmented \/ ~fits \/ \E k \in DOMAIN names : replies[k][1] = "abort"
        THEN Abort("segmentation_not_supported")
        ELSE Ack([k \in DOMAIN names |-> << names[k], replies[k] >>])

\* Ranges are read of log buffers and of the device's address bindings.
Encode_RR_payload(o, type, n, p, i, by, reference, count) ==
    LET isLog == type = "tl" /\ n \in Trend_Log_Instances /\ p = "log_buffer"
    IN  IF ~isLog /\ ~(type = "device" /\ p = "device_address_binding")
        THEN Error("property_is_not_a_list")
        ELSE IF by = "position" /\ reference = 0 THEN Error("other")
        ELSE IF i \notin {0, All} THEN Error("property_is_not_an_array")
        ELSE IF ~isLog /\ by \notin {"position", "all"} THEN Error("other")
        ELSE IF by # "all" /\ count = 0 THEN Error("other")
        ELSE IF isLog THEN Ack(rr_trend_log_encode(o.tl[n], by, reference, count))
        ELSE Ack(Unread("address cache"))
handler_read_range(o, type, n, p, i, by, reference, count, segmented) ==
    IF segmented THEN Abort("segmentation_not_supported")
    ELSE Encode_RR_payload(o, type, n, p, i, by, reference, count)
=============================================================================
