------------------------------ MODULE MCDevice ------------------------------
(***************************************************************************)
(* DeviceServer on a small instance: one or two objects of each type, and  *)
(* for each type the writes that its code tells apart: the priorities that *)
(* matter, values at and past the limits, wrong types, unknown objects.    *)
(***************************************************************************)
EXTENDS DeviceServer

ASSUME RepliesFitAssumption == RepliesFit

Wp(type, n, p, i, value, priority) ==
    [type |-> type, instance |-> n, property |-> p, index |-> i, value |-> value, priority |-> priority]
Plain(type, p, values) == {Wp(type, 0, p, All, value, 16) : value \in values}
Command(type, values, priorities) ==
    {Wp(type, 0, "present_value", All, value, priority) : value \in values, priority \in priorities}
Nil == << "null", 0 >>
Stray(type) ==
    {Wp(type, 7, "present_value", All, Nil, 16), Wp(type, 0, "object_type", All, Nil, 16),
     Wp(type, 0, "present_value", All, << "boolean", TRUE >>, 8),
     Wp("nothing", 0, "present_value", All, Nil, 16),
     Wp(type, 0, "present_value", All, Nil, 17)}
Booleans == { << "boolean", TRUE >>, << "boolean", FALSE >> }
\* Back in service by a write at an index, which is not looked at.
OutOfService(type) ==
    Plain(type, "out_of_service", { << "boolean", TRUE >>, Nil })
        \cup {Wp(type, 0, "out_of_service", 2, << "boolean", FALSE >>, 16)}
Levels == { << "real", 1000 >>, << "real", 555 >>, << "real", 1001 >>, Nil }
Binaries == { << "enumerated", 0 >>, << "enumerated", 1 >>, << "enumerated", 2 >>, Nil }
States == { << "unsigned", 1 >>, << "unsigned", 254 >>, << "unsigned", 255 >>, Nil }
Some == {6, 8, 16}
Name(length, set) == << "string", << "name", length, set >> >>
Texts == { Name(0, "ansi"), Name(31, "ansi"), Name(32, "ansi"), Name(5, "utf") }

DeviceWrites ==
    UNION { {Wp("device", BACNET_MAX_INSTANCE, "object_identifier", All, value, 16) :
                value \in {<< "object_id", << "device", 5 >> >>, << "object_id", << "ao", 5 >> >>,
                           << "object_id", << "device", BACNET_MAX_INSTANCE + 1 >> >>, Nil}},
            {Wp("device", 260002, "object_identifier", All, << "object_id", << "device", 5 >> >>, 16)},
            {Wp("device", BACNET_MAX_INSTANCE, "object_name", All, value, 16) : value \in Texts},
            {Wp("device", BACNET_MAX_INSTANCE, p, All, Name(0, "ansi"), 16) :
                p \in {"description", "object_name"}},
            {Wp("device", BACNET_MAX_INSTANCE, p, All, Name(64, "ansi"), 16) :
                p \in {"location", "model_name"}},
            {Wp("device", BACNET_MAX_INSTANCE, "system_status", All, << "enumerated", status >>, 16) :
                status \in {"non_operational", "download_required", "backup_in_progress", "other"}},
            {Wp("device", BACNET_MAX_INSTANCE, "number_of_apdu_retries", All, << "unsigned", 300 >>, 16),
             Wp("device", BACNET_MAX_INSTANCE, "apdu_timeout", All, << "unsigned", 70000 >>, 16),
             Wp("device", BACNET_MAX_INSTANCE, "vendor_identifier", All, Nil, 16)},
            {Wp("device", 5, p, All, Nil, 16) : p \in {"object_list", "system_status"}} }

LoadWrites ==
    UNION { {Wp("lc", n, "start_time", All, << "datetime", 8 >>, 16) : n \in {0, 1}},
            Plain("lc", "requested_shed_level", {<< "level", 2 >>}),
            {Wp("lc", 0, "shed_levels", i, << "unsigned", 2 >>, 16) : i \in {0, 2}},
            {Wp("lc", 1, "requested_shed_level", All, << "amount", 5 >>, 16),
             Wp("lc", 0, "shed_duration", All, << "unsigned", 2 >>, 16),
             Wp("lc", 1, "shed_duration", All, << "unsigned", 1 >>, 16)},
            {Wp("ao", n, "present_value", All, << "real", 1000 >>, 8) : n \in {0, 1}} }

LogWrites ==
    UNION { Plain("tl", "enable", Booleans), Plain("tl", "stop_when_full", {<< "boolean", TRUE >>}),
            Plain("tl", "record_count", {<< "unsigned", 0 >>}),
            Plain("tl", "logging_type", {<< "enumerated", "cov" >>, << "enumerated", "triggered" >>}),
            Plain("tl", "stop_time", {<< "datetime", Wild >>}),
            Plain("tl", "log_interval", {<< "unsigned", 0 >>, << "unsigned", 250 >>}),
            Plain("tl", "trigger", {<< "boolean", TRUE >>}),
            Plain("tl", "log_device_object_property",
                  {<< "reference", << "ai", 9, "present_value", All, 260002 >> >>,
                   << "reference", << "ai", 0, "present_value", All, 5 >> >>}) }

MCRequests ==
    [type \in Types |->
        CASE type \in {"ao", "av", "lo"} ->
                Command(type, Levels, Some) \cup Stray(type) \cup OutOfService(type)
          [] type \in {"bo", "bv"} -> Command(type, Binaries, Some) \cup Stray(type) \cup OutOfService(type)
          [] type = "mso" -> Command(type, States, Some) \cup Stray(type) \cup OutOfService(type)
          [] type = "bi" -> Command(type, Binaries, {16}) \cup Stray(type) \cup OutOfService(type)
                            \cup Plain(type, "polarity", Binaries)
          [] type = "msi" -> Command(type, {<< "unsigned", 1 >>, << "unsigned", 2 >>}, {16}) \cup Stray(type)
                             \cup OutOfService(type)
          [] type = "lsp" -> Plain(type, "mode", {<< "enumerated", 0 >>, << "enumerated", 15 >>,
                                                 << "enumerated", 16 >>, Nil})
                             \cup Stray(type) \cup OutOfService(type)
          [] type = "ai" -> Stray(type)
          [] type = "file" -> Plain(type, "archive", Booleans \cup {Nil})
                              \cup Plain(type, "file_size", {<< "unsigned", 0 >>, Nil})
          [] type = "device" -> DeviceWrites
          [] type = "lc" -> LoadWrites
          [] type = "tl" -> LogWrites]

MCFiles == << "temp_0.txt", "temp_1.txt" >>
MCFileWrites == { << 0, << 1 >> >>, << 1, << 2, 3 >> >>, << 3, << 4 >> >>, << 0, << >> >> }
MCLastTime == [type \in Types |-> IF type = "lc" THEN 16 ELSE 8]
MCCounts == {-29, -2, -1, 1, 2, 29}
MCAsks(wp, time) ==
    CASE wp.type = "tl" -> TRUE
      [] wp.type = "lc" /\ wp.instance = 0 /\ wp.property = "requested_shed_level" -> time <= 9
      [] wp.type = "ao" -> time <= 10
      [] OTHER -> time <= 7
=============================================================================
