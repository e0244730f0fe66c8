----------------------------- MODULE MCLibrary ------------------------------
(***************************************************************************)
(* The parts of the protocol library that keep to themselves, each used in *)
(* every way its interface allows: the messages on the wire, the cache of  *)
(* addresses, the byte buffer, the key list, dates and times, MS/TP frames. *)
(* A behaviour is of one of them, and the others rest.  The messages: every *)
(* service, with the values at which an encoding changes its width and     *)
(* with the optional parameters absent and present.                        *)
(***************************************************************************)
EXTENDS Codec, AddressCache, Fifo, KeyList, Calendar, MstpFrame

CONSTANTS d1, d2, d3, a1, a2

MCAddressFile == << << d1, a1 >> >>
MCTimes == { << 0, 0, 0 >>, << 12, 30, 15 >>, << 23, 59, 59 >> }

Ai == [type |-> 0, instance |-> 1]
Av == [type |-> 2, instance |-> 4194303]
Dev == [type |-> OBJECT_DEVICE, instance |-> 260001]
Text == [encoding |-> 0, value |-> << 66, 65, 67 >>]
Utf == [encoding |-> 4, value |-> << 0, 200, 255 >>]
Empty == [encoding |-> 0, value |-> <<>>]
R1 == << 0, 0, 128, 63 >>
R2 == << 205, 204, 44, 193 >>
Flags4 == << TRUE, FALSE, FALSE, TRUE >>
Day == [year |-> 2010, month |-> 2, day |-> 28, wday |-> 7]
AnyDay == [year |-> 2155, month |-> 255, day |-> 255, wday |-> 255]
Evening == [hour |-> 23, min |-> 59, sec |-> 58, hundredths |-> 99]

Widths == {0, 127, 128, 255, 256, 65535, 65536, 16777215, 16777216, 2147483647}
SignedWidths == {0, 127, 128, 32767, 32768, 8388607, 8388608, 2147483647}
                \cup {-1, -128, -129, -32768, -32769, -8388607, -8388608, -8388609}
Strings == {Text, Utf, Empty}
BitStrings == { <<>>, <<TRUE>>, Flags4, [i \in 1 .. 8 |-> i % 3 = 0], [i \in 1 .. 9 |-> i > 7],
                [i \in 1 .. 120 |-> i % 7 = 1] }
\* octet strings at which the length of a tag changes its form
Lengths == {1, 4, 5, 253, 254}
Octets(n) == [i \in 1 .. n |-> i % 256]

\* the values of each type, apart, for they cannot be compared
TypedValues ==
    << {[type |-> "null", v |-> 0]}, [type : {"boolean"}, v : BOOLEAN],
       [type : {"unsigned", "enum"}, v : Widths], [type : {"signed"}, v : SignedWidths],
       [type : {"real"}, v : {R1, R2}], [type : {"double"}, v : {R1 \o R2}],
       [type : {"octets"}, v : {Octets(n) : n \in Lengths}], [type : {"string"}, v : Strings],
       [type : {"bits"}, v : BitStrings], [type : {"date"}, v : {Day, AnyDay}],
       [type : {"time"}, v : {Evening}], [type : {"oid"}, v : {Ai, Av, Dev}] >>
Encoded == UNION { {bacapp_encode_application_data(v) : v \in TypedValues[i]} : i \in DOMAIN TypedValues }

Stamps == { [stamp |-> "time", time |-> Evening], [stamp |-> "datetime", date |-> Day, time |-> Evening] }
          \cup [stamp : {"sequence"}, sequence : {0, 255, 65535}]
TruthStates == [state : {"boolean"}, value : BOOLEAN]
OtherStates == [state : {PropertyStates[i] : i \in 2 .. 14}, value : {0, 300}]
PropertyRefs == [object : {Av}, property : {85, 512}, index : {0, 3}, device : {NoDevice, Dev}]

Some(S) == {<<>>} \cup {<<x>> : x \in S}
Say(services, data) == [service : services, data : data]

\* elements nobody looks into, with tags of both forms
Parameters == { <<>>, App("unsigned", 7) \o Ctx(14, "enum", 1) \o Ctx(15, "real", R1) \o Ctx(254, "string", Text),
                Enclosed(2, App("octets", Octets(254))) }

Properties == <<
    Say({"rp"}, [object : {Ai, Dev}, property : {85, 300}, index : {All, 0, 7}]),
    Say({"rp_ack"}, [object : {Av}, property : {85}, index : {All, 3},
                          value : Encoded]),
    Say({"rpm"}, [objects : { << [object |-> Ai, properties |-> << [property |-> 8, index |-> All] >>],
                                      [object |-> Dev, properties |-> << [property |-> 76, index |-> 0],
                                                                        [property |-> 85, index |-> All] >>] >> }]),
    Say({"rpm_ack"},
             [objects : { << [object |-> Av, properties |->
                 << [property |-> 85, index |-> 2, result |-> "value",
                     value |-> Enclosed(4, App("real", R2)) \o App("boolean", TRUE)],
                    [property |-> 87, index |-> All, result |-> "error", error_class |-> 2, error_code |-> 32] >>],
                             [object |-> Ai, properties |->
                 << [property |-> 77, index |-> All, result |-> "value", value |-> App("string", Utf)] >>] >> }]),
    Say({"wp"}, [object : {Av}, property : {85}, index : {All, 16}, priority : {0, 1, 16},
                      value : {App("real", R1), App("null", 0)}]),
    Say({"rr"}, [object : {Ai}, property : {131}, index : {All, 1},
                      request : {"by_position", "by_sequence"}, reference : {1, 70000}, count : {-5, 300}]),
    Say({"rr"}, [object : {Ai}, property : {131}, index : {All}, request : {"by_time"},
                      date : {Day}, time : {Evening}, count : {1}]),
    Say({"rr"}, [object : {Ai}, property : {131}, index : {All}, request : {"read_all"}]),
    Say({"rr_ack"}, [object : {Ai}, property : {131}, index : {All}, flags : {<< TRUE, FALSE, FALSE >>},
                          request : {"by_position", "by_sequence"}, count : {0, 2}, first : {9},
                          value : {App("unsigned", 1) \o App("boolean", FALSE)}]) >>

Parameter(type) ==
    CASE type = 0 -> [referenced : BitStrings, flags : {Flags4}]
      [] type = 1 -> [newState : OtherStates, flags : {Flags4}]
      [] type = 2 -> [value : {"real"}, changeValue : {R1}, flags : {Flags4}]
                     \cup [value : {"bits"}, changedBits : {Flags4}, flags : {Flags4}]
      [] type = 4 -> [reference : {R1}, setPoint : {R2}, errorLimit : {R1}, flags : {Flags4}]
      [] type = 5 -> [exceeding : {R1}, deadband : {R2}, exceeded : {R2}, flags : {Flags4}]
      [] type = 8 -> [newState : {1}, newMode : {2}, flags : {Flags4}, expected : {9}]
      [] type = 10 -> [buffer : PropertyRefs, previous : {0}, current : {65536}]
      [] type = 11 -> [exceeding : {256}, exceeded : {255}, flags : {Flags4}]

Base(stamps, texts, priorities) ==
    [process : {16777216}, device : {Dev}, object : {Ai}, stamp : stamps, class : {5},
     priority : priorities, text : texts, toState : {3}]

GetEvents == [object : {Ai}, state : {2}, acknowledged : {<< TRUE, TRUE, FALSE >>},
              toOffnormal : Stamps, toFault : {[stamp |-> "time", time |-> Evening]},
              toNormal : {[stamp |-> "sequence", sequence |-> 1]}, notifyType : {0},
              enable : {<< TRUE, FALSE, FALSE >>}, p1 : {0}, p2 : {255}, p3 : {127}]

AllEvents == << 0, 1, 2, 4, 5, 8, 10, 11 >>

AlarmOf(type, parameters) ==
    Say({"cevent_notify"},
        { b @@ e : b \in Base({[stamp |-> "sequence", sequence |-> 16]}, {<<>>}, {0}),
          e \in [eventType : {type}, notifyType : {NOTIFY_EVENT}, ackRequired : BOOLEAN, fromState : {0},
                 parameters : parameters] })

Alarms ==
    [i \in 1 .. Len(AllEvents) |-> AlarmOf(AllEvents[i], Parameter(AllEvents[i]))]
    \o << AlarmOf(EVENT_CHANGE_OF_STATE, [newState : TruthStates, flags : {Flags4}]),
    Say({"uevent_notify"}, { b @@ e : b \in Base(Stamps, Some(Strings), {0, 255}),
              e \in [eventType : {5}, notifyType : {NOTIFY_ALARM}, ackRequired : {TRUE}, fromState : {2},
                     parameters : Parameter(5)] \cup [eventType : {5}, notifyType : {NOTIFY_ACK}] }),
    Say({"ccov_notify", "ucov_notify"},
             [process : {1}, device : {Dev}, object : {Ai}, timeRemaining : {0, 3600},
              values : { << [property |-> 85, index |-> All, value |-> v, priority |-> 0],
                            [property |-> 111, index |-> 2, value |-> [type |-> "bits", v |-> Flags4],
                             priority |-> 16] >> : v \in [type : {"real"}, v : {R1}] }]),
    Say({"cov_subscribe"}, [process : {0, 300}, object : {Ai}, confirmed : Some(BOOLEAN), lifetime : {0}]),
    Say({"cov_subscribe"}, [process : {3}, object : {Ai}, confirmed : {<<TRUE>>}, lifetime : {65536}]),
    Say({"cov_subscribe_property"},
             [process : {3}, object : {Ai}, confirmed : Some(BOOLEAN), lifetime : {0}, property : {85},
              index : {All, 4}, increment : Some({R1})]),
    Say({"getevent"}, [last : Some({Ai, Dev})]),
    Say({"getevent_ack"},
             [more : BOOLEAN,
              events : { << e >> : e \in GetEvents } \cup { << e, e >> : e \in GetEvents }]),
    Say({"alarm_ack"}, [process : {1}, object : {Ai}, state : {3}, eventStamp : Stamps,
                             source : {Text}, ackStamp : Stamps]),
    Say({"lso"}, [process : {1}, source : Strings, operation : {4}, target : {Dev, Av}]) >>

Discovery == <<
    Say({"whois"}, [low : {NoLimit, 0}, high : {NoLimit, 255, MaxInstance}]),
    Say({"whohas"}, [low : {0}, high : {256}, what : {"object"}, object : {Av}]
                         \cup [low : {NoLimit}, high : {NoLimit}, what : {"name"}, name : Strings]),
    Say({"iam"}, [device : {0, MaxInstance}, maxApdu : {50, 1476}, segmentation : 0 .. 3, vendor : {0, 65535}]),
    Say({"ihave"}, [device : {Dev}, object : {Av}, name : Strings]),
    Say({"timesync", "timesync_utc"}, [date : {Day, AnyDay}, time : {Evening}]),
    Say({"rd"}, [state : 0 .. 7, password : Some({Text})]),
    Say({"dcc"}, [duration : {0, 1, 65535}, enable : 0 .. 2, password : Some({Text})]),
    Say({"simple_ack"}, [choice : apdu_set_confirmed_simple_ack_handler]),
    Say({"reject"}, [code : {"reject_invalid_tag", "reject_proprietary", "unknown_object"}]),
    Say({"abort"}, [code : {"abort_buffer_overflow", "abort_proprietary", "abort_other"}, server : BOOLEAN]),
    Say({"bacerror"}, [class : {2, 300}, code : {31}]) >>

Files == <<
    Say({"arf"}, [file : {[type |-> 10, instance |-> 2]}, access : {"stream", "record"},
                  start : SignedWidths, count : {0, 65536}]),
    Say({"arf_ack"}, [endOfFile : BOOLEAN, access : {"stream"}, start : {-1, 300}, data : {Octets(n) : n \in Lengths}]),
    Say({"arf_ack"}, [endOfFile : {TRUE}, access : {"record"}, start : {0}, count : {1}, data : {Octets(12)}]),
    Say({"awf"}, [file : {[type |-> 10, instance |-> 2]}, access : {"stream"}, start : {-1}, data : {Octets(9)}]
                      \cup [file : {[type |-> 10, instance |-> 2]}, access : {"record"}, start : {7}, count : {1},
                            data : {Octets(9)}]),
    Say({"awf_ack"}, [access : {"stream", "record"}, start : SignedWidths]),
    Say({"ptransfer", "uptransfer", "ptransfer_ack"},
             [vendor : {0, 65535}, service : {1, 70000}, parameters : Parameters]),
    Say({"ptransfer_error"}, [class : {5}, code : {0, 300}, vendor : {260}, service : {1}, parameters : Parameters]) >>

MCFrames ==
    [type : {0, 1}, dest : {3}, src : {85}, data : {<<>>}]
    \cup [type : {6}, dest : {3, 4, 255}, src : {1}, data : {<< 85, 255 >>, << 85, 255, 0, 3, 1 >>}]
    \cup [type : {6}, dest : {3}, src : {1}, data : {<< 1, 2, 3, 4, 5, 6 >>}]

MCMessages == Properties \o Alarms \o Discovery \o Files

-----------------------------------------------------------------------------
VARIABLE part           \* which one this behaviour is about

libraryVars == << codecVars, cacheVars, fifoVars, keyListVars, calendarVars, mstpFrameVars, part >>

LibraryInit ==
    /\ part \in {"codec", "cache", "fifo", "keylist", "calendar", "frames"}
    /\ CodecInit
    /\ CacheInit
    /\ FifoInit
    /\ KeyListInit /\ (part # "keylist" => places = 0)
    /\ IF part = "calendar" THEN CalendarInit
       ELSE /\ datetime = CHOOSE d \in {Values(s, t) : s \in Settable, t \in Times} : TRUE
            /\ before = datetime /\ span = 0 /\ additions = 0
    /\ IF part = "frames" THEN MstpFrameInit
       ELSE /\ sent = CHOOSE f \in Frames : TRUE
            /\ coming = <<>> /\ harmed = 1 /\ quiet = TRUE /\ rx = Listening

LibraryNext ==
    \/ /\ part = "codec" /\ CodecNext
       /\ UNCHANGED << part, cacheVars, fifoVars, keyListVars, calendarVars, mstpFrameVars >>
    \/ /\ part = "cache" /\ CacheNext
       /\ UNCHANGED << part, codecVars, fifoVars, keyListVars, calendarVars, mstpFrameVars >>
    \/ /\ part = "fifo" /\ FifoNext
       /\ UNCHANGED << part, codecVars, cacheVars, keyListVars, calendarVars, mstpFrameVars >>
    \/ /\ part = "keylist" /\ KeyListNext
       /\ UNCHANGED << part, codecVars, cacheVars, fifoVars, calendarVars, mstpFrameVars >>
    \/ /\ part = "calendar" /\ CalendarNext
       /\ UNCHANGED << part, codecVars, cacheVars, fifoVars, keyListVars, mstpFrameVars >>
    \/ /\ part = "frames" /\ MstpFrameNext
       /\ UNCHANGED << part, codecVars, cacheVars, fifoVars, keyListVars, calendarVars >>

LibrarySpec == LibraryInit /\ [][LibraryNext]_libraryVars
=============================================================================
