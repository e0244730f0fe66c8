---------------------------- MODULE DeviceServer ----------------------------
(***************************************************************************)
(* The device at work: peers write properties and files, the server's main *)
(* loop runs the load controls, a program built around the device sets its *)
(* inputs and polls its logs, and time passes.                             *)
(*                                                                         *)
(* A behaviour is about one object type, chosen in Init; the objects of    *)
(* the others change where these make them (loads command analog outputs). *)
(***************************************************************************)
EXTENDS Device

CONSTANTS
    Requests,       \* the write requests made of the objects of a type
    FileWrites,     \* << start, octets >> of the AtomicWriteFile requests
    Readings,       \* what a program gives an analog input to show
    Started,        \* the time when the program starts
    LastTime,       \* and a bound on it, for each type
    Asks(_, _),     \* whether a peer makes a request at a time
    MostRecords,    \* the records a log takes in one behaviour
    RangeCounts,    \* how many entries of a log a range asks for, back or forth
    Lag             \* how far the load controls' clock is behind: 1900 years

ASSUME DeviceServerAssumption ==
    /\ Started \in Nat /\ Started > TL_MAX_ENTRIES * DefaultInterval
    /\ \A type \in Types : LastTime[type] >= Started
    /\ Lag > LastTime["lc"] + 1
    /\ \A count \in RangeCounts :
          /\ count \in Int \ {0}
          /\ count <= SequenceRange - TL_MAX_ENTRIES /\ -count <= SequenceRange - TL_MAX_ENTRIES

\* What is decoded from a request has the form and the range of its tag.
Decoded(wp) ==
    LET v == wp.value[2]
    IN  /\ wp.value = << wp.value[1], v >> /\ wp.index \in Nat \cup {All}
        /\ wp.value[1] = "null" => v = 0
        /\ wp.value[1] = "unsigned" => v \in Nat
        /\ wp.value[1] = "boolean" => v \in BOOLEAN
        /\ wp.value[1] = "object_id" => v = << v[1], v[2] >>
        /\ wp.value[1] = "string" => v[2] \in Nat
ASSUME RequestsAssumption ==
    \A k \in DOMAIN Object_Table : \A wp \in Requests[Object_Table[k]] : Decoded(wp)

VARIABLES
    objects,        \* the objects of each type
    served,         \* the type this behaviour is about
    now,
    lag,            \* 0 where load controls run on the right time, as lc.c's test has them
    exchange        \* the last write request of this second and its reply
deviceVars == << objects, served, now, lag, exchange >>

NoRequest == [type |-> "none", instance |-> 0, property |-> "none", index |-> All,
              value |-> << "null", 0 >>, priority |-> 16]
NoExchange == [wp |-> NoRequest, reply |-> Error("none")]

DeviceServerInit ==
    /\ objects = Device_Init
    /\ served \in {Object_Table[k] : k \in DOMAIN Object_Table}
    /\ now = Started
    /\ lag \in (IF served = "lc" THEN {0, Lag} ELSE {0})
    /\ exchange = NoExchange

Logged(log) == (log.total - 10 * TL_MAX_ENTRIES) % SequenceRange
InBounds ==
    served = "tl" => \A n \in Trend_Log_Instances : Logged(objects.tl[n]) < MostRecords

Answers(wp, segmented) ==
    LET written == handler_write_property(objects, now, wp, segmented)
    IN  /\ InBounds
        /\ objects' = written.after
        /\ exchange' = [wp |-> wp, reply |-> written.reply]
        /\ UNCHANGED << served, now, lag >>
WriteProperty == \E wp \in {wp \in Requests[served] : Asks(wp, now)} : Answers(wp, FALSE)
\* A segmented request is turned away before it is decoded.
WriteSegmented == Answers(NoRequest, TRUE)

AtomicWriteFile ==
    /\ served = "file"
    /\ \E n \in 0 .. Len(Files), write \in FileWrites, access \in {"stream", "record"} :
          objects' = [objects EXCEPT
              !.file = handler_atomic_write_file(@, "file", n, access, write[1], write[2]).after]
    /\ UNCHANGED << served, now, lag, exchange >>

\* The main loop runs the load controls when its clock has moved, by a second
\* or by more of them.
Load_Control_Task ==
    /\ served = "lc" /\ exchange' = NoExchange
    /\ now' \in {now + 1, now + 2} /\ now' <= LastTime["lc"]
    /\ LET step == Load_Control_State_Machine_Handler(objects.lc, objects.ao, now' - lag)
       IN  objects' = [objects EXCEPT !.lc = step.lc, !.ao = step.ao]
    /\ UNCHANGED << served, lag >>

\* The program ends where a log divides by its interval; the model stops there.
Trend_Log_Task ==
    /\ served = "tl" /\ InBounds
    /\ \A n \in Trend_Log_Instances : ~DividesByZero(objects.tl[n], now)
    /\ LET Read(type, n, p, i) == CHOOSE r \in Device_Read_Property(objects, now, type, n, p, i) : TRUE
           Source(n) == objects.tl[n].source
           values    == [n \in Trend_Log_Instances |->
                            Read(Source(n)[1], Source(n)[2], Source(n)[3], Source(n)[4])]
           flags     == [n \in Trend_Log_Instances |->
                            Read(Source(n)[1], Source(n)[2], "status_flags", All)]
       IN  objects' = [objects EXCEPT !.tl = trend_log_timer(@, now, values, flags)]
    /\ UNCHANGED << served, now, lag, exchange >>

\* What a program sets itself, without a request.
Analog_Input_Moves ==
    /\ served \in {"ai", "tl"}
    /\ \E v \in Readings :
          objects' = [objects EXCEPT !.ai = Analog_Input_Present_Value_Set(@, 0, v)]
    /\ UNCHANGED << served, now, lag, exchange >>
Binary_Input_Moves ==
    /\ served = "bi"
    /\ \E v \in BinaryPV :
          objects' = [objects EXCEPT !.bi = Binary_Input_Present_Value_Set(@, 0, v)]
    /\ UNCHANGED << served, now, lag, exchange >>
Multistate_Input_Named ==
    /\ served = "msi"
    /\ \E text \in 0 .. 2 :
          objects' = [objects EXCEPT !.msi =
              Multistate_Input_State_Text_Set(Multistate_Input_Description_Set(
                  Multistate_Input_Name_Set(@, 0, text), 0, text), 0, 1 + (text % 2), text)]
    /\ UNCHANGED << served, now, lag, exchange >>
System_Status_Moves ==
    /\ served = "device"
    /\ \E status \in {"operational", "download_in_progress", "backup_in_progress"} :
          objects' = [objects EXCEPT !.device = Device_Set_System_Status(@, status, TRUE).after]
    /\ UNCHANGED << served, now, lag, exchange >>

ClockTick ==
    /\ served = "tl" /\ now < LastTime["tl"]
    /\ now' = now + 1 /\ exchange' = NoExchange
    /\ UNCHANGED << objects, served, lag >>

DeviceServerNext ==
    \/ WriteProperty \/ WriteSegmented \/ AtomicWriteFile
    \/ Load_Control_Task \/ Trend_Log_Task
    \/ Analog_Input_Moves \/ Binary_Input_Moves \/ Multistate_Input_Named \/ System_Status_Moves
    \/ ClockTick

\* The main loop comes round.
DeviceServerSpec ==
    /\ DeviceServerInit /\ [][DeviceServerNext]_deviceVars
    /\ WF_deviceVars(Load_Control_Task)

-----------------------------------------------------------------------------
Commandable == {"ao", "av", "bo", "bv", "mso", "lo"}
Reads(type, n, p, i) == handler_read_property(objects, now, type, n, p, i, FALSE, TRUE)
ReadOf(type, n, p, i) == CHOOSE reply \in Reads(type, n, p, i) : TRUE

(* The object whose commands are followed: the first of the type, and for *)
(* load controls the analog output that the first of them commands.       *)
Watched == IF served = "lc" THEN "ao" ELSE served
Slots(elements) ==
    [p \in Priorities |-> IF elements[p][1] = "null" THEN -1 ELSE elements[p][2]]
Kept(type, v) == IF type \in {"ao", "av", "lo"} THEN v - (v % 10) ELSE v
Limit(type) == CASE type \in {"ao", "av", "lo"} -> 1000 [] type = "mso" -> 254 [] OTHER -> 1
Takes(type, value) ==
    /\ value[1] = ReadOf(type, 0, "present_value", All)[2][1]
    /\ value[2] \in 0 .. Limit(type)
Asked(wp, type) ==
    << wp.priority,
       IF wp.value[1] = "null" THEN -1
       ELSE IF Takes(type, wp.value) THEN Kept(type, wp.value[2]) ELSE -2,
       exchange.reply[1] = "ack" >>
IsCommand(wp, type) == wp.type = type /\ wp.instance = 0 /\ wp.property = "present_value"

\* What a peer reads of it, and asks of it; nothing of an object without commands.
SlotsRead ==
    IF Watched \in Commandable THEN Slots(ReadOf(Watched, 0, "priority_array", All)[2])
    ELSE [p \in Priorities |-> -1]
ValueRead ==
    IF Watched \in Commandable THEN ReadOf(Watched, 0, "present_value", All)[2][2] ELSE 0
DefaultRead ==
    IF Watched \in Commandable THEN ReadOf(Watched, 0, "relinquish_default", All)[2][2] ELSE 0
LastAsked ==
    IF Watched \in Commandable /\ IsCommand(exchange.wp, Watched) /\ exchange.reply[1] # "abort"
    THEN Asked(exchange.wp, Watched) ELSE << 0, -1, FALSE >>

Promise == INSTANCE CommandPriority WITH
    None <- -1, Unacceptable <- -2,
    commands <- SlotsRead, shown <- ValueRead, default <- DefaultRead, asked <- LastAsked

\* What a peer reads of a commandable object is what CommandPriority promises,
\* write by write and through the load controls' own commands: every slot as it
\* was last commanded, the present value that of the first slot in use, an
\* acknowledged command in its slot and a refused one nowhere.
CommandsObeyed == Promise!CommandSpec

-----------------------------------------------------------------------------
ArrayProperties ==
    {"priority_array", "state_text", "shed_levels", "shed_level_descriptions", "object_list"}
\* What a property list names and no read returns, what is read at the wrong
\* index (bv.c), and what is read without a look at the index (bacfile.c).
ReadDenied == {<< "tl", "log_buffer" >>}
ElementsAgree(type, p) == p \in ArrayProperties /\ << type, p >> # << "bv", "priority_array" >>
IndexRefused(type, p) == p \notin ArrayProperties /\ type # "file" /\ << type, p >> \notin ReadDenied

Elementwise(type, n, p, whole) ==
    /\ Reads(type, n, p, 0) = {Ack(<< "unsigned", Len(whole) >>)}
    /\ \A i \in DOMAIN whole : Reads(type, n, p, i) = {Ack(whole[i])}
    /\ Reads(type, n, p, Len(whole) + 1) = {Error("invalid_array_index")}

\* One reply has room for the whole object list, and one for the texts of all the
\* states; in a smaller build these two are refused when they are read whole.
RepliesFit ==
    /\ 5 * Device_Object_List_Count(Device_Start) + 5 < MAX_APDU
    /\ 4 * NUMBER_OF_STATES < MAX_APDU

\* Whatever was written before, a peer that reads an object gets one picture of
\* it: ReadPropertyMultiple of all properties answers every property the object
\* lists, each as a single read does, and in the order of the lists; an array
\* has as many elements as its index 0 says, each the one in the whole; and no
\* other property answers to an index.
ReadsAgree ==
    \A n \in Object_Instances(objects.device, served) :
        LET lists == Device_Objects_Property_List(served)
            names == lists[1] \o lists[2] \o lists[3]
            reads == [k \in DOMAIN names |-> ReadOf(served, n, names[k], All)]
        IN  names # << >> =>
            /\ handler_read_property_multiple(objects, now, served, n, "all", FALSE, TRUE)
                    = Ack([k \in DOMAIN names |-> << names[k], reads[k] >>])
            /\ \A k \in DOMAIN names :
                /\ reads[k][1] = "ack" \/ << served, names[k] >> \in ReadDenied
                /\ ElementsAgree(served, names[k]) => Elementwise(served, n, names[k], reads[k][2])
                /\ IndexRefused(served, names[k]) =>
                    Reads(served, n, names[k], 1) = {Error("property_is_not_an_array")}

\* Writes that are acknowledged and forgotten: a load's shed levels as a whole,
\* whatever is written of a file, and a log's record count, which is not what was
\* written even when that purges it.  Values may be kept rounded or cut to the
\* width they are stored in.
Forgotten(wp) ==
    \/ wp.type = "lc" /\ wp.property = "shed_levels" /\ wp.index = All
    \/ wp.type = "file"
    \/ wp.type = "tl" /\ wp.property = "record_count"
Expected(wp) ==
    CASE wp.property = "present_value" /\ wp.value[1] = "real" -> << "real", Kept(wp.type, wp.value[2]) >>
      [] wp.property \in {"log_interval", "interval_offset"} ->
            << "unsigned", wp.value[2] - (wp.value[2] % 100) >>
      [] wp.property = "log_device_object_property" -> << "reference", SubSeq(wp.value[2], 1, 4) >>
      [] wp.property = "number_of_apdu_retries" -> << "unsigned", wp.value[2] % 2^8 >>
      [] wp.property \in {"apdu_timeout", "vendor_identifier"} -> << "unsigned", wp.value[2] % 2^16 >>
      [] OTHER -> wp.value
\* Only shed levels are written one by one.  No other write looks at its index, so
\* a value "at an index" is that of the whole property, which reads refuse to index.
ReadBack(wp) ==
    LET n == IF wp.type = "device" THEN BACNET_MAX_INSTANCE ELSE wp.instance
        i == IF wp.property = "shed_levels" THEN wp.index ELSE All
    IN  IF wp.type \in Commandable /\ wp.property = "present_value"
        THEN Ack(ReadOf(wp.type, n, "priority_array", All)[2][wp.priority])
        ELSE ReadOf(wp.type, n, wp.property, i)

OneWritten(wp) ==
    /\ \A type \in Types \ {wp.type} : objects'[type] = objects[type]
    /\ wp.type # "device" =>
            \A n \in Object_Instances(objects.device, wp.type) \ {wp.instance} :
                objects'[wp.type][n] = objects[wp.type][n]
    /\ Forgotten(wp) \/ (ReadBack(exchange.wp) = Ack(Expected(exchange.wp)))'
Settled ==
    exchange' \notin {exchange, NoExchange} =>
        IF exchange'.reply[1] # "ack" THEN objects' = objects ELSE OneWritten(exchange'.wp)

\* A write that is refused, for whatever reason, leaves every object as it was;
\* one that is acknowledged changes no other object and, but for those the code
\* forgets (Forgotten), is what the next read returns, the slot of its priority
\* for a command.  A write that repeats the last one, reply and all, is the same
\* exchange and is not looked at again.
WrittenIsRead == [][Settled]_deviceVars

\* Loads that shed stop doing so: the end of their time comes, whatever their
\* peers write meanwhile and whatever the other loads do, at the latest a day
\* late for a shed across midnight.
Shedding == served = "lc" /\ \E n \in Load_Control_Instances : objects.lc[n].state = "compliant"
ShedEnds == Shedding ~> ~Shedding

-----------------------------------------------------------------------------
(* What a range of a log is, from the records that were logged. *)
SequenceOf(log, k) == (log.total - Len(log.history) + k) % SequenceRange
Wanted(log, by, reference, count) ==
    LET after  == {k \in DOMAIN log.history : log.history[k][1] > reference}
        before == {k \in DOMAIN log.history : log.history[k][1] < reference}
    IN  {k \in DOMAIN log.history :
            CASE by = "all" -> TRUE
              [] by = "position" /\ count > 0 -> k \in reference .. reference + count - 1
              [] by = "position" /\ count < 0 -> k \in reference + count + 1 .. reference
              [] by = "sequence" /\ count > 0 ->
                    (SequenceOf(log, k) - reference) % SequenceRange < count
              [] by = "sequence" /\ count < 0 ->
                    (reference - SequenceOf(log, k)) % SequenceRange < -count
              [] by = "time" /\ count > 0 -> k \in after /\ Cardinality({j \in after : j < k}) < count
              [] by = "time" /\ count < 0 -> k \in before /\ Cardinality({j \in before : j > k}) < -count}

\* Of a log whose sequence numbers have wrapped, a range by sequence that begins
\* before the wrap begins in the wrong place, or is empty when it ends after it.
Misread(log, by, reference, count) ==
    /\ by = "sequence" /\ FirstSequence(log) > log.total
    /\ (IF count < 0 THEN (reference + count + 1) % SequenceRange ELSE reference) > log.total

RightRange(log, reply, wanted, by) ==
    LET low  == CHOOSE k \in wanted : \A j \in wanted : k <= j
        sent == low .. low + Len(reply.items) - 1
    IN  IF wanted = {} THEN reply.items = << >> /\ ~reply.more /\ ~reply.first /\ ~reply.last
        ELSE /\ reply.items # << >> /\ sent \subseteq wanted
             /\ reply.items = [k \in 1 .. Len(reply.items) |-> log.history[low + k - 1]]
             /\ reply.more = (sent # wanted)
             /\ reply.first = (1 \in sent)
             /\ reply.last = (Len(log.history) \in sent)
             /\ by \in {"sequence", "time"} => reply.firstSequence = SequenceOf(log, low)

References(by) ==
    CASE by = "position" -> 1 .. TL_MAX_ENTRIES + 1 [] by = "sequence" -> 0 .. SequenceRange - 1
      [] by = "time" -> 1 .. LastTime["tl"] [] by = "all" -> {1}

\* However a log was filled, purged, switched and wrapped, a range that is read
\* of it is that of the records that were logged, in their order, as many as the
\* reply has room for, with flags and a first sequence number that are true; all
\* but the ranges by sequence number that begin before the numbers of the log
\* wrapped, which the code misreads (Misread).
LogReadsTrue ==
    served = "tl" => \A n \in Trend_Log_Instances :
        LET log == objects.tl[n]
        IN  \A by \in {"all", "position", "sequence", "time"} :
                \A reference \in References(by), count \in RangeCounts :
                    \/ Misread(log, by, reference, count)
                    \/ RightRange(log, handler_read_range(objects, "tl", n, "log_buffer", All, by,
                                                          reference, count, FALSE)[2],
                                  Wanted(log, by, reference, count), by)

-----------------------------------------------------------------------------
\* The object list has every object of the table once, and a name leads to an
\* object of that name, the only one there is if there is only one; only the
\* last object of the list is never found by its name.
FoundByName ==
    served \in {"device", "msi"} =>
        LET count   == Device_Object_List_Count(objects.device)
            entries == UNION {{i} \X Device_Object_List_Identifier(objects.device, i) : i \in 1 .. count}
            named   == {<< e[1], e[2], Device_Valid_Object_Id(objects, e[2][1], e[2][2]) >> : e \in entries}
            Firsts(name) == {e \in named : e[3] = name /\ e[1] < count
                                /\ \A d \in named : d[3] = name => e[1] <= d[1]}
        IN  /\ Cardinality(entries) = count /\ {e[1] : e \in entries} = 1 .. count
            /\ {e[2] : e \in entries} =
                    UNION {{Object_Table[k]} \X Object_Instances(objects.device, Object_Table[k]) :
                              k \in DOMAIN Object_Table}
            /\ \A name \in {e[3] : e \in named} :
                    Device_Valid_Object_Name(objects, name) = {e[2] : e \in Firsts(name)}
=============================================================================
