------------------------------ MODULE TrendLog ------------------------------
(***************************************************************************)
(* Trend log objects (trendlog.c): a ring of records that a status change, *)
(* a purge or a poll of the logged property fills, and that a ReadRange    *)
(* request reads by position, by sequence number or by time.               *)
(*                                                                         *)
(* A record is << stamp, datum, flags >>, flags << >> when none were read; *)
(* times and intervals are in ticks, the seconds of the code.              *)
(***************************************************************************)
EXTENDS Properties, SequencesExt

CONSTANTS
    MAX_TREND_LOGS, TL_MAX_ENTRIES,
    SequenceRange,          \* 2^32, the range of ulTotalRecordCount
    DefaultInterval         \* 900 seconds

ASSUME TrendLogAssumption ==
    /\ {MAX_TREND_LOGS, TL_MAX_ENTRIES, DefaultInterval} \subseteq Nat \ {0}
    /\ SequenceRange \in Nat /\ SequenceRange > 10 * TL_MAX_ENTRIES

Trend_Log_Property_Lists ==
    << << "object_identifier", "object_name", "object_type", "enable", "stop_when_full",
          "buffer_size", "log_buffer", "record_count", "total_record_count", "event_state",
          "logging_type", "status_flags" >>,
       << "description", "start_time", "stop_time", "log_device_object_property",
          "log_interval", "align_intervals", "interval_offset", "trigger" >>, << >> >>
Trend_Log_Instances == 0 .. MAX_TREND_LOGS - 1
Trend_Log_Name(n) == << "Trend Log", n >>
NoFlags == << >>
AllClear == << FALSE, FALSE, FALSE, FALSE >>

\* A full log of made-up readings; each has flags in the even logs.  The stop
\* time is past before the program can have started.  "history" is a history
\* variable: the records since the last purge that the ring has room for.
SampleRecords(n) ==
    [j \in 1 .. TL_MAX_ENTRIES |->
        << j * DefaultInterval, << "real", 10 * (j - 1 + n * TL_MAX_ENTRIES) >>,
           IF n % 2 = 0 THEN AllClear ELSE NoFlags >>]
Trend_Log_Init ==
    [n \in Trend_Log_Instances |->
        [entries |-> [e \in 0 .. TL_MAX_ENTRIES - 1 |-> SampleRecords(n)[e + 1]],
         index |-> 0, count |-> TL_MAX_ENTRIES, total |-> 10 * TL_MAX_ENTRIES,
         last |-> TL_MAX_ENTRIES * DefaultInterval, enable |-> TRUE, stopWhenFull |-> FALSE,
         start |-> 0, stop |-> TL_MAX_ENTRIES * DefaultInterval, type |-> "polled",
         interval |-> DefaultInterval, aligned |-> TRUE, offset |-> 0, trigger |-> FALSE,
         source |-> << "ai", n, "present_value", All >>, history |-> SampleRecords(n)]]

-----------------------------------------------------------------------------
TL_Is_Enabled(log, now) ==
    /\ log.enable
    /\ log.start # Wild => now >= log.start
    /\ log.stop # Wild => now <= log.stop

Newest(records) == IF Len(records) <= TL_MAX_ENTRIES THEN records ELSE Tail(records)

\* (mutant: the ring is one record shorter when it wraps)
WrapsEarly(log, record) ==
    [log EXCEPT !.entries[log.index] = record,
                !.index = IF @ + 1 >= TL_MAX_ENTRIES - 1 THEN 0 ELSE @ + 1,
                !.total = (@ + 1) % SequenceRange,
                !.count = IF @ < TL_MAX_ENTRIES THEN @ + 1 ELSE @,
                !.history = Newest(Append(@, record))]
Recorded(log, record) ==
    [log EXCEPT !.entries[log.index] = record,
                !.index = IF @ + 1 >= TL_MAX_ENTRIES THEN 0 ELSE @ + 1,
                !.total = (@ + 1) % SequenceRange,
                !.count = IF @ < TL_MAX_ENTRIES THEN @ + 1 ELSE @,
                !.history = Newest(Append(@, record))]

TL_Insert_Status_Rec(log, status, now) == Recorded(log, << now, << "status", status >>, NoFlags >>)
Purged(log, now) ==
    TL_Insert_Status_Rec([log EXCEPT !.count = 0, !.index = 0, !.history = << >>],
                         "buffer_purged", now)

\* A change of what enables a log is recorded when the log is enabled before
\* and not after, or the other way round.
Switched(before, after, now) ==
    CASE TL_Is_Enabled(before, now) /\ ~TL_Is_Enabled(after, now) ->
            TL_Insert_Status_Rec(after, "log_disabled", now)
      [] ~TL_Is_Enabled(before, now) /\ TL_Is_Enabled(after, now) ->
            TL_Insert_Status_Rec(after, "log_enabled", now)
      [] OTHER -> after

-----------------------------------------------------------------------------
Trend_Log_Read_Property(tl, n, p, i) ==
    LET log == tl[n]
    IN  IF p = "log_buffer" THEN Error("read_access_denied")
        ELSE Reading(Identified("tl", n, Trend_Log_Name(n)) ++ Described(Trend_Log_Name(n))
                     ++ [enable |-> << "boolean", log.enable >>,
                         stop_when_full |-> << "boolean", log.stopWhenFull >>,
                         buffer_size |-> << "unsigned", TL_MAX_ENTRIES >>,
                         record_count |-> << "unsigned", log.count >>,
                         total_record_count |-> << "unsigned", log.total >>,
                         event_state |-> << "enumerated", "normal" >>,
                         logging_type |-> << "enumerated", log.type >>,
                         status_flags |-> << "bits", AllClear >>,
                         start_time |-> << "datetime", log.start >>,
                         stop_time |-> << "datetime", log.stop >>,
                         log_device_object_property |-> << "reference", log.source >>,
                         log_interval |-> << "unsigned", log.interval * 100 >>,
                         align_intervals |-> << "boolean", log.aligned >>,
                         interval_offset |-> << "unsigned", log.offset * 100 >>,
                         trigger |-> << "boolean", log.trigger >>], NoArrays, p, i)

\* (mutant: the flag is set before the full log is refused)
EnabledThenRefused(log, v, now) ==
    IF ~log.enable /\ log.stopWhenFull /\ log.count = TL_MAX_ENTRIES /\ v
    THEN Refused([log EXCEPT !.enable = v], "log_buffer_full")
    ELSE Done(Switched(log, [log EXCEPT !.enable = v], now))

\* The full log that stops when full cannot be enabled again.
EnableWritten(log, v, now) ==
    IF ~log.enable /\ log.stopWhenFull /\ log.count = TL_MAX_ENTRIES /\ v
    THEN Refused(log, "log_buffer_full")
    ELSE Done(Switched(log, [log EXCEPT !.enable = v], now))

StopWhenFullWritten(log, v, now) ==
    LET stopping == [log EXCEPT !.stopWhenFull = v]
    IN  IF v /\ ~log.stopWhenFull /\ log.count = TL_MAX_ENTRIES /\ log.enable
        THEN TL_Insert_Status_Rec([stopping EXCEPT !.enable = FALSE], "log_disabled", now)
        ELSE stopping

TypeWritten(log, v) ==
    [log EXCEPT !.type = v,
                !.interval = CASE v = "polled" /\ @ = 0 -> DefaultInterval
                               [] v = "triggered" -> 0
                               [] OTHER -> @]

\* Only this device's properties can be logged; a new source purges the log.
SourceWritten(log, wp, device, now) ==
    IF wp.value[1] # "reference" THEN Refused(log, "other")
    ELSE IF Len(wp.value[2]) > 4 /\ wp.value[2][5] # device
         THEN Refused(log, "optional_functionality_not_supported")
    ELSE LET source == SubSeq(wp.value[2], 1, 4)
         IN  Done([(IF source # log.source THEN Purged(log, now) ELSE log) EXCEPT !.source = source])

LogWritten(log, wp, device, now) ==
    LET v == wp.value[2]
        Checked(tag, after) ==
            IF WPValidateArgType(wp.value, tag) THEN Done(after) ELSE Refused(log, "invalid_data_type")
        \* what is refused though the value has the right type
        Unless(refusal, tag, code, after) ==
            IF WPValidateArgType(wp.value, tag) /\ refusal THEN Refused(log, code)
            ELSE Checked(tag, after)
    IN  CASE wp.property = "enable" ->
                IF WPValidateArgType(wp.value, "boolean") THEN EnableWritten(log, v, now)
                ELSE Refused(log, "invalid_data_type")
          [] wp.property = "stop_when_full" -> Checked("boolean", StopWhenFullWritten(log, v, now))
          [] wp.property = "record_count" ->
                Checked("unsigned", IF v = 0 THEN Purged(log, now) ELSE log)
          [] wp.property = "logging_type" ->
                Unless(v = "cov", "enumerated", "optional_functionality_not_supported",
                       TypeWritten(log, v))
          [] wp.property = "start_time" ->
                Checked("datetime", Switched(log, [log EXCEPT !.start = v], now))
          [] wp.property = "stop_time" ->
                Checked("datetime", Switched(log, [log EXCEPT !.stop = v], now))
          [] wp.property = "log_device_object_property" -> SourceWritten(log, wp, device, now)
          [] wp.property = "log_interval" ->
                IF log.type = "triggered" THEN Refused(log, "write_access_denied")
                ELSE Unless(log.type = "polled" /\ v = 0, "unsigned",
                            "optional_functionality_not_supported",
                            [log EXCEPT !.interval = v \div 100])
          [] wp.property = "align_intervals" -> Checked("boolean", [log EXCEPT !.aligned = v])
          [] wp.property = "interval_offset" -> Checked("unsigned", [log EXCEPT !.offset = v \div 100])
          [] wp.property = "trigger" ->
                Unless(log.type = "polled" /\ log.aligned, "boolean",
                       "not_configured_for_triggered_logging", [log EXCEPT !.trigger = v])
          [] OTHER -> Refused(log, "write_access_denied")

Trend_Log_Write_Property(tl, wp, device, now) ==
    LET written == LogWritten(tl[wp.instance], wp, device, now)
    IN  [reply |-> written.reply, after |-> [tl EXCEPT ![wp.instance] = written.after]]

-----------------------------------------------------------------------------
(* Polling.  Read(source) is what Device_Read_Property answers, and a      *)
(* record's flags are those of the object that was read.                   *)
Loggable == {"null", "boolean", "unsigned", "signed", "real", "bits", "enumerated"}

\* "value" and "flags" are the replies to reading the property and the object's
\* status flags, for every log in trend_log_timer.
local_read_property(value, flags) ==
    IF value[1] # "ack" THEN << value, flags >>
    ELSE IF flags[1] # "ack" THEN << flags, flags >>
    ELSE << value, flags >>

TL_fetch_property(log, now, value, flags) ==
    LET read  == local_read_property(value, flags)
        datum == IF read[1][1] # "ack" THEN << "error", read[1][2] >>
                 ELSE IF read[1][2][1] \in Loggable THEN read[1][2]
                 ELSE << "error", "datatype_not_supported" >>
    IN  Recorded([log EXCEPT !.last = now],
                 << now, datum, IF read[1][1] = "ack" THEN read[2][2][2] ELSE NoFlags >>)

\* An interval below a whole unit is kept as 0, and an aligned log divides by it.
DividesByZero(log, now) ==
    TL_Is_Enabled(log, now) /\ log.type = "polled" /\ log.aligned /\ log.interval = 0

IsDue(log, now) ==
    CASE log.type = "polled" /\ log.aligned ->
            now % log.interval = log.offset % log.interval \/ now - log.last > log.interval
      [] log.type = "polled" /\ ~log.aligned -> now - log.last >= log.interval \/ log.trigger
      [] OTHER -> log.trigger

\* Every second, for an application that calls it.
trend_log_timer(tl, now, values, flags) ==
    [n \in DOMAIN tl |->
        IF ~TL_Is_Enabled(tl[n], now) \/ tl[n].type \notin {"polled", "triggered"} THEN tl[n]
        ELSE [(IF IsDue(tl[n], now) THEN TL_fetch_property(tl[n], now, values[n], flags[n]) ELSE tl[n])
              EXCEPT !.trigger = FALSE]]

-----------------------------------------------------------------------------
(* Reading a range.  Entries are numbered from 1, the oldest.              *)
TL_MAX_ENC == 23
DatumOctets(datum) ==
    CASE datum[1] = "error" -> 6 [] datum[1] = "real" -> 5
      [] datum[1] \in {"status", "bits"} -> 3 [] datum[1] = "null" -> 1
      [] OTHER -> 2
EntryOctets(record) == 14 + DatumOctets(record[2]) + (IF record[3] = NoFlags THEN 0 ELSE 3)

TL_encode_entry(log, entry) ==
    IF log.count < TL_MAX_ENTRIES THEN log.entries[(entry - 1) % TL_MAX_ENTRIES]
    ELSE log.entries[(log.index + entry - 1) % TL_MAX_ENTRIES]

\* Entries first to last, as many as there is room for.
Encoded(log, first, last, room) ==
    LET Rooms[e \in first - 1 .. last] ==
            IF e = first - 1 THEN room ELSE Rooms[e - 1] - EntryOctets(TL_encode_entry(log, e))
        Fits(e) == \A k \in first .. e : Rooms[k - 1] >= TL_MAX_ENC
        taken   == {e \in first .. last : Fits(e)}
        reached == IF taken = {} THEN 0 ELSE first + Cardinality(taken) - 1
    IN  [items |-> [k \in 1 .. Cardinality(taken) |-> TL_encode_entry(log, first + k - 1)],
         first |-> first = 1, last |-> reached = log.count,
         more |-> Cardinality(taken) < last - first + 1]

NoItems == [items |-> << >>, first |-> FALSE, last |-> FALSE, more |-> FALSE]
Ranged(encoded, sequence) == encoded ++ [firstSequence |-> sequence]

TL_encode_by_position(log, reference, count, room) ==
    LET before == reference + count + 1
        first  == IF count > 0 THEN reference ELSE IF before < 1 THEN 1 ELSE before
        items  == IF count > 0 THEN count ELSE IF before < 1 THEN reference ELSE -count
        last   == IF first + items - 1 > log.count THEN log.count ELSE first + items - 1
    IN  Ranged(IF first > log.count THEN NoItems ELSE Encoded(log, first, last, room), 0)

\* Sequence numbers wrap, those of the request and those of the log: the
\* clipping has a case for each combination.  In the fourth the range begins in
\* the wrong place, and what is read there need not be a record of the log.
FirstSequence(log) == (log.total - (log.count - 1)) % SequenceRange
Clipped(begin, end, first, total) ==
    CASE begin <= end /\ first <= total ->
            << IF begin < first THEN first ELSE begin, IF end > total THEN total ELSE end >>
      [] begin > end /\ first <= total /\ end < first ->
            << IF begin < first THEN first ELSE begin, total >>
      [] begin > end /\ first <= total /\ end >= first ->
            << first, IF end > total THEN total ELSE end >>
      [] begin <= end /\ first > total /\ begin > total ->
            << IF begin > first THEN first ELSE begin, end >>
      [] begin <= end /\ first > total /\ begin <= total ->
            << begin, IF end > total THEN total ELSE end >>
      [] begin > end /\ first > total ->
            << IF begin < first THEN first ELSE begin, IF end > total THEN total ELSE end >>
OutsideLog(begin, end, first, total) ==
    IF begin <= end /\ first <= total THEN end < first \/ begin > total
    ELSE begin > total /\ end < first

TL_encode_by_sequence(log, reference, count, room) ==
    LET begin == IF count < 0 THEN (reference + count + 1) % SequenceRange ELSE reference
        end   == IF count < 0 THEN reference ELSE (reference + count - 1) % SequenceRange
        first == FirstSequence(log)
        span  == Clipped(begin, end, first, log.total)
        entry == (span[1] - first + 1) % SequenceRange
    IN  IF OutsideLog(begin, end, first, log.total) THEN Ranged(NoItems, 0)
        ELSE Ranged(Encoded(log, entry, entry + ((span[2] - span[1]) % SequenceRange), room), span[1])

\* From the newest entry before the time backwards, or from the oldest after it.
TL_encode_by_time(log, time, count, room) ==
    LET Stamp(e) == TL_encode_entry(log, e)[1]
        before   == {e \in 1 .. log.count : Stamp(e) < time}
        after    == {e \in 1 .. log.count : Stamp(e) > time}
        newest   == CHOOSE e \in before : \A d \in before : d <= e
        first    == IF count > 0 THEN CHOOSE e \in after : \A d \in after : e <= d
                    ELSE IF -count > newest THEN 1 ELSE newest + count + 1
        last     == IF count < 0 THEN newest
                    ELSE IF first + count - 1 > log.count THEN log.count ELSE first + count - 1
    IN  IF (IF count > 0 THEN after ELSE before) = {} THEN Ranged(NoItems, 0)
        ELSE Ranged(Encoded(log, first, last, room), (FirstSequence(log) + first - 1) % SequenceRange)

RR_OVERHEAD == 16
RR_1ST_SEQ_OVERHEAD == 5
rr_trend_log_encode(log, by, reference, count) ==
    LET room == MAX_APDU - RR_OVERHEAD
    IN  CASE log.count = 0 -> Ranged(NoItems, 0)
          [] log.count > 0 /\ by = "all" -> TL_encode_by_position(log, 1, log.count, room)
          [] log.count > 0 /\ by = "position" -> TL_encode_by_position(log, reference, count, room)
          [] log.count > 0 /\ by = "sequence" ->
                TL_encode_by_sequence(log, reference, count, room - RR_1ST_SEQ_OVERHEAD)
          [] log.count > 0 /\ by = "time" ->
                TL_encode_by_time(log, reference, count, room - RR_1ST_SEQ_OVERHEAD)
=============================================================================
